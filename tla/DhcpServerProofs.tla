-------------------------- MODULE DhcpServerProofs --------------------------
(***************************************************************************)
(* Theorems about DhcpServer, for every set of clients and addresses and   *)
(* every choice of the times, capacities and operator settings.            *)
(***************************************************************************)
EXTENDS DhcpServer, TLAPS, FiniteSetTheorems, WellFoundedInduction

-----------------------------------------------------------------------------
(* Least elements: the helpers Min and FirstInMap of the address choice.   *)

\* A non-empty set of naturals has a least element.
LEMMA NatHasLeast ==
    ASSUME NEW T, T \subseteq Nat, T # {}
    PROVE  \E x \in T : \A y \in T : x <= y
<1>1. \E x \in T : \A y \in T : ~(<<y, x>> \in OpToRel(<, Nat))
  BY WFMin, NatLessThanWellFounded, Zenon
<1>2. PICK x \in T : \A y \in T : ~(<<y, x>> \in OpToRel(<, Nat))
  BY <1>1
<1>3. \A y \in T : x <= y
  <2>1. TAKE y \in T
  <2>2. ~(<<y, x>> \in {ss \in Nat \X Nat : ss[1] < ss[2]})
    BY <1>2 DEF OpToRel
  <2>3. x \in Nat /\ y \in Nat
    OBVIOUS
  <2>4. QED
    BY <2>2, <2>3
<1>4. QED
  BY <1>3

\* Min picks a member of its argument.
LEMMA MinMember ==
    ASSUME NEW T, T \subseteq Nat, T # {}
    PROVE  Min(T) \in T
BY NatHasLeast DEF Min

\* The network-order value of an address is a natural number.
LEMMA NetOrderNat ==
    ASSUME NEW a \in Nat
    PROVE  NetOrder(a) \in Nat
<1>1. Octet \in Nat /\ Octet >= 2
  BY PoolAssumption
<1>2. a % Octet \in Nat /\ a \div Octet \in Nat
  BY <1>1
<1>3. (a % Octet) * Octet \in Nat
  BY <1>1, <1>2
<1>4. QED
  BY <1>2, <1>3 DEF NetOrder

LEMMA AddrNat == Addr \subseteq Nat
BY DhcpAssumption, PoolAssumption DEF Word

\* The first entry of the map in key order is an entry of the map.
LEMMA FirstInMapMember ==
    ASSUME NEW S, S \subseteq Addr, S # {}
    PROVE  FirstInMap(S) \in S
<1> DEFINE T == {NetOrder(a) : a \in S}
<1>1. T \subseteq Nat /\ T # {}
  BY AddrNat, NetOrderNat
<1>2. PICK n \in T : \A k \in T : n <= k
  BY <1>1, NatHasLeast
<1>3. PICK a \in S : NetOrder(a) = n
  BY <1>2
<1>4. \A b \in S : NetOrder(a) <= NetOrder(b)
  BY <1>2, <1>3
<1>5. QED
  BY <1>3, <1>4 DEF FirstInMap

-----------------------------------------------------------------------------
(* The operators on the lease table.                                       *)

LEMMA Times ==
    /\ LeaseTime \in Nat /\ OfferHold \in Nat /\ Longest \in Nat
    /\ LeaseTime \in 0 .. Longest /\ OfferHold \in 0 .. Longest
    /\ DeclineHold \in Nat /\ ProbeDelay \in Nat
BY DhcpAssumption DEF Longest

\* What is left only ever shrinks.
LEMMA MinusType ==
    ASSUME NEW k \in Nat, NEW n \in 0 .. k, NEW d \in Nat
    PROVE  /\ Minus(n, d) \in 0 .. k
           /\ Minus(n, d) <= n
BY DEF Minus

LEMMA PurgeType ==
    ASSUME NEW L \in Table
    PROVE  /\ removeExpiredLeases(L) \in Table
           /\ \A a \in Addr :
                 \/ removeExpiredLeases(L)[a] = L[a]
                 \/ /\ L[a] # NoLease /\ L[a].left = 0
                    /\ removeExpiredLeases(L)[a] = NoLease
BY DEF removeExpiredLeases, Table

\* Ageing keeps every entry, its owner and its name.
LEMMA AgeType ==
    ASSUME NEW L \in Table, NEW d \in Nat
    PROVE  /\ AgeLeases(L, d) \in Table
           /\ \A a \in Addr :
                 /\ L[a] = NoLease => AgeLeases(L, d)[a] = NoLease
                 /\ L[a] # NoLease =>
                       /\ AgeLeases(L, d)[a] # NoLease
                       /\ AgeLeases(L, d)[a].mac = L[a].mac
                       /\ AgeLeases(L, d)[a].left = Minus(L[a].left, d)
<1> DEFINE A == AgeLeases(L, d)
<1>1. ASSUME NEW a \in Addr, L[a] = NoLease
      PROVE  A[a] = NoLease
  BY <1>1 DEF AgeLeases
<1>2. ASSUME NEW a \in Addr, L[a] # NoLease
      PROVE  /\ A[a] \in Lease
             /\ A[a].mac = L[a].mac /\ A[a].left = Minus(L[a].left, d)
  <2>1. L[a] \in Lease
    BY <1>2 DEF Table
  <2>2. A[a] = [L[a] EXCEPT !.left = Minus(@, d)]
    BY <1>2 DEF AgeLeases
  <2>3. Minus(L[a].left, d) \in 0 .. Longest
    BY <2>1, Times, MinusType DEF Lease
  <2>4. QED
    BY <2>1, <2>2, <2>3 DEF Lease
<1>3. A \in Table
  BY <1>1, <1>2 DEF AgeLeases, Table
<1>4. NoLease \notin Lease
  BY DhcpAssumption
<1>5. QED
  BY <1>1, <1>2, <1>3, <1>4

\* Making room removes expired entries at most.
LEMMA RoomType ==
    ASSUME NEW L \in Table, NEW ip \in Addr
    PROVE  /\ RoomFor(L, ip) \in Table
           /\ \A a \in Addr :
                 \/ RoomFor(L, ip)[a] = L[a]
                 \/ /\ L[a] # NoLease /\ L[a].left = 0
                    /\ RoomFor(L, ip)[a] = NoLease
BY PurgeType DEF RoomFor

LEMMA AddLeaseType ==
    ASSUME NEW L \in Table, NEW c \in Mac, NEW ip \in Addr, NEW name \in NamesOf(c)
    PROVE  /\ addLease(L, c, ip, name) \in Table
           /\ addLease(L, c, ip, name)[ip] # NoLease
           /\ addLease(L, c, ip, name)[ip].mac = c
           /\ addLease(L, c, ip, name)[ip].left = LeaseTime
           /\ \A a \in Addr \ {ip} : addLease(L, c, ip, name)[a] = L[a]
<1> DEFINE e == [mac |-> c, left |-> LeaseTime, host |-> name]
<1>1. e \in Lease
  BY Times, DhcpAssumption DEF Lease, NamesOf
<1>2. e # NoLease
  BY <1>1, DhcpAssumption
<1>3. QED
  BY <1>1, <1>2 DEF addLease, Table

\* reserveOffer either keeps a longer entry (its name may change) or writes the
\* client's reservation; the other addresses lose expired entries at most.
LEMMA ReserveType ==
    ASSUME NEW L \in Table, NEW c \in Mac, NEW ip \in Addr, NEW name \in NamesOf(c)
    PROVE  LET R == reserveOffer(L, c, ip, name)
           IN  /\ R \in Table
               /\ R[ip] # NoLease
               /\ KeepsLongLease(L, ip) => R[ip].mac = L[ip].mac /\ R[ip].left = L[ip].left
               /\ ~KeepsLongLease(L, ip) => R[ip].mac = c /\ R[ip].left = OfferHold
               /\ \A a \in Addr \ {ip} :
                     \/ R[a] = L[a]
                     \/ L[a] # NoLease /\ L[a].left = 0 /\ R[a] = NoLease
<1> DEFINE R == reserveOffer(L, c, ip, name)
           e == [mac |-> c, left |-> OfferHold, host |-> name]
<1>1. name \in Mac \cup {NoName}
  BY DhcpAssumption DEF NamesOf
<1>2. e \in Lease /\ NoLease \notin Lease
  BY <1>1, Times, DhcpAssumption DEF Lease
<1>3. CASE ~KeepsLongLease(L, ip)
  <2>1. R = [RoomFor(L, ip) EXCEPT ![ip] = e]
    BY <1>3 DEF reserveOffer
  <2>2. QED
    BY <1>2, <1>3, <2>1, RoomType DEF Table
<1>4. CASE KeepsLongLease(L, ip) /\ name = NoName
  BY <1>4 DEF reserveOffer, KeepsLongLease
<1>5. CASE KeepsLongLease(L, ip) /\ name # NoName
  <2>1. R = [L EXCEPT ![ip].host = name]
    BY <1>5 DEF reserveOffer
  <2>2. L[ip] \in Lease /\ L[ip] # NoLease
    BY <1>5 DEF KeepsLongLease, Table
  <2>3. R[ip] = [L[ip] EXCEPT !.host = name] /\ \A a \in Addr \ {ip} : R[a] = L[a]
    BY <2>1 DEF Table
  <2>4. R[ip] \in Lease /\ R[ip].mac = L[ip].mac /\ R[ip].left = L[ip].left
    BY <1>1, <2>2, <2>3 DEF Lease
  <2>5. R \in Table
    BY <2>1, <2>4 DEF Table
  <2>6. QED
    BY <1>2, <1>5, <2>3, <2>4, <2>5
<1>6. QED
  BY <1>3, <1>4, <1>5

-----------------------------------------------------------------------------
(* The choice of an address.                                               *)

\* What selectIp and the requested address can come to: an address statically
\* bound to the client, one it holds, or one that is not held down.
LEMMA OfferIpCases ==
    ASSUME TypeOK, NEW L \in Table, NEW c \in Mac,
           NEW req \in Addr \cup {NoAddr}, NEW answers,
           OfferIp(c, req, L, answers) # NoAddr
    PROVE  LET ip == OfferIp(c, req, L, answers)
           IN  /\ ip \in Addr
               /\ \/ isStaticBindingForMac(c, ip)
                  \/ L[ip] # NoLease /\ L[ip].mac = c
                  \/ ~addressDeclined(ip)
<1> DEFINE ip == OfferIp(c, req, L, answers)
           F  == FreeBindings(c, L)
           P  == Probed(L) \ answers
<1>1. CASE HonourRequested(c, req, answers)
  BY <1>1 DEF OfferIp, HonourRequested
<1>2. ASSUME ~HonourRequested(c, req, answers), F # {}
      PROVE  ip \in Addr /\ isStaticBindingForMac(c, ip)
  <2>1. staticBindings \in Seq(Binding)
    BY DhcpAssumption DEF TypeOK
  <2>2. F \subseteq Nat /\ F \subseteq DOMAIN staticBindings
    BY <2>1 DEF FreeBindings
  <2>3. Min(F) \in F
    BY <1>2, <2>2, MinMember
  <2>4. ip = staticBindings[Min(F)].ip
    BY <1>2 DEF OfferIp, selectIp
  <2>5. staticBindings[Min(F)] \in Binding
    BY <2>1, <2>2, <2>3
  <2>6. QED
    BY <2>2, <2>3, <2>4, <2>5 DEF FreeBindings, isStaticBindingForMac, Binding
<1>3. ASSUME ~HonourRequested(c, req, answers), F = {}, Held(c, L) # {}
      PROVE  ip \in Addr /\ L[ip] # NoLease /\ L[ip].mac = c
  <2>1. ip = FirstInMap(Held(c, L))
    BY <1>3 DEF OfferIp, selectIp
  <2>2. Held(c, L) \subseteq Addr
    BY DEF Held
  <2>3. ip \in Held(c, L)
    BY <1>3, <2>1, <2>2, FirstInMapMember
  <2>4. QED
    BY <2>3 DEF Held
<1>4. ASSUME ~HonourRequested(c, req, answers), F = {}, Held(c, L) = {}
      PROVE  ip \in Addr /\ ~addressDeclined(ip)
  <2>1. P # {} /\ ip = Min(P)
    BY <1>4 DEF OfferIp, selectIp
  <2>2. P \subseteq Addr /\ P \subseteq Nat
    BY DhcpAssumption, AddrNat DEF Probed
  <2>3. ip \in P
    BY <2>1, <2>2, MinMember
  <2>4. QED
    BY <2>2, <2>3 DEF Probed
<1>5. QED
  BY <1>1, <1>2, <1>3, <1>4

-----------------------------------------------------------------------------
(* Type correctness.                                                       *)

LEMMA AgeToldType ==
    ASSUME NEW k \in Nat, NEW G \in [Mac -> [Addr -> 0 .. k]], NEW d \in Nat
    PROVE  /\ AgeTold(G, d) \in [Mac -> [Addr -> 0 .. k]]
           /\ \A c \in Mac, a \in Addr : AgeTold(G, d)[c][a] = Minus(G[c][a], d)
BY MinusType DEF AgeTold

\* Writing one cell of a two-level function.
LEMMA CellType ==
    ASSUME NEW R, NEW G \in [Mac -> [Addr -> R]], NEW c \in Mac, NEW a \in Addr,
           NEW v \in R
    PROVE  /\ [G EXCEPT ![c][a] = v] \in [Mac -> [Addr -> R]]
           /\ [G EXCEPT ![c][a] = v][c][a] = v
           /\ \A m \in Mac, b \in Addr :
                 m # c \/ b # a => [G EXCEPT ![c][a] = v][m][b] = G[m][b]
<1> DEFINE H == [G EXCEPT ![c][a] = v]
<1>1. H[c] = [G[c] EXCEPT ![a] = v] /\ \A m \in Mac \ {c} : H[m] = G[m]
  OBVIOUS
<1>2. H[c] \in [Addr -> R]
  BY <1>1
<1>3. H \in [Mac -> [Addr -> R]]
  BY <1>1, <1>2
<1>4. QED
  BY <1>1, <1>3

LEMMA AgeDeclinedType ==
    ASSUME NEW D \in [Slot -> Entry], NEW d \in Nat
    PROVE  /\ AgeDeclined(D, d) \in [Slot -> Entry]
           /\ \A s \in Slot : /\ AgeDeclined(D, d)[s].ip = D[s].ip
                              /\ AgeDeclined(D, d)[s].left = Minus(D[s].left, d)
<1>1. ASSUME NEW s \in Slot
      PROVE  /\ AgeDeclined(D, d)[s] \in Entry
             /\ AgeDeclined(D, d)[s].ip = D[s].ip
             /\ AgeDeclined(D, d)[s].left = Minus(D[s].left, d)
  BY MinusType, Times DEF AgeDeclined, Entry
<1>2. QED
  BY <1>1 DEF AgeDeclined

\* What the slot chosen by DeclinedAddresses::add is.
LEMMA AddSlotCases ==
    ASSUME TypeOK, NEW ip
    PROVE  LET own  == {s \in Slot : declined[s].left > 0 /\ declined[s].ip = ip}
               free == {s \in Slot : declined[s].left = 0}
               old  == {s \in Slot : \A t \in Slot : declined[s].left <= declined[t].left}
           IN  \/ AddSlot(ip) \in own
               \/ own = {} /\ AddSlot(ip) \in free
               \/ own = {} /\ free = {} /\ AddSlot(ip) \in old
<1> DEFINE own  == {s \in Slot : declined[s].left > 0 /\ declined[s].ip = ip}
           free == {s \in Slot : declined[s].left = 0}
           old  == {s \in Slot : \A t \in Slot : declined[s].left <= declined[t].left}
           T    == {declined[s].left : s \in Slot}
<1>1. Slot \subseteq Nat /\ 1 \in Slot
  BY DhcpAssumption DEF Slot
<1>2. \A s \in Slot : declined[s].left \in Nat
  BY Times DEF TypeOK, Entry
<1>3. old # {}
  <2>1. T \subseteq Nat /\ T # {}
    BY <1>1, <1>2
  <2>2. PICK n \in T : \A k \in T : n <= k
    BY <2>1, NatHasLeast
  <2>3. QED
    BY <2>2
<1>4. /\ own # {} => Min(own) \in own
      /\ free # {} => Min(free) \in free
      /\ Min(old) \in old
  BY <1>1, <1>3, MinMember
<1>5. AddSlot(ip) = Min(IF own # {} THEN own ELSE IF free # {} THEN free ELSE old)
  BY DEF AddSlot
<1>6. QED
  BY <1>4, <1>5

\* DeclinedAddresses::add writes one of its slots.
LEMMA AddSlotType ==
    ASSUME TypeOK, NEW ip
    PROVE  AddSlot(ip) \in Slot
BY AddSlotCases

LEMMA LimitType ==
    ASSUME NEW n \in LimitConfigs
    PROVE  EffectiveLimit(n) \in Nat
<1>1. n \in Nat /\ MinLeaseEntries \in Nat /\ MaxLeaseEntries \in Nat
  BY DhcpAssumption, PoolAssumption
<1>2. Word \in Nat /\ Word > 0
  BY PoolAssumption DEF Word
<1>3. PoolSize \in Int
  BY <1>2, PoolAssumption DEF PoolSize
<1>4. (PoolSize * 2) % Word \in Nat
  BY <1>2, <1>3
<1>5. QED
  BY <1>1, <1>4 DEF EffectiveLimit, Clamp

\* The tables a packet's handler works on: the purged one, and the same table
\* once the probes' time has passed.
LEMMA WorkTables ==
    ASSUME TypeOK, NEW d \in 0 .. ProbeDelay
    PROVE  /\ d \in Nat
           /\ removeExpiredLeases(leases) \in Table
           /\ AgeLeases(removeExpiredLeases(leases), d) \in Table
<1>1. d \in Nat
  BY Times
<1>2. QED
  BY <1>1, PurgeType, AgeType DEF TypeOK

LEMMA PassesType ==
    ASSUME TypeOK, NEW d \in Nat, Passes(d)
    PROVE  declined' \in [Slot -> Entry] /\ policyAge' \in 0 .. Longest
<1>1. declined' \in [Slot -> Entry]
  BY AgeDeclinedType DEF TypeOK, Passes
<1>2. policyAge' \in 0 .. Longest
  BY Times DEF TypeOK, Passes
<1>3. QED
  BY <1>1, <1>2

LEMMA ConfigType ==
    ASSUME TypeOK, UNCHANGED config
    PROVE  /\ staticBindings' \in StaticConfigs
           /\ allowOnly' \in BOOLEAN /\ allowedList' \in SUBSET Mac
           /\ maxEntries' \in Nat
BY DEF TypeOK, config

LEMMA DiscoverType ==
    ASSUME TypeOK, NEW c \in Mac, NEW req \in Addr \cup {NoAddr},
           NEW name \in NamesOf(c), NEW answers, NEW d \in 0 .. ProbeDelay,
           Discover(c, req, name, answers, d)
    PROVE  TypeOK'
<1> DEFINE L0 == removeExpiredLeases(leases)
           L1 == AgeLeases(L0, d)
           ip == OfferIp(c, req, L0, answers)
<1>1. d \in Nat /\ L0 \in Table /\ L1 \in Table
  BY WorkTables
<1>2. /\ AgeTold(granted, d) \in [Mac -> [Addr -> 0 .. LeaseTime]]
      /\ AgeTold(offered, d) \in [Mac -> [Addr -> 0 .. OfferHold]]
      /\ AgeTold(refused, d) \in [Mac -> [Addr -> 0 .. DeclineHold]]
  BY <1>1, AgeToldType, Times DEF TypeOK
<1>3. ip # NoAddr => ip \in Addr
  BY <1>1, OfferIpCases
<1>4. leases' \in Table
  BY <1>1, <1>3, ReserveType, RoomType DEF Discover
<1>5. offered' \in [Mac -> [Addr -> 0 .. OfferHold]]
  <2> DEFINE now == [a \in Addr |-> IF a = ip THEN OfferHold ELSE 0]
  <2>1. \/ offered' = AgeTold(offered, d)
        \/ offered' = [AgeTold(offered, d) EXCEPT ![c] = now]
    BY DEF Discover
  <2>2. now \in [Addr -> 0 .. OfferHold]
    BY Times
  <2> HIDE DEF now
  <2>3. QED
    BY <1>2, <2>1, <2>2
<1>6. refused' \in [Mac -> [Addr -> 0 .. DeclineHold]]
  <2>1. \/ refused' = AgeTold(refused, d)
        \/ ip # NoAddr /\ refused' = [AgeTold(refused, d) EXCEPT ![c][ip] = 0]
    BY DEF Discover
  <2>2. 0 \in 0 .. DeclineHold
    BY Times
  <2>3. ASSUME NEW x \in Addr
        PROVE  [AgeTold(refused, d) EXCEPT ![c][x] = 0] \in [Mac -> [Addr -> 0 .. DeclineHold]]
    BY <1>2, <2>2, CellType
  <2>4. QED
    BY <1>2, <1>3, <2>1, <2>3
<1>7. granted' \in [Mac -> [Addr -> 0 .. LeaseTime]]
  BY <1>2 DEF Discover
<1>8. Passes(d) /\ UNCHANGED config
  BY DEF Discover
<1>9. QED
  BY <1>1, <1>4, <1>5, <1>6, <1>7, <1>8, PassesType, ConfigType DEF TypeOK

LEMMA RequestType ==
    ASSUME TypeOK, NEW c \in Mac, NEW ip \in Addr \cup {NoAddr},
           NEW name \in NamesOf(c), NEW owner, NEW d \in 0 .. ProbeDelay,
           Request(c, ip, name, owner, d)
    PROVE  TypeOK'
<1> DEFINE L0  == removeExpiredLeases(leases)
           L1  == AgeLeases(L0, d)
           ack == RequestAck(c, ip, L0, owner)
<1>1. d \in Nat /\ L0 \in Table /\ L1 \in Table
  BY WorkTables
<1>2. /\ AgeTold(granted, d) \in [Mac -> [Addr -> 0 .. LeaseTime]]
      /\ AgeTold(offered, d) \in [Mac -> [Addr -> 0 .. OfferHold]]
      /\ AgeTold(refused, d) \in [Mac -> [Addr -> 0 .. DeclineHold]]
  BY <1>1, AgeToldType, Times DEF TypeOK
<1>3. ack => ip \in Addr
  BY DEF RequestAck, RequestValid
<1>4. leases' \in Table
  <2>1. CASE ack
    BY <1>1, <1>3, <2>1, RoomType, AddLeaseType DEF Request
  <2>2. CASE ~ack
    BY <1>1, <2>2 DEF Request
  <2>3. QED
    BY <2>1, <2>2
<1>5. offered' \in [Mac -> [Addr -> 0 .. OfferHold]]
  BY <1>2, Times DEF Request
<1>6. refused' \in [Mac -> [Addr -> 0 .. DeclineHold]]
  <2>1. \/ refused' = AgeTold(refused, d)
        \/ ack /\ refused' = [AgeTold(refused, d) EXCEPT ![c][ip] = 0]
    BY DEF Request
  <2>2. 0 \in 0 .. DeclineHold
    BY Times
  <2>3. ASSUME NEW x \in Addr
        PROVE  [AgeTold(refused, d) EXCEPT ![c][x] = 0] \in [Mac -> [Addr -> 0 .. DeclineHold]]
    BY <1>2, <2>2, CellType
  <2>4. QED
    BY <1>2, <1>3, <2>1, <2>3
<1>7. granted' \in [Mac -> [Addr -> 0 .. LeaseTime]]
  BY <1>2, Times DEF Request
<1>8. Passes(d) /\ UNCHANGED config
  BY DEF Request
<1>9. QED
  BY <1>1, <1>4, <1>5, <1>6, <1>7, <1>8, PassesType, ConfigType DEF TypeOK

LEMMA ReleaseType ==
    ASSUME TypeOK, NEW c \in Mac, NEW ip \in Addr, Release(c, ip)
    PROVE  TypeOK'
<1>1. leases' \in Table
  BY PurgeType DEF TypeOK, Release, Table
<1>2. granted' \in [Mac -> [Addr -> 0 .. LeaseTime]]
  BY Times DEF TypeOK, Release
<1>3. QED
  BY <1>1, <1>2 DEF TypeOK, Release, config

LEMMA DeclineType ==
    ASSUME TypeOK, NEW c \in Mac, NEW ip \in Addr \cup {NoAddr}, Decline(c, ip)
    PROVE  TypeOK'
<1>1. leases' \in Table
  BY PurgeType DEF TypeOK, Decline, Table
<1>2. declined' \in [Slot -> Entry]
  <2>1. expire(declined) \in [Slot -> Entry]
    BY Times DEF TypeOK, expire, Unused, Entry
  <2>2. [ip |-> ip, left |-> DeclineHold] \in Entry
    BY Times DEF Entry
  <2>3. QED
    BY <2>1, <2>2, AddSlotType DEF Decline
<1>3. granted' \in [Mac -> [Addr -> 0 .. LeaseTime]]
  BY Times DEF TypeOK, Decline
<1>4. refused' \in [Mac -> [Addr -> 0 .. DeclineHold]]
  BY Times DEF TypeOK, Decline
<1>5. offered' \in [Mac -> [Addr -> 0 .. OfferHold]]
  BY Times DEF TypeOK, Decline
<1>6. QED
  BY <1>1, <1>2, <1>3, <1>4, <1>5 DEF TypeOK, Decline, config

\* The steps that are no packet.
LEMMA QuietType ==
    ASSUME TypeOK, IdleLoop \/ Tick \/ Web \/ Restart
    PROVE  TypeOK'
<1>1. CASE IdleLoop
  BY <1>1, PurgeType DEF TypeOK, IdleLoop, config, history
<1>2. CASE Tick
  <2>1. leases' \in Table
    BY <1>2, AgeType DEF TypeOK, Tick
  <2>2. /\ granted' \in [Mac -> [Addr -> 0 .. LeaseTime]]
        /\ offered' \in [Mac -> [Addr -> 0 .. OfferHold]]
        /\ refused' \in [Mac -> [Addr -> 0 .. DeclineHold]]
    BY <1>2, AgeToldType, Times DEF TypeOK, Tick
  <2>3. QED
    BY <1>2, <2>1, <2>2, PassesType, ConfigType DEF TypeOK, Tick
<1>3. CASE reloadStaticBindings
  BY <1>3, Times DEF TypeOK, reloadStaticBindings
<1>4. CASE reloadAllowedComputers
  BY <1>4, Times, DhcpAssumption DEF TypeOK, reloadAllowedComputers
<1>5. CASE applyLeaseLimit
  BY <1>5, LimitType DEF TypeOK, applyLeaseLimit, history
<1>6. CASE Restart
  <2>1. leases' \in Table
    BY <1>6 DEF Restart, NoLeases, Table
  <2>2. declined' \in [Slot -> Entry]
    BY <1>6, Times DEF Restart, Unused, Entry
  <2>3. /\ granted' \in [Mac -> [Addr -> 0 .. LeaseTime]]
        /\ offered' \in [Mac -> [Addr -> 0 .. OfferHold]]
        /\ refused' \in [Mac -> [Addr -> 0 .. DeclineHold]]
    BY <1>6, Times DEF Restart, Nothing
  <2>4. QED
    BY <1>6, <2>1, <2>2, <2>3 DEF TypeOK, Restart, config
<1>7. QED
  BY <1>1, <1>2, <1>3, <1>4, <1>5, <1>6 DEF Web

LEMMA TypeStep == TypeOK /\ [Next]_vars => TypeOK'
<1> SUFFICES ASSUME TypeOK, [Next]_vars PROVE TypeOK'
  OBVIOUS
<1>1. CASE Packet
  BY <1>1, DiscoverType, RequestType, ReleaseType, DeclineType DEF Packet
<1>2. CASE IdleLoop \/ Tick \/ Web \/ Restart
  BY <1>2, QuietType
<1>3. CASE UNCHANGED vars
  BY <1>3 DEF vars, config, history, TypeOK
<1>4. QED
  BY <1>1, <1>2, <1>3 DEF Next

LEMMA TypeInit == Init => TypeOK
<1> SUFFICES ASSUME Init PROVE TypeOK
  OBVIOUS
<1>1. leases \in Table
  BY DEF Init, NoLeases, Table
<1>2. declined \in [Slot -> Entry]
  BY Times DEF Init, Unused, Entry
<1>3. /\ granted \in [Mac -> [Addr -> 0 .. LeaseTime]]
      /\ offered \in [Mac -> [Addr -> 0 .. OfferHold]]
      /\ refused \in [Mac -> [Addr -> 0 .. DeclineHold]]
  BY Times DEF Init, Nothing
<1>4. maxEntries \in Nat
  BY LimitType DEF Init
<1>5. allowOnly \in BOOLEAN /\ allowedList \in SUBSET Mac
  BY DhcpAssumption DEF Init
<1>6. QED
  BY <1>1, <1>2, <1>3, <1>4, <1>5, Times DEF Init, TypeOK

\* Every variable keeps its type, whatever the packets, probes and settings.
THEOREM TypeCorrect == Spec => []TypeOK
<1>1. QED
  BY TypeInit, TypeStep, PTL DEF Spec

-----------------------------------------------------------------------------
(* Exclusive grants.  GrantTracked is inductive given the types.           *)

\* A long grant's entry survives the purge and the probes' time.
LEMMA LongSurvives ==
    ASSUME TypeOK, GrantTracked, NEW d \in Nat, NEW c \in Mac, NEW a \in Addr,
           AgeTold(granted, d)[c][a] > OfferHold
    PROVE  LET L0 == removeExpiredLeases(leases)
               L1 == AgeLeases(L0, d)
           IN  /\ L0[a] # NoLease /\ L0[a].mac = c
               /\ L1[a] # NoLease /\ L1[a].mac = c
               /\ L1[a].left = AgeTold(granted, d)[c][a]
<1> DEFINE L0 == removeExpiredLeases(leases)
           L1 == AgeLeases(L0, d)
<1>1. granted \in [Mac -> [Addr -> 0 .. LeaseTime]] /\ leases \in Table
  BY DEF TypeOK
<1>2. AgeTold(granted, d)[c][a] = Minus(granted[c][a], d)
  BY <1>1, Times, AgeToldType
<1>3. granted[c][a] > OfferHold /\ granted[c][a] \in Nat
  BY <1>1, <1>2, Times DEF Minus
<1>4. leases[a] # NoLease /\ leases[a].mac = c /\ leases[a].left = granted[c][a]
  BY <1>3 DEF GrantTracked
<1>5. L0[a] = leases[a] /\ L0 \in Table
  BY <1>1, <1>3, <1>4, Times, PurgeType
<1>6. L1[a] # NoLease /\ L1[a].mac = c /\ L1[a].left = Minus(leases[a].left, d)
  BY <1>4, <1>5, AgeType
<1>7. QED
  BY <1>2, <1>4, <1>5, <1>6

LEMMA GrantDiscover ==
    ASSUME TypeOK, GrantTracked, NEW c \in Mac, NEW req \in Addr \cup {NoAddr},
           NEW name \in NamesOf(c), NEW answers, NEW d \in 0 .. ProbeDelay,
           Discover(c, req, name, answers, d)
    PROVE  GrantTracked'
<1> DEFINE L0 == removeExpiredLeases(leases)
           L1 == AgeLeases(L0, d)
           ip == OfferIp(c, req, L0, answers)
<1> SUFFICES ASSUME NEW m \in Mac, NEW a \in Addr, granted'[m][a] > OfferHold
             PROVE  /\ leases'[a] # NoLease
                    /\ leases'[a].mac = m /\ leases'[a].left = granted'[m][a]
  BY DEF GrantTracked
<1>1. d \in Nat /\ L0 \in Table /\ L1 \in Table
  BY WorkTables
<1>2. granted' = AgeTold(granted, d)
  BY DEF Discover
<1>3. L1[a] # NoLease /\ L1[a].mac = m /\ L1[a].left = granted'[m][a]
  BY <1>1, <1>2, LongSurvives
<1>4. L1[a].left > OfferHold /\ L1[a].left # 0
  BY <1>3, Times
<1>5. ip # NoAddr => ip \in Addr
  BY <1>1, OfferIpCases
<1>6. CASE ip # NoAddr /\ leases' = reserveOffer(L1, c, ip, name)
  <2>1. CASE a = ip
    <3>1. KeepsLongLease(L1, ip)
      BY <1>3, <1>4, <2>1 DEF KeepsLongLease
    <3>2. QED
      BY <1>1, <1>3, <1>5, <1>6, <2>1, <3>1, ReserveType
  <2>2. CASE a # ip
    <3>1. leases'[a] = L1[a]
      BY <1>1, <1>4, <1>5, <1>6, <2>2, ReserveType
    <3>2. QED
      BY <1>3, <3>1
  <2>3. QED
    BY <2>1, <2>2
<1>7. CASE leases' = L1
  BY <1>3, <1>7
<1>8. CASE ip # NoAddr /\ leases' = RoomFor(L1, ip)
  <2>1. leases'[a] = L1[a]
    BY <1>1, <1>4, <1>5, <1>8, RoomType
  <2>2. QED
    BY <1>3, <2>1
<1>9. QED
  BY <1>6, <1>7, <1>8 DEF Discover

LEMMA GrantRequest ==
    ASSUME TypeOK, GrantTracked, NEW c \in Mac, NEW ip \in Addr \cup {NoAddr},
           NEW name \in NamesOf(c), NEW owner, NEW d \in 0 .. ProbeDelay,
           Request(c, ip, name, owner, d)
    PROVE  GrantTracked'
<1> DEFINE L0  == removeExpiredLeases(leases)
           L1  == AgeLeases(L0, d)
           ack == RequestAck(c, ip, L0, owner)
           g1  == AgeTold(granted, d)
<1> SUFFICES ASSUME NEW m \in Mac, NEW a \in Addr, granted'[m][a] > OfferHold
             PROVE  /\ leases'[a] # NoLease
                    /\ leases'[a].mac = m /\ leases'[a].left = granted'[m][a]
  BY DEF GrantTracked
<1>1. d \in Nat /\ L0 \in Table /\ L1 \in Table
  BY WorkTables
<1>2. ack => ip \in Addr
  BY DEF RequestAck, RequestValid
<1>3. ASSUME g1[m][a] > OfferHold
      PROVE  /\ L0[a] # NoLease /\ L0[a].mac = m
             /\ L1[a] # NoLease /\ L1[a].mac = m /\ L1[a].left = g1[m][a]
             /\ L1[a].left # 0
  BY <1>1, <1>3, LongSurvives, Times
<1>4. CASE ack /\ leases' = addLease(RoomFor(L1, ip), c, ip, name)
              /\ granted' = [k \in Mac |-> [b \in Addr |->
                      IF b = ip /\ k = c THEN LeaseTime
                      ELSE IF b = ip /\ isStaticBindingForMac(c, ip) THEN 0
                      ELSE g1[k][b]]]
  <2>1. ip \in Addr /\ RoomFor(L1, ip) \in Table
    BY <1>1, <1>2, <1>4, RoomType
  <2>2. CASE a = ip /\ m = c
    <3>1. granted'[m][a] = LeaseTime
      BY <1>4, <2>2
    <3>2. QED
      BY <1>4, <2>1, <2>2, <3>1, AddLeaseType
  <2>3. CASE a = ip /\ m # c
    <3>1. ~isStaticBindingForMac(c, ip) /\ g1[m][a] > OfferHold
      BY <1>4, <2>3, Times
    <3>2. L0[ip] # NoLease /\ L0[ip].mac # c
      BY <1>3, <2>3, <3>1
    <3>3. QED
      BY <1>4, <3>1, <3>2 DEF RequestAck, RequestProbes
  <2>4. CASE a # ip
    <3>1. granted'[m][a] = g1[m][a]
      BY <1>4, <2>4
    <3>2. L1[a] # NoLease /\ L1[a].mac = m /\ L1[a].left = g1[m][a] /\ L1[a].left # 0
      BY <1>3, <3>1
    <3>3. RoomFor(L1, ip)[a] = L1[a]
      BY <1>1, <2>1, <3>2, RoomType
    <3>4. leases'[a] = L1[a]
      BY <1>4, <2>1, <2>4, <3>3, AddLeaseType
    <3>5. QED
      BY <3>1, <3>2, <3>4
  <2>5. QED
    BY <2>2, <2>3, <2>4
<1>5. CASE ack /\ leases' = RoomFor(L1, ip) /\ granted' = g1
  BY <1>1, <1>2, <1>3, <1>5, RoomType
<1>6. CASE leases' = L1 /\ granted' = g1
  BY <1>3, <1>6
<1>7. QED
  BY <1>4, <1>5, <1>6 DEF Request

LEMMA GrantQuiet ==
    ASSUME TypeOK, GrantTracked, IdleLoop \/ Tick \/ Web \/ Restart
    PROVE  GrantTracked'
<1>1. CASE IdleLoop
  <2>1. SUFFICES ASSUME NEW m \in Mac, NEW a \in Addr, granted[m][a] > OfferHold
                 PROVE  leases'[a] = leases[a]
    BY <1>1, <2>1 DEF GrantTracked, IdleLoop, history
  <2>2. leases[a] # NoLease /\ leases[a].left # 0
    BY <2>1, Times DEF GrantTracked
  <2>3. QED
    BY <1>1, <2>2, PurgeType DEF IdleLoop, TypeOK
<1>2. CASE Tick
  <2>1. SUFFICES ASSUME NEW m \in Mac, NEW a \in Addr, granted'[m][a] > OfferHold
                 PROVE  /\ leases'[a] # NoLease
                        /\ leases'[a].mac = m /\ leases'[a].left = granted'[m][a]
    BY DEF GrantTracked
  <2> DEFINE one == 1
  <2>6. /\ granted' = AgeTold(granted, one) /\ leases' = AgeLeases(leases, one)
        /\ one \in Nat
    BY <1>2 DEF Tick
  <2>7. granted \in [Mac -> [Addr -> 0 .. LeaseTime]] /\ leases \in Table
    BY DEF TypeOK
  <2> HIDE DEF one
  <2>2. granted'[m][a] = Minus(granted[m][a], one) /\ granted[m][a] \in Nat
    BY <2>6, <2>7, AgeToldType, Times
  <2>3. granted[m][a] > OfferHold
    BY <2>1, <2>2, <2>6, Times DEF Minus
  <2>4. leases[a] # NoLease /\ leases[a].mac = m /\ leases[a].left = granted[m][a]
    BY <2>3 DEF GrantTracked
  <2>5. QED
    BY <2>2, <2>4, <2>6, <2>7, AgeType
<1>3. CASE Web
  BY <1>3 DEF Web, reloadStaticBindings, reloadAllowedComputers, applyLeaseLimit,
              history, GrantTracked
<1>4. CASE Restart
  BY <1>4, Times DEF Restart, Nothing, GrantTracked
<1>5. QED
  BY <1>1, <1>2, <1>3, <1>4

LEMMA GrantReleaseDecline ==
    ASSUME TypeOK, GrantTracked, NEW c \in Mac, NEW ip \in Addr \cup {NoAddr},
           (ip \in Addr /\ Release(c, ip)) \/ Decline(c, ip)
    PROVE  GrantTracked'
<1> SUFFICES ASSUME NEW m \in Mac, NEW a \in Addr, granted'[m][a] > OfferHold
             PROVE  /\ leases'[a] # NoLease
                    /\ leases'[a].mac = m /\ leases'[a].left = granted'[m][a]
  BY DEF GrantTracked
<1>1. granted \in [Mac -> [Addr -> 0 .. LeaseTime]] /\ leases \in Table
  BY DEF TypeOK
<1>2. ASSUME granted'[m][a] = granted[m][a]
      PROVE  /\ removeExpiredLeases(leases)[a] = leases[a]
             /\ leases[a] # NoLease /\ leases[a].mac = m
             /\ leases[a].left = granted'[m][a]
  <2>1. leases[a] # NoLease /\ leases[a].mac = m /\ leases[a].left = granted'[m][a]
    BY <1>2 DEF GrantTracked
  <2>2. leases[a].left # 0
    BY <2>1, Times
  <2>3. QED
    BY <1>1, <2>1, <2>2, PurgeType
<1>3. CASE ip \in Addr /\ Release(c, ip)
  <2>0. granted'[m] = [granted[m] EXCEPT ![ip] = 0] /\ granted[m] \in [Addr -> 0 .. LeaseTime]
    BY <1>1, <1>3 DEF Release
  <2>1. a # ip /\ granted'[m][a] = granted[m][a]
    BY <1>3, <2>0, Times
  <2>2. leases'[a] = removeExpiredLeases(leases)[a]
    BY <1>1, <1>3, <2>1, PurgeType DEF Release, Table
  <2>3. QED
    BY <1>2, <2>1, <2>2
<1>4. CASE Decline(c, ip)
  <2>0. granted' = [granted EXCEPT ![c] =
                       [b \in Addr |-> IF b = ip THEN 0 ELSE granted[c][b]]]
    BY <1>4 DEF Decline
  <2>1. ~(a = ip /\ m = c) /\ granted'[m][a] = granted[m][a]
    BY <1>1, <2>0, Times
  <2>2. leases'[a] = removeExpiredLeases(leases)[a]
    BY <1>2, <1>4, <2>1 DEF Decline
  <2>3. QED
    BY <1>2, <2>1, <2>2
<1>5. QED
  BY <1>3, <1>4

LEMMA GrantStep == TypeOK /\ GrantTracked /\ [Next]_vars => GrantTracked'
<1> SUFFICES ASSUME TypeOK, GrantTracked, [Next]_vars PROVE GrantTracked'
  OBVIOUS
<1>1. CASE Packet
  BY <1>1, GrantDiscover, GrantRequest, GrantReleaseDecline DEF Packet
<1>2. CASE IdleLoop \/ Tick \/ Web \/ Restart
  BY <1>2, GrantQuiet
<1>3. CASE UNCHANGED vars
  BY <1>3 DEF vars, history, GrantTracked
<1>4. QED
  BY <1>1, <1>2, <1>3 DEF Next

\* A grant with more than the offer hold left is in the table under its client.
THEOREM GrantsTracked == Spec => []GrantTracked
<1>1. Init => GrantTracked
  BY Times DEF Init, Nothing, GrantTracked
<1>2. QED
  BY <1>1, GrantStep, TypeCorrect, PTL DEF Spec

\* No address is granted to two clients for longer than the offer hold.
THEOREM GrantsExclusive == Spec => []GrantExclusive
<1>1. GrantTracked => GrantExclusive
  BY DEF GrantTracked, GrantExclusive
<1>2. QED
  BY <1>1, GrantsTracked, PTL

-----------------------------------------------------------------------------
(* Refused addresses.  RefusedNotReissued is inductive given the types.    *)

\* A refusal still in force after d units was in force, and still is held down.
LEMMA RefusalAges ==
    ASSUME TypeOK, RefusedNotReissued, NEW d \in Nat, NEW m \in Mac, NEW a \in Addr,
           AgeTold(refused, d)[m][a] > 0
    PROVE  /\ refused[m][a] > 0
           /\ \E s \in Slot : /\ AgeDeclined(declined, d)[s].ip = a
                              /\ AgeDeclined(declined, d)[s].left >= AgeTold(refused, d)[m][a]
           /\ addressDeclined(a)
           /\ leases[a] # NoLease => leases[a].mac # m
<1>1. refused \in [Mac -> [Addr -> 0 .. DeclineHold]] /\ declined \in [Slot -> Entry]
  BY DEF TypeOK
<1>2. AgeTold(refused, d)[m][a] = Minus(refused[m][a], d) /\ refused[m][a] \in Nat
  BY <1>1, Times, AgeToldType
<1>3. refused[m][a] > 0
  BY <1>2 DEF Minus
<1>4. PICK s \in Slot : declined[s].ip = a /\ declined[s].left >= refused[m][a]
  BY <1>3 DEF RefusedNotReissued
<1>5. declined[s].left \in Nat
  BY <1>1, Times DEF Entry
<1>6. /\ AgeDeclined(declined, d)[s].ip = a
      /\ AgeDeclined(declined, d)[s].left = Minus(declined[s].left, d)
  BY <1>1, <1>4, AgeDeclinedType
<1>7. Minus(declined[s].left, d) >= Minus(refused[m][a], d)
  BY <1>2, <1>4, <1>5 DEF Minus
<1>8. addressDeclined(a)
  BY <1>2, <1>3, <1>4, <1>5 DEF addressDeclined
<1>9. leases[a] # NoLease => leases[a].mac # m
  BY <1>3 DEF RefusedNotReissued
<1>10. QED
  BY <1>2, <1>3, <1>6, <1>7, <1>8, <1>9

\* The purge and the passing of time bring no entry back and change no owner.
LEMMA WorkTableOwners ==
    ASSUME TypeOK, NEW d \in Nat, NEW a \in Addr
    PROVE  LET L0 == removeExpiredLeases(leases)
               L1 == AgeLeases(L0, d)
           IN  /\ L0[a] # NoLease => leases[a] # NoLease /\ L0[a].mac = leases[a].mac
               /\ L1[a] # NoLease => leases[a] # NoLease /\ L1[a].mac = leases[a].mac
<1> DEFINE L0 == removeExpiredLeases(leases)
<1>1. leases \in Table
  BY DEF TypeOK
<1>2. L0 \in Table /\ (L0[a] = leases[a] \/ L0[a] = NoLease)
  BY <1>1, PurgeType
<1>3. QED
  BY <1>2, AgeType

LEMMA RefusedDiscover ==
    ASSUME TypeOK, RefusedNotReissued, NEW c \in Mac, NEW req \in Addr \cup {NoAddr},
           NEW name \in NamesOf(c), NEW answers, NEW d \in 0 .. ProbeDelay,
           Discover(c, req, name, answers, d)
    PROVE  RefusedNotReissued'
<1> DEFINE L0 == removeExpiredLeases(leases)
           L1 == AgeLeases(L0, d)
           ip == OfferIp(c, req, L0, answers)
           r1 == AgeTold(refused, d)
<1> SUFFICES ASSUME NEW m \in Mac, NEW a \in Addr, refused'[m][a] > 0
             PROVE  /\ \E s \in Slot : /\ declined'[s].ip = a
                                       /\ declined'[s].left >= refused'[m][a]
                    /\ leases'[a] # NoLease => leases'[a].mac # m
  BY DEF RefusedNotReissued
<1>1. d \in Nat /\ L0 \in Table /\ L1 \in Table
  BY WorkTables
<1>2. ip # NoAddr => ip \in Addr
  BY <1>1, OfferIpCases
<1>3. r1 \in [Mac -> [Addr -> 0 .. DeclineHold]] /\ 0 \in 0 .. DeclineHold
  <2>1. refused \in [Mac -> [Addr -> 0 .. DeclineHold]]
    BY DEF TypeOK
  <2>2. QED
    BY <1>1, <2>1, AgeToldType, Times
<1>4. \/ refused' = r1
      \/ ip # NoAddr /\ isStaticBindingForMac(c, ip) /\ refused' = [r1 EXCEPT ![c][ip] = 0]
  BY DEF Discover
<1>5. refused'[m][a] = r1[m][a]
  <2>1. CASE refused' = r1
    BY <2>1
  <2>2. CASE ip # NoAddr /\ refused' = [r1 EXCEPT ![c][ip] = 0]
    <3>1. ~(m = c /\ a = ip)
      BY <1>2, <1>3, <2>2, CellType
    <3>2. QED
      BY <1>2, <1>3, <2>2, <3>1, CellType
  <2>3. QED
    BY <1>4, <2>1, <2>2
<1>6. /\ addressDeclined(a) /\ (leases[a] # NoLease => leases[a].mac # m)
      /\ \E s \in Slot : /\ AgeDeclined(declined, d)[s].ip = a
                         /\ AgeDeclined(declined, d)[s].left >= refused'[m][a]
  BY <1>1, <1>5, RefusalAges
<1>7. \E s \in Slot : declined'[s].ip = a /\ declined'[s].left >= refused'[m][a]
  <2>1. declined' = AgeDeclined(declined, d)
    BY DEF Discover, Passes
  <2>2. QED
    BY <1>6, <2>1
<1>8. L0[a] # NoLease => L0[a].mac # m
  BY <1>1, <1>6, WorkTableOwners
<1>9. L1[a] # NoLease => L1[a].mac # m
  BY <1>1, <1>6, WorkTableOwners
<1>10. leases'[a] # NoLease => leases'[a].mac # m
  <2>1. CASE leases' = L1
    BY <1>9, <2>1
  <2>2. CASE ip # NoAddr /\ leases' = RoomFor(L1, ip)
    BY <1>1, <1>2, <1>9, <2>2, RoomType
  <2>3. CASE /\ ip # NoAddr /\ leases' = reserveOffer(L1, c, ip, name)
             /\ refused' = IF isStaticBindingForMac(c, ip)
                           THEN [r1 EXCEPT ![c][ip] = 0] ELSE r1
    <3>1. CASE a # ip
      BY <1>1, <1>2, <1>9, <2>3, <3>1, ReserveType
    <3>2. CASE a = ip /\ KeepsLongLease(L1, ip)
      <4>1. L1[ip] # NoLease
        BY <3>2 DEF KeepsLongLease
      <4>2. QED
        BY <1>1, <1>2, <1>9, <2>3, <3>2, <4>1, ReserveType
    <3>3. CASE a = ip /\ ~KeepsLongLease(L1, ip)
      <4>1. leases'[a].mac = c
        BY <1>1, <1>2, <2>3, <3>3, ReserveType
      <4>2. CASE m = c
        <5>1. ~isStaticBindingForMac(c, ip)
          <6>1. SUFFICES ASSUME isStaticBindingForMac(c, ip) PROVE FALSE
            OBVIOUS
          <6>2. refused' = [r1 EXCEPT ![c][ip] = 0]
            BY <2>3, <6>1
          <6>3. refused'[c][ip] = 0
            BY <1>2, <1>3, <2>3, <6>2, CellType
          <6>4. QED
            BY <3>3, <4>2, <6>3
        <5>2. L0[ip] # NoLease /\ L0[ip].mac = c
          BY <1>1, <1>6, <2>3, <3>3, <5>1, OfferIpCases
        <5>3. QED
          BY <1>8, <3>3, <4>2, <5>2
      <4>3. QED
        BY <4>1, <4>2
    <3>4. QED
      BY <3>1, <3>2, <3>3
  <2>4. QED
    BY <2>1, <2>2, <2>3 DEF Discover
<1>11. QED
  BY <1>7, <1>10

LEMMA RefusedRequest ==
    ASSUME TypeOK, RefusedNotReissued, NEW c \in Mac, NEW ip \in Addr \cup {NoAddr},
           NEW name \in NamesOf(c), NEW owner, NEW d \in 0 .. ProbeDelay,
           Request(c, ip, name, owner, d)
    PROVE  RefusedNotReissued'
<1> DEFINE L0  == removeExpiredLeases(leases)
           L1  == AgeLeases(L0, d)
           ack == RequestAck(c, ip, L0, owner)
           r1  == AgeTold(refused, d)
<1> SUFFICES ASSUME NEW m \in Mac, NEW a \in Addr, refused'[m][a] > 0
             PROVE  /\ \E s \in Slot : /\ declined'[s].ip = a
                                       /\ declined'[s].left >= refused'[m][a]
                    /\ leases'[a] # NoLease => leases'[a].mac # m
  BY DEF RefusedNotReissued
<1>1. d \in Nat /\ L0 \in Table /\ L1 \in Table
  BY WorkTables
<1>2. ack => ip \in Addr
  BY DEF RequestAck, RequestValid
<1>3. r1 \in [Mac -> [Addr -> 0 .. DeclineHold]] /\ 0 \in 0 .. DeclineHold
  <2>1. refused \in [Mac -> [Addr -> 0 .. DeclineHold]]
    BY DEF TypeOK
  <2>2. QED
    BY <1>1, <2>1, AgeToldType, Times
<1>4. \/ refused' = r1
      \/ ack /\ refused' = [r1 EXCEPT ![c][ip] = 0]
  BY DEF Request
<1>5. refused'[m][a] = r1[m][a]
  <2>1. CASE refused' = r1
    BY <2>1
  <2>2. CASE ack /\ refused' = [r1 EXCEPT ![c][ip] = 0]
    <3>1. ~(m = c /\ a = ip)
      BY <1>2, <1>3, <2>2, CellType
    <3>2. QED
      BY <1>2, <1>3, <2>2, <3>1, CellType
  <2>3. QED
    BY <1>4, <2>1, <2>2
<1>6. /\ addressDeclined(a) /\ (leases[a] # NoLease => leases[a].mac # m)
      /\ \E s \in Slot : /\ AgeDeclined(declined, d)[s].ip = a
                         /\ AgeDeclined(declined, d)[s].left >= refused'[m][a]
  BY <1>1, <1>5, RefusalAges
<1>7. \E s \in Slot : declined'[s].ip = a /\ declined'[s].left >= refused'[m][a]
  <2>1. declined' = AgeDeclined(declined, d)
    BY DEF Request, Passes
  <2>2. QED
    BY <1>6, <2>1
<1>8. L0[a] # NoLease => L0[a].mac # m
  BY <1>1, <1>6, WorkTableOwners
<1>9. L1[a] # NoLease => L1[a].mac # m
  BY <1>1, <1>6, WorkTableOwners
<1>10. leases'[a] # NoLease => leases'[a].mac # m
  <2>1. CASE leases' = L1
    BY <1>9, <2>1
  <2>2. CASE ack /\ leases' = RoomFor(L1, ip)
    BY <1>1, <1>2, <1>9, <2>2, RoomType
  <2>3. CASE /\ ack /\ leases' = addLease(RoomFor(L1, ip), c, ip, name)
             /\ refused' = IF isStaticBindingForMac(c, ip)
                           THEN [r1 EXCEPT ![c][ip] = 0] ELSE r1
    <3>1. ip \in Addr /\ RoomFor(L1, ip) \in Table
      BY <1>1, <1>2, <2>3, RoomType
    <3>2. CASE a # ip
      <4>1. leases'[a] = RoomFor(L1, ip)[a]
        BY <2>3, <3>1, <3>2, AddLeaseType
      <4>2. QED
        BY <1>1, <1>9, <3>1, <4>1, RoomType
    <3>3. CASE a = ip
      <4>1. leases'[a].mac = c
        BY <2>3, <3>1, <3>3, AddLeaseType
      <4>2. CASE m = c
        <5>1. isStaticBindingForMac(c, ip)
          BY <1>6, <1>8, <2>3, <3>3, <4>2 DEF RequestAck, RequestProbes
        <5>2. refused' = [r1 EXCEPT ![c][ip] = 0]
          BY <2>3, <5>1
        <5>3. refused'[c][ip] = 0
          BY <1>3, <3>1, <5>2, CellType
        <5>4. QED
          BY <3>3, <4>2, <5>3
      <4>3. QED
        BY <4>1, <4>2
    <3>4. QED
      BY <3>2, <3>3
  <2>4. QED
    BY <2>1, <2>2, <2>3 DEF Request
<1>11. QED
  BY <1>7, <1>10

LEMMA RefusedDecline ==
    ASSUME TypeOK, RefusedNotReissued, NEW c \in Mac, NEW ip \in Addr \cup {NoAddr},
           Decline(c, ip)
    PROVE  RefusedNotReissued'
<1> DEFINE L0 == removeExpiredLeases(leases)
           forgotten == {declined[s].ip : s \in
                           {t \in Slot : \A u \in Slot : /\ declined[u].left > 0
                                                      /\ declined[u].ip # ip
                                                      /\ declined[t].left <= declined[u].left}}
           new == [ip |-> ip, left |-> DeclineHold]
<1> SUFFICES ASSUME NEW m \in Mac, NEW a \in Addr, refused'[m][a] > 0
             PROVE  /\ \E s \in Slot : /\ declined'[s].ip = a
                                       /\ declined'[s].left >= refused'[m][a]
                    /\ leases'[a] # NoLease => leases'[a].mac # m
  BY DEF RefusedNotReissued
<1>1. /\ refused'[m][a] = IF a = ip /\ m = c THEN DeclineHold
                          ELSE IF a \in forgotten THEN 0 ELSE refused[m][a]
      /\ leases'[a] = IF a = ip /\ L0[a] # NoLease /\ L0[a].mac = c THEN NoLease ELSE L0[a]
      /\ declined' = [expire(declined) EXCEPT ![AddSlot(ip)] = new]
  BY DEF Decline
<1>2. /\ declined \in [Slot -> Entry] /\ refused[m][a] \in 0 .. DeclineHold
      /\ leases \in Table
  BY DEF TypeOK
<1>3. AddSlot(ip) \in Slot
  BY AddSlotType
<1>4. /\ declined'[AddSlot(ip)] = new
      /\ \A s \in Slot \ {AddSlot(ip)} : declined[s].left > 0 => declined'[s] = declined[s]
  BY <1>1, <1>3 DEF expire
<1>5. L0[a] # NoLease => leases[a] # NoLease /\ L0[a].mac = leases[a].mac
  BY <1>2, PurgeType
<1>6. CASE a = ip /\ m = c
  BY <1>1, <1>3, <1>4, <1>6, Times
<1>7. CASE ~(a = ip /\ m = c)
  <2>1. a \notin forgotten /\ refused'[m][a] = refused[m][a] /\ refused[m][a] > 0
    BY <1>1, <1>7
  <2>2. PICK s \in Slot : declined[s].ip = a /\ declined[s].left >= refused[m][a]
    BY <2>1 DEF RefusedNotReissued
  <2>3. declined[s].left > 0 /\ \A u \in Slot : declined[u].left \in Nat
    BY <1>2, <2>1, <2>2, Times DEF Entry
  <2>4. leases'[a] # NoLease => leases'[a].mac # m
    BY <1>1, <1>5, <2>1 DEF RefusedNotReissued
  <2>5. CASE a = ip
    <3>1. declined'[AddSlot(ip)].ip = a /\ declined'[AddSlot(ip)].left >= refused'[m][a]
      BY <1>2, <1>4, <2>1, <2>5, Times
    <3>2. QED
      BY <1>3, <2>4, <3>1
  <2>6. CASE a # ip
    <3>1. s # AddSlot(ip)
      <4>1. SUFFICES ASSUME s = AddSlot(ip) PROVE FALSE
        OBVIOUS
      <4>2. /\ \A u \in Slot : declined[u].left > 0 => declined[u].ip # ip
            /\ \A u \in Slot : declined[u].left # 0
            /\ \A u \in Slot : declined[s].left <= declined[u].left
        BY <2>2, <2>3, <2>6, <4>1, AddSlotCases
      <4>3. \A u \in Slot : declined[u].left > 0
        BY <2>3, <4>2
      <4>4. declined[s].ip \in forgotten
        BY <4>2, <4>3
      <4>5. QED
        BY <2>1, <2>2, <4>4
    <3>2. declined'[s] = declined[s]
      BY <1>4, <2>3, <3>1
    <3>3. QED
      BY <2>1, <2>2, <2>4, <3>2
  <2>7. QED
    BY <2>5, <2>6
<1>8. QED
  BY <1>6, <1>7

LEMMA RefusedOther ==
    ASSUME TypeOK, RefusedNotReissued,
           (\E c \in Mac, ip \in Addr : Release(c, ip)) \/ IdleLoop \/ Tick \/ Web \/ Restart
    PROVE  RefusedNotReissued'
<1>1. leases \in Table
  BY DEF TypeOK
<1>2. ASSUME refused' = refused, declined' = declined,
             \A a \in Addr : leases'[a] # NoLease =>
                 leases[a] # NoLease /\ leases'[a].mac = leases[a].mac
      PROVE  RefusedNotReissued'
  BY <1>2 DEF RefusedNotReissued
<1>3. CASE \E c \in Mac, ip \in Addr : Release(c, ip)
  <2>1. PICK c \in Mac, ip \in Addr : Release(c, ip)
    BY <1>3
  <2>2. leases' = [removeExpiredLeases(leases) EXCEPT ![ip] = NoLease]
    BY <2>1 DEF Release
  <2>3. \A a \in Addr : leases'[a] # NoLease => leases'[a] = leases[a]
    BY <1>1, <2>2, PurgeType DEF Table
  <2>4. QED
    BY <1>2, <2>1, <2>3 DEF Release
<1>4. CASE IdleLoop
  BY <1>1, <1>2, <1>4, PurgeType DEF IdleLoop, history
<1>5. CASE Tick
  <2>1. SUFFICES ASSUME NEW m \in Mac, NEW a \in Addr, refused'[m][a] > 0
                 PROVE  /\ \E s \in Slot : /\ declined'[s].ip = a
                                           /\ declined'[s].left >= refused'[m][a]
                        /\ leases'[a] # NoLease => leases'[a].mac # m
    BY DEF RefusedNotReissued
  <2> DEFINE one == 1
  <2>2. /\ refused' = AgeTold(refused, one) /\ leases' = AgeLeases(leases, one)
        /\ declined' = AgeDeclined(declined, one) /\ one \in Nat
    BY <1>5 DEF Tick, Passes
  <2> HIDE DEF one
  <2>3. QED
    BY <1>1, <2>1, <2>2, RefusalAges, AgeType
<1>6. CASE Web
  BY <1>2, <1>6 DEF Web, reloadStaticBindings, reloadAllowedComputers, applyLeaseLimit,
                    history
<1>7. CASE Restart
  BY <1>7 DEF Restart, Nothing, RefusedNotReissued
<1>8. QED
  BY <1>3, <1>4, <1>5, <1>6, <1>7

\* The client that declined an address does not get it back while the refusal
\* is remembered.
THEOREM RefusedStayAway == Spec => []RefusedNotReissued
<1>1. Init => RefusedNotReissued
  BY DEF Init, Nothing, RefusedNotReissued
<1>2. TypeOK /\ RefusedNotReissued /\ [Next]_vars => RefusedNotReissued'
  <2> SUFFICES ASSUME TypeOK, RefusedNotReissued, [Next]_vars
               PROVE  RefusedNotReissued'
    OBVIOUS
  <2>1. CASE \E c \in Mac, ip \in Addr : Release(c, ip)
    BY <2>1, RefusedOther
  <2>2. CASE IdleLoop \/ Tick \/ Web \/ Restart
    BY <2>2, RefusedOther
  <2>3. CASE Packet
    BY <2>1, <2>3, RefusedDiscover, RefusedRequest, RefusedDecline DEF Packet
  <2>4. CASE UNCHANGED vars
    BY <2>4 DEF vars, history, RefusedNotReissued
  <2>5. QED
    BY <2>2, <2>3, <2>4 DEF Next
<1>3. QED
  BY <1>1, <1>2, TypeCorrect, PTL DEF Spec

-----------------------------------------------------------------------------
(* The allow-only policy.  PolicyTakesHold is inductive given the types.   *)

\* An entry that only got older is as close to its end as the policy allows.
LEMMA PolicyAges ==
    ASSUME TypeOK, PolicyTakesHold, NEW d \in Nat, NEW a \in Addr,
           leases[a] # NoLease, ~isClientAllowed(leases[a].mac),
           Passes(d)
    PROVE  Minus(leases[a].left, d) + policyAge' <= Longest
<1>1. leases[a] \in Lease /\ policyAge \in 0 .. Longest
  BY DEF TypeOK, Table
<1>2. leases[a].left \in Nat /\ policyAge \in Nat /\ Longest \in Nat
  BY <1>1, Times DEF Lease
<1>3. leases[a].left + policyAge <= Longest
  BY DEF PolicyTakesHold
<1>4. policyAge' = IF policyAge + d < Longest THEN policyAge + d ELSE Longest
  BY DEF Passes
<1>5. QED
  BY <1>2, <1>3, <1>4 DEF Minus

\* A step that leaves the settings alone and whose entries are either aged
\* entries of the same client or entries of an allowed client.
LEMMA PolicyKept ==
    ASSUME TypeOK, PolicyTakesHold, NEW d \in Nat, Passes(d), UNCHANGED config,
           \A a \in Addr : leases'[a] # NoLease =>
               \/ isClientAllowed(leases'[a].mac)
               \/ /\ leases[a] # NoLease /\ leases'[a].mac = leases[a].mac
                  /\ leases'[a].left = Minus(leases[a].left, d)
    PROVE  PolicyTakesHold'
<1> SUFFICES ASSUME NEW a \in Addr, leases'[a] # NoLease,
                    ~isClientAllowed(leases[a].mac)'
             PROVE  leases'[a].left + policyAge' <= Longest
  BY DEF PolicyTakesHold
<1>1. ~isClientAllowed(leases'[a].mac)
  BY DEF isClientAllowed, config
<1>2. /\ leases[a] # NoLease /\ leases'[a].mac = leases[a].mac
      /\ leases'[a].left = Minus(leases[a].left, d)
  BY <1>1
<1>3. QED
  BY <1>1, <1>2, PolicyAges

\* The entries a handler starts from.
LEMMA WorkTableAges ==
    ASSUME TypeOK, NEW d \in Nat, NEW a \in Addr,
           AgeLeases(removeExpiredLeases(leases), d)[a] # NoLease
    PROVE  LET L1 == AgeLeases(removeExpiredLeases(leases), d)
           IN  /\ leases[a] # NoLease /\ L1[a].mac = leases[a].mac
               /\ L1[a].left = Minus(leases[a].left, d)
<1>1. leases \in Table
  BY DEF TypeOK
<1>2. /\ removeExpiredLeases(leases) \in Table
      /\ \/ removeExpiredLeases(leases)[a] = leases[a]
         \/ removeExpiredLeases(leases)[a] = NoLease
  BY <1>1, PurgeType
<1>3. QED
  BY <1>2, AgeType

LEMMA PolicyDiscover ==
    ASSUME TypeOK, PolicyTakesHold, NEW c \in Mac, NEW req \in Addr \cup {NoAddr},
           NEW name \in NamesOf(c), NEW answers, NEW d \in 0 .. ProbeDelay,
           Discover(c, req, name, answers, d)
    PROVE  PolicyTakesHold'
<1> DEFINE L0 == removeExpiredLeases(leases)
           L1 == AgeLeases(L0, d)
           ip == OfferIp(c, req, L0, answers)
<1>1. d \in Nat /\ L0 \in Table /\ L1 \in Table
  BY WorkTables
<1>2. ip # NoAddr => ip \in Addr
  BY <1>1, OfferIpCases
<1>3. isClientAllowed(c) /\ Passes(d) /\ UNCHANGED config
  BY DEF Discover, clientAdmitted
<1>4. ASSUME NEW a \in Addr, leases'[a] # NoLease
      PROVE  \/ isClientAllowed(leases'[a].mac)
             \/ /\ L1[a] # NoLease /\ leases'[a].mac = L1[a].mac
                /\ leases'[a].left = L1[a].left
  <2>1. CASE leases' = L1
    BY <1>4, <2>1
  <2>2. CASE ip # NoAddr /\ leases' = RoomFor(L1, ip)
    BY <1>1, <1>2, <1>4, <2>2, RoomType
  <2>3. CASE ip # NoAddr /\ leases' = reserveOffer(L1, c, ip, name)
    <3>1. CASE a # ip
      BY <1>1, <1>2, <1>4, <2>3, <3>1, ReserveType
    <3>2. CASE a = ip /\ KeepsLongLease(L1, ip)
      <4>1. L1[ip] # NoLease
        BY <3>2 DEF KeepsLongLease
      <4>2. QED
        BY <1>1, <1>2, <2>3, <3>2, <4>1, ReserveType
    <3>3. CASE a = ip /\ ~KeepsLongLease(L1, ip)
      BY <1>1, <1>2, <1>3, <2>3, <3>3, ReserveType
    <3>4. QED
      BY <3>1, <3>2, <3>3
  <2>4. QED
    BY <2>1, <2>2, <2>3 DEF Discover
<1>5. QED
  BY <1>1, <1>3, <1>4, WorkTableAges, PolicyKept

LEMMA PolicyRequest ==
    ASSUME TypeOK, PolicyTakesHold, NEW c \in Mac, NEW ip \in Addr \cup {NoAddr},
           NEW name \in NamesOf(c), NEW owner, NEW d \in 0 .. ProbeDelay,
           Request(c, ip, name, owner, d)
    PROVE  PolicyTakesHold'
<1> DEFINE L0  == removeExpiredLeases(leases)
           L1  == AgeLeases(L0, d)
           ack == RequestAck(c, ip, L0, owner)
<1>1. d \in Nat /\ L0 \in Table /\ L1 \in Table
  BY WorkTables
<1>2. ack => ip \in Addr
  BY DEF RequestAck, RequestValid
<1>3. isClientAllowed(c) /\ Passes(d) /\ UNCHANGED config
  BY DEF Request, clientAdmitted
<1>4. ASSUME NEW a \in Addr, leases'[a] # NoLease
      PROVE  \/ isClientAllowed(leases'[a].mac)
             \/ /\ L1[a] # NoLease /\ leases'[a].mac = L1[a].mac
                /\ leases'[a].left = L1[a].left
  <2>1. CASE leases' = L1
    BY <1>4, <2>1
  <2>2. CASE ack /\ leases' = RoomFor(L1, ip)
    BY <1>1, <1>2, <1>4, <2>2, RoomType
  <2>3. CASE ack /\ leases' = addLease(RoomFor(L1, ip), c, ip, name)
    <3>1. ip \in Addr /\ RoomFor(L1, ip) \in Table
      BY <1>1, <1>2, <2>3, RoomType
    <3>2. CASE a = ip
      BY <1>3, <2>3, <3>1, <3>2, AddLeaseType
    <3>3. CASE a # ip
      <4>1. leases'[a] = RoomFor(L1, ip)[a]
        BY <2>3, <3>1, <3>3, AddLeaseType
      <4>2. QED
        BY <1>1, <1>4, <3>1, <4>1, RoomType
    <3>4. QED
      BY <3>2, <3>3
  <2>4. QED
    BY <2>1, <2>2, <2>3 DEF Request
<1>5. QED
  BY <1>1, <1>3, <1>4, WorkTableAges, PolicyKept

\* A step that only removes entries, and no time passes.
LEMMA PolicyRemoves ==
    ASSUME TypeOK, PolicyTakesHold, UNCHANGED <<config, policyAge>>,
           \A a \in Addr : leases'[a] = NoLease \/ leases'[a] = leases[a]
    PROVE  PolicyTakesHold'
<1> SUFFICES ASSUME NEW a \in Addr, leases'[a] # NoLease,
                    ~isClientAllowed(leases[a].mac)'
             PROVE  leases'[a].left + policyAge' <= Longest
  BY DEF PolicyTakesHold
<1>1. leases'[a] = leases[a] /\ ~isClientAllowed(leases[a].mac)
  BY DEF isClientAllowed, config
<1>2. QED
  BY <1>1 DEF PolicyTakesHold

\* A step of the operator that leaves the table alone.
LEMMA PolicyWeb ==
    ASSUME TypeOK, PolicyTakesHold, Web
    PROVE  PolicyTakesHold'
<1>1. leases' = leases /\ leases \in Table
  BY DEF Web, reloadStaticBindings, reloadAllowedComputers, applyLeaseLimit, TypeOK
<1>2. CASE policyAge' = 0
  <2>1. SUFFICES ASSUME NEW a \in Addr, leases[a] # NoLease
                 PROVE  leases[a].left + 0 <= Longest
    BY <1>1, <1>2 DEF PolicyTakesHold
  <2>2. leases[a] \in Lease
    BY <1>1, <2>1 DEF Table
  <2>3. QED
    BY <2>2, Times DEF Lease
<1>3. CASE /\ UNCHANGED <<staticBindings, allowOnly, allowedList>>
           /\ policyAge' = policyAge
  BY <1>1, <1>3 DEF PolicyTakesHold, isClientAllowed
<1>4. QED
  BY <1>2, <1>3 DEF Web, reloadStaticBindings, reloadAllowedComputers, applyLeaseLimit,
                    history

\* A client that is not allowed keeps nothing beyond its current lease.
THEOREM PolicyTakesHoldAlways == Spec => []PolicyTakesHold
<1>1. Init => PolicyTakesHold
  BY DEF Init, NoLeases, PolicyTakesHold
<1>2. TypeOK /\ PolicyTakesHold /\ [Next]_vars => PolicyTakesHold'
  <2> SUFFICES ASSUME TypeOK, PolicyTakesHold, [Next]_vars
               PROVE  PolicyTakesHold'
    OBVIOUS
  <2>1. leases \in Table
    BY DEF TypeOK
  <2>2. CASE \E c \in Mac, ip \in Addr : Release(c, ip)
    <3>1. PICK c \in Mac, ip \in Addr : Release(c, ip)
      BY <2>2
    <3>2. leases' = [removeExpiredLeases(leases) EXCEPT ![ip] = NoLease]
      BY <3>1 DEF Release
    <3>3. \A a \in Addr : leases'[a] = NoLease \/ leases'[a] = leases[a]
      BY <2>1, <3>2, PurgeType DEF Table
    <3>4. QED
      BY <3>1, <3>3, PolicyRemoves DEF Release
  <2>3. CASE \E c \in Mac, ip \in Addr \cup {NoAddr} : Decline(c, ip)
    <3>1. \A a \in Addr : leases'[a] = NoLease \/ leases'[a] = leases[a]
      BY <2>1, <2>3, PurgeType DEF Decline
    <3>2. QED
      BY <2>3, <3>1, PolicyRemoves DEF Decline
  <2>4. CASE IdleLoop
    BY <2>1, <2>4, PurgeType, PolicyRemoves DEF IdleLoop, history
  <2>5. CASE Tick
    <3> DEFINE one == 1
    <3>1. leases' = AgeLeases(leases, one) /\ Passes(one) /\ UNCHANGED config /\ one \in Nat
      BY <2>5 DEF Tick
    <3> HIDE DEF one
    <3>2. QED
      BY <2>1, <3>1, AgeType, PolicyKept
  <2>6. CASE Web
    BY <2>6, PolicyWeb
  <2>7. CASE Restart
    BY <2>7 DEF Restart, NoLeases, PolicyTakesHold
  <2>8. CASE Packet
    BY <2>2, <2>3, <2>8, PolicyDiscover, PolicyRequest DEF Packet
  <2>9. CASE UNCHANGED vars
    BY <2>9, PolicyRemoves DEF vars, history
  <2>10. QED
    BY <2>4, <2>5, <2>6, <2>7, <2>8, <2>9 DEF Next
<1>3. QED
  BY <1>1, <1>2, TypeCorrect, PTL DEF Spec

-----------------------------------------------------------------------------
(* The cap on the table.                                                   *)

\* A table with fewer entries is no larger.
LEMMA SizeMonotone ==
    ASSUME NEW A, NEW B, Used(A) \subseteq Used(B)
    PROVE  TableSize(A) <= TableSize(B) /\ TableSize(A) \in Nat /\ TableSize(B) \in Nat
<1>1. IsFiniteSet(Addr) /\ Used(B) \in SUBSET Addr
  BY DhcpAssumption DEF Used
<1>2. IsFiniteSet(Used(B))
  BY <1>1, FS_Subset
<1>3. IsFiniteSet(Used(A)) /\ Cardinality(Used(A)) <= Cardinality(Used(B))
  BY <1>2, FS_Subset
<1>4. QED
  BY <1>2, <1>3, FS_CardinalityType DEF TableSize

\* Writing an entry where there is room keeps the table within the cap.
LEMMA SizeInsert ==
    ASSUME NEW L \in Table, NEW R \in Table, NEW ip \in Addr, TypeOK,
           canAddLeaseEntry(L, ip),
           \A a \in Addr \ {ip} : R[a] = RoomFor(L, ip)[a]
    PROVE  TableSize(R) <= TableSize(L) \/ TableSize(R) <= maxEntries
<1>1. CASE L[ip] # NoLease
  <2>1. RoomFor(L, ip) = L
    BY <1>1 DEF RoomFor
  <2>2. Used(R) \subseteq Used(L)
    BY <1>1, <2>1 DEF Used
  <2>3. QED
    BY <2>2, SizeMonotone
<1>2. CASE L[ip] = NoLease
  <2> DEFINE M == RoomFor(L, ip)
  <2>1. TableSize(M) < maxEntries /\ maxEntries \in Nat
    BY <1>2 DEF canAddLeaseEntry, TypeOK
  <2>2. Used(R) \subseteq Used(M) \cup {ip}
    BY DEF Used
  <2>3. IsFiniteSet(Used(M))
    BY DhcpAssumption, FS_Subset DEF Used
  <2>4. /\ IsFiniteSet(Used(M) \cup {ip})
        /\ Cardinality(Used(M) \cup {ip}) <= Cardinality(Used(M)) + 1
        /\ Cardinality(Used(M)) \in Nat
    <3>1. Cardinality(Used(M)) \in Nat
      BY <2>3, FS_CardinalityType
    <3>2. /\ IsFiniteSet(Used(M) \cup {ip})
          /\ Cardinality(Used(M) \cup {ip}) =
               IF ip \in Used(M) THEN Cardinality(Used(M)) ELSE Cardinality(Used(M)) + 1
      BY <2>3, FS_AddElement
    <3> HIDE DEF M
    <3>3. QED
      BY <3>1, <3>2
  <2>5. /\ Cardinality(Used(R)) <= Cardinality(Used(M) \cup {ip})
        /\ Cardinality(Used(R)) \in Nat /\ Cardinality(Used(M) \cup {ip}) \in Nat
    BY <2>2, <2>4, FS_Subset, FS_CardinalityType
  <2>6. QED
    BY <2>1, <2>4, <2>5 DEF TableSize
<1>3. QED
  BY <1>1, <1>2

LEMMA CapPacket ==
    ASSUME TypeOK, NEW d \in 0 .. ProbeDelay
    PROVE  LET L1 == AgeLeases(removeExpiredLeases(leases), d)
           IN  /\ L1 \in Table
               /\ TableSize(L1) <= TableSize(leases)
               /\ TableSize(leases) \in Nat /\ TableSize(L1) \in Nat
               /\ \A ip \in Addr : TableSize(RoomFor(L1, ip)) <= TableSize(L1)
<1> DEFINE L1 == AgeLeases(removeExpiredLeases(leases), d)
<1>1. d \in Nat /\ L1 \in Table
  BY WorkTables
<1>2. Used(L1) \subseteq Used(leases)
  BY <1>1, WorkTableOwners DEF Used
<1>3. \A ip \in Addr : Used(RoomFor(L1, ip)) \subseteq Used(L1)
  BY <1>1, RoomType DEF Used
<1>4. QED
  BY <1>1, <1>2, <1>3, SizeMonotone

LEMMA CapDiscover ==
    ASSUME TypeOK, NEW c \in Mac, NEW req \in Addr \cup {NoAddr},
           NEW name \in NamesOf(c), NEW answers, NEW d \in 0 .. ProbeDelay,
           Discover(c, req, name, answers, d)
    PROVE  TableSize(leases') > TableSize(leases) => TableSize(leases') <= maxEntries
<1> DEFINE L0 == removeExpiredLeases(leases)
           L1 == AgeLeases(L0, d)
           ip == OfferIp(c, req, L0, answers)
<1>1. /\ d \in Nat /\ L0 \in Table /\ L1 \in Table
      /\ TableSize(L1) <= TableSize(leases)
      /\ TableSize(leases) \in Nat /\ TableSize(L1) \in Nat
      /\ \A x \in Addr : TableSize(RoomFor(L1, x)) <= TableSize(L1)
  BY WorkTables, CapPacket
<1>2. ip # NoAddr => ip \in Addr
  BY <1>1, OfferIpCases
<1>3. leases' \in Table
  BY DiscoverType DEF TypeOK
<1>4. TableSize(leases') \in Nat /\ \A x \in Addr : TableSize(RoomFor(L1, x)) \in Nat
  BY SizeMonotone
<1>5. CASE leases' = L1
  BY <1>1, <1>5
<1>6. CASE ip # NoAddr /\ leases' = RoomFor(L1, ip)
  BY <1>1, <1>2, <1>4, <1>6
<1>7. CASE /\ ip # NoAddr /\ OfferReserved(L1, ip)
           /\ leases' = reserveOffer(L1, c, ip, name)
  <2>1. CASE KeepsLongLease(L1, ip)
    <3>1. L1[ip] # NoLease
      BY <2>1 DEF KeepsLongLease
    <3>2. Used(leases') \subseteq Used(L1)
      BY <1>1, <1>2, <1>7, <3>1, ReserveType DEF Used
    <3>3. TableSize(leases') <= TableSize(L1)
      BY <3>2, SizeMonotone
    <3>4. QED
      BY <1>1, <1>4, <3>3
  <2>2. CASE ~KeepsLongLease(L1, ip)
    <3>1. canAddLeaseEntry(L1, ip) /\ ip \in Addr
      BY <1>2, <1>7, <2>2 DEF OfferReserved
    <3>2. leases' = [RoomFor(L1, ip) EXCEPT ![ip] =
                        [mac |-> c, left |-> OfferHold, host |-> name]]
      BY <1>7, <2>2 DEF reserveOffer
    <3>3. \A a \in Addr \ {ip} : leases'[a] = RoomFor(L1, ip)[a]
      BY <1>1, <3>1, <3>2, RoomType DEF Table
    <3>4. TableSize(leases') <= TableSize(L1) \/ TableSize(leases') <= maxEntries
      BY <1>1, <1>3, <3>1, <3>3, SizeInsert
    <3>5. QED
      BY <1>1, <1>4, <3>4
  <2>3. QED
    BY <2>1, <2>2
<1>8. QED
  BY <1>5, <1>6, <1>7 DEF Discover

LEMMA CapRequest ==
    ASSUME TypeOK, NEW c \in Mac, NEW ip \in Addr \cup {NoAddr},
           NEW name \in NamesOf(c), NEW owner, NEW d \in 0 .. ProbeDelay,
           Request(c, ip, name, owner, d)
    PROVE  TableSize(leases') > TableSize(leases) => TableSize(leases') <= maxEntries
<1> DEFINE L0  == removeExpiredLeases(leases)
           L1  == AgeLeases(L0, d)
           ack == RequestAck(c, ip, L0, owner)
<1>1. /\ d \in Nat /\ L0 \in Table /\ L1 \in Table
      /\ TableSize(L1) <= TableSize(leases)
      /\ TableSize(leases) \in Nat /\ TableSize(L1) \in Nat
      /\ \A x \in Addr : TableSize(RoomFor(L1, x)) <= TableSize(L1)
  BY WorkTables, CapPacket
<1>2. ack => ip \in Addr
  BY DEF RequestAck, RequestValid
<1>3. leases' \in Table
  BY RequestType DEF TypeOK
<1>4. TableSize(leases') \in Nat /\ \A x \in Addr : TableSize(RoomFor(L1, x)) \in Nat
  BY SizeMonotone
<1>5. CASE leases' = L1
  BY <1>1, <1>5
<1>6. CASE ack /\ leases' = RoomFor(L1, ip)
  BY <1>1, <1>2, <1>4, <1>6
<1>7. CASE /\ ack /\ canAddLeaseEntry(L1, ip)
           /\ leases' = addLease(RoomFor(L1, ip), c, ip, name)
  <2>1. ip \in Addr /\ RoomFor(L1, ip) \in Table
    BY <1>1, <1>2, <1>7, RoomType
  <2>2. \A a \in Addr \ {ip} : leases'[a] = RoomFor(L1, ip)[a]
    BY <1>7, <2>1, AddLeaseType
  <2>3. TableSize(leases') <= TableSize(L1) \/ TableSize(leases') <= maxEntries
    BY <1>1, <1>3, <1>7, <2>1, <2>2, SizeInsert
  <2>4. QED
    BY <1>1, <1>4, <2>3
<1>8. QED
  BY <1>5, <1>6, <1>7 DEF Request

\* The table grows only up to the cap in force, in every step.
THEOREM CapAlwaysRespected == Spec => CapRespected
<1>1. TypeOK /\ [Next]_vars =>
        [TableSize(leases') > TableSize(leases) => TableSize(leases') <= maxEntries]_vars
  <2> SUFFICES ASSUME TypeOK, Next
               PROVE  TableSize(leases') > TableSize(leases) => TableSize(leases') <= maxEntries
    OBVIOUS
  <2>1. leases \in Table
    BY DEF TypeOK
  <2>2. ASSUME \A a \in Addr : leases[a] = NoLease => leases'[a] = NoLease
        PROVE  ~(TableSize(leases') > TableSize(leases))
    <3>1. Used(leases') \subseteq Used(leases)
      BY <2>2 DEF Used
    <3>2. QED
      BY <3>1, SizeMonotone
  <2>3. CASE \E c \in Mac, ip \in Addr : Release(c, ip)
    <3>1. PICK c \in Mac, ip \in Addr : Release(c, ip)
      BY <2>3
    <3>2. leases' = [removeExpiredLeases(leases) EXCEPT ![ip] = NoLease]
      BY <3>1 DEF Release
    <3>3. \A a \in Addr : leases[a] = NoLease => leases'[a] = NoLease
      BY <2>1, <3>2, PurgeType DEF Table
    <3>4. QED
      BY <2>2, <3>3
  <2>4. CASE \E c \in Mac, ip \in Addr \cup {NoAddr} : Decline(c, ip)
    BY <2>1, <2>2, <2>4, PurgeType DEF Decline
  <2>5. CASE IdleLoop
    BY <2>1, <2>2, <2>5, PurgeType DEF IdleLoop
  <2>6. CASE Tick
    BY <2>1, <2>2, <2>6, AgeType DEF Tick
  <2>7. CASE Web
    BY <2>2, <2>7 DEF Web, reloadStaticBindings, reloadAllowedComputers, applyLeaseLimit
  <2>8. CASE Restart
    BY <2>2, <2>8 DEF Restart, NoLeases
  <2>9. CASE Packet
    BY <2>3, <2>4, <2>9, CapDiscover, CapRequest DEF Packet
  <2>10. QED
    BY <2>5, <2>6, <2>7, <2>8, <2>9 DEF Next
<1>2. QED
  BY <1>1, TypeCorrect, PTL DEF Spec, CapRespected
=============================================================================
