---------------------------- MODULE DhcpServer ----------------------------
(***************************************************************************)
(* The packet path of the DHCP server, src/dhcp/DhcpServer.cpp with        *)
(* src/dhcp/DeclinedAddresses.h and the policy of DhcpAllowedList.cpp:     *)
(* the lease/offer table, the hold-down on declined addresses, the static  *)
(* bindings, the allow-only switch and the table cap.                      *)
(*                                                                         *)
(* One action is one iteration of serverLoop(): the purge of expired       *)
(* entries, the packet's handler, and the time its probes take.  Absolute  *)
(* stamps are kept as what is left of them, so 0 means expired.  A probe   *)
(* of the network may miss a device or be answered by a stranger: its      *)
(* outcome is chosen freely.                                               *)
(*                                                                         *)
(* granted, offered, refused and policyAge are history variables: what the *)
(* clients were told in this run of the server, and how long ago the       *)
(* allow-only policy last changed.  No action reads them.                  *)
(***************************************************************************)
EXTENDS DhcpPool, FiniteSets, Sequences, FiniteSetsExt

CONSTANTS Mac,               \* clients, by hardware address
          Addr,              \* every address a packet or a binding may name
          LeaseTime,         \* leaseTimeSec_
          OfferHold,         \* kOfferHoldSec
          DeclineHold,       \* kDeclineHoldMs
          DeclineCapacity,   \* DeclinedAddresses::kCapacity
          ProbeDelay,        \* the longest one handler's probes take
          StaticConfigs,     \* the staticBindings_ the operator may configure
          PolicyConfigs,     \* the allow-only policies the operator may configure
          LimitConfigs,      \* the max_lease_entries the operator may configure
          TableAvailable,    \* the allow-list got its PSRAM block
          Named,             \* clients that report a name of their own
          NoLease, NoName    \* no entry under this key / an empty hostname

Longest == IF LeaseTime > OfferHold THEN LeaseTime ELSE OfferHold
Lease   == [mac: Mac, left: 0 .. Longest, host: Mac \cup {NoName}]
Binding == [mac: Mac, ip: Addr, enabled: BOOLEAN]

ASSUME DhcpAssumption ==
    /\ IsFiniteSet(Mac) /\ IsFiniteSet(Addr)
    /\ Addr \subseteq 1 .. Word - 1
    /\ Walk \subseteq Addr
    /\ LeaseTime \in Nat /\ OfferHold \in Nat \ {0}
    /\ DeclineHold \in Nat \ {0} /\ DeclineCapacity \in Nat \ {0}
    /\ ProbeDelay \in Nat
    /\ StaticConfigs \subseteq Seq(Binding)
    /\ PolicyConfigs \subseteq [only: BOOLEAN, list: SUBSET Mac]
    /\ LimitConfigs \subseteq Nat
    /\ TableAvailable \in BOOLEAN
    /\ Named \subseteq Mac /\ NoName \notin Mac
    /\ NoLease \notin Lease

VARIABLES leases,            \* leases_: address -> entry
          declined,          \* declined_.entries_, by slot
          staticBindings,    \* staticBindings_ (and its mirror allowedStaticRefs_)
          allowOnly,         \* allowOnly_
          allowedList,       \* the MACs allowedList_ contains
          maxEntries,        \* maxLeaseEntriesEffective_
          granted,           \* history: what is left of each client's last ACK
          offered,           \* history: what is left of each client's last OFFER
          refused,           \* history: hold-down left on each client's own DECLINE
          policyAge          \* history: time since the policy last changed

config  == <<staticBindings, allowOnly, allowedList, maxEntries>>
history == <<granted, offered, refused, policyAge>>
vars    == <<leases, declined, config, history>>

NoAddr == 0                  \* an absent option or a zero header field
Table  == [Addr -> Lease \cup {NoLease}]
Slot   == 1 .. DeclineCapacity
Unused == [ip |-> NoAddr, left |-> 0]          \* a slot whose `used` is false
Entry  == [ip: Addr \cup {NoAddr}, left: 0 .. DeclineHold]

-----------------------------------------------------------------------------
\* Time.  Minus is what is left after d units.
Minus(n, d) == IF n > d THEN n - d ELSE 0

AgeLeases(L, d) ==
    [a \in Addr |-> IF L[a] = NoLease THEN NoLease
                    ELSE [L[a] EXCEPT !.left = Minus(@, d)]]
AgeDeclined(D, d) == [s \in Slot |-> [D[s] EXCEPT !.left = Minus(@, d)]]
AgeTold(G, d)     == [c \in Mac |-> [a \in Addr |-> Minus(G[c][a], d)]]

\* As if: the purge is forgotten.
removeExpiredLeases_Never(L) == L

\* DhcpServer::removeExpiredLeases.
removeExpiredLeases(L) ==
    [a \in Addr |-> IF L[a] # NoLease /\ L[a].left = 0 THEN NoLease ELSE L[a]]

Used(L) == {a \in Addr : L[a] # NoLease}
TableSize(L) == Cardinality(Used(L))

-----------------------------------------------------------------------------
\* Static bindings, the allow-list policy and the hold-down table.
isStaticBindingForMac(c, ip) ==
    \E i \in DOMAIN staticBindings :
        /\ staticBindings[i].enabled
        /\ staticBindings[i].mac = c /\ staticBindings[i].ip = ip

isClientAllowed(c) ==
    \/ ~allowOnly
    \/ ~TableAvailable
    \/ c \in allowedList
    \/ \E i \in DOMAIN staticBindings :
           staticBindings[i].enabled /\ staticBindings[i].mac = c

\* As if: the policy is not consulted.
clientAdmitted_Anyone(c) == TRUE

\* The check handleDhcpMessage makes before it looks at the message type; a
\* packet that fails it is dropped.
clientAdmitted(c) == isClientAllowed(c)

addressDeclined(ip) == \E s \in Slot : declined[s].ip = ip /\ declined[s].left > 0

\* As if: a full table overwrites the refusal made last.
AddSlot_Newest(ip) ==
    LET own  == {s \in Slot : declined[s].left > 0 /\ declined[s].ip = ip}
        free == {s \in Slot : declined[s].left = 0}
        new  == {s \in Slot : \A t \in Slot : declined[s].left >= declined[t].left}
    IN  Min(IF own # {} THEN own ELSE IF free # {} THEN free ELSE new)

\* The slot DeclinedAddresses::add writes: the address's own, else the first
\* unused one, else the first of the oldest.  expire() has run: a slot whose
\* hold-down is over is unused.
AddSlot(ip) ==
    LET own  == {s \in Slot : declined[s].left > 0 /\ declined[s].ip = ip}
        free == {s \in Slot : declined[s].left = 0}
        old  == {s \in Slot : \A t \in Slot : declined[s].left <= declined[t].left}
    IN  Min(IF own # {} THEN own ELSE IF free # {} THEN free ELSE old)

expire(D) == [s \in Slot |-> IF D[s].left = 0 THEN Unused ELSE D[s]]

-----------------------------------------------------------------------------
\* Choosing and recording an address.

\* DhcpServer::selectIp.  `answers` is the set of addresses some device
\* answers a probe for while this packet is handled.
FreeBindings(c, L) ==
    {i \in DOMAIN staticBindings : /\ staticBindings[i].enabled
                                   /\ staticBindings[i].mac = c
                                   /\ L[staticBindings[i].ip] = NoLease}
Held(c, L) == {a \in Addr : L[a] # NoLease /\ L[a].mac = c}
Probed(L)  == {a \in Walk : /\ a # ServerIp
                            /\ L[a] = NoLease
                            /\ ~addressDeclined(a)}
FirstInMap(S) == CHOOSE a \in S : \A b \in S : NetOrder(a) <= NetOrder(b)

selectIp(c, L, answers) ==
    IF FreeBindings(c, L) # {} THEN staticBindings[Min(FreeBindings(c, L))].ip
    ELSE IF Held(c, L) # {} THEN FirstInMap(Held(c, L))
    ELSE IF Probed(L) \ answers # {} THEN Min(Probed(L) \ answers)
    ELSE NoAddr

\* The first half of sendDhcpOffer: honour the requested address or pick one.
HonourRequested(c, req, answers) ==
    /\ req # NoAddr
    /\ \/ isStaticBindingForMac(c, req)
       \/ isIpInRange(req) /\ ~addressDeclined(req) /\ req \notin answers

OfferIp(c, req, L, answers) ==
    IF HonourRequested(c, req, answers) THEN req ELSE selectIp(c, L, answers)

\* Whether a probe ran, and so time may have passed inside the handler.
OfferProbes(c, req, L, answers) ==
    \/ /\ req # NoAddr /\ isIpInRange(req)
       /\ ~isStaticBindingForMac(c, req) /\ ~addressDeclined(req)
    \/ /\ ~HonourRequested(c, req, answers)
       /\ FreeBindings(c, L) = {} /\ Held(c, L) = {} /\ Probed(L) # {}

\* DhcpServer::canAddLeaseEntry: a full table purges itself first.
RoomFor(L, ip) ==
    IF L[ip] = NoLease /\ TableSize(L) >= maxEntries
    THEN removeExpiredLeases(L) ELSE L
\* As if: one entry too many.
canAddLeaseEntry_OffByOne(L, ip) ==
    L[ip] # NoLease \/ TableSize(RoomFor(L, ip)) <= maxEntries
canAddLeaseEntry(L, ip) == L[ip] # NoLease \/ TableSize(RoomFor(L, ip)) < maxEntries

\* DhcpServer::addLease.
addLease(L, c, ip, name) ==
    [L EXCEPT ![ip] = [mac |-> c, left |-> LeaseTime, host |-> name]]

\* As if: an offer overwrites a confirmed lease.
KeepsLongLease_Never(L, ip) == FALSE

\* DhcpServer::reserveOffer: whether it succeeds, and the table it leaves.
KeepsLongLease(L, ip) == L[ip] # NoLease /\ L[ip].left > OfferHold
reserveOffer(L, c, ip, name) ==
    IF KeepsLongLease(L, ip)
    THEN IF name = NoName THEN L ELSE [L EXCEPT ![ip].host = name]
    ELSE [RoomFor(L, ip) EXCEPT ![ip] = [mac |-> c, left |-> OfferHold, host |-> name]]
OfferReserved(L, ip) == KeepsLongLease(L, ip) \/ canAddLeaseEntry(L, ip)

-----------------------------------------------------------------------------
\* Names a client may report in option 12/81.
NamesOf(c) == {NoName} \cup (Named \cap {c})

\* d units pass: everything that is not rewritten by the step gets older.
Passes(d) == /\ declined' = AgeDeclined(declined, d)
             /\ policyAge' = IF policyAge + d < Longest THEN policyAge + d ELSE Longest

\* DHCPDISCOVER from an allowed client: sendDhcpOffer.
Discover(c, req, name, answers, d) ==
    LET L0 == removeExpiredLeases(leases)
        L1 == AgeLeases(L0, d)
        ip == OfferIp(c, req, L0, answers)
    IN  /\ clientAdmitted(c)
        /\ d > 0 => OfferProbes(c, req, L0, answers)
        /\ granted' = AgeTold(granted, d)
        /\ \/ /\ ip # NoAddr /\ OfferReserved(L1, ip)
              /\ leases' = reserveOffer(L1, c, ip, name)
              /\ offered' = [AgeTold(offered, d) EXCEPT ![c] =
                                [a \in Addr |-> IF a = ip THEN OfferHold ELSE 0]]
              /\ refused' = IF isStaticBindingForMac(c, ip)
                            THEN [AgeTold(refused, d) EXCEPT ![c][ip] = 0]
                            ELSE AgeTold(refused, d)
           \/ /\ ip = NoAddr
              /\ leases' = L1
              /\ offered' = AgeTold(offered, d) /\ refused' = AgeTold(refused, d)
           \/ /\ ip # NoAddr /\ ~OfferReserved(L1, ip)
              /\ leases' = RoomFor(L1, ip)
              /\ offered' = AgeTold(offered, d) /\ refused' = AgeTold(refused, d)
        /\ Passes(d)
        /\ UNCHANGED config

\* The decision of the DHCPREQUEST branch.  `owner` is the probe's answer:
\* NoAddr for silence, c when the requester itself answered, NoName when
\* another device did or ICMP found one whose MAC stayed unknown.
RequestValid(c, ip) ==
    ip # NoAddr /\ ip # ServerIp /\ (isIpInRange(ip) \/ isStaticBindingForMac(c, ip))
RequestProbes(c, ip, L) ==
    /\ RequestValid(c, ip) /\ ~isStaticBindingForMac(c, ip)
    /\ L[ip] = NoLease /\ ~addressDeclined(ip)
RequestAck(c, ip, L, owner) ==
    /\ RequestValid(c, ip)
    /\ \/ isStaticBindingForMac(c, ip)
       \/ L[ip] # NoLease /\ L[ip].mac = c
       \/ RequestProbes(c, ip, L) /\ owner \in {NoAddr, c}

\* DHCPREQUEST addressed to this server (or to none): ACK then addLease, or NAK.
\* ip is the requested address, or ciaddr when the option is absent.  A static
\* binding overrules an older grant of the same address.
Request(c, ip, name, owner, d) ==
    LET L0  == removeExpiredLeases(leases)
        L1  == AgeLeases(L0, d)
        ack == RequestAck(c, ip, L0, owner)
        g1  == AgeTold(granted, d)
    IN  /\ clientAdmitted(c)
        /\ d > 0 => RequestProbes(c, ip, L0)
        /\ offered' = [AgeTold(offered, d) EXCEPT ![c] = [a \in Addr |-> 0]]
        /\ \/ /\ ack /\ canAddLeaseEntry(L1, ip)                    \* ACK
              /\ leases' = addLease(RoomFor(L1, ip), c, ip, name)
              /\ granted' =
                   [m \in Mac |-> [a \in Addr |->
                      IF a = ip /\ m = c THEN LeaseTime
                      ELSE IF a = ip /\ isStaticBindingForMac(c, ip) THEN 0
                      ELSE g1[m][a]]]
              /\ refused' = IF isStaticBindingForMac(c, ip)
                            THEN [AgeTold(refused, d) EXCEPT ![c][ip] = 0]
                            ELSE AgeTold(refused, d)
           \/ /\ ack /\ ~canAddLeaseEntry(L1, ip)                   \* NAK, full
              /\ leases' = RoomFor(L1, ip)
              /\ granted' = g1 /\ refused' = AgeTold(refused, d)
           \/ /\ ~ack                                               \* NAK
              /\ leases' = L1
              /\ granted' = g1 /\ refused' = AgeTold(refused, d)
        /\ Passes(d)
        /\ UNCHANGED config

\* DHCPRELEASE: the entry under ciaddr goes, whoever holds it.
Release(c, ip) ==
    /\ clientAdmitted(c)
    /\ removeExpiredLeases(leases)[ip] # NoLease
    /\ leases' = [removeExpiredLeases(leases) EXCEPT ![ip] = NoLease]
    /\ granted' = [m \in Mac |-> [granted[m] EXCEPT ![ip] = 0]]
    /\ UNCHANGED <<declined, config, offered, refused, policyAge>>

\* DHCPDECLINE: a lease of the refusing client goes, the address is held down;
\* a full hold-down table forgets its oldest refusal.
Decline(c, ip) ==
    LET L0 == removeExpiredLeases(leases)
        \* history: only the oldest refusals, and only when every slot is taken
        forgotten == {declined[s].ip : s \in
                        {t \in Slot : \A u \in Slot : /\ declined[u].left > 0
                                                   /\ declined[u].ip # ip
                                                   /\ declined[t].left <= declined[u].left}}
    IN  /\ clientAdmitted(c)
        /\ leases' = [a \in Addr |-> IF a = ip /\ L0[a] # NoLease /\ L0[a].mac = c
                                     THEN NoLease ELSE L0[a]]
        /\ declined' = 
              [expire(declined) EXCEPT ![AddSlot(ip)] = [ip |-> ip, left |-> DeclineHold]]
        /\ granted' = [granted EXCEPT ![c] =
                          [a \in Addr |-> IF a = ip THEN 0 ELSE granted[c][a]]]
        /\ refused' = [m \in Mac |-> [a \in Addr |->
                          IF a = ip /\ m = c THEN DeclineHold
                          ELSE IF a \in forgotten THEN 0 ELSE refused[m][a]]]
        /\ offered' = [offered EXCEPT ![c] = [a \in Addr |-> 0]]
        /\ UNCHANGED <<config, policyAge>>

\* The receive timeout, and every packet that changes nothing but the purge:
\* too short, wrong cookie, no message type, another server's, not an allowed
\* client, a RELEASE of an address that has no entry.
IdleLoop ==
    /\ leases' = removeExpiredLeases(leases)
    /\ UNCHANGED <<declined, config, history>>

\* Time passes between two iterations of the loop.
Tick ==
    /\ leases' = AgeLeases(leases, 1)
    /\ granted' = AgeTold(granted, 1)
    /\ offered' = AgeTold(offered, 1)
    /\ refused' = AgeTold(refused, 1)
    /\ Passes(1)
    /\ UNCHANGED config

\* The web interface, on its own task.
reloadStaticBindings ==
    /\ staticBindings' \in StaticConfigs
    /\ policyAge' = IF staticBindings' = staticBindings THEN policyAge ELSE 0
    /\ UNCHANGED <<leases, declined, allowOnly, allowedList, maxEntries,
                   granted, offered, refused>>

reloadAllowedComputers ==
    /\ \E p \in PolicyConfigs : allowOnly' = p.only /\ allowedList' = p.list
    /\ policyAge' = IF allowOnly' = allowOnly /\ allowedList' = allowedList
                    THEN policyAge ELSE 0
    /\ UNCHANGED <<leases, declined, staticBindings, maxEntries,
                   granted, offered, refused>>

applyLeaseLimit ==
    /\ \E n \in LimitConfigs : maxEntries' = EffectiveLimit(n)
    /\ UNCHANGED <<leases, declined, staticBindings, allowOnly, allowedList, history>>

\* stop() followed by start(): both tables start empty, the settings are
\* re-read, and the history of this run begins.
NoLeases == [a \in Addr |-> NoLease]
Nothing  == [c \in Mac |-> [a \in Addr |-> 0]]
Restart ==
    /\ leases' = NoLeases
    /\ declined' = [s \in Slot |-> Unused]
    /\ granted' = Nothing /\ offered' = Nothing /\ refused' = Nothing
    /\ UNCHANGED <<config, policyAge>>

Init ==
    /\ leases = NoLeases
    /\ declined = [s \in Slot |-> Unused]
    /\ staticBindings \in StaticConfigs
    /\ \E p \in PolicyConfigs : allowOnly = p.only /\ allowedList = p.list
    /\ \E n \in LimitConfigs : maxEntries = EffectiveLimit(n)
    /\ granted = Nothing /\ offered = Nothing /\ refused = Nothing
    /\ policyAge = Longest                \* no entry predates the policy

Packet ==
    \E c \in Mac :
        \/ \E req \in Addr \cup {NoAddr}, name \in NamesOf(c),
              answers \in SUBSET (Walk \ {ServerIp}), d \in 0 .. ProbeDelay :
                  Discover(c, req, name, answers, d)
        \/ \E ip \in Addr \cup {NoAddr}, name \in NamesOf(c),
              owner \in {NoAddr, NoName, c}, d \in 0 .. ProbeDelay :
                  Request(c, ip, name, owner, d)
        \/ \E ip \in Addr : Release(c, ip)
        \/ \E ip \in Addr \cup {NoAddr} : Decline(c, ip)

Web == reloadStaticBindings \/ reloadAllowedComputers \/ applyLeaseLimit

Next == Packet \/ IdleLoop \/ Tick \/ Web \/ Restart

\* serverLoop() never blocks for longer than the socket's 2 s receive timeout.
Spec == Init /\ [][Next]_vars /\ WF_vars(IdleLoop)

-----------------------------------------------------------------------------
(* Properties.                                                             *)

\* Every variable keeps its type.
TypeOK ==
    /\ leases \in Table
    /\ declined \in [Slot -> Entry]
    /\ staticBindings \in StaticConfigs
    /\ allowOnly \in BOOLEAN /\ allowedList \in SUBSET Mac
    /\ maxEntries \in Nat
    /\ granted \in [Mac -> [Addr -> 0 .. LeaseTime]]
    /\ offered \in [Mac -> [Addr -> 0 .. OfferHold]]
    /\ refused \in [Mac -> [Addr -> 0 .. DeclineHold]]
    /\ policyAge \in 0 .. Longest

\* A grant with more than the offer hold left is in the table, under the
\* client it was made to and with the same time left: no other client's OFFER,
\* REQUEST or DECLINE, no purge and no full table removes or shortens it
\* (reserveOffer, canAddLeaseEntry and removeExpiredLeases).
GrantTracked ==
    \A c \in Mac, a \in Addr :
        granted[c][a] > OfferHold =>
            /\ leases[a] # NoLease
            /\ leases[a].mac = c /\ leases[a].left = granted[c][a]

\* Two clients are never both told that an address is theirs for longer than
\* the offer hold, unless a static binding gave it to the second.
GrantExclusive ==
    \A c, m \in Mac, a \in Addr :
        granted[c][a] > OfferHold /\ granted[m][a] > OfferHold => c = m

\* The client that declined an address is neither offered nor granted it again
\* while the refusal is in force, the loop DeclinedAddresses exists to break;
\* only a static binding or Capacity later refusals end the hold-down early.
RefusedNotReissued ==
    \A c \in Mac, a \in Addr :
        refused[c][a] > 0 =>
            /\ \E s \in Slot : declined[s].ip = a /\ declined[s].left >= refused[c][a]
            /\ leases[a] # NoLease => leases[a].mac # c

\* A client that is not allowed loses what it holds at its next renewal at the
\* latest: its entry never outlives the longest time one could have been given
\* before the policy last changed (the allow-only check of handleDhcpMessage).
PolicyTakesHold ==
    \A a \in Addr :
        leases[a] # NoLease /\ ~isClientAllowed(leases[a].mac) =>
            leases[a].left + policyAge <= Longest

\* The table grows only up to the cap in force; a cap lowered under the table's
\* size removes nothing and admits nothing (canAddLeaseEntry, both callers).
CapRespected ==
    [][TableSize(leases') > TableSize(leases) => TableSize(leases') <= maxEntries]_vars

\* An entry whose time is up leaves the table or is renewed: the purge runs on
\* every receive timeout, packets or no packets.
ExpiredEntryLeaves ==
    \A a \in Addr :
        (leases[a] # NoLease /\ leases[a].left = 0)
            ~> (leases[a] = NoLease \/ leases[a].left > 0)

\* An address is on offer to one client at a time: reserveOffer's "so
\* concurrent DISCOVERs from different clients don't get offered the same
\* address".
OfferExclusive ==
    \A c, m \in Mac, a \in Addr :
        offered[c][a] > 0 /\ offered[m][a] > 0 => c = m
===========================================================================
