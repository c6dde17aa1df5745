------------------------- MODULE DnsForwardProofs -------------------------
(***************************************************************************)
(* The pending-forward table of DnsForward for any number of questions,    *)
(* names and slots and any depth of the queues: every variable keeps its   *)
(* type, slots and waiting questions correspond one to one, and nothing is *)
(* forwarded twice.  The last needs to know how often the question in a    *)
(* slot was forwarded in each phase (PhaseCounts).  While the external     *)
(* cache is off, clients also get the addresses they asked for.            *)
(***************************************************************************)
EXTENDS DnsForward, TLAPS, WellFoundedInduction

-----------------------------------------------------------------------------
(* Type correctness.                                                       *)

\* The lowest free slot is a free slot when there is one (allocPendingSlot).
LEMMA AllocIsFree ==
    ASSUME ~NoSlot
    PROVE  allocPendingSlot \in Slot /\ slot[allocPendingSlot] = None
<1> DEFINE Free == Slot \ Active
<1>1. Free # {} /\ Free \subseteq Nat
  BY DnsForwardAssumption DEF NoSlot, Active, Slot
<1>2. \E x \in Free : \A y \in Free : ~(<<y, x>> \in OpToRel(<, Nat))
  BY <1>1, WFMin, NatLessThanWellFounded, Zenon
<1>3. PICK x \in Free : \A y \in Free : ~(<<y, x>> \in OpToRel(<, Nat))
  BY <1>2
<1>4. ASSUME NEW y \in Free PROVE x <= y
  <2>1. ~(<<y, x>> \in {ss \in Nat \X Nat : ss[1] < ss[2]})
    BY <1>3 DEF OpToRel
  <2>2. x \in Nat /\ y \in Nat
    BY <1>1
  <2>3. QED
    BY <2>1, <2>2
<1>5. \E s \in Slot \ Active : \A t \in Slot \ Active : s <= t
  BY <1>4
<1>6. allocPendingSlot \in Slot \ Active
  BY <1>5 DEF allocPendingSlot
<1>7. QED
  BY <1>6 DEF Active

\* A question in an active slot is one of the questions.
LEMMA ActiveHolds ==
    ASSUME TypeOK, NEW s \in Active
    PROVE  s \in Slot /\ slot[s] \in Query
BY DEF TypeOK, Active

\* The replies of the handlers are replies.
LEMMA ReplyTypes ==
    /\ NoReply \in Reply /\ NXDOMAIN \in Reply /\ NODATA \in Reply /\ Relayed \in Reply
    /\ Addresses \subseteq Reply
    /\ \A q \in Query : TypeOf[q] \in Family => <<DomainOf[q], TypeOf[q]>> \in Addresses
    /\ \A q \in Query : DomainOf[q] \in Domain /\ TypeOf[q] \in Type
BY DnsForwardAssumption DEF Reply, Addresses

\* startForward() keeps the types of the question and of its slot.
LEMMA ForwardType ==
    ASSUME TypeOK, NEW s \in Active, startForward(s)
    PROVE  /\ client' \in [Query -> {"idle", "sent", "waiting"}]
           /\ reply' \in [Query -> Reply] /\ forwarded' \in [Query -> Nat]
           /\ slot' \in [Slot -> Query \cup {None}] /\ waitingCache' \in [Slot -> BOOLEAN]
<1>1. s \in Slot /\ slot[s] \in Query
  BY ActiveHolds
<1>2. CASE /\ waitingCache' = [waitingCache EXCEPT ![s] = FALSE]
           /\ forwarded' = [forwarded EXCEPT ![slot[s]] = @ + 1]
           /\ UNCHANGED <<slot, client, reply>>
  BY <1>1, <1>2 DEF TypeOK
<1>3. CASE expirePendingSlot(s) /\ UNCHANGED forwarded
  BY <1>1, <1>3, ReplyTypes DEF expirePendingSlot, SendReply, freePendingSlot, TypeOK
<1>4. QED
  BY <1>2, <1>3 DEF startForward

LEMMA InternalType ==
    ASSUME TypeOK, NEW q \in Query, NEW ips \in Addresses, StoreInternal(q, ips)
    PROVE  internal' \in [Domain -> [Family -> {NoReply} \cup Addresses]]
BY ReplyTypes DEF StoreInternal, TypeOK

LEMMA TypeInit == Init => TypeOK
<1> SUFFICES ASSUME Init PROVE TypeOK
  OBVIOUS
<1>1. readEnabled \in BOOLEAN /\ lookupBadCount \in 0 .. kFailThreshold
  BY DnsForwardAssumption DEF Init
<1>2. internal \in [Domain -> [Family -> {NoReply} \cup Addresses]]
  BY DEF Init
<1>3. lookupQueue \in Seq(Request) /\ results \in Seq(LookupResult)
  BY DEF Init
<1>4. reply \in [Query -> Reply]
  BY ReplyTypes DEF Init
<1>5. QED
  BY <1>1, <1>2, <1>3, <1>4 DEF Init, TypeOK

LEMMA TypeQuery ==
    ASSUME TypeOK, NEW q \in Query, Ask(q) \/ QueryStep(q)
    PROVE  TypeOK'
<1>1. CASE Ask(q)
  BY <1>1, ReplyTypes DEF Ask, TypeOK, table, lookups, breaker
<1>2. CASE Ignore(q)
  BY <1>2 DEF Ignore, TypeOK, table, lookups, breaker
<1>3. CASE AnswerHere(q)
  <2>1. Cached(q) \in {NoReply} \cup Addresses
    BY ReplyTypes DEF Cached, TypeOK, Family
  <2> DEFINE r == IF IsLocal(q)
                  THEN IF TypeOf[q] \in LocalHosts[DomainOf[q]]
                       THEN <<DomainOf[q], TypeOf[q]>> ELSE NODATA
                  ELSE IF Cached(q) # NoReply THEN Cached(q) ELSE NODATA
  <2>2. r \in Reply
    BY <2>1, ReplyTypes, DnsForwardAssumption
  <2>3. client' = [client EXCEPT ![q] = "idle"] /\ reply' = [reply EXCEPT ![q] = r]
    BY <1>3 DEF AnswerHere, SendReply
  <2>4. QED
    BY <1>3, <2>2, <2>3 DEF AnswerHere, TypeOK, table, lookups, breaker
<1>4. CASE AnswerNoSlot(q)
  BY <1>4, ReplyTypes DEF AnswerNoSlot, SendReply, TypeOK, table, lookups, breaker
<1>5. CASE CheckCache(q)
  <2>1. allocPendingSlot \in Slot
    BY <1>5, AllocIsFree DEF CheckCache
  <2> DEFINE req == [token |-> allocPendingSlot, domain |-> DomainOf[q], type |-> TypeOf[q]]
  <2>2. req \in Request
    BY <2>1, ReplyTypes DEF Request
  <2>3. submitLookup(DomainOf[q], TypeOf[q], allocPendingSlot)
    BY <1>5 DEF CheckCache
  <2>4. lookupQueue \in Seq(Request)
    BY DEF TypeOK
  <2>5. lookupQueue' \in Seq(Request) /\ pendingDomains' \subseteq Domain
    <3>1. CASE DomainOf[q] \in pendingDomains
      BY <2>3, <2>4, <3>1 DEF submitLookup, TypeOK
    <3>2. CASE DomainOf[q] \notin pendingDomains
      <4>1. pendingDomains' \subseteq Domain
        BY <2>3, <3>2, ReplyTypes DEF submitLookup, markPending, TypeOK
      <4>2. lookupQueue' \in {Append(lookupQueue, req), Append(Tail(lookupQueue), req)}
        BY <2>3, <3>2 DEF submitLookup
      <4>3. Append(lookupQueue, req) \in Seq(Request)
        BY <2>2, <2>4
      <4>4. Len(lookupQueue) < kLookupQueueDepth \/ lookupQueue # <<>>
        BY <2>4, DnsForwardAssumption
      <4>5. lookupQueue # <<>> => Append(Tail(lookupQueue), req) \in Seq(Request)
        BY <2>2, <2>4
      <4>6. lookupQueue = <<>> => lookupQueue' = Append(lookupQueue, req)
        BY <2>3, <3>2, <4>4, DnsForwardAssumption DEF submitLookup
      <4>7. QED
        BY <4>1, <4>2, <4>3, <4>5, <4>6
    <3>3. QED
      BY <3>1, <3>2
  <2>6. QED
    BY <1>5, <2>1, <2>5 DEF CheckCache, TypeOK, breaker
<1>6. CASE ForwardDirectly(q)
  <2>1. allocPendingSlot \in Slot
    BY <1>6, AllocIsFree DEF ForwardDirectly
  <2>2. /\ client' \in [Query -> {"idle", "sent", "waiting"}]
        /\ reply' \in [Query -> Reply] /\ forwarded' \in [Query -> Nat]
        /\ slot' \in [Slot -> Query \cup {None}]
    <3>1. CASE /\ slot' = [slot EXCEPT ![allocPendingSlot] = q]
               /\ client' = [client EXCEPT ![q] = "waiting"]
               /\ forwarded' = [forwarded EXCEPT ![q] = @ + 1] /\ UNCHANGED reply
      BY <2>1, <3>1 DEF TypeOK
    <3>2. CASE SendReply(q, NXDOMAIN) /\ UNCHANGED <<slot, forwarded>>
      BY <3>2, ReplyTypes DEF SendReply, TypeOK
    <3>3. QED
      BY <1>6, <3>1, <3>2 DEF ForwardDirectly
  <2>3. \E b \in BOOLEAN : waitingCache' = [waitingCache EXCEPT ![allocPendingSlot] = b]
    BY <1>6 DEF ForwardDirectly
  <2>4. waitingCache' \in [Slot -> BOOLEAN]
    BY <2>1, <2>3 DEF TypeOK
  <2>5. QED
    BY <1>6, <2>2, <2>4 DEF ForwardDirectly, TypeOK, lookups, breaker
<1>7. QED
  BY <1>1, <1>2, <1>3, <1>4, <1>5, <1>6 DEF QueryStep

LEMMA TypeSlot ==
    ASSUME TypeOK, NEW s \in Slot, SlotExpires(s) \/ UpstreamAnswers(s)
    PROVE  TypeOK'
<1>1. CASE CacheTimeout(s)
  BY <1>1, ForwardType DEF CacheTimeout, TypeOK, lookups, breaker
<1>2. CASE UpstreamTimeout(s)
  BY <1>2, ActiveHolds, ReplyTypes
     DEF UpstreamTimeout, expirePendingSlot, SendReply, freePendingSlot, TypeOK, lookups, breaker
<1>3. CASE UpstreamAnswers(s)
  <2>1. slot[s] \in Query
    BY <1>3, ActiveHolds DEF UpstreamAnswers
  <2>2. internal' \in [Domain -> [Family -> {NoReply} \cup Addresses]]
    BY <1>3, <2>1, InternalType, ReplyTypes DEF UpstreamAnswers, TypeOK
  <2>3. reply' \in [Query -> Reply] /\ client' \in [Query -> {"idle", "sent", "waiting"}]
    BY <1>3, <2>1, ReplyTypes DEF UpstreamAnswers, SendReply, TypeOK
  <2>4. QED
    BY <1>3, <2>1, <2>2, <2>3 DEF UpstreamAnswers, freePendingSlot, TypeOK, lookups, breaker
<1>4. QED
  BY <1>1, <1>2, <1>3 DEF SlotExpires

LEMMA TypeDrain ==
    ASSUME TypeOK, DrainResult
    PROVE  TypeOK'
<1> DEFINE res == Head(results)
<1>1. res \in LookupResult /\ results' \in Seq(LookupResult)
  BY DEF DrainResult, TypeOK
<1>2. res.token \in Slot /\ res.ips \in Addresses
  BY <1>1 DEF LookupResult
<1>3. CASE UNCHANGED <<questions, table, internal>>
  BY <1>1, <1>3 DEF DrainResult, TypeOK, questions, table, breaker
<1>4. CASE StillWaiting(res.token) /\ startForward(res.token) /\ UNCHANGED internal
  <2>1. res.token \in Active
    BY <1>4 DEF StillWaiting
  <2>2. QED
    BY <1>1, <1>4, <2>1, ForwardType DEF DrainResult, TypeOK, breaker
<1>5. CASE /\ StillWaiting(res.token) /\ StoreInternal(slot[res.token], res.ips)
           /\ SendReply(slot[res.token], res.ips)
           /\ freePendingSlot(res.token) /\ UNCHANGED forwarded
  <2>1. slot[res.token] \in Query
    BY <1>5, ActiveHolds DEF StillWaiting
  <2>2. internal' \in [Domain -> [Family -> {NoReply} \cup Addresses]]
    BY <1>2, <1>5, <2>1, InternalType
  <2>3. QED
    BY <1>1, <1>2, <1>5, <2>1, <2>2, ReplyTypes
       DEF DrainResult, SendReply, freePendingSlot, TypeOK, breaker
<1>6. QED
  BY <1>3, <1>4, <1>5 DEF DrainResult

LEMMA TypeWorker ==
    ASSUME TypeOK, WorkerStep
    PROVE  TypeOK'
<1>1. CASE WorkerTakes
  BY <1>1 DEF WorkerTakes, TypeOK, questions, table, breaker
<1>2. CASE \E hit, slow \in BOOLEAN : WorkerDelivers(hit, slow)
  <2>1. PICK hit \in BOOLEAN, slow \in BOOLEAN : WorkerDelivers(hit, slow)
    BY <1>2
  <2>2. worker \in Request
    BY <2>1 DEF WorkerDelivers, TypeOK
  <2> DEFINE res == [token |-> worker.token, hit |-> hit, ips |-> LookupIps(worker)]
  <2>3. res \in LookupResult
    BY <2>2 DEF Request, LookupResult, LookupIps, Addresses, Family
  <2>4. results' \in Seq(LookupResult)
    BY <2>1, <2>3 DEF WorkerDelivers, TypeOK
  <2>5. lookupBadCount' \in 0 .. kFailThreshold /\ degraded' \in BOOLEAN
    <3>1. lookupBadCount \in 0 .. kFailThreshold /\ kFailThreshold \in Nat
      BY DnsForwardAssumption DEF TypeOK
    <3>2. lookupBadCount' \in 0 .. kFailThreshold
      BY <2>1, <3>1 DEF WorkerDelivers, notifyLookupOutcome
    <3>3. degraded' \in BOOLEAN
      BY <2>1 DEF WorkerDelivers, notifyLookupOutcome, TypeOK
    <3>4. QED
      BY <3>2, <3>3
  <2>6. QED
    BY <2>1, <2>4, <2>5 DEF WorkerDelivers, TypeOK, questions, table
<1>3. QED
  BY <1>1, <1>2 DEF WorkerStep

LEMMA TypeRest ==
    ASSUME TypeOK,
           \/ CooldownOver \/ setReadEnabled \/ Restart
           \/ \E d \in Domain, t \in Family : EntryExpires(d, t)
    PROVE  TypeOK'
<1>1. CASE CooldownOver
  BY <1>1 DEF CooldownOver, TypeOK, questions, table, lookups
<1>2. CASE setReadEnabled
  BY <1>2, DnsForwardAssumption DEF setReadEnabled, TypeOK, questions, table, lookups
<1>3. CASE Restart
  BY <1>3 DEF Restart, TypeOK, lookups, breaker
<1>4. CASE \E d \in Domain, t \in Family : EntryExpires(d, t)
  BY <1>4 DEF EntryExpires, TypeOK, questions, table, lookups, breaker
<1>5. QED
  BY <1>1, <1>2, <1>3, <1>4

LEMMA TypeStep == TypeOK /\ [Next]_vars => TypeOK'
<1>1. ASSUME TypeOK, Next PROVE TypeOK'
  BY <1>1, TypeQuery, TypeSlot, TypeDrain, TypeWorker, TypeRest DEF Next
<1>2. ASSUME TypeOK, UNCHANGED vars PROVE TypeOK'
  BY <1>2 DEF vars, questions, table, lookups, breaker, TypeOK
<1>3. QED
  BY <1>1, <1>2

\* Every variable of the query path keeps its type, whatever the loop, the
\* worker, the operator and a restart do.
THEOREM TypeCorrect == Spec => []TypeOK
BY TypeInit, TypeStep, PTL DEF Spec

-----------------------------------------------------------------------------
(* Slots and questions.                                                    *)

\* SlotPerQuestion without the set of active slots.
SlotOwners ==
    /\ \A s \in Slot : slot[s] # None => client[slot[s]] = "waiting"
    /\ \A s, t \in Slot : slot[s] # None /\ slot[s] = slot[t] => s = t
    /\ \A q \in Query : client[q] = "waiting" => \E s \in Slot : slot[s] = q

\* A question in the socket or in phase 1 was not forwarded, one in phase 2 was
\* forwarded once.
PhaseCounts ==
    /\ \A q \in Query : client[q] = "sent" => forwarded[q] = 0
    /\ \A s \in Slot : slot[s] # None =>
           forwarded[slot[s]] = IF waitingCache[s] THEN 0 ELSE 1

\* The inductive invariant of the table.
TableInv == SlotOwners /\ PhaseCounts /\ ForwardedOnce

\* The five ways a step may touch the table.  Nothing:
LEMMA Untouched ==
    ASSUME TableInv, UNCHANGED <<client, forwarded, slot, waitingCache>>
    PROVE  TableInv'
BY DEF TableInv, SlotOwners, PhaseCounts, ForwardedOnce

\* a question from the socket is answered or dropped at once;
LEMMA AnsweredAtOnce ==
    ASSUME TypeOK, TableInv, NEW q \in Query, client[q] = "sent",
           client' = [client EXCEPT ![q] = "idle"],
           UNCHANGED <<forwarded, slot>>,
           \A s \in Slot : slot[s] # None => waitingCache'[s] = waitingCache[s]
    PROVE  TableInv'
<1>1. \A s \in Slot : slot[s] # None => slot[s] \in Query /\ slot[s] # q
  BY DEF TableInv, SlotOwners, TypeOK
<1>2. SlotOwners'
  BY <1>1 DEF TableInv, SlotOwners, TypeOK
<1>3. PhaseCounts' /\ ForwardedOnce'
  BY <1>1 DEF TableInv, PhaseCounts, ForwardedOnce, TypeOK
<1>4. QED
  BY <1>2, <1>3 DEF TableInv

\* it enters a free slot, in phase 1 or forwarded;
LEMMA Entered ==
    ASSUME TypeOK, TableInv, NEW q \in Query, client[q] = "sent",
           NEW s \in Slot, slot[s] = None, NEW b \in BOOLEAN,
           slot' = [slot EXCEPT ![s] = q],
           waitingCache' = [waitingCache EXCEPT ![s] = b],
           client' = [client EXCEPT ![q] = "waiting"],
           forwarded' = IF b THEN forwarded ELSE [forwarded EXCEPT ![q] = @ + 1]
    PROVE  TableInv'
<1>1. \A t \in Slot : slot[t] # None => slot[t] \in Query /\ slot[t] # q /\ t # s
  BY DEF TableInv, SlotOwners, TypeOK
<1>2. q # None /\ forwarded[q] = 0
  BY DnsForwardAssumption DEF TableInv, PhaseCounts
<1>3. SlotOwners'
  <2>1. \A t \in Slot : slot'[t] # None => client'[slot'[t]] = "waiting"
    BY <1>1, <1>2 DEF TableInv, SlotOwners, TypeOK
  <2>2. \A t, u \in Slot : slot'[t] # None /\ slot'[t] = slot'[u] => t = u
    BY <1>1, <1>2 DEF TableInv, SlotOwners, TypeOK
  <2>3. ASSUME NEW r \in Query, client'[r] = "waiting"
        PROVE  \E t \in Slot : slot'[t] = r
    <3>1. CASE r = q
      BY <3>1 DEF TypeOK
    <3>2. CASE r # q
      <4>1. PICK t \in Slot : slot[t] = r
        BY <2>3, <3>2 DEF TableInv, SlotOwners, TypeOK
      <4>2. t # s
        BY <4>1, DnsForwardAssumption
      <4>3. QED
        BY <4>1, <4>2 DEF TypeOK
    <3>3. QED
      BY <3>1, <3>2
  <2>4. QED
    BY <2>1, <2>2, <2>3 DEF SlotOwners
<1>4. \A r \in Query : forwarded'[r] = IF r = q /\ ~b THEN 1 ELSE forwarded[r]
  BY <1>2 DEF TypeOK
<1>5. PhaseCounts'
  BY <1>1, <1>2, <1>4 DEF TableInv, PhaseCounts, TypeOK
<1>6. ForwardedOnce'
  BY <1>4 DEF TableInv, ForwardedOnce
<1>7. QED
  BY <1>3, <1>5, <1>6 DEF TableInv

\* the question of a slot is answered and the slot freed;
LEMMA Left ==
    ASSUME TypeOK, TableInv, NEW s \in Active,
           slot' = [slot EXCEPT ![s] = None],
           client' = [client EXCEPT ![slot[s]] = "idle"],
           UNCHANGED <<forwarded, waitingCache>>
    PROVE  TableInv'
<1>1. s \in Slot /\ slot[s] \in Query /\ slot[s] # None
  BY ActiveHolds DEF Active
<1>2. \A t \in Slot : slot'[t] # None =>
         t # s /\ slot'[t] = slot[t] /\ slot[t] # slot[s] /\ slot[t] \in Query
  BY <1>1 DEF TableInv, SlotOwners, TypeOK
<1>3. SlotOwners'
  <2>1. \A t \in Slot : slot'[t] # None => client'[slot'[t]] = "waiting"
    BY <1>1, <1>2 DEF TableInv, SlotOwners, TypeOK
  <2>2. \A t, u \in Slot : slot'[t] # None /\ slot'[t] = slot'[u] => t = u
    BY <1>2 DEF TableInv, SlotOwners
  <2>3. ASSUME NEW r \in Query, client'[r] = "waiting"
        PROVE  \E t \in Slot : slot'[t] = r
    <3>1. r # slot[s] /\ client[r] = "waiting"
      BY <1>1, <2>3 DEF TypeOK
    <3>2. PICK t \in Slot : slot[t] = r
      BY <3>1 DEF TableInv, SlotOwners
    <3>3. QED
      BY <3>1, <3>2 DEF TypeOK
  <2>4. QED
    BY <2>1, <2>2, <2>3 DEF SlotOwners
<1>4. PhaseCounts' /\ ForwardedOnce'
  BY <1>1, <1>2 DEF TableInv, PhaseCounts, ForwardedOnce, TypeOK
<1>5. QED
  BY <1>3, <1>4 DEF TableInv

\* the question of a slot in phase 1 is forwarded.
LEMMA Advanced ==
    ASSUME TypeOK, TableInv, NEW s \in Active, waitingCache[s],
           waitingCache' = [waitingCache EXCEPT ![s] = FALSE],
           forwarded' = [forwarded EXCEPT ![slot[s]] = @ + 1],
           UNCHANGED <<slot, client>>
    PROVE  TableInv'
<1>1. s \in Slot /\ slot[s] \in Query /\ slot[s] # None
  BY ActiveHolds DEF Active
<1>2. forwarded[slot[s]] = 0 /\ client[slot[s]] = "waiting"
  BY <1>1 DEF TableInv, SlotOwners, PhaseCounts
<1>3. \A r \in Query : forwarded'[r] = IF r = slot[s] THEN 1 ELSE forwarded[r]
  BY <1>1, <1>2 DEF TypeOK
<1>4. SlotOwners'
  BY DEF TableInv, SlotOwners
<1>5. \A t \in Slot : slot[t] # None => slot[t] \in Query /\ (slot[t] = slot[s] => t = s)
  BY <1>1 DEF TableInv, SlotOwners, TypeOK
<1>6. PhaseCounts'
  BY <1>1, <1>2, <1>3, <1>5 DEF TableInv, PhaseCounts, TypeOK
<1>7. ForwardedOnce'
  BY <1>3 DEF TableInv, ForwardedOnce
<1>8. QED
  BY <1>4, <1>6, <1>7 DEF TableInv

\* startForward() on a slot in phase 1 forwards its question or frees the slot.
LEMMA ForwardKeepsTable ==
    ASSUME TypeOK, TableInv, NEW s \in Active, waitingCache[s], startForward(s)
    PROVE  TableInv'
<1>1. CASE /\ waitingCache' = [waitingCache EXCEPT ![s] = FALSE]
           /\ forwarded' = [forwarded EXCEPT ![slot[s]] = @ + 1]
           /\ UNCHANGED <<slot, client, reply>>
  BY <1>1, Advanced
<1>2. CASE expirePendingSlot(s) /\ UNCHANGED forwarded
  BY <1>2, Left DEF expirePendingSlot, SendReply, freePendingSlot
<1>3. QED
  BY <1>1, <1>2 DEF startForward

LEMMA TableInit == Init => TableInv
BY DEF Init, TableInv, SlotOwners, PhaseCounts, ForwardedOnce

LEMMA TableQuery ==
    ASSUME TypeOK, TableInv, NEW q \in Query, Ask(q) \/ QueryStep(q)
    PROVE  TableInv'
<1>1. CASE Ask(q)
  <2>1. \A s \in Slot : slot[s] # None => slot[s] \in Query /\ slot[s] # q
    BY <1>1 DEF Ask, TableInv, SlotOwners, TypeOK
  <2>2. SlotOwners'
    BY <1>1, <2>1 DEF Ask, table, TableInv, SlotOwners, TypeOK
  <2>3. PhaseCounts' /\ ForwardedOnce'
    BY <1>1, <2>1 DEF Ask, table, TableInv, PhaseCounts, ForwardedOnce, TypeOK
  <2>4. QED
    BY <2>2, <2>3 DEF TableInv
<1>2. CASE Ignore(q)
  BY <1>2, AnsweredAtOnce DEF Ignore, table
<1>3. CASE AnswerHere(q)
  BY <1>3, AnsweredAtOnce DEF AnswerHere, Taken, SendReply, table
<1>4. CASE AnswerNoSlot(q)
  BY <1>4, AnsweredAtOnce DEF AnswerNoSlot, Taken, SendReply, table
<1>5. CASE CheckCache(q)
  <2>1. allocPendingSlot \in Slot /\ slot[allocPendingSlot] = None
    BY <1>5, AllocIsFree DEF CheckCache
  <2>2. /\ client[q] = "sent" /\ client' = [client EXCEPT ![q] = "waiting"]
        /\ slot' = [slot EXCEPT ![allocPendingSlot] = q]
        /\ waitingCache' = [waitingCache EXCEPT ![allocPendingSlot] = TRUE]
        /\ forwarded' = forwarded
    BY <1>5 DEF CheckCache, Taken
  <2>3. QED
    BY <2>1, <2>2, Entered
<1>6. CASE ForwardDirectly(q)
  <2>1. allocPendingSlot \in Slot /\ slot[allocPendingSlot] = None
    BY <1>6, AllocIsFree DEF ForwardDirectly
  <2>2. client[q] = "sent"
    BY <1>6 DEF ForwardDirectly, Taken
  <2>3. CASE /\ slot' = [slot EXCEPT ![allocPendingSlot] = q]
             /\ waitingCache' = [waitingCache EXCEPT ![allocPendingSlot] = FALSE]
             /\ client' = [client EXCEPT ![q] = "waiting"]
             /\ forwarded' = [forwarded EXCEPT ![q] = @ + 1]
    BY <2>1, <2>2, <2>3, Entered
  <2>4. CASE /\ waitingCache' = [waitingCache EXCEPT ![allocPendingSlot] = TRUE]
             /\ SendReply(q, NXDOMAIN) /\ UNCHANGED <<slot, forwarded>>
    <3>1. \A s \in Slot : slot[s] # None => waitingCache'[s] = waitingCache[s]
      BY <2>1, <2>4 DEF TypeOK
    <3>2. QED
      BY <2>2, <2>4, <3>1, AnsweredAtOnce DEF SendReply
  <2>5. QED
    BY <1>6, <2>3, <2>4 DEF ForwardDirectly
<1>7. QED
  BY <1>1, <1>2, <1>3, <1>4, <1>5, <1>6 DEF QueryStep

LEMMA TableSlot ==
    ASSUME TypeOK, TableInv, NEW s \in Slot, SlotExpires(s) \/ UpstreamAnswers(s)
    PROVE  TableInv'
<1>1. CASE CacheTimeout(s)
  BY <1>1, ForwardKeepsTable DEF CacheTimeout
<1>2. CASE UpstreamTimeout(s)
  BY <1>2, Left DEF UpstreamTimeout, expirePendingSlot, SendReply, freePendingSlot
<1>3. CASE UpstreamAnswers(s)
  <2>1. client' = [client EXCEPT ![slot[s]] = "idle"] /\ s \in Active
    BY <1>3 DEF UpstreamAnswers, SendReply
  <2>2. slot' = [slot EXCEPT ![s] = None] /\ UNCHANGED <<forwarded, waitingCache>>
    BY <1>3 DEF UpstreamAnswers, freePendingSlot
  <2>3. QED
    BY <2>1, <2>2, Left
<1>4. QED
  BY <1>1, <1>2, <1>3 DEF SlotExpires

LEMMA TableDrain ==
    ASSUME TypeOK, TableInv, DrainResult
    PROVE  TableInv'
<1> DEFINE s == Head(results).token
<1>1. CASE UNCHANGED <<questions, table, internal>>
  BY <1>1, Untouched DEF questions, table
<1>2. CASE StillWaiting(s) /\ startForward(s)
  BY <1>2, ForwardKeepsTable DEF StillWaiting
<1>3. CASE /\ StillWaiting(s) /\ SendReply(slot[s], Head(results).ips)
           /\ freePendingSlot(s) /\ UNCHANGED forwarded
  BY <1>3, Left DEF StillWaiting, SendReply, freePendingSlot
<1>4. QED
  BY <1>1, <1>2, <1>3 DEF DrainResult

LEMMA TableStep == TypeOK /\ TableInv /\ [Next]_vars => TableInv'
<1> SUFFICES ASSUME TypeOK, TableInv, [Next]_vars PROVE TableInv'
  OBVIOUS
<1>1. CASE WorkerStep
  BY <1>1, Untouched DEF WorkerStep, WorkerTakes, WorkerDelivers, questions, table
<1>2. CASE CooldownOver \/ setReadEnabled \/ \E d \in Domain, t \in Family : EntryExpires(d, t)
  BY <1>2, Untouched DEF CooldownOver, setReadEnabled, EntryExpires, questions, table
<1>3. CASE Restart
  BY <1>3 DEF Restart, TableInv, SlotOwners, PhaseCounts, ForwardedOnce, TypeOK
<1>4. CASE UNCHANGED vars
  BY <1>4, Untouched DEF vars, questions, table
<1>5. QED
  BY <1>1, <1>2, <1>3, <1>4, TableQuery, TableSlot, TableDrain DEF Next

LEMMA TableAlways == Spec => []TableInv
BY TypeCorrect, TableInit, TableStep, PTL DEF Spec

\* Slots and waiting questions correspond one to one: no client of the forward
\* table is left behind and no slot stays taken, in whatever order answers,
\* late results, deadlines and restarts come.
THEOREM SlotsMatchQuestions == Spec => []SlotPerQuestion
<1>1. TypeOK /\ TableInv => SlotPerQuestion
  <2> SUFFICES ASSUME TypeOK, TableInv PROVE SlotPerQuestion
    OBVIOUS
  <2>1. \A q \in Query, s \in Slot : slot[s] = q => s \in Active
    BY DnsForwardAssumption DEF Active
  <2>2. QED
    BY <2>1 DEF TableInv, SlotOwners, SlotPerQuestion, Active
<1>2. QED
  BY <1>1, TypeCorrect, TableAlways, PTL

\* No question is forwarded twice: a late lookup result never opens a second
\* upstream socket.
THEOREM NothingForwardedTwice == Spec => []ForwardedOnce
<1>1. TableInv => ForwardedOnce
  BY DEF TableInv
<1>2. QED
  BY <1>1, TableAlways, PTL

-----------------------------------------------------------------------------
(* Answers, while the external cache is off.                               *)

\* Nothing was ever asked of the external cache.
CacheUnused ==
    ~readEnabled /\ lookupQueue = <<>> /\ worker = None /\ results = <<>>

\* The built-in cache keeps addresses under the name and family they are of.
InternalMatches ==
    \A d \in Domain, t \in Family : internal[d][t] # NoReply => internal[d][t] = <<d, t>>

AnswerInv == CacheUnused /\ InternalMatches /\ AnswerMatchesQuestion

\* None of the answers without addresses is one with addresses.
LEMMA NoAddresses ==
    NoReply \notin Addresses /\ NXDOMAIN \notin Addresses
        /\ NODATA \notin Addresses /\ Relayed \notin Addresses
BY DEF Addresses, NoReply, NXDOMAIN, NODATA, Relayed

\* Answering one question rightly, or with no addresses.
LEMMA RightReply ==
    ASSUME TypeOK, AnswerMatchesQuestion, NEW q \in Query, NEW r,
           r \in Addresses => r = <<DomainOf[q], TypeOf[q]>>,
           reply' = [reply EXCEPT ![q] = r]
    PROVE  AnswerMatchesQuestion'
BY DEF AnswerMatchesQuestion, TypeOK

LEMMA AnswerQuery ==
    ASSUME TypeOK, AnswerInv, NEW q \in Query, Ask(q) \/ QueryStep(q)
    PROVE  AnswerInv'
<1>1. UNCHANGED <<internal, lookups, breaker>>
  BY DEF Ask, QueryStep, Ignore, AnswerHere, AnswerNoSlot, CheckCache, ForwardDirectly,
         usable, AnswerInv, CacheUnused
<1>2. CacheUnused' /\ InternalMatches'
  BY <1>1 DEF AnswerInv, CacheUnused, InternalMatches, lookups, breaker
<1>3. CASE AnswerHere(q)
  <2> DEFINE r == IF IsLocal(q)
                  THEN IF TypeOf[q] \in LocalHosts[DomainOf[q]]
                       THEN <<DomainOf[q], TypeOf[q]>> ELSE NODATA
                  ELSE IF Cached(q) # NoReply THEN Cached(q) ELSE NODATA
  <2>1. Cached(q) # NoReply => Cached(q) = <<DomainOf[q], TypeOf[q]>>
    BY ReplyTypes DEF Cached, AnswerInv, InternalMatches
  <2>2. r \in Addresses => r = <<DomainOf[q], TypeOf[q]>>
    BY <2>1, NoAddresses
  <2>3. reply' = [reply EXCEPT ![q] = r]
    BY <1>3 DEF AnswerHere, SendReply
  <2> HIDE DEF r
  <2>4. QED
    BY <1>2, <2>2, <2>3, RightReply DEF AnswerInv
<1>4. CASE ~AnswerHere(q)
  <2>1. \/ reply' = reply
        \/ reply' = [reply EXCEPT ![q] = NXDOMAIN]
        \/ reply' = [reply EXCEPT ![q] = NoReply]
    BY <1>4 DEF Ask, QueryStep, Ignore, AnswerNoSlot, CheckCache, ForwardDirectly, SendReply
  <2>2. CASE reply' = reply
    BY <1>2, <2>2 DEF AnswerInv, AnswerMatchesQuestion
  <2>3. QED
    BY <1>2, <2>1, <2>2, RightReply, NoAddresses DEF AnswerInv
<1>5. QED
  BY <1>3, <1>4

LEMMA AnswerSlot ==
    ASSUME TypeOK, AnswerInv, NEW s \in Slot, SlotExpires(s) \/ UpstreamAnswers(s)
    PROVE  AnswerInv'
<1>1. UNCHANGED <<lookups, breaker>> /\ s \in Active
  BY DEF SlotExpires, CacheTimeout, UpstreamTimeout, UpstreamAnswers
<1>2. slot[s] \in Query
  BY <1>1, ActiveHolds
<1>3. CacheUnused'
  BY <1>1 DEF AnswerInv, CacheUnused, lookups, breaker
<1> USE DEF AnswerInv
<1>4. CASE SlotExpires(s)
  <2>1. internal' = internal /\ (reply' = reply \/ reply' = [reply EXCEPT ![slot[s]] = NXDOMAIN])
    BY <1>4 DEF SlotExpires, CacheTimeout, UpstreamTimeout, startForward, expirePendingSlot,
                SendReply
  <2>2. CASE reply' = reply
    BY <1>3, <2>1, <2>2 DEF InternalMatches, AnswerMatchesQuestion
  <2>3. QED
    BY <1>2, <1>3, <2>1, <2>2, RightReply, NoAddresses DEF InternalMatches
<1>5. CASE UpstreamAnswers(s)
  <2>1. PICK q \in Query : q = slot[s]
    BY <1>2
  <2>2. CASE /\ TypeOf[q] \in Family
             /\ SendReply(q, <<DomainOf[q], TypeOf[q]>>)
             /\ StoreInternal(q, <<DomainOf[q], TypeOf[q]>>)
    <3>1. AnswerMatchesQuestion'
      BY <2>2, RightReply DEF SendReply
    <3>2. \/ internal' = internal
          \/ internal' = [internal EXCEPT ![DomainOf[q]][TypeOf[q]] = <<DomainOf[q], TypeOf[q]>>]
      BY <2>2 DEF StoreInternal
    <3>3. DomainOf[q] \in Domain /\ TypeOf[q] \in Family
      BY <2>2, ReplyTypes
    <3>4. InternalMatches'
      <4> DEFINE e == <<DomainOf[q], TypeOf[q]>>
      <4>1. \A d \in Domain, t \in Family :
               \/ internal'[d][t] = internal[d][t]
               \/ d = DomainOf[q] /\ t = TypeOf[q] /\ internal'[d][t] = e
        <5> HIDE DEF e
        <5>1. internal' = internal \/ internal' = [internal EXCEPT ![DomainOf[q]][TypeOf[q]] = e]
          BY <3>2 DEF e
        <5>2. QED
          BY <3>3, <5>1 DEF TypeOK
      <4>2. QED
        BY <4>1 DEF InternalMatches
    <3>5. QED
      BY <1>3, <3>1, <3>4
  <2>3. CASE SendReply(q, Relayed) /\ UNCHANGED internal
    BY <1>3, <2>3, RightReply, NoAddresses DEF SendReply, InternalMatches
  <2>4. CASE UNCHANGED <<reply, internal>>
    BY <1>3, <2>4 DEF InternalMatches, AnswerMatchesQuestion
  <2>5. QED
    BY <1>5, <2>1, <2>2, <2>3, <2>4 DEF UpstreamAnswers
<1>6. QED
  BY <1>4, <1>5

LEMMA AnswerStep ==
    ASSUME TRUE \notin ReadSettings, TypeOK, AnswerInv, [Next]_vars
    PROVE  AnswerInv'
<1> USE DEF AnswerInv
<1>1. ASSUME UNCHANGED <<reply, internal, lookups>>, ~readEnabled' PROVE AnswerInv'
  BY <1>1 DEF CacheUnused, InternalMatches, AnswerMatchesQuestion, lookups
<1>2. CASE CooldownOver \/ Restart \/ UNCHANGED vars
  BY <1>1, <1>2 DEF CooldownOver, Restart, vars, questions, breaker, CacheUnused
<1>3. CASE setReadEnabled
  BY <1>1, <1>3, DnsForwardAssumption DEF setReadEnabled, questions
<1>4. CASE DrainResult \/ WorkerStep
  BY <1>4 DEF DrainResult, WorkerStep, WorkerTakes, WorkerDelivers, CacheUnused
<1>5. ASSUME NEW d \in Domain, NEW t \in Family, EntryExpires(d, t) PROVE AnswerInv'
  <2>1. InternalMatches'
    BY <1>5 DEF EntryExpires, InternalMatches, TypeOK
  <2>2. QED
    BY <1>5, <2>1 DEF EntryExpires, CacheUnused, AnswerMatchesQuestion, questions, lookups, breaker
<1>6. QED
  BY <1>2, <1>3, <1>4, <1>5, AnswerQuery, AnswerSlot DEF Next

\* While the operator leaves the external cache off, a client that gets
\* addresses gets those of the name and family it asked for, from the local
\* names, the built-in cache and the upstream server alike.
THEOREM AnswersMatchQuestions ==
    ASSUME TRUE \notin ReadSettings
    PROVE  Spec => []AnswerMatchesQuestion
<1>1. ASSUME Init PROVE AnswerInv
  <2>1. ~readEnabled
    BY <1>1, DnsForwardAssumption, Zenon DEF Init
  <2>2. InternalMatches
    BY <1>1 DEF Init, InternalMatches
  <2>3. AnswerMatchesQuestion
    BY <1>1, NoAddresses DEF Init, AnswerMatchesQuestion
  <2>4. QED
    BY <1>1, <2>1, <2>2, <2>3 DEF Init, AnswerInv, CacheUnused
<1>2. TypeOK /\ AnswerInv /\ [Next]_vars => AnswerInv'
  BY AnswerStep
<1>3. AnswerInv => AnswerMatchesQuestion
  BY DEF AnswerInv
<1>4. QED
  BY <1>1, <1>2, <1>3, TypeCorrect, PTL DEF Spec
===========================================================================
