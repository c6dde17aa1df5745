---------------------------- MODULE DnsForward ----------------------------
(***************************************************************************)
(* How the DNS server answers a question it does not know itself: the      *)
(* select loop of src/dns/DnsServer.cpp with its table of pending          *)
(* forwards, and the external (REST) cache of src/dns/DnsCache.cpp, whose  *)
(* lookups run in a worker task and come back over a loopback socket.      *)
(*                                                                         *)
(* A question takes a slot, waits for the cache (phase 1), is forwarded    *)
(* upstream (phase 2), and is answered when an answer or a deadline comes. *)
(* Deadlines are passed at any moment; the orders in which answers,        *)
(* results and deadlines arrive are all there.                             *)
(***************************************************************************)
EXTENDS Integers, Sequences, FiniteSets

CONSTANTS Query,              \* datagrams clients may send
          Domain,
          DomainOf, TypeOf,   \* what a datagram asks for
          Ignored,            \* datagrams that do not parse or come from another subnet
          Oversized,          \* datagrams longer than PendingForward::query
          LocalHosts,         \* the address families of each local name
          kMaxPendingForwards, kLookupQueueDepth, kMaxPendingDomains, kFailThreshold,
          ResultDepth,        \* results the loopback socket can hold
          ReadSettings,       \* the values the operator gives `cacheRestRead`
          InternalCache,      \* the built-in cache is available
          BlockNonAA,         \* blockForwardNonAA_
          ForwardFails,       \* socket() or sendto() of a forward may fail
          ReceiveFails,       \* recvfrom() of an upstream answer may fail
          Restarts,           \* the server may be stopped and started
          None                \* no question in this slot; the worker is idle

Family == {"A", "AAAA"}
Type   == Family \cup {"other"}
Slot   == 0 .. kMaxPendingForwards - 1

ASSUME DnsForwardAssumption ==
    /\ DomainOf \in [Query -> Domain] /\ TypeOf \in [Query -> Type]
    /\ Oversized \subseteq Query /\ Ignored \subseteq Query /\ None \notin Query
    /\ LocalHosts \in [Domain -> SUBSET Family]
    /\ {kMaxPendingForwards, kLookupQueueDepth, kMaxPendingDomains, kFailThreshold,
        ResultDepth} \subseteq Nat \ {0}
    /\ ReadSettings \subseteq BOOLEAN
    /\ {InternalCache, BlockNonAA, ForwardFails, ReceiveFails, Restarts} \subseteq BOOLEAN

VARIABLES client,         \* where each datagram is
          reply,          \* the answer its client got
          forwarded,      \* how often it was sent upstream (history)
          slot,           \* the question in each pending slot
          waitingCache,   \* its phase
          internal,       \* what the built-in cache holds
          readEnabled, degraded, lookupBadCount,
          lookupQueue, pendingDomains,
          worker,         \* the lookup in progress
          results,        \* datagrams in the loopback socket
          draining        \* the server task is inside drainLookupResult()

questions == <<client, reply, forwarded>>
table     == <<slot, waitingCache>>
lookups   == <<lookupQueue, pendingDomains, worker, results>>
breaker   == <<readEnabled, degraded, lookupBadCount>>
vars      == <<questions, table, internal, lookups, breaker, draining>>

\* An answer: nothing yet, an error, no data, a relayed answer without
\* addresses, or the addresses of a name in a family.
NoReply      == <<>>
NXDOMAIN     == <<"nxdomain">>
NODATA       == <<"nodata">>
Relayed      == <<"relayed">>
Addresses    == Domain \X Family
Reply        == {NoReply, NXDOMAIN, NODATA, Relayed} \cup Addresses
Request      == [token: Slot, domain: Domain, type: Type]
LookupResult == [token: Slot, hit: BOOLEAN, ips: Addresses]

Active == {s \in Slot : slot[s] # None}

Init ==
    /\ client = [q \in Query |-> "idle"] /\ reply = [q \in Query |-> NoReply]
    /\ forwarded = [q \in Query |-> 0]
    /\ slot = [s \in Slot |-> None] /\ waitingCache = [s \in Slot |-> TRUE]
    /\ internal = [d \in Domain |-> [t \in Family |-> NoReply]]
    /\ readEnabled \in ReadSettings /\ degraded = FALSE /\ lookupBadCount = 0
    /\ lookupQueue = <<>> /\ pendingDomains = {} /\ worker = None
    /\ results = <<>> /\ draining = FALSE

-----------------------------------------------------------------------------
\* Steps the handlers are made of.
SendReply(q, r) == /\ client' = [client EXCEPT ![q] = "idle"]
                   /\ reply' = [reply EXCEPT ![q] = r]

\* As if: the question is dropped, the slot stays taken.
freePendingSlot_Kept(s) == UNCHANGED table

freePendingSlot(s) == /\ slot' = [slot EXCEPT ![s] = None]
                      /\ UNCHANGED waitingCache

\* As if: the slot is freed and its client not told.
expirePendingSlot_Silent(s) ==
    client' = [client EXCEPT ![slot[s]] = "idle"] /\ UNCHANGED reply /\ freePendingSlot(s)

expirePendingSlot(s) == SendReply(slot[s], NXDOMAIN) /\ freePendingSlot(s)

\* The slot's question goes upstream, or does not and its client is told so.
startForward(s) ==
    \/ /\ waitingCache' = [waitingCache EXCEPT ![s] = FALSE]
       /\ forwarded' = [forwarded EXCEPT ![slot[s]] = @ + 1]
       /\ UNCHANGED <<slot, client, reply>>
    \/ ForwardFails /\ expirePendingSlot(s) /\ UNCHANGED forwarded

\* As if: one entry per domain, whatever the type.
StoreInternal_ByDomain(q, ips) ==
    internal' = IF InternalCache /\ TypeOf[q] \in Family
                THEN [internal EXCEPT ![DomainOf[q]] = [t \in Family |-> ips]]
                ELSE internal

\* The addresses of an answer are kept under the question they came for.
StoreInternal(q, ips) ==
    internal' = IF InternalCache /\ TypeOf[q] \in Family
                THEN [internal EXCEPT ![DomainOf[q]][TypeOf[q]] = ips]
                ELSE internal

usable == readEnabled /\ ~degraded

\* One lookup per domain at a time; a full queue loses its oldest request.
markPending(d) ==
    pendingDomains' = IF Cardinality(pendingDomains) < kMaxPendingDomains
                      THEN pendingDomains \cup {d} ELSE pendingDomains
submitLookup(d, t, token) ==
    IF d \in pendingDomains THEN UNCHANGED <<lookupQueue, pendingDomains>>
    ELSE /\ markPending(d)
         /\ lookupQueue' =
                Append(IF Len(lookupQueue) < kLookupQueueDepth THEN lookupQueue
                       ELSE Tail(lookupQueue),
                       [token |-> token, domain |-> d, type |-> t])

-----------------------------------------------------------------------------
\* A client sends its question (again).
Ask(q) ==
    /\ client[q] = "idle"
    /\ client' = [client EXCEPT ![q] = "sent"]
    /\ reply' = [reply EXCEPT ![q] = NoReply]
    /\ forwarded' = [forwarded EXCEPT ![q] = 0]
    /\ UNCHANGED <<table, internal, lookups, breaker, draining>>

\* The loop takes a question from the socket.
Taken(q)     == ~draining /\ client[q] = "sent" /\ q \notin Ignored
IsLocal(q)   == LocalHosts[DomainOf[q]] # {}
Cached(q)    == IF InternalCache /\ TypeOf[q] \in Family
                THEN internal[DomainOf[q]][TypeOf[q]] ELSE NoReply
Refused(q)   == BlockNonAA /\ TypeOf[q] = "other"
Unknown(q)   == ~IsLocal(q) /\ Cached(q) = NoReply /\ ~Refused(q)

\* No reply: the device is neither an open resolver nor a reflector.
Ignore(q) ==
    /\ ~draining /\ client[q] = "sent" /\ q \in Ignored
    /\ client' = [client EXCEPT ![q] = "idle"]
    /\ UNCHANGED <<reply, forwarded, table, internal, lookups, breaker, draining>>

AnswerHere(q) ==
    /\ Taken(q) /\ ~Unknown(q)
    /\ SendReply(q, IF IsLocal(q)
                    THEN IF TypeOf[q] \in LocalHosts[DomainOf[q]]
                         THEN <<DomainOf[q], TypeOf[q]>> ELSE NODATA
                    ELSE IF Cached(q) # NoReply THEN Cached(q) ELSE NODATA)
    /\ UNCHANGED <<forwarded, table, internal, lookups, breaker, draining>>

allocPendingSlot == CHOOSE s \in Slot \ Active : \A t \in Slot \ Active : s <= t
NoSlot           == Active = Slot

AnswerNoSlot(q) ==
    /\ Taken(q) /\ Unknown(q) /\ NoSlot
    /\ SendReply(q, NXDOMAIN)
    /\ UNCHANGED <<forwarded, table, internal, lookups, breaker, draining>>

\* The question takes a slot and asks the cache.
CheckCache(q) ==
    /\ Taken(q) /\ Unknown(q) /\ ~NoSlot
    /\ usable /\ q \notin Oversized
    /\ LET s == allocPendingSlot IN
       /\ slot' = [slot EXCEPT ![s] = q]
       /\ waitingCache' = [waitingCache EXCEPT ![s] = TRUE]
       /\ submitLookup(DomainOf[q], TypeOf[q], s)
    /\ client' = [client EXCEPT ![q] = "waiting"]
    /\ UNCHANGED <<reply, forwarded, internal, worker, results, breaker, draining>>

\* Without a cache it goes upstream at once; a question that does not fit the
\* slot, or cannot be sent, is answered and the slot given back.
ForwardDirectly(q) ==
    /\ Taken(q) /\ Unknown(q) /\ ~NoSlot
    /\ ~usable \/ q \in Oversized
    /\ LET s == allocPendingSlot IN
       \/ /\ q \notin Oversized
          /\ slot' = [slot EXCEPT ![s] = q]
          /\ waitingCache' = [waitingCache EXCEPT ![s] = FALSE]
          /\ client' = [client EXCEPT ![q] = "waiting"]
          /\ forwarded' = [forwarded EXCEPT ![q] = @ + 1]
          /\ UNCHANGED reply
       \/ /\ q \in Oversized \/ ForwardFails
          /\ waitingCache' = [waitingCache EXCEPT ![s] = TRUE]
          /\ SendReply(q, NXDOMAIN)
          /\ UNCHANGED <<slot, forwarded>>
    /\ UNCHANGED <<internal, lookups, breaker, draining>>

\* Phase 1 is over without a result.
CacheTimeout(s) ==
    /\ ~draining /\ s \in Active /\ waitingCache[s]
    /\ startForward(s)
    /\ UNCHANGED <<internal, lookups, breaker, draining>>

\* The upstream answer is relayed; its addresses are kept.
UpstreamAnswers(s) ==
    LET q == slot[s] IN
    /\ ~draining /\ s \in Active /\ ~waitingCache[s]
    /\ \/ /\ TypeOf[q] \in Family
          /\ SendReply(q, <<DomainOf[q], TypeOf[q]>>)
          /\ StoreInternal(q, <<DomainOf[q], TypeOf[q]>>)
       \/ SendReply(q, Relayed) /\ UNCHANGED internal
       \/ /\ ReceiveFails
          /\ client' = [client EXCEPT ![q] = "idle"] /\ UNCHANGED <<reply, internal>>
    /\ freePendingSlot(s)
    /\ UNCHANGED <<forwarded, lookups, breaker, draining>>

UpstreamTimeout(s) ==
    /\ ~draining /\ s \in Active /\ ~waitingCache[s]
    /\ expirePendingSlot(s)
    /\ UNCHANGED <<forwarded, internal, lookups, breaker, draining>>

\* As if: a result is applied to a slot that has moved on.
StillWaiting_Any(s) == s \in Active

\* A result is for the question that waits in the slot it names.
StillWaiting(s) == s \in Active /\ waitingCache[s]

\* One turn of `while (cache_.drainLookupResult(res))`.  The socket blocks, so
\* a task that has read one result waits for the next and never selects again.
DrainResult ==
    /\ results # <<>>
    /\ draining' = TRUE /\ results' = Tail(results)
    /\ LET res == Head(results)
           s   == res.token
       IN  \/ /\ ~StillWaiting(s)
              /\ UNCHANGED <<questions, table, internal>>
           \/ /\ StillWaiting(s) /\ ~res.hit
              /\ startForward(s) /\ UNCHANGED internal
           \/ /\ StillWaiting(s) /\ res.hit
              /\ StoreInternal(slot[s], res.ips)
              /\ SendReply(slot[s], res.ips)
              /\ freePendingSlot(s) /\ UNCHANGED forwarded
    /\ UNCHANGED <<lookupQueue, pendingDomains, worker, breaker>>

-----------------------------------------------------------------------------
\* The lookup worker.
WorkerTakes ==
    /\ worker = None /\ lookupQueue # <<>>
    /\ worker' = Head(lookupQueue) /\ lookupQueue' = Tail(lookupQueue)
    /\ UNCHANGED <<questions, table, internal, pendingDomains, results, breaker, draining>>

notifyLookupOutcome(slow) ==
    IF slow THEN /\ lookupBadCount' = IF lookupBadCount < kFailThreshold
                                      THEN lookupBadCount + 1 ELSE lookupBadCount
                 /\ degraded' = (degraded \/ lookupBadCount + 1 >= kFailThreshold)
            ELSE lookupBadCount' = 0 /\ degraded' = FALSE

\* The cache server keys by domain and the answer is filtered by family; every
\* type but AAAA takes the IPv4 addresses.
LookupIps(req) == <<req.domain, IF req.type = "AAAA" THEN "AAAA" ELSE "A">>

WorkerDelivers(hit, slow) ==
    /\ worker # None /\ worker' = None
    /\ notifyLookupOutcome(slow)
    /\ pendingDomains' = pendingDomains \ {worker.domain}
    /\ results' = IF Len(results) < ResultDepth
                  THEN Append(results, [token |-> worker.token, hit |-> hit,
                                        ips |-> LookupIps(worker)])
                  ELSE results
    /\ UNCHANGED <<questions, table, internal, lookupQueue, readEnabled, draining>>

-----------------------------------------------------------------------------
\* Time, the operator and a restart.
CooldownOver ==
    /\ degraded /\ degraded' = FALSE
    /\ UNCHANGED <<questions, table, internal, lookups, readEnabled, lookupBadCount, draining>>

EntryExpires(d, t) ==
    /\ internal[d][t] # NoReply
    /\ internal' = [internal EXCEPT ![d][t] = NoReply]
    /\ UNCHANGED <<questions, table, lookups, breaker, draining>>

setReadEnabled ==
    /\ readEnabled' \in ReadSettings \ {readEnabled}
    /\ UNCHANGED <<questions, table, internal, lookups, degraded, lookupBadCount, draining>>

\* The loop ends and frees every slot, and the socket is closed with what it
\* holds; the worker and its results stay.
Restart ==
    /\ Restarts /\ ~draining
    /\ client' = [q \in Query |-> "idle"]
    /\ slot' = [s \in Slot |-> None]
    /\ UNCHANGED <<reply, forwarded, waitingCache, internal, lookups, breaker, draining>>

QueryStep(q)  == \/ Ignore(q) \/ AnswerHere(q) \/ AnswerNoSlot(q)
                 \/ CheckCache(q) \/ ForwardDirectly(q)
SlotExpires(s) == CacheTimeout(s) \/ UpstreamTimeout(s)
WorkerStep    == WorkerTakes \/ \E hit, slow \in BOOLEAN : WorkerDelivers(hit, slow)

Next ==
    \/ \E q \in Query : Ask(q) \/ QueryStep(q)
    \/ \E s \in Slot : SlotExpires(s) \/ UpstreamAnswers(s)
    \/ DrainResult \/ WorkerStep
    \/ CooldownOver \/ setReadEnabled \/ Restart
    \/ \E d \in Domain, t \in Family : EntryExpires(d, t)

\* The task polls its sockets every DNS_UDP_POLL_US and checks every deadline;
\* the worker runs whenever it has work.
Fairness ==
    /\ \A q \in Query : WF_vars(QueryStep(q))
    /\ \A s \in Slot : WF_vars(CacheTimeout(s)) /\ WF_vars(UpstreamTimeout(s))
    /\ WF_vars(DrainResult) /\ WF_vars(WorkerStep)

Spec == Init /\ [][Next]_vars /\ Fairness

-----------------------------------------------------------------------------
(* Properties.                                                             *)

\* Every variable keeps its type, and the queues their bounds.
TypeOK ==
    /\ client \in [Query -> {"idle", "sent", "waiting"}]
    /\ reply \in [Query -> Reply] /\ forwarded \in [Query -> Nat]
    /\ slot \in [Slot -> Query \cup {None}] /\ waitingCache \in [Slot -> BOOLEAN]
    /\ internal \in [Domain -> [Family -> {NoReply} \cup Addresses]]
    /\ readEnabled \in BOOLEAN /\ degraded \in BOOLEAN
    /\ lookupBadCount \in 0 .. kFailThreshold
    /\ lookupQueue \in Seq(Request) /\ pendingDomains \subseteq Domain
    /\ worker \in Request \cup {None}
    /\ results \in Seq(LookupResult) /\ draining \in BOOLEAN

\* A question that waits has exactly one slot and a slot holds a question that
\* waits: no answer, deadline or late result leaves a client behind or a slot
\* taken (allocPendingSlot, freePendingSlot and their callers).
SlotPerQuestion ==
    /\ \A s \in Active : client[slot[s]] = "waiting"
    /\ \A s, t \in Active : slot[s] = slot[t] => s = t
    /\ \A q \in Query : client[q] = "waiting" => \E s \in Active : slot[s] = q

\* A question is sent upstream at most once: the late result of a lookup whose
\* deadline has passed does not open a second socket for it.
ForwardedOnce == \A q \in Query : forwarded[q] <= 1

\* The client gets addresses of the name and family it asked for: the result
\* comes back "with the same token so the caller can correlate it".
AnswerMatchesQuestion ==
    \A q \in Query :
        reply[q] \in Addresses => reply[q] = <<DomainOf[q], TypeOf[q]>>

\* Every question is answered: "the DNS task must not block on the lookup",
\* drainLookupResult is a "non-blocking read of one pending lookup result".
QuestionAnswered == \A q \in Query \ Ignored : client[q] = "sent" ~> reply[q] # NoReply
===========================================================================
