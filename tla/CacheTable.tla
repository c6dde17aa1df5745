----------------------------- MODULE CacheTable -----------------------------
(***************************************************************************)
(* The built-in DNS cache (InternalDnsCache): a pool of nodes in one arena, *)
(* a bucket table of chains through it and a free list.  Every operation    *)
(* takes the mutex, so it is one step, but several look whether there is an *)
(* arena before they take it: the DNS task and the saving task are then     *)
(* inside while the web task switches the cache off (`fault`); one of the   *)
(* two at a time (`inside`).                                                *)
(*                                                                          *)
(* A key is a lower-case name with its type.  A node has the age that the   *)
(* unsigned difference of two readings of the clock gives: the age modulo   *)
(* the range of the clock.  What a free node still holds is nobody's.       *)
(***************************************************************************)
EXTENDS Integers, FiniteSets

CONSTANTS Key, NoKey, NodeCount, NumBuckets, HashOf, TtlOf, MaxUses, ClockMod

Node == 0 .. NodeCount - 1
Bucket == 0 .. NumBuckets - 1
Nil == -1

ASSUME CacheTableAssumption ==
    /\ NodeCount \in Nat \ {0} /\ NumBuckets \in Nat \ {0} /\ MaxUses \in Nat \ {0}
    /\ ClockMod \in Nat \ {0} /\ NoKey \notin Key
    /\ HashOf \in [Key -> Nat] /\ TtlOf \in [Key -> Nat]

VARIABLES
    arena,      \* arena_ is allocated
    buckets,    \* buckets_: the head of each chain
    nodes,      \* nodes_
    freeHead, entries,
    mark,       \* topUses_; 0 while there is no mark
    ignoreTtl,
    inside,     \* a task that has seen an arena and will not look again: the DNS
                \* task before the mutex, or the saving task between two reads
    fault       \* a task has followed the pointers of a freed arena

tableVars == <<arena, buckets, nodes, freeHead, entries, mark, ignoreTtl, inside, fault>>
pool == <<buckets, nodes, freeHead, entries, mark>>

Blank(next) == [next |-> next, key |-> NoKey, uses |-> 0, age |-> 0]

TableTypeOK ==
    /\ arena \in BOOLEAN /\ ignoreTtl \in BOOLEAN /\ fault \in BOOLEAN
    /\ inside \in {"none", "query", "save"}
    /\ buckets \in [Bucket -> Node \cup {Nil}] /\ freeHead \in Node \cup {Nil}
    /\ nodes \in [Node -> [next : Node \cup {Nil}, key : Key \cup {NoKey},
                           uses : 0 .. MaxUses, age : 0 .. ClockMod - 1]]
    /\ entries \in 0 .. NodeCount
    /\ mark \in 0 .. MaxUses

TableInit ==
    /\ arena = FALSE /\ ignoreTtl \in BOOLEAN /\ fault = FALSE /\ inside = "none"
    /\ buckets = [b \in Bucket |-> Nil] /\ nodes = [n \in Node |-> Blank(Nil)]
    /\ freeHead = Nil /\ entries = 0 /\ mark = 0

bucketOf(k) == HashOf[k] % NumBuckets
elapsedMs(n) == nodes[n].age

\* The nodes of a list, from its head: the node after `steps` links.
After(ns, head) ==
    LET go[steps \in 0 .. NodeCount] ==
            IF steps = 0 THEN head
            ELSE LET at == go[steps - 1] IN IF at = Nil THEN Nil ELSE ns[at].next
    IN go
Listed(ns, head) == LET at == After(ns, head) IN {at[steps] : steps \in 0 .. NodeCount} \ {Nil}
Ends(ns, head) == After(ns, head)[NodeCount] = Nil
Linked == UNION {Listed(nodes, buckets[b]) : b \in Bucket}

findNode(k) == {n \in Listed(nodes, buckets[bucketOf(k)]) : nodes[n].key = k}
contains(k) == findNode(k) # {}

-----------------------------------------------------------------------------
emptyBuckets == [b \in Bucket |-> Nil]
\* The free-node stack: the last node is on top.
freeNodes == [n \in Node |-> Blank(n - 1)]

enable ==
    /\ ~fault /\ ~arena
    /\ arena' = TRUE /\ buckets' = emptyBuckets
    /\ nodes' = freeNodes
    /\ freeHead' = NodeCount - 1 /\ entries' = 0 /\ mark' = 0
    /\ UNCHANGED <<ignoreTtl, inside, fault>>

disable ==
    /\ ~fault /\ arena
    /\ arena' = FALSE /\ buckets' = [b \in Bucket |-> Nil] /\ nodes' = [n \in Node |-> Blank(Nil)]
    /\ freeHead' = Nil /\ entries' = 0 /\ mark' = 0
    /\ UNCHANGED <<ignoreTtl, inside, fault>>

\* Another size is a disable and an enable; the policy is set first.
setIgnoreTtl ==
    /\ ~fault /\ ignoreTtl' = ~ignoreTtl
    /\ UNCHANGED <<arena, pool, inside, fault>>

clear ==
    /\ ~fault /\ arena
    /\ buckets' = emptyBuckets /\ nodes' = freeNodes /\ freeHead' = NodeCount - 1
    /\ entries' = 0 /\ mark' = 0
    /\ UNCHANGED <<arena, ignoreTtl, inside, fault>>

-----------------------------------------------------------------------------
\* As if: a record in the middle of its chain cut off the rest of it.
unlinkNode_CutsTail(b, n) ==
    LET before == {p \in Listed(nodes, buckets[b]) : nodes[p].next = n} IN
    [buckets |-> IF buckets[b] = n THEN [buckets EXCEPT ![b] = nodes[n].next] ELSE buckets,
     nodes   |-> [p \in Node |-> IF p = n THEN Blank(freeHead)
                                 ELSE IF p \in before THEN [nodes[p] EXCEPT !.next = Nil]
                                 ELSE nodes[p]],
     freeHead |-> n]

\* unlinkNode: the node leaves its chain and tops the free list.
unlinkNode(b, n) ==
    LET before == {p \in Listed(nodes, buckets[b]) : nodes[p].next = n} IN
    [buckets |-> IF buckets[b] = n THEN [buckets EXCEPT ![b] = nodes[n].next] ELSE buckets,
     nodes   |-> [p \in Node |-> IF p = n THEN Blank(freeHead)
                                 ELSE IF p \in before THEN [nodes[p] EXCEPT !.next = nodes[n].next]
                                 ELSE nodes[p]],
     freeHead |-> n]

\* As if: the oldest record goes, whatever its use.
findEvictVictim_Oldest(n) == \A m \in Linked : elapsedMs(n) >= elapsedMs(m)
\* The least used node, the oldest of these; any of the ones alike.
findEvictVictim(n) ==
    \A m \in Linked :
        \/ nodes[n].uses < nodes[m].uses
        \/ nodes[n].uses = nodes[m].uses /\ elapsedMs(n) >= elapsedMs(m)

bumpUse(u) == IF u < MaxUses THEN u + 1 ELSE u
noteMark(uses) == IF uses < mark THEN mark ELSE uses

\* storeInternal: an upsert.  A new record takes the top of the free list, or
\* the node of a victim.  `uses` is what becomes of the counter.
storeInternal(k, uses) ==
    LET b == bucketOf(k)
        Fill(t, n, fresh) ==
            LET u == uses[IF fresh THEN 0 ELSE t.nodes[n].uses]
                next == IF fresh THEN t.buckets[b] ELSE t.nodes[n].next IN
            /\ nodes' = [t.nodes EXCEPT ![n] = [next |-> next, key |-> k, uses |-> u, age |-> 0]]
            /\ buckets' = IF fresh THEN [t.buckets EXCEPT ![b] = n] ELSE t.buckets
            /\ freeHead' = IF fresh THEN t.nodes[n].next ELSE t.freeHead
            /\ mark' = noteMark(u)
        now == [nodes |-> nodes, buckets |-> buckets, freeHead |-> freeHead]
    IN  \/ \E n \in findNode(k) : Fill(now, n, FALSE) /\ UNCHANGED entries
        \/ /\ ~contains(k) /\ freeHead # Nil
           /\ Fill(now, freeHead, TRUE) /\ entries' = entries + 1
        \/ /\ ~contains(k) /\ freeHead = Nil
           /\ \E n \in Linked :
                 /\ findEvictVictim(n)
                 /\ Fill(unlinkNode(bucketOf(nodes[n].key), n), n, TRUE)
           /\ UNCHANGED entries

remove(k, n) ==
    LET t == unlinkNode(bucketOf(k), n) IN
    /\ nodes' = t.nodes /\ buckets' = t.buckets /\ freeHead' = t.freeHead
    /\ entries' = entries - 1 /\ UNCHANGED mark

-----------------------------------------------------------------------------
\* store and lookup of the DNS task: the arena is looked at, then the mutex is
\* waited for, and then the arena is taken for granted.
dnsTask_Enter ==
    /\ ~fault /\ inside = "none" /\ arena /\ inside' = "query"
    /\ UNCHANGED <<arena, pool, ignoreTtl, fault>>
dnsTask_Fault ==
    /\ ~fault /\ inside = "query" /\ ~arena /\ fault' = TRUE
    /\ UNCHANGED <<arena, pool, ignoreTtl, inside>>

dnsTask(A) ==
    /\ ~fault /\ inside = "query" /\ arena /\ inside' = "none"
    /\ A /\ UNCHANGED <<arena, ignoreTtl, fault>>

store(k) == dnsTask(storeInternal(k, [u \in 0 .. MaxUses |-> bumpUse(u)]))

expired(n) == ~ignoreTtl /\ TtlOf[nodes[n].key] # 0 /\ elapsedMs(n) >= TtlOf[nodes[n].key]

lookup(k) ==
    dnsTask(\/ ~contains(k) /\ UNCHANGED pool
            \/ \E n \in findNode(k) :
                  \/ expired(n) /\ remove(k, n)
                  \/ /\ ~expired(n)
                     /\ nodes' = [nodes EXCEPT ![n].uses = bumpUse(@)]
                     /\ mark' = noteMark(bumpUse(nodes[n].uses))
                     /\ UNCHANGED <<buckets, freeHead, entries>>)

\* erase looks for the arena again once it has the mutex.
erase(k) ==
    /\ ~fault /\ arena
    /\ \E n \in findNode(k) : remove(k, n)
    /\ UNCHANGED <<arena, ignoreTtl, inside, fault>>

\* loadFromFile: a restore writes the counter of the file and is no use.
loadFromFile(k, u) ==
    /\ ~fault /\ arena
    /\ storeInternal(k, [old \in 0 .. MaxUses |-> u])
    /\ UNCHANGED <<arena, ignoreTtl, inside, fault>>

\* saveToFile: the nodes to save are noted under the mutex, and each of them is
\* read later, whatever became of it and of the pool.
saveToFile_Snapshot ==
    /\ ~fault /\ inside = "none" /\ arena /\ \E n \in Linked : ~expired(n)
    /\ inside' = "save"
    /\ UNCHANGED <<arena, pool, ignoreTtl, fault>>
saveToFile_Read ==
    /\ ~fault /\ inside = "save"
    /\ IF arena THEN inside' = "none" /\ UNCHANGED fault ELSE fault' = TRUE /\ UNCHANGED inside
    /\ UNCHANGED <<arena, pool, ignoreTtl>>

nowMs ==
    /\ ~fault /\ arena
    /\ nodes' = [n \in Node |-> IF n \in Linked THEN [nodes[n] EXCEPT !.age = (@ + 1) % ClockMod] ELSE nodes[n]]
    /\ UNCHANGED <<arena, buckets, freeHead, entries, mark, ignoreTtl, inside, fault>>

TableNext ==
    \/ enable \/ disable \/ setIgnoreTtl \/ clear \/ nowMs
    \/ dnsTask_Enter \/ dnsTask_Fault \/ saveToFile_Snapshot \/ saveToFile_Read
    \/ \E k \in Key : \/ store(k) \/ lookup(k) \/ erase(k)
                      \/ \E u \in 0 .. MaxUses : loadFromFile(k, u)

-----------------------------------------------------------------------------
\* Every node of the pool is on exactly one list, the free one or a chain, and
\* every list ends: no walk, which holds the mutex of the whole cache, runs for
\* ever, and no node is lost to the pool.
PoolIsPartitioned ==
    arena =>
      LET heads == [b \in Bucket \cup {Nil} |-> IF b = Nil THEN freeHead ELSE buckets[b]] IN
      /\ \A b \in DOMAIN heads : Ends(nodes, heads[b])
      /\ \A n \in Node : Cardinality({b \in DOMAIN heads : n \in Listed(nodes, heads[b])}) = 1

\* A record can be found again: it is in the chain of its key, alone with it,
\* and the count of the records is the count of the nodes in use.
RecordsAreFound ==
    /\ \A b \in Bucket : \A n \in Listed(nodes, buckets[b]) : bucketOf(nodes[n].key) = b
    /\ \A n, m \in Linked : nodes[n].key = nodes[m].key => n = m
    /\ entries = Cardinality(Linked)

\* The high-water mark of the status page is never below a record of the cache.
MarkIsHighest == \A n \in Linked : mark >= nodes[n].uses

\* The pool, its chains and its counters agree after every insertion, eviction,
\* expiry and removal, and whatever a walk met on its way.
TableSafe == TableTypeOK /\ PoolIsPartitioned /\ RecordsAreFound /\ MarkIsHighest

\* The class promises that its mutex lets the DNS task and the REST API use the
\* cache concurrently: no operation finds the arena gone under its hands.
ArenaHeld == ~fault

Records ==
    LET linked == IF arena THEN Linked ELSE {} IN
    [k \in {nodes[n].key : n \in linked} |->
        LET n == CHOOSE n \in linked : nodes[n].key = k
        IN  [age |-> nodes[n].age, uses |-> nodes[n].uses]]
TtlOfKey(k) == TtlOf[k]
Map == INSTANCE CacheMap WITH
    Capacity <- NodeCount, Ttl <- TtlOfKey, on <- arena, forgetting <- ~ignoreTtl,
    map <- Records

\* The table implements the map: whatever the collisions, the evictions and the
\* saturated counters, a key has the record last stored for it.
ImplementsMap == Map!MapSpec
=============================================================================
