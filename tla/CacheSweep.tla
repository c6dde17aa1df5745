----------------------------- MODULE CacheSweep -----------------------------
(***************************************************************************)
(* One sweep of the automatic refresh of the DNS cache: the records in     *)
(* blocks, the ones that failed last time first, a pause between blocks,   *)
(* and the operator who may stop it, switch it off or delete records while *)
(* upstream is being asked.                                                *)
(*                                                                         *)
(* The cache is the sequence of its records from the oldest to the         *)
(* youngest store, which is all the sweep asks of it; it is there and its  *)
(* records do not expire, without which a sweep ends before it begins.     *)
(***************************************************************************)
EXTENDS Integers, Sequences, FiniteSets

CONSTANTS
    Record,     \* a name with its type
    Batch,      \* records of a block, as the settings have it
    MaxPending  \* kMaxPending: how many failed records are remembered

ASSUME SweepAssumption ==
    IsFiniteSet(Record) /\ Batch \in Nat \ {0} /\ MaxPending \in Nat \ {0}

VARIABLES
    stored,     \* the cache, the oldest record first
    updating,   \* enabled_
    sweep,      \* pc of the task
    running,    \* running_
    rowShown,   \* the row of the sweep in the job registry; a full registry may
                \* give a paused row away
    stopAsked,  \* cancelRequested() of that row
    pending,    \* the records that failed, the first one longest ago
    retry,      \* of those, the ones of the last sweep still to be tried
    plan,       \* the rest of the block
    block, blocks, done,
    asked,      \* the records this sweep has asked upstream for
    whole       \* the records in the cache when the sweep began and ever since

sweepVars == <<stored, updating, sweep, running, rowShown, stopAsked, pending, retry,
               plan, block, blocks, done, asked, whole>>

Elements(s) == {s[i] : i \in DOMAIN s}
Dropping(s, x) ==
    IF x \notin Elements(s) THEN s
    ELSE LET place == CHOOSE i \in DOMAIN s : s[i] = x
         IN  [i \in 1 .. Len(s) - 1 |-> IF i < place THEN s[i] ELSE s[i + 1]]
\* What `s` has at some places, in its order: the one sequence of this set.
Picked(s, places) ==
    {[i \in DOMAIN f |-> s[f[i]]] :
        f \in {f \in [1 .. Cardinality(places) -> places] : \A i, j \in DOMAIN f : i < j => f[i] < f[j]}}
LastOf(s, n) == SubSeq(s, IF n < Len(s) THEN Len(s) - n + 1 ELSE 1, Len(s))
Distinct(s) == \A i, j \in DOMAIN s : s[i] = s[j] => i = j

SweepTypeOK ==
    /\ stored \in Seq(Record) /\ Distinct(stored)
    /\ pending \in Seq(Record) /\ Distinct(pending) /\ Len(pending) <= MaxPending
    /\ retry \in Seq(Record) /\ plan \in Seq(Record)
    /\ sweep \in {"idle", "block", "ask", "answer", "pause", "pausing"}
    /\ updating \in BOOLEAN /\ running \in BOOLEAN /\ stopAsked \in BOOLEAN
    /\ rowShown \in {"none", "running", "paused", "taken"}
    /\ block \in Nat /\ blocks \in Nat /\ done \in Nat
    /\ asked \subseteq Record /\ whole \subseteq Record

SweepInit ==
    /\ stored \in UNION {[1 .. n -> Record] : n \in 0 .. Cardinality(Record)} /\ Distinct(stored)
    /\ updating = TRUE /\ sweep = "idle" /\ running = FALSE
    /\ rowShown = "none" /\ stopAsked = FALSE /\ pending = <<>> /\ retry = <<>> /\ plan = <<>>
    /\ block = 0 /\ blocks = 0 /\ done = 0 /\ asked = {} /\ whole = {}

-----------------------------------------------------------------------------
\* Round up; no record, no block.
autoUpdateBlockCount(records) == (records + Batch - 1) \div Batch
autoUpdatePauseAfterBlock(b) == b + 1 < blocks

\* rememberFailed: the one remembered longest makes room.
remembered(x) ==
    IF x \in Elements(pending) THEN pending
    ELSE Append(IF Len(pending) >= MaxPending THEN Tail(pending) ELSE pending, x)
forgotten(x) == Dropping(pending, x)

\* oldestEntries: the heap of at most `max` records has the oldest on its top
\* and loses its top when it overflows; it is then emptied from the top.
oldestEntries(max) ==
    {LastOf(candidates, max) :
        candidates \in Picked(stored, {i \in DOMAIN stored : stored[i] \notin Elements(pending)})}

\* progress() and pause(), which do nothing without the row.
shown(state) == IF rowShown = "taken" THEN "taken" ELSE state

runSweep_Start ==
    /\ sweep = "idle" /\ updating /\ stored # <<>>
    /\ sweep' = "block" /\ running' = TRUE /\ rowShown' = "running" /\ stopAsked' = FALSE
    /\ blocks' = autoUpdateBlockCount(Len(stored)) /\ block' = 0 /\ done' = 0
    /\ retry' = pending /\ pending' = <<>> /\ plan' = <<>>
    /\ asked' = {} /\ whole' = Elements(stored)
    /\ UNCHANGED <<stored, updating>>

\* The row is closed: done, or cancelled when the refresh was switched off.
close ==
    /\ sweep' = "idle" /\ running' = FALSE /\ rowShown' = "none" /\ stopAsked' = FALSE
    /\ plan' = <<>> /\ retry' = <<>> /\ block' = 0 /\ blocks' = 0

\* Of the first `n` retries, the ones that are still cached.
stillCached(n) == {i \in 1 .. n : retry[i] \in Elements(stored)}

\* These come first; as many retries are taken as the block has room for.
runSweep_Block ==
    /\ sweep = "block"
    /\ \/ /\ block < blocks /\ updating
          /\ \E taken \in 0 .. Len(retry) :
                /\ taken = Len(retry) \/ Cardinality(stillCached(taken)) = Batch
                /\ \A n \in 0 .. taken - 1 : Cardinality(stillCached(n)) < Batch
                /\ \E again \in Picked(retry, stillCached(taken)) :
                   \E oldest \in oldestEntries(Batch - Len(again)) :
                      \/ again \o oldest = <<>> /\ close
                      \/ /\ again \o oldest # <<>> /\ plan' = again \o oldest /\ sweep' = "ask"
                         /\ retry' = SubSeq(retry, taken + 1, Len(retry))
                         /\ UNCHANGED <<running, rowShown, stopAsked, block, blocks>>
       \/ ~(block < blocks /\ updating) /\ close
    /\ UNCHANGED <<stored, updating, pending, done, asked, whole>>

\* Between two records the switch is looked at; a block may end early.
runSweep_Ask ==
    /\ sweep = "ask"
    /\ \/ /\ plan # <<>> /\ updating /\ sweep' = "answer" /\ asked' = asked \cup {Head(plan)}
          /\ UNCHANGED <<block, plan>>
       \/ /\ (plan = <<>> \/ ~updating) /\ plan' = <<>> /\ UNCHANGED asked
          /\ IF autoUpdatePauseAfterBlock(block)
             THEN sweep' = "pause" /\ UNCHANGED block
             ELSE sweep' = "block" /\ block' = block + 1
    /\ UNCHANGED <<stored, updating, running, rowShown, stopAsked, pending, retry, blocks,
                   done, whole>>

\* Upstream answers or not, seconds later.  An answer is stored, whatever
\* became of the record meanwhile, and a stop is looked for.
runSweep_Answer ==
    /\ sweep = "answer"
    /\ LET item == Head(plan) IN
       \/ /\ stored' = Append(Dropping(stored, item), item) /\ pending' = forgotten(item)
       \/ UNCHANGED stored /\ pending' = remembered(item)
    /\ done' = done + 1
    /\ IF stopAsked THEN close
       ELSE /\ sweep' = "ask" /\ plan' = Tail(plan) /\ rowShown' = shown("running")
            /\ UNCHANGED <<running, stopAsked, retry, block, blocks>>
    /\ UNCHANGED <<updating, asked, whole>>

\* The pause counts in seconds and looks for a stop and the switch in each.
runSweep_Pause ==
    /\ sweep \in {"pause", "pausing"}
    /\ \/ stopAsked /\ updating /\ close
       \/ /\ ~stopAsked /\ updating /\ sweep = "pause" /\ sweep' = "pausing"
          /\ rowShown' = shown("paused") /\ UNCHANGED <<running, stopAsked, plan, retry, block, blocks>>
       \/ /\ ~updating \/ (sweep = "pausing" /\ ~stopAsked)
          /\ sweep' = "block" /\ block' = block + 1 /\ rowShown' = shown("running")
          /\ UNCHANGED <<running, stopAsked, plan, retry, blocks>>
    /\ UNCHANGED <<stored, updating, pending, done, asked, whole>>

-----------------------------------------------------------------------------
requestStop ==
    /\ rowShown \in {"running", "paused"} /\ ~stopAsked /\ stopAsked' = TRUE
    /\ UNCHANGED <<stored, updating, sweep, running, rowShown, pending, retry, plan, block,
                   blocks, done, asked, whole>>
otherBegins ==
    /\ rowShown = "paused" /\ rowShown' = "taken" /\ stopAsked' = FALSE
    /\ UNCHANGED <<stored, updating, sweep, running, pending, retry, plan, block, blocks,
                   done, asked, whole>>
switchOff ==
    /\ updating /\ updating' = FALSE
    /\ UNCHANGED <<stored, sweep, running, rowShown, stopAsked, pending, retry, plan, block,
                   blocks, done, asked, whole>>
\* The operator deletes a record, or the DNS task learns one.
eraseRecord(r) ==
    /\ r \in Elements(stored) /\ stored' = Dropping(stored, r) /\ whole' = whole \ {r}
    /\ UNCHANGED <<updating, sweep, running, rowShown, stopAsked, pending, retry, plan,
                   block, blocks, done, asked>>
learnRecord(r) ==
    /\ r \notin Elements(stored) /\ stored' = Append(stored, r)
    /\ UNCHANGED <<updating, sweep, running, rowShown, stopAsked, pending, retry, plan,
                   block, blocks, done, asked, whole>>

sweepTask == \/ runSweep_Block \/ runSweep_Ask \/ runSweep_Answer \/ runSweep_Pause
SweepNext ==
    \/ runSweep_Start \/ sweepTask \/ requestStop \/ otherBegins \/ switchOff
    \/ \E r \in Record : eraseRecord(r) \/ learnRecord(r)

-----------------------------------------------------------------------------
\* "Records of the cache to refresh": upstream is asked for no more than a batch
\* a block, retries included, and a record is counted for each question.
SweepIsBounded ==
    sweep # "idle" => /\ Len(plan) <= Batch
                      /\ done + Len(plan) <= (block + 1) * Batch

\* The row of the sweep goes when the sweep does, however it ended, and does not
\* say "paused" while a record is being asked for.
SweepRowTrue ==
    /\ running <=> sweep # "idle"
    /\ rowShown # "none" => running
    /\ sweep \in {"block", "ask", "answer"} => rowShown # "paused"

\* "A sweep walks the whole cache": a sweep that nobody stopped has asked for
\* every record that was there from its beginning to its end.
SweepIsWhole ==
    [][sweep # "idle" /\ sweep' = "idle" /\ updating /\ ~stopAsked => whole \subseteq asked]_sweepVars

SweepBusy == sweep # "idle"
=============================================================================
