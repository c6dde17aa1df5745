----------------------------- MODULE JobTable -----------------------------
(***************************************************************************)
(* The table of core/JobRegistry: the operations the scheduler page shows. *)
(* A table is a sequence of rows, the one begun earliest first, so that    *)
(* the reuse of the oldest row needs no clock.  Every operation of the     *)
(* class holds its mutex from its first to its last line, so each one is a *)
(* function from table to table here, and the modules of the subsystems    *)
(* that announce themselves apply it in their own steps.                   *)
(***************************************************************************)
EXTENDS Integers, Sequences

CONSTANT MaxJobs

ASSUME MaxJobsAssumption == MaxJobs \in Nat \ {0}

\* What a row keeps of JobInfo: its name, its state, whether a stop was asked
\* for, and whether it is a scheduled repeat, whose row outlives a run.
JobInfo(id, repeats) ==
    [id |-> id, state |-> "running", cancel |-> FALSE, repeats |-> repeats]

JobState == {"running", "paused", "done", "failed", "cancelled"}
JobRow(Id) == [id : Id, state : JobState, cancel : BOOLEAN, repeats : BOOLEAN]

jobContains(jobs, id) == \E i \in DOMAIN jobs : jobs[i].id = id
jobPlace(jobs, id) == CHOOSE i \in DOMAIN jobs : jobs[i].id = id
jobOf(jobs, id) == jobs[jobPlace(jobs, id)]
\* The row at a place is free again, the later ones move up.
jobFreed(jobs, place) ==
    [i \in 1 .. Len(jobs) - 1 |-> IF i < place THEN jobs[i] ELSE jobs[i + 1]]
jobWithout(jobs, id) == IF jobContains(jobs, id) THEN jobFreed(jobs, jobPlace(jobs, id)) ELSE jobs
jobRewrite(jobs, id, F(_)) ==
    [i \in DOMAIN jobs |-> IF jobs[i].id = id THEN F(jobs[i]) ELSE jobs[i]]

\* The rows a full table may give away: every row that is not running, a
\* paused one included.
Reusable(jobs) == {i \in DOMAIN jobs : jobs[i].state # "running"}

oldestReusable(jobs) ==
    jobs[CHOOSE i \in Reusable(jobs) : \A k \in Reusable(jobs) : i <= k]

jobHasSlot(jobs, id) == jobContains(jobs, id) \/ Len(jobs) < MaxJobs \/ Reusable(jobs) # {}

\* slotFor() and begin(): the row of the same id, a free one, the oldest that
\* is not running, or no row at all.
jobBegin(jobs, id, repeats) ==
    IF jobContains(jobs, id) \/ Len(jobs) < MaxJobs
    THEN Append(jobWithout(jobs, id), JobInfo(id, repeats))
    ELSE IF Reusable(jobs) # {}
    THEN Append(jobWithout(jobs, oldestReusable(jobs).id), JobInfo(id, repeats))
    ELSE jobs

jobProgress(jobs, id) == jobRewrite(jobs, id, LAMBDA j : [j EXCEPT !.state = "running"])
jobPause(jobs, id) == jobRewrite(jobs, id, LAMBDA j : [j EXCEPT !.state = "paused"])

\* A one-off row leaves the table, a repeat keeps its last state.
jobFinish(jobs, id, state) ==
    IF jobContains(jobs, id) /\ ~jobOf(jobs, id).repeats THEN jobWithout(jobs, id)
    ELSE jobRewrite(jobs, id, LAMBDA j : [j EXCEPT !.state = state])

jobCancellable(jobs, id) ==
    jobContains(jobs, id) /\ jobOf(jobs, id).state \in {"running", "paused"}
jobRequestCancel(jobs, id) ==
    IF jobCancellable(jobs, id)
    THEN jobRewrite(jobs, id, LAMBDA j : [j EXCEPT !.cancel = TRUE]) ELSE jobs
jobCancelRequested(jobs, id) == jobContains(jobs, id) /\ jobOf(jobs, id).cancel
===========================================================================
