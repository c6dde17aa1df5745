---------------------------- MODULE MCBackground ----------------------------
(***************************************************************************)
(* What runs beside the servers, for TLC: the senders of records, the      *)
(* built-in cache under the DNS and the web task, the tasks that count     *)
(* down, the sweep of the cache and the journals.  They share no state     *)
(* that a property below is about, so each is explored by itself: `part`   *)
(* says which one a behaviour is about.                                    *)
(***************************************************************************)
EXTENDS Senders, CacheTable, Periodic, CacheSweep, LogFiles

VARIABLE part

\* Three of four names share a bucket; one has no lifetime.
SomeHash == [k \in Key |-> IF k = "d" THEN 1 ELSE 2]
SomeTtl == [k \in Key |-> IF k = "a" THEN 0 ELSE 1]

vars == <<part, senderVars, tableVars, timerVars, sweepVars, logVars>>

Init ==
    /\ part \in {"senders", "table", "periodic", "sweep", "logs"}
    /\ SendersInit /\ TableInit /\ PeriodicInit /\ SweepInit /\ LogInit
    /\ part # "senders" => sender = "dhcp"
    /\ part # "table" => ignoreTtl
    /\ part # "periodic" => timer = "update" /\ timerJobs = <<>>
    /\ part # "sweep" => stored = <<>>
    /\ part # "logs" => cap = KeepLines /\ clockOk /\ card = "absent"

SendersStep(A) == part = "senders" /\ A /\ UNCHANGED <<part, tableVars, timerVars, sweepVars, logVars>>
TableStep(A) == part = "table" /\ A /\ UNCHANGED <<part, senderVars, timerVars, sweepVars, logVars>>
PeriodicStep(A) == part = "periodic" /\ A /\ UNCHANGED <<part, senderVars, tableVars, sweepVars, logVars>>
SweepStep(A) == part = "sweep" /\ A /\ UNCHANGED <<part, senderVars, tableVars, timerVars, logVars>>
LogStep(A) == part = "logs" /\ A /\ UNCHANGED <<part, senderVars, tableVars, timerVars, sweepVars>>

Next ==
    \/ SendersStep(SendersNext) \/ TableStep(TableNext) \/ PeriodicStep(PeriodicNext)
    \/ SweepStep(SweepNext) \/ LogStep(LogNext)

\* A FreeRTOS task that can go on does.  Nothing is assumed of a sender, whose
\* exchange with a server has no bound of its own.
Fairness ==
    /\ WF_vars(SendersStep(callerTask)) /\ WF_vars(PeriodicStep(timerStep))
    /\ WF_vars(SweepStep(sweepTask)) /\ WF_vars(LogStep(logStep))

Spec == Init /\ [][Next]_vars /\ Fairness

-----------------------------------------------------------------------------
\* A timer that is on has one task, and the sweep it begins keeps to its batches
\* and to its row.
TimersSafe ==
    PeriodicTypeOK /\ OneTimerTask /\ TimerRuns /\ SweepTypeOK /\ SweepIsBounded /\ SweepRowTrue

Busy == SendersBusy \/ PeriodicBusy \/ SweepBusy \/ LogBusy

\* Everything that was begun comes to its end: the page that waits for a sender
\* to stop gets its answer although the server it talks to never does, a save,
\* a sweep with its pauses and retries, and the writing of a line end.
EverythingStops == Busy ~> ~Busy
=============================================================================
