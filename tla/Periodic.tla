------------------------------ MODULE Periodic ------------------------------
(***************************************************************************)
(* The three tasks that count seconds down and then do something: the      *)
(* automatic save of the DNS cache, the one of the statistics, and the     *)
(* refresh of the cache (whose sweep is CacheSweep).  `timer` says which   *)
(* one a behaviour is about.  The web task configures it at any moment;    *)
(* the fields they share are volatile and nothing more, so a decrement is  *)
(* a read and a write.                                                     *)
(***************************************************************************)
EXTENDS JobTable

CONSTANTS Periods   \* the periods the operator chooses from, in ticks

ASSUME PeriodsAssumption ==
    Periods \subseteq Nat \ {0} /\ \E p \in Periods : \A q \in Periods : q <= p

Saver == {"cacheSave", "statsSave"}
Timer == Saver \cup {"update"}

VARIABLES
    timer,
    timerOn,     \* enabled_
    timerTask,   \* task_ is not null
    tasks,       \* how many tasks run
    tick,        \* pc of the task
    chosen,      \* the period of the settings: effectivePeriodSec()
    period, remaining, loaded,
    restart,     \* restartRequested_
    nowAsked,    \* nowRequested_
    clock,       \* the clock is set
    wasSet, clockShown,
    timerJobs,   \* the job registry
    since,       \* ticks since the countdown was last armed by the operator
    orphan       \* switched on while the task was leaving, or it was not created

timerVars == <<timer, timerOn, timerTask, tasks, tick, chosen, period, remaining, loaded, restart,
               nowAsked, clock, wasSet, clockShown, timerJobs, since, orphan>>

MaxPeriod == CHOOSE p \in Periods : \A q \in Periods : q <= p

PeriodicTypeOK ==
    /\ timer \in Timer /\ timerOn \in BOOLEAN /\ timerTask \in BOOLEAN /\ tasks \in 0 .. 2
    /\ tick \in {"none", "sleep", "leave", "count", "store", "due", "work"}
    /\ chosen \in Periods /\ period \in Periods /\ remaining \in 0 .. MaxPeriod
    /\ loaded \in 0 .. MaxPeriod /\ since \in 0 .. MaxPeriod
    /\ restart \in BOOLEAN /\ nowAsked \in BOOLEAN /\ clock \in BOOLEAN /\ wasSet \in BOOLEAN
    /\ clockShown \in BOOLEAN /\ orphan \in BOOLEAN
    /\ timerJobs \in Seq(JobRow(Timer \cup {"other"})) /\ Len(timerJobs) <= MaxJobs

\* At boot nothing counts; another operation may already fill the registry.
PeriodicInit ==
    /\ timer \in Timer /\ timerOn = FALSE /\ timerTask = FALSE /\ tasks = 0 /\ tick = "none"
    /\ chosen = MaxPeriod /\ period = chosen /\ remaining = 0 /\ loaded = 0
    /\ restart = FALSE /\ nowAsked = FALSE /\ clock = FALSE /\ wasSet = TRUE
    /\ clockShown = FALSE /\ since = 0 /\ orphan = FALSE
    /\ timerJobs \in {<<>>, jobBegin(<<>>, "other", FALSE)}

-----------------------------------------------------------------------------
\* As if: only the numbers were set, and the task not told.
armed_NoFlag(p) ==
    /\ period' = p /\ remaining' = p /\ since' = 0 /\ UNCHANGED restart
\* The countdown starts from a whole period, and the task is told so.
armed(p) == period' = p /\ remaining' = p /\ restart' = TRUE /\ since' = 0

autoUpdateReArmNeeded(p) == ~timerOn \/ period # p

\* As if: a task that could not be created left the timer on.
startTimer_KeepsOn ==
    \/ /\ ~timerTask /\ timerTask' = TRUE /\ tasks' = tasks + 1 /\ tick' = "sleep"
       /\ wasSet' = TRUE /\ timerOn' = TRUE /\ orphan' = FALSE
    \/ ~timerTask /\ timerOn' = TRUE /\ UNCHANGED <<timerTask, tasks, tick, wasSet, orphan>>
    \/ /\ timerTask /\ timerOn' = TRUE /\ orphan' = (tick = "leave")
       /\ UNCHANGED <<timerTask, tasks, tick, wasSet>>
\* The task is created when there is none by its handle, and may fail to be.
startTimer ==
    \/ /\ ~timerTask /\ timerTask' = TRUE /\ tasks' = tasks + 1 /\ tick' = "sleep"
       /\ wasSet' = TRUE /\ timerOn' = TRUE /\ orphan' = FALSE
    \/ ~timerTask /\ timerOn' = FALSE /\ UNCHANGED <<timerTask, tasks, tick, wasSet, orphan>>
    \/ /\ timerTask /\ timerOn' = TRUE /\ orphan' = (tick = "leave")
       /\ UNCHANGED <<timerTask, tasks, tick, wasSet>>

configureSave(p) ==
    /\ timer = "cacheSave" /\ chosen' = p /\ armed(p) /\ startTimer /\ UNCHANGED clockShown
configureStats(p) ==
    /\ timer = "statsSave" /\ chosen' = p /\ armed(p) /\ startTimer /\ UNCHANGED clockShown
\* The refresh is armed again only if it was off or has another period.
configureUpdate(p) ==
    /\ timer = "update" /\ chosen' = p
    /\ IF autoUpdateReArmNeeded(p)
       THEN armed(p) /\ clockShown' = FALSE
       ELSE UNCHANGED <<period, remaining, restart, since, clockShown>>
    /\ startTimer

configureOn(p) ==
    /\ configureSave(p) \/ configureStats(p) \/ configureUpdate(p)
    /\ UNCHANGED <<timer, loaded, nowAsked, clock, timerJobs>>
configureOff ==
    /\ timerOn' = FALSE
    /\ UNCHANGED <<timer, timerTask, tasks, tick, chosen, period, remaining, loaded, restart,
                   nowAsked, clock, wasSet, clockShown, timerJobs, since, orphan>>

\* A save by hand counts as the automatic one.
notifyManualSave ==
    /\ timer \in Saver /\ timerOn /\ period' = chosen /\ remaining' = chosen
    /\ UNCHANGED <<timer, timerOn, timerTask, tasks, tick, chosen, loaded, restart, nowAsked,
                   clock, wasSet, clockShown, timerJobs, since, orphan>>
requestNow ==
    /\ timer = "update" /\ timerOn /\ nowAsked' = TRUE
    /\ UNCHANGED <<timer, timerOn, timerTask, tasks, tick, chosen, period, remaining, loaded,
                   restart, clock, wasSet, clockShown, timerJobs, since, orphan>>
clockIsSet ==
    /\ ~clock /\ clock' = TRUE
    /\ UNCHANGED <<timer, timerOn, timerTask, tasks, tick, chosen, period, remaining, loaded,
                   restart, nowAsked, wasSet, clockShown, timerJobs, since, orphan>>
requestCancel ==
    /\ timerJobs' = jobRequestCancel(timerJobs, timer) /\ timerJobs' # timerJobs
    /\ UNCHANGED <<timer, timerOn, timerTask, tasks, tick, chosen, period, remaining, loaded,
                   restart, nowAsked, clock, wasSet, clockShown, since, orphan>>
otherJob ==
    /\ \/ jobContains(timerJobs, "other") /\ timerJobs' = jobFinish(timerJobs, "other", "done")
       \/ ~jobContains(timerJobs, "other") /\ timerJobs' = jobBegin(timerJobs, "other", FALSE)
    /\ UNCHANGED <<timer, timerOn, timerTask, tasks, tick, chosen, period, remaining, loaded,
                   restart, nowAsked, clock, wasSet, clockShown, since, orphan>>

-----------------------------------------------------------------------------
rearm == period' = chosen /\ remaining' = chosen

\* The task wakes up once a second.
run_Wake ==
    /\ tick = "sleep"
    /\ since' = IF since < MaxPeriod THEN since + 1 ELSE since
    /\ \/ /\ ~timerOn /\ tick' = "leave"
          /\ UNCHANGED <<nowAsked, wasSet, clockShown, period, remaining>>
       \/ /\ timerOn /\ nowAsked /\ nowAsked' = FALSE /\ tick' = "due"
          /\ UNCHANGED <<wasSet, clockShown, period, remaining>>
       \/ /\ timerOn /\ ~nowAsked /\ ~clock
          /\ wasSet' = FALSE /\ clockShown' = FALSE /\ UNCHANGED <<tick, nowAsked, period, remaining>>
       \/ /\ timerOn /\ ~nowAsked /\ clock /\ tick' = "count"
          /\ clockShown' = (timer = "update") /\ wasSet' = TRUE
          /\ IF wasSet THEN UNCHANGED <<period, remaining>> ELSE rearm
          /\ UNCHANGED nowAsked
    /\ UNCHANGED <<timer, timerOn, timerTask, tasks, chosen, loaded, restart, clock, timerJobs, orphan>>

run_Leave ==
    /\ tick = "leave" /\ tick' = "none" /\ timerTask' = FALSE /\ tasks' = tasks - 1
    /\ UNCHANGED <<timer, timerOn, chosen, period, remaining, loaded, restart, nowAsked, clock,
                   wasSet, clockShown, timerJobs, since, orphan>>

\* A restart, one second less, or the time has come.
run_Count ==
    /\ tick = "count"
    /\ \/ restart /\ restart' = FALSE /\ rearm /\ tick' = "sleep" /\ UNCHANGED loaded
       \/ ~restart /\ remaining > 0 /\ loaded' = remaining - 1 /\ tick' = "store"
          /\ UNCHANGED <<restart, period, remaining>>
       \/ ~restart /\ remaining = 0 /\ tick' = "due" /\ UNCHANGED <<restart, period, remaining, loaded>>
    /\ UNCHANGED <<timer, timerOn, timerTask, tasks, chosen, nowAsked, clock, wasSet, clockShown,
                   timerJobs, since, orphan>>
run_Store ==
    /\ tick = "store" /\ remaining' = loaded /\ loaded' = 0 /\ tick' = "sleep"
    /\ UNCHANGED <<timer, timerOn, timerTask, tasks, chosen, period, restart, nowAsked, clock,
                   wasSet, clockShown, timerJobs, since, orphan>>

\* Without a cache, or a row in the registry, this turn is skipped.
beginWork ==
    /\ tick = "due"
    /\ \/ /\ jobHasSlot(timerJobs, timer) /\ tick' = "work"
          /\ timerJobs' = jobBegin(timerJobs, timer, FALSE) /\ UNCHANGED <<period, remaining>>
       \/ tick' = "sleep" /\ rearm /\ UNCHANGED timerJobs
    /\ UNCHANGED <<timer, timerOn, timerTask, tasks, chosen, loaded, restart, nowAsked, clock,
                   wasSet, clockShown, since, orphan>>

saveNow_Begin == timer \in Saver /\ beginWork
runSweep_Begin == timer = "update" /\ beginWork

\* The file is written or not, the row is closed, and then a stop is looked for.
saveNow_End ==
    /\ tick = "work" /\ timer \in Saver
    /\ LET closed == jobFinish(timerJobs, timer, "done") IN
       /\ timerJobs' = closed
       /\ timerOn' = (timerOn /\ ~jobCancelRequested(closed, timer))
    /\ tick' = "sleep" /\ rearm
    /\ UNCHANGED <<timer, timerTask, tasks, chosen, loaded, restart, nowAsked, clock, wasSet,
                   clockShown, since, orphan>>

\* The sweep of the refresh: a stop ends it and leaves the timer as it is.
runSweep_End ==
    /\ tick = "work" /\ timer = "update"
    /\ timerJobs' = jobFinish(timerJobs, timer, "done")
    /\ tick' = "sleep" /\ rearm
    /\ UNCHANGED <<timer, timerOn, timerTask, tasks, chosen, loaded, restart, nowAsked, clock,
                   wasSet, clockShown, since, orphan>>

timerStep == \/ run_Wake \/ run_Leave \/ run_Count \/ run_Store
             \/ saveNow_Begin \/ saveNow_End \/ runSweep_Begin \/ runSweep_End
PeriodicNext ==
    \/ \E p \in Periods : configureOn(p)
    \/ configureOff \/ notifyManualSave \/ requestNow \/ clockIsSet \/ requestCancel \/ otherJob
    \/ timerStep

-----------------------------------------------------------------------------
\* Whoever switches a timer off and on again in any rhythm has one task.
OneTimerTask == tasks <= 1

\* A timer that is on has a task, but for one case: it was switched on in the
\* moment in which its task had seen it off and was leaving.
TimerRuns == timerOn => tick # "none" \/ orphan

\* "The countdown starts from a whole period": after the operator turned a timer
\* on or changed its period, the time does not come before a period of ticks,
\* although the task may write an old countdown back over the new one.
WholePeriod == [][tick = "count" /\ tick' = "due" => since >= chosen]_timerVars

\* "A stop pressed on the scheduler page turns the autosave off": a save that was
\* asked to stop does not leave the timer on.
StopTurnsOff ==
    [][tick = "work" /\ tick' = "sleep" /\ timer \in Saver /\ jobCancelRequested(timerJobs, timer)
          => timerOn' = FALSE]_timerVars

\* A save or a sweep is going on.
PeriodicBusy == tick \in {"due", "work"}
=============================================================================
