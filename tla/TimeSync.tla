------------------------------ MODULE TimeSync ------------------------------
(***************************************************************************)
(* The clock's own schedule (time/TimeServer.cpp): while the SNTP client has *)
(* no answer, a one-shot timer beats; its callback starts a probe of the     *)
(* servers in a task, and the probe writes its lines and arms the timer      *)
(* again.  A page, the network and the answer of a server start, stop and    *)
(* end the schedule meanwhile.                                               *)
(*                                                                         *)
(* Nothing is locked.  A probe tells the run it belongs to from a later one  *)
(* by the second the run began in.  Of the delays it is kept that a beat     *)
(* comes in a later second than the one its timer was armed in (the shortest *)
(* is a minute), and settings are saved in different seconds.                *)
(***************************************************************************)
EXTENDS Naturals

CONSTANTS
    Servers,            \* the lists of servers an operator saves
    NoServers,          \* the empty one among them
    Probe,              \* the probe tasks there may be at once
    MaxSecond           \* bound on the time that passes

ASSUME TimeSyncAssumption == NoServers \in Servers /\ MaxSecond \in Nat \ {0}

Off == 0                \* the timer; otherwise the second after the one it was armed in

VARIABLES
    second,             \* uptimeSec
    sntpStarted,        \* sntpStarted_
    synced,             \* synced_
    servers,            \* servers_
    syncRun,            \* syncRunUptimeSec_
    syncStateTimer,     \* syncStateTimer_
    probeRunning,       \* probeRunning_
    probe,              \* the probe tasks: the run and the servers they ask for
    callback,           \* where the callback of the timer stands
    page,               \* where the task that applies the settings stands
    crossed             \* a late callback has stopped the timer of the next run

timeSyncVars == <<second, sntpStarted, synced, servers, syncRun, syncStateTimer, probeRunning,
                  probe, callback, page, crossed>>

NoProbe == [step |-> "none", run |-> 0, asked |-> NoServers]

TimeSyncTypeOK ==
    /\ second \in 1..MaxSecond /\ syncRun \in 0..MaxSecond
    /\ sntpStarted \in BOOLEAN /\ synced \in BOOLEAN /\ probeRunning \in BOOLEAN
    /\ crossed \in BOOLEAN
    /\ servers \in Servers
    /\ syncStateTimer \in 0..MaxSecond + 1
    /\ probe \in [Probe -> [step : {"none", "new", "asks"}, run : 0..MaxSecond, asked : Servers]]
    /\ callback \in {"idle", "fired", "stop", "beat"}
    /\ page \in {"idle", "on", "off", "started", "armed"}

TimeSyncInit ==
    /\ second = 1 /\ syncRun = 0
    /\ sntpStarted = FALSE /\ synced = FALSE /\ probeRunning = FALSE /\ crossed = FALSE
    /\ servers = NoServers
    /\ syncStateTimer = Off
    /\ probe = [p \in Probe |-> NoProbe]
    /\ callback = "idle"
    /\ page = "idle"

syncSecondPasses ==
    /\ second < MaxSecond
    /\ second' = second + 1
    /\ UNCHANGED <<sntpStarted, synced, servers, syncRun, syncStateTimer, probeRunning, probe,
                   callback, page, crossed>>

-----------------------------------------------------------------------------
\* esp_timer_stop, and esp_timer_start_once with the next delay.
armSyncStateTimer == syncStateTimer' = second + 1
stopSyncStateTimer == syncStateTimer' = Off

stopSyncQuiet ==
    /\ sntpStarted' = FALSE
    /\ IF sntpStarted THEN stopSyncStateTimer ELSE UNCHANGED syncStateTimer

\* The page, the settings file or the network: a new list stops the client
\* before it is replaced (lwIP keeps pointers to the old one).  A run is known
\* by the second it began in, so two runs of one second are left out here.
setServers(list, on) ==
    /\ page = "idle" /\ syncRun < second
    /\ page' = IF on THEN "on" ELSE "off"
    /\ servers' = list
    /\ IF list = servers THEN UNCHANGED <<sntpStarted, syncStateTimer>> ELSE stopSyncQuiet
    /\ UNCHANGED <<second, synced, syncRun, probeRunning, probe, callback, crossed>>

stopSync ==
    /\ page = "off"
    /\ page' = "idle"
    /\ stopSyncQuiet
    /\ UNCHANGED <<second, synced, servers, syncRun, probeRunning, probe, callback, crossed>>

\* The stop half of a restart; then sntpStarted_ is set before the run begins.
restartSync ==
    /\ page = "on"
    /\ page' = "started"
    /\ sntpStarted' = TRUE
    /\ IF sntpStarted THEN stopSyncStateTimer ELSE UNCHANGED syncStateTimer
    /\ UNCHANGED <<second, synced, servers, syncRun, probeRunning, probe, callback, crossed>>

\* As if: a run had no number of its own.
startSync_Unstamped ==
    /\ page = "started"
    /\ page' = "armed"
    /\ probeRunning' = FALSE
    /\ UNCHANGED <<second, sntpStarted, synced, servers, syncRun, syncStateTimer, probe, callback,
                   crossed>>

startSync ==
    /\ page = "started"
    /\ page' = "armed"
    /\ syncRun' = second
    /\ probeRunning' = FALSE
    /\ UNCHANGED <<second, sntpStarted, synced, servers, syncStateTimer, probe, callback, crossed>>

startSync_Arm ==
    /\ page = "armed"
    /\ page' = "idle"
    /\ armSyncStateTimer
    /\ UNCHANGED <<second, sntpStarted, synced, servers, syncRun, probeRunning, probe, callback,
                   crossed>>

\* The answer of a server (in the network task) or the operator's own setting:
\* synced_ is never taken back.
onSyncNotification ==
    /\ ~synced
    /\ synced' = TRUE
    /\ stopSyncStateTimer
    /\ UNCHANGED <<second, sntpStarted, servers, syncRun, probeRunning, probe, callback, page, crossed>>

-----------------------------------------------------------------------------
timerFires ==
    /\ callback = "idle"
    /\ syncStateTimer # Off /\ syncStateTimer <= second
    /\ syncStateTimer' = Off
    /\ callback' = "fired"
    /\ UNCHANGED <<second, sntpStarted, synced, servers, syncRun, probeRunning, probe, page, crossed>>

\* The callback looks: the schedule is over, a probe owns it, or it is time.
onSyncStateTimer ==
    /\ callback = "fired"
    /\ callback' = IF synced \/ ~sntpStarted THEN "stop"
                   ELSE IF probeRunning THEN "idle" ELSE "beat"
    /\ UNCHANGED <<second, sntpStarted, synced, servers, syncRun, syncStateTimer, probeRunning, probe,
                   page, crossed>>

\* It stops the timer, whoever has armed it since it looked.
onSyncStateTimer_Stop ==
    /\ callback = "stop"
    /\ callback' = "idle"
    /\ stopSyncStateTimer
    /\ crossed' = (crossed \/ syncStateTimer # Off)
    /\ UNCHANGED <<second, sntpStarted, synced, servers, syncRun, probeRunning, probe, page>>

\* With no server, or no memory for a task, the line is written here and the
\* timer armed again.
startProbeTask ==
    /\ callback = "beat"
    /\ callback' = "idle"
    /\ \/ /\ servers # NoServers
          /\ \E p \in Probe :
              /\ probe[p].step = "none"
              /\ probe' = [probe EXCEPT ![p].step = "new"]
          /\ probeRunning' = TRUE
          /\ UNCHANGED syncStateTimer
       \/ /\ armSyncStateTimer
          /\ probeRunning' = (servers = NoServers /\ probeRunning)
          /\ UNCHANGED probe
    /\ UNCHANGED <<second, sntpStarted, synced, servers, syncRun, page, crossed>>

probeTask(p) ==
    /\ probe[p].step = "new"
    /\ probe' = [probe EXCEPT ![p] = [step |-> "asks", run |-> syncRun, asked |-> servers]]
    /\ UNCHANGED <<second, sntpStarted, synced, servers, syncRun, syncStateTimer, probeRunning,
                   callback, page, crossed>>

\* The probe of a run that is over leaves without a word; one of the current
\* run writes its lines and goes on with the schedule, unless that is over.
probeTask_End(p) ==
    /\ probe[p].step = "asks"
    /\ probe' = [probe EXCEPT ![p] = NoProbe]
    /\ LET currentRun == probe[p].run = syncRun
           goesOn == currentRun /\ sntpStarted /\ ~synced
       IN /\ probeRunning' = (probeRunning /\ ~currentRun)
          /\ IF goesOn THEN armSyncStateTimer ELSE UNCHANGED syncStateTimer
    /\ UNCHANGED <<second, sntpStarted, synced, servers, syncRun, callback, page, crossed>>

pageStep == stopSync \/ restartSync \/ startSync \/ startSync_Arm
callbackStep == onSyncStateTimer \/ onSyncStateTimer_Stop \/ startProbeTask
probeStep == \E p \in Probe : probeTask(p) \/ probeTask_End(p)

TimeSyncNext ==
    \/ syncSecondPasses \/ timerFires \/ onSyncNotification
    \/ \E list \in Servers, on \in BOOLEAN : setServers(list, on)
    \/ pageStep \/ callbackStep \/ probeStep

-----------------------------------------------------------------------------
\* While the client waits for its first answer somebody keeps the schedule: the
\* timer is armed, its callback runs, or a probe of this very run will arm it.
\* The one exception is a callback that saw the client stopped and then stopped
\* the timer its restart had armed.
BeatGoesOn ==
    sntpStarted /\ ~synced /\ page = "idle" /\ ~crossed =>
        \/ syncStateTimer # Off
        \/ callback \in {"fired", "beat"}
        \/ \E p \in Probe : probe[p].step = "new" \/ (probe[p].step = "asks" /\ probe[p].run = syncRun)

\* A probe that comes back in its own run asked the servers of that run, however
\* the list was replaced while its task was starting or asking.
ProbeAskedOwn ==
    \A p \in Probe : probe[p].step = "asks" /\ probe[p].run = syncRun
                        /\ page = "idle" /\ sntpStarted => probe[p].asked = servers

TimeSyncBusy == callback # "idle" \/ page # "idle" \/ \E p \in Probe : probe[p].step # "none"
=============================================================================
