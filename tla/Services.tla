----------------------------- MODULE Services -----------------------------
(***************************************************************************)
(* How the DHCP, DNS and NTP servers are started and stopped: start(),     *)
(* stop() and the task body of src/dhcp/DhcpServer.cpp,                    *)
(* src/dns/DnsServer.cpp and src/time/TimeServer.cpp, called by the        *)
(* network callbacks of src/main.cpp on the event task and by the settings *)
(* handlers of src/web/RestApi.cpp on the web task.                        *)
(*                                                                         *)
(* Nothing locks the members the three share.  start() and stop() are      *)
(* split where they sleep or create the task, the task body where it       *)
(* blocks; a blocked task notices a stop only when its receive times out   *)
(* or its packet is handled, up to seconds later.                          *)
(***************************************************************************)
EXTENDS Naturals, Sequences, FiniteSets

CONSTANTS Task,          \* identities a FreeRTOS task may have
          NoTask,
          Scenarios,     \* what may go wrong in a behaviour, see Scenario
          EnabledAtOnce  \* bound: how many servers are switched on at a time

Server == {"dhcp", "dns", "ntp"}

\* Behaviours are told apart by how the two controllers get on and by the calls
\* that may fail, so that each property says under which of them it holds.
Scenario ==
    [servers : SUBSET Server,     \* the servers that are ever started
     tasks : SUBSET Task,
     serialized : BOOLEAN,        \* the controllers' calls to one server never overlap
     patient : BOOLEAN,           \* and a start comes only once the old task is gone
     openFails : BOOLEAN,         \* socket() or bind() may fail
     createFails : BOOLEAN,       \* xTaskCreatePinnedToCore may fail
     noAddress : BOOLEAN,         \* the interface and the settings may hold no address
     ntpLate : BOOLEAN]           \* the NTP task may miss the second stop() waits for it

Controller == {"net", "web"}

ASSUME ServicesAssumption ==
    /\ NoTask \notin Task
    /\ Scenarios \subseteq Scenario
    /\ EnabledAtOnce \in Nat

VARIABLES scenario,          \* chosen once
          state,             \* state_
          stopRequested,     \* stopRequested_
          taskHandle,        \* taskHandle_
          socketOpen,        \* socketFd_ >= 0
          task,              \* where each task's body is
          enabled,           \* the `enabled` switch of each server's settings
          link,              \* the network is connected
          dnsServerRunning,  \* DhcpServer::dnsServerRunning_
          todo,              \* the calls a controller still has to make
          phase              \* where it is inside the first of them

members == <<state, stopRequested, taskHandle, socketOpen>>
control == <<todo, phase>>
vars    == <<scenario, members, task, enabled, link, dnsServerRunning, control>>

State == {"STOPPED", "RUNNING", "ERROR"}
Where == {"none", "created", "test", "blocked", "closing", "ending"}
Call  == [op: {"start", "stop", "sync", "clear"}, s: Server]

Live(s)    == {t \in Task : task[s][t] # "none"}
Looping(s) == {t \in Task : task[s][t] \in {"test", "blocked"}}

\* The servers in S in the order main.cpp visits them, as calls of one kind.
Calls(op, S) ==
    LET one(s) == IF s \in S \cap scenario.servers THEN <<[op |-> op, s |-> s]>> ELSE <<>>
    IN  one("dhcp") \o one("dns") \o one("ntp")
DnsCall(op) == IF "dns" \in scenario.servers THEN <<[op |-> op, s |-> "dns"]>> ELSE <<>>

WithinBound(e) == Cardinality({s \in Server : e[s]}) <= EnabledAtOnce

Init ==
    /\ scenario \in Scenarios
    /\ state = [s \in Server |-> "STOPPED"]
    /\ stopRequested = [s \in Server |-> FALSE]
    /\ taskHandle = [s \in Server |-> NoTask]
    /\ socketOpen = [s \in Server |-> FALSE]
    /\ task = [s \in Server |-> [t \in Task |-> "none"]]
    /\ enabled \in [Server -> BOOLEAN] /\ WithinBound(enabled)
    /\ \A s \in Server \ scenario.servers : ~enabled[s]
    /\ link = FALSE /\ dnsServerRunning = FALSE
    /\ todo = [k \in Controller |-> <<>>]
    /\ phase = [k \in Controller |-> "call"]

-----------------------------------------------------------------------------
\* What sets a controller going.
Idle(k) == todo[k] = <<>>

onNetworkConnected ==
    /\ Idle("net") /\ ~link
    /\ link' = TRUE
    /\ todo' = [todo EXCEPT !["net"] = Calls("start", {"dhcp", "dns"}) \o DnsCall("sync")
                                          \o Calls("start", {"ntp"})]
    /\ UNCHANGED <<members, task, enabled, dnsServerRunning, phase>>

onNetworkDisconnected ==
    /\ Idle("net") /\ link
    /\ link' = FALSE
    /\ todo' = [todo EXCEPT !["net"] = Calls("stop", {"dhcp", "dns"}) \o DnsCall("clear")
                                          \o Calls("stop", {"ntp"})]
    /\ UNCHANGED <<members, task, enabled, dnsServerRunning, phase>>

\* A settings page is saved: the switch is stored, then the server follows it.
SaveSettings(s, on) ==
    /\ Idle("web") /\ link
    /\ enabled' = [enabled EXCEPT ![s] = on] /\ WithinBound(enabled')
    /\ todo' = [todo EXCEPT !["web"] = Calls(IF on THEN "start" ELSE "stop", {s})
                                          \o (IF s = "dns" THEN DnsCall("sync") ELSE <<>>)]
    /\ UNCHANGED <<members, task, link, dnsServerRunning, phase>>

-----------------------------------------------------------------------------
\* One controller's progress through its calls.
At(k, op, ph) == todo[k] # <<>> /\ todo[k][1].op = op /\ phase[k] = ph
Srv(k)        == todo[k][1].s
Return(k)     == /\ todo' = [todo EXCEPT ![k] = Tail(@)]
                 /\ phase' = [phase EXCEPT ![k] = "call"]
Goto(k, ph)   == phase' = [phase EXCEPT ![k] = ph] /\ UNCHANGED todo
InCall(s)     == \E k \in Controller : todo[k] # <<>> /\ Srv(k) = s /\ phase[k] # "call"
Alone(s)      == (scenario.serialized => ~InCall(s))

\* The caller does not start a server that runs or is switched off, and the
\* settings page does not start DHCP without a network.
WantsStart(k, s) ==
    /\ state[s] # "RUNNING" /\ enabled[s]
    /\ s = "dhcp" /\ k = "web" => link

StartSkipped(k) ==
    /\ At(k, "start", "call") /\ ~WantsStart(k, Srv(k))
    /\ Return(k)
    /\ UNCHANGED <<members, task, enabled, link, dnsServerRunning>>

\* start() up to the creation of the task.  Only DHCP drops what an earlier
\* run left behind, and only DHCP needs an address.
StartBegins(k) ==
    LET s == Srv(k) IN
    /\ At(k, "start", "call") /\ WantsStart(k, s)
    /\ Alone(s) /\ (scenario.patient => Live(s) = {})
    /\ \/ /\ s = "dhcp"
          /\ stopRequested' = [stopRequested EXCEPT ![s] = FALSE]
          /\ taskHandle' = [taskHandle EXCEPT ![s] = NoTask]
          /\ socketOpen' = [socketOpen EXCEPT ![s] = FALSE]
          /\ \/ Goto(k, "create") /\ UNCHANGED state
             \/ scenario.noAddress /\ state' = [state EXCEPT ![s] = "ERROR"] /\ Return(k)
       \/ /\ s = "dns"
          /\ Goto(k, "create") /\ UNCHANGED members
       \/ /\ s = "ntp"
          /\ stopRequested' = [stopRequested EXCEPT ![s] = FALSE]
          /\ Goto(k, "create") /\ UNCHANGED <<state, taskHandle, socketOpen>>
    /\ UNCHANGED <<task, enabled, link, dnsServerRunning>>

\* As if: a task that could not be created leaves the state it found set.
StateWithoutTask_Kept(s) == "RUNNING"

StateWithoutTask(s) == "ERROR"

\* The task is created.  DHCP and DNS are RUNNING before it exists, NTP only
\* once xTaskCreatePinnedToCore has returned.
StartCreates(k) ==
    LET s == Srv(k) IN
    /\ At(k, "start", "create")
    /\ stopRequested' = [stopRequested EXCEPT ![s] = FALSE]
    /\ \/ \E t \in scenario.tasks \ Live(s) :
             /\ task' = [task EXCEPT ![s][t] = "created"]
             /\ taskHandle' = [taskHandle EXCEPT ![s] = t]
             /\ IF s = "ntp" THEN Goto(k, "mark") /\ UNCHANGED state
                             ELSE Return(k) /\ state' = [state EXCEPT ![s] = "RUNNING"]
       \/ /\ scenario.createFails \/ Live(s) = scenario.tasks
          /\ state' = [state EXCEPT ![s] = StateWithoutTask(s)]
          /\ Return(k) /\ UNCHANGED <<task, taskHandle>>
    /\ UNCHANGED <<socketOpen, enabled, link, dnsServerRunning>>

StartMarks(k) ==
    /\ At(k, "start", "mark")
    /\ state' = [state EXCEPT ![Srv(k)] = "RUNNING"]
    /\ Return(k)
    /\ UNCHANGED <<stopRequested, taskHandle, socketOpen, task, enabled, link, dnsServerRunning>>

StopSkipped(k) ==
    /\ At(k, "stop", "call") /\ state[Srv(k)] # "RUNNING"
    /\ Return(k)
    /\ UNCHANGED <<members, task, enabled, link, dnsServerRunning>>

\* stop() up to its wait.  DHCP and DNS close the socket under the task and
\* return at once when there is no handle.
StopBegins(k) ==
    LET s == Srv(k) IN
    /\ At(k, "stop", "call") /\ state[s] = "RUNNING" /\ Alone(s)
    /\ stopRequested' = [stopRequested EXCEPT ![s] = TRUE]
    /\ \/ /\ s = "ntp" \/ taskHandle[s] # NoTask
          /\ socketOpen' = [socketOpen EXCEPT ![s] = @ /\ s = "ntp"]
          /\ Goto(k, "wait") /\ UNCHANGED state
       \/ /\ s # "ntp" /\ taskHandle[s] = NoTask
          /\ state' = [state EXCEPT ![s] = "STOPPED"]
          /\ Return(k) /\ UNCHANGED socketOpen
    /\ UNCHANGED <<taskHandle, task, enabled, link, dnsServerRunning>>

\* The wait of stop(): 100 ms for DHCP and DNS; NTP waits for the task to clear
\* the handle, a second at most.
StopWaitOver(s) == s = "ntp" => taskHandle[s] = NoTask \/ scenario.ntpLate

\* The rest of stop(): DHCP and DNS forget the task.
StopReturns(k) ==
    LET s == Srv(k) IN
    /\ At(k, "stop", "wait")
    /\ StopWaitOver(s)
    /\ state' = [state EXCEPT ![s] = "STOPPED"]
    /\ taskHandle' = IF s = "ntp" THEN taskHandle ELSE [taskHandle EXCEPT ![s] = NoTask]
    /\ Return(k)
    /\ UNCHANGED <<stopRequested, socketOpen, task, enabled, link, dnsServerRunning>>

\* As if: the DHCP server is told only that the DNS server was started.
DnsFlag_Latched(k) ==
    dnsServerRunning \/ (todo[k][1].op = "sync" /\ state["dns"] = "RUNNING")

\* setDnsServerRunning: after the DNS settings are applied, after the network
\* came up, and FALSE when it is gone.
DnsFlag(k) == todo[k][1].op = "sync" /\ state["dns"] = "RUNNING"
TellDhcp(k) ==
    /\ todo[k] # <<>> /\ todo[k][1].op \in {"sync", "clear"}
    /\ dnsServerRunning' = DnsFlag(k)
    /\ Return(k)
    /\ UNCHANGED <<members, task, enabled, link>>

-----------------------------------------------------------------------------
\* The task bodies.
Becomes(s, t, where) == task' = [task EXCEPT ![s][t] = where]

TaskOpens(s, t) ==
    /\ task[s][t] = "created"
    /\ \/ /\ socketOpen' = [socketOpen EXCEPT ![s] = TRUE]
          /\ Becomes(s, t, "test") /\ UNCHANGED state
       \/ /\ scenario.openFails
          /\ socketOpen' = [socketOpen EXCEPT ![s] = FALSE]
          /\ state' = [state EXCEPT ![s] = "ERROR"]
          /\ Becomes(s, t, "ending")
    /\ UNCHANGED <<stopRequested, taskHandle, enabled, link, dnsServerRunning, control>>

\* As if: the loop did not look.
TaskTests_Deaf(s, t) ==
    /\ task[s][t] = "test"
    /\ Becomes(s, t, "blocked")
    /\ UNCHANGED <<members, enabled, link, dnsServerRunning, control>>

\* `while (!stopRequested_)`, then the receive and the packet's handler.
TaskTests(s, t) ==
    /\ task[s][t] = "test"
    /\ Becomes(s, t, IF stopRequested[s] THEN "closing" ELSE "blocked")
    /\ UNCHANGED <<members, enabled, link, dnsServerRunning, control>>

TaskResumes(s, t) ==
    /\ task[s][t] = "blocked"
    /\ Becomes(s, t, "test")
    /\ UNCHANGED <<members, enabled, link, dnsServerRunning, control>>

TaskCloses(s, t) ==
    /\ task[s][t] = "closing"
    /\ socketOpen' = [socketOpen EXCEPT ![s] = FALSE]
    /\ Becomes(s, t, "ending")
    /\ UNCHANGED <<state, stopRequested, taskHandle, enabled, link, dnsServerRunning, control>>

\* serverTask() after the loop: DHCP reports an error and forgets the handle,
\* NTP forgets the handle, DNS just goes.
TaskEnds(s, t) ==
    /\ task[s][t] = "ending"
    /\ Becomes(s, t, "none")
    /\ state' = IF s = "dhcp" THEN [state EXCEPT ![s] = "ERROR"] ELSE state
    /\ taskHandle' = IF s = "dns" THEN taskHandle ELSE [taskHandle EXCEPT ![s] = NoTask]
    /\ UNCHANGED <<stopRequested, socketOpen, enabled, link, dnsServerRunning, control>>

TaskStep(s, t) == \/ TaskOpens(s, t) \/ TaskTests(s, t) \/ TaskResumes(s, t)
                  \/ TaskCloses(s, t) \/ TaskEnds(s, t)

ControllerStep(k) == \/ StartSkipped(k) \/ StartBegins(k) \/ StartCreates(k) \/ StartMarks(k)
                     \/ StopSkipped(k) \/ StopBegins(k) \/ StopReturns(k) \/ TellDhcp(k)

Next ==
    /\ \/ onNetworkConnected \/ onNetworkDisconnected
       \/ \E s \in scenario.servers, on \in BOOLEAN : SaveSettings(s, on)
       \/ \E k \in Controller : ControllerStep(k)
       \/ \E s \in Server, t \in Task : TaskStep(s, t)
    /\ UNCHANGED scenario

\* FreeRTOS runs every ready task, and no receive blocks for ever.
Fairness == /\ \A s \in Server, t \in Task : WF_vars(TaskStep(s, t) /\ UNCHANGED scenario)
            /\ \A k \in Controller : WF_vars(ControllerStep(k) /\ UNCHANGED scenario)

Spec == Init /\ [][Next]_vars /\ Fairness

-----------------------------------------------------------------------------
(* Properties.                                                             *)

\* Every member keeps its type, whatever start(), stop() and serverTask() do.
TypeOK ==
    /\ scenario \in Scenarios
    /\ state \in [Server -> State] /\ stopRequested \in [Server -> BOOLEAN]
    /\ taskHandle \in [Server -> Task \cup {NoTask}]
    /\ socketOpen \in [Server -> BOOLEAN]
    /\ task \in [Server -> [Task -> Where]]
    /\ enabled \in [Server -> BOOLEAN] /\ link \in BOOLEAN /\ dnsServerRunning \in BOOLEAN
    /\ todo \in [Controller -> Seq(Call)]
    /\ phase \in [Controller -> {"call", "create", "mark", "wait"}]

Quiet(s) == ~InCall(s)
Orderly  == scenario.serialized /\ scenario.patient

\* A server that reports RUNNING has a task, whatever the two controllers did
\* to it and however their calls overlapped (start() and serverTask()).  The NTP
\* server says RUNNING after its task is created: by then the task may have
\* failed, or a stop() that overlaps the start() may have ended it, so for NTP
\* only when its socket opens and calls do not overlap.
RunningHasTask ==
    \A s \in Server :
        /\ state[s] = "RUNNING" /\ Quiet(s)
        /\ s = "ntp" => ~scenario.openFails /\ scenario.serialized
        => Live(s) # {}

\* A loop that was not asked to stop has the socket it receives on: otherwise
\* recvfrom() fails at once and the loop spins at the highest priority.  It
\* takes orderly calls: a start must find the old task gone.
LoopHasSocket ==
    Orderly => \A s \in Server : Looping(s) # {} /\ ~stopRequested[s] => socketOpen[s]

\* The NTP server's stop() returns after the task is gone, when the task meets
\* the deadline stop() gives it.
NtpStopWaits ==
    Orderly /\ ~scenario.ntpLate /\ state["ntp"] = "STOPPED" /\ Quiet("ntp") => Live("ntp") = {}

\* The state of a server, its task and its socket tell the same story.
TasksMatchStates == TypeOK /\ RunningHasTask /\ LoopHasSocket /\ NtpStopWaits

\* What DHCP clients are told about the built-in DNS server is true once the
\* controllers are done, however their calls overlapped: main.cpp's "Keep DHCP in
\* sync with the built-in DNS server running state".
AdvertisedDnsRuns ==
    ~scenario.openFails /\ (\A k \in Controller : Idle(k)) /\ dnsServerRunning
        => state["dns"] = "RUNNING"

\* A stopped server's tasks end unless it is started again.
StopTakesEffect ==
    \A s \in Server :
        Orderly /\ state[s] = "STOPPED" ~> (Live(s) = {} \/ state[s] # "STOPPED" \/ InCall(s))
===========================================================================
