-------------------------- MODULE ServicesProofs --------------------------
(***************************************************************************)
(* Services for every set of tasks and every set of scenarios: a server    *)
(* that reports RUNNING has a task, a loop has its socket, the NTP server's *)
(* stop() waits, and DHCP clients are told the truth about the DNS server. *)
(***************************************************************************)
EXTENDS Services, SequenceTheorems, TLAPS

\* Where a controller can be follows from the call it is making.
PhaseFits ==
    \A k \in Controller : phase[k] # "call" =>
        /\ todo[k] # <<>>
        /\ todo[k][1].op = (IF phase[k] = "wait" THEN "stop" ELSE "start")
        /\ phase[k] = "mark" => Srv(k) = "ntp"

\* A task that nobody asked to stop, before the end of its loop.
Serving(s) ==
    ~stopRequested[s] /\ \E t \in Task : task[s][t] \in {"created", "test", "blocked"}

Sure(s) == s = "ntp" => ~scenario.openFails /\ scenario.serialized

\* RUNNING is said of a server that serves, or that a stop() is waiting for.
RunningServed ==
    \A s \in Server : Sure(s) /\ state[s] = "RUNNING" =>
        Serving(s) \/ \E k \in Controller : phase[k] = "wait" /\ Srv(k) = s

\* The NTP task is still serving when start() gets to say RUNNING.
MarkServed == Sure("ntp") => \A k \in Controller : phase[k] = "mark" => Serving("ntp")

OneCaller ==
    scenario.serialized =>
        \A j, k \in Controller :
            phase[j] # "call" /\ phase[k] # "call" /\ Srv(j) = Srv(k) => j = k

CreateFindsNone ==
    Orderly => \A k \in Controller : phase[k] = "create" => Live(Srv(k)) = {}

OneTask == Orderly => \A s \in Server : \A t, u \in Live(s) : t = u

NtpHandle == Orderly => \A t \in Live("ntp") : taskHandle["ntp"] = t

-----------------------------------------------------------------------------
(* The calls a controller makes *)

\* The members of the scenario a proof looks at have their types.
LEMMA ScenarioType ==
    ASSUME TypeOK
    PROVE  scenario.servers \subseteq Server /\ scenario.tasks \subseteq Task
  BY ServicesAssumption DEF TypeOK, Scenario

\* The calls of onNetworkConnected, onNetworkDisconnected and the settings
\* handlers are calls of the servers.
LEMMA CallsType ==
    ASSUME NEW op \in {"start", "stop", "sync", "clear"}, NEW S
    PROVE  Calls(op, S) \in Seq(Call) /\ DnsCall(op) \in Seq(Call)
<1> DEFINE one(s) == IF s \in S \cap scenario.servers THEN <<[op |-> op, s |-> s]>> ELSE <<>>
<1>0. \A s \in Server : [op |-> op, s |-> s] \in Call
  BY DEF Call
<1>a. \A c \in Call : <<c>> \in Seq(Call)
  OBVIOUS
<1>b. <<>> \in Seq(Call)
  OBVIOUS
<1>1. \A s \in Server : one(s) \in Seq(Call)
  BY <1>0, <1>a, <1>b
<1>2. Calls(op, S) = one("dhcp") \o one("dns") \o one("ntp")
  BY DEF Calls
<1> HIDE DEF one
<1>3. one("dhcp") \in Seq(Call) /\ one("dns") \in Seq(Call) /\ one("ntp") \in Seq(Call)
  BY <1>1 DEF Server
<1>4. Calls(op, S) \in Seq(Call)
  BY <1>2, <1>3
<1>5. DnsCall(op) \in Seq(Call)
  BY <1>0, <1>a, <1>b DEF DnsCall, Server
<1> QED BY <1>4, <1>5

\* A controller that is in a call has one, and dropping it leaves calls.
LEMMA HeadType ==
    ASSUME TypeOK, NEW k \in Controller, todo[k] # <<>>
    PROVE  /\ todo[k][1] \in Call /\ Srv(k) \in Server
           /\ Tail(todo[k]) \in Seq(Call)
<1>1. todo[k] \in Seq(Call)
  BY DEF TypeOK
<1>2. todo[k][1] \in Call /\ Tail(todo[k]) \in Seq(Call)
  BY <1>1
<1> QED BY <1>2 DEF Srv, Call

\* What Return and Goto do to the controllers.
LEMMA ReturnEffect ==
    ASSUME TypeOK, NEW k \in Controller, todo[k] # <<>>, Return(k)
    PROVE  /\ todo' \in [Controller -> Seq(Call)]
           /\ phase' \in [Controller -> {"call", "create", "mark", "wait"}]
           /\ todo'[k] = Tail(todo[k]) /\ phase'[k] = "call"
           /\ \A j \in Controller \ {k} : todo'[j] = todo[j] /\ phase'[j] = phase[j]
  BY HeadType DEF TypeOK, Return

LEMMA GotoEffect ==
    ASSUME TypeOK, NEW k \in Controller, NEW ph \in {"call", "create", "mark", "wait"}, Goto(k, ph)
    PROVE  /\ phase' \in [Controller -> {"call", "create", "mark", "wait"}]
           /\ todo' = todo /\ phase'[k] = ph
           /\ \A j \in Controller \ {k} : phase'[j] = phase[j]
  BY DEF TypeOK, Goto

-----------------------------------------------------------------------------
(* Types and phases *)

LEMMA TypeInit == Init => TypeOK /\ PhaseFits
<1> SUFFICES ASSUME Init PROVE TypeOK /\ PhaseFits
  OBVIOUS
<1>1. todo \in [Controller -> Seq(Call)]
  BY DEF Init
<1>2. TypeOK
  BY <1>1 DEF Init, TypeOK, State, Where
<1>3. PhaseFits
  BY DEF Init, PhaseFits
<1> QED BY <1>2, <1>3

\* A controller between calls is in none, and the other is where it was.
LEMMA PhaseReturn ==
    ASSUME TypeOK, PhaseFits, NEW k \in Controller, todo[k] # <<>>, Return(k)
    PROVE  PhaseFits'
  BY ReturnEffect DEF PhaseFits, Srv

LEMMA PhaseGoto ==
    ASSUME TypeOK, PhaseFits, NEW k \in Controller, todo[k] # <<>>,
           NEW ph \in {"create", "mark", "wait"}, Goto(k, ph),
           todo[k][1].op = (IF ph = "wait" THEN "stop" ELSE "start"),
           ph = "mark" => Srv(k) = "ntp"
    PROVE  PhaseFits'
  BY GotoEffect DEF PhaseFits, Srv

\* The controllers' own steps keep the types and the phases.
LEMMA TypeController ==
    ASSUME TypeOK, PhaseFits, NEW k \in Controller, ControllerStep(k), UNCHANGED scenario
    PROVE  TypeOK' /\ PhaseFits'
<1> DEFINE ControlType == /\ todo' \in [Controller -> Seq(Call)]
                          /\ phase' \in [Controller -> {"call", "create", "mark", "wait"}]
<1>a. todo[k] # <<>> /\ Srv(k) \in Server
  BY HeadType DEF ControllerStep, StartSkipped, StartBegins, StartCreates, StartMarks,
                  StopSkipped, StopBegins, StopReturns, TellDhcp, At
<1>b. PICK s \in Server : s = Srv(k)
  BY <1>a
<1>c. ASSUME Return(k) PROVE ControlType /\ PhaseFits'
  BY <1>a, <1>c, ReturnEffect, PhaseReturn
<1>d. ASSUME NEW ph \in {"create", "mark", "wait"}, Goto(k, ph),
             todo[k][1].op = (IF ph = "wait" THEN "stop" ELSE "start"),
             ph = "mark" => s = "ntp"
      PROVE  ControlType /\ PhaseFits'
  BY <1>a, <1>b, <1>d, GotoEffect, PhaseGoto DEF TypeOK
<1>e. "created" \in Where /\ "STOPPED" \in State /\ "RUNNING" \in State /\ "ERROR" \in State
  BY DEF Where, State
<1> HIDE DEF ControlType
<1>f. ASSUME UNCHANGED <<members, task>>, enabled' = enabled, link' = link,
             dnsServerRunning' \in BOOLEAN, ControlType
      PROVE  TypeOK'
  BY <1>f DEF TypeOK, members, ControlType
<1>1. CASE StartSkipped(k)
  BY <1>1, <1>c, <1>f DEF StartSkipped, TypeOK
<1>2. CASE StartBegins(k)
  <2>1. At(k, "start", "call") /\ (Goto(k, "create") \/ Return(k))
    BY <1>2 DEF StartBegins
  <2>2. ControlType /\ PhaseFits'
    BY <2>1, <1>c, <1>d DEF At
  <2>3. /\ state' = state \/ state' = [state EXCEPT ![s] = "ERROR"]
        /\ stopRequested' = stopRequested \/ stopRequested' = [stopRequested EXCEPT ![s] = FALSE]
        /\ taskHandle' = taskHandle \/ taskHandle' = [taskHandle EXCEPT ![s] = NoTask]
        /\ socketOpen' = socketOpen \/ socketOpen' = [socketOpen EXCEPT ![s] = FALSE]
        /\ UNCHANGED <<task, enabled, link, dnsServerRunning>>
    BY <1>2, <1>b DEF StartBegins, members
  <2> QED BY <1>e, <2>2, <2>3 DEF TypeOK, ControlType
<1>3. CASE StartCreates(k)
  <2>1. At(k, "start", "create") /\ ((s = "ntp" /\ Goto(k, "mark")) \/ Return(k))
    BY <1>3, <1>b DEF StartCreates
  <2>2. ControlType /\ PhaseFits'
    BY <2>1, <1>c, <1>d DEF At
  <2>3. /\ stopRequested' = [stopRequested EXCEPT ![s] = FALSE]
        /\ \/ \E t \in Task : /\ task' = [task EXCEPT ![s][t] = "created"]
                              /\ taskHandle' = [taskHandle EXCEPT ![s] = t]
           \/ task' = task /\ taskHandle' = taskHandle
        /\ \/ state' = state
           \/ state' = [state EXCEPT ![s] = "RUNNING"]
           \/ state' = [state EXCEPT ![s] = "ERROR"]
        /\ UNCHANGED <<socketOpen, enabled, link, dnsServerRunning>>
    BY <1>3, <1>b, ScenarioType DEF StartCreates, StateWithoutTask
  <2>4. task' \in [Server -> [Task -> Where]]
    <3>1. \A t \in Task : [task EXCEPT ![s][t] = "created"] \in [Server -> [Task -> Where]]
      BY <1>e DEF TypeOK
    <3>2. ASSUME NEW t \in Task, task' = [task EXCEPT ![s][t] = "created"]
          PROVE  task' \in [Server -> [Task -> Where]]
      BY <3>1, <3>2
    <3>3. CASE task' = task
      BY <3>3 DEF TypeOK
    <3> QED BY <2>3, <3>2, <3>3
  <2>5. taskHandle' \in [Server -> Task \cup {NoTask}] /\ state' \in [Server -> State]
    BY <1>e, <2>3 DEF TypeOK
  <2> QED BY <2>2, <2>3, <2>4, <2>5 DEF TypeOK, ControlType
<1>4. CASE StartMarks(k)
  <2>1. state' \in [Server -> State]
    BY <1>4, <1>a, <1>e DEF StartMarks, TypeOK
  <2> QED BY <1>4, <1>c, <2>1 DEF StartMarks, TypeOK, ControlType
<1>5. CASE StopSkipped(k)
  BY <1>5, <1>c, <1>f DEF StopSkipped, TypeOK
<1>6. CASE StopBegins(k)
  <2>1. At(k, "stop", "call") /\ (Goto(k, "wait") \/ Return(k))
    BY <1>6 DEF StopBegins
  <2>2. ControlType /\ PhaseFits'
    BY <2>1, <1>c, <1>d DEF At
  <2>3. /\ state' = state \/ state' = [state EXCEPT ![s] = "STOPPED"]
        /\ stopRequested' = [stopRequested EXCEPT ![s] = TRUE]
        /\ socketOpen' = socketOpen \/ socketOpen' = [socketOpen EXCEPT ![s] = @ /\ s = "ntp"]
        /\ UNCHANGED <<task, taskHandle, enabled, link, dnsServerRunning>>
    BY <1>6, <1>b DEF StopBegins
  <2> QED BY <1>e, <2>2, <2>3 DEF TypeOK, ControlType
<1>7. CASE StopReturns(k)
  <2>1. /\ Return(k) /\ state' = [state EXCEPT ![s] = "STOPPED"]
        /\ taskHandle' = taskHandle \/ taskHandle' = [taskHandle EXCEPT ![s] = NoTask]
        /\ UNCHANGED <<stopRequested, socketOpen, task, enabled, link, dnsServerRunning>>
    BY <1>7, <1>b DEF StopReturns
  <2> QED BY <1>c, <1>e, <2>1 DEF TypeOK, ControlType
<1>8. CASE TellDhcp(k)
  BY <1>8, <1>c, <1>f DEF TellDhcp, DnsFlag, TypeOK
<1> QED BY <1>1, <1>2, <1>3, <1>4, <1>5, <1>6, <1>7, <1>8 DEF ControllerStep

\* A step of a task keeps the types; the controllers stand still.
LEMMA TypeTask ==
    ASSUME TypeOK, PhaseFits, NEW s \in Server, NEW t \in Task, TaskStep(s, t), UNCHANGED scenario
    PROVE  TypeOK' /\ PhaseFits'
<1>1. PhaseFits'
  BY DEF PhaseFits, TaskStep, TaskOpens, TaskTests, TaskResumes, TaskCloses, TaskEnds, control, Srv
<1>2. /\ \E w \in Where : task' = [task EXCEPT ![s][t] = w]
      /\ state' = state \/ state' = [state EXCEPT ![s] = "ERROR"]
      /\ \/ taskHandle' = taskHandle
         \/ taskHandle' = [taskHandle EXCEPT ![s] = NoTask]
      /\ socketOpen' = socketOpen \/ \E b \in BOOLEAN : socketOpen' = [socketOpen EXCEPT ![s] = b]
      /\ UNCHANGED <<stopRequested, enabled, link, dnsServerRunning, todo, phase>>
  BY DEF Where, Becomes, members, control,
         TaskStep, TaskOpens, TaskTests, TaskResumes, TaskCloses, TaskEnds
<1>3. task' \in [Server -> [Task -> Where]]
  BY <1>2 DEF TypeOK
<1>4. TypeOK'
  BY <1>2, <1>3 DEF TypeOK, State
<1> QED BY <1>1, <1>4

\* What sets a controller going: it is idle, so it is in no call.
LEMMA TypeStimulus ==
    ASSUME TypeOK, PhaseFits, UNCHANGED scenario,
           \/ onNetworkConnected \/ onNetworkDisconnected
           \/ \E s \in scenario.servers, on \in BOOLEAN : SaveSettings(s, on)
    PROVE  /\ TypeOK' /\ PhaseFits' /\ phase' = phase
           /\ \A k \in Controller : phase[k] # "call" => todo'[k] = todo[k]
<1>1. CASE onNetworkConnected
  <2> DEFINE q == Calls("start", {"dhcp", "dns"}) \o DnsCall("sync") \o Calls("start", {"ntp"})
  <2>1. q \in Seq(Call)
    BY CallsType
  <2> HIDE DEF q
  <2>2. todo' = [todo EXCEPT !["net"] = q] /\ todo["net"] = <<>>
    BY <1>1 DEF onNetworkConnected, Idle, q
  <2> QED BY <1>1, <2>1, <2>2 DEF onNetworkConnected, TypeOK, PhaseFits, members, Controller, Srv
<1>2. CASE onNetworkDisconnected
  <2> DEFINE q == Calls("stop", {"dhcp", "dns"}) \o DnsCall("clear") \o Calls("stop", {"ntp"})
  <2>1. q \in Seq(Call)
    BY CallsType
  <2> HIDE DEF q
  <2>2. todo' = [todo EXCEPT !["net"] = q] /\ todo["net"] = <<>>
    BY <1>2 DEF onNetworkDisconnected, Idle, q
  <2> QED BY <1>2, <2>1, <2>2 DEF onNetworkDisconnected, TypeOK, PhaseFits, members, Controller, Srv
<1>3. CASE \E s \in scenario.servers, on \in BOOLEAN : SaveSettings(s, on)
  <2> PICK s \in scenario.servers, on \in BOOLEAN : SaveSettings(s, on)
    BY <1>3
  <2> DEFINE op == IF on THEN "start" ELSE "stop"
             q  == Calls(op, {s}) \o (IF s = "dns" THEN DnsCall("sync") ELSE <<>>)
  <2>0. op \in {"start", "stop", "sync", "clear"}
    OBVIOUS
  <2> HIDE DEF op
  <2>1. q \in Seq(Call)
    BY <2>0, CallsType
  <2> HIDE DEF q
  <2>2. todo' = [todo EXCEPT !["web"] = q] /\ todo["web"] = <<>>
    BY DEF SaveSettings, Idle, q, op
  <2>3. enabled' \in [Server -> BOOLEAN]
    BY ScenarioType DEF SaveSettings, TypeOK
  <2>4. UNCHANGED <<members, task, link, dnsServerRunning, phase>>
    BY DEF SaveSettings
  <2> QED BY <2>1, <2>2, <2>3, <2>4 DEF TypeOK, PhaseFits, members, Controller, Srv
<1> QED BY <1>1, <1>2, <1>3

\* TypeOK and PhaseFits are preserved by every step.
LEMMA TypeStep == TypeOK /\ PhaseFits /\ [Next]_vars => TypeOK' /\ PhaseFits'
<1> SUFFICES ASSUME TypeOK, PhaseFits, [Next]_vars PROVE TypeOK' /\ PhaseFits'
  OBVIOUS
<1>1. CASE UNCHANGED vars
  BY <1>1 DEF vars, members, control, TypeOK, PhaseFits, Srv
<1>2. CASE Next
  BY <1>2, TypeStimulus, TypeController, TypeTask DEF Next
<1> QED BY <1>1, <1>2

-----------------------------------------------------------------------------
(* States, tasks and sockets *)

Matching == /\ RunningServed /\ MarkServed /\ OneCaller /\ CreateFindsNone
            /\ OneTask /\ NtpHandle /\ LoopHasSocket /\ NtpStopWaits

\* With the phases right, being in a call is a matter of the phase alone.
LEMMA InCallPhase ==
    ASSUME PhaseFits, NEW s \in Server
    PROVE  InCall(s) <=> \E k \in Controller : phase[k] # "call" /\ Srv(k) = s
  BY DEF PhaseFits, InCall

\* Steps that change no member, no task and no phase: what sets a controller
\* going, a skipped call, and telling the DHCP server.
LEMMA StillMatching ==
    ASSUME TypeOK, PhaseFits, PhaseFits', Matching, UNCHANGED <<scenario, members, task, phase>>,
           \A k \in Controller : phase[k] # "call" => todo'[k] = todo[k]
    PROVE  Matching'
<1>1. \A k \in Controller : phase[k] # "call" => Srv(k)' = Srv(k)
  BY DEF Srv
<1>2. \A s \in Server : InCall(s)' <=> InCall(s)
  <2> TAKE s \in Server
  <2>1. InCall(s) <=> \E k \in Controller : phase[k] # "call" /\ Srv(k) = s
    BY InCallPhase
  <2>2. InCall(s)' <=> \E k \in Controller : phase'[k] # "call" /\ Srv(k)' = s
    BY DEF PhaseFits, InCall
  <2> QED BY <1>1, <2>1, <2>2
<1> USE DEF members, Matching
<1>3. RunningServed' /\ MarkServed'
  BY <1>1 DEF RunningServed, MarkServed, Serving, Sure
<1>4. OneCaller'
  BY <1>1 DEF OneCaller
<1>5. CreateFindsNone'
  BY <1>1 DEF CreateFindsNone, Orderly, Live
<1>6. OneTask' /\ NtpHandle' /\ LoopHasSocket'
  BY DEF OneTask, NtpHandle, LoopHasSocket, Orderly, Live, Looping
<1>7. NtpStopWaits'
  BY <1>2 DEF NtpStopWaits, Orderly, Live, Quiet, Server
<1> QED BY <1>3, <1>4, <1>5, <1>6, <1>7

\* How a controller's step moves the controllers: only itself, and while it is
\* in a call it stays with the server of that call.
LEMMA ControllerFrame ==
    ASSUME TypeOK, PhaseFits, NEW k \in Controller, ControllerStep(k)
    PROVE  /\ \A j \in Controller : j # k => phase'[j] = phase[j] /\ Srv(j)' = Srv(j)
           /\ phase'[k] # "call" => Srv(k)' = Srv(k)
<1>1. todo[k] # <<>> /\ (Return(k) \/ \E ph \in {"create", "mark", "wait"} : Goto(k, ph))
  BY DEF ControllerStep, StartSkipped, StartBegins, StartCreates, StartMarks,
         StopSkipped, StopBegins, StopReturns, TellDhcp, At
<1> QED BY <1>1, ReturnEffect, GotoEffect DEF Srv

\* start() up to the creation of the task.
LEMMA MatchingStartBegins ==
    ASSUME TypeOK, PhaseFits, PhaseFits', Matching, UNCHANGED scenario,
           NEW k \in Controller, StartBegins(k)
    PROVE  Matching'
<1>1. PICK s \in Server : s = Srv(k)
  BY HeadType DEF StartBegins, At
<1>2. /\ phase[k] = "call" /\ phase'[k] \in {"create", "call"}
      /\ \A j \in Controller : j # k => phase'[j] = phase[j] /\ Srv(j)' = Srv(j)
      /\ phase'[k] # "call" => Srv(k)' = s
  <2>1. At(k, "start", "call") /\ (Goto(k, "create") \/ Return(k))
    BY DEF StartBegins
  <2> QED BY <1>1, <2>1, ControllerFrame, ReturnEffect, GotoEffect DEF At, ControllerStep
<1>3. /\ task' = task
      /\ scenario.serialized => ~InCall(s)
      /\ scenario.patient => Live(s) = {}
  BY <1>1 DEF StartBegins, Alone
<1>4. /\ \A r \in Server : stopRequested'[r] => stopRequested[r]
      /\ \A r \in Server : state'[r] = state[r] \/ state'[r] = "ERROR"
      /\ taskHandle'["ntp"] = taskHandle["ntp"]
      /\ \A r \in Server : r # s => /\ stopRequested'[r] = stopRequested[r]
                                    /\ socketOpen'[r] = socketOpen[r]
  <2>1. \/ /\ s = "dhcp"
           /\ stopRequested' = [stopRequested EXCEPT ![s] = FALSE]
           /\ taskHandle' = [taskHandle EXCEPT ![s] = NoTask]
           /\ socketOpen' = [socketOpen EXCEPT ![s] = FALSE]
           /\ state' = state \/ state' = [state EXCEPT ![s] = "ERROR"]
        \/ UNCHANGED members
        \/ /\ stopRequested' = [stopRequested EXCEPT ![s] = FALSE]
           /\ UNCHANGED <<state, taskHandle, socketOpen>>
    BY <1>1 DEF StartBegins
  <2> QED BY <2>1 DEF TypeOK, members, Server
<1>5. ASSUME NEW r \in Server, Serving(r) PROVE Serving(r)'
  BY <1>3, <1>4, <1>5 DEF Serving
<1> USE DEF Matching
<1>6. RunningServed'
  BY <1>2, <1>4, <1>5 DEF RunningServed, Sure
<1>7. MarkServed'
  BY <1>2, <1>5 DEF MarkServed, Sure, Server
<1>8. OneCaller'
  BY <1>1, <1>2, <1>3, InCallPhase DEF OneCaller
<1>9. CreateFindsNone'
  BY <1>1, <1>2, <1>3 DEF CreateFindsNone, Orderly, Live
<1>10. OneTask' /\ NtpHandle'
  BY <1>3, <1>4 DEF OneTask, NtpHandle, Orderly, Live
<1>11. LoopHasSocket'
  BY <1>3, <1>4 DEF LoopHasSocket, Orderly, Looping, Live
<1>12. NtpStopWaits'
  <2>1. InCall("ntp") => InCall("ntp")'
    BY <1>2 DEF InCall, PhaseFits
  <2> QED BY <1>3, <1>4, <2>1 DEF NtpStopWaits, Orderly, Quiet, Live, Server
<1> QED BY <1>6, <1>7, <1>8, <1>9, <1>10, <1>11, <1>12

\* The task is created, or cannot be.
LEMMA MatchingStartCreates ==
    ASSUME TypeOK, PhaseFits, PhaseFits', Matching, UNCHANGED scenario,
           NEW k \in Controller, StartCreates(k)
    PROVE  Matching'
<1>1. PICK s \in Server : s = Srv(k)
  BY HeadType DEF StartCreates, At
<1>2. /\ phase[k] = "create" /\ phase'[k] \in {"mark", "call"}
      /\ \A j \in Controller : j # k => phase'[j] = phase[j] /\ Srv(j)' = Srv(j)
      /\ phase'[k] # "call" => Srv(k)' = s
  <2>1. At(k, "start", "create") /\ (Goto(k, "mark") \/ Return(k))
    BY DEF StartCreates
  <2> QED BY <1>1, <2>1, ControllerFrame, ReturnEffect, GotoEffect DEF At, ControllerStep
<1>3. /\ ~stopRequested'[s] /\ socketOpen' = socketOpen
      /\ \A r \in Server : r # s => stopRequested'[r] = stopRequested[r]
  BY <1>1 DEF StartCreates, TypeOK
<1>4. Orderly => Live(s) = {}
  BY <1>1, <1>2 DEF Matching, CreateFindsNone
<1>5. Orderly => \A j \in Controller : j # k /\ phase'[j] # "call" => Srv(j)' # s
  BY <1>1, <1>2 DEF Matching, OneCaller, Orderly
<1>6. OneCaller'
  BY <1>1, <1>2 DEF Matching, OneCaller
<1>7. ASSUME s # "ntp" PROVE InCall("ntp") => InCall("ntp")'
  BY <1>1, <1>2, <1>7 DEF InCall, PhaseFits
<1> USE DEF Matching
<1>8. ASSUME NEW t \in Task \ Live(s),
             task' = [task EXCEPT ![s][t] = "created"],
             taskHandle' = [taskHandle EXCEPT ![s] = t],
             IF s = "ntp" THEN phase'[k] = "mark" /\ state' = state
                          ELSE phase'[k] = "call" /\ state' = [state EXCEPT ![s] = "RUNNING"]
      PROVE  Matching'
  <2>1. /\ task'[s][t] = "created" /\ taskHandle'[s] = t
        /\ \A u \in Task : u # t => task'[s][u] = task[s][u]
        /\ \A r \in Server : r # s => task'[r] = task[r] /\ taskHandle'[r] = taskHandle[r]
                                                         /\ state'[r] = state[r]
    BY <1>8 DEF TypeOK
  <2>2. Serving(s)'
    BY <1>3, <2>1 DEF Serving
  <2>3. \A r \in Server : Serving(r) => Serving(r)'
    BY <1>3, <2>1, <2>2 DEF Serving
  <2>4. RunningServed'
    BY <1>2, <2>1, <2>2, <2>3 DEF RunningServed, Sure
  <2>5. MarkServed'
    BY <1>2, <1>8, <2>2, <2>3 DEF MarkServed, Sure, Server
  <2>6. \A r \in Server : r # s => Live(r)' = Live(r)
    BY <2>1 DEF Live
  <2>7. Orderly => Live(s)' = {t}
    BY <1>4, <2>1 DEF Live
  <2>8. CreateFindsNone'
    <3> SUFFICES ASSUME Orderly', NEW j \in Controller, phase'[j] = "create" PROVE Live(Srv(j))' = {}
      BY DEF CreateFindsNone
    <3>1. j # k /\ Srv(j)' = Srv(j) /\ phase[j] = "create" /\ Srv(j) # s
      BY <1>2, <1>5 DEF Orderly
    <3>2. Srv(j) \in Server
      BY <3>1, HeadType DEF PhaseFits
    <3> QED BY <2>6, <3>1, <3>2 DEF CreateFindsNone, Orderly, Live
  <2>9. OneTask'
    BY <2>6, <2>7 DEF OneTask, Orderly
  <2>10. NtpHandle'
    BY <2>1, <2>6, <2>7 DEF NtpHandle, Orderly, Server
  <2>11. LoopHasSocket'
    <3>1. \A r \in Server : r # s => Looping(r)' = Looping(r)
      BY <2>1 DEF Looping
    <3>2. Orderly => Looping(s)' = {}
      BY <1>4, <2>1 DEF Live, Looping
    <3> QED BY <1>3, <3>1, <3>2 DEF LoopHasSocket, Orderly
  <2>12. NtpStopWaits'
    <3>1. CASE s = "ntp"
      <4>1. InCall("ntp")'
        BY <1>2, <1>8, <3>1 DEF InCall, PhaseFits
      <4> QED BY <4>1 DEF NtpStopWaits, Quiet
    <3>2. CASE s # "ntp"
      BY <1>7, <2>1, <2>6, <3>2 DEF NtpStopWaits, Orderly, Quiet, Server
    <3> QED BY <3>1, <3>2
  <2> QED BY <1>6, <2>4, <2>5, <2>8, <2>9, <2>10, <2>11, <2>12
<1>9. ASSUME UNCHANGED <<task, taskHandle>>, state' = [state EXCEPT ![s] = "ERROR"],
             phase'[k] = "call"
      PROVE  Matching'
  <2>1. state'[s] = "ERROR" /\ \A r \in Server : r # s => state'[r] = state[r]
    BY <1>9 DEF TypeOK
  <2>2. \A r \in Server : Serving(r) => Serving(r)'
    BY <1>3, <1>9 DEF Serving
  <2>3. RunningServed'
    BY <1>2, <2>1, <2>2 DEF RunningServed, Sure
  <2>4. MarkServed'
    BY <1>2, <1>9, <2>2 DEF MarkServed, Sure, Server
  <2>5. CreateFindsNone'
    BY <1>2, <1>9 DEF CreateFindsNone, Orderly, Live
  <2>6. OneTask' /\ NtpHandle'
    BY <1>9 DEF OneTask, NtpHandle, Orderly, Live
  <2>7. LoopHasSocket'
    BY <1>3, <1>4, <1>9 DEF LoopHasSocket, Orderly, Looping, Live
  <2>8. NtpStopWaits'
    BY <1>7, <1>9, <2>1 DEF NtpStopWaits, Orderly, Quiet, Live, Server
  <2> QED BY <1>6, <2>3, <2>4, <2>5, <2>6, <2>7, <2>8
<1>10. todo[k] # <<>>
  BY DEF StartCreates, At
<1>11. ASSUME Return(k) PROVE phase'[k] = "call"
  BY <1>10, <1>11, ReturnEffect
<1>12. ASSUME Goto(k, "mark") PROVE phase'[k] = "mark"
  BY <1>12, GotoEffect
<1> QED BY <1>1, <1>8, <1>9, <1>11, <1>12, ScenarioType DEF StartCreates, StateWithoutTask

\* The NTP server's start() says RUNNING.
LEMMA MatchingStartMarks ==
    ASSUME TypeOK, PhaseFits, PhaseFits', Matching, UNCHANGED scenario,
           NEW k \in Controller, StartMarks(k)
    PROVE  Matching'
<1>1. /\ todo[k] # <<>> /\ phase[k] = "mark" /\ Srv(k) = "ntp" /\ Return(k)
      /\ UNCHANGED <<stopRequested, taskHandle, socketOpen, task>>
  BY DEF StartMarks, At, PhaseFits
<1>2. /\ phase'[k] = "call"
      /\ \A j \in Controller : j # k => phase'[j] = phase[j] /\ Srv(j)' = Srv(j)
  BY <1>1, ReturnEffect DEF Srv
<1>3. state'["ntp"] = "RUNNING" /\ \A r \in Server : r # "ntp" => state'[r] = state[r]
  BY <1>1 DEF StartMarks, TypeOK, Server
<1> USE DEF Matching
<1>4. \A r \in Server : Serving(r)' <=> Serving(r)
  BY <1>1 DEF Serving
<1>5. RunningServed'
  BY <1>1, <1>2, <1>3, <1>4 DEF RunningServed, MarkServed, Sure, Server
<1>6. MarkServed' /\ OneCaller'
  BY <1>2, <1>4 DEF MarkServed, OneCaller, Sure, Server
<1>7. CreateFindsNone'
  BY <1>1, <1>2 DEF CreateFindsNone, Orderly, Live
<1>8. OneTask' /\ NtpHandle' /\ LoopHasSocket'
  BY <1>1 DEF OneTask, NtpHandle, LoopHasSocket, Orderly, Live, Looping
<1>9. NtpStopWaits'
  BY <1>3 DEF NtpStopWaits
<1> QED BY <1>5, <1>6, <1>7, <1>8, <1>9

\* stop() up to its wait.
LEMMA MatchingStopBegins ==
    ASSUME TypeOK, PhaseFits, PhaseFits', Matching, UNCHANGED scenario,
           NEW k \in Controller, StopBegins(k)
    PROVE  Matching'
<1>1. PICK s \in Server : s = Srv(k)
  BY HeadType DEF StopBegins, At
<1>2. /\ phase[k] = "call" /\ phase'[k] \in {"wait", "call"}
      /\ \A j \in Controller : j # k => phase'[j] = phase[j] /\ Srv(j)' = Srv(j)
      /\ phase'[k] # "call" => Srv(k)' = s
  <2>1. At(k, "stop", "call") /\ (Goto(k, "wait") \/ Return(k))
    BY DEF StopBegins
  <2> QED BY <1>1, <2>1, ControllerFrame, ReturnEffect, GotoEffect DEF At, ControllerStep
<1>3. /\ task' = task /\ taskHandle' = taskHandle
      /\ scenario.serialized => ~InCall(s)
      /\ stopRequested'[s]
      /\ \A r \in Server : r # s => stopRequested'[r] = stopRequested[r]
  BY <1>1 DEF StopBegins, Alone, TypeOK
<1>4. \/ phase'[k] = "wait" /\ state' = state /\ socketOpen' = [socketOpen EXCEPT ![s] = @ /\ s = "ntp"]
      \/ s # "ntp" /\ state' = [state EXCEPT ![s] = "STOPPED"] /\ socketOpen' = socketOpen
  <2>1. Goto(k, "wait") => phase'[k] = "wait"
    BY GotoEffect
  <2> QED BY <1>1, <2>1 DEF StopBegins
<1>5. /\ \A r \in Server : r # s => state'[r] = state[r] /\ socketOpen'[r] = socketOpen[r]
      /\ s = "ntp" => state'[s] = state[s] /\ phase'[k] = "wait"
      /\ state'[s] = "RUNNING" => phase'[k] = "wait"
  BY <1>4 DEF TypeOK
<1>6. \A r \in Server : r # s => (Serving(r)' <=> Serving(r))
  BY <1>3 DEF Serving
<1> USE DEF Matching
<1>7. RunningServed'
  <2> SUFFICES ASSUME NEW r \in Server, Sure(r)', state'[r] = "RUNNING"
               PROVE  Serving(r)' \/ \E j \in Controller : phase'[j] = "wait" /\ Srv(j)' = r
    BY DEF RunningServed
  <2>1. CASE r = s
    BY <1>2, <1>5, <2>1
  <2>2. CASE r # s
    BY <1>2, <1>5, <1>6, <2>2 DEF RunningServed, Sure
  <2> QED BY <2>1, <2>2
<1>8. MarkServed'
  <2> SUFFICES ASSUME Sure("ntp")', NEW j \in Controller, phase'[j] = "mark" PROVE Serving("ntp")'
    BY DEF MarkServed
  <2>1. j # k /\ phase[j] = "mark" /\ Sure("ntp") /\ Srv(j) = "ntp"
    BY <1>2 DEF Sure, PhaseFits
  <2>2. s # "ntp"
    BY <1>3, <2>1, InCallPhase DEF Sure
  <2> QED BY <1>6, <2>1, <2>2 DEF MarkServed, Server
<1>9. OneCaller'
  BY <1>1, <1>2, <1>3, InCallPhase DEF OneCaller
<1>10. CreateFindsNone'
  BY <1>2, <1>3 DEF CreateFindsNone, Orderly, Live
<1>11. OneTask' /\ NtpHandle'
  BY <1>3 DEF OneTask, NtpHandle, Orderly, Live
<1>12. LoopHasSocket'
  BY <1>3, <1>5 DEF LoopHasSocket, Orderly, Looping
<1>13. NtpStopWaits'
  <2>1. CASE s = "ntp"
    <3>1. InCall("ntp")'
      BY <1>2, <1>5, <2>1 DEF InCall, PhaseFits
    <3> QED BY <3>1 DEF NtpStopWaits, Quiet
  <2>2. CASE s # "ntp"
    <3>1. InCall("ntp") => InCall("ntp")'
      BY <1>2 DEF InCall, PhaseFits
    <3> QED BY <1>3, <1>5, <2>2, <3>1 DEF NtpStopWaits, Orderly, Quiet, Live, Server
  <2> QED BY <2>1, <2>2
<1> QED BY <1>7, <1>8, <1>9, <1>10, <1>11, <1>12, <1>13

\* The rest of stop().
LEMMA MatchingStopReturns ==
    ASSUME TypeOK, PhaseFits, PhaseFits', Matching, UNCHANGED scenario,
           NEW k \in Controller, StopReturns(k)
    PROVE  Matching'
<1>1. PICK s \in Server : s = Srv(k)
  BY HeadType DEF StopReturns, At
<1>2. /\ phase[k] = "wait" /\ phase'[k] = "call"
      /\ \A j \in Controller : j # k => phase'[j] = phase[j] /\ Srv(j)' = Srv(j)
  BY ReturnEffect DEF StopReturns, At, Srv
<1>3. /\ UNCHANGED <<stopRequested, socketOpen, task>>
      /\ state'[s] = "STOPPED" /\ taskHandle'["ntp"] = taskHandle["ntp"]
      /\ \A r \in Server : r # s => state'[r] = state[r]
      /\ s = "ntp" => taskHandle["ntp"] = NoTask \/ scenario.ntpLate
  BY <1>1 DEF StopReturns, StopWaitOver, TypeOK, Server
<1>4. \A r \in Server : Serving(r)' <=> Serving(r)
  BY <1>3 DEF Serving
<1> USE DEF Matching
<1>5. RunningServed'
  <2> SUFFICES ASSUME NEW r \in Server, Sure(r)', state'[r] = "RUNNING"
               PROVE  Serving(r)' \/ \E j \in Controller : phase'[j] = "wait" /\ Srv(j)' = r
    BY DEF RunningServed
  <2>1. r # s /\ state[r] = "RUNNING" /\ Sure(r)
    BY <1>3 DEF Sure
  <2> QED BY <1>1, <1>2, <1>4, <2>1 DEF RunningServed
<1>6. MarkServed' /\ OneCaller'
  BY <1>2, <1>4 DEF MarkServed, OneCaller, Sure, Server
<1>7. CreateFindsNone'
  BY <1>2, <1>3 DEF CreateFindsNone, Orderly, Live
<1>8. OneTask' /\ NtpHandle' /\ LoopHasSocket'
  BY <1>3 DEF OneTask, NtpHandle, LoopHasSocket, Orderly, Live, Looping
<1>9. NtpStopWaits'
  <2>1. CASE s = "ntp"
    <3>1. ASSUME Orderly, ~scenario.ntpLate PROVE Live("ntp") = {}
      BY <1>3, <2>1, <3>1, ServicesAssumption DEF NtpHandle, Live
    <3> QED BY <1>3, <3>1 DEF NtpStopWaits, Orderly, Live
  <2>2. CASE s # "ntp"
    <3>1. InCall("ntp") => InCall("ntp")'
      BY <1>1, <1>2, <2>2 DEF InCall, PhaseFits
    <3> QED BY <1>3, <2>2, <3>1 DEF NtpStopWaits, Orderly, Quiet, Live, Server
  <2> QED BY <2>1, <2>2
<1> QED BY <1>5, <1>6, <1>7, <1>8, <1>9

\* A step of the task t of the server s: what is left to show of it is how the
\* member it writes and the socket fare.
LEMMA MatchingTask ==
    ASSUME TypeOK, PhaseFits, PhaseFits', Matching, UNCHANGED scenario,
           NEW s \in Server, NEW t \in Task, TaskStep(s, t)
    PROVE  Matching'
<1> DEFINE w == task'[s][t]
<1>1. /\ UNCHANGED <<stopRequested, todo, phase>>
      /\ \E v \in Where : task' = [task EXCEPT ![s][t] = v]
  BY DEF TaskStep, TaskOpens, TaskTests, TaskResumes, TaskCloses, TaskEnds, Becomes,
         members, control, Where
<1>2. /\ \A u \in Task : u # t => task'[s][u] = task[s][u]
      /\ \A r \in Server : r # s => task'[r] = task[r]
  BY <1>1 DEF TypeOK
<1>3. /\ task[s][t] # "none"
      /\ \/ /\ task[s][t] = "created" /\ w = "test"
            /\ UNCHANGED <<state, taskHandle>> /\ socketOpen' = [socketOpen EXCEPT ![s] = TRUE]
         \/ /\ task[s][t] = "created" /\ w = "ending" /\ scenario.openFails
            /\ state' = [state EXCEPT ![s] = "ERROR"] /\ UNCHANGED taskHandle
            /\ socketOpen' = [socketOpen EXCEPT ![s] = FALSE]
         \/ /\ task[s][t] = "test" /\ w = (IF stopRequested[s] THEN "closing" ELSE "blocked")
            /\ UNCHANGED <<state, taskHandle, socketOpen>>
         \/ /\ task[s][t] = "blocked" /\ w = "test"
            /\ UNCHANGED <<state, taskHandle, socketOpen>>
         \/ /\ task[s][t] = "closing" /\ w = "ending"
            /\ UNCHANGED <<state, taskHandle>> /\ socketOpen' = [socketOpen EXCEPT ![s] = FALSE]
         \/ /\ task[s][t] = "ending" /\ w = "none" /\ UNCHANGED socketOpen
            /\ state' = IF s = "dhcp" THEN [state EXCEPT ![s] = "ERROR"] ELSE state
            /\ taskHandle' = IF s = "dns" THEN taskHandle ELSE [taskHandle EXCEPT ![s] = NoTask]
  BY DEF TaskStep, TaskOpens, TaskTests, TaskResumes, TaskCloses, TaskEnds, Becomes,
         members, TypeOK, Where
<1>4. \A k \in Controller : Srv(k)' = Srv(k)
  BY <1>1 DEF Srv
<1>5. /\ \A r \in Server : state'[r] = state[r] \/ state'[r] = "ERROR"
      /\ \A r \in Server : r # s => /\ state'[r] = state[r] /\ taskHandle'[r] = taskHandle[r]
                                    /\ socketOpen'[r] = socketOpen[r]
  BY <1>3 DEF TypeOK
<1>6. \A r \in Server : Live(r)' \subseteq Live(r) /\ (r # s => Live(r)' = Live(r))
  BY <1>2, <1>3 DEF Live
<1>7. \A r \in Server : r # s => (Serving(r)' <=> Serving(r)) /\ Looping(r)' = Looping(r)
  BY <1>1, <1>2 DEF Serving, Looping
<1>8. ASSUME Serving(s) PROVE Serving(s)' \/ (scenario.openFails /\ state'[s] = "ERROR")
  <2>1. PICK u \in Task : task[s][u] \in {"created", "test", "blocked"}
    BY <1>8 DEF Serving
  <2>2. CASE u = t
    BY <1>1, <1>3, <1>8, <2>1, <2>2 DEF Serving, TypeOK
  <2>3. CASE u # t
    BY <1>1, <1>2, <1>8, <2>1, <2>3 DEF Serving
  <2> QED BY <2>2, <2>3
<1> USE DEF Matching
<1>9. RunningServed'
  <2> SUFFICES ASSUME NEW r \in Server, Sure(r)', state'[r] = "RUNNING"
               PROVE  Serving(r)' \/ \E j \in Controller : phase'[j] = "wait" /\ Srv(j)' = r
    BY DEF RunningServed
  <2>1. Sure(r) /\ state[r] = "RUNNING"
    BY <1>5 DEF Sure
  <2>2. Serving(r) => Serving(r)'
    BY <1>7, <1>8
  <2> QED BY <1>1, <1>4, <2>1, <2>2 DEF RunningServed
<1>10. MarkServed'
  <2> SUFFICES ASSUME Sure("ntp")', NEW j \in Controller, phase'[j] = "mark" PROVE Serving("ntp")'
    BY DEF MarkServed
  <2>1. Serving("ntp") /\ ~scenario.openFails
    BY <1>1 DEF MarkServed, Sure
  <2> QED BY <1>7, <1>8, <2>1 DEF Server
<1>11. OneCaller'
  BY <1>1, <1>4 DEF OneCaller
<1>12. CreateFindsNone'
  <2> SUFFICES ASSUME Orderly', NEW j \in Controller, phase'[j] = "create" PROVE Live(Srv(j))' = {}
    BY DEF CreateFindsNone
  <2>1. Live(Srv(j)) = {} /\ Srv(j) \in Server /\ Srv(j)' = Srv(j)
    BY <1>1, <1>4, HeadType DEF CreateFindsNone, Orderly, PhaseFits
  <2> QED BY <1>6, <2>1 DEF Live
<1>13. OneTask'
  BY <1>6 DEF OneTask, Orderly
<1>14. Orderly => \A u \in Task : u # t => task[s][u] = "none"
  BY <1>3 DEF OneTask, Live
<1>15. NtpHandle'
  <2> SUFFICES ASSUME Orderly', NEW u \in Live("ntp")' PROVE taskHandle'["ntp"] = u
    BY DEF NtpHandle
  <2>1. u \in Live("ntp") /\ u \in Task /\ taskHandle["ntp"] = u
    BY <1>6 DEF NtpHandle, Orderly, Live, Server
  <2>2. CASE s # "ntp"
    BY <1>5, <2>1, <2>2 DEF Server
  <2>3. CASE s = "ntp"
    BY <1>3, <1>14, <2>1, <2>3 DEF Live, Orderly
  <2> QED BY <2>2, <2>3
<1>16. LoopHasSocket'
  <2> SUFFICES ASSUME Orderly', NEW r \in Server, Looping(r)' # {}, ~stopRequested'[r]
               PROVE  socketOpen'[r]
    BY DEF LoopHasSocket
  <2>1. CASE r # s
    BY <1>1, <1>5, <1>7, <2>1 DEF LoopHasSocket, Orderly
  <2>2. CASE r = s
    <3>1. w \in {"test", "blocked"}
      BY <1>2, <1>14, <2>2 DEF Looping, Orderly
    <3>2. socketOpen'[s] \/ (socketOpen' = socketOpen /\ t \in Looping(s))
      BY <1>3, <3>1 DEF TypeOK, Looping
    <3> QED BY <1>1, <2>2, <3>2 DEF LoopHasSocket, Orderly
  <2> QED BY <2>1, <2>2
<1>17. NtpStopWaits'
  <2>1. InCall("ntp")' <=> InCall("ntp")
    BY <1>1, <1>4 DEF InCall
  <2>2. Live("ntp")' \subseteq Live("ntp") /\ (state'["ntp"] = "STOPPED" => state["ntp"] = "STOPPED")
    BY <1>5, <1>6 DEF Server
  <2> QED BY <2>1, <2>2 DEF NtpStopWaits, Orderly, Quiet
<1> QED BY <1>9, <1>10, <1>11, <1>12, <1>13, <1>15, <1>16, <1>17

\* Every step keeps the story straight.
LEMMA MatchingStep == TypeOK /\ PhaseFits /\ Matching /\ [Next]_vars => Matching'
<1> SUFFICES ASSUME TypeOK, PhaseFits, Matching, [Next]_vars PROVE Matching'
  OBVIOUS
<1>0. PhaseFits'
  BY TypeStep
<1>1. CASE UNCHANGED vars
  BY <1>0, <1>1, StillMatching DEF vars, control, members
<1>2. CASE Next
  <2>0. UNCHANGED scenario
    BY <1>2 DEF Next
  <2>1. CASE \/ onNetworkConnected \/ onNetworkDisconnected
             \/ \E s \in scenario.servers, on \in BOOLEAN : SaveSettings(s, on)
    <3>1. UNCHANGED <<members, task>>
      BY <2>1 DEF onNetworkConnected, onNetworkDisconnected, SaveSettings
    <3> QED BY <1>0, <2>0, <2>1, <3>1, TypeStimulus, StillMatching
  <2>2. ASSUME NEW k \in Controller, ControllerStep(k) PROVE Matching'
    <3>1. CASE StartSkipped(k) \/ StopSkipped(k) \/ TellDhcp(k)
      <4>1. todo[k] # <<>> /\ phase[k] = "call" /\ Return(k) /\ UNCHANGED <<members, task>>
        BY <3>1 DEF StartSkipped, StopSkipped, TellDhcp, At, PhaseFits
      <4>2. phase' = phase /\ \A j \in Controller : phase[j] # "call" => todo'[j] = todo[j]
        BY <4>1 DEF Return, TypeOK
      <4> QED BY <1>0, <2>0, <4>1, <4>2, StillMatching
    <3> QED BY <1>0, <2>0, <2>2, <3>1, MatchingStartBegins, MatchingStartCreates,
               MatchingStartMarks, MatchingStopBegins, MatchingStopReturns DEF ControllerStep
  <2>3. ASSUME NEW s \in Server, NEW t \in Task, TaskStep(s, t) PROVE Matching'
    BY <1>0, <2>0, <2>3, MatchingTask
  <2> QED BY <1>2, <2>1, <2>2, <2>3 DEF Next
<1> QED BY <1>1, <1>2

LEMMA MatchingInit == Init => Matching
<1> SUFFICES ASSUME Init PROVE Matching
  OBVIOUS
<1>1. /\ \A s \in Server : state[s] = "STOPPED" /\ Live(s) = {} /\ Looping(s) = {}
      /\ \A k \in Controller : phase[k] = "call"
  BY DEF Init, Live, Looping
<1> QED BY <1>1 DEF Matching, RunningServed, MarkServed, OneCaller, CreateFindsNone, OneTask,
                    NtpHandle, LoopHasSocket, NtpStopWaits, Server

\* A server that reports RUNNING and is in nobody's call is served by a task.
LEMMA MatchingSuffices == TypeOK /\ PhaseFits /\ Matching => TasksMatchStates
<1> SUFFICES ASSUME TypeOK, PhaseFits, Matching PROVE RunningHasTask
  BY DEF Matching, TasksMatchStates
<1> SUFFICES ASSUME NEW s \in Server, state[s] = "RUNNING", Quiet(s), Sure(s) PROVE Live(s) # {}
  BY DEF RunningHasTask, Sure
<1>1. Serving(s) \/ \E k \in Controller : phase[k] = "wait" /\ Srv(k) = s
  BY DEF Matching, RunningServed
<1>2. Serving(s)
  BY <1>1, InCallPhase DEF Quiet
<1> QED BY <1>2 DEF Serving, Live

\* start(), stop() and serverTask() keep a server's state, its task and its
\* socket in step, for any number of tasks and whatever the scenario lets fail.
THEOREM ServersMatchTheirTasks == Spec => []TasksMatchStates
<1>1. Init => TypeOK /\ PhaseFits /\ Matching
  BY TypeInit, MatchingInit
<1>2. TypeOK /\ PhaseFits /\ Matching /\ [Next]_vars => (TypeOK /\ PhaseFits /\ Matching)'
  BY TypeStep, MatchingStep
<1> QED BY <1>1, <1>2, MatchingSuffices, PTL DEF Spec

-----------------------------------------------------------------------------
(* What DHCP clients are told about the DNS server *)

Tell     == {"sync", "clear"}
Tells(q) == \E i \in 1 .. Len(q) : q[i].op \in Tell

\* Whoever starts or stops the DNS server tells the DHCP server later on.
Followed(q) ==
    \A i \in 1 .. Len(q) : q[i].s = "dns" /\ q[i].op \notin Tell =>
        \E j \in 1 .. Len(q) : i < j /\ q[j].op \in Tell

AllFollowed == \A k \in Controller : Followed(todo[k])

\* A stale flag is about to be corrected.
DnsTold ==
    ~scenario.openFails /\ dnsServerRunning =>
        state["dns"] = "RUNNING" \/ \E k \in Controller : Tells(todo[k])

\* Two followed sequences make one.
LEMMA FollowedConcat ==
    ASSUME NEW p \in Seq(Call), NEW q \in Seq(Call), Followed(p), Followed(q)
    PROVE  Followed(p \o q)
<1>1. /\ Len(p) \in Nat /\ Len(q) \in Nat /\ Len(p \o q) = Len(p) + Len(q)
      /\ \A i \in 1 .. Len(p) : (p \o q)[i] = p[i]
      /\ \A i \in 1 .. Len(q) : (p \o q)[Len(p) + i] = q[i]
  <2>1. Len(p) \in Nat /\ Len(q) \in Nat
    BY LenProperties
  <2> QED BY <2>1, ConcatProperties
<1> DEFINE c == p \o q
<1> HIDE DEF c
<1> SUFFICES ASSUME NEW i \in 1 .. Len(c), c[i].s = "dns", c[i].op \notin Tell
             PROVE  \E j \in 1 .. Len(c) : i < j /\ c[j].op \in Tell
  BY DEF Followed, c
<1>2. CASE i <= Len(p)
  <2>1. PICK j \in 1 .. Len(p) : i < j /\ p[j].op \in Tell
    BY <1>1, <1>2 DEF Followed, c
  <2>2. j \in 1 .. Len(c) /\ c[j] = p[j]
    BY <1>1, <2>1 DEF c
  <2> QED BY <2>1, <2>2
<1>3. CASE i > Len(p)
  <2>1. i - Len(p) \in 1 .. Len(q) /\ c[i] = q[i - Len(p)]
    BY <1>1, <1>3 DEF c
  <2>2. PICK j \in 1 .. Len(q) : i - Len(p) < j /\ q[j].op \in Tell
    BY <2>1 DEF Followed
  <2>3. Len(p) + j \in 1 .. Len(c) /\ c[Len(p) + j] = q[j] /\ i < Len(p) + j
    BY <1>1, <2>1, <2>2 DEF c
  <2> QED BY <2>2, <2>3
<1>4. i \in Nat /\ Len(p) \in Nat
  BY <1>1 DEF c
<1> QED BY <1>2, <1>3, <1>4

\* Whatever comes before it, a last call that tells the DHCP server will do.
LEMMA FollowedTell ==
    ASSUME NEW p \in Seq(Call), NEW op \in Tell, "dns" \in scenario.servers
    PROVE  Followed(p \o DnsCall(op))
<1> DEFINE e == [op |-> op, s |-> "dns"]
           c == p \o <<e>>
<1>0. e \in Call /\ <<e>> \in Seq(Call)
  BY DEF Call, Tell, Server
<1>1. DnsCall(op) = <<e>>
  BY DEF DnsCall
<1>2. Len(c) = Len(p) + 1 /\ Len(p) \in Nat /\ c[Len(p) + 1] = e
  BY <1>0
<1>3. e.op \in Tell
  OBVIOUS
<1> HIDE DEF c, e
<1>4. Followed(c)
  BY <1>2, <1>3 DEF Followed
<1> QED BY <1>1, <1>4 DEF c, e

\* Calls that leave the DNS server alone need not be followed.
LEMMA FollowedOthers ==
    ASSUME NEW op \in {"start", "stop"}, NEW S, "dns" \notin S \cap scenario.servers
    PROVE  Followed(Calls(op, S))
<1> DEFINE one(s) == IF s \in S \cap scenario.servers THEN <<[op |-> op, s |-> s]>> ELSE <<>>
<1>1. ASSUME NEW s \in Server PROVE one(s) \in Seq(Call) /\ Followed(one(s))
  <2>1. [op |-> op, s |-> s] \in Call
    BY DEF Call
  <2>2. <<[op |-> op, s |-> s]>> \in Seq(Call) /\ <<>> \in Seq(Call)
    BY <2>1
  <2>3. Followed(<<>>)
    BY DEF Followed
  <2>4. s # "dns" => Followed(<<[op |-> op, s |-> s]>>)
    BY DEF Followed
  <2> QED BY <2>2, <2>3, <2>4
<1>2. Calls(op, S) = one("dhcp") \o one("dns") \o one("ntp")
  BY DEF Calls
<1> HIDE DEF one
<1>3. /\ one("dhcp") \in Seq(Call) /\ one("dns") \in Seq(Call) /\ one("ntp") \in Seq(Call)
      /\ Followed(one("dhcp")) /\ Followed(one("dns")) /\ Followed(one("ntp"))
  BY <1>1 DEF Server
<1>4. one("dhcp") \o one("dns") \in Seq(Call) /\ Followed(one("dhcp") \o one("dns"))
  BY <1>3, FollowedConcat
<1> QED BY <1>2, <1>3, <1>4, FollowedConcat

\* Dropping a call: what follows is still followed, and what the dropped call
\* owes the DHCP server is still to come.
LEMMA FollowedTail ==
    ASSUME NEW q \in Seq(Call), q # <<>>, Followed(q)
    PROVE  /\ Followed(Tail(q))
           /\ q[1].op \notin Tell /\ (Tells(q) \/ q[1].s = "dns") => Tells(Tail(q))
<1> DEFINE r == Tail(q)
<1>1. /\ Len(q) \in Nat \ {0} /\ Len(r) = Len(q) - 1
      /\ \A i \in 1 .. Len(r) : r[i] = q[i + 1]
  BY EmptySeq, LenProperties, HeadTailProperties
<1> HIDE DEF r
<1>2. \A j \in 1 .. Len(q) : j # 1 => j - 1 \in 1 .. Len(r) /\ r[j - 1] = q[j]
  BY <1>1
<1>3. Followed(r)
  <2> SUFFICES ASSUME NEW i \in 1 .. Len(r), r[i].s = "dns", r[i].op \notin Tell
               PROVE  \E j \in 1 .. Len(r) : i < j /\ r[j].op \in Tell
    BY DEF Followed
  <2>1. PICK j \in 1 .. Len(q) : i + 1 < j /\ q[j].op \in Tell
    BY <1>1 DEF Followed
  <2>2. j # 1 /\ i < j - 1
    BY <1>1, <2>1
  <2> QED BY <1>2, <2>1, <2>2
<1>4. ASSUME q[1].op \notin Tell, Tells(q) \/ q[1].s = "dns" PROVE Tells(r)
  <2>1. PICK j \in 1 .. Len(q) : j # 1 /\ q[j].op \in Tell
    BY <1>1, <1>4 DEF Followed, Tells
  <2> QED BY <1>2, <2>1 DEF Tells
<1> QED BY <1>3, <1>4 DEF r

\* The calls that main.cpp's callbacks and the settings handlers line up are
\* followed, and only an idle controller gets new ones.
LEMMA ToldStimulus ==
    ASSUME TypeOK, AllFollowed, DnsTold, UNCHANGED scenario,
           \/ onNetworkConnected \/ onNetworkDisconnected
           \/ \E s \in scenario.servers, on \in BOOLEAN : SaveSettings(s, on)
    PROVE  AllFollowed' /\ DnsTold'
<1>0. Followed(<<>>) /\ ~Tells(<<>>) /\ <<>> \in Seq(Call)
  BY DEF Followed, Tells
<1>1. ASSUME NEW op \in {"start", "stop"}, NEW tell \in Tell
      PROVE  Followed(Calls(op, {"dhcp", "dns"}) \o DnsCall(tell) \o Calls(op, {"ntp"}))
  <2>1. /\ Calls(op, {"dhcp", "dns"}) \in Seq(Call) /\ DnsCall(tell) \in Seq(Call)
        /\ Calls(op, {"ntp"}) \in Seq(Call)
    BY CallsType DEF Tell
  <2>2. Followed(Calls(op, {"dhcp", "dns"}) \o DnsCall(tell))
    <3>1. CASE "dns" \in scenario.servers
      BY <2>1, <3>1, FollowedTell
    <3>2. CASE "dns" \notin scenario.servers
      BY <1>0, <2>1, <3>2, FollowedOthers, FollowedConcat DEF DnsCall
    <3> QED BY <3>1, <3>2
  <2>3. Followed(Calls(op, {"ntp"}))
    BY FollowedOthers
  <2>4. Calls(op, {"dhcp", "dns"}) \o DnsCall(tell) \in Seq(Call)
    BY <2>1
  <2> QED BY <2>1, <2>2, <2>3, <2>4, FollowedConcat
<1>2. ASSUME NEW op \in {"start", "stop"}, NEW s \in scenario.servers
      PROVE  Followed(Calls(op, {s}) \o (IF s = "dns" THEN DnsCall("sync") ELSE <<>>))
  <2>1. Calls(op, {s}) \in Seq(Call)
    BY CallsType
  <2>2. CASE s = "dns"
    BY <2>1, <2>2, FollowedTell DEF Tell
  <2>3. CASE s # "dns"
    BY <1>0, <2>1, <2>3, FollowedOthers, FollowedConcat
  <2> QED BY <2>2, <2>3
<1>3. PICK k \in Controller : /\ todo[k] = <<>>
                              /\ \E q : Followed(q) /\ todo' = [todo EXCEPT ![k] = q]
  <2>1. CASE onNetworkConnected
    BY <1>1, <2>1 DEF onNetworkConnected, Idle, Controller, Tell
  <2>2. CASE onNetworkDisconnected
    BY <1>1, <2>2 DEF onNetworkDisconnected, Idle, Controller, Tell
  <2>3. CASE \E s \in scenario.servers, on \in BOOLEAN : SaveSettings(s, on)
    <3> PICK s \in scenario.servers, on \in BOOLEAN : SaveSettings(s, on)
      BY <2>3
    <3>1. (IF on THEN "start" ELSE "stop") \in {"start", "stop"}
      OBVIOUS
    <3> QED BY <1>2, <3>1 DEF SaveSettings, Idle, Controller
  <2> QED BY <2>1, <2>2, <2>3
<1>4. AllFollowed'
  BY <1>3 DEF AllFollowed, TypeOK
<1>5. UNCHANGED <<state, dnsServerRunning>>
  BY DEF onNetworkConnected, onNetworkDisconnected, SaveSettings, members
<1>6. \A j \in Controller : Tells(todo[j]) => Tells(todo'[j])
  BY <1>0, <1>3 DEF TypeOK
<1> QED BY <1>4, <1>5, <1>6 DEF DnsTold

\* A controller's step that changes the DNS server's state leaves the call
\* that tells the DHCP server to make.
LEMMA ToldController ==
    ASSUME TypeOK, PhaseFits, AllFollowed, DnsTold, UNCHANGED scenario,
           NEW k \in Controller, ControllerStep(k)
    PROVE  AllFollowed' /\ DnsTold'
<1>1. todo[k] # <<>> /\ todo[k] \in Seq(Call) /\ Srv(k) \in Server
  BY HeadType DEF TypeOK, ControllerStep, StartSkipped, StartBegins, StartCreates, StartMarks,
                  StopSkipped, StopBegins, StopReturns, TellDhcp, At
<1>2. todo' = todo \/ Return(k)
  BY DEF ControllerStep, StartSkipped, StartBegins, StartCreates, StartMarks,
         StopSkipped, StopBegins, StopReturns, TellDhcp, Goto
<1>3. Return(k) => /\ todo'[k] = Tail(todo[k])
                   /\ \A j \in Controller : j # k => todo'[j] = todo[j]
  BY <1>1, ReturnEffect
<1>4. AllFollowed'
  BY <1>1, <1>2, <1>3, FollowedTail DEF AllFollowed
<1>5. CASE TellDhcp(k)
  BY <1>4, <1>5 DEF TellDhcp, DnsFlag, DnsTold, members
<1>6. CASE ~TellDhcp(k)
  <2>1. todo[k][1].op \notin Tell /\ dnsServerRunning' = dnsServerRunning
    BY <1>6 DEF ControllerStep, StartSkipped, StartBegins, StartCreates, StartMarks,
                StopSkipped, StopBegins, StopReturns, At, Tell
  <2>2. \/ state'["dns"] = state["dns"] \/ state'["dns"] = "RUNNING"
        \/ Srv(k) = "dns" /\ Return(k)
    <3>1. \/ state' = state
          \/ Return(k) /\ \E v \in State : state' = [state EXCEPT ![Srv(k)] = v]
      BY <1>6 DEF ControllerStep, StartSkipped, StartBegins, StartCreates, StartMarks,
                  StopSkipped, StopBegins, StopReturns, StateWithoutTask, members, State
    <3> QED BY <3>1 DEF TypeOK, Server
  <2>3. Followed(todo[k])
    BY DEF AllFollowed
  <2>4. Return(k) /\ (Tells(todo[k]) \/ Srv(k) = "dns") => Tells(todo'[k])
    BY <1>1, <1>3, <2>1, <2>3, FollowedTail DEF Srv
  <2>5. \A j \in Controller : Tells(todo[j]) => Tells(todo'[j])
    BY <1>2, <1>3, <2>4
  <2> QED BY <1>4, <2>1, <2>2, <2>4, <2>5 DEF DnsTold
<1> QED BY <1>5, <1>6

LEMMA ToldStep == TypeOK /\ PhaseFits /\ AllFollowed /\ DnsTold /\ [Next]_vars
                    => AllFollowed' /\ DnsTold'
<1> SUFFICES ASSUME TypeOK, PhaseFits, AllFollowed, DnsTold, [Next]_vars
             PROVE  AllFollowed' /\ DnsTold'
  OBVIOUS
<1>1. CASE UNCHANGED vars
  BY <1>1 DEF vars, members, control, AllFollowed, DnsTold
<1>2. CASE \E s \in Server, t \in Task : TaskStep(s, t) /\ UNCHANGED scenario
  <2> PICK s \in Server, t \in Task : TaskStep(s, t) /\ UNCHANGED scenario
    BY <1>2
  <2>1. UNCHANGED <<todo, dnsServerRunning>>
    BY DEF TaskStep, TaskOpens, TaskTests, TaskResumes, TaskCloses, TaskEnds, control
  <2>2. scenario.openFails \/ state'["dns"] = state["dns"]
    BY DEF TaskStep, TaskOpens, TaskTests, TaskResumes, TaskCloses, TaskEnds, members, TypeOK, Server
  <2> QED BY <2>1, <2>2 DEF AllFollowed, DnsTold
<1> QED BY <1>1, <1>2, ToldStimulus, ToldController DEF Next

\* Once no controller has a call to make, what DHCP clients are told about the
\* built-in DNS server is true, if sockets open: every start and stop of the
\* DNS server is followed by setDnsServerRunning on the same task.
THEOREM ClientsToldTheTruth == Spec => []AdvertisedDnsRuns
<1>1. Init => TypeOK /\ PhaseFits /\ AllFollowed /\ DnsTold
  <2>1. Init => AllFollowed /\ DnsTold
    BY DEF Init, AllFollowed, Followed, DnsTold
  <2> QED BY <2>1, TypeInit
<1>2. TypeOK /\ PhaseFits /\ AllFollowed /\ DnsTold /\ [Next]_vars
        => (TypeOK /\ PhaseFits /\ AllFollowed /\ DnsTold)'
  BY TypeStep, ToldStep
<1>3. DnsTold => AdvertisedDnsRuns
  BY DEF DnsTold, AdvertisedDnsRuns, Idle, Tells
<1> QED BY <1>1, <1>2, <1>3, PTL DEF Spec
===========================================================================
