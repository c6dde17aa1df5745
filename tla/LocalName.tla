----------------------------- MODULE LocalName -----------------------------
(***************************************************************************)
(* The device's own name in the local network: one switch, and behind it the *)
(* built-in DNS, mDNS (net/MdnsResponder.cpp) and the SSDP responder with a  *)
(* task and a socket of its own (net/SsdpResponder.cpp), brought in line by  *)
(* the page and by the settings file (RestApi's applyLocalNameLive).         *)
(*                                                                         *)
(* Pages follow one another.  The SSDP task looks at ssdpRunning every       *)
(* second, and stop() waits for it three, so the wait ends with the task.    *)
(* Messages and the search for a target are left out: they change nothing.   *)
(***************************************************************************)
EXTENDS Naturals

CONSTANT HostName       \* two or more valid names

VARIABLES
    stored,             \* the name and the switch in the settings
    dnsName,            \* localNameEnabled_, localNameHost_ of the DNS server
    mdns,               \* running_ of MdnsResponder, the name mdns publishes
    ssdpRunning,        \* running_
    ssdpSocket,         \* the sockets of the responder that are open, and which is socket_
    ssdpTask,           \* taskHandle_, as where the task stands
    naming,             \* where the page stands; `want`: what it answers for
    told                \* what the last page about the name was answered

nameVars == <<stored, dnsName, mdns, ssdpRunning, ssdpSocket, ssdpTask, naming, told>>

NoSocket == 0
Socket == {1, 2}        \* two show a socket that was left open
Answers == {"nothing", "on", "off", "refused", "name", "file"}
IdlePage == [step |-> "idle", want |-> "nothing", ok |-> TRUE]

LocalNameTypeOK ==
    /\ stored \in [name : HostName, on : BOOLEAN] /\ dnsName \in [name : HostName, on : BOOLEAN]
    /\ mdns \in [name : HostName, on : BOOLEAN]
    /\ ssdpRunning \in BOOLEAN
    /\ ssdpSocket \in [open : SUBSET Socket, mine : Socket \cup {NoSocket}]
    /\ ssdpTask \in {"none", "loop", "leaving", "closed"}
    /\ naming \in [step : {"idle", "mdns", "ssdp", "waits", "judged"},
                   want : Answers, ok : BOOLEAN]
    /\ told \in Answers

\* app_main: whatever is stored, each half is told of it once; a half that fails is
\* only logged.
LocalNameInit ==
    /\ stored \in [name : HostName, on : BOOLEAN]
    /\ dnsName = stored
    /\ mdns \in {[name |-> stored.name, on |-> b] : b \in {FALSE, stored.on}}
    /\ ssdpRunning \in {FALSE, stored.on}
    /\ ssdpSocket = IF ssdpRunning THEN [open |-> {1}, mine |-> 1] ELSE [open |-> {}, mine |-> NoSocket]
    /\ ssdpTask = IF ssdpRunning THEN "loop" ELSE "none"
    /\ naming = IdlePage /\ told = "nothing"

-----------------------------------------------------------------------------
\* setLocalName: the first thing every apply does, with the settings just saved.
applies(s, want) ==
    /\ stored' = s
    /\ dnsName' = s
    /\ naming' = [step |-> "mdns", want |-> want, ok |-> TRUE]
    /\ UNCHANGED <<mdns, ssdpRunning, ssdpSocket, ssdpTask, told>>

\* The page sends the switch, the name or both; an invalid name, a name the interface
\* refuses and a build without mDNS end it before anything is saved.
handlePostSettingsGeneral ==
    /\ naming.step = "idle"
    /\ \/ \E new \in [name : HostName, on : BOOLEAN] : applies(new, IF new.on THEN "on" ELSE "off")
       \/ \E name \in HostName : applies([stored EXCEPT !.name = name], "name")

\* The section "device" of a settings file: both, and failures are warnings.
handlePostSettingsImport_Device ==
    /\ naming.step = "idle"
    /\ \E new \in [name : HostName, on : BOOLEAN] : applies(new, "file")

-----------------------------------------------------------------------------
\* mDNS: stopped, given the name, or started; a responder that runs keeps its old
\* name when the new one is refused, one that has just been started is freed.
applyLocalNameLive_Mdns ==
    /\ naming.step = "mdns"
    /\ \/ ~stored.on /\ mdns' = [mdns EXCEPT !.on = FALSE] /\ naming' = [naming EXCEPT !.step = "ssdp"]
       \/ stored.on /\ mdns' = stored /\ naming' = [naming EXCEPT !.step = "ssdp"]
       \/ stored.on /\ UNCHANGED mdns /\ naming' = [naming EXCEPT !.step = "ssdp", !.ok = FALSE]
    /\ UNCHANGED <<stored, dnsName, ssdpRunning, ssdpSocket, ssdpTask, told>>

judges(ok) == naming' = [naming EXCEPT !.step = "judged", !.ok = naming.ok /\ ok]

\* SsdpResponder::start: without a socket, the port, the group or the task
\* everything is taken back.
ssdpStart ==
    /\ naming.step = "ssdp" /\ stored.on /\ ~ssdpRunning
    /\ \/ \E s \in Socket \ ssdpSocket.open :
            /\ ssdpSocket' = [open |-> ssdpSocket.open \cup {s}, mine |-> s]
            /\ ssdpRunning' = TRUE
            /\ ssdpTask' = "loop"
            /\ judges(TRUE)
       \/ /\ ssdpSocket' = [ssdpSocket EXCEPT !.mine = NoSocket]
          /\ judges(FALSE)
          /\ UNCHANGED <<ssdpRunning, ssdpTask>>
    /\ UNCHANGED <<stored, dnsName, mdns, told>>

\* SsdpResponder::stop: the flag, and the goodbye through the socket the task
\* owns; then the wait for the task.
ssdpStop ==
    /\ naming.step = "ssdp" /\ ~stored.on /\ ssdpRunning
    /\ ssdpRunning' = FALSE
    /\ naming' = [naming EXCEPT !.step = "waits"]
    /\ UNCHANGED <<stored, dnsName, mdns, ssdpSocket, ssdpTask, told>>

ssdpStop_Waited ==
    /\ naming.step = "waits" /\ ssdpTask = "none"
    /\ judges(TRUE)
    /\ UNCHANGED <<stored, dnsName, mdns, ssdpRunning, ssdpSocket, ssdpTask, told>>

\* Nothing to do: it is as the switch wants it.
applyLocalNameLive_Ssdp ==
    /\ naming.step = "ssdp" /\ stored.on = ssdpRunning
    /\ judges(TRUE)
    /\ UNCHANGED <<stored, dnsName, mdns, ssdpRunning, ssdpSocket, ssdpTask, told>>

\* As if: the switch were put back and nobody told.
nameAnswered_NotApplied ==
    /\ naming.step = "judged"
    /\ naming' = IdlePage
    /\ told' = IF naming.want = "on" /\ ~naming.ok THEN "refused" ELSE naming.want
    /\ stored' = [stored EXCEPT !.on = @ /\ told' # "refused"]
    /\ UNCHANGED <<dnsName, mdns, ssdpRunning, ssdpSocket, ssdpTask>>

\* The answer.  A switch that could not be honoured goes back to off, and
\* everything follows it there first.
nameAnswered ==
    /\ naming.step = "judged"
    /\ IF naming.want = "on" /\ ~naming.ok
       THEN applies([stored EXCEPT !.on = FALSE], "refused")
       ELSE /\ naming' = IdlePage
            /\ told' = naming.want
            /\ UNCHANGED <<stored, dnsName, mdns, ssdpRunning, ssdpSocket, ssdpTask>>

-----------------------------------------------------------------------------
\* SsdpResponder::run: it answers and advertises as long as it is told to, and
\* closes the socket it works with when it leaves.
ssdpRun ==
    /\ \/ /\ ssdpTask = "loop" /\ ~ssdpRunning
          /\ ssdpTask' = "leaving"
          /\ UNCHANGED ssdpSocket
       \/ /\ ssdpTask = "leaving"
          /\ ssdpTask' = "closed"
          /\ ssdpSocket' = [open |-> ssdpSocket.open \ {ssdpSocket.mine}, mine |-> NoSocket]
       \/ /\ ssdpTask = "closed"
          /\ ssdpTask' = "none"
          /\ UNCHANGED ssdpSocket
    /\ UNCHANGED <<stored, dnsName, mdns, ssdpRunning, naming, told>>

namePage ==
    \/ applyLocalNameLive_Mdns \/ applyLocalNameLive_Ssdp
    \/ ssdpStart \/ ssdpStop \/ ssdpStop_Waited \/ nameAnswered

LocalNameNext ==
    \/ handlePostSettingsGeneral \/ handlePostSettingsImport_Device
    \/ namePage \/ ssdpRun

-----------------------------------------------------------------------------
\* What the page of the switch was answered is so in all three halves until
\* somebody touches the name again, whichever of them failed on the way: on is
\* published everywhere under the stored name, off and refused nowhere.
AnswerIsTrue ==
    naming.step = "idle" =>
        /\ told = "on" => mdns = stored /\ dnsName = stored /\ ssdpRunning
        /\ told \in {"off", "refused"} => ~(stored.on \/ mdns.on \/ dnsName.on \/ ssdpRunning)

\* The socket is the task's: a task that uses it has it open, and with no task
\* none is left open, however many starts failed.
SocketIsOwned ==
    /\ ssdpTask \in {"loop", "leaving"} => ssdpSocket.mine \in ssdpSocket.open
    /\ ssdpSocket.open = (IF ssdpTask \in {"loop", "leaving"} THEN {ssdpSocket.mine} ELSE {})

\* A page about the name is on its way.
NameBusy == naming.step # "idle"

\* The three halves of the name agree with the answer of the page, and the SSDP
\* task with its socket.
NameSafe == LocalNameTypeOK /\ AnswerIsTrue /\ SocketIsOwned
=============================================================================
