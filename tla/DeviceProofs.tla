---------------------------- MODULE DeviceProofs ----------------------------
(***************************************************************************)
(* Proofs about the rest of the device: the SSH server with its browser    *)
(* and its shell, the schedule of the clock, the replies of the time       *)
(* server, the name in the local network, and the allow-list and the range *)
(* of the DHCP page, for any number of sessions, connections, paths,       *)
(* probes, clients, ticks, addresses and slots.  As in MCDevice a          *)
(* behaviour is about one of them, so each has an inductive invariant over *)
(* its own variables; browser and shell work on the same volumes and share *)
(* one.                                                                    *)
(***************************************************************************)
EXTENDS MCDevice, FiniteSetTheorems, WellFoundedInduction, TLAPS

\* A step of the composition is a step of a component, or leaves it alone.
LEMMA OneAtATime ==
    [Next]_vars => /\ [SshNext]_sshVars /\ [TimeSyncNext]_timeSyncVars /\ [LocalNameNext]_nameVars
                   /\ [NtpNext]_ntpVars /\ [AllowNext]_allowVars /\ [PoolNext]_poolVars
<1> SUFFICES ASSUME [Next]_vars
             PROVE  /\ [SshNext]_sshVars /\ [TimeSyncNext]_timeSyncVars /\ [LocalNameNext]_nameVars
                    /\ [NtpNext]_ntpVars /\ [AllowNext]_allowVars /\ [PoolNext]_poolVars
    OBVIOUS
<1>1. CASE SshStep(SshNext) BY <1>1 DEF SshStep
<1>2. CASE PanelsStep(PanelsNext) BY <1>2 DEF PanelsStep
<1>3. CASE ShellStep(ShellNext) BY <1>3 DEF ShellStep
<1>4. CASE SyncStep(TimeSyncNext) BY <1>4 DEF SyncStep
<1>5. CASE RepliesStep(NtpNext) BY <1>5 DEF RepliesStep
<1>6. CASE AllowedStep(AllowNext) BY <1>6 DEF AllowedStep
<1>7. CASE PoolStep(PoolNext) BY <1>7 DEF PoolStep
<1>8. CASE NameStep(LocalNameNext) BY <1>8 DEF NameStep
<1>9. CASE UNCHANGED vars BY <1>9 DEF vars
<1> QED BY <1>1, <1>2, <1>3, <1>4, <1>5, <1>6, <1>7, <1>8, <1>9 DEF Next

-----------------------------------------------------------------------------
(***************************************************************************)
(* The name: the settings and the built-in DNS never differ, SSDP runs     *)
(* with its task and its one socket, and each half that has been brought   *)
(* in line is so until the page is answered.                               *)
(***************************************************************************)
NameInv ==
    /\ LocalNameTypeOK /\ SocketIsOwned /\ AnswerIsTrue /\ dnsName = stored
    /\ ssdpRunning => ssdpTask = "loop"
    /\ ~ssdpRunning /\ naming.step # "waits" => ssdpTask = "none"
    /\ naming.step = "waits" => ~ssdpRunning /\ ~stored.on
    /\ naming.step # "idle" => /\ naming.want = "on" => stored.on
                               /\ naming.want \in {"off", "refused"} => ~stored.on
    /\ naming.step \in {"ssdp", "waits", "judged"} =>
           (~stored.on => ~mdns.on) /\ (stored.on /\ naming.ok => mdns = stored)
    /\ naming.step = "judged" =>
           (~stored.on => ~ssdpRunning) /\ (stored.on /\ naming.ok => ssdpRunning)

LEMMA NameStart == LocalNameInit => NameInv
<1> SUFFICES ASSUME LocalNameInit PROVE NameInv OBVIOUS
<1>1. /\ stored \in [name : HostName, on : BOOLEAN] /\ dnsName = stored
      /\ naming = IdlePage /\ told = "nothing"
    BY DEF LocalNameInit
<1>2. ssdpRunning \in BOOLEAN BY <1>1 DEF LocalNameInit
<1>3. mdns \in [name : HostName, on : BOOLEAN]
  <2>1. PICK b \in {FALSE, stored.on} : mdns = [name |-> stored.name, on |-> b] BY DEF LocalNameInit
  <2>2. b \in BOOLEAN /\ stored.name \in HostName BY <1>1
  <2> QED BY <2>1, <2>2
<1>4. naming.step = "idle" /\ naming \in [step : {"idle", "mdns", "ssdp", "waits", "judged"}, want : Answers, ok : BOOLEAN]
    BY <1>1 DEF IdlePage, Answers
<1>5. CASE ssdpRunning
  <2>1. ssdpTask = "loop" /\ ssdpSocket = [open |-> {1}, mine |-> 1] BY <1>5 DEF LocalNameInit
  <2> QED BY <1>1, <1>2, <1>3, <1>4, <1>5, <2>1
          DEF NameInv, LocalNameTypeOK, SocketIsOwned, AnswerIsTrue, Socket, Answers
<1>6. CASE ~ssdpRunning
  <2>1. ssdpTask = "none" /\ ssdpSocket = [open |-> {}, mine |-> NoSocket] BY <1>6 DEF LocalNameInit
  <2> QED BY <1>1, <1>2, <1>3, <1>4, <1>6, <2>1
          DEF NameInv, LocalNameTypeOK, SocketIsOwned, AnswerIsTrue, Socket, Answers
<1> QED BY <1>2, <1>5, <1>6

\* A page begins: all is to be brought in line with what is now stored.
LEMMA NameApplied ==
    ASSUME NameInv, NEW s \in [name : HostName, on : BOOLEAN], NEW want \in Answers, applies(s, want),
           naming.step \in {"idle", "judged"},
           want = "on" => s.on, want \in {"off", "refused"} => ~s.on
    PROVE  NameInv'
<1>1. naming' = [step |-> "mdns", want |-> want, ok |-> TRUE] BY DEF applies
<1>2. /\ naming'.step = "mdns" /\ naming'.want = want
      /\ naming' \in [step : {"idle", "mdns", "ssdp", "waits", "judged"}, want : Answers, ok : BOOLEAN]
    BY <1>1
<1>3. LocalNameTypeOK' BY <1>2 DEF NameInv, LocalNameTypeOK, applies
<1> QED BY <1>2, <1>3 DEF NameInv, SocketIsOwned, AnswerIsTrue, applies

LEMMA NameAsked ==
    ASSUME NameInv, handlePostSettingsGeneral \/ handlePostSettingsImport_Device
    PROVE  NameInv'
<1>1. naming.step = "idle" BY DEF handlePostSettingsGeneral, handlePostSettingsImport_Device
<1>2. stored \in [name : HostName, on : BOOLEAN] BY DEF NameInv, LocalNameTypeOK
<1>3. ASSUME NEW new \in [name : HostName, on : BOOLEAN], applies(new, IF new.on THEN "on" ELSE "off")
      PROVE  NameInv'
  <2>1. CASE new.on BY <1>1, <1>3, <2>1, NameApplied DEF Answers
  <2>2. CASE ~new.on BY <1>1, <1>3, <2>2, NameApplied DEF Answers
  <2> QED BY <2>1, <2>2
<1>4. ASSUME NEW name \in HostName, applies([stored EXCEPT !.name = name], "name") PROVE NameInv'
    BY <1>1, <1>2, <1>4, NameApplied DEF Answers
<1>5. ASSUME NEW new \in [name : HostName, on : BOOLEAN], applies(new, "file") PROVE NameInv'
    BY <1>1, <1>5, NameApplied DEF Answers
<1> QED BY <1>3, <1>4, <1>5 DEF handlePostSettingsGeneral, handlePostSettingsImport_Device

\* What a step of the page leaves of its record.
PageTyped(n) == n \in [step : {"idle", "mdns", "ssdp", "waits", "judged"}, want : Answers, ok : BOOLEAN]

LEMMA PageMoves ==
    ASSUME PageTyped(naming), NEW step \in {"idle", "mdns", "ssdp", "waits", "judged"}, NEW ok \in BOOLEAN
    PROVE  /\ PageTyped([naming EXCEPT !.step = step]) /\ PageTyped([naming EXCEPT !.step = step, !.ok = ok])
           /\ [naming EXCEPT !.step = step].step = step /\ [naming EXCEPT !.step = step].want = naming.want
           /\ [naming EXCEPT !.step = step].ok = naming.ok
           /\ [naming EXCEPT !.step = step, !.ok = ok].step = step
           /\ [naming EXCEPT !.step = step, !.ok = ok].want = naming.want
           /\ [naming EXCEPT !.step = step, !.ok = ok].ok = ok
BY DEF PageTyped

\* A half that is judged: the page goes on to its answer.
LEMMA NameJudged ==
    ASSUME PageTyped(naming), NEW ok \in BOOLEAN, judges(ok)
    PROVE  /\ PageTyped(naming') /\ naming'.step = "judged" /\ naming'.want = naming.want
           /\ naming'.ok = (naming.ok /\ ok)
<1> DEFINE both == naming.ok /\ ok
<1>2. both \in BOOLEAN OBVIOUS
<1>3. naming' = [naming EXCEPT !.step = "judged", !.ok = both] BY DEF judges
<1> HIDE DEF both
<1>4. /\ PageTyped(naming') /\ naming'.step = "judged" /\ naming'.want = naming.want
      /\ naming'.ok = both
    BY <1>2, <1>3, PageMoves
<1> QED BY <1>4 DEF both

LEMMA NameMdns ==
    ASSUME NameInv, applyLocalNameLive_Mdns
    PROVE  NameInv'
<1>1. PageTyped(naming) /\ naming.step = "mdns" BY DEF NameInv, LocalNameTypeOK, PageTyped, applyLocalNameLive_Mdns
<1>2. /\ stored \in [name : HostName, on : BOOLEAN] /\ mdns \in [name : HostName, on : BOOLEAN]
    BY DEF NameInv, LocalNameTypeOK
<1>3. UNCHANGED <<stored, dnsName, ssdpRunning, ssdpSocket, ssdpTask, told>> BY DEF applyLocalNameLive_Mdns
<1>4. PageTyped(naming') /\ naming'.step = "ssdp" /\ naming'.want = naming.want
  <2>1. \/ naming' = [naming EXCEPT !.step = "ssdp"]
        \/ naming' = [naming EXCEPT !.step = "ssdp", !.ok = FALSE]
      BY DEF applyLocalNameLive_Mdns
  <2>2. CASE naming' = [naming EXCEPT !.step = "ssdp"] BY <1>1, <2>2, PageMoves
  <2>3. CASE naming' = [naming EXCEPT !.step = "ssdp", !.ok = FALSE]
    <3>1. FALSE \in BOOLEAN OBVIOUS
    <3> QED BY <1>1, <2>3, <3>1 DEF PageTyped
  <2> QED BY <2>1, <2>2, <2>3
<1>5. /\ mdns' \in [name : HostName, on : BOOLEAN]
      /\ (~stored.on => ~mdns'.on) /\ (stored.on /\ naming'.ok => mdns' = stored)
  <2>1. CASE ~stored.on /\ mdns' = [mdns EXCEPT !.on = FALSE] BY <1>2, <2>1
  <2>2. CASE stored.on /\ mdns' = stored BY <1>2, <2>2
  <2>3. CASE stored.on /\ UNCHANGED mdns /\ naming' = [naming EXCEPT !.step = "ssdp", !.ok = FALSE]
    <3>1. ~naming'.ok BY <1>1, <2>3, PageMoves
    <3> QED BY <1>2, <2>3, <3>1
  <2> QED BY <2>1, <2>2, <2>3 DEF applyLocalNameLive_Mdns
<1>6. LocalNameTypeOK' BY <1>3, <1>4, <1>5 DEF NameInv, LocalNameTypeOK, PageTyped
<1> QED BY <1>1, <1>3, <1>4, <1>5, <1>6 DEF NameInv, SocketIsOwned, AnswerIsTrue

LEMMA NameSsdp ==
    ASSUME NameInv, ssdpStart \/ applyLocalNameLive_Ssdp \/ ssdpStop_Waited
    PROVE  NameInv'
<1>1. PageTyped(naming) /\ naming.step \in {"ssdp", "waits"}
    BY DEF NameInv, LocalNameTypeOK, PageTyped, ssdpStart, applyLocalNameLive_Ssdp, ssdpStop_Waited
<1>2. UNCHANGED <<stored, dnsName, mdns, told>> BY DEF ssdpStart, applyLocalNameLive_Ssdp, ssdpStop_Waited
<1>3. PICK ok \in BOOLEAN :
         /\ judges(ok)
         /\ \/ /\ ok /\ stored.on /\ ~ssdpRunning /\ ssdpRunning' = TRUE /\ ssdpTask' = "loop" /\ naming.step = "ssdp"
               /\ \E s \in Socket \ ssdpSocket.open : ssdpSocket' = [open |-> ssdpSocket.open \cup {s}, mine |-> s]
            \/ /\ ~ok /\ stored.on /\ ~ssdpRunning /\ UNCHANGED <<ssdpRunning, ssdpTask>> /\ naming.step = "ssdp"
               /\ ssdpSocket' = [ssdpSocket EXCEPT !.mine = NoSocket]
            \/ ok /\ stored.on = ssdpRunning /\ UNCHANGED <<ssdpRunning, ssdpSocket, ssdpTask>> /\ naming.step = "ssdp"
            \/ ok /\ naming.step = "waits" /\ ssdpTask = "none" /\ UNCHANGED <<ssdpRunning, ssdpSocket, ssdpTask>>
  <2>1. CASE ssdpStart BY <2>1 DEF ssdpStart
  <2>2. CASE applyLocalNameLive_Ssdp BY <2>2 DEF applyLocalNameLive_Ssdp
  <2>3. CASE ssdpStop_Waited BY <2>3 DEF ssdpStop_Waited
  <2> QED BY <2>1, <2>2, <2>3
<1>4. PageTyped(naming') /\ naming'.step = "judged" /\ naming'.want = naming.want /\ naming'.ok = (naming.ok /\ ok)
    BY <1>1, <1>3, NameJudged
<1>5. ssdpSocket \in [open : SUBSET Socket, mine : Socket \cup {NoSocket}]
    BY DEF NameInv, LocalNameTypeOK
<1>6. CASE ok /\ stored.on /\ ~ssdpRunning /\ ssdpRunning' = TRUE /\ ssdpTask' = "loop" /\ naming.step = "ssdp"
            /\ \E s \in Socket \ ssdpSocket.open : ssdpSocket' = [open |-> ssdpSocket.open \cup {s}, mine |-> s]
  <2>1. PICK s \in Socket \ ssdpSocket.open : ssdpSocket' = [open |-> ssdpSocket.open \cup {s}, mine |-> s] BY <1>6
  <2>2. ssdpTask = "none" /\ ssdpSocket.open = {} BY <1>6 DEF NameInv, SocketIsOwned
  <2>3. ssdpSocket'.open = {s} /\ ssdpSocket'.mine = s BY <2>1, <2>2
  <2>4. ssdpSocket' \in [open : SUBSET Socket, mine : Socket \cup {NoSocket}] BY <1>5, <2>1
  <2>5. LocalNameTypeOK' BY <1>2, <1>4, <1>6, <2>4 DEF NameInv, LocalNameTypeOK, PageTyped
  <2>6. SocketIsOwned' BY <1>6, <2>3 DEF SocketIsOwned
  <2> QED BY <1>2, <1>4, <1>6, <2>5, <2>6 DEF NameInv, AnswerIsTrue
<1>7. CASE ~ok /\ stored.on /\ ~ssdpRunning /\ UNCHANGED <<ssdpRunning, ssdpTask>> /\ naming.step = "ssdp"
            /\ ssdpSocket' = [ssdpSocket EXCEPT !.mine = NoSocket]
  <2>1. ssdpTask = "none" /\ ssdpSocket.open = {} BY <1>7 DEF NameInv, SocketIsOwned
  <2>2. ssdpSocket'.open = {} /\ ssdpSocket' \in [open : SUBSET Socket, mine : Socket \cup {NoSocket}]
      BY <1>5, <1>7, <2>1
  <2>3. LocalNameTypeOK' BY <1>2, <1>4, <1>7, <2>2 DEF NameInv, LocalNameTypeOK, PageTyped
  <2>4. SocketIsOwned' BY <1>7, <2>1, <2>2 DEF SocketIsOwned
  <2> QED BY <1>2, <1>4, <1>7, <2>3, <2>4 DEF NameInv, AnswerIsTrue
<1>8. CASE ok /\ stored.on = ssdpRunning /\ UNCHANGED <<ssdpRunning, ssdpSocket, ssdpTask>> /\ naming.step = "ssdp"
  <2>1. LocalNameTypeOK' BY <1>2, <1>4, <1>8 DEF NameInv, LocalNameTypeOK, PageTyped
  <2>2. SocketIsOwned' BY <1>8 DEF NameInv, SocketIsOwned
  <2> QED BY <1>2, <1>4, <1>8, <2>1, <2>2 DEF NameInv, AnswerIsTrue
<1>9. CASE ok /\ naming.step = "waits" /\ ssdpTask = "none" /\ UNCHANGED <<ssdpRunning, ssdpSocket, ssdpTask>>
  <2>1. LocalNameTypeOK' BY <1>2, <1>4, <1>9 DEF NameInv, LocalNameTypeOK, PageTyped
  <2>2. SocketIsOwned' BY <1>9 DEF NameInv, SocketIsOwned
  <2> QED BY <1>2, <1>4, <1>9, <2>1, <2>2 DEF NameInv, AnswerIsTrue
<1> QED BY <1>3, <1>6, <1>7, <1>8, <1>9

\* The answer, and a switch that could not be honoured.
LEMMA NameIsAnswered ==
    ASSUME NameInv, nameAnswered
    PROVE  NameInv'
<1>1. PageTyped(naming) /\ naming.step = "judged" BY DEF NameInv, LocalNameTypeOK, PageTyped, nameAnswered
<1>2. stored \in [name : HostName, on : BOOLEAN] BY DEF NameInv, LocalNameTypeOK
<1>3. CASE naming.want = "on" /\ ~naming.ok
  <2>1. applies([stored EXCEPT !.on = FALSE], "refused") BY <1>3 DEF nameAnswered
  <2>2. /\ [stored EXCEPT !.on = FALSE] \in [name : HostName, on : BOOLEAN]
        /\ ~[stored EXCEPT !.on = FALSE].on
      BY <1>2
  <2> QED BY <1>1, <2>1, <2>2, NameApplied DEF Answers
<1>4. CASE ~(naming.want = "on" /\ ~naming.ok)
  <2>1. /\ naming' = IdlePage /\ told' = naming.want
        /\ UNCHANGED <<stored, dnsName, mdns, ssdpRunning, ssdpSocket, ssdpTask>>
      BY <1>4 DEF nameAnswered
  <2>2. PageTyped(naming') /\ naming'.step = "idle" BY <2>1 DEF IdlePage, PageTyped, Answers
  <2>3. told' \in Answers BY <1>1, <2>1 DEF PageTyped
  <2>4. LocalNameTypeOK' BY <2>1, <2>2, <2>3 DEF NameInv, LocalNameTypeOK, PageTyped
  <2>5. AnswerIsTrue' BY <1>1, <1>4, <2>1, <2>2 DEF NameInv, AnswerIsTrue
  <2> QED BY <1>1, <2>1, <2>2, <2>4, <2>5 DEF NameInv, SocketIsOwned
<1> QED BY <1>3, <1>4

\* Off: the flag falls, and the task leaves with its socket.
LEMMA NameStops ==
    ASSUME NameInv, ssdpStop \/ ssdpRun
    PROVE  NameInv'
<1>1. PageTyped(naming) BY DEF NameInv, LocalNameTypeOK, PageTyped
<1>2. UNCHANGED <<stored, dnsName, mdns, told>> BY DEF ssdpStop, ssdpRun
<1>3. ssdpSocket \in [open : SUBSET Socket, mine : Socket \cup {NoSocket}] BY DEF NameInv, LocalNameTypeOK
<1>4. CASE ssdpStop
  <2>1. PageTyped(naming') /\ naming'.step = "waits" /\ naming'.want = naming.want /\ naming'.ok = naming.ok
      BY <1>1, <1>4, PageMoves DEF ssdpStop
  <2>2. LocalNameTypeOK' BY <1>2, <1>4, <2>1 DEF NameInv, LocalNameTypeOK, PageTyped, ssdpStop
  <2> QED BY <1>2, <1>4, <2>1, <2>2 DEF NameInv, SocketIsOwned, AnswerIsTrue, ssdpStop
<1>5. CASE ssdpRun
  <2>1. UNCHANGED <<ssdpRunning, naming>> BY <1>5 DEF ssdpRun
  <2>2. ~ssdpRunning /\ naming.step = "waits" BY <1>5 DEF NameInv, ssdpRun
  <2>3. /\ ssdpTask' \in {"leaving", "closed", "none"} /\ SocketIsOwned'
        /\ ssdpSocket' \in [open : SUBSET Socket, mine : Socket \cup {NoSocket}]
    <3>1. CASE ssdpTask = "leaving"
      <4>1. ssdpTask' = "closed" /\ ssdpSocket' = [open |-> ssdpSocket.open \ {ssdpSocket.mine}, mine |-> NoSocket]
          BY <1>5, <3>1 DEF ssdpRun
      <4>2. ssdpSocket.open = {ssdpSocket.mine} BY <3>1 DEF NameInv, SocketIsOwned
      <4> QED BY <1>3, <4>1, <4>2 DEF SocketIsOwned
    <3>2. CASE ssdpTask # "leaving"
        BY <1>3, <1>5, <3>2 DEF ssdpRun, NameInv, SocketIsOwned
    <3> QED BY <3>1, <3>2
  <2>4. LocalNameTypeOK' BY <1>2, <2>1, <2>3 DEF NameInv, LocalNameTypeOK
  <2> QED BY <1>2, <2>1, <2>2, <2>3, <2>4 DEF NameInv, AnswerIsTrue
<1> QED BY <1>4, <1>5

LEMMA NameInductive == NameInv /\ [LocalNameNext]_nameVars => NameInv'
<1> SUFFICES ASSUME NameInv, [LocalNameNext]_nameVars PROVE NameInv' OBVIOUS
<1>1. CASE UNCHANGED nameVars
    BY <1>1 DEF nameVars, NameInv, LocalNameTypeOK, SocketIsOwned, AnswerIsTrue
<1>2. CASE LocalNameNext
    BY <1>2, NameAsked, NameMdns, NameSsdp, NameIsAnswered, NameStops DEF LocalNameNext, namePage
<1> QED BY <1>1, <1>2

\* Whichever half of the name fails, and however long the SSDP task takes to leave:
\* what the page was answered is so in all three halves, and the task has its one
\* socket open as long as it works with it, and no longer.
THEOREM NameStaysSafe == Spec => []NameSafe
<1>1. Init => NameInv BY NameStart DEF Init
<1>2. NameInv /\ [Next]_vars => NameInv' BY OneAtATime, NameInductive
<1>3. NameInv => NameSafe BY DEF NameInv, NameSafe
<1> QED BY <1>1, <1>2, <1>3, PTL DEF Spec

-----------------------------------------------------------------------------
(***************************************************************************)
(* The SSH server: at its door one accept task at most, known by its       *)
(* handle but for the moment between its creation and the assignment, with *)
(* the listener it was made for; behind the door the counter is the number *)
(* of sessions, and a console has been paid for with a password.           *)
(***************************************************************************)
Closed == \A b \in Listener : loop[b] = "none"
Door ==
    /\ running \in BOOLEAN
    /\ bind \in Listener \cup {NoListener} /\ listening \subseteq Listener
    /\ acceptTask \in Listener \cup {NoListener}
    /\ loop \in [Listener -> {"none", "poll", "accept", "judged", "leaving", "freed"}]
    /\ control \in {"idle", "listen", "create", "handle", "stopping", "sessions"}
    /\ \A b \in Listener : loop[b] \in {"poll", "accept", "judged", "leaving"} => bind = b /\ b \in listening
    /\ control = "create" => running /\ bind \in Listener /\ bind \in listening
    /\ control = "handle" => /\ running /\ acceptTask = NoListener /\ bind \in Listener
                             /\ loop[bind] # "none" /\ \A b \in Listener \ {bind} : loop[b] = "none"
    /\ acceptTask = NoListener /\ control # "handle" => Closed
    /\ acceptTask # NoListener => /\ bind = acceptTask /\ loop[bind] # "none" /\ control \notin {"listen", "create"}
                                  /\ \A b \in Listener \ {bind} : loop[b] = "none"
    /\ running /\ control = "idle" => acceptTask # NoListener
    /\ running => /\ control \in {"idle", "create", "handle"}
                  /\ \A b \in Listener : loop[b] \notin {"leaving", "freed"}
Inside ==
    /\ session \in [Connection -> Sessions]
    /\ active = Cardinality(Alive) /\ active <= MaxSessions
    /\ \A c \in Connection : session[c].step \in {"shell", "command", "browser"} => session[c].passed
SshInv == Door /\ Inside

LEMMA SshStart == SshInit => SshInv
<1> SUFFICES ASSUME SshInit PROVE SshInv OBVIOUS
<1>1. \A b \in Listener : loop[b] = "none" BY DEF SshInit
<1>2. Door BY <1>1 DEF SshInit, Door, Closed
<1>3. NoSession \in Sessions BY SshAssumption DEF NoSession, Sessions
<1>4. \A c \in Connection : session[c] = NoSession BY DEF SshInit
<1>5. Alive = {} BY <1>4 DEF Alive, NoSession
<1>6. Cardinality(Alive) = 0 BY <1>5, FS_EmptySet
<1>7. session \in [Connection -> Sessions] BY <1>3 DEF SshInit
<1>8. active = Cardinality(Alive) /\ active <= MaxSessions BY <1>6, SshAssumption DEF SshInit
<1>9. Inside BY <1>4, <1>7, <1>8 DEF Inside, NoSession
<1> QED BY <1>2, <1>9 DEF SshInv

LEMMA AliveIsFinite ==
    ASSUME NEW S \in SUBSET Connection
    PROVE  IsFiniteSet(S) /\ Cardinality(S) \in Nat /\ Cardinality(S) <= Cardinality(Connection)
BY SshAssumption, FS_Subset, FS_CardinalityType

\* start(), stop() and their waits.
LEMMA DoorControlled ==
    ASSUME Door, start \/ stop \/ controlStep
    PROVE  Door'
<1>1. CASE start BY <1>1 DEF start, Door, Closed
<1>2. CASE stop BY <1>2 DEF stop, Door, Closed
<1>3. CASE start_Fails BY <1>3 DEF start_Fails, Door, Closed
<1>4. CASE start_Listen BY <1>4 DEF start_Listen, Door, Closed, Listener, NoListener
<1>5. CASE start_Create
  <2>1. control = "create" /\ running /\ bind \in Listener /\ bind \in listening /\ Closed /\ acceptTask = NoListener
      BY <1>5 DEF start_Create, Door
  <2>2. CASE loop' = [loop EXCEPT ![bind] = "poll"] /\ control' = "handle" /\ UNCHANGED <<running, bind, listening>>
    <3>1. loop'[bind] = "poll" /\ \A b \in Listener \ {bind} : loop'[b] = "none" BY <2>1, <2>2 DEF Door, Closed
    <3> QED BY <1>5, <2>1, <2>2, <3>1 DEF start_Create, Door, Closed
  <2>3. CASE running' = FALSE /\ bind' = NoListener /\ listening' = listening \ {bind} /\ control' = "idle" /\ UNCHANGED loop
      BY <1>5, <2>1, <2>3 DEF start_Create, Door, Closed
  <2> QED BY <1>5, <2>2, <2>3 DEF start_Create
<1>6. CASE start_Handle BY <1>6 DEF start_Handle, Door, Closed, Listener, NoListener
<1>7. CASE stop_AcceptWaited BY <1>7 DEF stop_AcceptWaited, Door, Closed
<1>8. CASE stop_SessionsWaited BY <1>8 DEF stop_SessionsWaited, Door, Closed
<1> QED BY <1>1, <1>2, <1>3, <1>4, <1>5, <1>6, <1>7, <1>8 DEF controlStep

\* The accept task: whichever listener it was made for, it is the only one.
LEMMA DoorWatched ==
    ASSUME Door, NEW b \in Listener,
           acceptLoop(b) \/ acceptLoop_Accepted(b) \/ acceptLoop_Serve(b) \/ acceptLoop_Free(b) \/ acceptLoop_Gone(b)
    PROVE  Door'
<1>1. loop[b] # "none"
    BY DEF acceptLoop, acceptLoop_Accepted, acceptLoop_Serve, acceptLoop_Free, acceptLoop_Gone
<1>2. bind = b /\ \A d \in Listener \ {b} : loop[d] = "none" BY <1>1 DEF Door, Closed
<1>3. acceptTask = b \/ (acceptTask = NoListener /\ control = "handle") BY <1>1, <1>2 DEF Door, Closed
<1>4. PICK to \in {"none", "poll", "accept", "judged", "leaving", "freed"} : loop' = [loop EXCEPT ![b] = to]
    BY DEF acceptLoop, acceptLoop_Accepted, acceptLoop_Serve, acceptLoop_Free, acceptLoop_Gone
<1>5. loop'[b] = to /\ \A d \in Listener \ {b} : loop'[d] = "none" BY <1>2, <1>4 DEF Door
<1>6. loop' \in [Listener -> {"none", "poll", "accept", "judged", "leaving", "freed"}] BY <1>4 DEF Door
<1>7. CASE acceptLoop(b)
    BY <1>2, <1>3, <1>5, <1>6, <1>7 DEF acceptLoop, Door, Closed, Listener, NoListener
<1>8. CASE acceptLoop_Accepted(b)
    BY <1>2, <1>3, <1>5, <1>6, <1>8 DEF acceptLoop_Accepted, Door, Closed, Listener, NoListener
<1>9. CASE acceptLoop_Serve(b)
    BY <1>2, <1>3, <1>5, <1>6, <1>9 DEF acceptLoop_Serve, Door, Closed, Listener, NoListener
<1>10. CASE acceptLoop_Free(b)
    BY <1>2, <1>3, <1>5, <1>6, <1>10 DEF acceptLoop_Free, Door, Closed, Listener, NoListener
<1>11. CASE acceptLoop_Gone(b)
    BY <1>2, <1>3, <1>5, <1>6, <1>11 DEF acceptLoop_Gone, Door, Closed, Listener, NoListener
<1> QED BY <1>7, <1>8, <1>9, <1>10, <1>11

\* A session goes on: the number of them stays.
LEMMA SessionGoesOn ==
    ASSUME Inside, NEW c \in Connection, NEW s \in Sessions, session' = [session EXCEPT ![c] = s],
           session[c].step # "none", s.step # "none", active' = active,
           s.step \in {"shell", "command", "browser"} => s.passed
    PROVE  Inside'
<1>1. session' \in [Connection -> Sessions] /\ session'[c] = s BY DEF Inside
<1>2. \A d \in Connection \ {c} : session'[d] = session[d] BY DEF Inside
<1>3. Alive' = Alive BY <1>1, <1>2 DEF Alive
<1> QED BY <1>1, <1>2, <1>3 DEF Inside

\* The record a session has after a step of its own or of its client, and that no
\* console is opened once the wrong passwords are used up.
LEMMA SessionSteps ==
    ASSUME Inside, NEW c \in Connection,
           \/ runSession(c) \/ onChannelOpen(c) \/ onShellRequest(c)
           \/ \E right \in BOOLEAN : onAuthPassword(c, right)
           \/ runSession_Login(c) \/ runSession_Shell(c) \/ runConsoleLine(c)
    PROVE  \E s \in Sessions :
              /\ session' = [session EXCEPT ![c] = s] /\ session[c].step # "none" /\ s.step # "none"
              /\ active' = active /\ UNCHANGED otherVars
              /\ s.step \in {"shell", "command", "browser"} => s.passed
              /\ session[c].wrong = AttemptsMax => (s.passed => session[c].passed)
<1> DEFINE was == session[c]
<1>1. was \in Sessions BY DEF Inside
<1>2. was.step \in {"shell", "command", "browser"} => was.passed BY DEF Inside
<1>3. ASSUME NEW to \in {"login", "shell", "command", "browser", "closing"}, moves(c, to), UNCHANGED <<otherVars, active>>,
             was.step # "none", to \in {"shell", "command", "browser"} => was.passed
      PROVE  \E s \in Sessions :
              /\ session' = [session EXCEPT ![c] = s] /\ session[c].step # "none" /\ s.step # "none"
              /\ active' = active /\ UNCHANGED otherVars
              /\ s.step \in {"shell", "command", "browser"} => s.passed
              /\ session[c].wrong = AttemptsMax => (s.passed => session[c].passed)
  <2> DEFINE s == [was EXCEPT !.step = to]
  <2>1. s \in Sessions /\ s.step = to /\ s.passed = was.passed BY <1>1 DEF Sessions
  <2>2. session' = [session EXCEPT ![c] = s] BY <1>3 DEF moves
  <2> HIDE DEF s
  <2> QED BY <1>3, <2>1, <2>2
<1>4. ASSUME NEW to \in {"channel", "shell"}, session' = [session EXCEPT ![c].asked = to], was.step = "login",
             UNCHANGED <<otherVars, active>>
      PROVE  \E s \in Sessions :
              /\ session' = [session EXCEPT ![c] = s] /\ session[c].step # "none" /\ s.step # "none"
              /\ active' = active /\ UNCHANGED otherVars
              /\ s.step \in {"shell", "command", "browser"} => s.passed
              /\ session[c].wrong = AttemptsMax => (s.passed => session[c].passed)
  <2> DEFINE s == [was EXCEPT !.asked = to]
  <2>1. s \in Sessions /\ s.step = "login" /\ s.passed = was.passed BY <1>1, <1>4 DEF Sessions
  <2>2. session' = [session EXCEPT ![c] = s] BY <1>4
  <2> HIDE DEF s
  <2> QED BY <1>4, <2>1, <2>2
<1>5. ASSUME NEW right \in BOOLEAN, onAuthPassword(c, right)
      PROVE  \E s \in Sessions :
              /\ session' = [session EXCEPT ![c] = s] /\ session[c].step # "none" /\ s.step # "none"
              /\ active' = active /\ UNCHANGED otherVars
              /\ s.step \in {"shell", "command", "browser"} => s.passed
              /\ session[c].wrong = AttemptsMax => (s.passed => session[c].passed)
  <2> DEFINE passed == was.passed \/ right
             wrong == IF right THEN was.wrong ELSE was.wrong + 1
             s == [was EXCEPT !.passed = passed, !.wrong = wrong]
  <2>1. was.step = "login" /\ was.wrong < AttemptsMax /\ UNCHANGED <<otherVars, active>> BY <1>5 DEF onAuthPassword
  <2>2. passed \in BOOLEAN OBVIOUS
  <2>3. wrong \in 0 .. AttemptsMax
    <3>1. was.wrong \in 0 .. AttemptsMax BY <1>1 DEF Sessions
    <3> QED BY <2>1, <3>1, SshAssumption
  <2>4. session' = [session EXCEPT ![c] = s] BY <1>5 DEF onAuthPassword
  <2>5. was.wrong # AttemptsMax
    <3>1. was.wrong \in 0 .. AttemptsMax BY <1>1 DEF Sessions
    <3> QED BY <2>1, <3>1, SshAssumption
  <2> HIDE DEF passed, wrong
  <2>6. s \in Sessions /\ s.step = "login" BY <1>1, <2>1, <2>2, <2>3 DEF Sessions
  <2> HIDE DEF s
  <2> QED BY <2>1, <2>4, <2>5, <2>6
<1>6. CASE runSession(c) BY <1>3, <1>6 DEF runSession
<1>7. CASE onChannelOpen(c) BY <1>4, <1>7 DEF onChannelOpen
<1>8. CASE onShellRequest(c) BY <1>4, <1>8 DEF onShellRequest
<1>9. CASE runSession_Login(c) BY <1>3, <1>9 DEF runSession_Login
<1>10. CASE runSession_Shell(c) BY <1>2, <1>3, <1>10 DEF runSession_Shell
<1>11. CASE runConsoleLine(c) BY <1>2, <1>3, <1>11 DEF runConsoleLine
<1> QED BY <1>5, <1>6, <1>7, <1>8, <1>9, <1>10, <1>11

LEMMA SessionOpens ==
    ASSUME Inside, NEW b \in Listener, acceptLoop_Serve(b)
    PROVE  Inside' /\ \A d \in Connection : session'[d] = session[d] \/ (session'[d].step = "exchange" /\ ~session'[d].passed)
<1>1. CASE UNCHANGED <<session, active>> BY <1>1 DEF Inside, Alive
<1>2. CASE ~UNCHANGED <<session, active>>
  <2> DEFINE new == [NoSession EXCEPT !.step = "exchange"]
  <2>1. PICK c \in Connection : session[c].step = "none" /\ session' = [session EXCEPT ![c] = new]
      BY <1>2 DEF acceptLoop_Serve
  <2>2. active < MaxSessions /\ active' = active + 1 BY <1>2 DEF acceptLoop_Serve
  <2>3. new \in Sessions /\ new.step = "exchange" /\ new.passed = FALSE
    <3>1. NoSession \in Sessions /\ NoSession.passed = FALSE BY SshAssumption DEF NoSession, Sessions
    <3> QED BY <3>1 DEF Sessions
  <2> HIDE DEF new
  <2>4. session' \in [Connection -> Sessions] /\ session'[c] = new BY <2>1, <2>3 DEF Inside
  <2>5. \A d \in Connection \ {c} : session'[d] = session[d] BY <2>1 DEF Inside
  <2>6. Alive' = Alive \cup {c} /\ c \notin Alive BY <2>1, <2>3, <2>4, <2>5 DEF Alive
  <2>7. IsFiniteSet(Alive) /\ Cardinality(Alive) \in Nat BY AliveIsFinite DEF Alive
  <2>8. Cardinality(Alive') = Cardinality(Alive) + 1 BY <2>6, <2>7, FS_AddElement
  <2>9. active' = Cardinality(Alive)' /\ active' <= MaxSessions BY <2>2, <2>7, <2>8, SshAssumption DEF Inside
  <2>10. \A d \in Connection : session'[d].step \in {"shell", "command", "browser"} => session'[d].passed
      BY <2>3, <2>4, <2>5 DEF Inside
  <2> QED BY <2>3, <2>4, <2>5, <2>9, <2>10 DEF Inside
<1> QED BY <1>1, <1>2

LEMMA SessionCloses ==
    ASSUME Inside, NEW c \in Connection, runSession_Close(c)
    PROVE  Inside' /\ \A d \in Connection : session'[d] = session[d] \/ (session'[d].step = "none" /\ ~session'[d].passed)
<1>1. session[c].step = "closing" /\ session' = [session EXCEPT ![c] = NoSession] /\ active' = active - 1
    BY DEF runSession_Close
<1>2. NoSession \in Sessions /\ NoSession.step = "none" /\ NoSession.passed = FALSE BY SshAssumption DEF NoSession, Sessions
<1>3. session' \in [Connection -> Sessions] /\ session'[c] = NoSession BY <1>1, <1>2 DEF Inside
<1>4. \A d \in Connection \ {c} : session'[d] = session[d] BY <1>1 DEF Inside
<1>5. Alive' = Alive \ {c} /\ c \in Alive BY <1>1, <1>2, <1>3, <1>4 DEF Alive
<1>6. IsFiniteSet(Alive) /\ Cardinality(Alive) \in Nat BY AliveIsFinite DEF Alive
<1>7. Cardinality(Alive') = Cardinality(Alive) - 1 BY <1>5, <1>6, FS_RemoveElement
<1>8. active' = Cardinality(Alive)' /\ active' <= MaxSessions BY <1>1, <1>6, <1>7, SshAssumption DEF Inside
<1>9. \A d \in Connection : session'[d].step \in {"shell", "command", "browser"} => session'[d].passed
    BY <1>2, <1>3, <1>4 DEF Inside
<1> QED BY <1>2, <1>3, <1>4, <1>8, <1>9 DEF Inside

\* What becomes of the sessions in any step: one that used up its wrong passwords
\* is as far from a console as before.
Unearned(c) == session[c].wrong = AttemptsMax /\ ~session[c].passed

LEMMA SshInductive ==
    ASSUME SshInv, [SshNext]_sshVars
    PROVE  SshInv' /\ \A c \in Connection : Unearned(c) => ~session'[c].passed
<1>1. Door /\ Inside BY DEF SshInv
<1>2. CASE UNCHANGED sshVars
  <2>1. Door' BY <1>1, <1>2 DEF sshVars, Door, Closed
  <2>2. Inside' BY <1>1, <1>2 DEF sshVars, Inside, Alive
  <2> QED BY <1>2, <2>1, <2>2 DEF SshInv, sshVars, Unearned
<1>3. CASE start \/ stop \/ controlStep
  <2>1. UNCHANGED <<session, active>>
      BY <1>3 DEF start, stop, controlStep, start_Fails, start_Listen, start_Create, start_Handle, stop_AcceptWaited,
                  stop_SessionsWaited
  <2>2. Inside' BY <1>1, <2>1 DEF Inside, Alive
  <2> QED BY <1>1, <1>3, <2>1, <2>2, DoorControlled DEF SshInv, Unearned
<1>4. ASSUME NEW b \in Listener, acceptLoop(b) \/ acceptLoop_Accepted(b) \/ acceptLoop_Free(b) \/ acceptLoop_Gone(b)
      PROVE  SshInv' /\ \A c \in Connection : Unearned(c) => ~session'[c].passed
  <2>1. UNCHANGED <<session, active>>
      BY <1>4 DEF acceptLoop, acceptLoop_Accepted, acceptLoop_Free, acceptLoop_Gone
  <2>2. Inside' BY <1>1, <2>1 DEF Inside, Alive
  <2> QED BY <1>1, <1>4, <2>1, <2>2, DoorWatched DEF SshInv, Unearned
<1>5. ASSUME NEW b \in Listener, acceptLoop_Serve(b)
      PROVE  SshInv' /\ \A c \in Connection : Unearned(c) => ~session'[c].passed
    BY <1>1, <1>5, DoorWatched, SessionOpens DEF SshInv, Unearned
<1>6. ASSUME NEW c \in Connection, runSession_Close(c)
      PROVE  SshInv' /\ \A d \in Connection : Unearned(d) => ~session'[d].passed
  <2>1. Door' BY <1>1, <1>6 DEF runSession_Close, otherVars, Door, Closed
  <2> QED BY <1>1, <1>6, <2>1, SessionCloses DEF SshInv, Unearned
<1>7. ASSUME NEW c \in Connection,
             \/ runSession(c) \/ onChannelOpen(c) \/ onShellRequest(c)
             \/ \E right \in BOOLEAN : onAuthPassword(c, right)
             \/ runSession_Login(c) \/ runSession_Shell(c) \/ runConsoleLine(c)
      PROVE  SshInv' /\ \A d \in Connection : Unearned(d) => ~session'[d].passed
  <2>1. PICK s \in Sessions :
              /\ session' = [session EXCEPT ![c] = s] /\ session[c].step # "none" /\ s.step # "none"
              /\ active' = active /\ UNCHANGED otherVars
              /\ s.step \in {"shell", "command", "browser"} => s.passed
              /\ session[c].wrong = AttemptsMax => (s.passed => session[c].passed)
      BY <1>1, <1>7, SessionSteps
  <2>2. Inside' BY <1>1, <2>1, SessionGoesOn
  <2>3. Door' BY <1>1, <2>1 DEF otherVars, Door, Closed
  <2>4. \A d \in Connection : session'[d] = IF d = c THEN s ELSE session[d] BY <1>1, <2>1 DEF Inside
  <2> QED BY <2>1, <2>2, <2>3, <2>4 DEF SshInv, Unearned
<1> QED BY <1>2, <1>3, <1>4, <1>5, <1>6, <1>7 DEF SshNext, acceptStep

\* The SSH server keeps its listener and its limit.
LEMMA DoorIsSafe == SshInv => SshTypeOK /\ LoopHasListener /\ SessionsBounded
<1> SUFFICES ASSUME SshInv PROVE SshTypeOK /\ LoopHasListener /\ SessionsBounded OBVIOUS
<1>1. Door /\ Inside BY DEF SshInv
<1>2. Cardinality(Alive) \in 0 .. Cardinality(Connection)
  <2>1. Cardinality(Alive) \in Nat /\ Cardinality(Alive) <= Cardinality(Connection) BY AliveIsFinite DEF Alive
  <2>2. Cardinality(Connection) \in Nat BY SshAssumption, FS_CardinalityType
  <2> QED BY <2>1, <2>2
<1>3. active \in 0 .. Cardinality(Connection) BY <1>1, <1>2 DEF Inside
<1>4. SshTypeOK BY <1>1, <1>3 DEF SshTypeOK, Door, Inside
<1>5. LoopHasListener BY <1>1 DEF LoopHasListener, Door
<1>6. SessionsBounded BY <1>1 DEF SessionsBounded, Inside
<1> QED BY <1>4, <1>5, <1>6

\* A console is paid for with a password: a session that used up its wrong ones
\* gets none any more, whatever its client asks for and in whatever order.
THEOREM ConsolesAreEarned == Spec => ShellIsEarned
<1>1. Init => SshInv BY SshStart DEF Init
<1>2. SshInv /\ [Next]_vars => SshInv' BY OneAtATime, SshInductive
<1>3. SshInv /\ SshInv' /\ [Next]_vars =>
         [\A c \in Connection : session[c].wrong = AttemptsMax /\ ~session[c].passed
              => ~session'[c].passed /\ session'[c].step # "shell"]_sshVars
  <2> SUFFICES ASSUME SshInv, SshInv', [Next]_vars, NEW c \in Connection, Unearned(c)
               PROVE  ~session'[c].passed /\ session'[c].step # "shell"
      BY DEF Unearned
  <2>1. ~session'[c].passed BY OneAtATime, SshInductive
  <2>2. session'[c].step = "shell" => session'[c].passed BY DEF SshInv, Inside
  <2> QED BY <2>1, <2>2
<1> QED BY <1>1, <1>2, <1>3, PTL DEF Spec, ShellIsEarned

-----------------------------------------------------------------------------
(***************************************************************************)
(* The schedule of the clock: no probe is of a run to come, a run is given *)
(* its servers before it is given its number, and a flag that says a probe *)
(* is under way says it of a probe that will see its own run.              *)
(***************************************************************************)
\* A probe that will go on with the schedule of the run there is.
Carries(p) == probe[p].step = "new" \/ (probe[p].step = "asks" /\ probe[p].run = syncRun)
ProbeType == [step : {"none", "new", "asks"}, run : 0..MaxSecond, asked : Servers]
Schedule ==
    /\ syncRun <= second
    /\ page \in {"on", "off", "started"} => syncRun < second
    /\ page \in {"started", "armed"} => sntpStarted
    /\ \A p \in Probe : probe[p].step = "asks" => probe[p].run <= syncRun
    /\ sntpStarted /\ page \in {"idle", "armed"} =>
           \A p \in Probe : probe[p].step = "asks" /\ probe[p].run = syncRun => probe[p].asked = servers
    /\ probeRunning => \E p \in Probe : Carries(p)
    /\ sntpStarted /\ ~synced /\ page = "idle" /\ ~crossed =>
           syncStateTimer # Off \/ callback \in {"fired", "beat"} \/ \E p \in Probe : Carries(p)
SyncInv == TimeSyncTypeOK /\ Schedule

\* The types, flags and the rest apart.
SyncFlags == sntpStarted \in BOOLEAN /\ synced \in BOOLEAN /\ probeRunning \in BOOLEAN /\ crossed \in BOOLEAN
SyncRest ==
    /\ second \in 1..MaxSecond /\ syncRun \in 0..MaxSecond /\ servers \in Servers
    /\ syncStateTimer \in 0..MaxSecond + 1 /\ probe \in [Probe -> ProbeType]
    /\ callback \in {"idle", "fired", "stop", "beat"}
    /\ page \in {"idle", "on", "off", "started", "armed"}

LEMMA SyncTypes == TimeSyncTypeOK <=> SyncFlags /\ SyncRest
BY DEF TimeSyncTypeOK, SyncFlags, SyncRest, ProbeType
LEMMA SyncAgain == SyncFlags' /\ SyncRest' /\ Schedule' => SyncInv'
BY DEF SyncInv, TimeSyncTypeOK, SyncFlags, SyncRest, ProbeType

LEMMA SyncStart == TimeSyncInit => SyncInv
<1> SUFFICES ASSUME TimeSyncInit PROVE SyncInv OBVIOUS
<1>1. NoProbe \in ProbeType /\ NoProbe.step = "none" BY TimeSyncAssumption DEF NoProbe, ProbeType
<1>2. probe \in [Probe -> ProbeType] /\ \A p \in Probe : probe[p].step = "none" BY <1>1 DEF TimeSyncInit
<1>3. SyncFlags BY DEF TimeSyncInit, SyncFlags
<1>4. SyncRest BY <1>2, TimeSyncAssumption DEF TimeSyncInit, SyncRest, Off
<1>5. Schedule BY <1>2 DEF TimeSyncInit, Schedule
<1> QED BY <1>3, <1>4, <1>5, SyncTypes DEF SyncInv

\* The number that arms the timer is one, and is not Off.
LEMMA Armed == SyncRest => second + 1 \in 0..MaxSecond + 1 /\ second + 1 # Off /\ Off \in 0..MaxSecond + 1
BY TimeSyncAssumption DEF SyncRest, Off

\* The page, the settings file or the network.
LEMMA SyncPaged ==
    ASSUME SyncInv, pageStep \/ \E list \in Servers, on \in BOOLEAN : setServers(list, on)
    PROVE  SyncInv'
<1>1. SyncFlags /\ SyncRest /\ Schedule BY SyncTypes DEF SyncInv
<1>2. second + 1 \in 0..MaxSecond + 1 /\ second + 1 # Off /\ Off \in 0..MaxSecond + 1 BY <1>1, Armed
<1>3. ASSUME NEW list \in Servers, NEW on \in BOOLEAN, setServers(list, on) PROVE SyncInv'
  <2>1. /\ page = "idle" /\ syncRun < second /\ page' \in {"on", "off"} /\ servers' = list
        /\ UNCHANGED <<second, synced, syncRun, probeRunning, probe, callback, crossed>>
        /\ sntpStarted' = sntpStarted \/ sntpStarted' = FALSE
        /\ syncStateTimer' = syncStateTimer \/ syncStateTimer' = Off
      BY <1>3 DEF setServers, stopSyncQuiet, stopSyncStateTimer
  <2>2. SyncFlags' BY <1>1, <2>1 DEF SyncFlags
  <2>3. SyncRest' BY <1>1, <1>2, <2>1 DEF SyncRest
  <2>4. Schedule' BY <1>1, <2>1 DEF Schedule, Carries
  <2> QED BY <2>2, <2>3, <2>4, SyncAgain
<1>4. CASE stopSync
  <2>1. /\ page = "off" /\ page' = "idle" /\ sntpStarted' = FALSE
        /\ UNCHANGED <<second, synced, servers, syncRun, probeRunning, probe, callback, crossed>>
        /\ syncStateTimer' = syncStateTimer \/ syncStateTimer' = Off
      BY <1>4 DEF stopSync, stopSyncQuiet, stopSyncStateTimer
  <2>2. SyncFlags' BY <1>1, <2>1 DEF SyncFlags
  <2>3. SyncRest' BY <1>1, <1>2, <2>1 DEF SyncRest
  <2>4. Schedule' BY <1>1, <2>1 DEF Schedule, Carries
  <2> QED BY <2>2, <2>3, <2>4, SyncAgain
<1>5. CASE restartSync
  <2>1. /\ page = "on" /\ page' = "started" /\ sntpStarted' = TRUE
        /\ UNCHANGED <<second, synced, servers, syncRun, probeRunning, probe, callback, crossed>>
        /\ syncStateTimer' = syncStateTimer \/ syncStateTimer' = Off
      BY <1>5 DEF restartSync, stopSyncStateTimer
  <2>2. SyncFlags' BY <1>1, <2>1 DEF SyncFlags
  <2>3. SyncRest' BY <1>1, <1>2, <2>1 DEF SyncRest
  <2>4. Schedule' BY <1>1, <2>1 DEF Schedule, Carries
  <2> QED BY <2>2, <2>3, <2>4, SyncAgain
<1>6. CASE startSync
  <2>1. /\ page = "started" /\ page' = "armed" /\ syncRun' = second /\ probeRunning' = FALSE
        /\ UNCHANGED <<second, sntpStarted, synced, servers, syncStateTimer, probe, callback, crossed>>
      BY <1>6 DEF startSync
  <2>2. SyncFlags' BY <1>1, <2>1 DEF SyncFlags
  <2>3. second \in 1..MaxSecond /\ second \in 0..MaxSecond /\ syncRun \in Nat /\ second \in Nat /\ syncRun < second
      BY <1>1, <2>1, TimeSyncAssumption DEF SyncRest, Schedule
  <2>4. SyncRest' BY <1>1, <2>1, <2>3 DEF SyncRest
  <2>5. \A p \in Probe : probe[p].step = "asks" => probe[p].run <= second /\ probe[p].run # second
    <3> SUFFICES ASSUME NEW p \in Probe, probe[p].step = "asks" PROVE probe[p].run <= second /\ probe[p].run # second
        OBVIOUS
    <3>1. probe[p].run \in 0..MaxSecond BY <1>1 DEF SyncRest, ProbeType
    <3>2. probe[p].run \in Nat BY <3>1, TimeSyncAssumption
    <3>3. probe[p].run <= syncRun BY <1>1 DEF Schedule
    <3> QED BY <2>3, <3>2, <3>3
  <2>6. sntpStarted BY <1>1, <2>1 DEF Schedule
  <2>7. Schedule' BY <2>1, <2>3, <2>5, <2>6 DEF Schedule
  <2> QED BY <2>2, <2>4, <2>7, SyncAgain
<1>7. CASE startSync_Arm
  <2>1. /\ page = "armed" /\ page' = "idle" /\ syncStateTimer' = second + 1
        /\ UNCHANGED <<second, sntpStarted, synced, servers, syncRun, probeRunning, probe, callback, crossed>>
      BY <1>7 DEF startSync_Arm, armSyncStateTimer
  <2>2. SyncFlags' BY <1>1, <2>1 DEF SyncFlags
  <2>3. SyncRest' BY <1>1, <1>2, <2>1 DEF SyncRest
  <2>4. Schedule' BY <1>1, <1>2, <2>1 DEF Schedule, Carries
  <2> QED BY <2>2, <2>3, <2>4, SyncAgain
<1> QED BY <1>3, <1>4, <1>5, <1>6, <1>7 DEF pageStep

\* Time, the timer, its callback and the answer of a server.
LEMMA SyncTimed ==
    ASSUME SyncInv, syncSecondPasses \/ timerFires \/ onSyncNotification \/ onSyncStateTimer \/ onSyncStateTimer_Stop
    PROVE  SyncInv'
<1>1. SyncFlags /\ SyncRest /\ Schedule BY SyncTypes DEF SyncInv
<1>2. Off \in 0..MaxSecond + 1 BY <1>1, Armed
<1>3. CASE syncSecondPasses
  <2>1. /\ second < MaxSecond /\ second' = second + 1
        /\ UNCHANGED <<sntpStarted, synced, servers, syncRun, syncStateTimer, probeRunning, probe, callback, page, crossed>>
      BY <1>3 DEF syncSecondPasses
  <2>2. SyncFlags' BY <1>1, <2>1 DEF SyncFlags
  <2>3. second \in Nat /\ syncRun \in Nat /\ MaxSecond \in Nat /\ second' \in 1..MaxSecond
      BY <1>1, <2>1, TimeSyncAssumption DEF SyncRest
  <2>4. SyncRest' BY <1>1, <2>1, <2>3 DEF SyncRest
  <2>5. syncRun <= second BY <1>1 DEF Schedule
  <2>6. syncRun < second' /\ syncRun <= second' BY <2>1, <2>3, <2>5
  <2>7. Schedule' BY <1>1, <2>1, <2>6 DEF Schedule, Carries
  <2> QED BY <2>2, <2>4, <2>7, SyncAgain
<1>4. CASE timerFires
  <2>1. SyncFlags' BY <1>1, <1>4 DEF SyncFlags, timerFires
  <2>2. SyncRest' BY <1>1, <1>2, <1>4 DEF SyncRest, timerFires
  <2>3. Schedule' BY <1>1, <1>4 DEF Schedule, timerFires, Carries
  <2> QED BY <2>1, <2>2, <2>3, SyncAgain
<1>5. CASE onSyncNotification
  <2>1. SyncFlags' BY <1>1, <1>5 DEF SyncFlags, onSyncNotification
  <2>2. SyncRest' BY <1>1, <1>2, <1>5 DEF SyncRest, onSyncNotification, stopSyncStateTimer
  <2>3. Schedule' BY <1>1, <1>5 DEF Schedule, onSyncNotification, Carries
  <2> QED BY <2>1, <2>2, <2>3, SyncAgain
<1>6. CASE onSyncStateTimer
  <2>1. SyncFlags' BY <1>1, <1>6 DEF SyncFlags, onSyncStateTimer
  <2>2. SyncRest' BY <1>1, <1>6 DEF SyncRest, onSyncStateTimer
  <2>3. Schedule' BY <1>1, <1>6 DEF Schedule, onSyncStateTimer, Carries, SyncFlags
  <2> QED BY <2>1, <2>2, <2>3, SyncAgain
<1>7. CASE onSyncStateTimer_Stop
  <2>1. crossed' = TRUE \/ (crossed' = crossed /\ syncStateTimer = Off)
      BY <1>1, <1>7 DEF onSyncStateTimer_Stop, SyncFlags
  <2>2. SyncFlags' BY <1>1, <1>7, <2>1 DEF SyncFlags, onSyncStateTimer_Stop
  <2>3. SyncRest' BY <1>1, <1>2, <1>7 DEF SyncRest, onSyncStateTimer_Stop, stopSyncStateTimer
  <2>4. Schedule' BY <1>1, <1>7, <2>1 DEF Schedule, onSyncStateTimer_Stop, Carries
  <2> QED BY <2>2, <2>3, <2>4, SyncAgain
<1> QED BY <1>3, <1>4, <1>5, <1>6, <1>7

\* A probe begins, asks and comes back.
LEMMA SyncProbed ==
    ASSUME SyncInv, startProbeTask \/ probeStep
    PROVE  SyncInv'
<1>1. SyncFlags /\ SyncRest /\ Schedule BY SyncTypes DEF SyncInv
<1>2. second + 1 \in 0..MaxSecond + 1 /\ second + 1 # Off BY <1>1, Armed
<1>3. ASSUME NEW p \in Probe, NEW new \in ProbeType, probe' = [probe EXCEPT ![p] = new]
      PROVE  /\ probe' \in [Probe -> ProbeType] /\ probe'[p] = new
             /\ \A q \in Probe \ {p} : probe'[q] = probe[q]
    BY <1>1, <1>3 DEF SyncRest
<1>4. CASE startProbeTask
  <2>1. callback = "beat" /\ callback' = "idle" /\ UNCHANGED <<second, sntpStarted, synced, servers, syncRun, page, crossed>>
      BY <1>4 DEF startProbeTask
  <2>2. CASE syncStateTimer' = second + 1 /\ probeRunning' = (servers = NoServers /\ probeRunning) /\ UNCHANGED probe
    <3>1. probeRunning' \in BOOLEAN /\ (probeRunning' => probeRunning) BY <1>1, <2>2 DEF SyncFlags
    <3>2. SyncFlags' BY <1>1, <2>1, <3>1 DEF SyncFlags
    <3>3. SyncRest' BY <1>1, <1>2, <2>1, <2>2 DEF SyncRest
    <3>4. Schedule' BY <1>1, <1>2, <2>1, <2>2, <3>1 DEF Schedule, Carries
    <3> QED BY <3>2, <3>3, <3>4, SyncAgain
  <2>3. CASE /\ probeRunning' = TRUE /\ UNCHANGED syncStateTimer
             /\ \E p \in Probe : probe[p].step = "none" /\ probe' = [probe EXCEPT ![p].step = "new"]
    <3>1. PICK p \in Probe : probe[p].step = "none" /\ probe' = [probe EXCEPT ![p].step = "new"] BY <2>3
    <3> DEFINE new == [probe[p] EXCEPT !.step = "new"]
    <3>2. probe[p] \in ProbeType BY <1>1 DEF SyncRest
    <3>3. new \in ProbeType /\ new.step = "new" BY <3>2 DEF ProbeType
    <3>4. probe' = [probe EXCEPT ![p] = new] BY <3>1
    <3> HIDE DEF new
    <3>5. /\ probe' \in [Probe -> ProbeType] /\ probe'[p] = new
          /\ \A q \in Probe \ {p} : probe'[q] = probe[q]
        BY <1>3, <3>3, <3>4
    <3>6. Carries(p)' BY <3>3, <3>5 DEF Carries
    <3>7. SyncFlags' BY <1>1, <2>1, <2>3 DEF SyncFlags
    <3>8. SyncRest' BY <1>1, <2>1, <2>3, <3>5 DEF SyncRest
    <3>9. \E q \in Probe : Carries(q)' BY <3>6
    <3>10. Schedule' BY <1>1, <2>1, <2>3, <3>3, <3>5, <3>9 DEF Schedule
    <3> QED BY <3>7, <3>8, <3>10, SyncAgain
  <2> QED BY <1>4, <2>2, <2>3 DEF startProbeTask, armSyncStateTimer
<1>5. ASSUME NEW p \in Probe, probeTask(p) PROVE SyncInv'
  <2> DEFINE new == [step |-> "asks", run |-> syncRun, asked |-> servers]
  <2>1. new \in ProbeType /\ new.step = "asks" /\ new.run = syncRun /\ new.asked = servers
      BY <1>1 DEF ProbeType, SyncRest
  <2>2. /\ probe[p].step = "new" /\ probe' = [probe EXCEPT ![p] = new]
        /\ UNCHANGED <<second, sntpStarted, synced, servers, syncRun, syncStateTimer, probeRunning, callback, page, crossed>>
      BY <1>5 DEF probeTask
  <2> HIDE DEF new
  <2>3. /\ probe' \in [Probe -> ProbeType] /\ probe'[p] = new
        /\ \A q \in Probe \ {p} : probe'[q] = probe[q]
      BY <1>3, <2>1, <2>2
  <2>4. SyncFlags' BY <1>1, <2>2 DEF SyncFlags
  <2>5. SyncRest' BY <1>1, <2>2, <2>3 DEF SyncRest
  <2>6. Carries(p)' BY <2>1, <2>2, <2>3 DEF Carries
  <2>7. \E q \in Probe : Carries(q)' BY <2>6
  <2>8. syncRun <= syncRun BY <1>1, TimeSyncAssumption DEF SyncRest
  <2>9. Schedule' BY <1>1, <2>1, <2>2, <2>3, <2>7, <2>8 DEF Schedule
  <2> QED BY <2>4, <2>5, <2>9, SyncAgain
<1>6. ASSUME NEW p \in Probe, probeTask_End(p) PROVE SyncInv'
  <2>1. NoProbe \in ProbeType /\ NoProbe.step = "none" BY TimeSyncAssumption DEF NoProbe, ProbeType
  <2>2. /\ probe[p].step = "asks" /\ probe' = [probe EXCEPT ![p] = NoProbe]
        /\ UNCHANGED <<second, sntpStarted, synced, servers, syncRun, callback, page, crossed>>
        /\ probeRunning' = (probeRunning /\ ~(probe[p].run = syncRun))
        /\ IF probe[p].run = syncRun /\ sntpStarted /\ ~synced THEN syncStateTimer' = second + 1 ELSE UNCHANGED syncStateTimer
      BY <1>6 DEF probeTask_End, armSyncStateTimer
  <2>3. /\ probe' \in [Probe -> ProbeType] /\ probe'[p] = NoProbe
        /\ \A q \in Probe \ {p} : probe'[q] = probe[q]
      BY <1>3, <2>1, <2>2
  <2>4. probeRunning' \in BOOLEAN /\ (probeRunning' => probeRunning /\ probe[p].run # syncRun) BY <1>1, <2>2 DEF SyncFlags
  <2>5. SyncFlags' BY <1>1, <2>2, <2>4 DEF SyncFlags
  <2>6. SyncRest' BY <1>1, <1>2, <2>2, <2>3 DEF SyncRest
  <2>7. probe[p].run # syncRun => \A q \in Probe : Carries(q) => Carries(q)' BY <2>2, <2>3 DEF Carries
  <2>8. probeRunning' => \E q \in Probe : Carries(q)' BY <1>1, <2>4, <2>7 DEF Schedule
  <2>9. sntpStarted' /\ ~synced' /\ page' = "idle" /\ ~crossed' =>
           syncStateTimer' # Off \/ callback' \in {"fired", "beat"} \/ \E q \in Probe : Carries(q)'
      BY <1>1, <1>2, <2>2, <2>7 DEF Schedule
  <2>10. Schedule' BY <1>1, <2>1, <2>2, <2>3, <2>8, <2>9 DEF Schedule
  <2> QED BY <2>5, <2>6, <2>10, SyncAgain
<1> QED BY <1>4, <1>5, <1>6 DEF probeStep

LEMMA SyncInductive == SyncInv /\ [TimeSyncNext]_timeSyncVars => SyncInv'
<1> SUFFICES ASSUME SyncInv, [TimeSyncNext]_timeSyncVars PROVE SyncInv' OBVIOUS
<1>1. CASE UNCHANGED timeSyncVars
    BY <1>1 DEF timeSyncVars, SyncInv, TimeSyncTypeOK, Schedule, Carries
<1>2. CASE TimeSyncNext
    BY <1>2, SyncPaged, SyncTimed, SyncProbed DEF TimeSyncNext, callbackStep
<1> QED BY <1>1, <1>2

-----------------------------------------------------------------------------
(***************************************************************************)
(* The replies of the time server.  While the window of the watched client *)
(* is open its counter covers the replies since the window began, and the  *)
(* ones before are another window's; once it is over, no reply was given   *)
(* in this tick.  Nothing is said of the ticks before the slot was lost.   *)
(***************************************************************************)
RateSlot == 1 .. RateSlots
Own(i) == rateSlots[i].ip = Watched
Span(i) == tick - rateSlots[i].start

\* The counter `count` of a window that began `span` ticks ago covers the replies.
Covers(replies, lost, span, count) ==
    /\ span >= Window => replies[1] = 0
    /\ \A d \in 1 .. Window : ~lost[d] =>
          /\ span >= Window => replies[d] <= RateLimit
          /\ span < Window /\ d <= span + 1 => replies[d] <= count
          /\ span < Window /\ d > span + 1 => replies[d] <= count + RateLimit

AnswersCovered ==
    /\ \A i \in RateSlot : Own(i) => Covers(answered, forgotten, Span(i), rateSlots[i].count)
    /\ (\A i \in RateSlot : ~Own(i)) => \A d \in 1 .. Window : ~forgotten[d] => answered[d] = 0

Grows(h) == \A d, e \in 1 .. Window : d <= e => h[d] <= h[e]

AskedCovered ==
    /\ Grows(asked)
    /\ \A i \in RateSlot : Own(i) /\ Span(i) < Window => rateSlots[i].count <= asked[Span(i) + 1]

NtpInv ==
    /\ NtpTypeOK /\ AnswersCovered /\ AskedCovered
    /\ \A i, j \in RateSlot : Own(i) /\ Own(j) => i = j
    /\ \A i \in RateSlot : rateSlots[i].start <= tick

NtpRec == [ip : NtpClient \cup {NoClient}, start : 0 .. MaxTick, count : 0 .. RateLimit]

\* A non-empty set of numbers has a least one.
LEMMA LeastOf ==
    ASSUME NEW S \in SUBSET Nat, S # {}
    PROVE  \E i \in S : \A j \in S : i <= j
<1> DEFINE R == OpToRel(<, Nat)
<1>1. IsWellFoundedOn(R, Nat) BY NatLessThanWellFounded
<1>2. \A i, j \in Nat : j < i => <<j, i>> \in R BY DEF OpToRel
<1> HIDE DEF R
<1>3. \E i \in S : \A j \in S : ~(<<j, i>> \in R) BY <1>1, WFMin
<1>4. PICK i \in S : \A j \in S : ~(<<j, i>> \in R) BY <1>3
<1>5. ASSUME NEW j \in S PROVE i <= j
  <2>1. i \in Nat /\ j \in Nat OBVIOUS
  <2>2. ~(j < i) BY <1>2, <1>4, <2>1
  <2> QED BY <2>1, <2>2
<1> QED BY <1>5

LEMMA NtpNumbers ==
    /\ Window \in Nat /\ Window >= 1 /\ RateLimit \in Nat /\ RateLimit >= 1 /\ RateSlots \in Nat /\ RateSlots >= 1
    /\ MaxTick \in Nat /\ MaxAsked \in Nat /\ Watched \in NtpClient /\ Watched # NoClient
BY NtpAssumption

\* The slot of a client is its own if it has one.
LEMMA SlotIs ==
    ASSUME NtpTypeOK, NEW c \in NtpClient
    PROVE  slotOf(c) \in RateSlot /\ ((\E i \in RateSlot : rateSlots[i].ip = c) => rateSlots[slotOf(c)].ip = c)
<1> DEFINE own == {i \in 1..RateSlots : rateSlots[i].ip = c}
           free == {i \in 1..RateSlots : rateSlots[i].ip = NoClient}
           oldest == {i \in 1..RateSlots : \A j \in 1..RateSlots : rateSlots[i].start <= rateSlots[j].start}
           S == IF own # {} THEN own ELSE IF free # {} THEN free ELSE oldest
<1>1. oldest # {}
  <2> DEFINE starts == {rateSlots[i].start : i \in 1..RateSlots}
  <2>1. starts \in SUBSET Nat BY DEF NtpTypeOK
  <2>2. 1 \in 1..RateSlots BY NtpNumbers
  <2>3. starts # {} BY <2>2
  <2>4. \E x \in starts : \A y \in starts : x <= y
    <3> HIDE DEF starts
    <3> QED BY <2>1, <2>3, LeastOf
  <2> QED BY <2>4
<1>2. S \in SUBSET Nat /\ S # {} /\ S \subseteq RateSlot BY <1>1 DEF RateSlot
<1>3. S = own \/ own = {} OBVIOUS
<1>4. slotOf(c) = Min(S) BY DEF slotOf
<1>5. Min(S) \in S
  <2> HIDE DEF S
  <2>1. \E i \in S : \A j \in S : i <= j BY <1>2, LeastOf
  <2> QED BY <2>1 DEF Min
<1> QED BY <1>2, <1>3, <1>4, <1>5 DEF RateSlot

LEMMA NtpStart == NtpInit => NtpInv
<1> SUFFICES ASSUME NtpInit PROVE NtpInv OBVIOUS
<1>1. NtpTypeOK
  <2>1. 0 \in 0 .. MaxTick /\ 0 \in 0 .. RateLimit BY NtpNumbers
  <2> QED BY <2>1 DEF NtpInit, NtpTypeOK, FreeSlot, Quiet
<1>2. \A i \in RateSlot : ~Own(i) /\ rateSlots[i].start <= tick BY NtpNumbers DEF NtpInit, FreeSlot, Own, RateSlot
<1>3. \A d \in 1 .. Window : answered[d] = 0 /\ asked[d] = 0 BY DEF NtpInit, Quiet
<1> QED BY <1>1, <1>2, <1>3 DEF NtpInv, AnswersCovered, AskedCovered, Grows

LEMMA CoversTick ==
    ASSUME NEW replies \in [1 .. Window -> Nat], NEW lost \in [1 .. Window -> BOOLEAN], NEW span \in Nat,
           NEW count \in 0 .. RateLimit, Covers(replies, lost, span, count)
    PROVE  Covers(older(replies, 0), older(lost, FALSE), span + 1, count)
<1>1. \A d \in 1 .. Window : d # 1 => /\ d - 1 \in 1 .. Window /\ older(replies, 0)[d] = replies[d - 1]
                                      /\ older(lost, FALSE)[d] = lost[d - 1]
    BY NtpNumbers DEF older
<1>2. 1 \in 1 .. Window /\ older(replies, 0)[1] = 0 BY NtpNumbers DEF older
<1>3. ASSUME NEW d \in 1 .. Window, ~older(lost, FALSE)[d], span + 1 >= Window PROVE older(replies, 0)[d] <= RateLimit
  <2>1. CASE d = 1 BY <1>2, <2>1, NtpNumbers
  <2>2. CASE d # 1
    <3>1. d - 1 \in 1 .. Window /\ ~lost[d - 1] BY <1>1, <1>3, <2>2
    <3>2. span >= Window => replies[d - 1] <= RateLimit BY <3>1 DEF Covers
    <3>3. ~(span >= Window) => replies[d - 1] <= count
      <4>1. ~(span >= Window) => span < Window /\ d - 1 <= span + 1 BY <1>3, <3>1, NtpNumbers
      <4> QED BY <3>1, <4>1 DEF Covers
    <3>4. replies[d - 1] \in Nat BY <3>1
    <3>5. replies[d - 1] <= RateLimit BY <3>2, <3>3, <3>4, NtpNumbers
    <3> QED BY <1>1, <2>2, <3>5
  <2> QED BY <2>1, <2>2
<1>4. ASSUME NEW d \in 1 .. Window, ~older(lost, FALSE)[d], span + 1 < Window, d <= span + 1 + 1
      PROVE  older(replies, 0)[d] <= count
  <2>1. CASE d = 1 BY <1>2, <2>1, NtpNumbers
  <2>2. CASE d # 1
    <3>1. d - 1 \in 1 .. Window /\ ~lost[d - 1] BY <1>1, <1>4, <2>2
    <3>2. span < Window /\ d - 1 <= span + 1 BY <1>4, NtpNumbers
    <3> QED BY <1>1, <2>2, <3>1, <3>2 DEF Covers
  <2> QED BY <2>1, <2>2
<1>5. ASSUME NEW d \in 1 .. Window, ~older(lost, FALSE)[d], span + 1 < Window, d > span + 1 + 1
      PROVE  older(replies, 0)[d] <= count + RateLimit
  <2>1. d # 1 /\ span < Window /\ d - 1 > span + 1 BY <1>5, NtpNumbers
  <2>2. d - 1 \in 1 .. Window /\ ~lost[d - 1] BY <1>1, <1>5, <2>1
  <2> QED BY <1>1, <2>1, <2>2 DEF Covers
<1> QED BY <1>2, <1>3, <1>4, <1>5 DEF Covers

\* A reply in an open window is counted, and a new window is begun by one.
LEMMA CoversMore ==
    ASSUME NEW replies \in [1 .. Window -> Nat], NEW lost, NEW span \in Nat,
           NEW count \in 0 .. RateLimit, Covers(replies, lost, span, count), span < Window
    PROVE  Covers(oneMore(replies), lost, span, count + 1)
<1>1. \A d \in 1 .. Window : oneMore(replies)[d] = replies[d] + 1 /\ replies[d] \in Nat BY DEF oneMore
<1>2. ~(span >= Window) BY NtpNumbers
<1> QED BY <1>1, <1>2, NtpNumbers DEF Covers

LEMMA CoversNew ==
    ASSUME NEW replies \in [1 .. Window -> Nat], NEW lost,
           ~lost[1] => replies[1] = 0, \A d \in 1 .. Window : ~lost[d] => replies[d] <= RateLimit
    PROVE  Covers(oneMore(replies), lost, 0, 1)
<1>1. \A d \in 1 .. Window : oneMore(replies)[d] = replies[d] + 1 /\ replies[d] \in Nat BY DEF oneMore
<1>2. ~(0 >= Window) /\ 1 \in 1 .. Window BY NtpNumbers
<1>3. \A d \in 1 .. Window : d <= 0 + 1 => d = 1 OBVIOUS
<1> QED BY <1>1, <1>2, <1>3, NtpNumbers DEF Covers

LEMMA NtpTicks == NtpInv /\ tickPasses => NtpInv'
<1> SUFFICES ASSUME NtpInv, tickPasses PROVE NtpInv' OBVIOUS
<1>1. /\ NtpTypeOK /\ AnswersCovered /\ AskedCovered
      /\ \A i, j \in RateSlot : Own(i) /\ Own(j) => i = j
      /\ \A i \in RateSlot : rateSlots[i].start <= tick
    BY DEF NtpInv
<1>2. /\ tick < MaxTick /\ tick' = tick + 1 /\ rateSlots' = rateSlots
      /\ asked' = older(asked, 0) /\ answered' = older(answered, 0) /\ forgotten' = older(forgotten, FALSE)
    BY DEF tickPasses
<1>3. /\ tick \in Nat /\ asked \in [1 .. Window -> Nat] /\ answered \in [1 .. Window -> Nat]
      /\ forgotten \in [1 .. Window -> BOOLEAN]
    BY <1>1 DEF NtpTypeOK
<1>4. \A d \in 1 .. Window : d # 1 => d - 1 \in 1 .. Window BY NtpNumbers
<1>5. asked' \in [1 .. Window -> Nat] /\ answered' \in [1 .. Window -> Nat] BY <1>2, <1>3, <1>4 DEF older
<1>6. forgotten' \in [1 .. Window -> BOOLEAN] BY <1>2, <1>3, <1>4 DEF older
<1>7. NtpTypeOK'
  <2>1. tick' \in 0 .. MaxTick BY <1>2, <1>3, NtpNumbers
  <2> QED BY <1>1, <1>2, <1>5, <1>6, <2>1 DEF NtpTypeOK
<1>8. \A i \in RateSlot : /\ Own(i)' <=> Own(i)
                          /\ rateSlots[i].start \in Nat /\ rateSlots[i].count \in 0 .. RateLimit
                          /\ Span(i) \in Nat /\ Span(i)' = Span(i) + 1
    BY <1>1, <1>2, <1>3 DEF Own, Span, NtpTypeOK, RateSlot
<1>9. ASSUME NEW i \in RateSlot, Own(i)' PROVE Covers(answered', forgotten', Span(i)', rateSlots'[i].count)
  <2>1. Covers(answered, forgotten, Span(i), rateSlots[i].count) BY <1>1, <1>8, <1>9 DEF AnswersCovered
  <2> DEFINE s == Span(i)
             n == rateSlots[i].count
  <2>2. Covers(answered, forgotten, s, n) /\ s \in Nat /\ n \in 0 .. RateLimit BY <1>8, <2>1
  <2> HIDE DEF s, n
  <2>3. Covers(older(answered, 0), older(forgotten, FALSE), s + 1, n) BY <1>3, <2>2, CoversTick
  <2> QED BY <1>2, <1>8, <2>3 DEF s, n
<1>10. ASSUME \A i \in RateSlot : ~Own(i)', NEW d \in 1 .. Window, ~forgotten'[d] PROVE answered'[d] = 0
  <2>1. \A e \in 1 .. Window : ~forgotten[e] => answered[e] = 0 BY <1>1, <1>8, <1>10 DEF AnswersCovered
  <2>2. CASE d = 1 BY <1>2, <2>2 DEF older
  <2>3. CASE d # 1 BY <1>2, <1>4, <1>10, <2>1, <2>3 DEF older
  <2> QED BY <2>2, <2>3
<1>11. AnswersCovered' BY <1>9, <1>10 DEF AnswersCovered
<1>12. Grows(asked')
  <2> SUFFICES ASSUME NEW d \in 1 .. Window, NEW e \in 1 .. Window, d <= e PROVE asked'[d] <= asked'[e] BY DEF Grows
  <2>1. CASE d = 1
    <3>1. asked'[d] = 0 /\ asked'[e] \in Nat BY <1>2, <1>5, <2>1 DEF older
    <3> QED BY <3>1
  <2>2. CASE d # 1
    <3>1. e # 1 /\ d - 1 \in 1 .. Window /\ e - 1 \in 1 .. Window /\ d - 1 <= e - 1 BY <1>4, <2>2, NtpNumbers
    <3>2. asked[d - 1] <= asked[e - 1] BY <1>1, <3>1 DEF AskedCovered, Grows
    <3> QED BY <1>2, <2>2, <3>1, <3>2 DEF older
  <2> QED BY <2>1, <2>2
<1>13. ASSUME NEW i \in RateSlot, Own(i)', Span(i)' < Window PROVE rateSlots'[i].count <= asked'[Span(i)' + 1]
  <2>1. Span(i) < Window /\ Span(i) + 1 + 1 \in 1 .. Window /\ Span(i) + 1 + 1 # 1 /\ Span(i) + 1 + 1 - 1 = Span(i) + 1
      BY <1>8, <1>13, NtpNumbers
  <2>2. rateSlots[i].count <= asked[Span(i) + 1] BY <1>1, <1>8, <1>13, <2>1 DEF AskedCovered
  <2> QED BY <1>2, <1>8, <2>1, <2>2 DEF older
<1>14. AskedCovered' BY <1>12, <1>13 DEF AskedCovered
<1>15. \A i \in RateSlot : rateSlots'[i].start <= tick' BY <1>1, <1>2, <1>3, <1>8
<1> QED BY <1>1, <1>7, <1>8, <1>11, <1>14, <1>15 DEF NtpInv

\* What a request does, told apart by whom it is from and whose slot it takes.
LEMMA RequestDoes ==
    ASSUME NtpInv, NEW c \in NtpClient, serverLoop(c)
    PROVE  \E i \in RateSlot :
              /\ tick' = tick /\ rateSlots' = [rateSlots EXCEPT ![i] = counted(rateSlots[i], c)]
              /\ (\E j \in RateSlot : rateSlots[j].ip = c) => rateSlots[i].ip = c
              /\ asked' = IF c = Watched THEN oneMore(asked) ELSE asked
              /\ answered' = IF c = Watched /\ ~rateLimited(rateSlots[i], c) THEN oneMore(answered) ELSE answered
              /\ forgotten' = IF rateSlots[i].ip = Watched /\ c # Watched THEN [d \in 1..Window |-> TRUE] ELSE forgotten
<1>1. slotOf(c) \in RateSlot /\ ((\E j \in RateSlot : rateSlots[j].ip = c) => rateSlots[slotOf(c)].ip = c)
    BY SlotIs DEF NtpInv
<1> QED BY <1>1 DEF serverLoop

LEMMA CountedIs ==
    ASSUME NtpInv, NEW c \in NtpClient, NEW i \in RateSlot
    PROVE  /\ counted(rateSlots[i], c) \in NtpRec /\ counted(rateSlots[i], c).ip = c
           /\ counted(rateSlots[i], c).start <= tick
           /\ rateSlots[i].ip # c \/ Span(i) >= Window =>
                 counted(rateSlots[i], c).start = tick /\ counted(rateSlots[i], c).count = 1
           /\ rateSlots[i].ip = c /\ Span(i) < Window =>
                 /\ counted(rateSlots[i], c).start = rateSlots[i].start
                 /\ counted(rateSlots[i], c).count =
                       IF rateSlots[i].count < RateLimit THEN rateSlots[i].count + 1 ELSE rateSlots[i].count
<1> DEFINE s == rateSlots[i]
<1>1. tick \in 0 .. MaxTick /\ s.start \in 0 .. MaxTick /\ s.count \in 0 .. RateLimit /\ s.start <= tick
    BY DEF NtpInv, NtpTypeOK, RateSlot
<1>2. Span(i) = tick - s.start BY DEF Span
<1> HIDE DEF s
<1> DEFINE fresh == s.ip # c \/ tick - s.start >= Window
           past == IF fresh THEN 0 ELSE s.count
           begun == IF fresh THEN tick ELSE s.start
           number == IF past < RateLimit THEN past + 1 ELSE past
<1>3. counted(s, c) = [ip |-> c, start |-> begun, count |-> number] BY DEF counted
<1>4. begun \in 0 .. MaxTick /\ number \in 0 .. RateLimit /\ begun <= tick BY <1>1, NtpNumbers
<1>5. fresh => begun = tick /\ number = 1 BY NtpNumbers
<1>6. ~fresh => begun = s.start /\ number = IF s.count < RateLimit THEN s.count + 1 ELSE s.count OBVIOUS
<1>7. Span(i) < Window => ~(tick - s.start >= Window) BY <1>1, <1>2, NtpNumbers
<1> HIDE DEF begun, number
<1>8. counted(s, c) \in NtpRec BY <1>3, <1>4 DEF NtpRec
<1> QED BY <1>2, <1>3, <1>4, <1>5, <1>6, <1>7, <1>8 DEF s

LEMMA NtpAnswers == ASSUME NtpInv, NEW c \in NtpClient, serverLoop(c) PROVE NtpInv'
<1>1. /\ NtpTypeOK /\ AnswersCovered /\ AskedCovered
      /\ \A i, j \in RateSlot : Own(i) /\ Own(j) => i = j
      /\ \A i \in RateSlot : rateSlots[i].start <= tick
    BY DEF NtpInv
<1>2. PICK i \in RateSlot :
              /\ tick' = tick /\ rateSlots' = [rateSlots EXCEPT ![i] = counted(rateSlots[i], c)]
              /\ (\E j \in RateSlot : rateSlots[j].ip = c) => rateSlots[i].ip = c
              /\ asked' = IF c = Watched THEN oneMore(asked) ELSE asked
              /\ answered' = IF c = Watched /\ ~rateLimited(rateSlots[i], c) THEN oneMore(answered) ELSE answered
              /\ forgotten' = IF rateSlots[i].ip = Watched /\ c # Watched THEN [d \in 1..Window |-> TRUE] ELSE forgotten
    BY RequestDoes
<1> DEFINE s == rateSlots[i]
           t == counted(s, c)
<1>3. /\ t \in NtpRec /\ t.ip = c /\ t.start <= tick
      /\ s.ip # c \/ Span(i) >= Window => t.start = tick /\ t.count = 1
      /\ s.ip = c /\ Span(i) < Window =>
            t.start = s.start /\ t.count = IF s.count < RateLimit THEN s.count + 1 ELSE s.count
    BY CountedIs
<1>4. /\ tick \in Nat /\ asked \in [1 .. Window -> Nat] /\ answered \in [1 .. Window -> Nat]
      /\ forgotten \in [1 .. Window -> BOOLEAN] /\ rateSlots \in [RateSlot -> NtpRec]
    BY <1>1 DEF NtpTypeOK, RateSlot, NtpRec
<1>5. s.start \in Nat /\ s.count \in 0 .. RateLimit /\ Span(i) \in Nat /\ Span(i) = tick - s.start
    BY <1>1, <1>4 DEF Span, NtpRec
<1>6. rateLimited(s, c) <=> s.ip = c /\ Span(i) < Window /\ s.count >= RateLimit BY <1>5 DEF rateLimited
<1> HIDE DEF t
<1>7. rateSlots' \in [RateSlot -> NtpRec] /\ rateSlots'[i] = t /\ \A p \in RateSlot : p # i => rateSlots'[p] = rateSlots[p]
    BY <1>2, <1>3, <1>4 DEF t
<1>8. \A p \in RateSlot : p # i => (Own(p)' <=> Own(p)) /\ Span(p)' = Span(p) BY <1>2, <1>7 DEF Own, Span
<1>9. \A p \in RateSlot : rateSlots'[p].start <= tick' BY <1>1, <1>2, <1>3, <1>7
<1>10. (Own(i)' <=> c = Watched) /\ (Own(i) <=> s.ip = Watched) /\ Span(i)' = tick - t.start BY <1>2, <1>3, <1>7 DEF Own, Span
<1>11. NtpTypeOK'
  <2>1. asked' \in [1 .. Window -> Nat] /\ answered' \in [1 .. Window -> Nat] BY <1>2, <1>4 DEF oneMore
  <2>2. forgotten' \in [1 .. Window -> BOOLEAN] BY <1>2, <1>4
  <2> QED BY <1>1, <1>2, <1>7, <2>1, <2>2 DEF NtpTypeOK, RateSlot, NtpRec
<1>12. CASE c # Watched /\ s.ip # Watched
  <2>1. \A p \in RateSlot : Own(p)' <=> Own(p) BY <1>8, <1>10, <1>12
  <2>2. \A p \in RateSlot : Own(p) => p # i BY <1>10, <1>12
  <2>3. asked' = asked /\ answered' = answered /\ forgotten' = forgotten BY <1>2, <1>12
  <2>4. AnswersCovered' BY <1>1, <1>7, <1>8, <2>1, <2>2, <2>3 DEF AnswersCovered
  <2>5. AskedCovered' BY <1>1, <1>7, <1>8, <2>1, <2>2, <2>3 DEF AskedCovered
  <2> QED BY <1>1, <1>9, <1>11, <2>1, <2>4, <2>5 DEF NtpInv
<1>13. CASE c # Watched /\ s.ip = Watched
  <2>1. \A p \in RateSlot : ~Own(p)' BY <1>1, <1>8, <1>10, <1>13
  <2>2. asked' = asked /\ \A d \in 1 .. Window : forgotten'[d] BY <1>2, <1>13
  <2>3. AnswersCovered' BY <2>1, <2>2 DEF AnswersCovered
  <2>4. AskedCovered' BY <1>1, <2>1, <2>2 DEF AskedCovered
  <2> QED BY <1>9, <1>11, <2>1, <2>3, <2>4 DEF NtpInv
<1>14. CASE c = Watched
  <2>1. \A p \in RateSlot : Own(p)' <=> p = i
    <3>1. ASSUME NEW p \in RateSlot, p # i, Own(p) PROVE FALSE
      <4>1. Own(i) BY <1>2, <1>10, <1>14, <3>1 DEF Own
      <4> QED BY <1>1, <3>1, <4>1
    <3> QED BY <1>8, <1>10, <1>14, <3>1
  <2>2. asked' = oneMore(asked) /\ forgotten' = forgotten BY <1>2, <1>14
  <2>3. \A d \in 1 .. Window : asked'[d] = asked[d] + 1 /\ asked[d] \in Nat BY <1>4, <2>2 DEF oneMore
  <2>4. Grows(asked')
    <3>1. \A d, e \in 1 .. Window : d <= e => asked[d] <= asked[e] BY <1>1 DEF AskedCovered, Grows
    <3> QED BY <2>3, <3>1 DEF Grows
  <2>5. /\ Covers(answered', forgotten', Span(i)', t.count)
        /\ Span(i)' < Window => t.count <= asked'[Span(i)' + 1]
    <3>1. CASE s.ip = Watched /\ Span(i) < Window
      <4>1. Covers(answered, forgotten, Span(i), s.count) BY <1>1, <1>10, <3>1 DEF AnswersCovered
      <4>2. s.count <= asked[Span(i) + 1] BY <1>1, <1>10, <3>1 DEF AskedCovered
      <4>3. Span(i)' = Span(i) /\ t.count = IF s.count < RateLimit THEN s.count + 1 ELSE s.count
          BY <1>3, <1>5, <1>10, <1>14, <3>1
      <4>4. Span(i) + 1 \in 1 .. Window BY <1>5, <3>1, NtpNumbers
      <4>5. t.count <= asked'[Span(i)' + 1]
        <5> DEFINE a == asked[Span(i) + 1]
        <5>1. a \in Nat /\ asked'[Span(i)' + 1] = a + 1 /\ s.count <= a BY <2>3, <4>2, <4>3, <4>4
        <5> HIDE DEF a
        <5> QED BY <1>5, <4>3, <5>1, NtpNumbers
      <4>6. CASE s.count < RateLimit
        <5>1. ~(s.count >= RateLimit) BY <1>5, <4>6, NtpNumbers
        <5>2. answered' = oneMore(answered) BY <1>2, <1>6, <1>14, <5>1
        <5> DEFINE sp == Span(i)
                   n == s.count
        <5>3. sp \in Nat /\ sp < Window /\ n \in 0 .. RateLimit /\ Covers(answered, forgotten, sp, n) BY <1>5, <3>1, <4>1
        <5> HIDE DEF sp, n
        <5>4. Covers(oneMore(answered), forgotten, sp, n + 1) BY <1>4, <5>3, CoversMore
        <5> QED BY <2>2, <4>3, <4>5, <4>6, <5>2, <5>4 DEF sp, n
      <4>7. CASE ~(s.count < RateLimit)
        <5>1. s.count >= RateLimit BY <1>5, <4>7, NtpNumbers
        <5>2. answered' = answered BY <1>2, <1>6, <1>14, <3>1, <5>1
        <5> QED BY <2>2, <4>1, <4>3, <4>5, <4>7, <5>2
      <4> QED BY <4>6, <4>7
    <3>2. CASE ~(s.ip = Watched /\ Span(i) < Window)
      <4>0. s.ip # c \/ Span(i) >= Window BY <1>5, <1>14, <3>2, NtpNumbers
      <4>1. t.start = tick /\ t.count = 1 BY <1>3, <4>0
      <4>2. Span(i)' = 0 BY <1>4, <1>10, <4>1
      <4>3. answered' = oneMore(answered) BY <1>2, <1>6, <1>14, <3>2
      <4>4. /\ ~forgotten[1] => answered[1] = 0
            /\ \A d \in 1 .. Window : ~forgotten[d] => answered[d] <= RateLimit
        <5>1. CASE s.ip # Watched
          <6>1. \A p \in RateSlot : ~Own(p) BY <1>2, <1>14, <5>1 DEF Own
          <6>2. \A d \in 1 .. Window : ~forgotten[d] => answered[d] = 0 BY <1>1, <6>1 DEF AnswersCovered
          <6> QED BY <6>2, NtpNumbers
        <5>2. CASE s.ip = Watched
          <6>1. Span(i) >= Window BY <1>14, <4>0, <5>2
          <6>2. Covers(answered, forgotten, Span(i), s.count) BY <1>1, <1>10, <5>2 DEF AnswersCovered
          <6> QED BY <6>1, <6>2 DEF Covers
        <5> QED BY <5>1, <5>2
      <4>5. Covers(oneMore(answered), forgotten, 0, 1) BY <1>4, <4>4, CoversNew
      <4>6. 1 <= asked'[0 + 1]
        <5>1. 0 + 1 \in 1 .. Window BY NtpNumbers
        <5> QED BY <2>3, <5>1
      <4> QED BY <2>2, <4>1, <4>2, <4>3, <4>5, <4>6
    <3> QED BY <3>1, <3>2
  <2>6. AnswersCovered' BY <1>7, <2>1, <2>5 DEF AnswersCovered
  <2>7. AskedCovered' BY <1>7, <2>1, <2>4, <2>5 DEF AskedCovered
  <2> QED BY <1>9, <1>11, <2>1, <2>6, <2>7 DEF NtpInv
<1> QED BY <1>12, <1>13, <1>14

LEMMA NtpInductive == NtpInv /\ [NtpNext]_ntpVars => NtpInv'
<1> SUFFICES ASSUME NtpInv, [NtpNext]_ntpVars PROVE NtpInv' OBVIOUS
<1>1. CASE UNCHANGED ntpVars
    BY <1>1 DEF ntpVars, NtpInv, NtpTypeOK, AnswersCovered, AskedCovered, Own, Span
<1>2. CASE tickPasses BY <1>2, NtpTicks
<1>3. ASSUME NEW c \in NtpClient, serverLoop(c) PROVE NtpInv' BY <1>3, NtpAnswers
<1>4. ASSUME NEW c \in NtpClient, serverLoop_Dropped(c) PROVE NtpInv' BY <1>1, <1>4 DEF serverLoop_Dropped
<1> QED BY <1>1, <1>2, <1>3, <1>4 DEF NtpNext

LEMMA NtpHolds == NtpInv => NtpTypeOK /\ RepliesBounded
<1> SUFFICES ASSUME NtpInv, ~forgotten[Window] PROVE answered[Window] <= 2 * RateLimit BY DEF NtpInv, RepliesBounded
<1>1. NtpTypeOK /\ AnswersCovered BY DEF NtpInv
<1>2. Window \in 1 .. Window /\ answered[Window] \in Nat BY <1>1, NtpNumbers DEF NtpTypeOK
<1>3. CASE \A i \in RateSlot : ~Own(i)
  <2>1. answered[Window] = 0 BY <1>1, <1>2, <1>3 DEF AnswersCovered
  <2> QED BY <2>1, NtpNumbers
<1>4. ASSUME NEW i \in RateSlot, Own(i) PROVE answered[Window] <= 2 * RateLimit
  <2>1. Covers(answered, forgotten, Span(i), rateSlots[i].count) BY <1>1, <1>4 DEF AnswersCovered
  <2>2. rateSlots[i].count \in 0 .. RateLimit /\ Span(i) \in Int BY <1>1 DEF NtpTypeOK, RateSlot, Span
  <2> DEFINE n == rateSlots[i].count
             sp == Span(i)
             a == answered[Window]
  <2>3. a <= RateLimit \/ a <= n \/ a <= n + RateLimit BY <1>2, <2>1, <2>2, NtpNumbers DEF Covers
  <2>4. n \in 0 .. RateLimit /\ a \in Nat BY <1>2, <2>2
  <2> HIDE DEF n, sp, a
  <2>5. a <= 2 * RateLimit BY <2>3, <2>4, NtpNumbers
  <2> QED BY <2>5 DEF a
<1> QED BY <1>3, <1>4

\* A refusal needs as many requests in the window as the limit has.
LEMMA PoliteAreServed == NtpInv /\ [NtpNext]_ntpVars => PoliteIsServed
<1> SUFFICES ASSUME NtpInv, [NtpNext]_ntpVars, tick' = tick, asked' # asked, asked'[Window] <= RateLimit
             PROVE  answered' # answered
    BY DEF PoliteIsServed
<1>1. NtpTypeOK /\ AskedCovered BY DEF NtpInv
<1>2. tick \in Nat /\ asked \in [1 .. Window -> Nat] /\ answered \in [1 .. Window -> Nat] BY <1>1 DEF NtpTypeOK
<1>3. ~tickPasses
  <2> SUFFICES ASSUME tickPasses PROVE FALSE OBVIOUS
  <2>1. tick' = tick + 1 BY DEF tickPasses
  <2>2. tick + 1 # tick BY <1>2
  <2> QED BY <2>1, <2>2
<1>4. PICK c \in NtpClient : serverLoop(c) BY <1>3 DEF NtpNext, ntpVars, serverLoop_Dropped
<1>5. PICK i \in RateSlot :
              /\ asked' = IF c = Watched THEN oneMore(asked) ELSE asked
              /\ answered' = IF c = Watched /\ ~rateLimited(rateSlots[i], c) THEN oneMore(answered) ELSE answered
    BY <1>4, RequestDoes
<1>6. c = Watched /\ asked' = oneMore(asked) BY <1>5
<1>7. 1 \in 1 .. Window /\ Window \in 1 .. Window BY NtpNumbers
<1>8. ~rateLimited(rateSlots[i], c)
  <2> SUFFICES ASSUME rateLimited(rateSlots[i], c) PROVE FALSE OBVIOUS
  <2>1. Own(i) /\ Span(i) < Window /\ rateSlots[i].count >= RateLimit BY <1>6 DEF rateLimited, Own, Span
  <2>2. rateSlots[i].count <= asked[Span(i) + 1] BY <1>1, <2>1 DEF AskedCovered
  <2>3. Span(i) \in Nat /\ rateSlots[i].count \in Nat BY <1>2 DEF NtpInv, NtpTypeOK, RateSlot, Span
  <2> DEFINE d == Span(i) + 1
  <2>4. d \in 1 .. Window /\ d <= Window BY <2>1, <2>3, NtpNumbers
  <2> HIDE DEF d
  <2>5. asked[d] <= asked[Window] BY <1>1, <1>7, <2>4 DEF AskedCovered, Grows
  <2>6. asked'[Window] = asked[Window] + 1 BY <1>6, <1>7 DEF oneMore
  <2>7. asked[Window] \in Nat /\ asked[d] \in Nat BY <1>2, <1>7, <2>4
  <2>8. rateSlots[i].count <= asked[d] BY <2>2 DEF d
  <2> QED BY <2>1, <2>3, <2>5, <2>6, <2>7, <2>8, NtpNumbers
<1>9. answered' = oneMore(answered) BY <1>5, <1>6, <1>8
<1>10. answered'[1] = answered[1] + 1 /\ answered[1] \in Nat BY <1>2, <1>7, <1>9 DEF oneMore
<1> QED BY <1>10

\* However a page, the network, the timer and the probes meet without a lock: while
\* the first answer is awaited somebody keeps the schedule, but for the one
\* crossing, and a probe that comes back in its run asked the servers of that run.
\* And a client of the time server that keeps its slot gets at most twice the
\* limit in a second, whoever else asks.
THEOREM TimeStaysSafe == Spec => []TimeSafe
<1>1. Init => SyncInv /\ NtpInv BY SyncStart, NtpStart DEF Init
<1>2. SyncInv /\ [Next]_vars => SyncInv' BY OneAtATime, SyncInductive
<1>3. NtpInv /\ [Next]_vars => NtpInv' BY OneAtATime, NtpInductive
<1>4. SyncInv => TimeSyncTypeOK /\ BeatGoesOn /\ ProbeAskedOwn
    BY DEF SyncInv, Schedule, Carries, BeatGoesOn, ProbeAskedOwn
<1>5. SyncInv /\ NtpInv => TimeSafe BY <1>4, NtpHolds DEF TimeSafe
<1> QED BY <1>1, <1>2, <1>3, <1>5, PTL DEF Spec

-----------------------------------------------------------------------------
(***************************************************************************)
(* The address range of the DHCP page: in one block of the last octet the  *)
(* byte order of the comparison does not matter.                           *)
(***************************************************************************)
LEMMA ProductGrows == \A n, p, q \in Nat : p <= q => n * p <= n * q
<1> TAKE n, p, q \in Nat
<1> HAVE p <= q
<1>1. q - p \in Nat OBVIOUS
<1>2. n * (q - p) \in Nat BY <1>1
<1>3. n * q = n * p + n * (q - p) OBVIOUS
<1> QED BY <1>2, <1>3

\* Quotient and remainder, and that there is one pair of them.
LEMMA Division ==
    ASSUME NEW a \in Nat, NEW n \in Nat \ {0}
    PROVE  a \div n \in Nat /\ a % n \in 0 .. n - 1 /\ a = n * (a \div n) + (a % n)
OBVIOUS

LEMMA DivisionUnique ==
    ASSUME NEW n \in Nat \ {0}, NEW p \in Nat, NEW q \in Nat, NEW r \in 0 .. n - 1, NEW s \in 0 .. n - 1,
           n * p + r = n * q + s
    PROVE  p = q /\ r = s
<1>1. n * p \in Nat /\ n * q \in Nat OBVIOUS
<1>2. ~(p < q)
  <2> SUFFICES ASSUME p + 1 <= q PROVE FALSE OBVIOUS
  <2>1. n * (p + 1) <= n * q BY ProductGrows
  <2>2. n * (p + 1) = n * p + n OBVIOUS
  <2> QED BY <1>1, <2>1, <2>2
<1>3. ~(q < p)
  <2> SUFFICES ASSUME q + 1 <= p PROVE FALSE OBVIOUS
  <2>1. n * (q + 1) <= n * p BY ProductGrows
  <2>2. n * (q + 1) = n * q + n OBVIOUS
  <2> QED BY <1>1, <2>1, <2>2
<1>4. p = q BY <1>2, <1>3
<1> QED BY <1>1, <1>4

LEMMA DivisionIs ==
    ASSUME NEW n \in Nat \ {0}, NEW q \in Nat, NEW r \in 0 .. n - 1
    PROVE  (n * q + r) \div n = q /\ (n * q + r) % n = r
<1> DEFINE a == n * q + r
<1>1. n * q \in Nat /\ a \in Nat OBVIOUS
<1>2. a \div n \in Nat /\ a % n \in 0 .. n - 1 /\ a = n * (a \div n) + (a % n) BY <1>1, Division
<1>3. a \div n = q /\ a % n = r BY <1>2, DivisionUnique
<1> QED BY <1>3

\* In a block of the last octet the network order is the order of the addresses,
\* up to the address after the last one.
LEMMA BlockOrder ==
    ASSUME PoolTypeOK, OneBlock
    PROVE  /\ rangeStart \in Nat /\ rangeEnd \in Nat /\ rangeStart <= rangeEnd /\ rangeEnd - rangeStart < Octet - 1
           /\ rangeEnd < Octet * Octet
           /\ \A i, j \in rangeStart .. rangeEnd + 1 :
                 Pool!NetOrder(i) \in Nat /\ (Pool!NetOrder(i) <= Pool!NetOrder(j) <=> i <= j)
<1> DEFINE q == rangeStart \div Octet
           re == rangeEnd % Octet
           rs == rangeStart % Octet
<1>1. Octet \in Nat \ {0} /\ Octet * Octet \in Nat BY PoolSettingsAssumption
<1>2. rangeStart \in Nat /\ rangeEnd \in Nat /\ rangeEnd < Octet * Octet BY <1>1 DEF PoolTypeOK, Host
<1>3. /\ q \in Nat /\ rs \in 0 .. Octet - 1 /\ rangeStart = Octet * q + rs
      /\ re \in 0 .. Octet - 1 /\ rangeEnd = Octet * q + re /\ re < Octet - 1
    BY <1>1, <1>2, Division DEF OneBlock
<1>4. rangeStart <= rangeEnd BY DEF OneBlock
<1> HIDE DEF q, re, rs
<1> DEFINE base == Octet * q
<1>5. base \in Nat BY <1>1, <1>3
<1>6. rangeStart = base + rs /\ rangeEnd = base + re BY <1>3
<1>7. ASSUME NEW j \in rangeStart .. rangeEnd + 1
      PROVE  /\ j - base \in 0 .. Octet - 1 /\ Octet * (j - base) \in Nat
             /\ Pool!NetOrder(j) = Octet * (j - base) + q
  <2> HIDE DEF base
  <2>1. j - base \in 0 .. Octet - 1 BY <1>1, <1>2, <1>3, <1>5, <1>6
  <2> DEFINE r == j - base
  <2>2. r \in 0 .. Octet - 1 /\ r \in Nat BY <1>1, <2>1
  <2>3. j = base + r BY <1>2, <1>5
  <2> HIDE DEF r
  <2>4. (Octet * q + r) \div Octet = q /\ (Octet * q + r) % Octet = r BY <1>1, <1>3, <2>2, DivisionIs
  <2>5. j \div Octet = q /\ j % Octet = r BY <2>3, <2>4 DEF base
  <2>6. Pool!NetOrder(j) = r * Octet + q BY <2>5 DEF Pool!NetOrder
  <2>7. r * Octet = Octet * r /\ Octet * r \in Nat BY <1>1, <2>2
  <2> QED BY <2>1, <2>6, <2>7 DEF r
<1>8. ASSUME NEW i \in rangeStart .. rangeEnd + 1, NEW j \in rangeStart .. rangeEnd + 1
      PROVE  Pool!NetOrder(i) \in Nat /\ (Pool!NetOrder(i) <= Pool!NetOrder(j) <=> i <= j)
  <2> HIDE DEF base
  <2> DEFINE a == i - base
             b == j - base
  <2>1. a \in 0 .. Octet - 1 /\ Octet * a \in Nat /\ Pool!NetOrder(i) = Octet * a + q BY <1>7
  <2>2. b \in 0 .. Octet - 1 /\ Octet * b \in Nat /\ Pool!NetOrder(j) = Octet * b + q BY <1>7
  <2>3. a \in Nat /\ b \in Nat /\ (i <= j <=> a <= b) BY <1>1, <1>2, <1>5, <2>1, <2>2
  <2> HIDE DEF a, b
  <2>4. a <= b => Octet * a <= Octet * b BY <1>1, <2>3, ProductGrows
  <2>5. b < a => Octet * b + Octet <= Octet * a
    <3>1. b + 1 <= a => Octet * (b + 1) <= Octet * a BY <1>1, <2>3, ProductGrows
    <3>2. Octet * (b + 1) = Octet * b + Octet BY <1>1, <2>3
    <3> QED BY <2>3, <3>1, <3>2
  <2>6. Octet * a <= Octet * b <=> a <= b BY <1>1, <2>1, <2>2, <2>3, <2>4, <2>5
  <2> QED BY <1>3, <2>1, <2>2, <2>3, <2>6
<1>9. rangeEnd - rangeStart < Octet - 1
  <2> HIDE DEF base
  <2> QED BY <1>1, <1>3, <1>5, <1>6
<1> QED BY <1>2, <1>4, <1>8, <1>9

\* What the walk offers is what the range accepts.
LEMMA WalkIsRange ==
    ASSUME PoolTypeOK, OneBlock
    PROVE  Pool!Walk = rangeStart .. rangeEnd
<1>1. /\ rangeStart \in Nat /\ rangeEnd \in Nat /\ rangeStart <= rangeEnd /\ rangeEnd < Octet * Octet
      /\ \A i, j \in rangeStart .. rangeEnd + 1 :
            Pool!NetOrder(i) \in Nat /\ (Pool!NetOrder(i) <= Pool!NetOrder(j) <=> i <= j)
    BY BlockOrder
<1>2. Octet * Octet \in Nat BY PoolSettingsAssumption
<1>3. \A ip : ip \in Pool!Walk <=> /\ ip \in rangeStart .. Octet * Octet - 1
                                   /\ \A j \in rangeStart .. ip : Pool!NetOrder(j) <= Pool!NetOrder(rangeEnd)
    BY DEF Pool!Walk, Pool!WalkContinues, Pool!Word
<1>4. ASSUME NEW ip \in rangeStart .. rangeEnd PROVE ip \in Pool!Walk
  <2>1. ip \in rangeStart .. Octet * Octet - 1 BY <1>1, <1>2
  <2>2. \A j \in rangeStart .. ip : j \in rangeStart .. rangeEnd + 1 /\ j <= rangeEnd BY <1>1
  <2>3. rangeEnd \in rangeStart .. rangeEnd + 1 BY <1>1
  <2> QED BY <1>1, <1>3, <2>1, <2>2, <2>3
<1>5. ASSUME NEW ip \in Pool!Walk PROVE ip \in rangeStart .. rangeEnd
  <2>1. ip \in rangeStart .. Octet * Octet - 1 BY <1>3
  <2>2. SUFFICES ASSUME rangeEnd < ip PROVE FALSE BY <1>1, <1>2, <2>1
  <2>3. rangeEnd + 1 \in rangeStart .. ip /\ rangeEnd + 1 \in rangeStart .. rangeEnd + 1 /\ rangeEnd \in rangeStart .. rangeEnd + 1
      BY <1>1, <1>2, <2>1, <2>2
  <2>4. Pool!NetOrder(rangeEnd + 1) <= Pool!NetOrder(rangeEnd) BY <1>3, <2>3
  <2>5. rangeEnd + 1 <= rangeEnd BY <1>1, <2>3, <2>4
  <2> QED BY <1>1, <2>5
<1> QED BY <1>4, <1>5

LEMMA OfferedIsAccepted == PoolTypeOK => OfferableIsAcceptable
<1> SUFFICES ASSUME PoolTypeOK, OneBlock
             PROVE  Pool!Walk \ {ServerIp} = {a \in Host : Pool!isIpInRange(a)}
    BY DEF OfferableIsAcceptable
<1>1. rangeStart \in Host /\ rangeEnd \in Host /\ Octet * Octet \in Nat BY PoolSettingsAssumption DEF PoolTypeOK
<1>2. \A a : a \in rangeStart .. rangeEnd <=> a \in Host /\ rangeStart <= a /\ a <= rangeEnd
    BY <1>1 DEF Host
<1>3. Pool!Walk = rangeStart .. rangeEnd BY WalkIsRange
<1> HIDE DEF Host
<1> QED BY <1>2, <1>3 DEF Pool!isIpInRange

\* The cap: within its bounds, and twice the pool where that is asked for.
LEMMA ClampBounds ==
    ASSUME NEW n \in Nat
    PROVE  /\ Pool!Clamp(n) \in MinLeaseEntries .. MaxLeaseEntries
           /\ Pool!Clamp(n) >= n \/ Pool!Clamp(n) = MaxLeaseEntries
BY PoolSettingsAssumption DEF Pool!Clamp

LEMMA CapIsFit == PoolTypeOK => CapFitsPool
<1> SUFFICES ASSUME PoolTypeOK PROVE CapFitsPool OBVIOUS
<1>1. /\ Octet \in Nat /\ Octet >= 3 /\ MinLeaseEntries \in Nat \ {0} /\ MaxLeaseEntries \in Nat
      /\ MinLeaseEntries <= MaxLeaseEntries
    BY PoolSettingsAssumption
<1> DEFINE word == Octet * Octet
<1>2. word \in Nat /\ 2 * Octet < word
  <2>1. Octet * 3 <= Octet * Octet BY <1>1, ProductGrows
  <2> QED BY <1>1, <2>1
<1>3. Pool!Word = word BY DEF Pool!Word
<1>4. rangeStart \in 1 .. word - 1 /\ rangeEnd \in 1 .. word - 1 BY DEF PoolTypeOK, Host
<1>5. Pool!PoolSize = (rangeEnd - rangeStart + 1) % word \/ Pool!PoolSize = 0 BY <1>3 DEF Pool!PoolSize
<1> HIDE DEF word
<1>6. Pool!PoolSize \in Int BY <1>2, <1>4, <1>5
<1>7. (Pool!PoolSize * 2) % word \in Nat
  <2>1. \A x \in Int, w \in Nat \ {0} : (x * 2) % w \in Nat OBVIOUS
  <2>2. word \in Nat \ {0} BY <1>1, <1>2
  <2> QED BY <1>6, <2>1, <2>2
<1>8. maxLeaseEntries \in Nat BY <1>1 DEF PoolTypeOK
<1>9. \A n \in {0, maxLeaseEntries} : Pool!EffectiveLimit(n) \in MinLeaseEntries .. MaxLeaseEntries
    BY <1>3, <1>7, <1>8, ClampBounds DEF Pool!EffectiveLimit
<1>10. ASSUME OneBlock
       PROVE  Pool!EffectiveLimit(0) >= Cardinality(Pool!ConfiguredRange) \/ Pool!EffectiveLimit(0) = MaxLeaseEntries
  <2>1. /\ rangeStart \in Nat /\ rangeEnd \in Nat /\ rangeStart <= rangeEnd /\ rangeEnd - rangeStart < Octet - 1
        /\ \A i, j \in rangeStart .. rangeEnd + 1 :
              Pool!NetOrder(i) \in Nat /\ (Pool!NetOrder(i) <= Pool!NetOrder(j) <=> i <= j)
      BY <1>10, BlockOrder
  <2> DEFINE n == rangeEnd - rangeStart + 1
             C == Cardinality(Pool!ConfiguredRange)
  <2>2. n \in Nat /\ n < Octet /\ n >= 1 BY <1>1, <2>1
  <2>3. C \in Nat /\ C <= n
    <3>1. IsFiniteSet(rangeStart .. rangeEnd) /\ Cardinality(rangeStart .. rangeEnd) = n
        BY <2>1, FS_Interval
    <3>2. Pool!ConfiguredRange \subseteq rangeStart .. rangeEnd BY DEF Pool!ConfiguredRange
    <3> QED BY <3>1, <3>2, FS_Subset, FS_CardinalityType
  <2>4. CASE rangeStart = rangeEnd
    <3>1. C <= 1 BY <2>1, <2>3, <2>4
    <3>2. Pool!EffectiveLimit(0) \in MinLeaseEntries .. MaxLeaseEntries BY <1>9
    <3> QED BY <1>1, <2>3, <3>1, <3>2
  <2>5. CASE rangeStart # rangeEnd
    <3>1. rangeStart \in rangeStart .. rangeEnd + 1 /\ rangeEnd \in rangeStart .. rangeEnd + 1 BY <2>1
    <3>2. ~(Pool!NetOrder(rangeEnd) <= Pool!NetOrder(rangeStart)) BY <2>1, <2>5, <3>1
    <3>3. Pool!NetOrder(rangeEnd) > Pool!NetOrder(rangeStart) BY <2>1, <3>1, <3>2
    <3>4. Pool!PoolSize = n % word BY <1>3, <3>3 DEF Pool!PoolSize
    <3> HIDE DEF n
    <3>5. n % word = n /\ (n * 2) % word = n * 2 BY <1>1, <1>2, <2>2
    <3>6. Pool!EffectiveLimit(0) = Pool!Clamp(n * 2) BY <1>3, <3>4, <3>5 DEF Pool!EffectiveLimit
    <3>7. Pool!Clamp(n * 2) >= n * 2 \/ Pool!Clamp(n * 2) = MaxLeaseEntries BY <2>2, ClampBounds
    <3>8. Pool!Clamp(n * 2) \in Nat BY <1>1, <2>2, ClampBounds
    <3> QED BY <1>1, <2>2, <2>3, <3>6, <3>7, <3>8
  <2> QED BY <2>4, <2>5
<1> QED BY <1>9, <1>10 DEF CapFitsPool

LEMMA PoolInductive == (PoolInit => PoolTypeOK) /\ (PoolTypeOK /\ [PoolNext]_poolVars => PoolTypeOK')
<1>1. PoolInit => PoolTypeOK
  <2>1. Octet \in Nat /\ Octet >= 3 BY PoolSettingsAssumption
  <2>2. Octet * 3 <= Octet * Octet BY <2>1, ProductGrows
  <2>3. Octet * Octet \in Nat BY <2>1
  <2> QED BY <2>1, <2>2, <2>3 DEF PoolInit, PoolTypeOK, Host
<1>2. PoolTypeOK /\ [PoolNext]_poolVars => PoolTypeOK'
    BY DEF PoolTypeOK, PoolNext, savePool, poolVars, Host
<1> QED BY <1>1, <1>2

-----------------------------------------------------------------------------
(***************************************************************************)
(* The allow-list: in both copies every entry is found by the chain from   *)
(* its own slot, and a walk has seen a part of that chain in a copy nobody *)
(* has touched since it began, unless the walk is marked.                  *)
(***************************************************************************)
Slot(mac, i) == (hashMac[mac] + i) % Slots
Copies == [0..Slots - 1 -> Mac \cup {NoMac}]
\* The chain of an address up to a place holds other addresses.
Passed(t, mac, n) == \A j \in 0..n - 1 : t[Slot(mac, j)] \notin {NoMac, mac}
Found(t, mac) == \E i \in 0..Slots - 1 : t[Slot(mac, i)] = mac /\ Passed(t, mac, i)
Chained(t) == \A mac \in Held(t) : Found(t, mac)

WalkType == [mac : Mac \cup {NoMac}, copy : {0, 1}, at : 0..Slots - 1, seen : 0..Slots,
             answer : {"none", "walking", "yes", "no"}, held : SUBSET Mac, flips : {0, 1}, wiped : BOOLEAN]
FillType == [list : ListsOf \cup {<<>>}, at : Nat, inserted : 0..MaxListed]

\* A walk that goes on and was not wiped.
OnItsWay ==
    /\ walk.mac \in Mac /\ walk.seen < Slots /\ walk.at = Slot(walk.mac, walk.seen)
    /\ ~walk.wiped => /\ walk.held = Held(table[walk.copy])
                      /\ Passed(table[walk.copy], walk.mac, walk.seen)
                      /\ walk.flips = 0 => walk.copy = activeCopy
                      /\ walk.flips # 0 => filling.at = 0
AllowInv ==
    /\ table \in [{0, 1} -> Copies] /\ activeCopy \in {0, 1} /\ filling \in FillType /\ walk \in WalkType
    /\ Chained(table[0]) /\ Chained(table[1])
    /\ walk.answer = "walking" => OnItsWay
    /\ WalkIsTrue

LEMMA SlotIsOne == \A mac \in Mac, i \in Nat : Slot(mac, i) \in 0..Slots - 1
<1> TAKE mac \in Mac, i \in Nat
<1>1. hashMac[mac] \in Nat /\ Slots \in Nat \ {0} BY AllowAssumption
<1>2. hashMac[mac] + i \in Nat BY <1>1
<1>3. (hashMac[mac] + i) % Slots \in 0 .. Slots - 1 BY <1>1, <1>2, Division
<1> QED BY <1>3 DEF Slot

LEMMA NextSlot == \A mac \in Mac, i \in Nat : (Slot(mac, i) + 1) % Slots = Slot(mac, i + 1)
<1> TAKE mac \in Mac, i \in Nat
<1> DEFINE a == hashMac[mac] + i
           q == a \div Slots
           r == a % Slots
<1>1. hashMac[mac] \in Nat /\ Slots \in Nat \ {0} /\ a \in Nat BY AllowAssumption
<1>2. Slot(mac, i) = r /\ Slot(mac, i + 1) = (a + 1) % Slots BY <1>1 DEF Slot
<1> HIDE DEF a
<1>3. q \in Nat /\ r \in 0 .. Slots - 1 /\ a = Slots * q + r BY <1>1, Division
<1> HIDE DEF q, r
<1>4. CASE r + 1 < Slots
  <2>1. r + 1 \in 0 .. Slots - 1 BY <1>1, <1>3, <1>4
  <2>2. Slots * q \in Nat /\ a + 1 = Slots * q + (r + 1) BY <1>1, <1>3
  <2>3. (a + 1) % Slots = r + 1
    <3>1. (Slots * q + (r + 1)) % Slots = r + 1 BY <1>1, <1>3, <2>1, DivisionIs
    <3> QED BY <2>2, <3>1
  <2>4. (r + 1) % Slots = r + 1
    <3>1. Slots * 0 + (r + 1) = r + 1 BY <1>1, <1>3
    <3>2. (Slots * 0 + (r + 1)) % Slots = r + 1 BY <1>1, <2>1, DivisionIs
    <3> QED BY <3>1, <3>2
  <2> QED BY <1>2, <2>3, <2>4
<1>5. CASE r + 1 = Slots
  <2>1. Slots * q \in Nat /\ Slots * (q + 1) = Slots * q + Slots BY <1>1, <1>3
  <2>2. a + 1 = Slots * (q + 1) + 0 BY <1>1, <1>3, <1>5, <2>1
  <2>3. 0 \in 0 .. Slots - 1 /\ q + 1 \in Nat BY <1>1, <1>3
  <2>4. (a + 1) % Slots = 0 BY <1>1, <2>2, <2>3, DivisionIs
  <2>5. (r + 1) % Slots = 0
    <3>1. Slots * 1 + 0 = r + 1 BY <1>1, <1>5
    <3>2. (Slots * 1 + 0) % Slots = 0 BY <1>1, <2>3, DivisionIs
    <3> QED BY <3>1, <3>2
  <2> QED BY <1>2, <2>4, <2>5
<1> QED BY <1>1, <1>3, <1>4, <1>5

\* The first free slot of a chain: everything before it is taken by others.
LEMMA FreeIsFree ==
    ASSUME NEW t \in Copies, NEW mac \in Mac, freeSlot(t, mac) < Slots
    PROVE  \E i \in 0..Slots - 1 : /\ freeSlot(t, mac) = Slot(mac, i) /\ t[Slot(mac, i)] = NoMac
                                   /\ Passed(t, mac, i)
<1> DEFINE stops == {i \in 0..Slots - 1 : t[Slot(mac, i)] \in {NoMac, mac}}
           first == CHOOSE i \in stops : \A j \in stops : i <= j
<1>1. freeSlot(t, mac) = IF stops = {} \/ t[Slot(mac, first)] = mac THEN Slots ELSE Slot(mac, first)
    BY DEF freeSlot, Slot
<1>2. Slots \in Nat /\ ~(Slots < Slots) BY AllowAssumption
<1>3. stops # {} /\ t[Slot(mac, first)] # mac /\ freeSlot(t, mac) = Slot(mac, first) BY <1>1, <1>2
<1>4. stops \in SUBSET Nat BY <1>2
<1>5. \E i \in stops : \A j \in stops : i <= j
  <2> HIDE DEF stops
  <2> QED BY <1>3, <1>4, LeastOf
<1>6. first \in stops /\ \A j \in stops : first <= j BY <1>5
<1> HIDE DEF first
<1>7. first \in 0..Slots - 1 /\ t[Slot(mac, first)] = NoMac BY <1>3, <1>6
<1>8. Passed(t, mac, first)
  <2> SUFFICES ASSUME NEW j \in 0..first - 1, t[Slot(mac, j)] \in {NoMac, mac} PROVE FALSE BY DEF Passed
  <2>1. j \in 0..Slots - 1 /\ ~(first <= j) BY <1>2, <1>7
  <2> QED BY <1>6, <2>1
<1> QED BY <1>3, <1>7, <1>8

\* One entry more, at the first free slot of its chain: every chain stays.
LEMMA ChainedInsert ==
    ASSUME NEW t \in Copies, Chained(t), NEW mac \in Mac, freeSlot(t, mac) < Slots
    PROVE  Chained([t EXCEPT ![freeSlot(t, mac)] = mac])
<1>1. PICK i \in 0..Slots - 1 : /\ freeSlot(t, mac) = Slot(mac, i) /\ t[Slot(mac, i)] = NoMac
                                /\ Passed(t, mac, i)
    BY FreeIsFree
<1> DEFINE at == Slot(mac, i)
           new == [t EXCEPT ![at] = mac]
<1>2. Slots \in Nat /\ NoMac \notin Mac BY AllowAssumption
<1>3. at \in 0..Slots - 1 BY <1>1, <1>2, SlotIsOne
<1>4. new[at] = mac /\ \A k \in 0..Slots - 1 : k # at => new[k] = t[k] BY <1>3 DEF Copies
<1>5. t[at] = NoMac BY <1>1
<1> HIDE DEF new, at
<1>6. ASSUME NEW m \in Mac, NEW n \in 0..Slots, Passed(t, m, n)
      PROVE  \A j \in 0..n - 1 : new[Slot(m, j)] = t[Slot(m, j)]
  <2> SUFFICES ASSUME NEW j \in 0..n - 1 PROVE new[Slot(m, j)] = t[Slot(m, j)] OBVIOUS
  <2>1. t[Slot(m, j)] # NoMac BY <1>6 DEF Passed
  <2>2. j \in Nat BY <1>2
  <2>3. Slot(m, j) \in 0..Slots - 1 BY <2>2, SlotIsOne
  <2> QED BY <1>4, <1>5, <2>1, <2>3
<1>7. Found(new, mac)
  <2>1. i \in 0..Slots BY <1>2
  <2>2. Passed(new, mac, i) BY <1>1, <1>6, <2>1 DEF Passed
  <2> QED BY <1>1, <1>4, <2>2 DEF Found, at
<1>8. ASSUME NEW m \in Held(new) PROVE Found(new, m)
  <2>1. CASE m = mac BY <1>7, <2>1
  <2>2. CASE m # mac
    <3>1. PICK k \in 0..Slots - 1 : new[k] = m /\ m # NoMac BY <1>8 DEF Held
    <3>2. t[k] = m BY <1>4, <2>2, <3>1
    <3>3. m \in Held(t) BY <3>1, <3>2 DEF Held
    <3>4. m \in Mac BY <3>1, <3>2 DEF Copies
    <3>5. PICK n \in 0..Slots - 1 : t[Slot(m, n)] = m /\ Passed(t, m, n) BY <3>3 DEF Chained, Found
    <3>6. n \in Nat /\ n \in 0..Slots BY <1>2
    <3>7. Slot(m, n) \in 0..Slots - 1 BY <3>4, <3>6, SlotIsOne
    <3>8. new[Slot(m, n)] = m BY <1>2, <1>4, <1>5, <3>4, <3>5, <3>7
    <3>9. Passed(new, m, n) BY <1>6, <3>4, <3>5, <3>6 DEF Passed
    <3> QED BY <3>8, <3>9 DEF Found
  <2> QED BY <2>1, <2>2
<1>9. [t EXCEPT ![freeSlot(t, mac)] = mac] = new BY <1>1 DEF new, at
<1> QED BY <1>8, <1>9 DEF Chained

LEMMA EmptyIsChained == Empty \in Copies /\ Chained(Empty) /\ Held(Empty) = {}
<1>1. Empty \in Copies BY DEF Empty, Copies
<1>2. Held(Empty) = {} BY DEF Held, Empty
<1> QED BY <1>1, <1>2 DEF Chained

LEMMA AllowStart == AllowInit => AllowInv
<1> SUFFICES ASSUME AllowInit PROVE AllowInv OBVIOUS
<1>1. Slots \in Nat \ {0} /\ MaxListed \in Nat BY AllowAssumption
<1>2. table[0] = Empty /\ table[1] = Empty /\ table \in [{0, 1} -> Copies] BY EmptyIsChained DEF AllowInit
<1>3. filling \in FillType BY <1>1 DEF AllowInit, NotFilling, FillType
<1>4. walk \in WalkType /\ walk.answer = "none" BY <1>1 DEF AllowInit, NoWalk, WalkType
<1> QED BY <1>2, <1>3, <1>4, EmptyIsChained DEF AllowInv, AllowInit, WalkIsTrue

\* What a change of the copy that is not in force leaves alone: the other copy, and
\* a walk that is on it.
LEMMA CopyFilled ==
    ASSUME AllowInv, NEW t \in Copies, Chained(t), table' = [table EXCEPT ![inactive] = t],
           UNCHANGED activeCopy, filling' \in FillType, filling'.at # 0, walk' \in WalkType,
           \/ walk' = walk /\ filling.at # 0
           \/ walk'.wiped /\ walk' = [walk EXCEPT !.wiped = TRUE]
           \/ walk' = walk /\ (walk.answer = "walking" => walk.flips = 0)
    PROVE  AllowInv'
<1>1. activeCopy \in {0, 1} /\ inactive \in {0, 1} /\ inactive # activeCopy BY DEF AllowInv, inactive
<1>2. table' \in [{0, 1} -> Copies] /\ table'[inactive] = t /\ table'[activeCopy] = table[activeCopy]
    BY <1>1 DEF AllowInv
<1>3. Chained(table'[0]) /\ Chained(table'[1]) BY <1>1, <1>2 DEF AllowInv
<1>4. walk \in WalkType BY DEF AllowInv
<1>5. walk'.answer = "walking" => OnItsWay'
  <2> SUFFICES ASSUME walk'.answer = "walking" PROVE OnItsWay' OBVIOUS
  <2>1. walk.answer = "walking" BY <1>4 DEF WalkType
  <2>2. OnItsWay BY <2>1 DEF AllowInv
  <2>3. CASE walk' = walk
    <3>1. ~walk.wiped => walk.flips = 0 BY <2>1, <2>2, <2>3, <1>4 DEF OnItsWay, WalkType
    <3>2. ~walk.wiped => walk.copy = activeCopy BY <2>2, <3>1 DEF OnItsWay
    <3> QED BY <1>2, <2>2, <2>3, <3>1, <3>2 DEF OnItsWay
  <2>4. CASE walk'.wiped /\ walk' = [walk EXCEPT !.wiped = TRUE]
    <3>1. walk'.mac = walk.mac /\ walk'.seen = walk.seen /\ walk'.at = walk.at BY <1>4, <2>4 DEF WalkType
    <3> QED BY <2>2, <2>4, <3>1 DEF OnItsWay
  <2> QED BY <2>3, <2>4
<1>6. WalkIsTrue' BY <1>4 DEF AllowInv, WalkIsTrue, WalkType
<1> QED BY <1>1, <1>2, <1>3, <1>5, <1>6 DEF AllowInv

LEMMA AllowRebuilt ==
    ASSUME AllowInv, NEW list \in ListsOf, rebuild(list)
    PROVE  AllowInv'
<1>1. table' = [table EXCEPT ![inactive] = Empty] /\ UNCHANGED activeCopy BY DEF rebuild
<1>2. filling' \in FillType /\ filling'.at # 0
  <2>1. MaxListed \in Nat BY AllowAssumption
  <2> QED BY <2>1 DEF rebuild, FillType
<1>3. walk \in WalkType BY DEF AllowInv
<1> DEFINE wiped == walk.wiped \/ (walk.answer = "walking" /\ walk.flips > 0)
<1>4. walk' = [walk EXCEPT !.wiped = wiped] BY DEF rebuild
<1>5. wiped \in BOOLEAN BY <1>3 DEF WalkType
<1>6. walk.flips \in {0, 1} /\ walk.wiped \in BOOLEAN BY <1>3 DEF WalkType
<1>7. ~wiped => walk.wiped = FALSE /\ (walk.answer = "walking" => walk.flips = 0) BY <1>6
<1> HIDE DEF wiped
<1>8. walk' \in WalkType BY <1>3, <1>4, <1>5 DEF WalkType
<1>9. CASE wiped
  <2>1. wiped = TRUE BY <1>5, <1>9
  <2>2. walk'.wiped /\ walk' = [walk EXCEPT !.wiped = TRUE] BY <1>3, <1>4, <2>1 DEF WalkType
  <2> QED BY <1>1, <1>2, <1>8, <2>2, CopyFilled, EmptyIsChained
<1>10. CASE ~wiped
  <2>1. wiped = walk.wiped BY <1>5, <1>7, <1>10
  <2>2. walk' = walk BY <1>3, <1>4, <2>1 DEF WalkType
  <2> QED BY <1>1, <1>2, <1>7, <1>8, <1>10, <2>2, CopyFilled, EmptyIsChained
<1> QED BY <1>9, <1>10

LEMMA AllowInserted ==
    ASSUME AllowInv, rebuild_Insert
    PROVE  AllowInv'
<1> DEFINE entry == filling.list[filling.at]
           slot == freeSlot(table[inactive], entry.mac)
           fits == entry.enabled /\ filling.inserted < MaxListed /\ slot < Slots
           inserted == IF fits THEN filling.inserted + 1 ELSE filling.inserted
<1>1. activeCopy \in {0, 1} /\ inactive \in {0, 1} /\ table[inactive] \in Copies /\ Chained(table[inactive])
    BY DEF AllowInv, inactive
<1>2. filling \in FillType /\ walk \in WalkType BY DEF AllowInv
<1>3. filling.at \in 1..Len(filling.list) BY DEF rebuild_Insert
<1>4. MaxListed \in Nat BY AllowAssumption
<1> DEFINE Entries == [mac : Mac, enabled : BOOLEAN]
<1>5. filling.list \in Seq(Entries)
  <2>1. filling.list \in ListsOf \cup {<<>>} BY <1>2 DEF FillType
  <2>2. \A list \in ListsOf : list \in Seq(Entries) BY AllowAssumption
  <2> HIDE DEF Entries
  <2>3. <<>> \in Seq(Entries) OBVIOUS
  <2> QED BY <2>1, <2>2, <2>3
<1>6. entry.mac \in Mac
  <2> HIDE DEF Entries
  <2>1. entry \in Entries BY <1>3, <1>5
  <2> QED BY <2>1 DEF Entries
<1>7. inserted \in 0..MaxListed
  <2>1. filling.inserted \in 0..MaxListed BY <1>2 DEF FillType
  <2> QED BY <1>4, <2>1
<1>8. /\ table' = IF fits THEN [table EXCEPT ![inactive][slot] = entry.mac] ELSE table
      /\ filling' = [filling EXCEPT !.at = filling.at + 1, !.inserted = inserted]
      /\ UNCHANGED <<activeCopy, walk>>
    BY DEF rebuild_Insert
<1> HIDE DEF inserted
<1>9. filling' \in FillType /\ filling'.at # 0 /\ filling.at # 0
  <2>1. filling.at \in Nat /\ filling.at + 1 \in Nat /\ filling.at + 1 # 0 /\ filling.at # 0 BY <1>2, <1>3 DEF FillType
  <2> QED BY <1>2, <1>7, <1>8, <2>1 DEF FillType
<1>10. CASE fits
  <2> DEFINE t == [table[inactive] EXCEPT ![slot] = entry.mac]
  <2>1. slot < Slots BY <1>10
  <2>2. Chained(t) BY <1>1, <1>6, <2>1, ChainedInsert
  <2>3. t \in Copies BY <1>1, <1>6 DEF Copies
  <2>4. table' = [table EXCEPT ![inactive] = t] BY <1>8, <1>10
  <2> HIDE DEF t
  <2> QED BY <1>2, <1>8, <1>9, <2>2, <2>3, <2>4, CopyFilled
<1>11. CASE ~fits
  <2>1. table' = [table EXCEPT ![inactive] = table[inactive]] BY <1>8, <1>11 DEF AllowInv
  <2> QED BY <1>1, <1>2, <1>8, <1>9, <2>1, CopyFilled
<1> QED BY <1>10, <1>11

LEMMA AllowFlipped ==
    ASSUME AllowInv, rebuild_Flip
    PROVE  AllowInv'
<1>1. activeCopy' = 1 - activeCopy /\ filling' = NotFilling /\ UNCHANGED table /\ filling.at > 0 BY DEF rebuild_Flip
<1>2. filling \in FillType /\ walk \in WalkType /\ activeCopy \in {0, 1} BY DEF AllowInv
<1> DEFINE flips == IF walk.answer = "walking" THEN 1 ELSE walk.flips
<1>3. walk' = [walk EXCEPT !.flips = flips] /\ flips \in {0, 1} BY <1>2 DEF rebuild_Flip, WalkType
<1>4. walk.answer = "walking" => flips # 0 OBVIOUS
<1> HIDE DEF flips
<1>5. /\ walk' \in WalkType /\ walk'.mac = walk.mac /\ walk'.copy = walk.copy /\ walk'.at = walk.at
      /\ walk'.seen = walk.seen /\ walk'.answer = walk.answer /\ walk'.held = walk.held /\ walk'.wiped = walk.wiped
      /\ walk'.flips = flips
    BY <1>2, <1>3 DEF WalkType
<1>6. filling' \in FillType /\ filling'.at = 0
  <2>1. MaxListed \in Nat BY AllowAssumption
  <2> QED BY <1>1, <2>1 DEF NotFilling, FillType
<1>7. activeCopy' \in {0, 1} BY <1>1, <1>2
<1>8. walk'.answer = "walking" => OnItsWay'
    BY <1>1, <1>4, <1>5, <1>6 DEF AllowInv, OnItsWay
<1>9. WalkIsTrue' BY <1>5 DEF AllowInv, WalkIsTrue
<1> QED BY <1>1, <1>5, <1>6, <1>7, <1>8, <1>9 DEF AllowInv

\* contains() begins, and after its answer ends.
LEMMA AllowAsked ==
    ASSUME AllowInv, isClientAllowed \/ \E mac \in Mac : contains(mac)
    PROVE  AllowInv'
<1>1. UNCHANGED <<table, activeCopy, filling>> BY DEF isClientAllowed, contains
<1>2. Slots \in Nat \ {0} BY AllowAssumption
<1>3. CASE isClientAllowed
  <2>1. walk' \in WalkType /\ walk'.answer = "none" BY <1>2, <1>3 DEF isClientAllowed, NoWalk, WalkType
  <2> QED BY <1>1, <2>1 DEF AllowInv, WalkIsTrue
<1>4. ASSUME NEW mac \in Mac, contains(mac) PROVE AllowInv'
  <2>1. activeCopy \in {0, 1} /\ table[activeCopy] \in Copies BY DEF AllowInv
  <2>2. Held(table[activeCopy]) \in SUBSET Mac BY <2>1 DEF Held, Copies
  <2>3. hashMac[mac] \in 0..Slots - 1 /\ hashMac[mac] \in Nat BY AllowAssumption
  <2>4. hashMac[mac] = Slot(mac, 0)
    <3>1. Slots * 0 + hashMac[mac] = hashMac[mac] /\ hashMac[mac] + 0 = hashMac[mac] BY <1>2, <2>3
    <3>2. (Slots * 0 + hashMac[mac]) % Slots = hashMac[mac] BY <1>2, <2>3, DivisionIs
    <3> QED BY <3>1, <3>2 DEF Slot
  <2>5. walk' = [mac |-> mac, copy |-> activeCopy, at |-> hashMac[mac], seen |-> 0, answer |-> "walking",
                 held |-> Held(table[activeCopy]), flips |-> 0, wiped |-> FALSE]
      BY <1>4 DEF contains
  <2>6. /\ walk'.mac = mac /\ walk'.copy = activeCopy /\ walk'.at = hashMac[mac] /\ walk'.seen = 0
        /\ walk'.answer = "walking" /\ walk'.held = Held(table[activeCopy]) /\ walk'.flips = 0
      BY <2>5
  <2>7. walk' \in WalkType BY <1>2, <2>1, <2>2, <2>3, <2>5 DEF WalkType
  <2>8. Passed(table[activeCopy], mac, 0) BY DEF Passed
  <2>9. OnItsWay' BY <1>1, <1>2, <2>4, <2>6, <2>8 DEF OnItsWay
  <2> QED BY <1>1, <2>6, <2>7, <2>9 DEF AllowInv, WalkIsTrue
<1> QED BY <1>3, <1>4

\* One slot of the walk: it is the address, the end of the chain, or one more.
LEMMA AllowProbed ==
    ASSUME AllowInv, contains_Probe
    PROVE  AllowInv'
<1>1. UNCHANGED <<table, activeCopy, filling>> /\ walk.answer = "walking" BY DEF contains_Probe
<1>2. Slots \in Nat \ {0} /\ NoMac \notin Mac BY AllowAssumption
<1>3. walk \in WalkType /\ OnItsWay BY <1>1 DEF AllowInv
<1> DEFINE t == table[walk.copy]
           mac == walk.mac
           k == walk.seen
           slot == t[walk.at]
           answer == IF slot = mac THEN "yes" ELSE IF slot = NoMac \/ k = Slots - 1 THEN "no" ELSE walk.answer
<1>4. mac \in Mac /\ k \in Nat /\ k < Slots /\ walk.at = Slot(mac, k) BY <1>2, <1>3 DEF OnItsWay, WalkType
<1>5. walk' = [walk EXCEPT !.answer = answer, !.at = (walk.at + 1) % Slots, !.seen = k + 1] BY DEF contains_Probe
<1>6. answer \in {"yes", "no", "walking"} BY <1>1
<1>7. Slot(mac, k + 1) \in 0..Slots - 1 /\ (walk.at + 1) % Slots = Slot(mac, k + 1)
    BY <1>4, SlotIsOne, NextSlot
<1>8. k + 1 \in 0..Slots BY <1>2, <1>4
<1>9. t \in Copies /\ Chained(t) BY <1>3 DEF AllowInv, WalkType
<1>10. Held(t) = {x \in Mac : \E i \in 0..Slots - 1 : t[i] = x} BY <1>2, <1>9 DEF Held, Copies
<1>11. slot = t[Slot(mac, k)] /\ Slot(mac, k) \in 0..Slots - 1 BY <1>4, SlotIsOne
<1>12. answer = "yes" => mac \in Held(t)
  <2>1. answer = "yes" => slot = mac BY <1>1
  <2> QED BY <1>4, <1>10, <1>11, <2>1
<1>13. ASSUME answer = "no", Passed(t, mac, k), mac \in Held(t) PROVE FALSE
  <2>1. slot # mac /\ (slot = NoMac \/ k = Slots - 1) BY <1>1, <1>13
  <2>2. PICK i \in 0..Slots - 1 : t[Slot(mac, i)] = mac /\ Passed(t, mac, i) BY <1>9, <1>13 DEF Chained, Found
  <2>3. i \in Nat /\ i < Slots BY <1>2
  <2>4. ~(i < k) BY <1>4, <1>13, <2>2, <2>3 DEF Passed
  <2>5. i # k BY <1>11, <2>1, <2>2
  <2>6. k < i BY <1>4, <2>3, <2>4, <2>5
  <2>7. k \in 0..i - 1 BY <1>4, <2>3, <2>6
  <2>8. slot # NoMac BY <1>11, <2>2, <2>7 DEF Passed
  <2> QED BY <1>2, <1>4, <2>1, <2>3, <2>6, <2>8
<1>14. answer = "walking" /\ Passed(t, mac, k) => k + 1 < Slots /\ Passed(t, mac, k + 1)
  <2> SUFFICES ASSUME answer = "walking", Passed(t, mac, k) PROVE k + 1 < Slots /\ Passed(t, mac, k + 1) OBVIOUS
  <2>1. slot # mac /\ slot # NoMac /\ k # Slots - 1 OBVIOUS
  <2>2. k + 1 < Slots BY <1>2, <1>4, <2>1
  <2>3. \A j \in 0..(k + 1) - 1 : j \in 0..k - 1 \/ j = k BY <1>4
  <2> QED BY <1>11, <2>1, <2>2, <2>3 DEF Passed
<1>15. answer = "walking" => k + 1 < Slots BY <1>2, <1>4
<1> HIDE DEF answer
<1>16. /\ walk' \in WalkType /\ walk'.mac = mac /\ walk'.copy = walk.copy /\ walk'.at = Slot(mac, k + 1)
       /\ walk'.seen = k + 1 /\ walk'.answer = answer /\ walk'.held = walk.held /\ walk'.wiped = walk.wiped
       /\ walk'.flips = walk.flips
  <2>1. answer \in {"none", "walking", "yes", "no"} BY <1>6
  <2> QED BY <1>3, <1>5, <1>7, <1>8, <2>1 DEF WalkType
<1> HIDE DEF t, mac, k, slot
<1>17. ~walk.wiped => walk.held = Held(t) /\ Passed(t, mac, k) BY <1>3 DEF OnItsWay, t, mac, k
<1>18. walk'.answer = "walking" => OnItsWay'
  <2> SUFFICES ASSUME answer = "walking" PROVE OnItsWay' BY <1>16
  <2>1. walk'.mac \in Mac /\ walk'.seen < Slots /\ walk'.at = Slot(walk'.mac, walk'.seen) BY <1>4, <1>15, <1>16
  <2>2. table'[walk'.copy] = t BY <1>1, <1>16 DEF t
  <2>3. ~walk'.wiped => /\ walk'.held = Held(table'[walk'.copy])
                        /\ Passed(table'[walk'.copy], walk'.mac, walk'.seen)
      BY <1>14, <1>16, <1>17, <2>2
  <2>4. ~walk'.wiped => (walk'.flips = 0 => walk'.copy = activeCopy') /\ (walk'.flips # 0 => filling'.at = 0)
      BY <1>1, <1>3, <1>16 DEF OnItsWay
  <2> QED BY <2>1, <2>3, <2>4 DEF OnItsWay
<1>19. WalkIsTrue' BY <1>12, <1>13, <1>16, <1>17 DEF WalkIsTrue
<1> QED BY <1>1, <1>16, <1>18, <1>19 DEF AllowInv

LEMMA AllowInductive == AllowInv /\ [AllowNext]_allowVars => AllowInv'
<1> SUFFICES ASSUME AllowInv, [AllowNext]_allowVars PROVE AllowInv' OBVIOUS
<1>1. CASE UNCHANGED allowVars BY <1>1 DEF allowVars, AllowInv, OnItsWay, WalkIsTrue
<1>2. CASE AllowNext
    BY <1>2, AllowRebuilt, AllowInserted, AllowFlipped, AllowAsked, AllowProbed DEF AllowNext, allowStep
<1> QED BY <1>1, <1>2

\* The DHCP server goes by the page that was saved.  A walk through the allow-list
\* answers for the list in force when it began, whatever a page writes under it, up
\* to the second rebuild; in a range of one block the server offers what it
\* accepts; and the cap is within its bounds and lets a whole pool be leased.
THEOREM DhcpPageStaysSafe == Spec => []DhcpPageSafe
<1>1. Init => AllowInv /\ PoolTypeOK BY AllowStart, PoolInductive DEF Init
<1>2. AllowInv /\ PoolTypeOK /\ [Next]_vars => AllowInv' /\ PoolTypeOK'
    BY OneAtATime, AllowInductive, PoolInductive
<1>3. AllowInv /\ PoolTypeOK => DhcpPageSafe
  <2> SUFFICES ASSUME AllowInv, PoolTypeOK PROVE DhcpPageSafe OBVIOUS
  <2>1. AllowTypeOK BY DEF AllowInv, AllowTypeOK, Copies, FillType, WalkType
  <2>2. WalkIsTrue BY DEF AllowInv
  <2> QED BY <2>1, <2>2, OfferedIsAccepted, CapIsFit DEF DhcpPageSafe
<1> QED BY <1>1, <1>2, <1>3, PTL DEF Spec

-----------------------------------------------------------------------------
(***************************************************************************)
(* What a rebuild leaves: as far as the list was read, the copy that is    *)
(* being filled holds the clients the list allows, each in one slot.       *)
(***************************************************************************)
Entries == [mac : Mac, enabled : BOOLEAN]
OnOf(list, n) == {list[i].mac : i \in {j \in 1..n : list[j].enabled}}
AllowedOf(list, n) ==
    UNION {OnOf(list, m) : m \in {k \in 0..n : Cardinality(OnOf(list, k)) <= MaxListed}}
Taken(t) == {i \in 0..Slots - 1 : t[i] # NoMac}

Filled(t, list, n, count) ==
    /\ IsFiniteSet(Taken(t)) /\ Cardinality(Taken(t)) = count
    /\ IsFiniteSet(Held(t)) /\ Cardinality(Held(t)) = count
    /\ IsFiniteSet(OnOf(list, n))
    /\ Held(t) = AllowedOf(list, n) /\ Held(t) \subseteq OnOf(list, n)
    /\ Held(t) = OnOf(list, n) \/ count = MaxListed

FillInv == filling.at > 0 => /\ filling.at - 1 \in 0..Len(filling.list)
                             /\ Filled(table[inactive], filling.list, filling.at - 1, filling.inserted)

LEMMA AllowsIs == \A list : Allows(list) = AllowedOf(list, Len(list))
BY DEF Allows, AllowedOf, OnOf

\* One entry more of the list.
LEMMA OnGrows ==
    ASSUME NEW list \in Seq(Entries), NEW n \in 0..Len(list) - 1
    PROVE  OnOf(list, n + 1) = IF list[n + 1].enabled THEN OnOf(list, n) \cup {list[n + 1].mac} ELSE OnOf(list, n)
<1>1. Len(list) \in Nat OBVIOUS
<1>2. {j \in 1..n + 1 : list[j].enabled} =
        {j \in 1..n : list[j].enabled} \cup (IF list[n + 1].enabled THEN {n + 1} ELSE {})
  <2>1. 1..n + 1 = 1..n \cup {n + 1} BY <1>1
  <2> QED BY <2>1
<1> QED BY <1>2 DEF OnOf

LEMMA AllowedGrows ==
    ASSUME NEW list, NEW n \in Nat
    PROVE  AllowedOf(list, n + 1) = IF Cardinality(OnOf(list, n + 1)) <= MaxListed
                                    THEN AllowedOf(list, n) \cup OnOf(list, n + 1) ELSE AllowedOf(list, n)
<1>1. 0..n + 1 = 0..n \cup {n + 1} OBVIOUS
<1> DEFINE few(k) == Cardinality(OnOf(list, k)) <= MaxListed
<1>2. {k \in 0..n + 1 : few(k)} = {k \in 0..n : few(k)} \cup (IF few(n + 1) THEN {n + 1} ELSE {})
    BY <1>1
<1> QED BY <1>2 DEF AllowedOf

\* A chain comes by every slot.
LEMMA EverySlot ==
    ASSUME NEW mac \in Mac, NEW s \in 0..Slots - 1
    PROVE  \E i \in 0..Slots - 1 : Slot(mac, i) = s
<1> DEFINE h == hashMac[mac]
<1>1. Slots \in Nat \ {0} /\ h \in 0..Slots - 1 BY AllowAssumption
<1>2. CASE h <= s
  <2>1. s - h \in 0..Slots - 1 /\ h + (s - h) = Slots * 0 + s BY <1>1, <1>2
  <2>2. (Slots * 0 + s) % Slots = s BY <1>1, DivisionIs
  <2>3. Slot(mac, s - h) = s BY <2>1, <2>2 DEF Slot
  <2> QED BY <2>1, <2>3
<1>3. CASE h > s
  <2>1. s - h + Slots \in 0..Slots - 1 /\ h + (s - h + Slots) = Slots * 1 + s BY <1>1, <1>3
  <2>2. (Slots * 1 + s) % Slots = s BY <1>1, DivisionIs
  <2>3. Slot(mac, s - h + Slots) = s BY <2>1, <2>2 DEF Slot
  <2> QED BY <2>1, <2>3
<1> QED BY <1>1, <1>2, <1>3

\* A client that is not in the table finds a slot as long as one is free, and one
\* that is in it finds itself first.
LEMMA FreeIsFound ==
    ASSUME NEW t \in Copies, NEW mac \in Mac, mac \notin Held(t), Cardinality(Taken(t)) < Slots
    PROVE  freeSlot(t, mac) < Slots
<1> DEFINE stops == {i \in 0..Slots - 1 : t[Slot(mac, i)] \in {NoMac, mac}}
           first == CHOOSE i \in stops : \A j \in stops : i <= j
<1>1. freeSlot(t, mac) = IF stops = {} \/ t[Slot(mac, first)] = mac THEN Slots ELSE Slot(mac, first)
    BY DEF freeSlot, Slot
<1>2. Slots \in Nat \ {0} /\ NoMac \notin Mac BY AllowAssumption
<1>3. PICK s \in 0..Slots - 1 : t[s] = NoMac
  <2> SUFFICES ASSUME \A s \in 0..Slots - 1 : t[s] # NoMac PROVE FALSE OBVIOUS
  <2>1. Taken(t) = 0..Slots - 1 BY DEF Taken
  <2>2. Cardinality(0..Slots - 1) = Slots BY <1>2, FS_Interval
  <2> QED BY <1>2, <2>1, <2>2
<1>4. PICK i \in 0..Slots - 1 : Slot(mac, i) = s BY EverySlot
<1>5. i \in stops BY <1>3, <1>4
<1>6. stops \in SUBSET Nat BY <1>2
<1>7. \E k \in stops : \A j \in stops : k <= j
  <2> HIDE DEF stops
  <2> QED BY <1>5, <1>6, LeastOf
<1>8. first \in stops BY <1>7
<1> HIDE DEF first
<1>9. first \in 0..Slots - 1 /\ first \in Nat BY <1>2, <1>8
<1>10. Slot(mac, first) \in 0..Slots - 1 BY <1>9, SlotIsOne
<1>11. t[Slot(mac, first)] # mac BY <1>2, <1>10 DEF Held
<1>12. freeSlot(t, mac) = Slot(mac, first) BY <1>1, <1>5, <1>11
<1> QED BY <1>2, <1>10, <1>12

LEMMA HeldIsFound ==
    ASSUME NEW t \in Copies, Chained(t), NEW mac \in Mac, mac \in Held(t)
    PROVE  ~(freeSlot(t, mac) < Slots)
<1> SUFFICES ASSUME freeSlot(t, mac) < Slots PROVE FALSE OBVIOUS
<1>1. PICK i \in 0..Slots - 1 : t[Slot(mac, i)] = NoMac /\ Passed(t, mac, i) BY FreeIsFree
<1>2. PICK k \in 0..Slots - 1 : t[Slot(mac, k)] = mac /\ Passed(t, mac, k) BY DEF Chained, Found
<1>3. Slots \in Nat /\ NoMac \notin Mac BY AllowAssumption
<1>4. ~(k \in 0..i - 1) BY <1>1, <1>2 DEF Passed
<1>5. ~(i \in 0..k - 1) BY <1>1, <1>2 DEF Passed
<1>6. i = k BY <1>3, <1>4, <1>5
<1> QED BY <1>1, <1>2, <1>3, <1>6

\* One client more, in a slot that was free.
LEMMA FilledSlot ==
    ASSUME NEW t \in Copies, NEW mac \in Mac, NEW s \in 0..Slots - 1, t[s] = NoMac
    PROVE  /\ Held([t EXCEPT ![s] = mac]) = Held(t) \cup {mac}
           /\ Taken([t EXCEPT ![s] = mac]) = Taken(t) \cup {s} /\ s \notin Taken(t)
<1> DEFINE new == [t EXCEPT ![s] = mac]
<1>1. NoMac \notin Mac BY AllowAssumption
<1>2. new[s] = mac /\ \A k \in 0..Slots - 1 : k # s => new[k] = t[k] BY DEF Copies
<1> HIDE DEF new
<1>3. Taken(new) = Taken(t) \cup {s} /\ s \notin Taken(t) BY <1>1, <1>2 DEF Taken
<1>4. Held(new) \subseteq Held(t) \cup {mac} BY <1>2 DEF Held
<1>5. Held(t) \cup {mac} \subseteq Held(new)
  <2>1. mac \in Held(new) BY <1>1, <1>2 DEF Held
  <2>2. ASSUME NEW m \in Held(t) PROVE m \in Held(new)
    <3>1. PICK k \in 0..Slots - 1 : t[k] = m /\ m # NoMac BY <2>2 DEF Held
    <3>2. new[k] = m BY <1>2, <3>1
    <3> QED BY <3>1, <3>2 DEF Held
  <2> QED BY <2>1, <2>2
<1> QED BY <1>3, <1>4, <1>5 DEF new

\* One entry of the list.
LEMMA EntryFills ==
    ASSUME NEW t \in Copies, Chained(t), NEW list \in Seq(Entries), NEW n \in 0..Len(list) - 1,
           NEW count \in 0..MaxListed, Filled(t, list, n, count),
           NEW fits, fits <=> /\ list[n + 1].enabled /\ count < MaxListed
                              /\ freeSlot(t, list[n + 1].mac) < Slots
    PROVE  Filled(IF fits THEN [t EXCEPT ![freeSlot(t, list[n + 1].mac)] = list[n + 1].mac] ELSE t,
                  list, n + 1, IF fits THEN count + 1 ELSE count)
<1> DEFINE mac == list[n + 1].mac
           enabled == list[n + 1].enabled
           on == OnOf(list, n)
           next == OnOf(list, n + 1)
<1>1. Slots \in Nat \ {0} /\ MaxListed \in Nat /\ MaxListed < Slots /\ NoMac \notin Mac BY AllowAssumption
<1>2. Len(list) \in Nat /\ n \in Nat /\ n + 1 \in 1..Len(list) OBVIOUS
<1>3. mac \in Mac
  <2>1. list[n + 1] \in Entries BY <1>2
  <2> QED BY <2>1 DEF Entries
<1>4. next = IF enabled THEN on \cup {mac} ELSE on BY OnGrows
<1>5. AllowedOf(list, n + 1) = IF Cardinality(next) <= MaxListed THEN AllowedOf(list, n) \cup next ELSE AllowedOf(list, n)
    BY <1>2, AllowedGrows
<1>6. /\ IsFiniteSet(Taken(t)) /\ Cardinality(Taken(t)) = count
      /\ IsFiniteSet(Held(t)) /\ Cardinality(Held(t)) = count
      /\ IsFiniteSet(on) /\ Held(t) = AllowedOf(list, n) /\ Held(t) \subseteq on
      /\ Held(t) = on \/ count = MaxListed
    BY DEF Filled
<1> HIDE DEF mac, enabled, on, next
<1>7. IsFiniteSet(next) /\ Held(t) \subseteq next
  <2>1. IsFiniteSet(on \cup {mac}) BY <1>6, FS_AddElement
  <2> QED BY <1>4, <1>6, <2>1
<1>8. CASE fits
  <2> DEFINE slot == freeSlot(t, mac)
             new == [t EXCEPT ![slot] = mac]
  <2>1. enabled /\ count < MaxListed /\ slot < Slots BY <1>8 DEF enabled, mac
  <2>2. Held(t) = on BY <1>1, <1>6, <2>1
  <2>3. mac \notin Held(t) BY <1>3, <2>1, HeldIsFound
  <2>4. PICK i \in 0..Slots - 1 : slot = Slot(mac, i) /\ t[Slot(mac, i)] = NoMac BY <1>3, <2>1, FreeIsFree
  <2>5. slot \in 0..Slots - 1 /\ t[slot] = NoMac BY <1>1, <1>3, <2>4, SlotIsOne
  <2>6. Held(new) = Held(t) \cup {mac} /\ Taken(new) = Taken(t) \cup {slot} /\ slot \notin Taken(t)
    <3>1. /\ Held([t EXCEPT ![slot] = mac]) = Held(t) \cup {mac}
          /\ Taken([t EXCEPT ![slot] = mac]) = Taken(t) \cup {slot} /\ slot \notin Taken(t)
      <4> HIDE DEF slot
      <4> QED BY <1>3, <2>5, FilledSlot, Zenon
    <3> QED BY <3>1
  <2> HIDE DEF new
  <2>7. IsFiniteSet(Held(new)) /\ Cardinality(Held(new)) = count + 1 BY <1>6, <2>3, <2>6, FS_AddElement
  <2>8. IsFiniteSet(Taken(new)) /\ Cardinality(Taken(new)) = count + 1
    <3> HIDE DEF slot
    <3> QED BY <1>6, <2>6, FS_AddElement
  <2>9. Held(new) = next BY <1>4, <2>1, <2>2, <2>6
  <2>10. Cardinality(next) <= MaxListed BY <1>1, <2>1, <2>7, <2>9
  <2>11. Held(new) = AllowedOf(list, n + 1) BY <1>5, <1>6, <1>7, <2>9, <2>10
  <2>12. Filled(new, list, n + 1, count + 1) BY <1>7, <2>7, <2>8, <2>9, <2>11 DEF Filled, next
  <2> QED BY <1>8, <2>12 DEF new, slot, mac
<1>9. CASE ~fits
  <2>1. AllowedOf(list, n + 1) = Held(t) /\ (Held(t) = next \/ count = MaxListed)
    <3>1. CASE count = MaxListed
      <4>1. Cardinality(next) <= MaxListed => next = Held(t)
        <5>1. Cardinality(Held(t)) <= Cardinality(next) /\ (Cardinality(next) = Cardinality(Held(t)) => next = Held(t))
            BY <1>7, FS_Subset
        <5>2. Cardinality(next) \in Nat BY <1>7, FS_CardinalityType
        <5> QED BY <1>1, <1>6, <3>1, <5>1, <5>2
      <4> QED BY <1>5, <1>6, <3>1, <4>1
    <3>2. CASE count # MaxListed
      <4>1. Held(t) = on BY <1>6, <3>2
      <4>2. next = on
        <5>1. CASE ~enabled BY <1>4, <5>1
        <5>2. CASE enabled
          <6>1. count < MaxListed /\ Cardinality(Taken(t)) < Slots BY <1>1, <1>6, <3>2
          <6>2. ~(freeSlot(t, mac) < Slots) BY <1>9, <5>2, <6>1 DEF enabled, mac
          <6>3. mac \in Held(t) BY <1>3, <6>1, <6>2, FreeIsFound
          <6> QED BY <1>4, <4>1, <5>2, <6>3
        <5> QED BY <5>1, <5>2
      <4> QED BY <1>5, <1>6, <4>1, <4>2
    <3> QED BY <3>1, <3>2
  <2>2. Filled(t, list, n + 1, count) BY <1>6, <1>7, <2>1 DEF Filled, next
  <2> QED BY <1>9, <2>2
<1> QED BY <1>8, <1>9

\* An empty copy allows nobody, as the beginning of a list does.
LEMMA NothingFilled ==
    ASSUME NEW list
    PROVE  Filled(Empty, list, 0, 0)
<1>1. OnOf(list, 0) = {} BY DEF OnOf
<1>2. AllowedOf(list, 0) = {}
  <2>1. \A k \in 0..0 : k = 0 OBVIOUS
  <2> QED BY <1>1, <2>1 DEF AllowedOf
<1>3. Held(Empty) = {} BY EmptyIsChained
<1>4. Taken(Empty) = {} BY DEF Taken, Empty
<1> QED BY <1>1, <1>2, <1>3, <1>4, FS_EmptySet DEF Filled

LEMMA FillInductive == AllowInv /\ FillInv /\ [AllowNext]_allowVars => FillInv'
<1> SUFFICES ASSUME AllowInv, FillInv, [AllowNext]_allowVars PROVE FillInv' OBVIOUS
<1>1. /\ table \in [{0, 1} -> Copies] /\ activeCopy \in {0, 1} /\ inactive \in {0, 1} /\ filling \in FillType
      /\ Chained(table[inactive]) /\ table[inactive] \in Copies
    BY DEF AllowInv, inactive
<1>2. CASE UNCHANGED <<table, activeCopy, filling>> BY <1>2 DEF FillInv, inactive
<1>3. ASSUME NEW list \in ListsOf, rebuild(list) PROVE FillInv'
  <2>1. table'[inactive'] = Empty BY <1>1, <1>3 DEF rebuild, inactive
  <2>2. filling' = [list |-> list, at |-> 1, inserted |-> 0] BY <1>3 DEF rebuild
  <2>3. filling'.list = list /\ filling'.at = 1 /\ filling'.inserted = 0 BY <2>2
  <2>4. Len(list) \in Nat /\ 1 - 1 = 0 /\ 0 \in 0..Len(list) BY AllowAssumption
  <2> QED BY <2>1, <2>3, <2>4, NothingFilled DEF FillInv
<1>4. CASE rebuild_Insert
  <2> DEFINE list == filling.list
             n == filling.at - 1
             entry == list[n + 1]
             fits == entry.enabled /\ filling.inserted < MaxListed /\ freeSlot(table[inactive], entry.mac) < Slots
             t == table[inactive]
  <2>1. filling.at \in 1..Len(filling.list) BY <1>4 DEF rebuild_Insert
  <2>2. list \in Seq(Entries)
    <3>1. list \in ListsOf \cup {<<>>} BY <1>1 DEF FillType
    <3>2. \A l \in ListsOf : l \in Seq(Entries) BY AllowAssumption DEF Entries
    <3>3. <<>> \in Seq(Entries) OBVIOUS
    <3> QED BY <3>1, <3>2, <3>3
  <2>3. n \in 0..Len(list) - 1 /\ n + 1 = filling.at /\ Len(list) \in Nat BY <2>1, <2>2
  <2>4. filling.inserted \in 0..MaxListed /\ filling.at > 0 BY <1>1, <2>1 DEF FillType
  <2>5. Filled(t, list, n, filling.inserted) BY <2>4 DEF FillInv
  <2>6. Filled(IF fits THEN [t EXCEPT ![freeSlot(t, entry.mac)] = entry.mac] ELSE t, list, n + 1,
               IF fits THEN filling.inserted + 1 ELSE filling.inserted)
    <3> DEFINE all == fits
    <3>1. all <=> entry.enabled /\ filling.inserted < MaxListed /\ freeSlot(t, entry.mac) < Slots OBVIOUS
    <3> HIDE DEF all, t, list, n
    <3>2. Filled(IF all THEN [t EXCEPT ![freeSlot(t, entry.mac)] = entry.mac] ELSE t, list, n + 1,
               IF all THEN filling.inserted + 1 ELSE filling.inserted)
        BY <1>1, <2>2, <2>3, <2>4, <2>5, <3>1, EntryFills DEF t
    <3> QED BY <3>2 DEF all
  <2>7. table'[inactive'] = IF fits THEN [t EXCEPT ![freeSlot(t, entry.mac)] = entry.mac] ELSE t
    <3>1. UNCHANGED activeCopy /\ table' = IF fits THEN [table EXCEPT ![inactive][freeSlot(t, entry.mac)] = entry.mac] ELSE table
        BY <1>4, <2>3 DEF rebuild_Insert
    <3> QED BY <1>1, <3>1 DEF inactive
  <2>8. /\ filling'.list = list /\ filling'.at - 1 = n + 1
        /\ filling'.inserted = IF fits THEN filling.inserted + 1 ELSE filling.inserted
    <3>1. filling' = [filling EXCEPT !.at = filling.at + 1,
                                     !.inserted = IF fits THEN filling.inserted + 1 ELSE filling.inserted]
        BY <1>4, <2>3 DEF rebuild_Insert
    <3> HIDE DEF fits
    <3>2. filling'.at = filling.at + 1 BY <1>1, <3>1 DEF FillType
    <3>3. filling'.at - 1 = n + 1 BY <2>3, <3>2
    <3> QED BY <1>1, <3>1, <3>3 DEF FillType
  <2>9. n + 1 \in 0..Len(list) BY <2>3
  <2> QED BY <2>6, <2>7, <2>8, <2>9 DEF FillInv
<1>5. CASE rebuild_Flip
  <2>1. filling'.at = 0 BY <1>5 DEF rebuild_Flip, NotFilling
  <2> QED BY <2>1 DEF FillInv
<1> QED BY <1>2, <1>3, <1>4, <1>5
        DEF AllowNext, allowVars, allowStep, contains, contains_Probe, isClientAllowed

LEMMA ListsAreTabled == AllowInv /\ FillInv /\ [AllowNext]_allowVars => TableIsList
<1> SUFFICES ASSUME AllowInv, FillInv, [AllowNext]_allowVars, filling.at > 0, filling'.at = 0
             PROVE  Held(table'[activeCopy']) = Allows(filling.list)
    BY DEF TableIsList
<1>1. activeCopy \in {0, 1} /\ filling \in FillType BY DEF AllowInv
<1>2. filling.at \in Nat BY <1>1 DEF FillType
<1>3. rebuild_Flip
  <2>1. filling' # filling BY <1>2
  <2>2. ASSUME NEW list, rebuild(list) PROVE FALSE BY <2>2 DEF rebuild
  <2>3. ASSUME rebuild_Insert PROVE FALSE
    <3>1. filling'.at = filling.at + 1 BY <1>1, <2>3 DEF rebuild_Insert, FillType
    <3> QED BY <1>2, <3>1
  <2> QED BY <2>1, <2>2, <2>3 DEF AllowNext, allowVars, allowStep, contains, contains_Probe, isClientAllowed
<1>4. filling.at - 1 \in 0..Len(filling.list) /\ filling.at = Len(filling.list) + 1 BY <1>3 DEF rebuild_Flip, FillInv
<1>5. filling.list \in Seq(Entries)
  <2>1. filling.list \in ListsOf \cup {<<>>} BY <1>1 DEF FillType
  <2>2. \A l \in ListsOf : l \in Seq(Entries) BY AllowAssumption DEF Entries
  <2>3. <<>> \in Seq(Entries) OBVIOUS
  <2> QED BY <2>1, <2>2, <2>3
<1>6. filling.at - 1 = Len(filling.list) BY <1>4, <1>5
<1>7. Held(table[inactive]) = AllowedOf(filling.list, Len(filling.list)) BY <1>6 DEF FillInv, Filled
<1>8. table'[activeCopy'] = table[inactive] BY <1>3 DEF rebuild_Flip, inactive
<1> QED BY <1>7, <1>8, AllowsIs

-----------------------------------------------------------------------------
(***************************************************************************)
(* The paths of the shell.  Folding the components one by one gives, after *)
(* each of them, the names that stand at the depths up to the present one. *)
(***************************************************************************)
Leaves(s, n) == \E j \in 1..n : Depth(s, j) < 0
Words(s, n) == [r \in 1..Depth(s, n) |-> s[Max(TypedAt(s, n, r))]]
Said(s, n) == IF Leaves(s, n) THEN <<Up>> ELSE Words(s, n)

LEMMA DepthIs ==
    ASSUME NEW s, NEW n \in Nat
    PROVE  /\ Depth(s, 0) = 0 /\ Depth(s, n) \in Int
           /\ s[n + 1] \in PartName => Depth(s, n + 1) = Depth(s, n) + 1
           /\ s[n + 1] = Up => Depth(s, n + 1) = Depth(s, n) - 1
           /\ s[n + 1] \notin PartName /\ s[n + 1] # Up => Depth(s, n + 1) = Depth(s, n)
<1> DEFINE names(k) == {i \in 1..k : s[i] \in PartName}
           ups(k) == {i \in 1..k : s[i] = Up}
<1>1. IsFiniteSet(1..n) BY FS_Interval
<1>2. names(n) \in SUBSET (1..n) /\ ups(n) \in SUBSET (1..n) OBVIOUS
<1>3. IsFiniteSet(names(n)) /\ IsFiniteSet(ups(n)) BY <1>1, <1>2, FS_Subset
<1>4. Cardinality(names(n)) \in Nat /\ Cardinality(ups(n)) \in Nat BY <1>3, FS_CardinalityType
<1>5. n + 1 \notin names(n) /\ n + 1 \notin ups(n) OBVIOUS
<1>6. 1..n + 1 = 1..n \cup {n + 1} OBVIOUS
<1>7. /\ names(n + 1) = IF s[n + 1] \in PartName THEN names(n) \cup {n + 1} ELSE names(n)
      /\ ups(n + 1) = IF s[n + 1] = Up THEN ups(n) \cup {n + 1} ELSE ups(n)
    BY <1>6
<1>8. \A k \in Nat : Depth(s, k) = Cardinality(names(k)) - Cardinality(ups(k)) BY DEF Depth
<1>9. names(0) = {} /\ ups(0) = {} OBVIOUS
<1>10. s[n + 1] = Up => s[n + 1] \notin PartName BY DEF PartName
<1> HIDE DEF names, ups
<1>11. /\ Cardinality(names(n) \cup {n + 1}) = Cardinality(names(n)) + 1
       /\ Cardinality(ups(n) \cup {n + 1}) = Cardinality(ups(n)) + 1
    BY <1>3, <1>5, FS_AddElement
<1>12. Depth(s, 0) = 0 BY <1>8, <1>9, FS_EmptySet
<1>13. Depth(s, n + 1) = Cardinality(names(n + 1)) - Cardinality(ups(n + 1)) BY <1>8
<1>14. Depth(s, n) = Cardinality(names(n)) - Cardinality(ups(n)) BY <1>8
<1> QED BY <1>4, <1>7, <1>10, <1>11, <1>12, <1>13, <1>14

\* One component more, of a sequence that has not left its volume.
LEMMA OneMoreTyped ==
    ASSUME NEW s, NEW n \in Nat, NEW r \in Int
    PROVE  TypedAt(s, n + 1, r) = IF s[n + 1] \in PartName /\ Depth(s, n + 1) = r
                                  THEN TypedAt(s, n, r) \cup {n + 1} ELSE TypedAt(s, n, r)
<1>1. 1..n + 1 = 1..n \cup {n + 1} OBVIOUS
<1> QED BY <1>1 DEF TypedAt

LEMMA LastIsGreatest ==
    ASSUME NEW n \in Nat, NEW S \in SUBSET (1..n)
    PROVE  Max(S \cup {n + 1}) = n + 1
<1> DEFINE T == S \cup {n + 1}
<1>1. n + 1 \in T /\ \A y \in T : n + 1 >= y OBVIOUS
<1>2. \A x \in T : (\A y \in T : x >= y) => x = n + 1
  <2> SUFFICES ASSUME NEW x \in T, \A y \in T : x >= y PROVE x = n + 1 OBVIOUS
  <2>1. x >= n + 1 /\ n + 1 >= x /\ x \in Nat BY <1>1
  <2> QED BY <2>1
<1> HIDE DEF T
<1>3. Max(T) \in T /\ \A y \in T : Max(T) >= y BY <1>1 DEF Max
<1>4. Max(T) = n + 1 BY <1>2, <1>3
<1> QED BY <1>4 DEF T

\* A sequence that has not left its volume says names.
Speaks(s, n) == ~Leaves(s, n) => Depth(s, n) \in Nat /\ Words(s, n) \in Seq(PartName)

LEMMA OneMoreSaid ==
    ASSUME NEW s \in Seq(Nat), NEW n \in 0..Len(s) - 1, Speaks(s, n)
    PROVE  Speaks(s, n + 1) /\ Said(s, n + 1) = stepped(Said(s, n), s[n + 1])
<1> DEFINE d == Depth(s, n)
           e == Depth(s, n + 1)
           piece == s[n + 1]
<1>0. Len(s) \in Nat /\ n \in Nat /\ piece \in Nat /\ n + 1 \in 1..n + 1 OBVIOUS
<1>1. d \in Int /\ e \in Int BY <1>0, DepthIs
<1>2. Leaves(s, n + 1) <=> Leaves(s, n) \/ e < 0
  <2>1. 1..n + 1 = 1..n \cup {n + 1} BY <1>0
  <2> QED BY <2>1 DEF Leaves
<1>3. CASE Leaves(s, n)
  <2>1. Said(s, n) = <<Up>> /\ Said(s, n + 1) = <<Up>> BY <1>2, <1>3 DEF Said
  <2> QED BY <1>2, <1>3, <2>1 DEF stepped, Speaks
<1>4. CASE ~Leaves(s, n)
  <2> DEFINE w == Words(s, n)
             v == Words(s, n + 1)
  <2>1. d \in Nat /\ w \in Seq(PartName) /\ Said(s, n) = w BY <1>4 DEF Speaks, Said
  <2>2. w = [r \in 1..d |-> s[Max(TypedAt(s, n, r))]] /\ v = [r \in 1..e |-> s[Max(TypedAt(s, n + 1, r))]] BY DEF Words
  <2>3. Len(w) = d
    <3>1. DOMAIN w = 1..d BY <2>2
    <3> HIDE DEF w, d
    <3> QED BY <2>1, <3>1
  <2>4. w # <<Up>>
    <3> SUFFICES ASSUME w = <<Up>> PROVE FALSE OBVIOUS
    <3> HIDE DEF w
    <3>1. w[1] \in PartName BY <2>1
    <3> QED BY <3>1 DEF PartName
  <2>5. ASSUME NEW r \in Int, r # e \/ piece \notin PartName PROVE TypedAt(s, n + 1, r) = TypedAt(s, n, r)
      BY <1>0, <2>5, OneMoreTyped
  <2>6. CASE piece \in PartName
    <3>1. e = d + 1 BY <1>0, <2>6, DepthIs
    <3>2. ~Leaves(s, n + 1) BY <1>2, <1>4, <2>1, <3>1
    <3>3. \A r \in 1..d : v[r] = w[r]
      <4> SUFFICES ASSUME NEW r \in 1..d PROVE v[r] = w[r] OBVIOUS
      <4>1. r \in Int /\ r # e /\ r \in 1..e BY <2>1, <3>1
      <4>2. TypedAt(s, n + 1, r) = TypedAt(s, n, r) BY <2>5, <4>1
      <4> QED BY <2>2, <4>1, <4>2
    <3>4. v[e] = piece
      <4>1. TypedAt(s, n + 1, e) = TypedAt(s, n, e) \cup {n + 1} BY <1>0, <1>1, <2>6, OneMoreTyped
      <4>2. TypedAt(s, n, e) \in SUBSET (1..n) BY DEF TypedAt
      <4>3. Max(TypedAt(s, n + 1, e)) = n + 1 BY <1>0, <4>1, <4>2, LastIsGreatest
      <4>4. e \in 1..e BY <2>1, <3>1
      <4> QED BY <2>2, <4>3, <4>4
    <3>5. DOMAIN v = 1..e /\ v = [r \in 1..e |-> v[r]] BY <2>2
    <3>6. v = Append(w, piece)
      <4> HIDE DEF v, w, d, e, piece
      <4>1. Append(w, piece) \in Seq(PartName) /\ Len(Append(w, piece)) = d + 1 BY <2>1, <2>3, <2>6
      <4>0. \A x \in Seq(PartName) : x = [r \in 1..Len(x) |-> x[r]] OBVIOUS
      <4>2. Append(w, piece) = [r \in 1..d + 1 |-> Append(w, piece)[r]] BY <4>0, <4>1, Zenon
      <4>3. \A r \in 1..d + 1 : Append(w, piece)[r] = IF r = d + 1 THEN piece ELSE w[r] BY <2>1, <2>3
      <4>4. ASSUME NEW r \in 1..d + 1 PROVE v[r] = Append(w, piece)[r]
        <5>1. CASE r = d + 1 BY <3>1, <3>4, <4>3, <5>1
        <5>2. CASE r # d + 1
          <6>1. r \in 1..d BY <2>1, <5>2
          <6> QED BY <3>3, <4>3, <5>2, <6>1
        <5> QED BY <5>1, <5>2
      <4> QED BY <3>1, <3>5, <4>2, <4>4
    <3>7. v \in Seq(PartName) /\ e \in Nat
      <4> HIDE DEF v, w, d, e, piece
      <4> QED BY <2>1, <2>6, <3>1, <3>6
    <3>8. Said(s, n + 1) = v BY <3>2 DEF Said
    <3>9. stepped(w, piece) = Append(w, piece)
      <4>1. piece # Dot /\ piece # Up BY <2>6 DEF PartName
      <4> HIDE DEF w, piece
      <4> QED BY <2>4, <4>1 DEF stepped
    <3> QED BY <2>1, <3>2, <3>6, <3>7, <3>8, <3>9 DEF Speaks
  <2>7. CASE piece = Up
    <3>1. e = d - 1 BY <1>0, <2>7, DepthIs
    <3>0. piece \notin PartName BY <2>7 DEF PartName
    <3>2. CASE d = 0
      <4>1. Leaves(s, n + 1) BY <1>2, <3>1, <3>2
      <4>2. w = <<>>
        <5> HIDE DEF w, d
        <5> QED BY <2>1, <2>3, <3>2
      <4>3. Said(s, n + 1) = <<Up>> BY <4>1 DEF Said
      <4>4. stepped(w, piece) = <<Up>>
        <5>1. piece # Dot BY <2>7 DEF Up, Dot
        <5> HIDE DEF w, piece
        <5> QED BY <2>4, <2>7, <4>2, <5>1 DEF stepped
      <4> QED BY <2>1, <4>1, <4>3, <4>4 DEF Speaks
    <3>3. CASE d # 0
      <4>1. e \in Nat /\ ~Leaves(s, n + 1) BY <1>2, <1>4, <2>1, <3>1, <3>3
      <4>2. \A r \in 1..e : v[r] = w[r]
        <5> SUFFICES ASSUME NEW r \in 1..e PROVE v[r] = w[r] OBVIOUS
        <5>1. r \in Int /\ r \in 1..d BY <2>1, <3>1
        <5>2. TypedAt(s, n + 1, r) = TypedAt(s, n, r) BY <2>5, <3>0, <5>1
        <5> QED BY <2>2, <5>1, <5>2
      <4>3. DOMAIN v = 1..e /\ v = [r \in 1..e |-> v[r]] BY <2>2
      <4>4. v = Front(w)
        <5> HIDE DEF v, w, d, e, piece
        <5>1. Front(w) = SubSeq(w, 1, d - 1) BY <2>3 DEF Front
        <5>2. SubSeq(w, 1, d - 1) = [r \in 1..d - 1 |-> w[r]] BY <2>1, <2>3, <3>3
        <5> QED BY <3>1, <4>2, <4>3, <5>1, <5>2
      <4>5. v \in Seq(PartName)
        <5> HIDE DEF v, w, d, e, piece
        <5>1. \A r \in 1..e : v[r] \in PartName BY <2>1, <2>3, <3>1, <4>1, <4>2
        <5> QED BY <4>1, <4>3, <5>1
      <4>6. Said(s, n + 1) = v BY <4>1 DEF Said
      <4>7. stepped(w, piece) = Front(w)
        <5>1. piece # Dot BY <2>7 DEF Up, Dot
        <5>2. w # <<>>
          <6> HIDE DEF w, d
          <6> QED BY <2>3, <3>3
        <5> HIDE DEF w, piece
        <5> QED BY <2>4, <2>7, <5>1, <5>2 DEF stepped
      <4> QED BY <2>1, <4>1, <4>4, <4>5, <4>6, <4>7 DEF Speaks
    <3> QED BY <3>2, <3>3
  <2>8. CASE piece \notin PartName /\ piece # Up
    <3>1. e = d BY <1>0, <2>8, DepthIs
    <3>2. piece = Dot BY <1>0, <2>8 DEF PartName
    <3>3. ~Leaves(s, n + 1) BY <1>2, <1>4, <2>1, <3>1
    <3>4. v = w
      <4>1. ASSUME NEW r \in 1..d PROVE TypedAt(s, n + 1, r) = TypedAt(s, n, r)
        <5>1. r \in Int BY <2>1
        <5> QED BY <2>5, <2>8, <5>1
      <4> QED BY <2>2, <3>1, <4>1
    <3>5. Said(s, n + 1) = v BY <3>3 DEF Said
    <3>6. stepped(w, piece) = w
      <4> HIDE DEF w, piece
      <4>1. w = <<Up>> \/ piece = Dot BY <3>2
      <4>2. Dot # Up BY DEF Dot, Up
      <4> QED BY <2>4, <3>2, <4>1, <4>2, SMT DEF stepped
    <3> QED BY <2>1, <3>1, <3>3, <3>4, <3>5, <3>6 DEF Speaks
  <2> QED BY <2>6, <2>7, <2>8
<1> QED BY <1>3, <1>4

LEMMA AllSpeak == ASSUME NEW s \in Seq(Nat) PROVE \A n \in 0..Len(s) : Speaks(s, n)
<1> DEFINE T == {n \in 0..Len(s) : ~Speaks(s, n)}
<1>0. Len(s) \in Nat OBVIOUS
<1>3. Speaks(s, 0)
  <2> HIDE DEF T
  <2>1. Depth(s, 0) = 0 BY DepthIs
  <2>2. Words(s, 0) = <<>> BY <2>1 DEF Words
  <2>3. <<>> \in Seq(PartName) OBVIOUS
  <2>4. Words(s, 0) \in Seq(PartName) BY <2>2, <2>3, Zenon
  <2>5. Depth(s, 0) \in Nat BY <2>1
  <2> QED BY <2>4, <2>5 DEF Speaks
<1> SUFFICES ASSUME T # {} PROVE FALSE OBVIOUS
<1>1. T \in SUBSET Nat BY <1>0
<1>2. PICK x \in T : \A y \in T : x <= y
  <2> HIDE DEF T
  <2> QED BY <1>1, LeastOf
<1>4. x \in Nat /\ x # 0 /\ x - 1 \in 0..Len(s) - 1 /\ x - 1 \in 0..Len(s) /\ x - 1 + 1 = x /\ ~(x <= x - 1)
    BY <1>0, <1>2, <1>3
<1>5. Speaks(s, x - 1) BY <1>2, <1>4
<1>6. Speaks(s, x - 1 + 1) BY <1>4, <1>5, OneMoreSaid
<1> QED BY <1>2, <1>4, <1>6

\* Names alone say themselves.
LEMMA NamesAreSaid ==
    ASSUME NEW base \in Seq(PartName), NEW parts \in Seq(Nat)
    PROVE  ~Leaves(base \o parts, Len(base)) /\ Words(base \o parts, Len(base)) = base
<1> DEFINE s == base \o parts
           b == Len(base)
<1>0. b \in Nat /\ \A j \in 1..b : s[j] = base[j] /\ base[j] \in PartName OBVIOUS
<1> HIDE DEF s, b
<1>1. ASSUME NEW j \in 0..b PROVE Depth(s, j) = j
  <2>1. {k \in 1..j : s[k] \in PartName} = 1..j BY <1>0
  <2>2. {k \in 1..j : s[k] = Up} = {} BY <1>0 DEF PartName
  <2>3. Cardinality(1..j) = j BY <1>0, FS_Interval
  <2>4. Cardinality({k \in 1..j : s[k] = Up}) = 0 BY <2>2, FS_EmptySet
  <2>5. Cardinality({k \in 1..j : s[k] \in PartName}) = j BY <2>1, <2>3
  <2>6. Depth(s, j) = j - 0 BY <2>4, <2>5 DEF Depth
  <2> QED BY <1>0, <2>6
<1>2. ~Leaves(s, b)
  <2> SUFFICES ASSUME NEW j \in 1..b PROVE ~(Depth(s, j) < 0) BY DEF Leaves
  <2>1. j \in 0..b /\ ~(j < 0) BY <1>0
  <2> QED BY <1>1, <2>1
<1>3. ASSUME NEW r \in 1..b PROVE Max(TypedAt(s, b, r)) = r
  <2>1. TypedAt(s, b, r) = {r} BY <1>0, <1>1 DEF TypedAt
  <2>2. Max({r}) = r BY <1>0 DEF Max
  <2> QED BY <2>1, <2>2
<1>4. Words(s, b) = [r \in 1..b |-> s[r]]
  <2>1. Depth(s, b) = b BY <1>0, <1>1
  <2> QED BY <1>3, <2>1 DEF Words
<1>5. base = [r \in 1..b |-> base[r]] BY DEF b
<1>6. Words(s, b) = base BY <1>0, <1>4, <1>5
<1> QED BY <1>2, <1>6 DEF s, b

\* The walk over the components, as an equation, and that it has one solution.
FoldOn(base, parts, f) == [n \in 0..Len(parts) |-> IF n = 0 THEN base ELSE stepped(f[n - 1], parts[n])]

LEMMA FoldedIs ==
    ASSUME NEW base, NEW parts
    PROVE  folded(base, parts) = (CHOOSE f : f = FoldOn(base, parts, f))[Len(parts)]
BY DEF folded, FoldOn

LEMMA OneFold ==
    ASSUME NEW base, NEW parts, Len(parts) \in Nat, NEW f, NEW g,
           f = FoldOn(base, parts, f), g = FoldOn(base, parts, g)
    PROVE  f = g
<1> DEFINE T == {n \in 0..Len(parts) : f[n] # g[n]}
<1>1. T = {}
  <2> SUFFICES ASSUME T # {} PROVE FALSE OBVIOUS
  <2>1. T \in SUBSET Nat OBVIOUS
  <2>2. PICK x \in T : \A y \in T : x <= y
    <3> HIDE DEF T
    <3> QED BY <2>1, LeastOf
  <2>3. x # 0
    <3>1. 0 \in 0..Len(parts) OBVIOUS
    <3>2. f[0] = base /\ g[0] = base BY <3>1 DEF FoldOn
    <3> QED BY <2>2, <3>2
  <2>4. x \in 0..Len(parts) /\ x - 1 \in 0..Len(parts) /\ ~(x <= x - 1) BY <2>2, <2>3
  <2>5. f[x - 1] = g[x - 1] BY <2>2, <2>4
  <2>6. f[x] = stepped(f[x - 1], parts[x]) /\ g[x] = stepped(g[x - 1], parts[x]) BY <2>3, <2>4 DEF FoldOn
  <2> QED BY <2>2, <2>5, <2>6
<1>2. f = [n \in 0..Len(parts) |-> f[n]] /\ g = [n \in 0..Len(parts) |-> g[n]] BY DEF FoldOn
<1>3. \A n \in 0..Len(parts) : f[n] = g[n] BY <1>1
<1> QED BY <1>2, <1>3

\* What the walk makes of a path is what its components say.
LEMMA FoldedIsSaid ==
    ASSUME NEW base \in Seq(PartName), NEW parts \in Seq(Nat)
    PROVE  folded(base, parts) = Said(base \o parts, Len(base \o parts))
<1> DEFINE s == base \o parts
           b == Len(base)
           m == Len(parts)
           g == [n \in 0..m |-> Said(s, b + n)]
<1>0. b \in Nat /\ m \in Nat /\ Len(s) = b + m OBVIOUS
<1>1. s \in Seq(Nat)
  <2>1. base \in Seq(Nat) BY DEF PartName
  <2> QED BY <2>1
<1>2. \A n \in 1..m : s[b + n] = parts[n] OBVIOUS
<1>3. g = FoldOn(base, parts, g)
  <2>1. g[0] = base
    <3>1. g[0] = Said(s, b) BY <1>0
    <3> QED BY <3>1, NamesAreSaid DEF Said
  <2> HIDE DEF s, b, m
  <2>2. ASSUME NEW n \in 0..m PROVE g[n] = IF n = 0 THEN base ELSE stepped(g[n - 1], parts[n])
    <3>1. CASE n = 0 BY <2>1, <3>1
    <3>2. CASE n # 0
      <4> DEFINE i == b + (n - 1)
      <4>1. n - 1 \in 0..m /\ n \in 1..m /\ i \in 0..Len(s) - 1 /\ i \in 0..Len(s) /\ i + 1 = b + n BY <1>0, <3>2
      <4>2. g[n - 1] = Said(s, i) /\ g[n] = Said(s, i + 1) BY <4>1
      <4>3. s[i + 1] = parts[n] BY <1>2, <4>1
      <4> HIDE DEF i
      <4>4. Speaks(s, i) BY <1>1, <4>1, AllSpeak
      <4>5. Said(s, i + 1) = stepped(Said(s, i), s[i + 1]) BY <1>1, <4>1, <4>4, OneMoreSaid
      <4> QED BY <3>2, <4>2, <4>3, <4>5
    <3> QED BY <3>1, <3>2
  <2>3. g = [n \in 0..m |-> g[n]] OBVIOUS
  <2> HIDE DEF g
  <2>4. g = [n \in 0..m |-> IF n = 0 THEN base ELSE stepped(g[n - 1], parts[n])] BY <2>2, <2>3
  <2> QED BY <2>4 DEF FoldOn, m
<1> DEFINE f == CHOOSE h : h = FoldOn(base, parts, h)
<1>4. f = FoldOn(base, parts, f)
  <2> HIDE DEF g
  <2> QED BY <1>3
<1>5. f = g
  <2> HIDE DEF f, g
  <2> QED BY <1>0, <1>3, <1>4, OneFold
<1>6. folded(base, parts) = f[m] BY FoldedIs
<1>7. g[m] = Said(s, Len(s)) BY <1>0
<1> HIDE DEF f, g
<1>8. folded(base, parts) = Said(s, Len(s)) BY <1>5, <1>6, <1>7
<1> QED BY <1>8 DEF s

\* Where the shell stands: a volume, then names.
IsPlace(c) == \E v \in Side, w \in Seq(PartName) : c = Root(v) \o w

LEMMA PlaceIs ==
    ASSUME NEW c, IsPlace(c)
    PROVE  c[1] \in Side /\ Tail(c) \in Seq(PartName) /\ Len(c) > 0 /\ c \in Seq(Nat) /\ IsPlace(Root(c[1]))
<1>1. PICK v \in Side, w \in Seq(PartName) : c = Root(v) \o w BY DEF IsPlace
<1>2. w \in Seq(Nat) BY DEF PartName
<1>3. v \in Nat /\ Root(v) = <<v>> BY DEF Root, Side
<1>4. Len(<<v>> \o w) = 1 + Len(w) /\ (<<v>> \o w)[1] = v /\ <<v>> \o w \in Seq(Nat) BY <1>2, <1>3
<1>5. c = <<v>> \o w BY <1>1, <1>3
<1>6. Tail(c) = w
  <2>1. \A i \in 1..Len(w) : (<<v>> \o w)[i + 1] = w[i] BY <1>2, <1>3
  <2>2. Tail(c) \in Seq(Nat) /\ Len(Tail(c)) = Len(w) BY <1>2, <1>4, <1>5
  <2>3. \A i \in 1..Len(w) : Tail(c)[i] = c[i + 1] BY <1>2, <1>4, <1>5
  <2>4. \A x \in Seq(Nat) : x = [i \in 1..Len(x) |-> x[i]] OBVIOUS
  <2>5. \A i \in 1..Len(w) : Tail(c)[i] = w[i] BY <1>5, <2>1, <2>3
  <2> QED BY <1>2, <2>2, <2>4, <2>5
<1>7. IsPlace(Root(c[1]))
  <2>1. <<>> \in Seq(PartName) OBVIOUS
  <2>2. Root(v) = Root(v) \o <<>> BY <1>3
  <2>3. c[1] = v BY <1>4, <1>5
  <2> QED BY <2>1, <2>2, <2>3 DEF IsPlace
<1>8. Len(w) \in Nat /\ Len(c) = 1 + Len(w) /\ c[1] = v /\ c \in Seq(Nat) BY <1>2, <1>4, <1>5
<1>9. Len(c) > 0 BY <1>8
<1> QED BY <1>6, <1>7, <1>8, <1>9

Typing(typed) == typed.volume \in {Relative, 1, 2, NoVolumeOf} /\ typed.parts \in Seq(Nat)

\* A typed path denotes what it means, and is a place if it is accepted.
LEMMA PathsAreMeant ==
    ASSUME IsPlace(cwd), NEW typed, Typing(typed)
    PROVE  resolve(typed) = Denotes(typed) /\ (resolve(typed) = Nothing \/ IsPlace(resolve(typed)))
<1> DEFINE relative == typed.volume = Relative
           base == IF relative THEN Tail(cwd) ELSE <<>>
           volume == IF relative THEN cwd[1] ELSE typed.volume
           s == base \o typed.parts
           n == Len(s)
<1>0. Relative = 0 /\ NoVolumeOf = 3 /\ Side = {1, 2} BY DEF Relative, NoVolumeOf, Side
<1>1. cwd[1] \in Side /\ Tail(cwd) \in Seq(PartName) BY PlaceIs
<1>2. base \in Seq(PartName) /\ typed.parts \in Seq(Nat) BY <1>1 DEF Typing
<1>3. (volume = NoVolumeOf <=> typed.volume = NoVolumeOf) /\ (volume # NoVolumeOf => volume \in Side)
    BY <1>0, <1>1 DEF Typing
<1>4. resolve(typed) = IF volume = NoVolumeOf \/ folded(base, typed.parts) = <<Up>> THEN Nothing
                       ELSE Root(volume) \o folded(base, typed.parts)
    BY DEF resolve
<1>5. Denotes(typed) = IF typed.volume = NoVolumeOf \/ Leaves(s, n) THEN Nothing
                       ELSE Root(volume) \o Words(s, n)
    BY DEF Denotes, Leaves, Words
<1> HIDE DEF base, volume
<1>6. folded(base, typed.parts) = Said(s, n) BY <1>2, FoldedIsSaid
<1>7. Speaks(s, n)
  <2>1. base \in Seq(Nat) BY <1>2 DEF PartName
  <2>2. s \in Seq(Nat) BY <1>2, <2>1
  <2> HIDE DEF s
  <2>3. n \in 0..Len(s) BY <2>2
  <2> QED BY <2>2, <2>3, AllSpeak
<1> HIDE DEF s, n
<1>8. CASE Leaves(s, n)
  <2>1. Said(s, n) = <<Up>> BY <1>8 DEF Said
  <2> QED BY <1>4, <1>5, <1>6, <1>8, <2>1
<1>9. CASE ~Leaves(s, n)
  <2>1. Said(s, n) = Words(s, n) /\ Words(s, n) \in Seq(PartName) BY <1>7, <1>9 DEF Said, Speaks
  <2>2. Words(s, n) # <<Up>>
    <3> SUFFICES ASSUME Words(s, n) = <<Up>> PROVE FALSE OBVIOUS
    <3>1. Words(s, n)[1] = Up /\ Len(Words(s, n)) = 1 OBVIOUS
    <3>2. ASSUME NEW w \in Seq(PartName), Len(w) = 1 PROVE w[1] \in PartName
      <4>1. 1 \in 1..Len(w) BY <3>2
      <4> QED BY <4>1
    <3>3. Words(s, n)[1] \in PartName BY <2>1, <3>1, <3>2
    <3> QED BY <3>1, <3>3 DEF PartName
  <2>3. resolve(typed) = IF volume = NoVolumeOf THEN Nothing ELSE Root(volume) \o Words(s, n) BY <1>4, <1>6, <2>1, <2>2
  <2>4. volume # NoVolumeOf => IsPlace(Root(volume) \o Words(s, n)) BY <1>3, <2>1 DEF IsPlace
  <2> QED BY <1>3, <1>5, <1>9, <2>3, <2>4
<1> QED BY <1>8, <1>9

-----------------------------------------------------------------------------
(***************************************************************************)
(* The panels of the browser: a listing is of paths there are, the cursor  *)
(* is on a row of it, and an open prompt is about the entry under it.      *)
(***************************************************************************)
Dirs == DirPath \cup {Root(1), Root(2)}
Panels == [dir : Dirs, entries : Seq(Path), parent : BOOLEAN, cursor : Nat]
Shows(p) == p \in Panels /\ p.parent = (Len(p.dir) > 1) /\ p.cursor <= Len(p.entries)

PanelsInv ==
    /\ disk \subseteq Path
    /\ panel \in [Side -> Panels] /\ \A i \in Side : Shows(panel[i])
    /\ side \in Side
    /\ mode \in {"Browse", "View"} \cup Prompts
    /\ subject \in Path \cup {Nothing}
    /\ mode \in {"Rename", "Copy"} => subject = selected(current)

\* Different keys give a finite set an order: each rank is that of an element.
Keyed(C, key) == IsFiniteSet(C) /\ key \in [C -> Nat] /\ \A p, q \in C : key[p] = key[q] => p = q

LEMMA Ranked ==
    ASSUME NEW C, NEW key, Keyed(C, key)
    PROVE  \A i \in 1..Cardinality(C) : \E p \in C : Cardinality({q \in C : key[q] <= key[p]}) = i
<1> DEFINE n == Cardinality(C)
           upTo(p) == {q \in C : key[q] <= key[p]}
           rank == [p \in C |-> Cardinality(upTo(p))]
<1> USE DEF Keyed
<1>0. n \in Nat BY FS_CardinalityType
<1>1. ASSUME NEW p \in C PROVE IsFiniteSet(upTo(p)) /\ Cardinality(upTo(p)) \in 1..n /\ p \in upTo(p)
  <2>1. upTo(p) \in SUBSET C /\ p \in upTo(p) OBVIOUS
  <2> HIDE DEF upTo
  <2>2. IsFiniteSet(upTo(p)) /\ Cardinality(upTo(p)) <= n BY <2>1, FS_Subset
  <2>3. Cardinality(upTo(p)) \in Nat /\ Cardinality(upTo(p)) # 0 BY <2>1, <2>2, FS_CardinalityType, FS_EmptySet
  <2> QED BY <1>0, <2>1, <2>2, <2>3
<1>2. ASSUME NEW p \in C, NEW q \in C, key[p] < key[q] PROVE Cardinality(upTo(p)) # Cardinality(upTo(q))
  <2>1. upTo(p) \in SUBSET upTo(q)
    <3> SUFFICES ASSUME NEW x \in C, key[x] <= key[p] PROVE key[x] <= key[q] OBVIOUS
    <3> QED BY <1>2
  <2>2. q \notin upTo(p) BY <1>2
  <2>3. q \in upTo(q) /\ IsFiniteSet(upTo(q)) BY <1>1
  <2> HIDE DEF upTo
  <2> QED BY <2>1, <2>2, <2>3, FS_Subset
<1>3. rank \in [C -> 1..n] BY <1>1
<1>4. ASSUME NEW p \in C, NEW q \in C, rank[p] = rank[q] PROVE p = q
  <2>1. ~(key[p] < key[q]) BY <1>2, <1>4
  <2>2. ~(key[q] < key[p]) BY <1>2, <1>4
  <2>3. key[p] = key[q] BY <2>1, <2>2
  <2> QED BY <2>3
<1>5. IsFiniteSet(1..n) /\ Cardinality(1..n) = n BY <1>0, FS_Interval
<1> HIDE DEF rank, n
<1>6. rank \in Injection(C, 1..n) BY <1>3, <1>4 DEF Injection, IsInjective
<1>7. rank \in Surjection(C, 1..n) BY <1>5, <1>6, FS_Injection DEF n
<1>8. \A i \in 1..n : \E p \in C : rank[p] = i BY <1>7 DEF Surjection
<1> QED BY <1>8 DEF rank, n

LEMMA PathIs == ASSUME NEW p \in Path PROVE p \in Seq(Nat) /\ Len(p) > 1 /\ Len(p) \in Nat /\ p[1] \in {1, 2} /\ Last(p) \in Nat
<1>1. p \in Seq(Nat) /\ Len(p) > 1 /\ p[1] \in {1, 2} BY PanelAssumption
<1>2. Len(p) \in Nat /\ Len(p) \in 1..Len(p) BY <1>1
<1> QED BY <1>1, <1>2 DEF Last

LEMMA EntryIsNamed ==
    ASSUME NEW p \in Path, NEW q \in Path, Front(p) = Front(q), Last(p) = Last(q)
    PROVE  p = q
<1>1. p \in Seq(Nat) /\ q \in Seq(Nat) /\ Len(p) > 1 /\ Len(q) > 1 /\ Len(p) \in Nat /\ Len(q) \in Nat BY PathIs
<1>2. Len(Front(p)) = Len(p) - 1 /\ Len(Front(q)) = Len(q) - 1 BY <1>1 DEF Front
<1>3. Len(p) = Len(q) BY <1>1, <1>2
<1>4. ASSUME NEW i \in 1..Len(p) PROVE p[i] = q[i]
  <2>1. CASE i = Len(p) BY <1>3, <2>1 DEF Last
  <2>2. CASE i # Len(p)
    <3>1. i \in 1..Len(p) - 1 BY <1>1, <2>2
    <3>2. Front(p)[i] = p[i] /\ Front(q)[i] = q[i] BY <1>1, <1>3, <3>1 DEF Front
    <3> QED BY <3>2
  <2> QED BY <2>1, <2>2
<1>5. \A s \in Seq(Nat) : s = [i \in 1..Len(s) |-> s[i]] OBVIOUS
<1>6. p = [i \in 1..Len(p) |-> p[i]] /\ q = [i \in 1..Len(p) |-> q[i]] BY <1>1, <1>3, <1>5
<1> QED BY <1>4, <1>6

LEMMA ListedIs ==
    ASSUME NEW d, NEW files \in SUBSET Path
    PROVE  listed(d, files) \in Seq(Path)
<1> DEFINE children == {p \in files : Front(p) = d}
           key == [p \in children |-> Last(p)]
           upTo(p) == {q \in children : Last(q) <= Last(p)}
           list == [i \in 1..Cardinality(children) |-> CHOOSE p \in children : Cardinality(upTo(p)) = i]
<1>1. listed(d, files) = IF Len(d) > 1 /\ d \notin files THEN <<>> ELSE list BY DEF listed
<1>2. IsFiniteSet(Path) BY PanelAssumption
<1>3. children \in SUBSET Path OBVIOUS
<1>4. IsFiniteSet(children) /\ Cardinality(children) \in Nat BY <1>2, <1>3, FS_Subset, FS_CardinalityType
<1>5. key \in [children -> Nat] BY <1>3, PathIs
<1>6. \A p, q \in children : key[p] = key[q] => p = q BY EntryIsNamed
<1>7. \A p \in children : upTo(p) = {q \in children : key[q] <= key[p]} OBVIOUS
<1>8. \A i \in 1..Cardinality(children) : \E p \in children : Cardinality({q \in children : key[q] <= key[p]}) = i
  <2> HIDE DEF children, key
  <2>1. Keyed(children, key) BY <1>4, <1>5, <1>6 DEF Keyed
  <2> QED BY <2>1, Ranked
<1>9. \A i \in 1..Cardinality(children) : \E p \in children : Cardinality(upTo(p)) = i
  <2> HIDE DEF children, key
  <2> QED BY <1>7, <1>8
<1>10. \A i \in 1..Cardinality(children) : list[i] \in Path
  <2> HIDE DEF children, upTo
  <2> QED BY <1>3, <1>9
<1>11. list \in Seq(Path)
  <2>1. DOMAIN list = 1..Cardinality(children) OBVIOUS
  <2>2. list = [i \in 1..Cardinality(children) |-> list[i]] OBVIOUS
  <2> HIDE DEF list, children
  <2> QED BY <1>4, <1>10, <2>1, <2>2
<1>12. <<>> \in Seq(Path) OBVIOUS
<1> HIDE DEF list
<1> QED BY <1>1, <1>11, <1>12

LEMMA LeastOfTwo == ASSUME NEW a \in Nat, NEW b \in Nat PROVE Min({a, b}) \in Nat /\ Min({a, b}) <= b
<1>1. \E x \in {a, b} : \A y \in {a, b} : x <= y OBVIOUS
<1>2. Min({a, b}) \in {a, b} /\ \A y \in {a, b} : Min({a, b}) <= y BY <1>1 DEF Min
<1> QED BY <1>2

\* A panel that was read again shows a listing with its cursor in it.
LEMMA ReloadShows ==
    ASSUME NEW p \in Panels, NEW files \in SUBSET Path
    PROVE  Shows(reload(p, files)) /\ reload(p, files).dir = p.dir
<1> DEFINE entries_ == listed(p.dir, files)
           deep == Len(p.dir) > 1
           new == [p EXCEPT !.entries = entries_, !.parent = deep]
           at_ == {i \in 1..Len(entries_) : <<Last(entries_[i])>> = keep(p)}
           wanted == IF at_ = {} THEN 0 ELSE (CHOOSE i \in at_ : TRUE) - 1
           cursor == IF rows(new) = 0 THEN 0 ELSE Min({wanted, rows(new) - 1})
<1>1. reload(p, files) = [new EXCEPT !.cursor = cursor] BY DEF reload
<1>2. entries_ \in Seq(Path) BY ListedIs
<1> HIDE DEF entries_
<1>3. Len(entries_) \in Nat /\ deep \in BOOLEAN BY <1>2
<1>4. wanted \in Nat
  <2>1. CASE at_ = {} BY <2>1
  <2>2. CASE at_ # {}
    <3>1. (CHOOSE i \in at_ : TRUE) \in at_ BY <2>2
    <3>2. (CHOOSE i \in at_ : TRUE) \in 1..Len(entries_) BY <3>1
    <3> QED BY <1>3, <2>2, <3>2
  <2> QED BY <2>1, <2>2
<1> HIDE DEF wanted, deep
<1>5. new \in Panels /\ new.entries = entries_ /\ new.parent = deep /\ new.dir = p.dir
  <2> QED BY <1>2, <1>3 DEF Panels
<1>6. rows(new) \in Nat /\ rows(new) <= Len(entries_) + 1
  <2> HIDE DEF new
  <2>1. rows(new) = Len(entries_) + (IF deep THEN 1 ELSE 0) BY <1>5 DEF rows
  <2> QED BY <1>3, <2>1
<1> HIDE DEF new
<1>7. cursor \in Nat /\ cursor <= Len(entries_)
  <2>1. CASE rows(new) = 0 BY <1>3, <2>1
  <2>2. CASE rows(new) # 0
    <3>1. rows(new) - 1 \in Nat /\ rows(new) - 1 <= Len(entries_) BY <1>3, <1>6, <2>2
    <3>2. cursor \in Nat /\ cursor <= rows(new) - 1 BY <1>4, <2>2, <3>1, LeastOfTwo
    <3> QED BY <1>3, <3>1, <3>2
  <2> QED BY <2>1, <2>2
<1> HIDE DEF cursor
<1>8. /\ reload(p, files) \in Panels /\ reload(p, files).cursor = cursor /\ reload(p, files).entries = entries_
      /\ reload(p, files).parent = deep /\ reload(p, files).dir = p.dir
    BY <1>1, <1>5, <1>7 DEF Panels
<1> QED BY <1>7, <1>8 DEF Shows, deep

LEMMA RootIs == \A v \in Side : Root(v) \in Dirs /\ Len(Root(v)) = 1
BY DEF Root, Dirs, Side

LEMMA OpenedShows == ASSUME NEW files \in SUBSET Path PROVE Shows(opened(1, files)) /\ opened(1, files) \in Panels
<1> DEFINE p == [dir |-> Root(1), entries |-> <<>>, parent |-> FALSE, cursor |-> 0]
<1>1. <<>> \in Seq(Path) /\ Root(1) \in Dirs BY RootIs DEF Side
<1>2. p \in Panels BY <1>1 DEF Panels
<1> HIDE DEF p
<1>3. Shows(reload(p, files)) BY <1>2, ReloadShows
<1> QED BY <1>3 DEF opened, p, Shows

LEMMA SelectedIs == ASSUME NEW p \in Panels PROVE selected(p) \in Path \cup {Nothing}
<1>1. p.entries \in Seq(Path) BY DEF Panels
<1> QED BY <1>1 DEF selected

LEMMA ShownIsSelected == ASSUME NEW p \in Panels PROVE selected(p) = shown(p)
<1>1. p.entries \in Seq(Path) /\ p.parent \in BOOLEAN /\ p.cursor \in Nat /\ Len(p.entries) \in Nat BY DEF Panels
<1>2. CASE p.parent
  <2>1. selected(p) = IF p.cursor \in 1..Len(p.entries) THEN p.entries[p.cursor] ELSE Nothing BY <1>2 DEF selected
  <2>2. shown(p) = IF p.cursor = 0 THEN Nothing
                   ELSE IF p.cursor - 1 >= Len(p.entries) THEN Nothing ELSE p.entries[p.cursor - 1 + 1]
      BY <1>2 DEF shown
  <2>3. p.cursor - 1 + 1 = p.cursor BY <1>1
  <2> QED BY <1>1, <2>1, <2>2, <2>3
<1>3. CASE ~p.parent
  <2>1. selected(p) = IF p.cursor + 1 \in 1..Len(p.entries) THEN p.entries[p.cursor + 1] ELSE Nothing BY <1>3 DEF selected
  <2>2. shown(p) = IF p.cursor - 0 >= Len(p.entries) THEN Nothing ELSE p.entries[p.cursor - 0 + 1] BY <1>3 DEF shown
  <2>3. p.cursor - 0 = p.cursor BY <1>1
  <2> QED BY <1>1, <2>1, <2>2, <2>3
<1> QED BY <1>2, <1>3

LEMMA PanelsStart == PanelsInit => PanelsInv
<1> SUFFICES ASSUME PanelsInit PROVE PanelsInv OBVIOUS
<1>1. disk \in SUBSET Path BY DEF PanelsInit
<1>2. panel = [i \in Side |-> opened(1, disk)] /\ side = 1 /\ mode = "Browse" /\ subject = Nothing BY DEF PanelsInit
<1> QED BY <1>1, <1>2, OpenedShows DEF PanelsInv, Side

\* What an operation leaves is made of paths there are, and a rename takes the
\* entry it is asked for and what is in it.
LEMMA DoneStays ==
    ASSUME disk \subseteq Path, NEW action \in Prompts, NEW from, NEW to \in Path,
           NEW after \in done(action, from, to) \cup failed(action, to)
    PROVE  /\ after \subseteq Path
           /\ action = "Rename" => \A p \in disk \ after : Within(from, p)
           /\ action = "Copy" => \A p \in disk \ after : p = to
           /\ action \in {"NewFile", "NewDirectory"} => disk \subseteq after
<1>1. CASE after \in failed(action, to) BY <1>1 DEF failed
<1>2. CASE after \in done(action, from, to)
  <2>1. CASE action = "NewFile" BY <1>2, <2>1 DEF done
  <2>2. CASE action = "NewDirectory" BY <1>2, <2>2 DEF done
  <2>3. CASE action = "Rename"
    <3>1. after = moved(from, to) /\ moved(from, to) \subseteq Path BY <1>2, <2>3 DEF done
    <3>2. \A p \in disk \ moved(from, to) : Within(from, p) BY DEF moved
    <3> QED BY <2>3, <3>1, <3>2
  <2>4. CASE action = "Copy" BY <1>2, <2>4 DEF done
  <2> QED BY <2>1, <2>2, <2>3, <2>4 DEF Prompts
<1> QED BY <1>1, <1>2

\* A panel of its own is replaced.
LEMMA PanelReplaced ==
    ASSUME PanelsInv, NEW i \in Side, NEW p, Shows(p), panel' = [panel EXCEPT ![i] = p],
           disk' \subseteq Path, side' \in Side, mode' \in {"Browse", "View"}, subject' \in Path \cup {Nothing}
    PROVE  PanelsInv'
<1>1. p \in Panels BY DEF Shows
<1>2. panel' \in [Side -> Panels] /\ \A j \in Side : Shows(panel'[j]) BY <1>1 DEF PanelsInv
<1>3. mode' \in {"Browse", "View"} \cup Prompts /\ ~(mode' \in {"Rename", "Copy"}) OBVIOUS
<1> QED BY <1>2, <1>3 DEF PanelsInv

LEMMA PanelsInductive == PanelsInv /\ [PanelsNext]_panelVars => PanelsInv'
<1> SUFFICES ASSUME PanelsInv, [PanelsNext]_panelVars PROVE PanelsInv' OBVIOUS
<1>0. /\ disk \subseteq Path /\ panel \in [Side -> Panels] /\ side \in Side /\ subject \in Path \cup {Nothing}
      /\ current = panel[side] /\ current \in Panels /\ Shows(current) /\ Side = {1, 2}
    BY DEF PanelsInv, current, Side
<1>1. CASE UNCHANGED panelVars
  <2>1. UNCHANGED <<disk, panel, side, mode, subject>> BY <1>1 DEF panelVars
  <2> QED BY <2>1 DEF PanelsInv, current
<1>2. CASE moveCursor
  <2>1. PICK to \in 0..rows(current) - 1 : panel' = [panel EXCEPT ![side].cursor = to] BY <1>2 DEF moveCursor
  <2> DEFINE p == [current EXCEPT !.cursor = to]
  <2>2. panel' = [panel EXCEPT ![side] = p] BY <1>0, <2>1
  <2>3. current.entries \in Seq(Path) /\ Len(current.entries) \in Nat /\ current.parent \in BOOLEAN BY <1>0 DEF Panels
  <2>4. rows(current) = Len(current.entries) + (IF current.parent THEN 1 ELSE 0) BY DEF rows
  <2>5. to \in Nat /\ to <= Len(current.entries)
    <3>1. CASE current.parent
      <4>1. rows(current) = Len(current.entries) + 1 BY <2>4, <3>1
      <4> QED BY <2>1, <2>3, <4>1
    <3>2. CASE ~current.parent
      <4>1. rows(current) = Len(current.entries) + 0 BY <2>4, <3>2
      <4> QED BY <2>1, <2>3, <4>1
    <3> QED BY <3>1, <3>2
  <2>6. p \in Panels /\ p.cursor = to /\ p.dir = current.dir /\ p.parent = current.parent /\ p.entries = current.entries
      BY <1>0, <2>5 DEF Panels
  <2> HIDE DEF p
  <2>7. Shows(p) BY <1>0, <2>5, <2>6 DEF Shows
  <2>8. UNCHANGED <<disk, side, mode, subject>> /\ mode = "Browse" BY <1>2 DEF moveCursor
  <2> QED BY <1>0, <2>2, <2>7, <2>8, PanelReplaced
<1>3. CASE tab
  <2>1. side' \in Side /\ UNCHANGED <<disk, panel, mode, subject>> /\ mode = "Browse" BY <1>0, <1>3 DEF tab
  <2> QED BY <2>1 DEF PanelsInv
<1>4. ASSUME NEW i \in Side, switchVolume(i) PROVE PanelsInv'
  <2> DEFINE q == panel[i]
             p == [q EXCEPT !.dir = Root(3 - q.dir[1]), !.cursor = 0]
  <2>1. panel' = [panel EXCEPT ![i] = reload(p, disk)] BY <1>4 DEF switchVolume
  <2>2. q \in Panels BY <1>0
  <2>3. q.dir[1] \in Side
    <3>1. q.dir \in DirPath \/ q.dir = Root(1) \/ q.dir = Root(2) BY <2>2 DEF Panels, Dirs
    <3>2. q.dir \in DirPath => q.dir[1] \in {1, 2} BY PanelAssumption
    <3> QED BY <1>0, <3>1, <3>2 DEF Root
  <2>4. Root(3 - q.dir[1]) \in Dirs
    <3>1. 3 - q.dir[1] \in Side BY <1>0, <2>3
    <3> QED BY <3>1, RootIs
  <2> HIDE DEF q
  <2>5. p \in Panels BY <2>2, <2>4 DEF Panels
  <2> HIDE DEF p
  <2>6. Shows(reload(p, disk)) BY <1>0, <2>5, ReloadShows
  <2>7. UNCHANGED <<disk, side, mode, subject>> /\ mode = "Browse" BY <1>4 DEF switchVolume
  <2> QED BY <1>0, <2>1, <2>6, <2>7, PanelReplaced
<1>5. CASE goUp
  <2> DEFINE p == [current EXCEPT !.dir = Root(current.dir[1])]
             new == reload(p, disk)
             left == {i \in 1..Len(new.entries) : new.entries[i] = current.dir}
             chosen == (CHOOSE i \in left : TRUE) - 1
             res == IF left = {} THEN new ELSE [new EXCEPT !.cursor = chosen]
  <2>1. panel' = [panel EXCEPT ![side] = res] BY <1>5 DEF goUp
  <2>2. current.dir[1] \in Side
    <3>1. current.dir \in DirPath \/ current.dir = Root(1) \/ current.dir = Root(2) BY <1>0 DEF Panels, Dirs
    <3>2. current.dir \in DirPath => current.dir[1] \in {1, 2} BY PanelAssumption
    <3> QED BY <1>0, <3>1, <3>2 DEF Root
  <2>3. Root(current.dir[1]) \in Dirs BY <2>2, RootIs
  <2>4. p \in Panels BY <1>0, <2>3 DEF Panels
  <2> HIDE DEF p
  <2>5. Shows(new) BY <1>0, <2>4, ReloadShows
  <2> HIDE DEF new
  <2>6. new \in Panels /\ new.entries \in Seq(Path) /\ Len(new.entries) \in Nat BY <2>5 DEF Shows, Panels
  <2>7. left # {} => chosen \in Nat /\ chosen <= Len(new.entries)
    <3> SUFFICES ASSUME left # {} PROVE chosen \in Nat /\ chosen <= Len(new.entries) OBVIOUS
    <3>1. (CHOOSE i \in left : TRUE) \in left OBVIOUS
    <3>2. (CHOOSE i \in left : TRUE) \in 1..Len(new.entries) BY <3>1
    <3> QED BY <2>6, <3>2
  <2> HIDE DEF chosen
  <2>8. Shows(res)
    <3>1. CASE left = {} BY <2>5, <3>1
    <3>2. CASE left # {}
      <4> DEFINE r == [new EXCEPT !.cursor = chosen]
      <4>1. r \in Panels /\ r.cursor = chosen /\ r.dir = new.dir /\ r.parent = new.parent /\ r.entries = new.entries
          BY <2>6, <2>7, <3>2 DEF Panels
      <4> HIDE DEF r, left
      <4>2. Shows(r) BY <2>5, <2>7, <3>2, <4>1 DEF Shows
      <4> QED BY <3>2, <4>2 DEF r
    <3> QED BY <3>1, <3>2
  <2> HIDE DEF res
  <2>9. UNCHANGED <<disk, side, mode, subject>> /\ mode = "Browse" BY <1>5 DEF goUp
  <2> QED BY <1>0, <2>1, <2>8, <2>9, PanelReplaced
<1>6. CASE openSelected
  <2> DEFINE p == [current EXCEPT !.dir = selected(current), !.cursor = 0]
  <2>1. panel' = [panel EXCEPT ![side] = reload(p, disk)] BY <1>0, <1>6 DEF openSelected
  <2>2. selected(current) \in Dirs BY <1>6 DEF openSelected, Dirs
  <2>3. p \in Panels BY <1>0, <2>2 DEF Panels
  <2> HIDE DEF p
  <2>4. Shows(reload(p, disk)) BY <1>0, <2>3, ReloadShows
  <2>5. UNCHANGED <<disk, side, mode, subject>> /\ mode = "Browse" BY <1>6 DEF openSelected
  <2> QED BY <1>0, <2>1, <2>4, <2>5, PanelReplaced
<1>7. CASE startView \/ handleView
  <2>1. mode' \in {"Browse", "View"} /\ UNCHANGED <<disk, panel, side, subject>> BY <1>7 DEF startView, handleView
  <2> QED BY <2>1 DEF PanelsInv
<1>8. CASE handlePrompt
  <2>1. mode' = "Browse" /\ subject' = Nothing /\ UNCHANGED <<disk, panel, side>> BY <1>8 DEF handlePrompt
  <2> QED BY <2>1 DEF PanelsInv
<1>9. ASSUME NEW action \in Prompts, openPrompt(action) PROVE PanelsInv'
  <2>1. /\ mode' = action /\ UNCHANGED <<disk, panel, side>>
        /\ subject' = IF action \in {"Rename", "Copy"} THEN selected(current) ELSE Nothing
      BY <1>9 DEF openPrompt
  <2>2. selected(current) \in Path \cup {Nothing} BY <1>0, SelectedIs
  <2>3. selected(current)' = selected(current) BY <2>1 DEF selected, current
  <2> QED BY <1>9, <2>1, <2>2, <2>3 DEF PanelsInv
<1>10. CASE browserOpens
  <2>1. /\ panel' = [i \in Side |-> opened(1, disk)] /\ side' = 1 /\ mode' = "Browse" /\ subject' = Nothing
        /\ UNCHANGED disk
      BY <1>10 DEF browserOpens
  <2>2. Shows(opened(1, disk)) /\ opened(1, disk) \in Panels BY <1>0, OpenedShows
  <2> QED BY <1>0, <2>1, <2>2 DEF PanelsInv
<1>11. ASSUME NEW to \in Path, applyPrompt(to) PROVE PanelsInv'
  <2>1. mode \in Prompts /\ mode' = "Browse" /\ subject' = Nothing /\ UNCHANGED side BY <1>11 DEF applyPrompt
  <2>2. disk' \subseteq Path
    <3>1. disk' \in done(mode, selected(current), to) \cup failed(mode, to) BY <1>11 DEF applyPrompt
    <3> QED BY <1>0, <2>1, <3>1, DoneStays
  <2>3. CASE panel' = [panel EXCEPT ![side] = reload(current, disk')]
    <3>1. Shows(reload(current, disk')) BY <1>0, <2>2, ReloadShows
    <3> QED BY <1>0, <2>1, <2>2, <2>3, <3>1, PanelReplaced
  <2>4. CASE UNCHANGED panel BY <2>1, <2>2, <2>4 DEF PanelsInv
  <2> QED BY <1>0, <1>11, <2>3, <2>4 DEF applyPrompt
<1>12. CASE doDelete
  <2>1. mode = "Browse" /\ UNCHANGED <<side, mode, subject>> BY <1>12 DEF doDelete
  <2>2. disk' \subseteq Path BY <1>0, <1>12 DEF doDelete
  <2>3. CASE panel' = [panel EXCEPT ![side] = reload(current, disk')]
    <3>1. Shows(reload(current, disk')) BY <1>0, <2>2, ReloadShows
    <3> QED BY <1>0, <2>1, <2>2, <2>3, <3>1, PanelReplaced
  <2>4. CASE UNCHANGED panel BY <2>1, <2>2, <2>4 DEF PanelsInv
  <2> QED BY <1>0, <1>12, <2>3, <2>4 DEF doDelete
<1>13. CASE filesChange
  <2>1. disk' \subseteq Path /\ UNCHANGED <<panel, side, mode, subject>> BY <1>0, <1>13 DEF filesChange
  <2> QED BY <2>1 DEF PanelsInv, current
<1> QED BY <1>1, <1>2, <1>3, <1>4, <1>5, <1>6, <1>7, <1>8, <1>9, <1>10, <1>11, <1>12, <1>13 DEF PanelsNext

LEMMA PromptsKeepSubject == PanelsInv /\ [PanelsNext]_panelVars => PromptKeepsSubject
<1> SUFFICES ASSUME PanelsInv, [PanelsNext]_panelVars, mode = "Rename", mode' = "Browse", NEW p \in disk \ disk'
             PROVE  Within(subject, p)
    BY DEF PromptKeepsSubject
<1>1. disk' # disk /\ mode' # mode OBVIOUS
<1>2. PICK to \in Path : applyPrompt(to)
  <2>1. PanelsNext BY <1>1 DEF panelVars
  <2> QED BY <1>1, <2>1 DEF PanelsNext, moveCursor, tab, goUp, openSelected, startView, handleView, doDelete,
        handlePrompt, browserOpens, filesChange, switchVolume, openPrompt
<1>3. disk' \in done("Rename", selected(current), to) \cup failed("Rename", to) BY <1>2 DEF applyPrompt
<1>4. disk \subseteq Path /\ subject = selected(current) BY DEF PanelsInv
<1>5. "Rename" \in Prompts BY DEF Prompts
<1>6. \A x \in disk \ disk' : Within(selected(current), x) BY <1>3, <1>4, <1>5, DoneStays
<1> QED BY <1>4, <1>6

-----------------------------------------------------------------------------
(***************************************************************************)
(* The shell stands in a place, and a command that has looked is about     *)
(* what was typed; a copy has met no target, or may replace it.            *)
(***************************************************************************)
RmType == [op : {"rm"}, from : Seq(Nat), means : Seq(Nat)]
MoveType == [op : {"mv", "cp"}, from : Seq(Nat), to : Path, force : BOOLEAN, raced : BOOLEAN, means : Seq(Nat)]

CmdInv ==
    /\ cmd \in {NoCommand} \cup RmType \cup MoveType
    /\ cmd.op \in {"rm", "mv"} => cmd.means = cmd.from
    /\ cmd.op = "cp" => cmd.means = cmd.to /\ (cmd.to \in disk => cmd.force \/ cmd.raced)
ShellInv == IsPlace(cwd) /\ CmdInv

LEMMA CmdIs ==
    ASSUME CmdInv
    PROVE  /\ cmd.op \in {"none", "rm", "mv", "cp"}
           /\ cmd.op = "rm" => cmd \in RmType
           /\ cmd.op \in {"mv", "cp"} => cmd \in MoveType
           /\ cmd.op = "none" => cmd = NoCommand
<1>1. NoCommand.op = "none" BY DEF NoCommand
<1>2. \A c \in RmType : c.op = "rm" BY DEF RmType
<1>3. \A c \in MoveType : c.op \in {"mv", "cp"} BY DEF MoveType
<1> QED BY <1>1, <1>2, <1>3 DEF CmdInv

LEMMA TypedIs ==
    ASSUME IsPlace(cwd), NEW typed \in Typed \cup Spelled
    PROVE  /\ resolve(typed) = Denotes(typed) /\ resolve(typed) \in Seq(Nat)
           /\ resolve(typed) = Nothing \/ IsPlace(resolve(typed))
<1>1. Typing(typed) BY TypedAssumption DEF Typing
<1>2. resolve(typed) = Denotes(typed) /\ (resolve(typed) = Nothing \/ IsPlace(resolve(typed))) BY <1>1, PathsAreMeant
<1>3. Nothing \in Seq(Nat) BY DEF Nothing
<1> QED BY <1>2, <1>3, PlaceIs

LEMMA ShellStart == ShellInit => ShellInv
<1> SUFFICES ASSUME ShellInit PROVE ShellInv OBVIOUS
<1>1. IsPlace(Root(1))
  <2>1. Root(1) = Root(1) \o <<>> BY DEF Root
  <2>2. <<>> \in Seq(PartName) /\ 1 \in Side BY DEF Side
  <2> QED BY <2>1, <2>2 DEF IsPlace
<1>2. NoCommand.op = "none" BY DEF NoCommand
<1> QED BY <1>1, <1>2 DEF ShellInit, ShellInv, CmdInv

\* A command that changes nothing but the volumes, or where the shell stands.
LEMMA ShellIdle ==
    ASSUME ShellInv, PanelsInv, NEW typed \in Typed, cmdCd(typed) \/ cmdMkdir(typed) \/ cmdTouch(typed)
    PROVE  ShellInv' /\ disk' \subseteq Path /\ cmd = NoCommand /\ cmd' = cmd
<1>0. IsPlace(cwd) /\ CmdInv /\ disk \subseteq Path BY DEF ShellInv, PanelsInv
<1>1. cmd = NoCommand /\ cmd' = cmd BY DEF cmdCd, cmdMkdir, cmdTouch, shellVars
<1>2. NoCommand.op = "none" BY DEF NoCommand
<1>3. CmdInv' BY <1>1, <1>2 DEF CmdInv
<1>4. CASE cmdCd(typed)
  <2>1. IsPlace(Root(cwd[1])) BY <1>0, PlaceIs
  <2>2. IsPlace(cwd')
    <3>1. resolve(typed) = Nothing \/ IsPlace(resolve(typed)) BY <1>0, TypedIs
    <3>2. cwd' = Root(cwd[1]) \/ cwd' = cwd \/ (resolve(typed) # Nothing /\ cwd' = resolve(typed)) BY <1>4 DEF cmdCd
    <3> QED BY <1>0, <2>1, <3>1, <3>2
  <2> QED BY <1>0, <1>1, <1>3, <1>4, <2>2 DEF cmdCd, ShellInv
<1>5. CASE cmdMkdir(typed)
  <2>1. "NewDirectory" \in Prompts BY DEF Prompts
  <2>2. disk' \subseteq Path BY <1>0, <1>5, <2>1, DoneStays DEF cmdMkdir
  <2> QED BY <1>0, <1>1, <1>3, <1>5, <2>2 DEF cmdMkdir, ShellInv, shellVars
<1>6. CASE cmdTouch(typed)
  <2>1. "NewFile" \in Prompts BY DEF Prompts
  <2>2. disk' \subseteq Path BY <1>0, <1>6, <2>1, DoneStays DEF cmdTouch
  <2> QED BY <1>0, <1>1, <1>3, <1>6, <2>2 DEF cmdTouch, ShellInv, shellVars
<1> QED BY <1>4, <1>5, <1>6

\* A command looks.
LEMMA ShellLooks ==
    ASSUME ShellInv, PanelsInv, NEW typed \in Typed, NEW target \in Typed, NEW flag \in BOOLEAN,
           cmdRm(typed, flag) \/ cmdMv(typed, target, flag) \/ cmdCp(typed, target, flag)
    PROVE  ShellInv' /\ disk' = disk /\ cmd = NoCommand
<1>0. IsPlace(cwd) /\ CmdInv /\ disk \subseteq Path BY DEF ShellInv, PanelsInv
<1>1. /\ resolve(typed) = Denotes(typed) /\ resolve(typed) \in Seq(Nat)
      /\ resolve(target) = Denotes(target) /\ resolve(target) \in Seq(Nat)
    BY <1>0, TypedIs
<1>2. UNCHANGED <<disk, cwd>> /\ cmd = NoCommand BY DEF cmdRm, cmdMv, cmdCp
<1>3. CASE cmdRm(typed, flag)
  <2>1. cmd' = [op |-> "rm", from |-> resolve(typed), means |-> Denotes(typed)] BY <1>3 DEF cmdRm
  <2>2. cmd' \in RmType /\ cmd'.op = "rm" /\ cmd'.means = cmd'.from BY <1>1, <2>1 DEF RmType
  <2> QED BY <1>0, <1>2, <2>2 DEF ShellInv, CmdInv
<1>4. CASE cmdMv(typed, target, flag)
  <2>1. /\ cmd' = [op |-> "mv", from |-> resolve(typed), to |-> resolve(target), force |-> flag,
                   raced |-> FALSE, means |-> Denotes(typed)]
        /\ resolve(target) \in Path
      BY <1>4 DEF cmdMv
  <2>2. cmd' \in MoveType /\ cmd'.op = "mv" /\ cmd'.means = cmd'.from BY <1>1, <2>1 DEF MoveType
  <2> QED BY <1>0, <1>2, <2>2 DEF ShellInv, CmdInv
<1>5. CASE cmdCp(typed, target, flag)
  <2>1. /\ cmd' = [op |-> "cp", from |-> resolve(typed), to |-> resolve(target), force |-> flag,
                   raced |-> FALSE, means |-> Denotes(target)]
        /\ resolve(target) \in Path /\ (resolve(target) \notin disk \/ flag)
      BY <1>5 DEF cmdCp
  <2>2. /\ cmd' \in MoveType /\ cmd'.op = "cp" /\ cmd'.means = cmd'.to /\ cmd'.to = resolve(target)
        /\ cmd'.force = flag
      BY <1>1, <2>1 DEF MoveType
  <2> QED BY <1>0, <1>2, <2>1, <2>2 DEF ShellInv, CmdInv
<1> QED BY <1>3, <1>4, <1>5

\* A command acts, on what was typed.
LEMMA ShellActs ==
    ASSUME ShellInv, PanelsInv, cmdRm_Act \/ cmdMv_Act \/ cmdCp_Act
    PROVE  ShellInv' /\ disk' \subseteq Path /\ CommandTakesOwn
<1>0. IsPlace(cwd) /\ CmdInv /\ disk \subseteq Path BY DEF ShellInv, PanelsInv
<1>1. cmd' = NoCommand /\ UNCHANGED cwd BY DEF cmdRm_Act, cmdMv_Act, cmdCp_Act
<1>2. NoCommand.op = "none" BY DEF NoCommand
<1>3. ShellInv' BY <1>0, <1>1, <1>2 DEF ShellInv, CmdInv
<1>4. CASE cmdRm_Act
  <2>1. cmd.op = "rm" /\ cmd.means = cmd.from BY <1>0, <1>4 DEF cmdRm_Act, CmdInv
  <2>2. disk' \subseteq disk /\ \A p \in disk \ disk' : Within(cmd.from, p) BY <1>4 DEF cmdRm_Act
  <2> QED BY <1>0, <1>3, <2>1, <2>2 DEF CommandTakesOwn
<1>5. CASE cmdMv_Act
  <2>1. cmd.op = "mv" /\ cmd.means = cmd.from BY <1>0, <1>5 DEF cmdMv_Act, CmdInv
  <2>2. cmd.to \in Path BY <1>0, <2>1, CmdIs DEF MoveType
  <2>3. disk' \in done("Rename", cmd.from, cmd.to) \cup failed("Rename", cmd.to) BY <1>5 DEF cmdMv_Act, failed
  <2>4. "Rename" \in Prompts BY DEF Prompts
  <2>5. disk' \subseteq Path /\ \A p \in disk \ disk' : Within(cmd.from, p) BY <1>0, <2>2, <2>3, <2>4, DoneStays
  <2> QED BY <1>3, <2>1, <2>5 DEF CommandTakesOwn
<1>6. CASE cmdCp_Act
  <2>1. cmd.op = "cp" /\ cmd.means = cmd.to /\ (cmd.to \in disk => cmd.force \/ cmd.raced)
      BY <1>0, <1>6 DEF cmdCp_Act, CmdInv
  <2>2. cmd.to \in Path BY <1>0, <2>1, CmdIs DEF MoveType
  <2>3. disk' \in done("Copy", cmd.from, cmd.to) \cup failed("Copy", cmd.to) BY <1>6 DEF cmdCp_Act
  <2>4. "Copy" \in Prompts BY DEF Prompts
  <2>5. disk' \subseteq Path /\ \A p \in disk \ disk' : p = cmd.to BY <1>0, <2>2, <2>3, <2>4, DoneStays
  <2>6. \A p \in disk \ disk' : p = cmd.means /\ (cmd.force \/ cmd.raced) BY <2>1, <2>5
  <2> QED BY <1>3, <2>1, <2>5, <2>6 DEF CommandTakesOwn
<1> QED BY <1>4, <1>5, <1>6

\* Others work between the look and the act.
LEMMA ShellRaced ==
    ASSUME ShellInv, PanelsInv, othersWork
    PROVE  ShellInv' /\ disk' \subseteq Path /\ (cmd' = NoCommand => cmd = NoCommand)
<1>0. IsPlace(cwd) /\ CmdInv /\ disk \subseteq Path BY DEF ShellInv, PanelsInv
<1>1. PICK p \in Path :
        /\ disk' = IF p \in disk THEN disk \ {q \in disk : Within(p, q)}
                   ELSE IF room(p) THEN disk \cup {p} ELSE disk
        /\ cmd' = IF cmd.op \in {"mv", "cp"} /\ cmd.to = p /\ p \notin disk
                  THEN [cmd EXCEPT !.raced = TRUE] ELSE cmd
        /\ UNCHANGED cwd
    BY DEF othersWork
<1>2. disk' \subseteq disk \cup {p} /\ disk' \subseteq Path /\ (p \in disk => disk' \subseteq disk) BY <1>0, <1>1
<1>3. CASE cmd.op \in {"mv", "cp"} /\ cmd.to = p /\ p \notin disk
  <2>1. cmd \in MoveType BY <1>0, <1>3, CmdIs
  <2>2. cmd' = [cmd EXCEPT !.raced = TRUE] BY <1>1, <1>3
  <2>3. /\ cmd' \in MoveType /\ cmd'.op = cmd.op /\ cmd'.from = cmd.from /\ cmd'.to = cmd.to /\ cmd'.raced = TRUE
        /\ cmd'.means = cmd.means /\ cmd'.force = cmd.force
      BY <2>1, <2>2 DEF MoveType
  <2>4. cmd'.op \in {"rm", "mv"} => cmd'.means = cmd'.from BY <1>0, <2>3 DEF CmdInv
  <2>5. cmd'.op = "cp" => cmd'.means = cmd'.to /\ cmd'.raced BY <1>0, <2>3 DEF CmdInv
  <2>6. CmdInv' BY <2>3, <2>4, <2>5 DEF CmdInv
  <2>7. cmd' # NoCommand BY <1>3, <2>3 DEF NoCommand
  <2> QED BY <1>0, <1>1, <1>2, <2>6, <2>7 DEF ShellInv
<1>4. CASE ~(cmd.op \in {"mv", "cp"} /\ cmd.to = p /\ p \notin disk)
  <2>1. cmd' = cmd BY <1>1, <1>4
  <2>2. cmd.op = "cp" => (cmd.to \in disk' => cmd.to \in disk) BY <1>2, <1>4
  <2>3. CmdInv' BY <1>0, <2>1, <2>2 DEF CmdInv
  <2> QED BY <1>0, <1>1, <1>2, <2>1, <2>3 DEF ShellInv
<1> QED BY <1>3, <1>4

LEMMA ShellInductive ==
    ASSUME ShellInv, PanelsInv, ShellNext
    PROVE  ShellInv' /\ PanelsInv' /\ CommandTakesOwn
<1>1. UNCHANGED <<panel, side, mode, subject>> BY DEF ShellNext
<1>2. ASSUME disk' \subseteq Path PROVE PanelsInv' BY <1>1, <1>2 DEF PanelsInv, current
<1>3. NoCommand.op = "none" BY DEF NoCommand
<1>4. disk \subseteq Path BY DEF PanelsInv
<1>5. CASE \E typed \in Typed : cmdCd(typed) \/ cmdMkdir(typed) \/ cmdTouch(typed)
  <2>1. PICK typed \in Typed : cmdCd(typed) \/ cmdMkdir(typed) \/ cmdTouch(typed) BY <1>5
  <2>2. ShellInv' /\ disk' \subseteq Path /\ cmd = NoCommand BY <2>1, ShellIdle
  <2> QED BY <1>2, <1>3, <2>2 DEF CommandTakesOwn
<1>6. CASE \E typed \in Typed, flag \in BOOLEAN : cmdRm(typed, flag)
  <2>1. PICK typed \in Typed, flag \in BOOLEAN : cmdRm(typed, flag) BY <1>6
  <2>2. ShellInv' /\ disk' = disk /\ cmd = NoCommand BY <2>1, ShellLooks
  <2> QED BY <1>2, <1>3, <1>4, <2>2 DEF CommandTakesOwn
<1>7. CASE \E typed, target \in Typed, flag \in BOOLEAN : cmdMv(typed, target, flag) \/ cmdCp(typed, target, flag)
  <2>1. PICK typed \in Typed, target \in Typed, flag \in BOOLEAN : cmdMv(typed, target, flag) \/ cmdCp(typed, target, flag)
      BY <1>7
  <2>2. ShellInv' /\ disk' = disk /\ cmd = NoCommand BY <2>1, ShellLooks
  <2> QED BY <1>2, <1>3, <1>4, <2>2 DEF CommandTakesOwn
<1>8. CASE cmdRm_Act \/ cmdMv_Act \/ cmdCp_Act BY <1>2, <1>8, ShellActs
<1>9. CASE othersWork
  <2>1. ShellInv' /\ disk' \subseteq Path /\ (cmd' = NoCommand => cmd = NoCommand) BY <1>9, ShellRaced
  <2> QED BY <1>2, <1>3, <2>1 DEF CommandTakesOwn
<1> QED BY <1>5, <1>6, <1>7, <1>8, <1>9 DEF ShellNext

\* The browser and the shell together.
ConsoleInv == PanelsInv /\ ShellInv /\ (part # "shell" => cmd = NoCommand)

LEMMA ConsoleInductive ==
    ASSUME ConsoleInv, [Next]_vars
    PROVE  ConsoleInv' /\ PromptKeepsSubject /\ CommandTakesOwn
<1>0. PanelsInv /\ ShellInv /\ (part # "shell" => cmd = NoCommand) /\ NoCommand.op = "none" BY DEF ConsoleInv, NoCommand
<1>1. CASE PanelsStep(PanelsNext)
  <2>1. PanelsNext /\ part = "panels" /\ UNCHANGED <<part, cwd, cmd>> BY <1>1 DEF PanelsStep, shellVars
  <2>2. PanelsInv' BY <1>0, <2>1, PanelsInductive
  <2>3. cmd = NoCommand BY <1>0, <2>1
  <2>4. ShellInv' BY <1>0, <2>1, <2>3 DEF ShellInv, CmdInv
  <2>5. PromptKeepsSubject BY <1>0, <2>1, PromptsKeepSubject
  <2>6. CommandTakesOwn BY <1>0, <2>3 DEF CommandTakesOwn
  <2> QED BY <2>1, <2>2, <2>3, <2>4, <2>5, <2>6 DEF ConsoleInv
<1>2. CASE ShellStep(ShellNext)
  <2>1. ShellNext /\ part = "shell" /\ UNCHANGED part BY <1>2 DEF ShellStep
  <2>2. ShellInv' /\ PanelsInv' /\ CommandTakesOwn BY <1>0, <2>1, ShellInductive
  <2>3. UNCHANGED mode BY <2>1 DEF ShellNext
  <2>4. PromptKeepsSubject BY <2>3 DEF PromptKeepsSubject
  <2> QED BY <2>1, <2>2, <2>4 DEF ConsoleInv
<1>3. CASE UNCHANGED <<part, panelVars, shellVars>>
  <2>1. UNCHANGED <<part, disk, panel, side, mode, subject, cwd, cmd>> BY <1>3 DEF panelVars, shellVars
  <2>2. PanelsInv' BY <1>0, <2>1 DEF PanelsInv, current
  <2>3. ShellInv' BY <1>0, <2>1 DEF ShellInv, CmdInv
  <2>4. PromptKeepsSubject BY <2>1 DEF PromptKeepsSubject
  <2>5. CommandTakesOwn BY <1>0, <2>1 DEF CommandTakesOwn
  <2> QED BY <1>0, <2>1, <2>2, <2>3, <2>4, <2>5 DEF ConsoleInv
<1> QED BY <1>1, <1>2, <1>3
        DEF Next, vars, SshStep, SyncStep, RepliesStep, AllowedStep, PoolStep, NameStep

LEMMA ConsoleStart == Init => ConsoleInv
BY PanelsStart, ShellStart DEF Init, ConsoleInv, ShellInit

\* The SSH server keeps its listener and its limit; a key of its browser acts on
\* the entry that is painted as selected, whatever was deleted meanwhile; and every
\* path typed into its shell denotes what it means, wherever the shell stands, with
\* none accepted that leaves its volume.
THEOREM SshStaysSafe == Spec => []SshSafe
<1>1. Init => SshInv /\ ConsoleInv BY SshStart, ConsoleStart DEF Init
<1>2. SshInv /\ ConsoleInv /\ [Next]_vars => SshInv' /\ ConsoleInv' BY OneAtATime, SshInductive, ConsoleInductive
<1>3. SshInv /\ ConsoleInv => SshSafe
  <2> SUFFICES ASSUME SshInv, ConsoleInv PROVE SshSafe OBVIOUS
  <2>1. PanelsInv /\ ShellInv BY DEF ConsoleInv
  <2>2. KeysActOnShown BY <2>1, ShownIsSelected DEF PanelsInv, KeysActOnShown
  <2>3. PanelsTypeOK
    <3> SUFFICES ASSUME NEW i \in Side
                 PROVE  /\ IsDir(panel[i].dir) /\ panel[i].entries \in Seq(Path)
                        /\ panel[i].parent = (Len(panel[i].dir) > 1)
                        /\ panel[i].cursor \in 0..Len(panel[i].entries)
        BY <2>1 DEF PanelsInv, PanelsTypeOK
    <3>1. Shows(panel[i]) BY <2>1 DEF PanelsInv
    <3>2. panel[i].dir \in Dirs /\ panel[i].entries \in Seq(Path) /\ panel[i].cursor \in Nat BY <3>1 DEF Shows, Panels
    <3>3. IsDir(panel[i].dir) BY <3>2 DEF IsDir, Dirs, Root
    <3>4. panel[i].cursor <= Len(panel[i].entries) /\ Len(panel[i].entries) \in Nat BY <3>1, <3>2 DEF Shows
    <3> QED BY <3>1, <3>2, <3>3, <3>4 DEF Shows
  <2>4. ShellTypeOK BY <2>1, PlaceIs, CmdIs DEF ShellInv, ShellTypeOK
  <2>5. PathsResolve BY <2>1, TypedIs DEF ShellInv, PathsResolve, ResolveIsWalk
  <2>6. SshTypeOK /\ LoopHasListener /\ SessionsBounded BY DoorIsSafe
  <2> QED BY <2>2, <2>3, <2>4, <2>5, <2>6 DEF SshSafe
<1> QED BY <1>1, <1>2, <1>3, PTL DEF Spec

\* A step does what it was asked to: the prompt of a rename and a command of the
\* shell take their own files only, whatever others do between question and answer
\* or look and act; a rebuild puts exactly the allowed clients of its list in force;
\* and a client within its limit is answered.
THEOREM StepsDoAsAsked == Spec => DoneAsAsked
<1> DEFINE I == ConsoleInv /\ AllowInv /\ FillInv /\ NtpInv
<1>1. Init => I
  <2>1. AllowInit => FillInv BY DEF AllowInit, NotFilling, FillInv
  <2> QED BY <2>1, ConsoleStart, AllowStart, NtpStart DEF Init
<1>2. I /\ [Next]_vars => I' BY OneAtATime, ConsoleInductive, AllowInductive, FillInductive, NtpInductive
<1>3. I /\ [Next]_vars => PromptKeepsSubject /\ CommandTakesOwn /\ TableIsList /\ PoliteIsServed
    BY OneAtATime, ConsoleInductive, ListsAreTabled, PoliteAreServed
<1> QED BY <1>1, <1>2, <1>3, PTL DEF Spec, DoneAsAsked
=============================================================================
