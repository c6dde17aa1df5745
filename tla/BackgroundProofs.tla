-------------------------- MODULE BackgroundProofs --------------------------
(***************************************************************************)
(* Proofs about what runs beside the servers: the senders of records, the  *)
(* table of the built-in cache and the map it implements, the tasks that   *)
(* count down, the sweep of the cache and the journals, for every depth of *)
(* a queue, every pool of nodes and every hash, every set of periods and   *)
(* sizes and every number of lines.  A behaviour of MCBackground is about  *)
(* one of them and leaves the others alone, so each has an inductive       *)
(* invariant over its own variables.                                       *)
(***************************************************************************)
EXTENDS MCBackground, FiniteSetTheorems, SequenceTheorems, WellFoundedInduction, TLAPS

\* A step of the composition is a step of a component, or leaves it alone.
LEMMA OneAtATime ==
    [Next]_vars => /\ [SendersNext]_senderVars /\ [TableNext]_tableVars /\ [PeriodicNext]_timerVars
                   /\ [SweepNext]_sweepVars /\ [LogNext]_logVars
<1> SUFFICES ASSUME [Next]_vars
             PROVE  /\ [SendersNext]_senderVars /\ [TableNext]_tableVars /\ [PeriodicNext]_timerVars
                    /\ [SweepNext]_sweepVars /\ [LogNext]_logVars
    OBVIOUS
<1>1. CASE SendersStep(SendersNext) BY <1>1 DEF SendersStep
<1>2. CASE TableStep(TableNext) BY <1>2 DEF TableStep
<1>3. CASE PeriodicStep(PeriodicNext) BY <1>3 DEF PeriodicStep
<1>4. CASE SweepStep(SweepNext) BY <1>4 DEF SweepStep
<1>5. CASE LogStep(LogNext) BY <1>5 DEF LogStep
<1>6. CASE UNCHANGED vars BY <1>6 DEF vars
<1> QED BY <1>1, <1>2, <1>3, <1>4, <1>5, <1>6 DEF Next

-----------------------------------------------------------------------------
(***************************************************************************)
(* Senders: the handle stands for the one task that runs, a stop that is   *)
(* under way is wanted, and a task that leaves while nobody waits for it   *)
(* has left an excuse behind.                                              *)
(***************************************************************************)
SenderInv ==
    /\ SendersTypeOK /\ OneSender /\ WriterHeld
    /\ handle <=> \E w \in Worker : worker[w] # "none"
    /\ stopReq => caller # "idle"
    /\ caller # "idle" => ~wanted(switches)
    /\ wanted(switches) => handle \/ excuse # {}
    /\ caller = "idle" /\ (\E w \in Worker : worker[w] = "leave") => excuse # {}

LEMMA SwitchesFixed == sender' = sender => Switches' = Switches
BY DEF Switches, dhcpSwitches, dnsRestSwitches, dnsFileSwitches, ntpRestSwitches, ntpFileSwitches, storeSwitches

LEMMA SendersStart == SendersInit => SenderInv
<1> SUFFICES ASSUME SendersInit PROVE SenderInv OBVIOUS
<1>1. SendersTypeOK
  <2>1. queue \in Seq({"record", "stop"}) /\ Len(queue) <= QueueDepth BY SendersAssumption DEF SendersInit
  <2>2. /\ sender \in Sender /\ switches \subseteq {"on", "address", "volumes", "write"}
        /\ excuse \in SUBSET {"notask", "marker", "deadline"}
        /\ worker \in [Worker -> {"none", "loop", "receive", "send", "leave"}]
        /\ caller \in {"idle", "marker", "await"} /\ producer \in {"idle", "full", "retry"}
      BY DEF SendersInit
  <2>3. made \in BOOLEAN /\ handle \in BOOLEAN /\ stopReq \in BOOLEAN /\ writer \in BOOLEAN BY DEF SendersInit
  <2> QED BY <2>1, <2>2, <2>3 DEF SendersTypeOK
<1>2. \A w \in Worker : worker[w] = "none" BY DEF SendersInit
<1>3. "on" \in Switches
    BY SendersAssumption DEF SendersInit, Switches, dhcpSwitches, dnsRestSwitches, dnsFileSwitches,
                             ntpRestSwitches, ntpFileSwitches, storeSwitches, FileLog
<1>4. ~wanted(switches) BY <1>3 DEF wanted, SendersInit
<1> QED BY <1>1, <1>2, <1>4 DEF SenderInv, OneSender, WriterHeld, SendersInit

\* A setting is saved: the task is started, told to stop, or left as it is.
LEMMA SenderSwitched ==
    ASSUME SenderInv, NEW s \in {"on", "address", "volumes", "write"}, NEW on \in BOOLEAN, setSwitch(s, on)
    PROVE  SenderInv'
<1> USE DEF SenderInv
<1>1. /\ caller = "idle" /\ UNCHANGED <<sender, queue, producer>>
      /\ switches' = IF on THEN switches \cup {s} ELSE switches \ {s}
      /\ updateSenderState
    BY DEF setSwitch
<1>2. switches' \subseteq {"on", "address", "volumes", "write"} BY <1>1 DEF SendersTypeOK
<1>3. (wanted(switches))' <=> wanted(switches') BY <1>1, SwitchesFixed DEF wanted
<1>4. CASE wanted(switches') /\ ~handle /\ ensureTask /\ UNCHANGED caller
  <2>1. \A w \in Worker : worker[w] = "none" BY <1>4
  <2>2. startTask /\ writer' \in BOOLEAN
      BY <1>4 DEF ensureTask, ensureSender, ensureRestSender, ensureNtpRestSender, ensureCacheSender,
                  ensureFileWriter, ensureNtpFileWriter, SendersTypeOK
  <2>3. made' = TRUE /\ stopReq' = FALSE BY <2>2 DEF startTask
  <2>4. CASE excuse' = {"notask"} /\ UNCHANGED <<worker, handle>>
    <3>1. SendersTypeOK' BY <1>1, <1>2, <1>4, <2>2, <2>3, <2>4 DEF SendersTypeOK
    <3>2. OneSender' /\ WriterHeld' BY <2>1, <2>4 DEF OneSender, WriterHeld
    <3> QED BY <1>1, <1>4, <2>1, <2>3, <2>4, <3>1, <3>2
  <2>5. CASE \E w \in Worker : /\ worker[w] = "none" /\ worker' = [worker EXCEPT ![w] = "loop"]
                               /\ handle' = TRUE /\ excuse' = {}
    <3>1. PICK w \in Worker : worker' = [worker EXCEPT ![w] = "loop"] /\ handle' = TRUE /\ excuse' = {}
        BY <2>5
    <3>2. worker'[w] = "loop" /\ \A v \in Worker \ {w} : worker'[v] = "none"
        BY <2>1, <3>1 DEF SendersTypeOK
    <3>3. SendersTypeOK' BY <1>1, <1>2, <1>4, <2>2, <2>3, <3>1 DEF SendersTypeOK
    <3>4. OneSender' /\ WriterHeld' BY <3>2 DEF OneSender, WriterHeld
    <3> QED BY <1>1, <1>4, <2>3, <3>1, <3>2, <3>3, <3>4
  <2> QED BY <2>2, <2>4, <2>5 DEF startTask
<1>5. CASE /\ ~wanted(switches') /\ handle /\ stopReq' = TRUE /\ caller' = "marker"
           /\ UNCHANGED <<made, worker, handle, writer, excuse>>
  <2>1. SendersTypeOK' BY <1>1, <1>2, <1>5 DEF SendersTypeOK
  <2>2. OneSender' /\ WriterHeld' BY <1>1, <1>5 DEF OneSender, WriterHeld
  <2> QED BY <1>3, <1>5, <2>1, <2>2
<1>6. CASE /\ wanted(switches') = handle
           /\ UNCHANGED <<caller, stopReq, made, worker, handle, writer, excuse>>
  <2>1. SendersTypeOK' BY <1>1, <1>2, <1>6 DEF SendersTypeOK
  <2>2. OneSender' /\ WriterHeld' BY <1>1, <1>6 DEF OneSender, WriterHeld
  <2>3. wanted(switches') => handle' BY <1>6
  <2> QED BY <1>1, <1>3, <1>6, <2>1, <2>2, <2>3
<1> QED BY <1>1, <1>4, <1>5, <1>6 DEF updateSenderState

\* The task that applies settings waits for the sender to stop.
LEMMA SenderStops == ASSUME SenderInv, callerTask PROVE SenderInv'
<1> USE DEF SenderInv
<1>1. UNCHANGED <<sender, switches, made, handle, worker, producer>>
    BY DEF callerTask, stopRestSender_Marker, stopRestSender_Await
<1>2. (wanted(switches))' <=> wanted(switches) BY <1>1, SwitchesFixed DEF wanted
<1>3. CASE stopRestSender_Marker
  <2>1. /\ caller = "marker" /\ caller' = "await" /\ UNCHANGED <<stopReq, writer, excuse>>
        /\ queue' = IF Len(queue) < QueueDepth THEN Append(queue, "stop") ELSE queue
      BY <1>3 DEF stopRestSender_Marker
  <2>2. queue' \in Seq({"record", "stop"}) /\ Len(queue') <= QueueDepth
      BY <2>1, SendersAssumption DEF SendersTypeOK
  <2>3. SendersTypeOK' BY <1>1, <2>1, <2>2 DEF SendersTypeOK
  <2>4. OneSender' /\ WriterHeld' BY <1>1, <2>1 DEF OneSender, WriterHeld
  <2> QED BY <1>1, <1>2, <2>1, <2>3, <2>4
<1>4. CASE stopRestSender_Await
  <2>1. /\ caller = "await" /\ caller' = "idle" /\ stopReq' = FALSE /\ writer' = FALSE /\ UNCHANGED queue
        /\ excuse' = IF handle THEN excuse \cup {"deadline"} ELSE excuse
      BY <1>4 DEF stopRestSender_Await
  <2>2. SendersTypeOK' BY <1>1, <2>1 DEF SendersTypeOK
  <2>3. OneSender' BY <1>1 DEF OneSender
  <2>4. WriterHeld' BY <1>1, <2>1 DEF WriterHeld
  <2>5. handle => excuse' # {} BY <2>1
  <2> QED BY <1>1, <1>2, <2>1, <2>2, <2>3, <2>4, <2>5
<1> QED BY <1>3, <1>4 DEF callerTask

\* The server hands over a record.
LEMMA SenderPushed == ASSUME SenderInv, push \/ push_Drop \/ push_Retry PROVE SenderInv'
<1> USE DEF SenderInv
<1>1. UNCHANGED <<sender, switches, made, handle, stopReq, worker, caller, writer, excuse>>
    BY DEF push, push_Drop, push_Retry
<1>2. \/ queue' = queue
      \/ queue # <<>> /\ queue' = Tail(queue)
      \/ Len(queue) < QueueDepth /\ queue' = Append(queue, "record")
    BY DEF push, push_Drop, push_Retry
<1>3. queue' \in Seq({"record", "stop"}) /\ Len(queue') <= QueueDepth
    BY <1>2, SendersAssumption DEF SendersTypeOK
<1>4. producer' \in {"idle", "full", "retry"} BY DEF push, push_Drop, push_Retry, SendersTypeOK
<1>5. SendersTypeOK' BY <1>1, <1>3, <1>4 DEF SendersTypeOK
<1>6. OneSender' /\ WriterHeld' BY <1>1 DEF OneSender, WriterHeld
<1>7. (wanted(switches))' <=> wanted(switches) BY <1>1, SwitchesFixed DEF wanted
<1> QED BY <1>1, <1>5, <1>6, <1>7

\* The sending task: the flag, the queue, the record, and its end.
LEMMA SenderRuns ==
    ASSUME SenderInv, NEW w \in Worker,
           senderTask_Loop(w) \/ senderTask_Receive(w) \/ sendItem(w) \/ senderTask_Leave(w)
    PROVE  SenderInv'
<1> USE DEF SenderInv
<1> DEFINE Goes(to) == worker' = [worker EXCEPT ![w] = to] /\ worker[w] # "none"
<1>1. UNCHANGED <<sender, switches, made, stopReq, caller, producer, writer>>
    BY DEF senderTask_Loop, senderTask_Receive, sendItem, senderTask_Leave, deliver, sendRecord,
           sendRestLog, sendNtpRestLog, sendStore, writeFileLog, writeNtpFileLog
<1>2. (wanted(switches))' <=> wanted(switches) BY <1>1, SwitchesFixed DEF wanted
<1>3. ASSUME NEW to \in {"none", "loop", "receive", "send", "leave"}, Goes(to)
      PROVE  /\ worker' \in [Worker -> {"none", "loop", "receive", "send", "leave"}] /\ OneSender'
             /\ worker'[w] = to /\ \A v \in Worker \ {w} : worker'[v] = "none" /\ worker[v] = "none"
    BY <1>3 DEF SendersTypeOK, OneSender
<1>4. CASE senderTask_Loop(w)
  <2>1. PICK to \in {"leave", "receive"} : Goes(to) /\ (to = "leave" => stopReq)
      BY <1>4 DEF senderTask_Loop
  <2>2. UNCHANGED <<queue, handle, excuse>> BY <1>4 DEF senderTask_Loop
  <2>3. SendersTypeOK' BY <1>1, <1>3, <2>1, <2>2 DEF SendersTypeOK
  <2>4. WriterHeld' BY <1>3, <2>1 DEF WriterHeld
  <2>5. caller' = "idle" /\ (\E v \in Worker : worker'[v] = "leave") => excuse' # {}
      BY <1>1, <1>3, <2>1
  <2> QED BY <1>1, <1>2, <1>3, <2>1, <2>2, <2>3, <2>4, <2>5
<1>5. CASE senderTask_Receive(w)
  <2>1. worker[w] = "receive" /\ UNCHANGED handle BY <1>5 DEF senderTask_Receive
  <2>2. CASE queue = <<>>
    <3>1. Goes("loop") /\ UNCHANGED <<queue, excuse>> BY <1>5, <2>1, <2>2 DEF senderTask_Receive
    <3>2. SendersTypeOK' BY <1>1, <1>3, <2>1, <3>1 DEF SendersTypeOK
    <3>3. WriterHeld' BY <1>3, <3>1 DEF WriterHeld
    <3> QED BY <1>1, <1>2, <1>3, <2>1, <3>1, <3>2, <3>3
  <2>3. CASE queue # <<>>
    <3> DEFINE to == IF Head(queue) = "stop" THEN "leave"
                     ELSE IF sender \in FileLog /\ ~writer THEN "loop" ELSE "send"
    <3>1. /\ Goes(to) /\ queue' = Tail(queue)
          /\ excuse' = IF Head(queue) = "stop" /\ ~stopReq THEN excuse \cup {"marker"} ELSE excuse
        BY <1>5, <2>1, <2>3 DEF senderTask_Receive
    <3>2. /\ to \in {"leave", "loop", "send"} /\ (to = "send" => sender \notin FileLog \/ writer)
          /\ to = "leave" => stopReq \/ excuse' # {}
        BY <3>1
    <3>3. queue' \in Seq({"record", "stop"}) /\ Len(queue') <= QueueDepth
        BY <2>3, <3>1, SendersAssumption DEF SendersTypeOK
    <3>4. excuse' \in SUBSET {"notask", "marker", "deadline"} /\ excuse \subseteq excuse'
        BY <3>1 DEF SendersTypeOK
    <3> HIDE DEF to
    <3>5. SendersTypeOK' BY <1>1, <1>3, <2>1, <3>1, <3>2, <3>3, <3>4 DEF SendersTypeOK
    <3>6. WriterHeld' BY <1>1, <1>3, <3>1, <3>2 DEF WriterHeld
    <3>7. caller' = "idle" /\ (\E v \in Worker : worker'[v] = "leave") => excuse' # {}
        BY <1>1, <1>3, <3>1, <3>2
    <3>8. OneSender' /\ worker'[w] # "none" BY <1>3, <3>1, <3>2
    <3> QED BY <1>1, <1>2, <2>1, <3>1, <3>4, <3>5, <3>6, <3>7, <3>8
  <2> QED BY <2>2, <2>3
<1>6. CASE sendItem(w)
  <2>1. Goes("loop") /\ UNCHANGED <<queue, handle, excuse>>
      BY <1>6 DEF sendItem, deliver, sendRecord, sendRestLog, sendNtpRestLog, sendStore, writeFileLog,
                  writeNtpFileLog
  <2>2. SendersTypeOK' BY <1>1, <1>3, <2>1 DEF SendersTypeOK
  <2>3. WriterHeld' BY <1>3, <2>1 DEF WriterHeld
  <2> QED BY <1>1, <1>2, <1>3, <2>1, <2>2, <2>3
<1>7. CASE senderTask_Leave(w)
  <2>1. worker[w] = "leave" /\ Goes("none") /\ handle' = FALSE /\ UNCHANGED <<queue, excuse>>
      BY <1>7 DEF senderTask_Leave
  <2>2. SendersTypeOK' BY <1>1, <1>3, <2>1 DEF SendersTypeOK
  <2>3. WriterHeld' BY <1>3, <2>1 DEF WriterHeld
  <2>4. wanted(switches) => excuse # {} BY <2>1
  <2> QED BY <1>1, <1>2, <1>3, <2>1, <2>2, <2>3, <2>4
<1> QED BY <1>4, <1>5, <1>6, <1>7

LEMMA SenderInductive == SenderInv /\ [SendersNext]_senderVars => SenderInv'
<1> SUFFICES ASSUME SenderInv, [SendersNext]_senderVars PROVE SenderInv' OBVIOUS
<1>1. CASE UNCHANGED senderVars
  <2>1. (wanted(switches))' <=> wanted(switches) BY <1>1, SwitchesFixed DEF wanted, senderVars
  <2> QED BY <1>1, <2>1 DEF senderVars, SenderInv, SendersTypeOK, OneSender, WriterHeld
<1>2. CASE SendersNext
    BY <1>2, SenderSwitched, SenderStops, SenderPushed, SenderRuns DEF SendersNext
<1> QED BY <1>1, <1>2

(* Whatever is switched on and off while a record is being sent, whatever a *)
(* full queue drops and however long a server takes: a queue is emptied by  *)
(* one task, what is switched on is sent unless a task failed to start or a *)
(* stop went wrong before, and the writer of a file log is not freed while  *)
(* its task uses it, but past the deadline of a stop.                       *)
THEOREM SendersStaySafe == Spec => []SendersSafe
<1>1. Init => SenderInv BY SendersStart DEF Init
<1>2. SenderInv /\ [Next]_vars => SenderInv' BY OneAtATime, SenderInductive
<1>3. SenderInv => SendersSafe BY DEF SenderInv, SendersSafe, SwitchedOnSends
<1> QED BY <1>1, <1>2, <1>3, PTL DEF Spec

-----------------------------------------------------------------------------
(***************************************************************************)
(* Journals: what a rotation has seen is in what it leaves, on the card or *)
(* excused; a notice is under way only while one is owed; and every line   *)
(* can be counted lost twice at most, once for itself and once for the     *)
(* notice that was to go before it.                                        *)
(***************************************************************************)
Rotation == [archived : BOOLEAN, content : Seq(Line), seen : SUBSET Line, busy : BOOLEAN]

\* How often the line at hand may still be counted as lost.
MayLose == IF logTask \in {"append", "write"} THEN (IF what = "notice" THEN 2 ELSE 1)
           ELSE IF logTask = "reset" THEN 1 ELSE 0

LogPlace ==
    /\ core \in BOOLEAN /\ logTask \in {"none", "wait", "append", "write", "reset"}
    /\ what \in {"notice", "line"} /\ clockOk \in BOOLEAN /\ card \in {"absent", "good", "refuses"}
LogCounts ==
    /\ lines \in Line /\ held \in Line /\ lq \in Seq(Line) /\ Len(lq) <= LogQueue
    /\ lost \in Nat /\ owed \in BOOLEAN
    /\ lost + 2 * Len(lq) + MayLose <= 2 * lines
    /\ lost > 0 => owed \/ logTask = "reset"
    /\ what = "notice" => owed
LogKept ==
    /\ live \in Seq(Line) /\ archive \in Seq(Line) /\ cap \in Sizes /\ dated \in BOOLEAN
    /\ fails \in 0 .. MaxAttempts - 1 /\ written \subseteq Line /\ excused \subseteq Line
    /\ rotating \in [Party -> Rotation]
    /\ LinesKept
    /\ \A p \in Party : rotating[p].busy =>
          rotating[p].seen \subseteq In(rotating[p].content) \cup In(archive) \cup excused

LogInv == LogPlace /\ LogCounts /\ LogKept

LEMMA LogHolds == LogInv => LogsSafe
<1> SUFFICES ASSUME LogInv PROVE LogsSafe OBVIOUS
<1> USE DEF LogInv
<1>1. lost \in 0 .. 2 * MaxLines + 1
  <2>1. Len(lq) \in Nat /\ MayLose \in Nat BY DEF LogCounts, MayLose
  <2>2. lost \in Nat /\ lines \in Nat /\ lines <= MaxLines BY LogFilesAssumption DEF LogCounts, Line
  <2>3. lost + 2 * Len(lq) + MayLose <= 2 * lines BY DEF LogCounts
  <2> QED BY <2>1, <2>2, <2>3, LogFilesAssumption
<1>2. LogTypeOK BY <1>1 DEF LogTypeOK, LogPlace, LogCounts, LogKept, Rotation
<1>3. LossIsOwed BY DEF LossIsOwed, LogCounts
<1> QED BY <1>2, <1>3 DEF LogsSafe, LogKept

LEMMA LogStart == LogInit => LogInv
<1> SUFFICES ASSUME LogInit PROVE LogInv OBVIOUS
<1> USE DEF LogInit
<1>1. LogPlace BY DEF LogPlace
<1>2. 0 \in Line /\ 0 \in 0 .. MaxAttempts - 1 BY LogFilesAssumption DEF Line
<1>3. LogCounts
  <2>1. MayLose = 0 /\ Len(lq) = 0 /\ lq \in Seq(Line) /\ Len(lq) <= LogQueue
      BY LogFilesAssumption DEF MayLose
  <2>2. lines = 0 /\ held = 0 /\ lost = 0 /\ what = "line" OBVIOUS
  <2>3. owed \in BOOLEAN OBVIOUS
  <2>4. lost + 2 * Len(lq) + MayLose <= 2 * lines BY <2>1, <2>2
  <2> HIDE DEF LogInit
  <2> QED BY <1>2, <2>1, <2>2, <2>3, <2>4 DEF LogCounts
<1>4. NotRotating \in Rotation /\ ~NotRotating.busy BY DEF NotRotating, Rotation
<1>5. LogKept
  <2>0. dated \in BOOLEAN OBVIOUS
  <2>1. live \in Seq(Line) /\ archive \in Seq(Line) OBVIOUS
  <2>2. rotating \in [Party -> Rotation] /\ \A p \in Party : ~rotating[p].busy BY <1>4
  <2>3. cap \in Sizes /\ fails = 0 /\ written = {} /\ excused = {} OBVIOUS
  <2> HIDE DEF LogInit
  <2> QED BY <1>2, <2>0, <2>1, <2>2, <2>3 DEF LogKept, LinesKept
<1> QED BY <1>1, <1>3, <1>5 DEF LogInv

\* What the files are made of.
LEMMA LinesIn ==
    /\ In(<<>>) = {}
    /\ \A S : \A s \in Seq(S), x \in S : In(Append(s, x)) = In(s) \cup {x}
    /\ \A S : \A s, u \in Seq(S) : In(s \o u) = In(s) \cup In(u)
<1>1. In(<<>>) = {} BY DEF In
<1>2. ASSUME NEW S, NEW s \in Seq(S), NEW x \in S PROVE In(Append(s, x)) = In(s) \cup {x}
  <2>1. Len(s) \in Nat /\ DOMAIN s = 1 .. Len(s) /\ DOMAIN Append(s, x) = 1 .. Len(s) + 1 OBVIOUS
  <2>2. \A i \in 1 .. Len(s) : Append(s, x)[i] = s[i] OBVIOUS
  <2>3. Append(s, x)[Len(s) + 1] = x OBVIOUS
  <2>4. \A i \in 1 .. Len(s) + 1 : i \in 1 .. Len(s) \/ i = Len(s) + 1 BY <2>1
  <2>5. 1 .. Len(s) \subseteq 1 .. Len(s) + 1 /\ Len(s) + 1 \in 1 .. Len(s) + 1 BY <2>1
  <2> HIDE DEF In
  <2>6. In(Append(s, x)) \subseteq In(s) \cup {x} BY <2>1, <2>2, <2>3, <2>4 DEF In
  <2>7. In(s) \cup {x} \subseteq In(Append(s, x)) BY <2>1, <2>2, <2>3, <2>5 DEF In
  <2> QED BY <2>6, <2>7
<1>3. ASSUME NEW S, NEW s \in Seq(S), NEW u \in Seq(S) PROVE In(s \o u) = In(s) \cup In(u)
  <2> DEFINE c == s \o u
  <2>1. /\ Len(s) \in Nat /\ DOMAIN s = 1 .. Len(s) /\ Len(u) \in Nat /\ DOMAIN u = 1 .. Len(u)
        /\ DOMAIN c = 1 .. Len(s) + Len(u)
      OBVIOUS
  <2>2. \A i \in 1 .. Len(s) : c[i] = s[i] OBVIOUS
  <2>3. \A i \in 1 .. Len(u) : c[Len(s) + i] = u[i] OBVIOUS
  <2>4. \A i \in 1 .. Len(s) + Len(u) :
           i \in 1 .. Len(s) \/ (i - Len(s) \in 1 .. Len(u) /\ c[i] = u[i - Len(s)])
      BY <2>1, <2>3
  <2>5. /\ \A i \in 1 .. Len(s) : i \in DOMAIN c
        /\ \A i \in 1 .. Len(u) : Len(s) + i \in DOMAIN c
      BY <2>1
  <2> HIDE DEF c
  <2>6. In(c) \subseteq In(s) \cup In(u) BY <2>1, <2>2, <2>4 DEF In
  <2>7. In(s) \subseteq In(c) /\ In(u) \subseteq In(c) BY <2>1, <2>2, <2>3, <2>5 DEF In
  <2> QED BY <2>6, <2>7 DEF c
<1> QED BY <1>1, <1>2, <1>3

LEMMA TailOfLog == \A s \in Seq(Line) : logTail(s) \in Seq(Line) /\ In(s) \subseteq Line
<1> SUFFICES ASSUME NEW s \in Seq(Line) PROVE logTail(s) \in Seq(Line) /\ In(s) \subseteq Line OBVIOUS
<1>1. Len(s) \in Nat BY DEF Line
<1>2. (IF Len(s) > KeepLines THEN Len(s) - KeepLines + 1 ELSE 1) \in Nat \ {0}
    BY <1>1, LogFilesAssumption
<1>3. logTail(s) \in Seq(Line) BY <1>1, <1>2 DEF logTail
<1> QED BY <1>3 DEF In

\* What is on the card or excused.
Safe == In(archive) \cup excused

\* A rotation decides what it leaves behind: nothing that was safe is lost, and
\* the lines it has seen are kept, on the card or excused.
LEMMA RotationDecides ==
    ASSUME LogInv, NEW p \in Party, NEW incoming \in Nat, NEW size \in Nat, UNCHANGED live,
           rotateIfNeeded(p, incoming, size)
    PROVE  /\ archive' \in Seq(Line) /\ fails' \in 0 .. MaxAttempts - 1 /\ excused' \subseteq Line
           /\ rotating' \in [Party -> Rotation] /\ Safe \subseteq Safe'
           /\ \A q \in Party : rotating'[q].busy =>
                 rotating'[q].seen \subseteq In(rotating'[q].content) \cup Safe'
<1> USE DEF LogInv
<1> DEFINE Leaves(a, c) == rotating' = [rotating EXCEPT ![p] = [archived |-> a, content |-> c,
                                                                seen |-> In(live), busy |-> TRUE]]
<1>1. /\ live \in Seq(Line) /\ archive \in Seq(Line) /\ fails \in 0 .. MaxAttempts - 1
      /\ excused \subseteq Line /\ rotating \in [Party -> Rotation]
    BY DEF LogKept
<1>2. In(live) \subseteq Line /\ In(archive) \subseteq Line /\ logTail(live) \in Seq(Line)
    BY <1>1, TailOfLog
<1>3. \A q \in Party : rotating[q].busy => rotating[q].seen \subseteq In(rotating[q].content) \cup Safe
    BY DEF LogKept, Safe
<1>4. ASSUME NEW a \in BOOLEAN, NEW c \in Seq(Line), Leaves(a, c), Safe \subseteq Safe',
             In(live) \subseteq In(c) \cup Safe'
      PROVE  /\ rotating' \in [Party -> Rotation]
             /\ \A q \in Party : rotating'[q].busy =>
                   rotating'[q].seen \subseteq In(rotating'[q].content) \cup Safe'
  <2> DEFINE new == [archived |-> a, content |-> c, seen |-> In(live), busy |-> TRUE]
  <2>1. new \in Rotation /\ new.seen = In(live) /\ new.content = c BY <1>2 DEF Rotation
  <2> HIDE DEF new
  <2>2. rotating' = [rotating EXCEPT ![p] = new] BY <1>4 DEF new
  <2>3. rotating'[p] = new /\ \A q \in Party \ {p} : rotating'[q] = rotating[q] BY <1>1, <2>2
  <2>4. rotating' \in [Party -> Rotation] BY <1>1, <2>1, <2>2
  <2>5. ASSUME NEW q \in Party, rotating'[q].busy
        PROVE  rotating'[q].seen \subseteq In(rotating'[q].content) \cup Safe'
    <3>1. CASE q = p BY <1>4, <2>1, <2>3, <3>1
    <3>2. CASE q # p
      <4>1. rotating'[q] = rotating[q] BY <2>3, <3>2
      <4> QED BY <1>3, <1>4, <2>5, <4>1
    <3> QED BY <3>1, <3>2
  <2> QED BY <2>4, <2>5
<1>5. CASE UNCHANGED <<archive, fails, rotating, excused>> BY <1>1, <1>3, <1>5 DEF Safe
<1>6. ASSUME carries(p), fails' \in 0 .. MaxAttempts - 1
      PROVE  /\ UNCHANGED archive /\ excused' \subseteq Line /\ Safe \subseteq Safe'
             /\ rotating' \in [Party -> Rotation]
             /\ \A q \in Party : rotating'[q].busy =>
                   rotating'[q].seen \subseteq In(rotating'[q].content) \cup Safe'
  <2>1. /\ Leaves(FALSE, logTail(live)) /\ UNCHANGED archive
        /\ excused' = excused \cup (In(live) \ In(logTail(live)))
      BY <1>6 DEF carries, leaves
  <2>2. Safe \subseteq Safe' /\ In(live) \subseteq In(logTail(live)) \cup Safe' BY <2>1 DEF Safe
  <2> QED BY <1>1, <1>2, <1>4, <2>1, <2>2
<1>7. CASE card = "absent" /\ carries(p) /\ UNCHANGED fails BY <1>1, <1>6, <1>7
<1>8. CASE archived(p)
  <2>1. /\ archive' = archive \o live /\ fails' = 0 /\ Leaves(TRUE, <<>>) /\ UNCHANGED excused
      BY <1>8 DEF archived, leaves
  <2>2. In(archive') = In(archive) \cup In(live) BY <1>1, <2>1, LinesIn
  <2>3. Safe \subseteq Safe' /\ In(live) \subseteq Safe' BY <2>1, <2>2 DEF Safe
  <2>4. archive' \in Seq(Line) /\ <<>> \in Seq(Line) BY <1>1, <2>1
  <2>5. fails' \in 0 .. MaxAttempts - 1 BY <2>1, LogFilesAssumption
  <2> QED BY <1>1, <1>4, <2>1, <2>3, <2>4, <2>5
<1>9. CASE archiveFails(p)
  <2>1. fails' \in 0 .. MaxAttempts - 1
    <3>1. fails' = (fails + 1) % MaxAttempts /\ fails + 1 \in Nat /\ MaxAttempts \in Nat \ {0}
        BY <1>1, <1>9, LogFilesAssumption DEF archiveFails
    <3> QED BY <3>1
  <2>2. CASE carries(p) BY <1>1, <1>6, <2>1, <2>2
  <2>3. CASE UNCHANGED <<rotating, archive, excused>> BY <1>1, <1>3, <2>1, <2>3 DEF Safe
  <2>4. CASE archive' = <<>> /\ excused' = excused \cup In(archive) /\ UNCHANGED rotating
    <3>1. Safe \subseteq Safe' /\ excused' \subseteq Line BY <1>1, <1>2, <2>4 DEF Safe
    <3>2. archive' \in Seq(Line) BY <2>4
    <3> QED BY <1>1, <1>3, <2>1, <2>4, <3>1, <3>2
  <2> QED BY <1>9, <2>2, <2>3, <2>4 DEF archiveFails
<1> QED BY <1>5, <1>7, <1>8, <1>9 DEF rotateIfNeeded

\* The starts, the sentences, the card and the clock touch no file.
LEMMA LogAsked ==
    ASSUME LogInv, \/ startLog \/ submit \/ drain_Pop \/ drain_Reset \/ clockArrives
                   \/ \E c \in {"absent", "good", "refuses"} : cardChanges(c)
    PROVE  LogInv'
<1> USE DEF LogInv
<1> USE DEF startLog, errors_start, jobs_start, auth_start, ssh_start, device_start, dhcp_start, submit,
            errors_submit, jobs_submit, auth_submit, ssh_submit, device_submit, dhcp_note
<1>1. UNCHANGED files /\ UNCHANGED rotating
    BY DEF startWriter, submitted, drain_Pop, drain_Reset, clockArrives, cardChanges
<1>2. LogKept' BY <1>1 DEF files, LogKept, LinesKept
<1>3. Len(lq) \in Nat /\ lines \in Nat /\ lines <= MaxLines /\ lost \in Nat
    BY LogFilesAssumption DEF LogCounts, Line
<1>4. CASE startLog
  <2>1. startWriter BY <1>4
  <2>2. LogPlace' BY <2>1 DEF startWriter, LogPlace
  <2>3. MayLose' = 0 /\ MayLose = 0 /\ UNCHANGED <<lines, lq, lost, owed, held, what>> /\ logTask = "none"
      BY <2>1 DEF startWriter, queueing, MayLose
  <2>4. LogCounts' BY <2>3 DEF LogCounts
  <2> QED BY <1>2, <2>2, <2>4
<1>5. CASE submit
  <2>1. submitted(submitLine) BY <1>5
  <2>2. /\ lines < MaxLines /\ lines' = lines + 1 /\ submitLine
        /\ UNCHANGED <<core, logTask, held, what, clockOk, card>>
      BY <2>1 DEF submitted
  <2>3. LogPlace' /\ MayLose' = MayLose BY <2>2 DEF LogPlace, MayLose
  <2>4. lines' \in Line BY <1>3, <2>2, LogFilesAssumption DEF Line
  <2>5. MayLose \in Nat BY DEF MayLose
  <2>6. CASE Len(lq) < LogQueue
    <3>1. lq' = Append(lq, lines + 1) /\ UNCHANGED <<lost, owed>> BY <2>2, <2>6 DEF submitLine
    <3>2. lq' \in Seq(Line) /\ Len(lq') = Len(lq) + 1 BY <2>2, <2>4, <3>1 DEF LogCounts
    <3>3. Len(lq') <= LogQueue /\ lost' + 2 * Len(lq') + MayLose' <= 2 * lines'
        BY <1>3, <2>2, <2>3, <2>5, <2>6, <3>1, <3>2, LogFilesAssumption DEF LogCounts
    <3>4. LogCounts' BY <2>2, <2>4, <3>1, <3>2, <3>3 DEF LogCounts
    <3> QED BY <1>2, <2>3, <3>4
  <2>7. CASE ~(Len(lq) < LogQueue)
    <3>1. lost' = lost + 1 /\ owed' = TRUE /\ UNCHANGED lq BY <2>2, <2>7 DEF submitLine
    <3>2. lost' + 2 * Len(lq') + MayLose' <= 2 * lines'
        BY <1>3, <2>2, <2>3, <2>5, <3>1 DEF LogCounts
    <3>3. lost' \in Nat BY <1>3, <3>1
    <3>4. LogCounts' BY <2>2, <2>4, <3>1, <3>2, <3>3 DEF LogCounts
    <3> QED BY <1>2, <2>3, <3>4
  <2> QED BY <2>6, <2>7
<1>6. CASE drain_Pop
  <2>1. /\ logTask = "wait" /\ lq # <<>> /\ held' = Head(lq) /\ lq' = Tail(lq) /\ logTask' = "append"
        /\ what' = IF owed /\ lost > 0 THEN "notice" ELSE "line"
        /\ UNCHANGED <<core, lines, lost, owed, clockOk, card>>
      BY <1>6 DEF drain_Pop
  <2>2. LogPlace' BY <2>1 DEF LogPlace
  <2>3. MayLose = 0 /\ MayLose' \in {1, 2} BY <2>1 DEF MayLose
  <2>4. lq' \in Seq(Line) /\ Len(lq') = Len(lq) - 1 /\ held' \in Line BY <2>1 DEF LogCounts
  <2>5. Len(lq') <= LogQueue /\ lost' + 2 * Len(lq') + MayLose' <= 2 * lines'
      BY <1>3, <2>1, <2>3, <2>4, LogFilesAssumption DEF LogCounts
  <2>6. LogCounts' BY <2>1, <2>4, <2>5 DEF LogCounts
  <2> QED BY <1>2, <2>2, <2>6
<1>7. CASE drain_Reset
  <2>1. /\ logTask = "reset" /\ owed' = FALSE /\ lost' = 0 /\ what' = "line" /\ logTask' = "append"
        /\ UNCHANGED <<core, lines, lq, held, clockOk, card>>
      BY <1>7 DEF drain_Reset
  <2>2. LogPlace' BY <2>1 DEF LogPlace
  <2>3. MayLose = 1 /\ MayLose' = 1 BY <2>1 DEF MayLose
  <2>4. lost' + 2 * Len(lq') + MayLose' <= 2 * lines' BY <1>3, <2>1, <2>3 DEF LogCounts
  <2>5. lost' \in Nat /\ owed' \in BOOLEAN BY <2>1
  <2>6. LogCounts' BY <2>1, <2>4, <2>5 DEF LogCounts
  <2> QED BY <1>2, <2>2, <2>6
<1>8. CASE clockArrives \/ \E c \in {"absent", "good", "refuses"} : cardChanges(c)
  <2>1. UNCHANGED <<core, logTask, lines, lq, lost, owed, held, what>>
        /\ clockOk' \in BOOLEAN /\ card' \in {"absent", "good", "refuses"}
      BY <1>8 DEF clockArrives, cardChanges, queueing, LogPlace
  <2>2. LogPlace' /\ LogCounts' BY <2>1 DEF LogPlace, LogCounts, MayLose
  <2> QED BY <1>2, <2>2
<1> QED BY <1>4, <1>5, <1>6, <1>7, <1>8

\* The volume refused a line.
LEMMA LogRefused ==
    ASSUME LogInv, refused, logTask \in {"append", "write"}, UNCHANGED <<lines, lq>>
    PROVE  LogCounts' /\ logTask' \in {"wait", "append"} /\ what' \in {"notice", "line"}
<1> USE DEF LogInv
<1>1. Len(lq) \in Nat /\ lines \in Nat /\ lost \in Nat /\ lost' = lost + 1 /\ 0 \in Line
    BY LogFilesAssumption DEF LogCounts, Line, refused
<1>2. CASE what = "notice"
  <2>1. what' = "line" /\ logTask' = "append" /\ UNCHANGED <<held, owed>> BY <1>2 DEF refused
  <2>2. MayLose = 2 /\ MayLose' = 1 BY <1>2, <2>1 DEF MayLose
  <2>3. lost' + 2 * Len(lq') + MayLose' <= 2 * lines' BY <1>1, <2>2 DEF LogCounts
  <2>4. lost' \in Nat BY <1>1
  <2> QED BY <1>2, <2>1, <2>3, <2>4 DEF LogCounts
<1>3. CASE what # "notice"
  <2>1. logTask' = "wait" /\ held' = 0 /\ owed' = TRUE /\ UNCHANGED what BY <1>3 DEF refused
  <2>2. MayLose = 1 /\ MayLose' = 0 BY <1>3, <2>1 DEF MayLose
  <2>3. lost' + 2 * Len(lq') + MayLose' <= 2 * lines' BY <1>1, <2>2 DEF LogCounts
  <2>4. lost' \in Nat /\ what' \in {"notice", "line"} BY <1>1, <2>1 DEF LogPlace
  <2> QED BY <1>1, <1>3, <2>1, <2>3, <2>4 DEF LogCounts
<1> QED BY <1>2, <1>3

\* A line is brought to the file; the file may have to be rotated before.
LEMMA LogWrites ==
    ASSUME LogInv, append_Rotate \/ append_Write \/ \E s \in Sizes : setMaxBytes(s) PROVE LogInv'
<1> USE DEF LogInv
<1>1. UNCHANGED <<core, lines, lq, clockOk, card>> BY DEF append_Rotate, append_Write, setMaxBytes, queueing
<1>2. cap \in Nat /\ Sizes \subseteq Nat BY LogFilesAssumption DEF LogKept
<1>3. CASE append_Rotate
  <2>1. logTask = "append" /\ UNCHANGED <<live, cap, dated, written>> BY <1>3 DEF append_Rotate
  <2>2. CASE refused /\ UNCHANGED <<archive, fails, rotating, excused>>
    <3>1. LogCounts' /\ LogPlace' BY <1>1, <2>1, <2>2, LogRefused DEF LogPlace
    <3>2. LogKept' BY <2>1, <2>2 DEF LogKept, LinesKept
    <3> QED BY <3>1, <3>2
  <2>3. CASE rotateIfNeeded("task", 1, cap) /\ logTask' = "write" /\ UNCHANGED <<lost, owed, held, what>>
    <3>1. LogPlace' BY <1>1, <2>3 DEF LogPlace
    <3>2. LogCounts' BY <1>1, <2>1, <2>3 DEF LogCounts, MayLose
    <3>3. "task" \in Party BY DEF Party
    <3>4. LogKept' BY <1>2, <2>1, <2>3, <3>3, RotationDecides DEF LogKept, LinesKept, Safe
    <3> QED BY <3>1, <3>2, <3>4
  <2> QED BY <1>3, <2>2, <2>3 DEF append_Rotate
<1>4. CASE append_Write
  <2>1. logTask = "write" /\ UNCHANGED <<archive, cap, fails, excused, rotating>> BY <1>4 DEF append_Write
  <2>2. CASE refused /\ UNCHANGED <<live, dated, written>>
    <3>1. LogCounts' /\ LogPlace' BY <1>1, <2>1, <2>2, LogRefused DEF LogPlace
    <3>2. LogKept' BY <2>1, <2>2 DEF LogKept, LinesKept
    <3> QED BY <3>1, <3>2
  <2>3. CASE /\ live' = Append(live, IF what = "notice" THEN 0 ELSE held)
             /\ dated' = (dated \/ clockOk)
             /\ \/ what = "notice" /\ logTask' = "reset" /\ UNCHANGED <<written, held>>
                \/ what = "line" /\ logTask' = "wait" /\ written' = written \cup {held} /\ held' = 0
             /\ UNCHANGED <<lost, owed, what>>
    <3>1. 0 \in Line /\ held \in Line /\ held' \in Line BY <2>3, LogFilesAssumption DEF LogCounts, Line
    <3>2. LogPlace' BY <1>1, <2>3 DEF LogPlace
    <3>3. MayLose' \in Nat /\ MayLose' <= MayLose /\ MayLose \in Nat BY <2>1, <2>3 DEF MayLose
    <3>4. LogCounts'
      <4>1. Len(lq) \in Nat /\ lines \in Nat /\ lost \in Nat BY LogFilesAssumption DEF LogCounts, Line
      <4>2. lost + 2 * Len(lq) + MayLose <= 2 * lines BY DEF LogCounts
      <4>3. lines' = lines /\ lq' = lq /\ lost' = lost /\ owed' = owed /\ what' = what BY <1>1, <2>3
      <4>4. lost' + 2 * Len(lq') + MayLose' <= 2 * lines' BY <3>3, <4>1, <4>2, <4>3
      <4>5. lost > 0 => owed BY <2>1 DEF LogCounts
      <4> QED BY <3>1, <4>3, <4>4, <4>5 DEF LogCounts
    <3> DEFINE x == IF what = "notice" THEN 0 ELSE held
    <3>5. x \in Line /\ live' = Append(live, x) BY <2>3, <3>1
    <3>6. live' \in Seq(Line) /\ In(live') = In(live) \cup {x} BY <3>5, LinesIn DEF LogKept
    <3>7. written' \subseteq written \cup {x} BY <2>3
    <3>8. dated' \in BOOLEAN BY <2>3
    <3> HIDE DEF x
    <3>9. LogKept' BY <2>1, <3>5, <3>6, <3>7, <3>8 DEF LogKept, LinesKept
    <3> QED BY <3>2, <3>4, <3>9
  <2> QED BY <1>4, <2>2, <2>3 DEF append_Write
<1>5. ASSUME NEW s \in Sizes, setMaxBytes(s) PROVE LogInv'
  <2>1. /\ cap' = s /\ rotateIfNeeded("web", 0, s)
        /\ UNCHANGED <<logTask, lost, owed, held, what, live, dated, written>>
      BY <1>5 DEF setMaxBytes, queueing
  <2>2. LogPlace' /\ LogCounts' BY <1>1, <2>1 DEF LogPlace, LogCounts, MayLose
  <2>3. "web" \in Party /\ s \in Nat BY <1>2 DEF Party
  <2>4. LogKept' BY <2>1, <2>3, RotationDecides DEF LogKept, LinesKept, Safe
  <2> QED BY <2>2, <2>4
<1> QED BY <1>3, <1>4, <1>5

\* The live file gets its new content, or the device restarts.
LEMMA LogRenewed ==
    ASSUME LogInv, restart_Device \/ \E p \in Party : startFresh(p) PROVE LogInv'
<1> USE DEF LogInv
<1>1. NotRotating \in Rotation /\ ~NotRotating.busy BY DEF NotRotating, Rotation
<1>2. live \in Seq(Line) /\ In(live) \subseteq Line BY TailOfLog DEF LogKept
<1>3. ASSUME NEW p \in Party, startFresh(p) PROVE LogInv'
  <2>1. /\ rotating[p].busy /\ dated' = (dated /\ ~rotating[p].archived)
        /\ rotating' = [rotating EXCEPT ![p] = NotRotating]
        /\ UNCHANGED <<core, logTask, lines, lq, lost, owed, held, what, archive, cap, fails, written,
                       clockOk, card>>
      BY <1>3 DEF startFresh, queueing
  <2>2. LogPlace' /\ LogCounts' BY <2>1 DEF LogPlace, LogCounts, MayLose
  <2>3. rotating' \in [Party -> Rotation] /\ \A q \in Party : rotating'[q] \in {NotRotating, rotating[q]}
      BY <1>1, <2>1 DEF LogKept
  <2>4. dated' \in BOOLEAN BY <2>1
  <2>5. CASE live' = rotating[p].content /\ excused' = excused \cup (In(live) \ rotating[p].seen)
    <3>1. live' \in Seq(Line) BY <2>5 DEF LogKept, Rotation
    <3>2. rotating[p].seen \subseteq In(live') \cup In(archive) \cup excused BY <2>1, <2>5 DEF LogKept
    <3>3. written \subseteq In(live') \cup In(archive) \cup excused' BY <2>5, <3>2 DEF LogKept, LinesKept
    <3>4. excused' \subseteq Line /\ excused \subseteq excused' BY <1>2, <2>5 DEF LogKept
    <3>5. LogKept' BY <1>1, <2>1, <2>3, <2>4, <3>1, <3>3, <3>4 DEF LogKept, LinesKept
    <3> QED BY <2>2, <3>5
  <2>6. CASE UNCHANGED <<live, excused>>
    <3>1. LogKept' BY <1>1, <2>1, <2>3, <2>4, <2>6 DEF LogKept, LinesKept
    <3> QED BY <2>2, <3>1
  <2> QED BY <1>3, <2>5, <2>6 DEF startFresh
<1>4. CASE restart_Device
  <2>1. /\ core' = FALSE /\ logTask' = "none" /\ lq' = <<>> /\ lost' = 0 /\ owed' = FALSE
        /\ held' = 0 /\ what' = "line" /\ dated' = FALSE /\ clockOk' = FALSE /\ fails' = 0
        /\ rotating' = [p \in Party |-> NotRotating]
        /\ UNCHANGED <<lines, archive, cap, written, card>>
      BY <1>4 DEF restart_Device
  <2>2. LogPlace' BY <2>1 DEF LogPlace
  <2>3. LogCounts'
    <3>1. MayLose' = 0 /\ Len(lq') = 0 /\ lq' \in Seq(Line) /\ Len(lq') <= LogQueue
        BY <2>1, LogFilesAssumption DEF MayLose
    <3>2. lines' \in Line /\ lines' \in Nat /\ held' \in Line
        BY <2>1, LogFilesAssumption DEF LogCounts, Line
    <3>3. lost' = 0 /\ what' = "line" BY <2>1
    <3>4. owed' \in BOOLEAN BY <2>1
    <3>5. \A n \in Nat : 0 + 2 * 0 + 0 <= 2 * n OBVIOUS
    <3>6. lost' + 2 * Len(lq') + MayLose' <= 2 * lines'
      <4>1. lines' \in Nat BY <3>2
      <4>2. lost' = 0 /\ Len(lq') = 0 /\ MayLose' = 0 BY <3>1, <3>3
      <4> QED BY <3>5, <4>1, <4>2
    <3>7. lost' \in Nat /\ ~(lost' > 0) BY <3>3
    <3>8. lines' \in Line /\ held' \in Line /\ lq' \in Seq(Line) /\ Len(lq') <= LogQueue BY <3>1, <3>2
    <3> QED BY <3>3, <3>4, <3>6, <3>7, <3>8 DEF LogCounts
  <2>4. rotating' \in [Party -> Rotation] /\ \A p \in Party : ~rotating'[p].busy BY <1>1, <2>1
  <2>5. fails' \in 0 .. MaxAttempts - 1 BY <2>1, LogFilesAssumption
  <2>6. dated' \in BOOLEAN BY <2>1
  <2>7. /\ live' \in Seq(Line) /\ excused' \subseteq Line
        /\ In(live) \cup In(archive) \cup excused \subseteq In(live') \cup In(archive) \cup excused'
    <3>1. CASE UNCHANGED <<live, excused>> BY <1>2, <3>1 DEF LogKept
    <3>2. CASE live' = <<>> /\ excused' = excused \cup (In(live) \ In(archive))
        BY <1>2, <3>2 DEF LogKept
    <3> QED BY <1>4, <3>1, <3>2 DEF restart_Device
  <2>8. LogKept' BY <2>1, <2>4, <2>5, <2>6, <2>7 DEF LogKept, LinesKept
  <2> QED BY <2>2, <2>3, <2>8
<1> QED BY <1>3, <1>4

LEMMA LogInductive == LogInv /\ [LogNext]_logVars => LogInv'
<1> SUFFICES ASSUME LogInv, [LogNext]_logVars PROVE LogInv' OBVIOUS
<1>1. CASE UNCHANGED logVars
    BY <1>1 DEF logVars, LogInv, LogPlace, LogCounts, LogKept, LinesKept, MayLose
<1>2. CASE LogNext
    BY <1>2, LogAsked, LogWrites, LogRenewed DEF LogNext, logStep, webRotates, Party
<1> QED BY <1>1, <1>2

(* However the writing task and the settings page rotate a journal under    *)
(* each other, whatever the card and the power do: a line that was written  *)
(* is in the live file or on the card unless it is gone for one of the four *)
(* reasons, and no loss goes without a word.                                *)
THEOREM LogsStaySafe == Spec => []LogsSafe
<1>1. Init => LogInv BY LogStart DEF Init
<1>2. LogInv /\ [Next]_vars => LogInv' BY OneAtATime, LogInductive
<1>3. LogInv => LogsSafe BY LogHolds
<1> QED BY <1>1, <1>2, <1>3, PTL DEF Spec

-----------------------------------------------------------------------------
(***************************************************************************)
(* Countdowns: the handle stands for the one task, a timer that is on      *)
(* while its task leaves was switched on too late, and a countdown that is *)
(* not to start again lasts for what is left of a period.                  *)
(***************************************************************************)
TimerRow == Timer \cup {"other"}
Rows(table) == table \in Seq(JobRow(TimerRow)) /\ Len(table) <= MaxJobs

\* A row that is freed makes room for one.
LEMMA RowFreed ==
    ASSUME NEW table, Rows(table), NEW id
    PROVE  /\ Rows(jobWithout(table, id))
           /\ Len(table) < MaxJobs \/ jobContains(table, id) => Len(jobWithout(table, id)) < MaxJobs
<1>1. table \in Seq(JobRow(TimerRow)) /\ Len(table) \in Nat /\ DOMAIN table = 1 .. Len(table) BY DEF Rows
<1>2. CASE ~jobContains(table, id) BY <1>2 DEF jobWithout
<1>3. CASE jobContains(table, id)
  <2> DEFINE place == jobPlace(table, id)
  <2>1. place \in 1 .. Len(table) BY <1>1, <1>3 DEF jobContains, jobPlace
  <2>2. jobWithout(table, id) = jobFreed(table, place) BY <1>3 DEF jobWithout
  <2> HIDE DEF place
  <2>3. Len(table) - 1 \in Nat BY <1>1, <2>1
  <2>4. \A i \in 1 .. Len(table) - 1 : table[i] \in JobRow(TimerRow) /\ table[i + 1] \in JobRow(TimerRow)
      BY <1>1, <2>3
  <2> DEFINE new == [i \in 1 .. Len(table) - 1 |-> IF i < place THEN table[i] ELSE table[i + 1]]
  <2>5. new \in Seq(JobRow(TimerRow)) /\ Len(new) = Len(table) - 1 BY <2>3, <2>4
  <2>6. jobWithout(table, id) = new BY <2>2 DEF jobFreed
  <2> HIDE DEF new
  <2> QED BY <1>1, <2>3, <2>5, <2>6, MaxJobsAssumption DEF Rows
<1> QED BY <1>2, <1>3

\* The oldest row that may be given away is a row of the table.
LEMMA OldestIsRow ==
    ASSUME NEW table, Rows(table), Reusable(table) # {}
    PROVE  jobContains(table, oldestReusable(table).id)
<1> DEFINE free == Reusable(table)
<1>1. free \subseteq Nat /\ free \subseteq DOMAIN table BY DEF Reusable, Rows
<1> DEFINE R == OpToRel(<, Nat)
<1>2. IsWellFoundedOn(R, Nat) BY NatLessThanWellFounded
<1>3. \A i, j \in Nat : j < i => <<j, i>> \in R BY DEF OpToRel
<1> HIDE DEF R, free
<1>4. free # {} BY DEF free
<1>5a. \E i \in free : \A j \in free : ~(<<j, i>> \in R) BY <1>1, <1>2, <1>4, WFMin
<1>5. PICK i \in free : \A j \in free : ~(<<j, i>> \in R) BY <1>5a
<1>6. ASSUME NEW j \in free PROVE i <= j
  <2>1. i \in Nat /\ j \in Nat BY <1>1
  <2>2. ~(j < i) BY <1>3, <1>5, <2>1
  <2> QED BY <2>1, <2>2
<1>7. \E k \in free : \A j \in free : k <= j BY <1>6
<1>8. oldestReusable(table) = table[CHOOSE k \in free : \A j \in free : k <= j] BY DEF oldestReusable, free
<1> QED BY <1>1, <1>7, <1>8 DEF jobContains

\* Whatever is done to the registry, it stays one.
LEMMA RowsKept ==
    ASSUME NEW table, Rows(table), NEW id \in TimerRow
    PROVE  /\ Rows(jobBegin(table, id, FALSE)) /\ Rows(jobFinish(table, id, "done"))
           /\ Rows(jobRequestCancel(table, id))
<1> DEFINE row == JobInfo(id, FALSE)
<1>1. row \in JobRow(TimerRow) BY DEF JobInfo, JobRow, JobState
<1>2. jobBegin(table, id, FALSE) =
          IF jobContains(table, id) \/ Len(table) < MaxJobs THEN Append(jobWithout(table, id), row)
          ELSE IF Reusable(table) # {} THEN Append(jobWithout(table, oldestReusable(table).id), row)
          ELSE table
    BY DEF jobBegin
<1> HIDE DEF row
<1>3. ASSUME NEW x, Rows(x), Len(x) < MaxJobs PROVE Rows(Append(x, row))
    BY <1>1, <1>3, MaxJobsAssumption DEF Rows
<1>4. Rows(jobBegin(table, id, FALSE))
  <2>1. CASE jobContains(table, id) \/ Len(table) < MaxJobs BY <1>2, <1>3, <2>1, RowFreed
  <2>2. CASE ~(jobContains(table, id) \/ Len(table) < MaxJobs) /\ Reusable(table) # {}
    <3>1. jobContains(table, oldestReusable(table).id) BY <2>2, OldestIsRow
    <3>2. /\ Rows(jobWithout(table, oldestReusable(table).id))
          /\ Len(jobWithout(table, oldestReusable(table).id)) < MaxJobs
        BY <3>1, RowFreed
    <3> QED BY <1>2, <1>3, <2>2, <3>2
  <2>3. CASE ~(jobContains(table, id) \/ Len(table) < MaxJobs) /\ Reusable(table) = {} BY <1>2, <2>3
  <2> QED BY <2>1, <2>2, <2>3
<1>5. ASSUME NEW new \in [DOMAIN table -> JobRow(TimerRow)] PROVE Rows(new)
  <2>1. Len(table) \in Nat /\ DOMAIN table = 1 .. Len(table) BY DEF Rows
  <2>2. new \in Seq(JobRow(TimerRow)) /\ Len(new) = Len(table) BY <2>1
  <2> QED BY <2>2 DEF Rows
<1>6. \A i \in DOMAIN table : /\ table[i] \in JobRow(TimerRow)
                              /\ [table[i] EXCEPT !.state = "done"] \in JobRow(TimerRow)
                              /\ [table[i] EXCEPT !.cancel = TRUE] \in JobRow(TimerRow)
  <2>1. \A i \in DOMAIN table : table[i] \in JobRow(TimerRow) BY DEF Rows
  <2>2. "done" \in JobState BY DEF JobState
  <2>3. ASSUME NEW r \in JobRow(TimerRow), NEW s \in JobState PROVE [r EXCEPT !.state = s] \in JobRow(TimerRow)
      BY DEF JobRow
  <2>4. ASSUME NEW r \in JobRow(TimerRow), NEW b \in BOOLEAN PROVE [r EXCEPT !.cancel = b] \in JobRow(TimerRow)
      BY DEF JobRow
  <2> QED BY <2>1, <2>2, <2>3, <2>4
<1>7. Rows(jobFinish(table, id, "done"))
  <2> DEFINE new == [i \in DOMAIN table |->
                        IF table[i].id = id THEN [table[i] EXCEPT !.state = "done"] ELSE table[i]]
  <2>1. new \in [DOMAIN table -> JobRow(TimerRow)] BY <1>6
  <2>2. jobFinish(table, id, "done") \in {jobWithout(table, id), new} BY DEF jobFinish, jobRewrite
  <2> HIDE DEF new
  <2> QED BY <1>5, <2>1, <2>2, RowFreed
<1>8. Rows(jobRequestCancel(table, id))
  <2> DEFINE new == [i \in DOMAIN table |->
                        IF table[i].id = id THEN [table[i] EXCEPT !.cancel = TRUE] ELSE table[i]]
  <2>1. new \in [DOMAIN table -> JobRow(TimerRow)] BY <1>6
  <2>2. jobRequestCancel(table, id) \in {table, new} BY DEF jobRequestCancel, jobRewrite
  <2> HIDE DEF new
  <2> QED BY <1>5, <2>1, <2>2
<1> QED BY <1>4, <1>7, <1>8

LEMMA LongestPeriod == MaxPeriod \in Periods /\ MaxPeriod \in Nat \ {0} /\ \A p \in Periods : p \in Nat /\ p <= MaxPeriod
BY PeriodsAssumption DEF MaxPeriod

\* What is left of a countdown that is not to start again, and the ticks since it
\* was armed, make a period.
Whole ==
    /\ (timerOn \/ tick # "none") /\ ~restart => since + remaining >= chosen
    /\ tick = "count" /\ ~restart => since >= 1 /\ (since + remaining >= chosen + 1 \/ since = MaxPeriod)
    /\ tick = "store" /\ ~restart => since + loaded >= chosen
TaskKnown ==
    /\ timerTask <=> tick # "none"
    /\ tasks = IF tick = "none" THEN 0 ELSE 1
    /\ timerOn => tick # "none" \/ orphan
    /\ timerOn /\ tick = "leave" => orphan
PeriodicInv == PeriodicTypeOK /\ period = chosen /\ TaskKnown /\ Whole

LEMMA PeriodicStart == PeriodicInit => PeriodicInv
<1> SUFFICES ASSUME PeriodicInit PROVE PeriodicInv OBVIOUS
<1>1. MaxPeriod \in Periods /\ MaxPeriod \in Nat BY LongestPeriod
<1>2. Rows(<<>>) BY MaxJobsAssumption DEF Rows
<1>3. Rows(timerJobs) BY <1>2, RowsKept DEF PeriodicInit, TimerRow
<1>4. /\ timer \in Timer /\ tasks \in 0 .. 2 /\ tick = "none"
      /\ chosen \in Periods /\ period \in Periods /\ remaining \in 0 .. MaxPeriod
      /\ loaded \in 0 .. MaxPeriod /\ since \in 0 .. MaxPeriod
    BY <1>1 DEF PeriodicInit
<1>5. /\ timerOn \in BOOLEAN /\ timerTask \in BOOLEAN /\ restart \in BOOLEAN /\ nowAsked \in BOOLEAN
      /\ clock \in BOOLEAN /\ wasSet \in BOOLEAN /\ clockShown \in BOOLEAN /\ orphan \in BOOLEAN
    BY DEF PeriodicInit
<1>6. PeriodicTypeOK BY <1>3, <1>4, <1>5 DEF PeriodicTypeOK, Rows, TimerRow
<1>7. TaskKnown /\ Whole BY DEF PeriodicInit, TaskKnown, Whole
<1> QED BY <1>6, <1>7 DEF PeriodicInv, PeriodicInit

\* The types of the two kinds of fields; the provers want them apart.
TimerNumbers ==
    /\ timer \in Timer /\ tick \in {"none", "sleep", "leave", "count", "store", "due", "work"}
    /\ chosen \in Periods /\ period \in Periods /\ remaining \in 0 .. MaxPeriod
    /\ loaded \in 0 .. MaxPeriod /\ since \in 0 .. MaxPeriod
TimerFlags ==
    /\ timerOn \in BOOLEAN /\ timerTask \in BOOLEAN /\ restart \in BOOLEAN /\ nowAsked \in BOOLEAN
    /\ clock \in BOOLEAN /\ wasSet \in BOOLEAN /\ clockShown \in BOOLEAN /\ orphan \in BOOLEAN

LEMMA TimerTypes == TaskKnown => (PeriodicTypeOK <=> TimerNumbers /\ TimerFlags /\ Rows(timerJobs))
<1>1. TaskKnown => tasks \in 0 .. 2 BY DEF TaskKnown
<1> QED BY <1>1 DEF PeriodicTypeOK, TimerNumbers, TimerFlags, Rows, TimerRow

LEMMA TimerAgain ==
    /\ TaskKnown' /\ TimerNumbers' /\ TimerFlags' /\ Rows(timerJobs')
    /\ period' = chosen' /\ Whole'
    => PeriodicInv'
<1>1. TaskKnown' => tasks' \in 0 .. 2 BY DEF TaskKnown
<1> QED BY <1>1 DEF PeriodicInv, PeriodicTypeOK, TimerNumbers, TimerFlags, Rows, TimerRow

\* The settings page turns a timer on, or changes its period.
LEMMA TimerConfigured ==
    ASSUME PeriodicInv, NEW p \in Periods, configureOn(p)
    PROVE  PeriodicInv'
<1>1. TaskKnown /\ Whole /\ period = chosen BY DEF PeriodicInv
<1>2. TimerNumbers /\ TimerFlags /\ Rows(timerJobs) BY TimerTypes DEF PeriodicInv
<1>3. p \in 0 .. MaxPeriod /\ 0 \in 0 .. MaxPeriod BY LongestPeriod
<1>4. startTimer /\ chosen' = p /\ UNCHANGED <<timer, loaded, nowAsked, clock, timerJobs>>
    BY DEF configureOn, configureSave, configureStats, configureUpdate
<1>5. TaskKnown'
    BY <1>1, <1>2, <1>4 DEF TaskKnown, startTimer, TimerFlags
<1>6. \/ armed(p)
      \/ timerOn /\ period = p /\ UNCHANGED <<period, remaining, restart, since>>
    BY <1>2 DEF configureOn, configureSave, configureStats, configureUpdate, autoUpdateReArmNeeded, TimerFlags
<1>7. period' = chosen' BY <1>4, <1>6 DEF armed
<1>8. TimerNumbers'
  <2>1. tick' \in {tick, "sleep"} BY <1>4 DEF startTimer
  <2>2. CASE armed(p) BY <1>2, <1>3, <1>4, <2>1, <2>2 DEF armed, TimerNumbers
  <2>3. CASE timerOn /\ period = p /\ UNCHANGED <<period, remaining, restart, since>>
      BY <1>2, <1>4, <2>1, <2>3 DEF TimerNumbers
  <2> QED BY <1>6, <2>2, <2>3
<1>9. TimerFlags'
  <2>1. timerTask' \in BOOLEAN /\ timerOn' \in BOOLEAN /\ wasSet' \in BOOLEAN /\ orphan' \in BOOLEAN
      BY <1>2, <1>4, Zenon DEF startTimer, TimerFlags
  <2>2. restart' \in BOOLEAN BY <1>2, <1>6, Zenon DEF armed, TimerFlags
  <2>3. clockShown' \in BOOLEAN
      BY <1>2, Zenon DEF configureOn, configureSave, configureStats, configureUpdate, TimerFlags
  <2> QED BY <1>2, <1>4, <2>1, <2>2, <2>3 DEF TimerFlags
<1>10. Whole'
  <2>1. CASE armed(p) BY <2>1 DEF armed, Whole
  <2>2. CASE timerOn /\ period = p /\ UNCHANGED <<period, remaining, restart, since>>
    <3>1. chosen' = chosen /\ loaded' = loaded BY <1>1, <1>4, <2>2
    <3>2. tick' = tick \/ tick' = "sleep" BY <1>4 DEF startTimer
    <3> QED BY <1>1, <2>2, <3>1, <3>2 DEF Whole
  <2> QED BY <1>6, <2>1, <2>2
<1> QED BY <1>2, <1>4, <1>5, <1>7, <1>8, <1>9, <1>10, TimerAgain

\* The rest of what is done to a timer from outside.
LEMMA TimerAsked ==
    ASSUME PeriodicInv,
           configureOff \/ notifyManualSave \/ requestNow \/ clockIsSet \/ requestCancel \/ otherJob
    PROVE  PeriodicInv'
<1>1. TaskKnown /\ Whole /\ period = chosen BY DEF PeriodicInv
<1>2. TimerNumbers /\ TimerFlags /\ Rows(timerJobs) BY TimerTypes DEF PeriodicInv
<1>3. Rows(timerJobs')
    BY <1>2, RowsKept DEF configureOff, notifyManualSave, requestNow, clockIsSet, requestCancel, otherJob,
                          TimerNumbers, TimerRow
<1>4. /\ UNCHANGED <<timer, timerTask, tasks, tick, chosen, loaded, restart, wasSet, clockShown, since, orphan>>
      /\ timerOn' = timerOn \/ timerOn' = FALSE
    BY DEF configureOff, notifyManualSave, requestNow, clockIsSet, requestCancel, otherJob
<1>5. (period' = period /\ remaining' = remaining) \/ (period' = chosen /\ remaining' = chosen)
    BY DEF configureOff, notifyManualSave, requestNow, clockIsSet, requestCancel, otherJob
<1>6. TaskKnown' BY <1>1, <1>4 DEF TaskKnown
<1>7. chosen \in Nat /\ chosen \in 0 .. MaxPeriod /\ since \in Nat BY <1>2, LongestPeriod DEF TimerNumbers
<1>8. TimerNumbers' BY <1>2, <1>4, <1>5, <1>7 DEF TimerNumbers
<1>9. TimerFlags'
  <2>1. nowAsked' = nowAsked \/ nowAsked' = TRUE
      BY DEF configureOff, notifyManualSave, requestNow, clockIsSet, requestCancel, otherJob
  <2>2. clock' = clock \/ clock' = TRUE
      BY DEF configureOff, notifyManualSave, requestNow, clockIsSet, requestCancel, otherJob
  <2> QED BY <1>2, <1>4, <2>1, <2>2 DEF TimerFlags
<1>10. Whole'
  <2>1. CASE remaining' = remaining BY <1>1, <1>4, <2>1 DEF Whole
  <2>2. CASE remaining' = chosen
    <3>1. since + chosen >= chosen BY <1>7
    <3>2. since >= 1 => since + chosen >= chosen + 1 BY <1>7
    <3> QED BY <1>1, <1>4, <2>2, <3>1, <3>2 DEF Whole
  <2> QED BY <1>5, <2>1, <2>2
<1> QED BY <1>1, <1>3, <1>4, <1>5, <1>6, <1>8, <1>9, <1>10, TimerAgain

\* The task wakes up: a tick more since it was armed.
LEMMA TimerWakes ==
    ASSUME PeriodicInv, run_Wake
    PROVE  PeriodicInv'
<1>1. TaskKnown /\ Whole /\ period = chosen BY DEF PeriodicInv
<1>2. TimerNumbers /\ TimerFlags /\ Rows(timerJobs) BY TimerTypes DEF PeriodicInv
<1>3. /\ UNCHANGED <<timer, timerOn, timerTask, tasks, chosen, loaded, restart, clock, timerJobs, orphan>>
      /\ tick = "sleep" /\ tick' \in {"leave", "due", "sleep", "count"}
      /\ tick' = "leave" => ~timerOn
    BY DEF run_Wake
<1>4. (period' = period /\ remaining' = remaining) \/ (period' = chosen /\ remaining' = chosen)
    BY DEF run_Wake, rearm
<1>5. /\ chosen \in Nat /\ chosen \in 0 .. MaxPeriod /\ since \in Nat /\ since <= MaxPeriod
      /\ remaining \in Nat /\ MaxPeriod \in Nat \ {0} /\ chosen <= MaxPeriod
    BY <1>2, LongestPeriod DEF TimerNumbers
<1>6. \/ since' = since + 1 /\ since' \in 0 .. MaxPeriod
      \/ since' = MaxPeriod /\ since' = since
    BY <1>5 DEF run_Wake
<1>7. TaskKnown' BY <1>1, <1>3 DEF TaskKnown
<1>8. TimerNumbers' BY <1>2, <1>3, <1>4, <1>5, <1>6 DEF TimerNumbers
<1>9. TimerFlags'
  <2>1. nowAsked' = nowAsked \/ nowAsked' = FALSE BY DEF run_Wake
  <2>2. wasSet' = wasSet \/ wasSet' = FALSE \/ wasSet' = TRUE BY DEF run_Wake
  <2>3. clockShown' \in BOOLEAN BY <1>2, Zenon DEF run_Wake, TimerFlags
  <2> QED BY <1>2, <1>3, <2>1, <2>2, <2>3 DEF TimerFlags
<1>10. since' >= 1 BY <1>5, <1>6
<1>11. restart \/ (since' + remaining' >= chosen + 1 \/ since' = MaxPeriod)
  <2>1. restart \/ since + remaining >= chosen BY <1>1, <1>3 DEF Whole
  <2> QED BY <1>4, <1>5, <1>6, <2>1
<1>12. restart \/ since' + remaining' >= chosen
  <2>1. remaining' \in Nat /\ since' \in Nat BY <1>4, <1>5, <1>6
  <2>2. \A s, r, c, m \in Nat : c <= m /\ (s + r >= c + 1 \/ s = m) => s + r >= c OBVIOUS
  <2>3. chosen \in Nat /\ MaxPeriod \in Nat /\ chosen <= MaxPeriod BY <1>5
  <2> QED BY <1>11, <2>1, <2>2, <2>3
<1>13. Whole' BY <1>2, <1>3, <1>10, <1>11, <1>12 DEF Whole, TimerFlags
<1> QED BY <1>1, <1>2, <1>3, <1>4, <1>7, <1>8, <1>9, <1>13, TimerAgain

\* It counts, and writes the count back; what the operator did between the two
\* is told by the flag.
LEMMA TimerCounts ==
    ASSUME PeriodicInv, run_Count \/ run_Store \/ run_Leave
    PROVE  PeriodicInv'
<1>1. TaskKnown /\ Whole /\ period = chosen BY DEF PeriodicInv
<1>2. TimerNumbers /\ TimerFlags /\ Rows(timerJobs) BY TimerTypes DEF PeriodicInv
<1>3. UNCHANGED <<timer, timerOn, chosen, nowAsked, clock, wasSet, clockShown, timerJobs, since, orphan>>
    BY DEF run_Count, run_Store, run_Leave
<1>4. period' = period \/ period' = chosen BY DEF run_Count, run_Store, run_Leave, rearm
<1>5. /\ chosen \in Nat /\ chosen \in 0 .. MaxPeriod /\ since \in Nat
      /\ remaining \in Nat /\ loaded \in Nat /\ remaining <= MaxPeriod /\ MaxPeriod \in Nat /\ chosen <= MaxPeriod
    BY <1>2, LongestPeriod DEF TimerNumbers
<1>6. TaskKnown' BY <1>1, <1>3 DEF TaskKnown, run_Count, run_Store, run_Leave
<1>7. TimerNumbers'
  <2>1. tick' \in {"none", "sleep", "leave", "count", "store", "due", "work"}
      BY DEF run_Count, run_Store, run_Leave
  <2>2. remaining' \in {remaining, chosen, loaded} BY DEF run_Count, run_Store, run_Leave, rearm
  <2>3. loaded' \in 0 .. MaxPeriod
      BY <1>2, <1>5 DEF run_Count, run_Store, run_Leave, TimerNumbers
  <2> QED BY <1>2, <1>3, <1>4, <1>5, <2>1, <2>2, <2>3 DEF TimerNumbers
<1>8. TimerFlags'
  <2>1. restart' = restart \/ restart' = FALSE BY DEF run_Count, run_Store, run_Leave
  <2>2. timerTask' = timerTask \/ timerTask' = FALSE BY DEF run_Count, run_Store, run_Leave
  <2> QED BY <1>2, <1>3, <2>1, <2>2 DEF TimerFlags
<1>9. Whole'
  <2>1. CASE run_Leave BY <1>1, <2>1 DEF run_Leave, Whole
  <2>2. CASE run_Store BY <1>1, <2>2 DEF run_Store, Whole
  <2>3. CASE run_Count
    <3>1. CASE restart /\ restart' = FALSE /\ rearm /\ tick' = "sleep"
        BY <1>3, <1>5, <3>1 DEF Whole, rearm
    <3>2. CASE ~restart /\ remaining > 0 /\ loaded' = remaining - 1 /\ tick' = "store"
                 /\ UNCHANGED <<restart, period, remaining>>
      <4>1. since + remaining >= chosen + 1 \/ since = MaxPeriod BY <1>1, <2>3, <3>2 DEF Whole, run_Count
      <4>2. since + (remaining - 1) >= chosen BY <1>5, <3>2, <4>1
      <4>3. since + remaining >= chosen BY <1>5, <4>2
      <4> QED BY <1>3, <3>2, <4>2, <4>3 DEF Whole
    <3>3. CASE ~restart /\ remaining = 0 /\ tick' = "due" /\ UNCHANGED <<restart, period, remaining, loaded>>
        BY <1>1, <1>3, <2>3, <3>3 DEF Whole, run_Count
    <3> QED BY <2>3, <3>1, <3>2, <3>3 DEF run_Count
  <2> QED BY <2>1, <2>2, <2>3
<1> QED BY <1>1, <1>2, <1>3, <1>4, <1>6, <1>7, <1>8, <1>9, TimerAgain

\* The save or the sweep begins and ends.
LEMMA TimerWorks ==
    ASSUME PeriodicInv, saveNow_Begin \/ saveNow_End \/ runSweep_Begin \/ runSweep_End
    PROVE  PeriodicInv'
<1>1. TaskKnown /\ Whole /\ period = chosen BY DEF PeriodicInv
<1>2. TimerNumbers /\ TimerFlags /\ Rows(timerJobs) BY TimerTypes DEF PeriodicInv
<1>3. /\ UNCHANGED <<timer, timerTask, tasks, chosen, loaded, restart, nowAsked, clock, wasSet,
                     clockShown, since, orphan>>
      /\ timerOn' => timerOn
      /\ tick \in {"due", "work"} /\ tick' \in {"work", "sleep"}
  <2>1. timerOn' = timerOn \/ timerOn' = (timerOn /\ ~jobCancelRequested(jobFinish(timerJobs, timer, "done"), timer))
      BY DEF saveNow_Begin, saveNow_End, runSweep_Begin, runSweep_End, beginWork
  <2>2. timerOn' => timerOn BY <2>1
  <2>3. /\ UNCHANGED <<timer, timerTask, tasks, chosen, loaded, restart, nowAsked, clock, wasSet,
                       clockShown, since, orphan>>
        /\ tick \in {"due", "work"} /\ tick' \in {"work", "sleep"}
      BY DEF saveNow_Begin, saveNow_End, runSweep_Begin, runSweep_End, beginWork
  <2> QED BY <2>2, <2>3
<1>4. (period' = period /\ remaining' = remaining) \/ (period' = chosen /\ remaining' = chosen)
    BY DEF saveNow_Begin, saveNow_End, runSweep_Begin, runSweep_End, beginWork, rearm
<1>5. timer \in TimerRow BY <1>2 DEF TimerNumbers, TimerRow
<1>6. Rows(timerJobs')
    BY <1>2, <1>5, RowsKept DEF saveNow_Begin, saveNow_End, runSweep_Begin, runSweep_End, beginWork
<1>7. chosen \in Nat /\ chosen \in 0 .. MaxPeriod /\ since \in Nat BY <1>2, LongestPeriod DEF TimerNumbers
<1>8. TaskKnown' BY <1>1, <1>3 DEF TaskKnown
<1>9. TimerNumbers' BY <1>2, <1>3, <1>4, <1>7 DEF TimerNumbers
<1>10. timerOn' \in BOOLEAN
  <2>1. timerOn' = timerOn \/ timerOn' = (timerOn /\ ~jobCancelRequested(jobFinish(timerJobs, timer, "done"), timer))
      BY DEF saveNow_Begin, saveNow_End, runSweep_Begin, runSweep_End, beginWork
  <2> QED BY <1>2, <2>1, Zenon DEF TimerFlags
<1>11. TimerFlags' BY <1>2, <1>3, <1>10 DEF TimerFlags
<1>12. Whole'
  <2>1. ~restart => since + remaining' >= chosen
    <3>1. since + chosen >= chosen BY <1>7
    <3>2. ~restart => since + remaining >= chosen BY <1>1, <1>3 DEF Whole
    <3> QED BY <1>4, <3>1, <3>2
  <2> QED BY <1>3, <2>1 DEF Whole
<1> QED BY <1>1, <1>3, <1>4, <1>6, <1>8, <1>9, <1>11, <1>12, TimerAgain

LEMMA PeriodicInductive == PeriodicInv /\ [PeriodicNext]_timerVars => PeriodicInv'
<1> SUFFICES ASSUME PeriodicInv, [PeriodicNext]_timerVars PROVE PeriodicInv' OBVIOUS
<1>1. CASE UNCHANGED timerVars
  <2>1. TaskKnown /\ Whole /\ period = chosen BY DEF PeriodicInv
  <2>2. TimerNumbers /\ TimerFlags /\ Rows(timerJobs) BY TimerTypes DEF PeriodicInv
  <2>3. TaskKnown' /\ Whole' /\ period' = chosen' BY <1>1, <2>1 DEF timerVars, TaskKnown, Whole
  <2>4. TimerNumbers' /\ TimerFlags' /\ Rows(timerJobs') BY <1>1, <2>2 DEF timerVars, TimerNumbers, TimerFlags
  <2> QED BY <2>3, <2>4, TimerAgain
<1>2. CASE PeriodicNext
    BY <1>2, TimerConfigured, TimerAsked, TimerWakes, TimerCounts, TimerWorks DEF PeriodicNext, timerStep
<1> QED BY <1>1, <1>2

\* A countdown lasts: after a timer was turned on or given another period, its time
\* does not come before that period has passed, although the task may have
\* written a count of the old one back over the new.
THEOREM PeriodsAreWhole == Spec => WholePeriod
<1>1. Init => PeriodicInv BY PeriodicStart DEF Init
<1>2. PeriodicInv /\ [Next]_vars => PeriodicInv' BY OneAtATime, PeriodicInductive
<1>3. PeriodicInv /\ [Next]_vars => [tick = "count" /\ tick' = "due" => since >= chosen]_timerVars
  <2> SUFFICES ASSUME PeriodicInv, [Next]_vars, tick = "count", tick' = "due" PROVE since >= chosen
      OBVIOUS
  <2>1. Whole /\ PeriodicTypeOK BY DEF PeriodicInv
  <2>2. PeriodicNext BY OneAtATime DEF timerVars
  <2>3. run_Count
      BY <2>2 DEF PeriodicNext, timerStep, configureOn, configureSave, configureStats, configureUpdate, startTimer,
                  configureOff, notifyManualSave, requestNow, clockIsSet, requestCancel, otherJob, run_Wake,
                  run_Leave, run_Store, saveNow_Begin, saveNow_End, runSweep_Begin, runSweep_End, beginWork
  <2>4. ~restart /\ remaining = 0 BY <2>3 DEF run_Count
  <2>5. since + remaining >= chosen + 1 \/ since = MaxPeriod BY <2>1, <2>4 DEF Whole
  <2>6. since \in Nat /\ chosen \in Nat /\ chosen <= MaxPeriod BY <2>1, LongestPeriod DEF PeriodicTypeOK
  <2> QED BY <2>4, <2>5, <2>6
<1> QED BY <1>1, <1>2, <1>3, PTL DEF Spec, WholePeriod

-----------------------------------------------------------------------------
(***************************************************************************)
(* The sweep: what the blocks so far may have asked for, and where the     *)
(* plan of a block is empty.                                               *)
(***************************************************************************)
SweepInv ==
    /\ SweepTypeOK /\ SweepRowTrue
    /\ sweep = "answer" => plan # <<>>
    /\ sweep \in {"ask", "answer"} => Len(plan) <= Batch /\ done + Len(plan) <= (block + 1) * Batch
    /\ sweep = "block" => plan = <<>> /\ done <= block * Batch
    /\ sweep \in {"pause", "pausing"} => plan = <<>> /\ done <= (block + 1) * Batch

LEMMA Dropped ==
    ASSUME NEW T, NEW s \in Seq(T), Distinct(s), NEW x
    PROVE  /\ Dropping(s, x) \in Seq(T) /\ Len(Dropping(s, x)) <= Len(s)
           /\ Distinct(Dropping(s, x)) /\ x \notin Elements(Dropping(s, x))
<1>1. CASE x \notin Elements(s) BY <1>1 DEF Dropping
<1>2. CASE x \in Elements(s)
  <2> DEFINE place == CHOOSE i \in DOMAIN s : s[i] = x
             d == [i \in 1 .. Len(s) - 1 |-> IF i < place THEN s[i] ELSE s[i + 1]]
  <2>1. place \in 1 .. Len(s) /\ s[place] = x BY <1>2 DEF Elements
  <2>2. Dropping(s, x) = d BY <1>2 DEF Dropping
  <2>3. Len(s) \in Nat /\ Len(s) - 1 \in Nat BY <2>1
  <2> HIDE DEF place
  <2>4. \A i \in 1 .. Len(s) - 1 : s[i] \in T /\ s[i + 1] \in T BY <2>3
  <2>5. d \in [1 .. Len(s) - 1 -> T] BY <2>4
  <2>6. d \in Seq(T) /\ Len(d) = Len(s) - 1 BY <2>3, <2>5
  <2> HIDE DEF d
  <2>7. DOMAIN d = 1 .. Len(s) - 1 BY <2>5
  <2>8. \A i \in DOMAIN d : /\ i < place => d[i] = s[i]
                            /\ ~(i < place) => d[i] = s[i + 1]
      BY <2>7 DEF d
  <2>9. \A i, j \in 1 .. Len(s) : s[i] = s[j] => i = j BY DEF Distinct
  <2> DEFINE at(i) == IF i < place THEN i ELSE i + 1
  <2>10. \A i \in DOMAIN d : at(i) \in 1 .. Len(s) /\ at(i) # place BY <2>1, <2>3, <2>7
  <2>11. \A i, j \in DOMAIN d : at(i) = at(j) => i = j BY <2>1, <2>3, <2>7
  <2>12. \A i \in DOMAIN d : d[i] = s[at(i)] BY <2>8
  <2> HIDE DEF at
  <2>13. \A i, j \in DOMAIN d : d[i] = d[j] => i = j BY <2>9, <2>10, <2>11, <2>12
  <2>14. \A i \in DOMAIN d : d[i] # x BY <2>1, <2>9, <2>10, <2>12
  <2> QED BY <2>2, <2>3, <2>6, <2>13, <2>14 DEF Distinct, Elements
<1> QED BY <1>1, <1>2

LEMMA PickedIs ==
    ASSUME NEW T, NEW s \in Seq(T), NEW places \in SUBSET DOMAIN s, NEW q \in Picked(s, places)
    PROVE  q \in Seq(T) /\ Len(q) = Cardinality(places)
<1>1. IsFiniteSet(places) BY FS_Interval, FS_Subset
<1> DEFINE c == Cardinality(places)
<1>2. c \in Nat BY <1>1, FS_CardinalityType
<1>3. PICK f \in [1 .. c -> places] : q = [i \in DOMAIN f |-> s[f[i]]] BY DEF Picked
<1> HIDE DEF c
<1>4. q \in [1 .. c -> T] BY <1>3
<1>5. q \in Seq(T) /\ Len(q) = c BY <1>2, <1>4
<1> QED BY <1>5 DEF c

LEMMA LastOfIs ==
    ASSUME NEW T, NEW s \in Seq(T), NEW n \in Nat
    PROVE  LastOf(s, n) \in Seq(T) /\ Len(LastOf(s, n)) <= n
<1> DEFINE m == IF n < Len(s) THEN Len(s) - n + 1 ELSE 1
<1>1. Len(s) \in Nat /\ m \in 1 .. Len(s) + 1 BY DEF m
<1> HIDE DEF m
<1>2. SubSeq(s, m, Len(s)) \in Seq(T) /\ Len(SubSeq(s, m, Len(s))) = IF m <= Len(s) THEN Len(s) - m + 1 ELSE 0
    BY <1>1, SubSeqProperties
<1>3. (IF m <= Len(s) THEN Len(s) - m + 1 ELSE 0) <= n BY <1>1 DEF m
<1> QED BY <1>2, <1>3 DEF LastOf, m

\* The retries of a block: taking one more adds at most one.
LEMMA RetriesFit ==
    ASSUME retry \in Seq(Record), NEW taken \in 0 .. Len(retry),
           \A n \in 0 .. taken - 1 : Cardinality(stillCached(n)) < Batch
    PROVE  Cardinality(stillCached(taken)) \in 0 .. Batch
<1>1. \A n \in 0 .. taken : IsFiniteSet(stillCached(n)) /\ Cardinality(stillCached(n)) \in Nat
  <2> TAKE n \in 0 .. taken
  <2>1. stillCached(n) \subseteq 1 .. n BY DEF stillCached
  <2>2. IsFiniteSet(1 .. n) BY FS_Interval
  <2>3. IsFiniteSet(stillCached(n)) BY <2>1, <2>2, FS_Subset
  <2> QED BY <2>3, FS_CardinalityType
<1>2. CASE taken = 0
  <2>1. stillCached(taken) = {} BY <1>2 DEF stillCached
  <2> QED BY <2>1, FS_EmptySet, SweepAssumption
<1>3. CASE taken # 0
  <2> DEFINE S == stillCached(taken - 1)
  <2>1. taken - 1 \in 0 .. taken - 1 /\ taken - 1 \in 0 .. taken BY <1>3
  <2>2. Cardinality(S) < Batch /\ IsFiniteSet(S) /\ Cardinality(S) \in Nat BY <1>1, <2>1
  <2>3. stillCached(taken) \subseteq S \cup {taken} BY <1>3 DEF stillCached
  <2> HIDE DEF S
  <2>4. IsFiniteSet(S \cup {taken}) /\ Cardinality(S \cup {taken}) <= Cardinality(S) + 1
        /\ Cardinality(S \cup {taken}) \in Nat
    <3>1. /\ IsFiniteSet(S \cup {taken})
          /\ Cardinality(S \cup {taken}) = IF taken \in S THEN Cardinality(S) ELSE Cardinality(S) + 1
        BY <2>2, FS_AddElement
    <3> QED BY <2>2, <3>1
  <2>5. Cardinality(stillCached(taken)) <= Cardinality(S \cup {taken}) BY <2>3, <2>4, FS_Subset
  <2>6. Cardinality(stillCached(taken)) \in Nat BY <1>1
  <2> QED BY <2>2, <2>4, <2>5, <2>6, SweepAssumption
<1> QED BY <1>2, <1>3

LEMMA OneBlockMore == \A b \in Nat : /\ (b + 1) * Batch = b * Batch + Batch
                                 /\ b * Batch \in Nat /\ (b + 1) * Batch \in Nat
BY SweepAssumption

\* The parts of the type that a step may change one by one.
SweepSeqs(st, pe) ==
    /\ st \in Seq(Record) /\ Distinct(st)
    /\ pe \in Seq(Record) /\ Distinct(pe) /\ Len(pe) <= MaxPending

LEMMA SweepTypes ==
    /\ SweepTypeOK <=>
          /\ SweepSeqs(stored, pending) /\ retry \in Seq(Record) /\ plan \in Seq(Record)
          /\ sweep \in {"idle", "block", "ask", "answer", "pause", "pausing"}
          /\ updating \in BOOLEAN /\ running \in BOOLEAN /\ stopAsked \in BOOLEAN
          /\ rowShown \in {"none", "running", "paused", "taken"}
          /\ block \in Nat /\ blocks \in Nat /\ done \in Nat
          /\ asked \subseteq Record /\ whole \subseteq Record
BY DEF SweepTypeOK, SweepSeqs

LEMMA SweepStart == SweepInit => SweepInv
<1> SUFFICES ASSUME SweepInit PROVE SweepInv OBVIOUS
<1>1. stored \in Seq(Record) /\ Distinct(stored)
  <2>1. PICK n \in 0 .. Cardinality(Record) : stored \in [1 .. n -> Record] BY DEF SweepInit
  <2>2. n \in Nat BY <2>1
  <2> QED BY <2>1, <2>2 DEF SweepInit
<1>2. Distinct(<<>>) /\ <<>> \in Seq(Record) /\ Len(<<>>) = 0 BY DEF Distinct
<1>3. SweepSeqs(stored, pending) BY <1>1, <1>2, SweepAssumption DEF SweepInit, SweepSeqs
<1>4. SweepTypeOK BY <1>2, <1>3, SweepTypes DEF SweepInit
<1> QED BY <1>4 DEF SweepInit, SweepInv, SweepRowTrue

LEMMA SweepBegins == SweepInv /\ runSweep_Start => SweepInv'
<1> SUFFICES ASSUME SweepInv, runSweep_Start PROVE SweepInv' OBVIOUS
<1>1. SweepTypeOK BY DEF SweepInv
<1>2. Distinct(<<>>) /\ <<>> \in Seq(Record) /\ Len(<<>>) = 0 /\ 0 <= MaxPending BY SweepAssumption DEF Distinct
<1>3. autoUpdateBlockCount(Len(stored)) \in Nat
  <2>1. Len(stored) \in Nat BY <1>1 DEF SweepTypeOK
  <2> QED BY <2>1, SweepAssumption DEF autoUpdateBlockCount
<1>4. Elements(stored) \subseteq Record BY <1>1 DEF SweepTypeOK, Elements
<1>5. stored' \in Seq(Record) /\ Distinct(stored') BY <1>1 DEF runSweep_Start, SweepTypeOK
<1>6. SweepTypeOK' BY <1>1, <1>2, <1>3, <1>4, <1>5 DEF runSweep_Start, SweepTypeOK
<1>7. 0 <= 0 * Batch BY SweepAssumption
<1> QED BY <1>6, <1>7 DEF runSweep_Start, SweepInv, SweepRowTrue

\* A sweep that ends leaves its row and its plan.
LEMMA SweepEnds ==
    ASSUME SweepInv, close, SweepSeqs(stored', pending'), done' \in Nat, UNCHANGED <<updating, asked, whole>>
    PROVE  SweepInv'
<1>1. SweepTypeOK BY DEF SweepInv
<1>2. <<>> \in Seq(Record) OBVIOUS
<1>3. SweepTypeOK' BY <1>1, <1>2 DEF close, SweepTypeOK, SweepSeqs
<1> QED BY <1>3 DEF close, SweepInv, SweepRowTrue

LEMMA BlockBegins == SweepInv /\ runSweep_Block => SweepInv'
<1> SUFFICES ASSUME SweepInv, runSweep_Block PROVE SweepInv' OBVIOUS
<1>1. SweepTypeOK /\ SweepRowTrue /\ sweep = "block" /\ done <= block * Batch BY DEF SweepInv, runSweep_Block
<1>2. UNCHANGED <<stored, updating, pending, done, asked, whole>> BY DEF runSweep_Block
<1>3. SweepSeqs(stored, pending) /\ retry \in Seq(Record) /\ done \in Nat /\ block \in Nat BY <1>1, SweepTypes
<1>4. SweepSeqs(stored', pending') /\ done' \in Nat BY <1>2, <1>3
<1>5. CASE close BY <1>2, <1>4, <1>5, SweepEnds
<1>6. ASSUME NEW taken \in 0 .. Len(retry), \A n \in 0 .. taken - 1 : Cardinality(stillCached(n)) < Batch,
             NEW again \in Picked(retry, stillCached(taken)), NEW oldest \in oldestEntries(Batch - Len(again)),
             plan' = again \o oldest, plan' # <<>>, sweep' = "ask",
             retry' = SubSeq(retry, taken + 1, Len(retry)),
             UNCHANGED <<running, rowShown, stopAsked, block, blocks>>
      PROVE  SweepInv'
  <2>1. Cardinality(stillCached(taken)) \in 0 .. Batch BY <1>3, <1>6, RetriesFit
  <2>2. Len(retry) \in Nat /\ stillCached(taken) \in SUBSET DOMAIN retry BY <1>3 DEF stillCached
  <2>3. again \in Seq(Record) /\ Len(again) = Cardinality(stillCached(taken)) BY <1>3, <2>2, PickedIs
  <2>4. Batch \in Nat /\ Len(again) \in Nat /\ Batch - Len(again) \in Nat BY <2>1, <2>3, SweepAssumption
  <2>5. oldest \in Seq(Record) /\ Len(oldest) <= Batch - Len(again)
    <3> DEFINE places == {i \in DOMAIN stored : stored[i] \notin Elements(pending)}
    <3>1. PICK candidates \in Picked(stored, places) : oldest = LastOf(candidates, Batch - Len(again))
        BY <1>6 DEF oldestEntries
    <3>2. stored \in Seq(Record) /\ places \in SUBSET DOMAIN stored BY <1>3 DEF SweepSeqs
    <3> HIDE DEF places
    <3>3. candidates \in Seq(Record) BY <3>1, <3>2, PickedIs
    <3> QED BY <2>4, <3>1, <3>3, LastOfIs
  <2>6. plan' \in Seq(Record) /\ Len(plan') = Len(again) + Len(oldest) /\ Len(oldest) \in Nat
    <3>1. again \in Seq(Record) /\ oldest \in Seq(Record) BY <2>3, <2>5
    <3>2. again \o oldest \in Seq(Record) /\ Len(again \o oldest) = Len(again) + Len(oldest)
        BY <3>1, ConcatProperties
    <3> QED BY <1>6, <3>1, <3>2
  <2>7. Len(plan') <= Batch BY <2>4, <2>5, <2>6
  <2>8. done + Len(plan') <= (block + 1) * Batch
    <3>1. (block + 1) * Batch = block * Batch + Batch /\ block * Batch \in Nat BY <1>3, OneBlockMore
    <3> DEFINE x == block * Batch
               y == (block + 1) * Batch
               l == Len(plan')
    <3>2. y = x + Batch /\ x \in Nat /\ done <= x /\ l <= Batch /\ l \in Nat BY <1>1, <2>4, <2>5, <2>6, <2>7, <3>1
    <3> HIDE DEF x, y, l
    <3>3. done + l <= y BY <1>3, <2>4, <3>2
    <3> QED BY <3>3 DEF y, l
  <2>9. retry' \in Seq(Record)
    <3>1. taken + 1 \in 1 .. Len(retry) + 1 BY <1>6, <2>2
    <3> QED BY <1>3, <1>6, <3>1, SubSeqProperties
  <2>10. SweepTypeOK' BY <1>1, <1>2, <1>4, <1>6, <2>6, <2>9 DEF SweepTypeOK, SweepSeqs
  <2>11. SweepRowTrue' BY <1>1, <1>6 DEF SweepRowTrue
  <2> QED BY <1>2, <1>6, <2>7, <2>8, <2>10, <2>11 DEF SweepInv
<1> QED BY <1>5, <1>6 DEF runSweep_Block

LEMMA Asks == SweepInv /\ runSweep_Ask => SweepInv'
<1> SUFFICES ASSUME SweepInv, runSweep_Ask PROVE SweepInv' OBVIOUS
<1>1. /\ SweepTypeOK /\ SweepRowTrue /\ sweep = "ask"
      /\ Len(plan) <= Batch /\ done + Len(plan) <= (block + 1) * Batch
    BY DEF SweepInv, runSweep_Ask
<1>2. UNCHANGED <<stored, updating, running, rowShown, stopAsked, pending, retry, blocks, done, whole>>
    BY DEF runSweep_Ask
<1>3. plan \in Seq(Record) /\ done \in Nat /\ block \in Nat BY <1>1 DEF SweepTypeOK
<1>4. Len(plan) \in Nat /\ (block + 1) * Batch \in Nat
  <2>1. Len(plan) \in Nat BY <1>3
  <2>2. (block + 1) * Batch \in Nat BY <1>3, OneBlockMore
  <2> QED BY <2>1, <2>2
<1>5. CASE plan # <<>> /\ sweep' = "answer" /\ asked' = asked \cup {Head(plan)} /\ UNCHANGED <<block, plan>>
  <2>1. Head(plan) \in Record BY <1>3, <1>5
  <2>2. SweepTypeOK' BY <1>1, <1>2, <1>5, <2>1 DEF SweepTypeOK, Distinct
  <2> QED BY <1>1, <1>2, <1>5, <2>2 DEF SweepInv, SweepRowTrue
<1>6. CASE plan' = <<>> /\ UNCHANGED asked /\ sweep' = "pause" /\ UNCHANGED block
  <2>1. SweepTypeOK' BY <1>1, <1>2, <1>6 DEF SweepTypeOK, Distinct
  <2>2. Len(plan) \in Nat /\ (block + 1) * Batch \in Nat BY <1>4
  <2>3. done <= (block + 1) * Batch
    <3> DEFINE y == (block + 1) * Batch
    <3>1. done + Len(plan) <= y /\ y \in Nat BY <1>1, <2>2
    <3> HIDE DEF y
    <3>2. done <= y BY <1>3, <2>2, <3>1
    <3> QED BY <3>2 DEF y
  <2> QED BY <1>1, <1>2, <1>6, <2>1, <2>3 DEF SweepInv, SweepRowTrue
<1>7. CASE plan' = <<>> /\ UNCHANGED asked /\ sweep' = "block" /\ block' = block + 1
  <2>1. SweepTypeOK' BY <1>1, <1>2, <1>3, <1>7 DEF SweepTypeOK, Distinct
  <2>2. Len(plan) \in Nat /\ (block + 1) * Batch \in Nat BY <1>4
  <2>3. done <= (block + 1) * Batch
    <3> DEFINE y == (block + 1) * Batch
    <3>1. done + Len(plan) <= y /\ y \in Nat BY <1>1, <2>2
    <3> HIDE DEF y
    <3>2. done <= y BY <1>3, <2>2, <3>1
    <3> QED BY <3>2 DEF y
  <2> QED BY <1>1, <1>2, <1>7, <2>1, <2>3 DEF SweepInv, SweepRowTrue
<1> QED BY <1>5, <1>6, <1>7 DEF runSweep_Ask

LEMMA Answers == SweepInv /\ runSweep_Answer => SweepInv'
<1> SUFFICES ASSUME SweepInv, runSweep_Answer PROVE SweepInv' OBVIOUS
<1>1. /\ SweepTypeOK /\ SweepRowTrue /\ sweep = "answer" /\ plan # <<>>
      /\ Len(plan) <= Batch /\ done + Len(plan) <= (block + 1) * Batch
    BY DEF SweepInv, runSweep_Answer
<1>2. UNCHANGED <<updating, asked, whole>> /\ done' = done + 1 BY DEF runSweep_Answer
<1>3. SweepSeqs(stored, pending) /\ plan \in Seq(Record) /\ done \in Nat /\ block \in Nat BY <1>1, SweepTypes
<1> DEFINE item == Head(plan)
<1>4. item \in Record /\ Tail(plan) \in Seq(Record) /\ Len(Tail(plan)) = Len(plan) - 1 /\ Len(plan) \in Nat
    BY <1>1, <1>3
<1>5. SweepSeqs(stored', pending')
  <2>1. \/ stored' = Append(Dropping(stored, item), item) /\ pending' = forgotten(item)
        \/ stored' = stored /\ pending' = remembered(item)
      BY DEF runSweep_Answer
  <2> HIDE DEF item
  <2>2. ASSUME NEW s \in Seq(Record), Distinct(s), item \notin Elements(s)
        PROVE  Append(s, item) \in Seq(Record) /\ Distinct(Append(s, item)) /\ Len(Append(s, item)) = Len(s) + 1
    <3>1. Append(s, item) \in Seq(Record) /\ Len(Append(s, item)) = Len(s) + 1 BY <1>4
    <3>2. \A i \in 1 .. Len(s) + 1 : Append(s, item)[i] = IF i <= Len(s) THEN s[i] ELSE item BY <1>4
    <3>3. \A i \in 1 .. Len(s) : s[i] # item BY <2>2 DEF Elements
    <3>4. \A i, j \in 1 .. Len(s) : s[i] = s[j] => i = j BY <2>2 DEF Distinct
    <3>5. Len(s) \in Nat OBVIOUS
    <3>6. DOMAIN Append(s, item) = 1 .. Len(s) + 1 BY <3>1
    <3>7. \A i, j \in 1 .. Len(s) + 1 : Append(s, item)[i] = Append(s, item)[j] => i = j
        BY <3>2, <3>3, <3>4, <3>5
    <3> QED BY <3>1, <3>6, <3>7 DEF Distinct
  <2>3. CASE stored' = Append(Dropping(stored, item), item) /\ pending' = forgotten(item)
    <3>1. Dropping(stored, item) \in Seq(Record) /\ Distinct(Dropping(stored, item))
          /\ item \notin Elements(Dropping(stored, item))
        BY <1>3, Dropped DEF SweepSeqs
    <3>2. pending' \in Seq(Record) /\ Distinct(pending') /\ Len(pending') <= Len(pending)
        BY <1>3, <2>3, Dropped DEF SweepSeqs, forgotten
    <3>3. Len(pending') <= MaxPending BY <1>3, <3>2, SweepAssumption DEF SweepSeqs
    <3> QED BY <2>2, <2>3, <3>1, <3>2, <3>3 DEF SweepSeqs
  <2>4. CASE stored' = stored /\ pending' = remembered(item)
    <3>1. CASE item \in Elements(pending) BY <1>3, <2>4, <3>1 DEF SweepSeqs, remembered
    <3>2. CASE item \notin Elements(pending)
      <4> DEFINE p == IF Len(pending) >= MaxPending THEN Tail(pending) ELSE pending
      <4>1. pending \in Seq(Record) /\ Distinct(pending) /\ Len(pending) <= MaxPending /\ Len(pending) \in Nat
          BY <1>3 DEF SweepSeqs
      <4>2. p \in Seq(Record) /\ Distinct(p) /\ item \notin Elements(p) /\ Len(p) + 1 <= MaxPending
        <5>1. CASE Len(pending) >= MaxPending
          <6>1. pending # <<>> /\ Len(pending) = MaxPending BY <4>1, <5>1, SweepAssumption
          <6>2. Tail(pending) \in Seq(Record) /\ Len(Tail(pending)) = Len(pending) - 1 BY <4>1, <6>1
          <6>3. \A i \in 1 .. Len(pending) - 1 : Tail(pending)[i] = pending[i + 1] BY <4>1, <6>1
          <6>4. DOMAIN Tail(pending) = 1 .. Len(pending) - 1 BY <6>2
          <6>5. \A i, j \in 1 .. Len(pending) : pending[i] = pending[j] => i = j BY <4>1 DEF Distinct
          <6>6. \A i \in 1 .. Len(pending) : pending[i] # item BY <3>2, <4>1 DEF Elements
          <6>7. Distinct(Tail(pending)) BY <4>1, <6>3, <6>4, <6>5 DEF Distinct
          <6>8. item \notin Elements(Tail(pending)) BY <4>1, <6>3, <6>4, <6>6 DEF Elements
          <6> QED BY <5>1, <6>1, <6>2, <6>7, <6>8, SweepAssumption
        <5>2. CASE ~(Len(pending) >= MaxPending) BY <3>2, <4>1, <5>2, SweepAssumption
        <5> QED BY <5>1, <5>2
      <4>3. pending' = Append(p, item) BY <2>4, <3>2 DEF remembered
      <4> HIDE DEF p
      <4> QED BY <1>3, <2>2, <2>4, <4>2, <4>3 DEF SweepSeqs
    <3> QED BY <3>1, <3>2
  <2> QED BY <2>1, <2>3, <2>4
<1>6. done' \in Nat BY <1>2, <1>3
<1>7. CASE close BY <1>2, <1>5, <1>6, <1>7, SweepEnds
<1>8. CASE /\ sweep' = "ask" /\ plan' = Tail(plan) /\ rowShown' = shown("running")
           /\ UNCHANGED <<running, stopAsked, retry, block, blocks>>
  <2>1. rowShown' \in {"taken", "running"} BY <1>8 DEF shown
  <2>2. SweepTypeOK' BY <1>1, <1>2, <1>4, <1>5, <1>6, <1>8, <2>1 DEF SweepTypeOK, SweepSeqs
  <2>3. SweepRowTrue' BY <1>1, <1>8, <2>1 DEF SweepRowTrue
  <2>4. Len(plan') <= Batch BY <1>1, <1>4, <1>8, SweepAssumption
  <2>5. done' + Len(plan') = done + Len(plan) BY <1>2, <1>3, <1>4, <1>8
  <2> QED BY <1>1, <1>8, <2>2, <2>3, <2>4, <2>5 DEF SweepInv
<1> QED BY <1>7, <1>8 DEF runSweep_Answer

LEMMA Pauses == SweepInv /\ runSweep_Pause => SweepInv'
<1> SUFFICES ASSUME SweepInv, runSweep_Pause PROVE SweepInv' OBVIOUS
<1>1. /\ SweepTypeOK /\ SweepRowTrue /\ sweep \in {"pause", "pausing"}
      /\ plan = <<>> /\ done <= (block + 1) * Batch
    BY DEF SweepInv, runSweep_Pause
<1>2. UNCHANGED <<stored, updating, pending, done, asked, whole>> BY DEF runSweep_Pause
<1>3. SweepSeqs(stored', pending') /\ done' \in Nat /\ block \in Nat BY <1>1, <1>2, SweepTypes
<1>4. CASE close BY <1>2, <1>3, <1>4, SweepEnds
<1>5. CASE /\ sweep' = "pausing" /\ rowShown' = shown("paused")
           /\ UNCHANGED <<running, stopAsked, plan, retry, block, blocks>>
  <2>1. rowShown' \in {"taken", "paused"} BY <1>5 DEF shown
  <2>2. SweepTypeOK' BY <1>1, <1>2, <1>5, <2>1 DEF SweepTypeOK, Distinct
  <2>3. SweepRowTrue' BY <1>1, <1>5, <2>1 DEF SweepRowTrue
  <2> QED BY <1>1, <1>2, <1>5, <2>2, <2>3 DEF SweepInv
<1>6. CASE /\ sweep' = "block" /\ block' = block + 1 /\ rowShown' = shown("running")
           /\ UNCHANGED <<running, stopAsked, plan, retry, blocks>>
  <2>1. rowShown' \in {"taken", "running"} BY <1>6 DEF shown
  <2>2. SweepTypeOK' BY <1>1, <1>2, <1>3, <1>6, <2>1 DEF SweepTypeOK, Distinct
  <2>3. SweepRowTrue' BY <1>1, <1>6, <2>1 DEF SweepRowTrue
  <2> QED BY <1>1, <1>2, <1>6, <2>2, <2>3 DEF SweepInv
<1> QED BY <1>4, <1>5, <1>6 DEF runSweep_Pause

LEMMA SweepMet ==
    ASSUME SweepInv, requestStop \/ otherBegins \/ switchOff \/ \E r \in Record : eraseRecord(r) \/ learnRecord(r)
    PROVE  SweepInv'
<1>1. SweepTypeOK /\ SweepRowTrue BY DEF SweepInv
<1>2. SweepSeqs(stored, pending) BY <1>1, SweepTypes
<1>3. /\ UNCHANGED <<sweep, running, pending, retry, plan, block, blocks, done, asked>>
      /\ \/ rowShown' = rowShown
         \/ rowShown = "paused" /\ rowShown' = "taken"
      /\ whole' \subseteq whole
    BY DEF requestStop, otherBegins, switchOff, eraseRecord, learnRecord
<1>4. SweepSeqs(stored', pending')
  <2>1. CASE stored' = stored BY <1>2, <1>3, <2>1
  <2>2. ASSUME NEW r \in Record, eraseRecord(r) PROVE SweepSeqs(stored', pending')
      BY <1>2, <1>3, <2>2, Dropped DEF SweepSeqs, eraseRecord
  <2>3. ASSUME NEW r \in Record, learnRecord(r) PROVE SweepSeqs(stored', pending')
    <3>1. stored' = Append(stored, r) /\ r \notin Elements(stored) BY <2>3 DEF learnRecord
    <3>2. stored \in Seq(Record) /\ Distinct(stored) BY <1>2 DEF SweepSeqs
    <3>3. stored' \in Seq(Record) /\ Len(stored') = Len(stored) + 1 BY <3>1, <3>2
    <3>4. \A i \in 1 .. Len(stored) + 1 : stored'[i] = IF i <= Len(stored) THEN stored[i] ELSE r BY <3>1, <3>2
    <3>5. \A i \in 1 .. Len(stored) : stored[i] # r BY <3>1, <3>2 DEF Elements
    <3>6. \A i, j \in 1 .. Len(stored) : stored[i] = stored[j] => i = j BY <3>2 DEF Distinct
    <3>7. Len(stored) \in Nat BY <3>2
    <3>8. DOMAIN stored' = 1 .. Len(stored) + 1 BY <3>3
    <3>9. Distinct(stored') BY <3>4, <3>5, <3>6, <3>7, <3>8 DEF Distinct
    <3> QED BY <1>2, <1>3, <3>3, <3>9 DEF SweepSeqs
  <2> QED BY <2>1, <2>2, <2>3 DEF requestStop, otherBegins, switchOff
<1>5. stopAsked' \in BOOLEAN /\ updating' \in BOOLEAN
    BY <1>1 DEF SweepTypeOK, requestStop, otherBegins, switchOff, eraseRecord, learnRecord
<1>6. SweepTypeOK' BY <1>1, <1>3, <1>4, <1>5 DEF SweepTypeOK, SweepSeqs
<1>7. SweepRowTrue' BY <1>1, <1>3 DEF SweepRowTrue
<1> QED BY <1>3, <1>6, <1>7 DEF SweepInv

LEMMA SweepInductive == SweepInv /\ [SweepNext]_sweepVars => SweepInv'
<1> SUFFICES ASSUME SweepInv, [SweepNext]_sweepVars PROVE SweepInv' OBVIOUS
<1>1. CASE UNCHANGED sweepVars
  <2>1. SweepTypeOK' BY <1>1 DEF SweepInv, SweepTypeOK, sweepVars, Distinct
  <2> QED BY <1>1, <2>1 DEF SweepInv, SweepRowTrue, sweepVars
<1>2. CASE SweepNext
    BY <1>2, SweepBegins, BlockBegins, Asks, Answers, Pauses, SweepMet DEF SweepNext, sweepTask
<1> QED BY <1>1, <1>2

LEMMA SweepHolds == SweepInv => SweepTypeOK /\ SweepIsBounded /\ SweepRowTrue
<1> SUFFICES ASSUME SweepInv PROVE SweepIsBounded BY DEF SweepInv
<1>1. SweepTypeOK BY DEF SweepInv
<1>2. block \in Nat /\ done \in Nat /\ Batch \in Nat /\ Len(<<>>) = 0 BY <1>1, SweepAssumption DEF SweepTypeOK
<1>3. (block + 1) * Batch = block * Batch + Batch /\ block * Batch \in Nat BY <1>2, OneBlockMore
<1>4. ASSUME sweep = "block" PROVE Len(plan) <= Batch /\ done + Len(plan) <= (block + 1) * Batch
  <2> DEFINE x == block * Batch
             y == (block + 1) * Batch
  <2>1. plan = <<>> /\ done <= x /\ y = x + Batch /\ x \in Nat BY <1>3, <1>4 DEF SweepInv
  <2> HIDE DEF x, y
  <2>2. done + 0 <= y /\ 0 <= Batch BY <1>2, <2>1
  <2> QED BY <1>2, <2>1, <2>2 DEF y
<1>5. ASSUME sweep \in {"pause", "pausing"} PROVE Len(plan) <= Batch /\ done + Len(plan) <= (block + 1) * Batch
  <2>1. plan = <<>> /\ done <= (block + 1) * Batch BY <1>5 DEF SweepInv
  <2>2. done + 0 = done /\ 0 <= Batch BY <1>2
  <2> QED BY <1>2, <2>1, <2>2
<1>6. ASSUME sweep \in {"ask", "answer"} PROVE Len(plan) <= Batch /\ done + Len(plan) <= (block + 1) * Batch
    BY <1>6 DEF SweepInv
<1> QED BY <1>1, <1>4, <1>5, <1>6 DEF SweepIsBounded, SweepTypeOK

\* In whatever rhythm the operator switches a timer, changes its period, saves by
\* hand, stops a sweep or deletes records under it: a timer that is on has its one
\* task but for the moment of its leaving, and a sweep asks upstream for no more
\* than a batch a block and shows its row as long as it lasts.
THEOREM TimersStaySafe == Spec => []TimersSafe
<1>1. Init => PeriodicInv /\ SweepInv BY PeriodicStart, SweepStart DEF Init
<1>2. PeriodicInv /\ [Next]_vars => PeriodicInv' BY OneAtATime, PeriodicInductive
<1>3. SweepInv /\ [Next]_vars => SweepInv' BY OneAtATime, SweepInductive
<1>4. PeriodicInv /\ SweepInv => TimersSafe
    BY SweepHolds DEF PeriodicInv, TaskKnown, OneTimerTask, TimerRuns, TimersSafe
<1> QED BY <1>1, <1>2, <1>3, <1>4, PTL DEF Spec

-----------------------------------------------------------------------------
(***************************************************************************)
(* The cache table.  A chain is described without following it: every node *)
(* belongs to one list, a bucket or the free list, and has a rank, the     *)
(* number of nodes behind it.                                              *)
(***************************************************************************)
Lists == Bucket \cup {Nil}
Heads == [l \in Lists |-> IF l = Nil THEN freeHead ELSE buckets[l]]

\* `own` and `rank` describe the lists that `ns` and `hs` make.
Described(ns, hs, own, rank) ==
    /\ own \in [Node -> Lists] /\ rank \in [Node -> Nat]
    /\ \A n \in Node :
          \/ ns[n].next = Nil /\ rank[n] = 0
          \/ /\ ns[n].next \in Node /\ own[ns[n].next] = own[n]
             /\ rank[n] = rank[ns[n].next] + 1
    /\ \A l \in Lists :
          \/ hs[l] = Nil /\ \A n \in Node : own[n] # l
          \/ /\ hs[l] \in Node /\ own[hs[l]] = l
             /\ \A n \in Node : own[n] = l => rank[n] <= rank[hs[l]]
    /\ \A m, n \in Node : own[m] = own[n] /\ rank[m] = rank[n] => m = n

LEMMA LeastNode ==
    ASSUME NEW T, T \subseteq Nat, T # {}
    PROVE  \E x \in T : \A y \in T : x <= y
<1> DEFINE R == OpToRel(<, Nat)
<1>1. IsWellFoundedOn(R, Nat) BY NatLessThanWellFounded
<1>2. \A i, j \in Nat : j < i => <<j, i>> \in R BY DEF OpToRel
<1> HIDE DEF R
<1>3. PICK x \in T : \A y \in T : ~(<<y, x>> \in R) BY <1>1, WFMin
<1>4. ASSUME NEW y \in T PROVE x <= y
  <2>1. x \in Nat /\ y \in Nat OBVIOUS
  <2>2. ~(y < x) BY <1>2, <1>3, <2>1
  <2> QED BY <2>1, <2>2
<1> QED BY <1>4

LEMMA NodesAre == Nil \notin Node /\ Nil \notin Bucket /\ Node \subseteq Nat /\ Bucket \subseteq Nat
                  /\ IsFiniteSet(Node) /\ Cardinality(Node) = NodeCount
<1>1. NodeCount \in Nat /\ NodeCount > 0 /\ NumBuckets \in Nat BY CacheTableAssumption
<1>2. IsFiniteSet(Node) /\ Cardinality(Node) = NodeCount BY <1>1, FS_Interval DEF Node
<1> QED BY <1>1, <1>2 DEF Node, Bucket, Nil

\* Below a rank of a list there is every smaller one.
LEMMA RanksAreDense ==
    ASSUME NEW ns, NEW hs, NEW own, NEW rank, Described(ns, hs, own, rank),
           NEW n \in Node, NEW r \in 0 .. rank[n]
    PROVE  \E m \in Node : own[m] = own[n] /\ rank[m] = r
<1>1. rank[n] \in Nat /\ \A m \in Node : rank[m] \in Nat BY DEF Described
<1> DEFINE T == {rank[m] : m \in {m \in Node : own[m] = own[n] /\ rank[m] >= r}}
<1>2. rank[n] \in T BY <1>1
<1>3. T \subseteq Nat BY <1>1
<1>4. PICK x \in T : \A y \in T : x <= y BY <1>2, <1>3, LeastNode
<1>5. PICK m \in Node : own[m] = own[n] /\ rank[m] >= r /\ rank[m] = x BY <1>4
<1>6. CASE rank[m] = r BY <1>5, <1>6
<1>7. CASE rank[m] # r
  <2>1. rank[m] > r /\ rank[m] > 0 BY <1>1, <1>5, <1>7
  <2>2. ns[m].next \in Node /\ own[ns[m].next] = own[n] /\ rank[m] = rank[ns[m].next] + 1
      BY <1>5, <2>1 DEF Described
  <2>3. rank[ns[m].next] >= r BY <1>1, <2>1, <2>2
  <2>4. rank[ns[m].next] \in T BY <2>2, <2>3
  <2> QED BY <1>1, <1>4, <1>5, <2>2, <2>4
<1> QED BY <1>6, <1>7

\* So a list is no longer than the pool.
LEMMA RanksAreBounded ==
    ASSUME NEW ns, NEW hs, NEW own, NEW rank, Described(ns, hs, own, rank), NEW n \in Node
    PROVE  rank[n] < NodeCount
<1>1. rank[n] \in Nat BY DEF Described
<1> DEFINE Ranks == 0 .. rank[n]
           f == [r \in Ranks |-> CHOOSE m \in Node : own[m] = own[n] /\ rank[m] = r]
<1>2. \A r \in Ranks : f[r] \in Node /\ rank[f[r]] = r BY RanksAreDense
<1>3. f \in [Ranks -> Node] BY <1>2
<1>4. IsFiniteSet(Ranks) /\ Cardinality(Ranks) = rank[n] + 1 BY <1>1, FS_Interval
<1>5. ~ (Cardinality(Node) < Cardinality(Ranks))
  <2> SUFFICES ASSUME Cardinality(Node) < Cardinality(Ranks) PROVE FALSE OBVIOUS
  <2> HIDE DEF Ranks, f
  <2>1. \E x, y \in Ranks : x # y /\ f[x] = f[y] BY <1>3, <1>4, NodesAre, FS_PigeonHole
  <2> QED BY <1>2, <2>1
<1> QED BY <1>1, <1>4, <1>5, NodesAre, CacheTableAssumption

\* What a walk of a list meets, step by step.
Walked(hs, own, rank, l) ==
    [s \in 0 .. NodeCount |-> IF hs[l] # Nil /\ s <= rank[hs[l]]
                              THEN CHOOSE m \in Node : own[m] = l /\ rank[m] = rank[hs[l]] - s
                              ELSE Nil]

LEMMA WalkedIsThere ==
    ASSUME NEW ns, NEW hs, NEW own, NEW rank, Described(ns, hs, own, rank), NEW l \in Lists,
           hs[l] # Nil, NEW s \in 0 .. rank[hs[l]], s \in 0 .. NodeCount
    PROVE  LET w == Walked(hs, own, rank, l)
           IN  w[s] \in Node /\ own[w[s]] = l /\ rank[w[s]] = rank[hs[l]] - s
<1>1. hs[l] \in Node /\ own[hs[l]] = l /\ rank[hs[l]] \in Nat BY DEF Described
<1>2. rank[hs[l]] - s \in 0 .. rank[hs[l]] BY <1>1
<1>3. \E m \in Node : own[m] = l /\ rank[m] = rank[hs[l]] - s BY <1>1, <1>2, RanksAreDense
<1>4. s <= rank[hs[l]] BY <1>1
<1>5. Walked(hs, own, rank, l)[s] = CHOOSE m \in Node : own[m] = l /\ rank[m] = rank[hs[l]] - s
    BY <1>4 DEF Walked
<1> QED BY <1>3, <1>5

\* One step of a walk, as After takes it.
Onward(ns, head, go) ==
    [steps \in 0 .. NodeCount |->
        IF steps = 0 THEN head
        ELSE LET at == go[steps - 1] IN IF at = Nil THEN Nil ELSE ns[at].next]

LEMMA WalkedGoesOn ==
    ASSUME NEW ns, NEW hs, NEW own, NEW rank, Described(ns, hs, own, rank), NEW l \in Lists
    PROVE  Walked(hs, own, rank, l) = Onward(ns, hs[l], Walked(hs, own, rank, l))
<1> DEFINE w == Walked(hs, own, rank, l)
           o == Onward(ns, hs[l], w)
<1>0. NodeCount \in Nat BY CacheTableAssumption
<1>1. DOMAIN w = 0 .. NodeCount /\ DOMAIN o = 0 .. NodeCount BY DEF Walked, Onward
<1>2. ASSUME NEW s \in 0 .. NodeCount PROVE w[s] = o[s]
  <2>1. CASE hs[l] = Nil
    <3>1. \A q \in 0 .. NodeCount : w[q] = Nil BY <2>1 DEF Walked
    <3>2. s # 0 => s - 1 \in 0 .. NodeCount BY <1>0
    <3> QED BY <2>1, <3>1, <3>2 DEF Onward
  <2>2. CASE hs[l] # Nil
    <3>1. hs[l] \in Node /\ own[hs[l]] = l /\ rank[hs[l]] \in Nat BY <2>2 DEF Described
    <3> DEFINE r == rank[hs[l]]
    <3>2. CASE s = 0
      <4>1. w[0] \in Node /\ own[w[0]] = l /\ rank[w[0]] = r - 0 BY <1>0, <2>2, <3>1, WalkedIsThere
      <4>2. w[0] = hs[l] BY <3>1, <4>1 DEF Described
      <4> QED BY <3>2, <4>2 DEF Onward
    <3>3. CASE s # 0
      <4>1. s - 1 \in 0 .. NodeCount /\ s \in Nat BY <1>0, <3>3
      <4>2. o[s] = IF w[s - 1] = Nil THEN Nil ELSE ns[w[s - 1]].next BY <3>3, <4>1 DEF Onward
      <4>3. CASE s - 1 > r
        <5>1. ~ (s - 1 <= r) /\ ~ (s <= r) BY <3>1, <4>1, <4>3
        <5>2. w[s - 1] = Nil /\ w[s] = Nil BY <4>1, <5>1 DEF Walked
        <5> QED BY <4>2, <5>2
      <4>4. CASE ~ (s - 1 > r)
        <5>1. s - 1 \in 0 .. r BY <3>1, <4>1, <4>4
        <5>2. w[s - 1] \in Node /\ own[w[s - 1]] = l /\ rank[w[s - 1]] = r - (s - 1)
            BY <2>2, <4>1, <5>1, WalkedIsThere
        <5>3. o[s] = ns[w[s - 1]].next BY <4>2, <5>2, NodesAre
        <5>4. CASE s = r + 1
          <6>1. ~ (s <= r) BY <3>1, <4>1, <5>4
          <6>2. w[s] = Nil BY <6>1 DEF Walked
          <6>3. rank[w[s - 1]] = 0 BY <3>1, <5>2, <5>4
          <6>4. \A m \in Node : rank[m] \in Nat BY DEF Described
          <6>5. ns[w[s - 1]].next = Nil BY <5>2, <6>3, <6>4 DEF Described
          <6> QED BY <5>3, <6>2, <6>5
        <5>5. CASE s # r + 1
          <6>1. s \in 0 .. r BY <3>1, <4>1, <5>1, <5>5
          <6>2. w[s] \in Node /\ own[w[s]] = l /\ rank[w[s]] = r - s BY <2>2, <6>1, WalkedIsThere
          <6>3. rank[w[s - 1]] # 0 /\ rank[w[s - 1]] = (r - s) + 1 BY <3>1, <4>1, <5>2, <6>1
          <6>4. ns[w[s - 1]].next \in Node /\ own[ns[w[s - 1]].next] = l
                /\ rank[w[s - 1]] = rank[ns[w[s - 1]].next] + 1
              BY <5>2, <6>3 DEF Described
          <6>5. rank[ns[w[s - 1]].next] \in Nat BY <6>4 DEF Described
          <6>6. rank[ns[w[s - 1]].next] = r - s BY <3>1, <4>1, <6>3, <6>4, <6>5
          <6>7. w[s] = ns[w[s - 1]].next BY <6>2, <6>4, <6>6 DEF Described
          <6> QED BY <5>3, <6>7
        <5> QED BY <5>4, <5>5
      <4> QED BY <4>3, <4>4
    <3> QED BY <3>2, <3>3
  <2> QED BY <2>1, <2>2
<1>3. o = [s \in 0 .. NodeCount |-> o[s]] /\ w = [s \in 0 .. NodeCount |-> w[s]] BY <1>1 DEF Walked, Onward
<1> HIDE DEF w, o
<1>4. w = o BY <1>2, <1>3
<1> QED BY <1>4 DEF w, o

LEMMA AfterWalks == ASSUME NEW ns, NEW head PROVE After(ns, head) = CHOOSE go : go = Onward(ns, head, go)
BY DEF After, Onward

LEMMA OneWalkOn ==
    ASSUME NEW ns, NEW head, NEW f, NEW g, f = Onward(ns, head, f), g = Onward(ns, head, g)
    PROVE  f = g
<1>0. NodeCount \in Nat BY CacheTableAssumption
<1>1. DOMAIN f = 0 .. NodeCount /\ DOMAIN g = 0 .. NodeCount BY DEF Onward
<1> DEFINE T == {s \in 0 .. NodeCount : f[s] # g[s]}
<1>2. T = {}
  <2> SUFFICES ASSUME T # {} PROVE FALSE OBVIOUS
  <2>1. T \subseteq Nat BY <1>0
  <2>2. PICK x \in T : \A y \in T : x <= y BY <2>1, LeastNode
  <2>3. CASE x = 0
    <3>1. f[0] = head /\ g[0] = head BY <1>0 DEF Onward
    <3> QED BY <2>2, <2>3, <3>1
  <2>4. CASE x # 0
    <3>1. x \in Nat /\ x - 1 \in 0 .. NodeCount /\ x \in 0 .. NodeCount /\ ~ (x <= x - 1) BY <1>0, <2>2, <2>4
    <3>2. f[x - 1] = g[x - 1] BY <2>2, <3>1
    <3>3. f[x] = IF f[x - 1] = Nil THEN Nil ELSE ns[f[x - 1]].next BY <2>4, <3>1 DEF Onward
    <3>4. g[x] = IF g[x - 1] = Nil THEN Nil ELSE ns[g[x - 1]].next BY <2>4, <3>1 DEF Onward
    <3> QED BY <2>2, <3>2, <3>3, <3>4
  <2> QED BY <2>3, <2>4
<1>3. f = [s \in 0 .. NodeCount |-> f[s]] /\ g = [s \in 0 .. NodeCount |-> g[s]] BY DEF Onward
<1>4. \A s \in 0 .. NodeCount : f[s] = g[s] BY <1>2
<1> QED BY <1>3, <1>4

\* A walk meets the nodes of its list, and comes to its end.
LEMMA ListsAreWalked ==
    ASSUME NEW ns, NEW hs, NEW own, NEW rank, Described(ns, hs, own, rank), NEW l \in Lists
    PROVE  Ends(ns, hs[l]) /\ Listed(ns, hs[l]) = {n \in Node : own[n] = l}
<1> DEFINE w == Walked(hs, own, rank, l)
           a == After(ns, hs[l])
<1>0. NodeCount \in Nat BY CacheTableAssumption
<1>1. w = Onward(ns, hs[l], w) BY WalkedGoesOn
<1>2. a = CHOOSE go : go = Onward(ns, hs[l], go) BY AfterWalks
<1>3. a = Onward(ns, hs[l], a)
  <2> HIDE DEF w, a
  <2> QED BY <1>1, <1>2
<1>4. a = w
  <2> HIDE DEF w, a
  <2> QED BY <1>1, <1>3, OneWalkOn
<1>5. w[NodeCount] = Nil
  <2>1. hs[l] # Nil => hs[l] \in Node /\ rank[hs[l]] \in Nat BY DEF Described
  <2>4. hs[l] # Nil => rank[hs[l]] < NodeCount BY <2>1, RanksAreBounded
  <2>2. ~ (hs[l] # Nil /\ NodeCount <= rank[hs[l]]) BY <1>0, <2>1, <2>4
  <2>3. NodeCount \in 0 .. NodeCount BY <1>0
  <2> QED BY <2>2, <2>3 DEF Walked
<1>6. ASSUME NEW s \in 0 .. NodeCount, w[s] # Nil PROVE w[s] \in Node /\ own[w[s]] = l
  <2>1. hs[l] # Nil /\ s <= rank[hs[l]] BY <1>6 DEF Walked
  <2>2. rank[hs[l]] \in Nat BY <2>1 DEF Described
  <2>3. s \in 0 .. rank[hs[l]] BY <1>0, <2>1, <2>2
  <2> QED BY <2>1, <2>3, WalkedIsThere
<1>7. ASSUME NEW n \in Node, own[n] = l PROVE \E s \in 0 .. NodeCount : w[s] = n
  <2>1. hs[l] \in Node /\ rank[n] <= rank[hs[l]] /\ rank[n] \in Nat /\ rank[hs[l]] \in Nat
      BY <1>7 DEF Described
  <2>2. rank[hs[l]] < NodeCount BY <2>1, RanksAreBounded
  <2> DEFINE s == rank[hs[l]] - rank[n]
  <2>3. s \in 0 .. rank[hs[l]] /\ s \in 0 .. NodeCount /\ rank[hs[l]] - s = rank[n] BY <1>0, <2>1, <2>2
  <2>4. hs[l] # Nil BY <2>1, NodesAre
  <2> HIDE DEF s
  <2>5. w[s] \in Node /\ own[w[s]] = l /\ rank[w[s]] = rank[hs[l]] - s BY <2>3, <2>4, WalkedIsThere
  <2>6. w[s] = n BY <1>7, <2>3, <2>5 DEF Described
  <2> QED BY <2>3, <2>6
<1>8. Listed(ns, hs[l]) = {w[s] : s \in 0 .. NodeCount} \ {Nil}
  <2> HIDE DEF w
  <2> QED BY <1>4 DEF Listed
<1>9. Ends(ns, hs[l])
  <2> HIDE DEF w
  <2> QED BY <1>4, <1>5 DEF Ends
<1> HIDE DEF w, a
<1>10. \A n \in Listed(ns, hs[l]) : n \in Node /\ own[n] = l BY <1>6, <1>8
<1>11. \A n \in Node : n # Nil BY NodesAre
<1>12. \A n \in Node : own[n] = l => n \in Listed(ns, hs[l]) BY <1>7, <1>8, <1>11
<1> QED BY <1>9, <1>10, <1>12

-----------------------------------------------------------------------------
HeadsOf(bs, fh) == [l \in Lists |-> IF l = Nil THEN fh ELSE bs[l]]

\* Only the links count.
LEMMA SameLinks ==
    ASSUME NEW ns, NEW ms, NEW hs, NEW own, NEW rank, Described(ns, hs, own, rank),
           \A n \in Node : ms[n].next = ns[n].next
    PROVE  Described(ms, hs, own, rank)
BY DEF Described

\* All nodes are free.
LEMMA AllFree ==
    Described(freeNodes, HeadsOf(emptyBuckets, NodeCount - 1), [n \in Node |-> Nil], [n \in Node |-> n])
<1> DEFINE own == [n \in Node |-> Nil]
           rank == [n \in Node |-> n]
           hs == HeadsOf(emptyBuckets, NodeCount - 1)
<1>1. NodeCount \in Nat /\ NodeCount > 0 BY CacheTableAssumption
<1>2. own \in [Node -> Lists] /\ rank \in [Node -> Nat] BY NodesAre DEF Lists
<1>3. \A n \in Node : freeNodes[n].next = n - 1 BY DEF freeNodes, Blank
<1>4. \A n \in Node : \/ freeNodes[n].next = Nil /\ rank[n] = 0
                      \/ /\ freeNodes[n].next \in Node /\ own[freeNodes[n].next] = own[n]
                         /\ rank[n] = rank[freeNodes[n].next] + 1
  <2> SUFFICES ASSUME NEW n \in Node
               PROVE  \/ freeNodes[n].next = Nil /\ rank[n] = 0
                      \/ /\ freeNodes[n].next \in Node /\ own[freeNodes[n].next] = own[n]
                         /\ rank[n] = rank[freeNodes[n].next] + 1
      OBVIOUS
  <2>1. n = 0 \/ n - 1 \in Node BY <1>1 DEF Node
  <2>2. n \in Int BY <1>1 DEF Node
  <2> QED BY <1>3, <2>1, <2>2 DEF Nil
<1>5. NodeCount - 1 \in Node /\ \A n \in Node : n <= NodeCount - 1 BY <1>1 DEF Node
<1>6. hs[Nil] = NodeCount - 1 /\ \A b \in Bucket : hs[b] = Nil
    BY NodesAre DEF HeadsOf, Lists, emptyBuckets
<1>7. \A b \in Bucket : b # Nil BY NodesAre
<1> HIDE DEF hs
<1>8. \A l \in Lists : \/ hs[l] = Nil /\ \A n \in Node : own[n] # l
                       \/ /\ hs[l] \in Node /\ own[hs[l]] = l
                          /\ \A n \in Node : own[n] = l => rank[n] <= rank[hs[l]]
    BY <1>5, <1>6, <1>7 DEF Lists
<1> QED BY <1>2, <1>4, <1>8 DEF hs, Described

\* The top of the free list becomes the head of a chain.
TakesTop(ns, ms, bs, fh, b) ==
    b \in Bucket /\ ms[fh].next = bs[b] /\ \A p \in Node : p # fh => ms[p].next = ns[p].next

LEMMA Taken ==
    ASSUME NEW ns, NEW ms, NEW bs \in [Bucket -> Node \cup {Nil}], NEW fh, NEW own, NEW rank,
           Described(ns, HeadsOf(bs, fh), own, rank), fh # Nil, NEW b, TakesTop(ns, ms, bs, fh, b)
    PROVE  /\ fh \in Node /\ own[fh] = Nil
           /\ \E rank2 : Described(ms, HeadsOf([bs EXCEPT ![b] = fh], ns[fh].next), [own EXCEPT ![fh] = b], rank2)
<1> DEFINE hs == HeadsOf(bs, fh)
           gs == HeadsOf([bs EXCEPT ![b] = fh], ns[fh].next)
           new == IF bs[b] = Nil THEN 0 ELSE rank[bs[b]] + 1
           own2 == [own EXCEPT ![fh] = b]
           rank2 == [rank EXCEPT ![fh] = new]
<1>0. b \in Bucket /\ ms[fh].next = bs[b] /\ \A p \in Node : p # fh => ms[p].next = ns[p].next
    BY DEF TakesTop
<1>1. own \in [Node -> Lists] /\ rank \in [Node -> Nat] BY DEF Described
<1>2. \A l \in Lists : \/ hs[l] = Nil /\ \A n \in Node : own[n] # l
                       \/ /\ hs[l] \in Node /\ own[hs[l]] = l
                          /\ \A n \in Node : own[n] = l => rank[n] <= rank[hs[l]]
    BY DEF Described
<1>3. \A m, n \in Node : own[m] = own[n] /\ rank[m] = rank[n] => m = n BY DEF Described
<1>4. \A n \in Node : \/ ns[n].next = Nil /\ rank[n] = 0
                      \/ /\ ns[n].next \in Node /\ own[ns[n].next] = own[n]
                         /\ rank[n] = rank[ns[n].next] + 1
    BY DEF Described
<1>5. Nil \in Lists /\ b \in Lists /\ b # Nil /\ Bucket \subseteq Lists BY <1>0, NodesAre DEF Lists
<1>6. hs[Nil] = fh /\ \A c \in Bucket : hs[c] = bs[c] BY <1>5, NodesAre DEF HeadsOf
<1>7. gs[Nil] = ns[fh].next /\ gs[b] = fh /\ \A c \in Bucket : c # b => gs[c] = bs[c]
    BY <1>0, <1>5, NodesAre DEF HeadsOf
<1> HIDE DEF hs, gs
<1>8. fh \in Node /\ own[fh] = Nil /\ \A n \in Node : own[n] = Nil => rank[n] <= rank[fh]
    BY <1>2, <1>5, <1>6
<1>9. bs[b] # Nil => bs[b] \in Node /\ own[bs[b]] = b /\ bs[b] # fh /\ \A n \in Node : own[n] = b => rank[n] <= rank[bs[b]]
    BY <1>0, <1>2, <1>5, <1>6, <1>8
<1>10. new \in Nat BY <1>1, <1>9
<1>11. /\ own2 \in [Node -> Lists] /\ own2[fh] = b /\ \A n \in Node : n # fh => own2[n] = own[n]
       /\ rank2 \in [Node -> Nat] /\ rank2[fh] = new /\ \A n \in Node : n # fh => rank2[n] = rank[n]
    BY <1>1, <1>5, <1>8, <1>10
<1>12. bs[b] = Nil => new = 0 /\ \A n \in Node : own[n] # b BY <1>0, <1>2, <1>5, <1>6, NodesAre
<1>13. bs[b] # Nil => new = rank[bs[b]] + 1 OBVIOUS
<1> HIDE DEF own2, rank2, new
<1>14. \A n \in Node : ns[n].next # fh
  <2> SUFFICES ASSUME NEW n \in Node, ns[n].next = fh PROVE FALSE OBVIOUS
  <2>1. own[n] = Nil /\ rank[n] = rank[fh] + 1 BY <1>4, <1>8, NodesAre
  <2> QED BY <1>1, <1>8, <2>1
<1>15. \A n \in Node : \/ ms[n].next = Nil /\ rank2[n] = 0
                       \/ /\ ms[n].next \in Node /\ own2[ms[n].next] = own2[n]
                          /\ rank2[n] = rank2[ms[n].next] + 1
  <2> SUFFICES ASSUME NEW n \in Node
               PROVE  \/ ms[n].next = Nil /\ rank2[n] = 0
                      \/ /\ ms[n].next \in Node /\ own2[ms[n].next] = own2[n]
                         /\ rank2[n] = rank2[ms[n].next] + 1
      OBVIOUS
  <2>1. CASE n = fh
    <3>1. CASE bs[b] = Nil BY <1>0, <1>11, <1>12, <2>1, <3>1
    <3>2. CASE bs[b] # Nil BY <1>0, <1>9, <1>11, <1>13, <2>1, <3>2
    <3> QED BY <3>1, <3>2
  <2>2. CASE n # fh
    <3>1. ms[n].next = ns[n].next /\ ns[n].next # fh BY <1>0, <1>14, <2>2
    <3> QED BY <1>4, <1>11, <2>2, <3>1
  <2> QED BY <2>1, <2>2
<1>16. \A l \in Lists : \/ gs[l] = Nil /\ \A n \in Node : own2[n] # l
                        \/ /\ gs[l] \in Node /\ own2[gs[l]] = l
                           /\ \A n \in Node : own2[n] = l => rank2[n] <= rank2[gs[l]]
  <2> SUFFICES ASSUME NEW l \in Lists
               PROVE  \/ gs[l] = Nil /\ \A n \in Node : own2[n] # l
                      \/ /\ gs[l] \in Node /\ own2[gs[l]] = l
                         /\ \A n \in Node : own2[n] = l => rank2[n] <= rank2[gs[l]]
      OBVIOUS
  <2>1. CASE l = b
    <3>1. \A n \in Node : own2[n] = b => rank2[n] <= new
      <4> SUFFICES ASSUME NEW n \in Node, own2[n] = b PROVE rank2[n] <= new OBVIOUS
      <4>1. CASE n = fh BY <1>10, <1>11, <4>1
      <4>2. CASE n # fh
        <5>1. own[n] = b /\ rank2[n] = rank[n] /\ rank[n] \in Nat BY <1>1, <1>11, <4>2
        <5>2. bs[b] # Nil BY <1>12, <5>1
        <5>3. rank[bs[b]] \in Nat BY <1>1, <1>9, <5>2
        <5> QED BY <1>9, <1>13, <5>1, <5>2, <5>3
      <4> QED BY <4>1, <4>2
    <3> QED BY <1>7, <1>8, <1>11, <2>1, <3>1
  <2>2. CASE l = Nil
    <3>1. \A n \in Node : own2[n] = Nil => own[n] = Nil /\ n # fh /\ rank[n] < rank[fh] /\ rank2[n] = rank[n]
      <4> SUFFICES ASSUME NEW n \in Node, own2[n] = Nil
                   PROVE  own[n] = Nil /\ n # fh /\ rank[n] < rank[fh] /\ rank2[n] = rank[n]
          OBVIOUS
      <4>1. n # fh /\ own[n] = Nil /\ rank2[n] = rank[n] BY <1>5, <1>11
      <4>2. rank[n] <= rank[fh] /\ rank[n] # rank[fh] /\ rank[n] \in Nat /\ rank[fh] \in Nat BY <1>1, <1>3, <1>8, <4>1
      <4> QED BY <4>1, <4>2
    <3>2. CASE ns[fh].next = Nil
      <4>1. rank[fh] = 0 BY <1>4, <1>8, <3>2, NodesAre
      <4>2. \A n \in Node : ~ (rank[n] < 0) BY <1>1
      <4> QED BY <1>7, <2>2, <3>1, <3>2, <4>1, <4>2
    <3>3. CASE ns[fh].next # Nil
      <4>1. ns[fh].next \in Node /\ own[ns[fh].next] = Nil /\ rank[fh] = rank[ns[fh].next] + 1 BY <1>4, <1>8, <3>3
      <4>2. ns[fh].next # fh BY <1>8, <1>14
      <4>3. own2[ns[fh].next] = Nil /\ rank2[ns[fh].next] = rank[ns[fh].next] BY <1>11, <4>1, <4>2
      <4>4. \A n \in Node : rank[n] < rank[fh] => rank[n] <= rank[ns[fh].next] BY <1>1, <4>1
      <4> QED BY <1>7, <2>2, <3>1, <4>1, <4>3, <4>4
    <3> QED BY <3>2, <3>3
  <2>3. CASE l # b /\ l # Nil
    <3>1. l \in Bucket /\ gs[l] = hs[l] BY <1>6, <1>7, <2>3 DEF Lists
    <3>2. \A n \in Node : own2[n] = l <=> own[n] = l BY <1>8, <1>11, <2>3
    <3>3. \A n \in Node : own[n] = l => rank2[n] = rank[n] BY <1>8, <1>11, <2>3
    <3> QED BY <1>2, <3>1, <3>2, <3>3
  <2> QED BY <2>1, <2>2, <2>3
<1>17. \A m, n \in Node : own2[m] = own2[n] /\ rank2[m] = rank2[n] => m = n
  <2>1. ASSUME NEW n \in Node, n # fh, own2[n] = b PROVE rank2[n] # new
    <3>1. own[n] = b /\ rank2[n] = rank[n] /\ rank[n] \in Nat BY <1>1, <1>11, <2>1
    <3>2. bs[b] # Nil BY <1>12, <3>1
    <3>3. rank[bs[b]] \in Nat BY <1>1, <1>9, <3>2
    <3> QED BY <1>9, <1>13, <3>1, <3>2, <3>3
  <2> QED BY <1>3, <1>11, <2>1
<1>18. Described(ms, gs, own2, rank2) BY <1>11, <1>15, <1>16, <1>17 DEF Described
<1> QED BY <1>8, <1>18 DEF gs, own2

\* A node leaves its chain and tops the free list.
CutsOut(ns, ms, bs, cs, fh, own, b, n) ==
    /\ b \in Bucket /\ n \in Node /\ own[n] = b /\ ms[n].next = fh
    /\ \A p \in Node \ {n} :
          ms[p].next = IF own[p] = b /\ ns[p].next = n THEN ns[n].next ELSE ns[p].next
    /\ cs = IF bs[b] = n THEN [bs EXCEPT ![b] = ns[n].next] ELSE bs

LEMMA Unlinked ==
    ASSUME NEW ns, NEW ms, NEW bs \in [Bucket -> Node \cup {Nil}], NEW cs, NEW fh, NEW own, NEW rank,
           Described(ns, HeadsOf(bs, fh), own, rank), NEW b, NEW n, CutsOut(ns, ms, bs, cs, fh, own, b, n)
    PROVE  \E rank2 : Described(ms, HeadsOf(cs, n), [own EXCEPT ![n] = Nil], rank2)
<1> DEFINE hs == HeadsOf(bs, fh)
           gs == HeadsOf(cs, n)
           top == IF fh = Nil THEN 0 ELSE rank[fh] + 1
           own2 == [own EXCEPT ![n] = Nil]
           rank2 == [p \in Node |-> IF p = n THEN top
                                    ELSE IF own[p] = b /\ rank[p] > rank[n] THEN rank[p] - 1 ELSE rank[p]]
<1> USE DEF CutsOut
<1>1. own \in [Node -> Lists] /\ rank \in [Node -> Nat] BY DEF Described
<1>2. \A l \in Lists : \/ hs[l] = Nil /\ \A p \in Node : own[p] # l
                       \/ /\ hs[l] \in Node /\ own[hs[l]] = l
                          /\ \A p \in Node : own[p] = l => rank[p] <= rank[hs[l]]
    BY DEF Described
<1>3. \A p, q \in Node : own[p] = own[q] /\ rank[p] = rank[q] => p = q BY DEF Described
<1>4. \A p \in Node : \/ ns[p].next = Nil /\ rank[p] = 0
                      \/ /\ ns[p].next \in Node /\ own[ns[p].next] = own[p]
                         /\ rank[p] = rank[ns[p].next] + 1
    BY DEF Described
<1>5. Nil \in Lists /\ b \in Lists /\ b # Nil /\ Bucket \subseteq Lists BY NodesAre DEF Lists
<1>6. hs[Nil] = fh /\ \A c \in Bucket : hs[c] = bs[c] BY <1>5, NodesAre DEF HeadsOf
<1>7. /\ gs[Nil] = n /\ \A c \in Bucket : c # b => gs[c] = bs[c]
      /\ gs[b] = IF bs[b] = n THEN ns[n].next ELSE bs[b]
    BY <1>5, NodesAre DEF HeadsOf
<1> HIDE DEF hs, gs
<1>8. fh = Nil => \A p \in Node : own[p] # Nil BY <1>2, <1>5, <1>6, NodesAre
<1>9. fh # Nil => fh \in Node /\ own[fh] = Nil /\ fh # n /\ \A p \in Node : own[p] = Nil => rank[p] <= rank[fh]
    BY <1>2, <1>5, <1>6
<1>10. bs[b] \in Node /\ own[bs[b]] = b /\ \A p \in Node : own[p] = b => rank[p] <= rank[bs[b]]
    BY <1>2, <1>5, <1>6, NodesAre
<1>11. \A p \in Node : rank[p] \in Nat BY <1>1
<1>12. top \in Nat BY <1>9, <1>11
<1>13. own2 \in [Node -> Lists] /\ own2[n] = Nil /\ \A p \in Node \ {n} : own2[p] = own[p] BY <1>1, <1>5
<1>14. /\ rank2 \in [Node -> Nat] /\ rank2[n] = top
       /\ \A p \in Node \ {n} : rank2[p] = IF own[p] = b /\ rank[p] > rank[n] THEN rank[p] - 1 ELSE rank[p]
    BY <1>11, <1>12
<1>15. (fh = Nil => top = 0) /\ (fh # Nil => top = rank[fh] + 1) OBVIOUS
<1> HIDE DEF own2, rank2, top
<1>16. \A p \in Node \ {n} : own[p] # b => rank2[p] = rank[p] BY <1>14
<1>17. \A p \in Node : \/ ms[p].next = Nil /\ rank2[p] = 0
                       \/ /\ ms[p].next \in Node /\ own2[ms[p].next] = own2[p]
                          /\ rank2[p] = rank2[ms[p].next] + 1
  <2> SUFFICES ASSUME NEW p \in Node
               PROVE  \/ ms[p].next = Nil /\ rank2[p] = 0
                      \/ /\ ms[p].next \in Node /\ own2[ms[p].next] = own2[p]
                         /\ rank2[p] = rank2[ms[p].next] + 1
      OBVIOUS
  <2>1. CASE p = n
    <3>1. CASE fh = Nil BY <1>14, <1>15, <2>1, <3>1
    <3>2. CASE fh # Nil
      <4>1. own2[fh] = Nil /\ rank2[fh] = rank[fh] BY <1>5, <1>9, <1>13, <1>16, <3>2
      <4> QED BY <1>9, <1>13, <1>14, <1>15, <2>1, <3>2, <4>1
    <3> QED BY <3>1, <3>2
  <2>2. CASE p # n /\ own[p] # b
    <3>1. ms[p].next = ns[p].next /\ rank2[p] = rank[p] /\ own2[p] = own[p] BY <1>13, <1>16, <2>2
    <3>2. CASE ns[p].next = Nil BY <1>4, <2>2, <3>1, <3>2, NodesAre
    <3>3. CASE ns[p].next # Nil
      <4>1. ns[p].next \in Node /\ own[ns[p].next] = own[p] /\ rank[p] = rank[ns[p].next] + 1 BY <1>4, <3>3
      <4>2. ns[p].next # n BY <2>2, <4>1
      <4>3. own2[ns[p].next] = own[p] /\ rank2[ns[p].next] = rank[ns[p].next] BY <1>13, <1>16, <2>2, <4>1, <4>2
      <4> QED BY <3>1, <4>1, <4>3
    <3> QED BY <3>2, <3>3
  <2>3. CASE p # n /\ own[p] = b /\ ns[p].next = n
    <3>1. ms[p].next = ns[n].next /\ own2[p] = b BY <1>13, <2>3
    <3>2. rank[p] = rank[n] + 1 BY <1>4, <2>3, NodesAre
    <3>3. rank2[p] = rank[n] BY <1>11, <1>14, <2>3, <3>2
    <3>4. CASE ns[n].next = Nil BY <1>4, <3>1, <3>3, <3>4, NodesAre
    <3>5. CASE ns[n].next # Nil
      <4>1. ns[n].next \in Node /\ own[ns[n].next] = b /\ rank[n] = rank[ns[n].next] + 1 BY <1>4, <3>5
      <4>2. ns[n].next # n /\ ~ (rank[ns[n].next] > rank[n]) BY <1>11, <4>1
      <4>3. own2[ns[n].next] = b /\ rank2[ns[n].next] = rank[ns[n].next] BY <1>13, <1>14, <4>1, <4>2
      <4> QED BY <3>1, <3>3, <4>1, <4>3
    <3> QED BY <3>4, <3>5
  <2>4. CASE p # n /\ own[p] = b /\ ns[p].next # n
    <3>1. ms[p].next = ns[p].next /\ own2[p] = b BY <1>13, <2>4
    <3>2. rank[p] # rank[n] BY <1>3, <2>4
    <3>3. CASE ns[p].next = Nil
      <4>1. rank[p] = 0 BY <1>4, <3>3, NodesAre
      <4>2. ~ (rank[p] > rank[n]) BY <1>11, <4>1
      <4>3. rank2[p] = 0 BY <1>14, <2>4, <4>1, <4>2
      <4> QED BY <3>1, <3>3, <4>3
    <3>4. CASE ns[p].next # Nil
      <4> DEFINE q == ns[p].next
      <4>1. q \in Node /\ own[q] = b /\ rank[p] = rank[q] + 1 BY <1>4, <2>4, <3>4
      <4>2. q # n BY <2>4
      <4> HIDE DEF q
      <4>3. own2[q] = b BY <1>13, <4>1, <4>2
      <4>4. rank[q] # rank[n] BY <1>3, <4>1, <4>2
      <4>5. rank[p] > rank[n] <=> rank[q] > rank[n] BY <1>11, <3>2, <4>1, <4>4
      <4>6. rank2[p] = rank2[q] + 1
        <5>1. CASE rank[q] > rank[n]
          <6>1. rank2[p] = rank[p] - 1 /\ rank2[q] = rank[q] - 1 BY <1>14, <2>4, <4>1, <4>2, <4>5, <5>1
          <6> QED BY <1>11, <4>1, <6>1
        <5>2. CASE ~ (rank[q] > rank[n])
          <6>1. rank2[p] = rank[p] /\ rank2[q] = rank[q] BY <1>14, <2>4, <4>1, <4>2, <4>5, <5>2
          <6> QED BY <4>1, <6>1
        <5> QED BY <5>1, <5>2
      <4> QED BY <3>1, <4>1, <4>3, <4>6 DEF q
    <3> QED BY <3>3, <3>4
  <2> QED BY <2>1, <2>2, <2>3, <2>4
<1>18. \A l \in Lists : \/ gs[l] = Nil /\ \A p \in Node : own2[p] # l
                        \/ /\ gs[l] \in Node /\ own2[gs[l]] = l
                           /\ \A p \in Node : own2[p] = l => rank2[p] <= rank2[gs[l]]
  <2> SUFFICES ASSUME NEW l \in Lists
               PROVE  \/ gs[l] = Nil /\ \A p \in Node : own2[p] # l
                      \/ /\ gs[l] \in Node /\ own2[gs[l]] = l
                         /\ \A p \in Node : own2[p] = l => rank2[p] <= rank2[gs[l]]
      OBVIOUS
  <2>1. CASE l = Nil
    <3>1. ASSUME NEW p \in Node, own2[p] = Nil PROVE rank2[p] <= top
      <4>1. CASE p = n BY <1>12, <1>14, <4>1
      <4>2. CASE p # n
        <5>1. own[p] = Nil /\ rank2[p] = rank[p] BY <1>5, <1>13, <1>16, <3>1, <4>2
        <5>2. fh # Nil BY <1>8, <5>1
        <5> QED BY <1>9, <1>11, <1>15, <5>1, <5>2
      <4> QED BY <4>1, <4>2
    <3> QED BY <1>7, <1>13, <1>14, <2>1, <3>1
  <2>2. CASE l = b /\ bs[b] = n
    <3>1. gs[l] = ns[n].next BY <1>7, <2>2
    <3>2. ASSUME NEW p \in Node, own2[p] = b PROVE p # n /\ own[p] = b /\ rank[p] < rank[n] /\ rank2[p] = rank[p]
      <4>1. p # n /\ own[p] = b BY <1>5, <1>13, <3>2
      <4>2. rank[p] <= rank[n] /\ rank[p] # rank[n] BY <1>3, <1>10, <2>2, <4>1
      <4>3. rank[p] < rank[n] /\ ~ (rank[p] > rank[n]) BY <1>11, <4>2
      <4> QED BY <1>14, <4>1, <4>3
    <3>3. CASE ns[n].next = Nil
      <4>1. rank[n] = 0 BY <1>4, <3>3, NodesAre
      <4>2. \A p \in Node : ~ (rank[p] < 0) BY <1>11
      <4> QED BY <2>2, <3>1, <3>2, <3>3, <4>1, <4>2
    <3>4. CASE ns[n].next # Nil
      <4>1. ns[n].next \in Node /\ own[ns[n].next] = b /\ rank[n] = rank[ns[n].next] + 1 BY <1>4, <3>4
      <4>2. ns[n].next # n /\ ~ (rank[ns[n].next] > rank[n]) BY <1>11, <4>1
      <4>3. own2[ns[n].next] = b /\ rank2[ns[n].next] = rank[ns[n].next] BY <1>13, <1>14, <4>1, <4>2
      <4>4. \A p \in Node : rank[p] < rank[n] => rank[p] <= rank[ns[n].next] BY <1>11, <4>1
      <4> QED BY <2>2, <3>1, <3>2, <4>1, <4>3, <4>4
    <3> QED BY <3>3, <3>4
  <2>3. CASE l = b /\ bs[b] # n
    <3> DEFINE h == bs[b]
    <3>1. gs[l] = h BY <1>7, <2>3
    <3>2. h \in Node /\ own[h] = b /\ h # n /\ \A p \in Node : own[p] = b => rank[p] <= rank[h] BY <1>10, <2>3
    <3> HIDE DEF h
    <3>3. rank[n] <= rank[h] /\ rank[n] # rank[h] BY <1>3, <3>2
    <3>4. rank[h] > rank[n] BY <1>11, <3>2, <3>3
    <3>5. rank2[h] = rank[h] - 1 /\ own2[h] = b BY <1>13, <1>14, <3>2, <3>4
    <3>6. ASSUME NEW p \in Node, own2[p] = b PROVE rank2[p] <= rank2[h]
      <4>1. p # n /\ own[p] = b BY <1>5, <1>13, <3>6
      <4>2. rank[p] <= rank[h] /\ rank[p] # rank[n] BY <1>3, <3>2, <4>1
      <4>3. CASE rank[p] > rank[n]
        <5>1. rank2[p] = rank[p] - 1 BY <1>14, <4>1, <4>3
        <5> QED BY <1>11, <3>2, <3>5, <4>2, <5>1
      <4>4. CASE ~ (rank[p] > rank[n])
        <5>1. rank2[p] = rank[p] BY <1>14, <4>1, <4>4
        <5> QED BY <1>11, <3>2, <3>4, <3>5, <4>2, <4>4, <5>1
      <4> QED BY <4>3, <4>4
    <3> QED BY <2>3, <3>1, <3>2, <3>5, <3>6
  <2>4. CASE l # b /\ l # Nil
    <3>1. l \in Bucket /\ gs[l] = hs[l] BY <1>6, <1>7, <2>4 DEF Lists
    <3>2. \A p \in Node : own2[p] = l <=> own[p] = l BY <1>13, <2>4
    <3>3. \A p \in Node : own[p] = l => rank2[p] = rank[p] BY <1>16, <2>4
    <3> QED BY <1>2, <3>1, <3>2, <3>3
  <2> QED BY <2>1, <2>2, <2>3, <2>4
<1>19. \A p, q \in Node : own2[p] = own2[q] /\ rank2[p] = rank2[q] => p = q
  <2>1. ASSUME NEW p \in Node, p # n, own2[p] = Nil PROVE rank2[p] # top
    <3>1. own[p] = Nil /\ rank2[p] = rank[p] BY <1>5, <1>13, <1>16, <2>1
    <3>2. fh # Nil BY <1>8, <3>1
    <3> QED BY <1>9, <1>11, <1>15, <3>1, <3>2
  <2>2. ASSUME NEW p \in Node, NEW q \in Node, p # n, q # n, own[p] = own[q], rank2[p] = rank2[q] PROVE p = q
    <3>1. CASE own[p] # b BY <1>3, <1>16, <2>2, <3>1
    <3>2. CASE own[p] = b
      <4>1. rank[p] # rank[n] /\ rank[q] # rank[n] BY <1>3, <2>2, <3>2
      <4>2. rank2[p] = (IF rank[p] > rank[n] THEN rank[p] - 1 ELSE rank[p]) BY <1>14, <2>2, <3>2
      <4>3. rank2[q] = (IF rank[q] > rank[n] THEN rank[q] - 1 ELSE rank[q]) BY <1>14, <2>2, <3>2
      <4>4. rank[p] = rank[q]
        <5>1. rank[p] \in Nat /\ rank[q] \in Nat /\ rank[n] \in Nat BY <1>11
        <5>2. \A x, y, z \in Nat :
                 x # z /\ y # z /\ (IF x > z THEN x - 1 ELSE x) = (IF y > z THEN y - 1 ELSE y) => x = y
            OBVIOUS
        <5> QED BY <2>2, <4>1, <4>2, <4>3, <5>1, <5>2
      <4> QED BY <1>3, <2>2, <4>4
    <3> QED BY <3>1, <3>2
  <2> QED BY <1>13, <1>14, <2>1, <2>2
<1>20. Described(ms, gs, own2, rank2) BY <1>13, <1>14, <1>17, <1>18, <1>19 DEF Described
<1> QED BY <1>20 DEF gs, own2

-----------------------------------------------------------------------------
InUse(own) == {n \in Node : own[n] # Nil}

\* What the lists hold: each record in the chain of its key and alone with it,
\* none used more often than the mark says, and their count.
Holding(ns, own, top, count) ==
    /\ \A n \in InUse(own) : ns[n].key \in Key /\ bucketOf(ns[n].key) = own[n] /\ ns[n].uses <= top
    /\ \A m, n \in InUse(own) : ns[m].key = ns[n].key => m = n
    /\ count = Cardinality(InUse(own))

TableOf(own, rank) ==
    Described(nodes, HeadsOf(buckets, freeHead), own, rank) /\ Holding(nodes, own, mark, entries)

TableInv ==
    /\ TableTypeOK
    /\ IF arena THEN \E own, rank : TableOf(own, rank)
       ELSE buckets = emptyBuckets /\ entries = 0

LEMMA InUseIsFinite == ASSUME NEW own PROVE IsFiniteSet(InUse(own)) /\ Cardinality(InUse(own)) \in 0 .. NodeCount
<1>1. InUse(own) \in SUBSET Node BY DEF InUse
<1>2. IsFiniteSet(InUse(own)) /\ Cardinality(InUse(own)) <= NodeCount BY <1>1, NodesAre, FS_Subset
<1>3. Cardinality(InUse(own)) \in Nat BY <1>2, FS_CardinalityType
<1> QED BY <1>2, <1>3, CacheTableAssumption

LEMMA EmptyList == ASSUME NEW ns PROVE Listed(ns, Nil) = {}
<1> DEFINE g == [s \in 0 .. NodeCount |-> Nil]
           a == After(ns, Nil)
<1>0. NodeCount \in Nat BY CacheTableAssumption
<1>1. g = Onward(ns, Nil, g)
  <2>1. \A s \in 0 .. NodeCount : s # 0 => s - 1 \in 0 .. NodeCount BY <1>0
  <2>2. \A s \in 0 .. NodeCount : g[s] = Onward(ns, Nil, g)[s] BY <2>1 DEF Onward
  <2>3. Onward(ns, Nil, g) = [s \in 0 .. NodeCount |-> Onward(ns, Nil, g)[s]] BY DEF Onward
  <2> QED BY <2>2, <2>3
<1>2. a = CHOOSE go : go = Onward(ns, Nil, go) BY AfterWalks
<1> HIDE DEF g, a
<1>3. a = Onward(ns, Nil, a) BY <1>1, <1>2
<1>4. a = g BY <1>1, <1>3, OneWalkOn
<1>5. \A s \in 0 .. NodeCount : a[s] = Nil BY <1>4 DEF g
<1> QED BY <1>5 DEF Listed, a

\* What the operations find when they follow the chains.
LEMMA ChainsAre ==
    ASSUME TableTypeOK, NEW own, NEW rank, TableOf(own, rank)
    PROVE  /\ \A b \in Bucket : Listed(nodes, buckets[b]) = {n \in Node : own[n] = b}
           /\ Linked = InUse(own)
           /\ \A n \in InUse(own) : own[n] \in Bucket
           /\ freeHead = Nil <=> InUse(own) = Node
<1> DEFINE hs == HeadsOf(buckets, freeHead)
<1>1. Described(nodes, hs, own, rank) BY DEF TableOf
<1>2. \A l \in Lists : Listed(nodes, hs[l]) = {n \in Node : own[n] = l}
  <2> HIDE DEF hs
  <2> QED BY <1>1, ListsAreWalked
<1>3. \A b \in Bucket : b \in Lists /\ hs[b] = buckets[b] BY NodesAre DEF HeadsOf, Lists
<1>4. hs[Nil] = freeHead /\ Nil \in Lists BY DEF HeadsOf, Lists
<1> HIDE DEF hs
<1>5. \A b \in Bucket : Listed(nodes, buckets[b]) = {n \in Node : own[n] = b} BY <1>2, <1>3
<1>6. \A n \in InUse(own) : own[n] \in Bucket BY <1>1 DEF Described, InUse, Lists
<1>7. Linked = InUse(own)
  <2>1. \A n : n \in Linked <=> \E b \in Bucket : n \in Listed(nodes, buckets[b]) BY DEF Linked
  <2>2. \A n : n \in Linked <=> \E b \in Bucket : n \in Node /\ own[n] = b BY <1>5, <2>1
  <2>3. \A b \in Bucket : b # Nil BY NodesAre
  <2> QED BY <1>6, <2>2, <2>3 DEF InUse
<1>8. freeHead = Nil <=> InUse(own) = Node
  <2>1. \/ freeHead = Nil /\ \A n \in Node : own[n] # Nil
        \/ freeHead \in Node /\ own[freeHead] = Nil
      BY <1>1, <1>4 DEF Described
  <2> QED BY <2>1, NodesAre DEF InUse
<1> QED BY <1>5, <1>6, <1>7, <1>8

LEMMA TableHolds == TableInv => TableSafe
<1> SUFFICES ASSUME TableInv PROVE TableSafe OBVIOUS
<1>1. TableTypeOK BY DEF TableInv
<1>2. CASE arena
  <2>1. PICK own, rank : TableOf(own, rank) BY <1>2 DEF TableInv
  <2>2. /\ \A b \in Bucket : Listed(nodes, buckets[b]) = {n \in Node : own[n] = b}
        /\ Linked = InUse(own) /\ \A n \in InUse(own) : own[n] \in Bucket
      BY <1>1, <2>1, ChainsAre
  <2>3. Holding(nodes, own, mark, entries) /\ Described(nodes, HeadsOf(buckets, freeHead), own, rank)
      BY <2>1 DEF TableOf
  <2>4. PoolIsPartitioned
    <3> DEFINE hs == HeadsOf(buckets, freeHead)
    <3>1. \A l \in Lists : Ends(nodes, hs[l]) /\ Listed(nodes, hs[l]) = {n \in Node : own[n] = l}
      <4> HIDE DEF hs
      <4> QED BY <2>3, ListsAreWalked DEF hs
    <3>2. hs = [b \in Bucket \cup {Nil} |-> IF b = Nil THEN freeHead ELSE buckets[b]]
        BY DEF HeadsOf, Lists
    <3>3. DOMAIN hs = Lists BY DEF HeadsOf
    <3> HIDE DEF hs
    <3>4. ASSUME NEW n \in Node PROVE Cardinality({b \in DOMAIN hs : n \in Listed(nodes, hs[b])}) = 1
      <4>1. own[n] \in Lists BY <2>3 DEF Described
      <4>2. {b \in DOMAIN hs : n \in Listed(nodes, hs[b])} = {own[n]} BY <3>1, <3>3, <4>1
      <4> QED BY <4>2, FS_Singleton
    <3> QED BY <3>1, <3>2, <3>3, <3>4 DEF PoolIsPartitioned
  <2>5. RecordsAreFound
    <3>1. \A b \in Bucket : b # Nil BY NodesAre
    <3> QED BY <2>2, <2>3, <3>1 DEF RecordsAreFound, Holding, InUse
  <2>6. MarkIsHighest
    <3>1. \A n \in InUse(own) : nodes[n].uses <= mark BY <2>3 DEF Holding
    <3>2. mark \in Int /\ \A n \in Node : nodes[n].uses \in Int BY <1>1, CacheTableAssumption DEF TableTypeOK
    <3>3. \A n \in InUse(own) : n \in Node BY DEF InUse
    <3> QED BY <2>2, <3>1, <3>2, <3>3 DEF MarkIsHighest
  <2> QED BY <1>1, <2>4, <2>5, <2>6 DEF TableSafe
<1>3. CASE ~arena
  <2>1. buckets = emptyBuckets /\ entries = 0 BY <1>3 DEF TableInv
  <2>2. \A b \in Bucket : Listed(nodes, buckets[b]) = {} BY <2>1, EmptyList DEF emptyBuckets
  <2>3. Linked = {} BY <2>2 DEF Linked
  <2>4. entries = Cardinality(Linked) BY <2>1, <2>3, FS_EmptySet
  <2> QED BY <1>1, <1>3, <2>2, <2>3, <2>4 DEF TableSafe, PoolIsPartitioned, RecordsAreFound, MarkIsHighest
<1> QED BY <1>2, <1>3

-----------------------------------------------------------------------------
Rec == [next : Node \cup {Nil}, key : Key \cup {NoKey}, uses : 0 .. MaxUses, age : 0 .. ClockMod - 1]
Pool(ns, bs, fh) == ns \in [Node -> Rec] /\ bs \in [Bucket -> Node \cup {Nil}] /\ fh \in Node \cup {Nil}

LEMMA KeysHaveBuckets == \A k \in Key : bucketOf(k) \in Bucket
<1> SUFFICES ASSUME NEW k \in Key PROVE HashOf[k] % NumBuckets \in 0 .. NumBuckets - 1
    BY DEF bucketOf, Bucket
<1>1. HashOf[k] \in Nat /\ NumBuckets \in Nat /\ NumBuckets > 0 BY CacheTableAssumption
<1> QED BY <1>1

LEMMA BlankIsRec == \A l \in Node \cup {Nil} : Blank(l) \in Rec /\ Blank(l).next = l
<1>1. 0 \in 0 .. MaxUses /\ 0 \in 0 .. ClockMod - 1 BY CacheTableAssumption
<1> QED BY <1>1 DEF Blank, Rec

\* A table stays one when what a node holds beside its link changes.
KeepsLinks(ns, ms, own, higher) ==
    /\ \A n \in Node : ms[n].next = ns[n].next
    /\ \A n \in InUse(own) : ms[n].key = ns[n].key /\ ms[n].uses <= higher

LEMMA HeldInPlace ==
    ASSUME NEW ns, NEW ms, NEW hs, NEW own, NEW rank, NEW top, NEW higher, NEW count,
           Described(ns, hs, own, rank), Holding(ns, own, top, count),
           KeepsLinks(ns, ms, own, higher)
    PROVE  Described(ms, hs, own, rank) /\ Holding(ms, own, higher, count)
<1>1. Described(ms, hs, own, rank) BY SameLinks DEF KeepsLinks
<1> QED BY <1>1 DEF Holding, KeepsLinks

\* A free node takes a new record in.
Fills(ns, ms, bs, cs, fh, own, k, u) ==
    /\ fh # Nil /\ k \in Key /\ u \in 0 .. MaxUses /\ \A n \in InUse(own) : ns[n].key # k
    /\ ms = [ns EXCEPT ![fh] = [next |-> bs[bucketOf(k)], key |-> k, uses |-> u, age |-> 0]]
    /\ cs = [bs EXCEPT ![bucketOf(k)] = fh]

LEMMA Filled ==
    ASSUME NEW ns, NEW bs, NEW fh, NEW own, NEW rank, NEW top \in 0 .. MaxUses, NEW count \in Int,
           Pool(ns, bs, fh), Described(ns, HeadsOf(bs, fh), own, rank), Holding(ns, own, top, count),
           NEW ms, NEW cs, NEW k, NEW u, Fills(ns, ms, bs, cs, fh, own, k, u),
           NEW higher \in 0 .. MaxUses, top <= higher, u <= higher
    PROVE  \E own2 : /\ own[fh] = Nil /\ InUse(own2) = InUse(own) \cup {fh}
                     /\ Pool(ms, cs, ns[fh].next)
                     /\ \E rank2 : Described(ms, HeadsOf(cs, ns[fh].next), own2, rank2)
                     /\ Holding(ms, own2, higher, count + 1)
<1> DEFINE b == bucketOf(k)
           r == [next |-> bs[b], key |-> k, uses |-> u, age |-> 0]
           own2 == [own EXCEPT ![fh] = b]
<1>0. /\ fh # Nil /\ k \in Key /\ u \in 0 .. MaxUses /\ \A n \in InUse(own) : ns[n].key # k
      /\ ms = [ns EXCEPT ![fh] = r] /\ cs = [bs EXCEPT ![b] = fh]
    BY DEF Fills
<1>1. b \in Bucket /\ b # Nil BY <1>0, KeysHaveBuckets, NodesAre
<1>2. fh \in Node /\ bs[b] \in Node \cup {Nil} /\ bs \in [Bucket -> Node \cup {Nil}] BY <1>0, <1>1 DEF Pool
<1>3. r \in Rec
  <2>1. 0 \in 0 .. ClockMod - 1 BY CacheTableAssumption
  <2> QED BY <1>0, <1>2, <2>1 DEF Rec
<1>4. r.next = bs[b] /\ r.key = k /\ r.uses = u OBVIOUS
<1> HIDE DEF r, b
<1>5. ms \in [Node -> Rec] /\ ms[fh] = r /\ \A n \in Node : n # fh => ms[n] = ns[n] BY <1>0, <1>2, <1>3 DEF Pool
<1>6. cs \in [Bucket -> Node \cup {Nil}] BY <1>0, <1>1, <1>2
<1>7. ns[fh].next \in Node \cup {Nil} BY <1>2 DEF Pool, Rec
<1>8. Pool(ms, cs, ns[fh].next) BY <1>5, <1>6, <1>7 DEF Pool
<1>9. own \in [Node -> Lists] BY DEF Described
<1>10. own2[fh] = b /\ \A n \in Node : n # fh => own2[n] = own[n] BY <1>2, <1>9
<1> HIDE DEF own2
<1>11. ms[fh].next = bs[b] /\ \A p \in Node : p # fh => ms[p].next = ns[p].next BY <1>4, <1>5
<1>12. /\ own[fh] = Nil
       /\ \E rank2 : Described(ms, HeadsOf(cs, ns[fh].next), own2, rank2)
  <2>0. TakesTop(ns, ms, bs, fh, b) BY <1>1, <1>11 DEF TakesTop
  <2> QED BY <1>0, <1>2, <2>0, Taken DEF own2
<1>13. InUse(own2) = InUse(own) \cup {fh} BY <1>1, <1>2, <1>10, <1>12 DEF InUse
<1>14. fh \notin InUse(own) BY <1>12 DEF InUse
<1>15. Holding(ms, own2, higher, count + 1)
  <2>1. \A n \in InUse(own) : n \in Node /\ n # fh /\ ms[n] = ns[n] /\ own2[n] = own[n]
      BY <1>5, <1>10, <1>14 DEF InUse
  <2>2. \A n \in InUse(own) : ms[n].key \in Key /\ bucketOf(ms[n].key) = own2[n] /\ ms[n].uses <= higher
    <3> SUFFICES ASSUME NEW n \in InUse(own)
                 PROVE  ms[n].key \in Key /\ bucketOf(ms[n].key) = own2[n] /\ ms[n].uses <= higher
        OBVIOUS
    <3>1. ns[n].key \in Key /\ bucketOf(ns[n].key) = own[n] /\ ns[n].uses <= top BY DEF Holding
    <3>2. ns[n].uses \in 0 .. MaxUses BY <2>1 DEF Pool, Rec
    <3>3. ns[n].uses <= higher BY <3>1, <3>2, CacheTableAssumption
    <3> QED BY <2>1, <3>1, <3>3
  <2>3. ms[fh].key \in Key /\ bucketOf(ms[fh].key) = own2[fh] /\ ms[fh].uses <= higher BY <1>0, <1>4, <1>5, <1>10 DEF b
  <2>4. \A m, n \in InUse(own) : ms[m].key = ms[n].key => m = n BY <2>1 DEF Holding
  <2>5. \A n \in InUse(own) : ms[n].key # ms[fh].key BY <1>0, <1>4, <1>5, <2>1
  <2>6. count = Cardinality(InUse(own)) BY DEF Holding
  <2>7. Cardinality(InUse(own) \cup {fh}) = count + 1 BY <1>14, <2>6, InUseIsFinite, FS_AddElement
  <2> QED BY <1>13, <2>2, <2>3, <2>4, <2>5, <2>7 DEF Holding
<1> QED BY <1>8, <1>12, <1>13, <1>15

\* A record leaves.
LEMMA Emptied ==
    ASSUME TableTypeOK, NEW own, NEW rank, TableOf(own, rank), NEW n \in InUse(own)
    PROVE  LET t == unlinkNode(bucketOf(nodes[n].key), n)
               own2 == [own EXCEPT ![n] = Nil]
           IN  /\ InUse(own2) = InUse(own) \ {n} /\ t.freeHead = n
               /\ Pool(t.nodes, t.buckets, n)
               /\ \E rank2 : Described(t.nodes, HeadsOf(t.buckets, n), own2, rank2)
               /\ Holding(t.nodes, own2, mark, entries - 1)
               /\ \A p \in InUse(own2) : /\ t.nodes[p].key = nodes[p].key /\ t.nodes[p].uses = nodes[p].uses
                                         /\ t.nodes[p].age = nodes[p].age
<1> DEFINE b == bucketOf(nodes[n].key)
           before == {p \in Listed(nodes, buckets[b]) : nodes[p].next = n}
           ms == [p \in Node |-> IF p = n THEN Blank(freeHead)
                                 ELSE IF p \in before THEN [nodes[p] EXCEPT !.next = nodes[n].next]
                                 ELSE nodes[p]]
           cs == IF buckets[b] = n THEN [buckets EXCEPT ![b] = nodes[n].next] ELSE buckets
           own2 == [own EXCEPT ![n] = Nil]
           t == unlinkNode(b, n)
<1>1. t.nodes = ms /\ t.buckets = cs /\ t.freeHead = n BY DEF unlinkNode
<1>2. Described(nodes, HeadsOf(buckets, freeHead), own, rank) /\ Holding(nodes, own, mark, entries)
    BY DEF TableOf
<1>3. n \in Node /\ own[n] = b /\ own[n] \in Bucket /\ nodes[n].key \in Key BY <1>2, ChainsAre DEF InUse, Holding
<1>4. before = {p \in Node : own[p] = b /\ nodes[p].next = n} BY <1>3, ChainsAre
<1>5. /\ nodes \in [Node -> Rec] /\ buckets \in [Bucket -> Node \cup {Nil}]
      /\ freeHead \in Node \cup {Nil} /\ nodes[n].next \in Node \cup {Nil}
    BY <1>3 DEF TableTypeOK, Rec
<1> HIDE DEF before, b
<1>6. \A p \in Node : [nodes[p] EXCEPT !.next = nodes[n].next] \in Rec BY <1>5 DEF Rec
<1>7. Blank(freeHead) \in Rec /\ Blank(freeHead).next = freeHead BY <1>5, BlankIsRec
<1>8. ms \in [Node -> Rec]
  <2>1. \A p \in Node : nodes[p] \in Rec BY <1>5
  <2> QED BY <1>6, <1>7, <2>1
<1>9. cs \in [Bucket -> Node \cup {Nil}] BY <1>3, <1>5
<1>10. Pool(ms, cs, n)
  <2> HIDE DEF ms, cs
  <2> QED BY <1>3, <1>8, <1>9 DEF Pool
<1>11. ms[n].next = freeHead BY <1>3, <1>7
<1>12. \A p \in Node \ {n} : /\ ms[p].key = nodes[p].key /\ ms[p].uses = nodes[p].uses /\ ms[p].age = nodes[p].age
                             /\ ms[p].next = IF p \in before THEN nodes[n].next ELSE nodes[p].next
  <2> SUFFICES ASSUME NEW p \in Node, p # n
               PROVE  /\ ms[p].key = nodes[p].key /\ ms[p].uses = nodes[p].uses /\ ms[p].age = nodes[p].age
                      /\ ms[p].next = IF p \in before THEN nodes[n].next ELSE nodes[p].next
      OBVIOUS
  <2>1. nodes[p] \in Rec BY <1>5
  <2>2. CASE p \in before
    <3>1. ms[p] = [nodes[p] EXCEPT !.next = nodes[n].next] BY <2>2
    <3> QED BY <2>1, <2>2, <3>1 DEF Rec
  <2>3. CASE p \notin before
    <3>1. ms[p] = nodes[p] BY <2>3
    <3> QED BY <2>3, <3>1
  <2> QED BY <2>2, <2>3
<1>13. \A p \in Node \ {n} :
          ms[p].next = IF own[p] = b /\ nodes[p].next = n THEN nodes[n].next ELSE nodes[p].next
    BY <1>4, <1>12
<1> HIDE DEF ms
<1>14. \E rank2 : Described(ms, HeadsOf(cs, n), own2, rank2)
  <2>1. b \in Bucket BY <1>3
  <2>2. cs = IF buckets[b] = n THEN [buckets EXCEPT ![b] = nodes[n].next] ELSE buckets OBVIOUS
  <2> HIDE DEF cs
  <2>0. CutsOut(nodes, ms, buckets, cs, freeHead, own, b, n) BY <1>3, <1>11, <1>13, <2>1, <2>2 DEF CutsOut
  <2>3. \E rank2 : Described(ms, HeadsOf(cs, n), [own EXCEPT ![n] = Nil], rank2)
      BY <1>2, <1>5, <2>0, Unlinked
  <2> QED BY <2>3
<1>15. own \in [Node -> Lists] BY <1>2 DEF Described
<1>16. InUse(own2) = InUse(own) \ {n} BY <1>3, <1>15 DEF InUse
<1>17. \A p \in Node \ {n} : own2[p] = own[p] BY <1>15
<1> HIDE DEF own2, cs, t
<1>18. Holding(ms, own2, mark, entries - 1)
  <2>1. \A p \in InUse(own2) : p \in Node \ {n} /\ p \in InUse(own) BY <1>16 DEF InUse
  <2>2. \A p \in InUse(own2) : ms[p].key \in Key /\ bucketOf(ms[p].key) = own2[p] /\ ms[p].uses <= mark
      BY <1>2, <1>12, <1>17, <2>1 DEF Holding
  <2>3. \A p, q \in InUse(own2) : ms[p].key = ms[q].key => p = q BY <1>2, <1>12, <2>1 DEF Holding
  <2>4. entries = Cardinality(InUse(own)) BY <1>2 DEF Holding
  <2>5. Cardinality(InUse(own) \ {n}) = entries - 1 BY <2>4, InUseIsFinite, FS_RemoveElement
  <2> QED BY <1>16, <2>2, <2>3, <2>5 DEF Holding
<1>19. \A p \in InUse(own2) : ms[p].key = nodes[p].key /\ ms[p].uses = nodes[p].uses /\ ms[p].age = nodes[p].age
  <2>1. \A p \in InUse(own2) : p \in Node \ {n} BY <1>16 DEF InUse
  <2> QED BY <1>12, <2>1
<1>20. t = unlinkNode(bucketOf(nodes[n].key), n) BY DEF t, b
<1> QED BY <1>1, <1>10, <1>14, <1>16, <1>18, <1>19, <1>20 DEF own2

-----------------------------------------------------------------------------
\* The record of a store, just used or restored, in the node `n`.
Rewritten(ms, n, k, u) ==
    /\ n \in Node /\ ms[n].key = k /\ ms[n].uses = u /\ ms[n].age = 0

Alike(ns, ms, S) == \A p \in S : ms[p].key = ns[p].key /\ ms[p].uses = ns[p].uses /\ ms[p].age = ns[p].age

\* What becomes of a table that is one, and of the nodes in use.
Becomes(own) ==
    /\ \E rank : TableOf(own, rank)'
    /\ Pool(nodes', buckets', freeHead') /\ mark' \in 0 .. MaxUses /\ entries' \in 0 .. NodeCount

\* A store rewrites the record of its key, takes a free node, or the node of a
\* victim when there is none.
Stores(k, uses, own, own2, n) ==
    \/ /\ n \in InUse(own) /\ nodes[n].key = k /\ own2 = own
       /\ Rewritten(nodes', n, k, uses[nodes[n].uses])
    \/ /\ \A p \in InUse(own) : nodes[p].key # k
       /\ n \notin InUse(own) /\ freeHead # Nil /\ InUse(own2) = InUse(own) \cup {n}
       /\ Rewritten(nodes', n, k, uses[0])
    \/ /\ \A p \in InUse(own) : nodes[p].key # k
       /\ n \in InUse(own) /\ freeHead = Nil /\ findEvictVictim(n) /\ InUse(own2) = InUse(own)
       /\ Rewritten(nodes', n, k, uses[0])

LEMMA FoundIsInUse ==
    ASSUME TableTypeOK, NEW own, NEW rank, TableOf(own, rank), NEW k \in Key
    PROVE  findNode(k) = {n \in InUse(own) : nodes[n].key = k}
<1>1. bucketOf(k) \in Bucket /\ bucketOf(k) # Nil BY KeysHaveBuckets, NodesAre
<1>2. Listed(nodes, buckets[bucketOf(k)]) = {n \in Node : own[n] = bucketOf(k)} BY <1>1, ChainsAre
<1>3. \A n \in InUse(own) : n \in Node /\ bucketOf(nodes[n].key) = own[n] BY DEF TableOf, Holding, InUse
<1> QED BY <1>1, <1>2, <1>3 DEF findNode, InUse

LEMMA MarkGrows ==
    ASSUME TableTypeOK, NEW u \in 0 .. MaxUses
    PROVE  noteMark(u) \in 0 .. MaxUses /\ mark <= noteMark(u) /\ u <= noteMark(u)
<1>1. mark \in 0 .. MaxUses BY DEF TableTypeOK
<1> QED BY <1>1, CacheTableAssumption DEF noteMark

LEMMA StoredAnew ==
    ASSUME TableTypeOK, NEW own, NEW rank, TableOf(own, rank), NEW k \in Key, NEW u \in 0 .. MaxUses,
           NEW n \in InUse(own), nodes[n].key = k,
           nodes' = [nodes EXCEPT ![n] = [next |-> nodes[n].next, key |-> k, uses |-> u, age |-> 0]],
           mark' = noteMark(u), UNCHANGED <<buckets, freeHead, entries>>
    PROVE  Becomes(own) /\ Rewritten(nodes', n, k, u) /\ Alike(nodes, nodes', InUse(own) \ {n})
<1> DEFINE r == [next |-> nodes[n].next, key |-> k, uses |-> u, age |-> 0]
<1>1. n \in Node /\ nodes \in [Node -> Rec] /\ entries \in 0 .. NodeCount
      /\ buckets \in [Bucket -> Node \cup {Nil}] /\ freeHead \in Node \cup {Nil}
    BY DEF InUse, TableTypeOK, Rec
<1>2. r \in Rec
  <2>1. 0 \in 0 .. ClockMod - 1 BY CacheTableAssumption
  <2>2. nodes[n].next \in Node \cup {Nil} BY <1>1 DEF Rec
  <2> QED BY <2>1, <2>2 DEF Rec
<1>3. r.next = nodes[n].next /\ r.key = k /\ r.uses = u /\ r.age = 0 OBVIOUS
<1>4. nodes' = [nodes EXCEPT ![n] = r] OBVIOUS
<1> HIDE DEF r
<1>5. nodes' \in [Node -> Rec] /\ nodes'[n] = r /\ \A p \in Node : p # n => nodes'[p] = nodes[p]
    BY <1>1, <1>2, <1>4
<1>6. \A p \in Node : nodes'[p].next = nodes[p].next BY <1>3, <1>5
<1>7. \A p \in InUse(own) : p \in Node BY DEF InUse
<1>8. mark' \in 0 .. MaxUses /\ mark <= mark' /\ u <= mark' BY MarkGrows
<1>9. \A p \in InUse(own) : nodes'[p].key = nodes[p].key /\ nodes'[p].uses <= mark'
  <2> SUFFICES ASSUME NEW p \in InUse(own) PROVE nodes'[p].key = nodes[p].key /\ nodes'[p].uses <= mark'
      OBVIOUS
  <2>1. CASE p = n BY <1>3, <1>5, <1>8, <2>1
  <2>2. CASE p # n
    <3>1. nodes[p].uses <= mark BY DEF TableOf, Holding
    <3>2. nodes[p].uses \in 0 .. MaxUses /\ mark \in 0 .. MaxUses BY <1>1, <1>7 DEF Rec, TableTypeOK
    <3>3. nodes[p].uses <= mark' BY <1>8, <3>1, <3>2, CacheTableAssumption
    <3> QED BY <1>5, <1>7, <2>2, <3>3
  <2> QED BY <2>1, <2>2
<1>10. Described(nodes, HeadsOf(buckets, freeHead), own, rank) /\ Holding(nodes, own, mark, entries) BY DEF TableOf
<1>11. Described(nodes', HeadsOf(buckets, freeHead), own, rank) /\ Holding(nodes', own, mark', entries)
  <2>1. KeepsLinks(nodes, nodes', own, mark') BY <1>6, <1>9 DEF KeepsLinks
  <2> QED BY <1>10, <2>1, HeldInPlace
<1>12. TableOf(own, rank)' BY <1>11 DEF TableOf
<1>13. Becomes(own) BY <1>1, <1>5, <1>8, <1>12 DEF Becomes, Pool
<1>14. Rewritten(nodes', n, k, u) BY <1>1, <1>3, <1>5 DEF Rewritten
<1>15. Alike(nodes, nodes', InUse(own) \ {n}) BY <1>5, <1>7 DEF Alike
<1> QED BY <1>13, <1>14, <1>15

\* A new record in the top free node of a table that `ns`, `bs` and `fh` make.
LEMMA StoredNew ==
    ASSUME TableTypeOK, NEW ns, NEW bs, NEW fh, NEW own, NEW rank, NEW count \in Int,
           Pool(ns, bs, fh), Described(ns, HeadsOf(bs, fh), own, rank), Holding(ns, own, mark, count),
           NEW k, NEW u, Fills(ns, nodes', bs, buckets', fh, own, k, u), freeHead' = ns[fh].next,
           mark' = noteMark(u), entries' = count + 1
    PROVE  \E own2 : /\ Becomes(own2) /\ own[fh] = Nil /\ InUse(own2) = InUse(own) \cup {fh}
                     /\ Rewritten(nodes', fh, k, u) /\ Alike(ns, nodes', InUse(own))
<1>0. u \in 0 .. MaxUses BY DEF Fills
<1>1. mark \in 0 .. MaxUses /\ mark' \in 0 .. MaxUses /\ mark <= mark' /\ u <= mark' BY <1>0, MarkGrows DEF TableTypeOK
<1>2. PICK own2 : /\ own[fh] = Nil /\ InUse(own2) = InUse(own) \cup {fh}
                   /\ Pool(nodes', buckets', freeHead')
                   /\ \E rank2 : Described(nodes', HeadsOf(buckets', freeHead'), own2, rank2)
                   /\ Holding(nodes', own2, mark', count + 1)
    BY <1>1, Filled
<1>3. entries' \in 0 .. NodeCount
  <2>1. count + 1 = Cardinality(InUse(own2)) BY <1>2 DEF Holding
  <2> QED BY <2>1, InUseIsFinite
<1>4. Becomes(own2)
  <2>1. PICK rank2 : Described(nodes', HeadsOf(buckets', freeHead'), own2, rank2) BY <1>2
  <2>2. TableOf(own2, rank2)' BY <1>2, <2>1 DEF TableOf
  <2> QED BY <1>1, <1>2, <1>3, <2>2 DEF Becomes
<1>5. fh \in Node /\ ns \in [Node -> Rec] BY DEF Pool, Fills
<1>6. nodes'[fh].key = k /\ nodes'[fh].uses = u /\ nodes'[fh].age = 0 /\ \A p \in Node : p # fh => nodes'[p] = ns[p]
    BY <1>5 DEF Fills
<1>7. Rewritten(nodes', fh, k, u) BY <1>5, <1>6 DEF Rewritten
<1>8. \A p \in InUse(own) : p \in Node /\ p # fh BY <1>2 DEF InUse
<1>9. Alike(ns, nodes', InUse(own)) BY <1>6, <1>8 DEF Alike
<1> QED BY <1>2, <1>4, <1>7, <1>9

LEMMA RemoveDoes ==
    ASSUME TableTypeOK, NEW own, NEW rank, TableOf(own, rank), NEW k \in Key, NEW n \in findNode(k), remove(k, n)
    PROVE  \E own2 : /\ Becomes(own2) /\ n \in InUse(own) /\ InUse(own2) = InUse(own) \ {n}
                     /\ Alike(nodes, nodes', InUse(own2))
<1>1. n \in InUse(own) /\ nodes[n].key = k BY FoundIsInUse
<1> DEFINE t == unlinkNode(bucketOf(nodes[n].key), n)
           own2 == [own EXCEPT ![n] = Nil]
<1>2. /\ InUse(own2) = InUse(own) \ {n} /\ t.freeHead = n
      /\ Pool(t.nodes, t.buckets, n)
      /\ \E rank2 : Described(t.nodes, HeadsOf(t.buckets, n), own2, rank2)
      /\ Holding(t.nodes, own2, mark, entries - 1)
      /\ \A p \in InUse(own2) : /\ t.nodes[p].key = nodes[p].key /\ t.nodes[p].uses = nodes[p].uses
                                /\ t.nodes[p].age = nodes[p].age
    BY <1>1, Emptied
<1>3. nodes' = t.nodes /\ buckets' = t.buckets /\ freeHead' = t.freeHead /\ entries' = entries - 1 /\ mark' = mark
    BY <1>1 DEF remove
<1>4. entries' \in 0 .. NodeCount
  <2>1. entries - 1 = Cardinality(InUse(own2)) BY <1>2 DEF Holding
  <2> QED BY <1>3, <2>1, InUseIsFinite
<1>5. mark \in 0 .. MaxUses BY DEF TableTypeOK
<1> HIDE DEF t, own2
<1>6. Becomes(own2)
  <2>1. PICK rank2 : Described(t.nodes, HeadsOf(t.buckets, n), own2, rank2) BY <1>2
  <2>2. TableOf(own2, rank2)' BY <1>2, <1>3, <2>1 DEF TableOf
  <2> QED BY <1>2, <1>3, <1>4, <1>5, <2>2 DEF Becomes
<1>7. Alike(nodes, nodes', InUse(own2)) BY <1>2, <1>3 DEF Alike
<1> QED BY <1>1, <1>2, <1>6, <1>7

LEMMA StoreDoes ==
    ASSUME TableTypeOK, NEW own, NEW rank, TableOf(own, rank), NEW k \in Key,
           NEW uses \in [0 .. MaxUses -> 0 .. MaxUses], storeInternal(k, uses)
    PROVE  \E own2, n : /\ Becomes(own2) /\ Stores(k, uses, own, own2, n)
                        /\ Alike(nodes, nodes', InUse(own2) \ {n})
<1> DEFINE b == bucketOf(k)
<1>0. /\ nodes \in [Node -> Rec] /\ buckets \in [Bucket -> Node \cup {Nil}] /\ freeHead \in Node \cup {Nil}
      /\ entries \in Int /\ 0 \in 0 .. MaxUses
    BY CacheTableAssumption DEF TableTypeOK, Rec
<1>1. findNode(k) = {n \in InUse(own) : nodes[n].key = k} BY FoundIsInUse
<1>2. Described(nodes, HeadsOf(buckets, freeHead), own, rank) /\ Holding(nodes, own, mark, entries) BY DEF TableOf
<1>3. CASE \E n \in findNode(k) :
              /\ nodes' = [nodes EXCEPT ![n] = [next |-> nodes[n].next, key |-> k, uses |-> uses[nodes[n].uses], age |-> 0]]
              /\ buckets' = buckets /\ freeHead' = freeHead /\ entries' = entries
              /\ mark' = noteMark(uses[nodes[n].uses])
  <2>1. PICK n \in findNode(k) :
              /\ nodes' = [nodes EXCEPT ![n] = [next |-> nodes[n].next, key |-> k, uses |-> uses[nodes[n].uses], age |-> 0]]
              /\ buckets' = buckets /\ freeHead' = freeHead /\ entries' = entries
              /\ mark' = noteMark(uses[nodes[n].uses])
      BY <1>3
  <2>2. n \in InUse(own) /\ nodes[n].key = k BY <1>1
  <2>3. uses[nodes[n].uses] \in 0 .. MaxUses BY <1>0, <2>2 DEF InUse, Rec
  <2>4. Becomes(own) /\ Rewritten(nodes', n, k, uses[nodes[n].uses]) /\ Alike(nodes, nodes', InUse(own) \ {n})
      BY <2>1, <2>2, <2>3, StoredAnew
  <2> QED BY <2>2, <2>4 DEF Stores
<1>4. CASE /\ ~contains(k) /\ freeHead # Nil
           /\ nodes' = [nodes EXCEPT ![freeHead] = [next |-> buckets[b], key |-> k, uses |-> uses[0], age |-> 0]]
           /\ buckets' = [buckets EXCEPT ![b] = freeHead] /\ freeHead' = nodes[freeHead].next
           /\ mark' = noteMark(uses[0]) /\ entries' = entries + 1
  <2>1. \A p \in InUse(own) : nodes[p].key # k BY <1>1, <1>4 DEF contains
  <2>2. uses[0] \in 0 .. MaxUses BY <1>0
  <2>3. Fills(nodes, nodes', buckets, buckets', freeHead, own, k, uses[0]) BY <1>4, <2>1, <2>2 DEF Fills
  <2>4. Pool(nodes, buckets, freeHead) BY <1>0 DEF Pool
  <2>5. PICK own2 : /\ Becomes(own2) /\ own[freeHead] = Nil /\ InUse(own2) = InUse(own) \cup {freeHead}
                    /\ Rewritten(nodes', freeHead, k, uses[0]) /\ Alike(nodes, nodes', InUse(own))
      BY <1>0, <1>2, <1>4, <2>3, <2>4, StoredNew
  <2>6. freeHead \notin InUse(own) BY <2>5 DEF InUse
  <2>7. Alike(nodes, nodes', InUse(own2) \ {freeHead}) BY <2>5 DEF Alike
  <2>8. Stores(k, uses, own, own2, freeHead) BY <1>4, <2>1, <2>5, <2>6 DEF Stores
  <2> QED BY <2>5, <2>7, <2>8
<1>5. CASE \E n \in Linked :
             LET t == unlinkNode(bucketOf(nodes[n].key), n) IN
             /\ ~contains(k) /\ freeHead = Nil /\ findEvictVictim(n)
             /\ nodes' = [t.nodes EXCEPT ![n] = [next |-> t.buckets[b], key |-> k, uses |-> uses[0], age |-> 0]]
             /\ buckets' = [t.buckets EXCEPT ![b] = n] /\ freeHead' = t.nodes[n].next
             /\ mark' = noteMark(uses[0]) /\ entries' = entries
  <2>0. PICK n \in Linked :
             LET t == unlinkNode(bucketOf(nodes[n].key), n) IN
             /\ ~contains(k) /\ freeHead = Nil /\ findEvictVictim(n)
             /\ nodes' = [t.nodes EXCEPT ![n] = [next |-> t.buckets[b], key |-> k, uses |-> uses[0], age |-> 0]]
             /\ buckets' = [t.buckets EXCEPT ![b] = n] /\ freeHead' = t.nodes[n].next
             /\ mark' = noteMark(uses[0]) /\ entries' = entries
      BY <1>5
  <2> DEFINE t == unlinkNode(bucketOf(nodes[n].key), n)
             own1 == [own EXCEPT ![n] = Nil]
  <2>1. /\ ~contains(k) /\ freeHead = Nil /\ findEvictVictim(n)
        /\ nodes' = [t.nodes EXCEPT ![n] = [next |-> t.buckets[b], key |-> k, uses |-> uses[0], age |-> 0]]
        /\ buckets' = [t.buckets EXCEPT ![b] = n] /\ freeHead' = t.nodes[n].next
        /\ mark' = noteMark(uses[0]) /\ entries' = entries
      BY <2>0
  <2>2. n \in InUse(own) /\ n \in Node BY ChainsAre DEF InUse
  <2>3. /\ InUse(own1) = InUse(own) \ {n}
        /\ Pool(t.nodes, t.buckets, n)
        /\ \E rank2 : Described(t.nodes, HeadsOf(t.buckets, n), own1, rank2)
        /\ Holding(t.nodes, own1, mark, entries - 1)
        /\ \A p \in InUse(own1) : /\ t.nodes[p].key = nodes[p].key /\ t.nodes[p].uses = nodes[p].uses
                                  /\ t.nodes[p].age = nodes[p].age
      BY <2>2, Emptied
  <2> HIDE DEF t, own1
  <2>4. PICK rank1 : Described(t.nodes, HeadsOf(t.buckets, n), own1, rank1) BY <2>3
  <2>5. \A p \in InUse(own) : nodes[p].key # k BY <1>1, <2>1 DEF contains
  <2>6. \A p \in InUse(own1) : t.nodes[p].key # k BY <2>3, <2>5
  <2>7. uses[0] \in 0 .. MaxUses /\ n # Nil BY <1>0, <2>2, NodesAre
  <2>8. Fills(t.nodes, nodes', t.buckets, buckets', n, own1, k, uses[0]) BY <2>1, <2>6, <2>7 DEF Fills
  <2>9. entries' = (entries - 1) + 1 /\ entries - 1 \in Int BY <1>0, <2>1
  <2>10. PICK own2 : /\ Becomes(own2) /\ InUse(own2) = InUse(own1) \cup {n}
                     /\ Rewritten(nodes', n, k, uses[0]) /\ Alike(t.nodes, nodes', InUse(own1))
    <3>1. freeHead' = t.nodes[n].next /\ mark' = noteMark(uses[0]) BY <2>1
    <3> DEFINE count == entries - 1
               ns == t.nodes
               bs == t.buckets
               u == uses[0]
    <3>2. count \in Int /\ entries' = count + 1 /\ Holding(ns, own1, mark, count) BY <2>3, <2>9
    <3>3. Pool(ns, bs, n) /\ Described(ns, HeadsOf(bs, n), own1, rank1) BY <2>3, <2>4
    <3>4. Fills(ns, nodes', bs, buckets', n, own1, k, u) /\ freeHead' = ns[n].next /\ mark' = noteMark(u)
        BY <2>8, <3>1
    <3> HIDE DEF count, ns, bs, u
    <3>5. \E own2 : /\ Becomes(own2) /\ own1[n] = Nil /\ InUse(own2) = InUse(own1) \cup {n}
                    /\ Rewritten(nodes', n, k, u) /\ Alike(ns, nodes', InUse(own1))
        BY <3>2, <3>3, <3>4, StoredNew
    <3> QED BY <3>5 DEF ns, u
  <2>11. InUse(own2) = InUse(own) BY <2>2, <2>3, <2>10
  <2>12. Alike(nodes, nodes', InUse(own2) \ {n}) BY <2>3, <2>10, <2>11 DEF Alike
  <2>13. Stores(k, uses, own, own2, n) BY <2>1, <2>2, <2>5, <2>10, <2>11 DEF Stores
  <2> QED BY <2>10, <2>12, <2>13
<1>6. \/ \E n \in findNode(k) :
              /\ nodes' = [nodes EXCEPT ![n] = [next |-> nodes[n].next, key |-> k, uses |-> uses[nodes[n].uses], age |-> 0]]
              /\ buckets' = buckets /\ freeHead' = freeHead /\ entries' = entries
              /\ mark' = noteMark(uses[nodes[n].uses])
      \/ /\ ~contains(k) /\ freeHead # Nil
         /\ nodes' = [nodes EXCEPT ![freeHead] = [next |-> buckets[b], key |-> k, uses |-> uses[0], age |-> 0]]
         /\ buckets' = [buckets EXCEPT ![b] = freeHead] /\ freeHead' = nodes[freeHead].next
         /\ mark' = noteMark(uses[0]) /\ entries' = entries + 1
      \/ \E n \in Linked :
             LET t == unlinkNode(bucketOf(nodes[n].key), n) IN
             /\ ~contains(k) /\ freeHead = Nil /\ findEvictVictim(n)
             /\ nodes' = [t.nodes EXCEPT ![n] = [next |-> t.buckets[b], key |-> k, uses |-> uses[0], age |-> 0]]
             /\ buckets' = [t.buckets EXCEPT ![b] = n] /\ freeHead' = t.nodes[n].next
             /\ mark' = noteMark(uses[0]) /\ entries' = entries
    BY DEF storeInternal
<1> QED BY <1>3, <1>4, <1>5, <1>6

-----------------------------------------------------------------------------
TaskTypes == arena \in BOOLEAN /\ ignoreTtl \in BOOLEAN /\ fault \in BOOLEAN /\ inside \in {"none", "query", "save"}

LEMMA TypesOfTable ==
    TableTypeOK <=> TaskTypes /\ Pool(nodes, buckets, freeHead) /\ mark \in 0 .. MaxUses /\ entries \in 0 .. NodeCount
BY DEF TableTypeOK, TaskTypes, Pool, Rec

LEMMA BecomesTable == ASSUME NEW own, Becomes(own), TaskTypes', arena' PROVE TableInv'
<1>1. TableTypeOK' <=> TaskTypes' /\ Pool(nodes', buckets', freeHead') /\ mark' \in 0 .. MaxUses /\ entries' \in 0 .. NodeCount
    BY DEF TableTypeOK, TaskTypes, Pool, Rec
<1> QED BY <1>1 DEF Becomes, TableInv

LEMMA NoTable == Pool([n \in Node |-> Blank(Nil)], [b \in Bucket |-> Nil], Nil) /\ 0 \in 0 .. MaxUses /\ 0 \in 0 .. NodeCount
<1>1. 0 \in 0 .. MaxUses /\ 0 \in 0 .. NodeCount BY CacheTableAssumption
<1>2. Blank(Nil) \in Rec BY BlankIsRec
<1> QED BY <1>1, <1>2 DEF Pool

LEMMA TableStart == TableInit => TableInv
<1> SUFFICES ASSUME TableInit PROVE TableInv OBVIOUS
<1>1. TaskTypes BY DEF TableInit, TaskTypes
<1>2. Pool(nodes, buckets, freeHead) /\ mark \in 0 .. MaxUses /\ entries \in 0 .. NodeCount BY NoTable DEF TableInit
<1>3. TableTypeOK BY <1>1, <1>2, TypesOfTable
<1> QED BY <1>3 DEF TableInit, TableInv, emptyBuckets

\* The pool as enable() and clear() leave it.
LEMMA FreshPool ==
    ASSUME buckets' = emptyBuckets, nodes' = freeNodes, freeHead' = NodeCount - 1, entries' = 0, mark' = 0
    PROVE  Becomes([n \in Node |-> Nil]) /\ InUse([n \in Node |-> Nil]) = {}
<1> DEFINE own == [n \in Node |-> Nil]
           rank == [n \in Node |-> n]
<1>1. InUse(own) = {} BY DEF InUse
<1>2. Described(freeNodes, HeadsOf(emptyBuckets, NodeCount - 1), own, rank) BY AllFree
<1> HIDE DEF own, rank
<1>3. Holding(freeNodes, own, 0, 0) BY <1>1, FS_EmptySet DEF Holding
<1>4. TableOf(own, rank)' BY <1>2, <1>3 DEF TableOf
<1>5. \A n \in Node : n - 1 \in Node \cup {Nil} BY CacheTableAssumption DEF Node, Nil
<1>6. freeNodes \in [Node -> Rec]
  <2>1. \A n \in Node : Blank(n - 1) \in Rec BY <1>5, BlankIsRec
  <2> QED BY <2>1 DEF freeNodes
<1>7. NodeCount - 1 \in Node BY CacheTableAssumption DEF Node
<1>8. Pool(nodes', buckets', freeHead') BY <1>6, <1>7 DEF Pool, emptyBuckets
<1>9. mark' \in 0 .. MaxUses /\ entries' \in 0 .. NodeCount BY NoTable
<1> QED BY <1>1, <1>4, <1>8, <1>9 DEF Becomes, own

\* A hit counts one more use, up to the limit of the counter.
LEMMA HitDoes ==
    ASSUME TableTypeOK, NEW own, NEW rank, TableOf(own, rank), NEW n \in InUse(own),
           nodes' = [nodes EXCEPT ![n].uses = bumpUse(@)], mark' = noteMark(bumpUse(nodes[n].uses)),
           UNCHANGED <<buckets, freeHead, entries>>
    PROVE  /\ Becomes(own) /\ Alike(nodes, nodes', InUse(own) \ {n})
           /\ nodes'[n].key = nodes[n].key /\ nodes'[n].age = nodes[n].age
           /\ nodes'[n].uses = bumpUse(nodes[n].uses)
<1> DEFINE u == bumpUse(nodes[n].uses)
           r == [nodes[n] EXCEPT !.uses = u]
<1>1. Pool(nodes, buckets, freeHead) /\ mark \in 0 .. MaxUses /\ entries \in 0 .. NodeCount BY TypesOfTable
<1>2. n \in Node /\ nodes \in [Node -> Rec] /\ nodes[n] \in Rec BY <1>1 DEF InUse, Pool
<1>3. nodes[n].uses \in 0 .. MaxUses BY <1>2 DEF Rec
<1>4. u \in 0 .. MaxUses BY <1>3, CacheTableAssumption DEF bumpUse
<1> HIDE DEF u
<1>5. r \in Rec /\ r.next = nodes[n].next /\ r.key = nodes[n].key /\ r.uses = u /\ r.age = nodes[n].age
    BY <1>2, <1>4 DEF Rec
<1>6. nodes' = [nodes EXCEPT ![n] = r] BY <1>2 DEF u
<1> HIDE DEF r
<1>7. nodes' \in [Node -> Rec] /\ nodes'[n] = r /\ \A p \in Node : p # n => nodes'[p] = nodes[p] BY <1>2, <1>5, <1>6
<1>8. mark' \in 0 .. MaxUses /\ mark <= mark' /\ u <= mark' BY <1>4, MarkGrows DEF u
<1>9. \A p \in InUse(own) : p \in Node BY DEF InUse
<1>10. \A p \in InUse(own) : nodes'[p].key = nodes[p].key /\ nodes'[p].uses <= mark'
  <2> SUFFICES ASSUME NEW p \in InUse(own) PROVE nodes'[p].key = nodes[p].key /\ nodes'[p].uses <= mark'
      OBVIOUS
  <2>1. CASE p = n BY <1>5, <1>7, <1>8, <2>1
  <2>2. CASE p # n
    <3>1. nodes[p].uses <= mark BY DEF TableOf, Holding
    <3>2. nodes[p].uses \in 0 .. MaxUses BY <1>2, <1>9 DEF Rec
    <3>3. nodes[p].uses <= mark' BY <1>1, <1>8, <3>1, <3>2, CacheTableAssumption
    <3> QED BY <1>7, <1>9, <2>2, <3>3
  <2> QED BY <2>1, <2>2
<1>11. \A p \in Node : nodes'[p].next = nodes[p].next BY <1>5, <1>7
<1>12. KeepsLinks(nodes, nodes', own, mark') BY <1>10, <1>11 DEF KeepsLinks
<1>13. Described(nodes, HeadsOf(buckets, freeHead), own, rank) /\ Holding(nodes, own, mark, entries) BY DEF TableOf
<1>14. Described(nodes', HeadsOf(buckets, freeHead), own, rank) /\ Holding(nodes', own, mark', entries)
    BY <1>12, <1>13, HeldInPlace
<1>15. TableOf(own, rank)' BY <1>14 DEF TableOf
<1>16. Becomes(own) BY <1>1, <1>7, <1>8, <1>15 DEF Becomes, Pool
<1>17. Alike(nodes, nodes', InUse(own) \ {n}) BY <1>7, <1>9 DEF Alike
<1> QED BY <1>5, <1>7, <1>16, <1>17 DEF u

\* A millisecond passes for the nodes in use.
Older(a) == (a + 1) % ClockMod
LEMMA TimeDoes ==
    ASSUME TableTypeOK, NEW own, NEW rank, TableOf(own, rank), nowMs
    PROVE  /\ Becomes(own)
           /\ \A n \in InUse(own) : /\ nodes'[n].key = nodes[n].key /\ nodes'[n].uses = nodes[n].uses
                                    /\ nodes'[n].age = Older(nodes[n].age)
<1>1. Pool(nodes, buckets, freeHead) /\ mark \in 0 .. MaxUses /\ entries \in 0 .. NodeCount BY TypesOfTable
<1>2. nodes \in [Node -> Rec] /\ \A n \in Node : nodes[n] \in Rec BY <1>1 DEF Pool
<1>3. Linked = InUse(own) BY ChainsAre
<1>4. \A n \in InUse(own) : n \in Node BY DEF InUse
<1>5. \A a \in 0 .. ClockMod - 1 : Older(a) \in 0 .. ClockMod - 1 BY CacheTableAssumption DEF Older
<1>6. nodes' = [n \in Node |-> IF n \in InUse(own) THEN [nodes[n] EXCEPT !.age = Older(@)] ELSE nodes[n]]
      /\ UNCHANGED <<buckets, freeHead, entries, mark>>
    BY <1>3 DEF nowMs, Older
<1>7. \A n \in Node : /\ [nodes[n] EXCEPT !.age = Older(@)] \in Rec
                      /\ [nodes[n] EXCEPT !.age = Older(@)].next = nodes[n].next
                      /\ [nodes[n] EXCEPT !.age = Older(@)].key = nodes[n].key
                      /\ [nodes[n] EXCEPT !.age = Older(@)].uses = nodes[n].uses
                      /\ [nodes[n] EXCEPT !.age = Older(@)].age = Older(nodes[n].age)
    BY <1>2, <1>5 DEF Rec
<1>8. nodes' \in [Node -> Rec] BY <1>2, <1>6, <1>7
<1>9. \A n \in InUse(own) : /\ nodes'[n].key = nodes[n].key /\ nodes'[n].uses = nodes[n].uses
                            /\ nodes'[n].age = Older(nodes[n].age)
    BY <1>4, <1>6, <1>7
<1>10. \A n \in Node : nodes'[n].next = nodes[n].next BY <1>6, <1>7
<1>11. \A n \in InUse(own) : nodes[n].uses <= mark BY DEF TableOf, Holding
<1>12. KeepsLinks(nodes, nodes', own, mark) BY <1>9, <1>10, <1>11 DEF KeepsLinks
<1>13. Described(nodes, HeadsOf(buckets, freeHead), own, rank) /\ Holding(nodes, own, mark, entries) BY DEF TableOf
<1>14. Described(nodes', HeadsOf(buckets, freeHead), own, rank) /\ Holding(nodes', own, mark, entries)
    BY <1>12, <1>13, HeldInPlace
<1>15. TableOf(own, rank)' BY <1>6, <1>14 DEF TableOf
<1>16. Becomes(own) BY <1>1, <1>6, <1>8, <1>15 DEF Becomes, Pool
<1> QED BY <1>9, <1>16

\* A lookup leaves the pool alone, removes a record past its lifetime or counts a use.
LookedUp(k) ==
    \/ ~contains(k) /\ UNCHANGED pool
    \/ \E n \in findNode(k) :
          \/ expired(n) /\ remove(k, n)
          \/ /\ ~expired(n)
             /\ nodes' = [nodes EXCEPT ![n].uses = bumpUse(@)]
             /\ mark' = noteMark(bumpUse(nodes[n].uses))
             /\ UNCHANGED <<buckets, freeHead, entries>>

UsesOf(u) == [old \in 0 .. MaxUses |-> u]
UsesUp == [u \in 0 .. MaxUses |-> bumpUse(u)]
LEMMA UsesAre ==
    UsesUp \in [0 .. MaxUses -> 0 .. MaxUses] /\ \A u \in 0 .. MaxUses : UsesOf(u) \in [0 .. MaxUses -> 0 .. MaxUses]
<1>1. \A u \in 0 .. MaxUses : bumpUse(u) \in 0 .. MaxUses BY CacheTableAssumption DEF bumpUse
<1> QED BY <1>1 DEF UsesUp, UsesOf

\* The steps of the table, as the proofs below tell them apart.
LEMMA TableSteps ==
    ASSUME TableNext
    PROVE  \/ /\ UNCHANGED pool /\ arena' = arena /\ (TaskTypes => TaskTypes')
              /\ UNCHANGED ignoreTtl \/ ignoreTtl' = ~ignoreTtl
           \/ /\ ~arena /\ arena' /\ UNCHANGED <<ignoreTtl, inside, fault>>
              /\ buckets' = emptyBuckets /\ nodes' = freeNodes /\ freeHead' = NodeCount - 1 /\ entries' = 0 /\ mark' = 0
           \/ disable
           \/ /\ arena /\ arena' /\ UNCHANGED ignoreTtl /\ (TaskTypes => TaskTypes')
              /\ \/ buckets' = emptyBuckets /\ nodes' = freeNodes /\ freeHead' = NodeCount - 1 /\ entries' = 0 /\ mark' = 0
                 \/ nowMs
                 \/ \E k \in Key : \/ storeInternal(k, UsesUp) \/ LookedUp(k) \/ \E n \in findNode(k) : remove(k, n)
                                   \/ \E u \in 0 .. MaxUses : storeInternal(k, UsesOf(u))
<1>1. CASE enable BY <1>1 DEF enable
<1>2. CASE disable BY <1>2
<1>3. CASE setIgnoreTtl BY <1>3 DEF setIgnoreTtl, TaskTypes
<1>4. CASE clear BY <1>4 DEF clear, TaskTypes
<1>5. CASE nowMs BY <1>5 DEF nowMs, TaskTypes
<1>6. CASE dnsTask_Enter \/ dnsTask_Fault \/ saveToFile_Snapshot \/ saveToFile_Read
    BY <1>6 DEF dnsTask_Enter, dnsTask_Fault, saveToFile_Snapshot, saveToFile_Read, TaskTypes
<1>7. ASSUME NEW k \in Key, store(k) PROVE storeInternal(k, UsesUp) /\ arena /\ arena' /\ UNCHANGED ignoreTtl /\ (TaskTypes => TaskTypes')
    BY <1>7 DEF store, dnsTask, UsesUp, TaskTypes
<1>8. ASSUME NEW k \in Key, lookup(k) PROVE LookedUp(k) /\ arena /\ arena' /\ UNCHANGED ignoreTtl /\ (TaskTypes => TaskTypes')
    BY <1>8 DEF lookup, dnsTask, LookedUp, TaskTypes
<1>9. ASSUME NEW k \in Key, erase(k)
      PROVE  (\E n \in findNode(k) : remove(k, n)) /\ arena /\ arena' /\ UNCHANGED ignoreTtl /\ (TaskTypes => TaskTypes')
    BY <1>9 DEF erase, TaskTypes
<1>10. ASSUME NEW k \in Key, NEW u \in 0 .. MaxUses, loadFromFile(k, u)
       PROVE  storeInternal(k, UsesOf(u)) /\ arena /\ arena' /\ UNCHANGED ignoreTtl /\ (TaskTypes => TaskTypes')
    BY <1>10 DEF loadFromFile, UsesOf, TaskTypes
<1> QED BY <1>1, <1>2, <1>3, <1>4, <1>5, <1>6, <1>7, <1>8, <1>9, <1>10 DEF TableNext

LEMMA TableInductive == TableInv /\ [TableNext]_tableVars => TableInv'
<1> SUFFICES ASSUME TableInv, [TableNext]_tableVars PROVE TableInv' OBVIOUS
<1>1. TableTypeOK /\ TaskTypes /\ Pool(nodes, buckets, freeHead) /\ mark \in 0 .. MaxUses /\ entries \in 0 .. NodeCount
    BY TypesOfTable DEF TableInv
<1>2. ASSUME UNCHANGED pool, arena' = arena, TaskTypes' PROVE TableInv'
  <2>1. CASE arena
    <3>1. PICK own, rank : TableOf(own, rank) BY <2>1 DEF TableInv
    <3>2. TableOf(own, rank)' BY <1>2, <3>1 DEF TableOf, pool
    <3>3. Becomes(own) BY <1>1, <1>2, <3>2 DEF Becomes, pool
    <3> QED BY <1>2, <2>1, <3>3, BecomesTable
  <2>2. CASE ~arena
    <3>1. buckets' = emptyBuckets /\ entries' = 0 BY <1>2, <2>2 DEF TableInv, pool
    <3>2. TableTypeOK' BY <1>1, <1>2 DEF TableTypeOK, TaskTypes, pool
    <3> QED BY <1>2, <2>2, <3>1, <3>2 DEF TableInv
  <2> QED BY <2>1, <2>2
<1>3. CASE UNCHANGED tableVars
  <2>1. UNCHANGED pool /\ arena' = arena /\ TaskTypes' BY <1>1, <1>3 DEF tableVars, pool, TaskTypes
  <2> QED BY <1>2, <2>1
<1>4. CASE TableNext
  <2>1. ASSUME UNCHANGED pool, arena' = arena, TaskTypes => TaskTypes' PROVE TableInv' BY <1>1, <1>2, <2>1
  <2>2. ASSUME arena', TaskTypes', buckets' = emptyBuckets, nodes' = freeNodes, freeHead' = NodeCount - 1,
               entries' = 0, mark' = 0
        PROVE  TableInv'
      BY <2>2, FreshPool, BecomesTable
  <2>3. ASSUME disable PROVE TableInv'
    <3>1. Pool(nodes', buckets', freeHead') /\ mark' \in 0 .. MaxUses /\ entries' \in 0 .. NodeCount
        BY <2>3, NoTable DEF disable
    <3>2. TaskTypes' BY <1>1, <2>3 DEF disable, TaskTypes
    <3>3. TableTypeOK' BY <3>1, <3>2 DEF TableTypeOK, TaskTypes, Pool, Rec
    <3> QED BY <2>3, <3>3 DEF disable, TableInv, emptyBuckets
  <2>4. ASSUME arena, arena', TaskTypes',
               \/ nowMs
               \/ \E k \in Key : \/ storeInternal(k, UsesUp) \/ LookedUp(k) \/ \E n \in findNode(k) : remove(k, n)
                                 \/ \E u \in 0 .. MaxUses : storeInternal(k, UsesOf(u))
        PROVE  TableInv'
    <3>1. PICK own, rank : TableOf(own, rank) BY <2>4 DEF TableInv
    <3>2. CASE nowMs BY <1>1, <2>4, <3>1, <3>2, TimeDoes, BecomesTable
    <3>3. ASSUME NEW k \in Key, NEW uses \in [0 .. MaxUses -> 0 .. MaxUses], storeInternal(k, uses) PROVE TableInv'
      <4>1. PICK own2, n : Becomes(own2) BY <1>1, <3>1, <3>3, StoreDoes
      <4> QED BY <2>4, <4>1, BecomesTable
    <3>4. ASSUME NEW k \in Key, NEW n \in findNode(k), remove(k, n) PROVE TableInv'
      <4>1. PICK own2 : Becomes(own2) BY <1>1, <3>1, <3>4, RemoveDoes
      <4> QED BY <2>4, <4>1, BecomesTable
    <3>5. ASSUME NEW k \in Key, LookedUp(k) PROVE TableInv'
      <4>1. CASE UNCHANGED pool BY <1>2, <2>4, <4>1
      <4>2. CASE \E n \in findNode(k) : remove(k, n) BY <3>4, <4>2
      <4>3. ASSUME NEW n \in findNode(k), nodes' = [nodes EXCEPT ![n].uses = bumpUse(@)],
                   mark' = noteMark(bumpUse(nodes[n].uses)), UNCHANGED <<buckets, freeHead, entries>>
            PROVE  TableInv'
        <5>1. n \in InUse(own) BY <1>1, <3>1, FoundIsInUse
        <5>2. Becomes(own) BY <1>1, <3>1, <4>3, <5>1, HitDoes
        <5> QED BY <2>4, <5>2, BecomesTable
      <4> QED BY <3>5, <4>1, <4>2, <4>3 DEF LookedUp
    <3> QED BY <2>4, <3>2, <3>3, <3>4, <3>5, UsesAre
  <2>5. ASSUME UNCHANGED <<ignoreTtl, inside, fault>>, arena' PROVE TaskTypes' BY <1>1, <2>5 DEF TaskTypes
  <2> QED BY <1>1, <1>4, <2>1, <2>2, <2>3, <2>4, <2>5, TableSteps
<1> QED BY <1>3, <1>4

-----------------------------------------------------------------------------
(***************************************************************************)
(* The table implements the map.                                           *)
(***************************************************************************)
RecordsIn(ns, S) ==
    [k \in {ns[n].key : n \in S} |->
        LET n == CHOOSE n \in S : ns[n].key = k
        IN  [age |-> ns[n].age, uses |-> ns[n].uses]]

\* `m` shows the records of the nodes `S`, which have different keys.
Shows(m, ns, S) ==
    /\ m = [k \in DOMAIN m |-> m[k]] /\ DOMAIN m = {ns[n].key : n \in S}
    /\ \A n \in S : m[ns[n].key] = [age |-> ns[n].age, uses |-> ns[n].uses]
    /\ \A n, p \in S : ns[n].key = ns[p].key => n = p

LEMMA RecordsShow ==
    ASSUME NEW ns, NEW S, \A n, p \in S : ns[n].key = ns[p].key => n = p
    PROVE  Shows(RecordsIn(ns, S), ns, S)
<1> DEFINE m == RecordsIn(ns, S)
<1>1. DOMAIN m = {ns[n].key : n \in S} /\ m = [k \in DOMAIN m |-> m[k]] BY DEF RecordsIn
<1>2. ASSUME NEW n \in S PROVE m[ns[n].key] = [age |-> ns[n].age, uses |-> ns[n].uses]
  <2>1. (CHOOSE p \in S : ns[p].key = ns[n].key) = n OBVIOUS
  <2>2. m[ns[n].key] = LET p == CHOOSE p \in S : ns[p].key = ns[n].key
                       IN  [age |-> ns[p].age, uses |-> ns[p].uses]
      BY DEF RecordsIn
  <2> QED BY <2>1, <2>2
<1> QED BY <1>1, <1>2 DEF Shows

LEMMA ShownAs ==
    ASSUME NEW m, NEW ns, NEW S, Shows(m, ns, S), NEW n \in S
    PROVE  /\ ns[n].key \in DOMAIN m /\ m[ns[n].key] = [age |-> ns[n].age, uses |-> ns[n].uses]
           /\ m[ns[n].key].uses = ns[n].uses
           /\ m[ns[n].key].age = ns[n].age
<1>1. m[ns[n].key] = [age |-> ns[n].age, uses |-> ns[n].uses] BY DEF Shows
<1>2. ns[n].key \in DOMAIN m BY DEF Shows
<1> QED BY <1>1, <1>2

LEMMA LinkedIn ==
    ASSUME NEW ns, NEW bs, NEW fh, NEW own, NEW rank, Described(ns, HeadsOf(bs, fh), own, rank)
    PROVE  UNION {Listed(ns, bs[b]) : b \in Bucket} = InUse(own)
<1> DEFINE hs == HeadsOf(bs, fh)
           L == UNION {Listed(ns, bs[b]) : b \in Bucket}
<1>1. \A l \in Lists : Listed(ns, hs[l]) = {n \in Node : own[n] = l}
  <2> HIDE DEF hs
  <2> QED BY ListsAreWalked DEF hs
<1>2. \A b \in Bucket : b \in Lists /\ hs[b] = bs[b] /\ b # Nil BY NodesAre DEF HeadsOf, Lists
<1> HIDE DEF hs
<1>3. \A n \in InUse(own) : n \in Node /\ own[n] \in Bucket BY DEF Described, InUse, Lists
<1>4. \A n : n \in L <=> \E b \in Bucket : n \in Listed(ns, bs[b]) OBVIOUS
<1>5. \A b \in Bucket : Listed(ns, bs[b]) = {n \in Node : own[n] = b} BY <1>1, <1>2
<1>6. \A n : n \in L <=> \E b \in Bucket : n \in Node /\ own[n] = b BY <1>4, <1>5
<1> HIDE DEF L
<1>7. L = InUse(own) BY <1>2, <1>3, <1>6 DEF InUse
<1> QED BY <1>7 DEF L

LEMMA RecordsNow ==
    ASSUME arena, NEW own, NEW rank, TableOf(own, rank)
    PROVE  Shows(Records, nodes, InUse(own))
<1>1. Linked = InUse(own) BY LinkedIn DEF Linked, TableOf
<1>2. Records = RecordsIn(nodes, InUse(own)) BY <1>1 DEF Records, RecordsIn
<1>3. \A n, p \in InUse(own) : nodes[n].key = nodes[p].key => n = p BY DEF TableOf, Holding
<1> QED BY <1>2, <1>3, RecordsShow

LEMMA RecordsThen ==
    ASSUME arena', NEW own, Becomes(own)
    PROVE  Shows(Records', nodes', InUse(own))
<1>0. PICK rank : TableOf(own, rank)' BY DEF Becomes
<1>1. Linked' = InUse(own)
  <2>1. Described(nodes', HeadsOf(buckets', freeHead'), own, rank) BY <1>0 DEF TableOf
  <2>2. UNION {Listed(nodes', buckets'[b]) : b \in Bucket} = InUse(own) BY <2>1, LinkedIn
  <2> QED BY <2>2 DEF Linked
<1>2. Records' = RecordsIn(nodes', InUse(own)) BY <1>1 DEF Records, RecordsIn
<1>3. \A n, p \in InUse(own) : nodes'[n].key = nodes'[p].key => n = p BY <1>0 DEF TableOf, Holding
<1> QED BY <1>2, <1>3, RecordsShow

LEMMA NoRecords == (~arena => Records = Map!Empty) /\ (~arena' => Records' = Map!Empty)
<1>1. ASSUME NEW ns PROVE RecordsIn(ns, {}) = Map!Empty BY DEF RecordsIn, Map!Empty
<1>2. ~arena => Records = RecordsIn(nodes, {}) BY DEF Records, RecordsIn
<1>3. ~arena' => Records' = RecordsIn(nodes', {}) BY DEF Records, RecordsIn
<1> QED BY <1>1, <1>2, <1>3

LEMMA SameCount == \A T : Map!Cardinality(T) = Cardinality(T)
BY DEF Map!Cardinality, Cardinality

\* A map of as many records as there are nodes in use.
LEMMA SizeOfMap ==
    ASSUME NEW m, NEW ns, NEW own, Shows(m, ns, InUse(own))
    PROVE  Cardinality(DOMAIN m) = Cardinality(InUse(own))
<1> DEFINE S == InUse(own)
           f == [n \in S |-> ns[n].key]
<1>1. IsFiniteSet(S) BY InUseIsFinite
<1> HIDE DEF S
<1>2. f \in [S -> DOMAIN m] BY DEF Shows, S
<1>3. \A n, p \in S : f[n] = f[p] => n = p BY DEF Shows, S
<1>4. \A k \in DOMAIN m : \E n \in S : f[n] = k BY DEF Shows, S
<1>5. f \in Bijection(S, DOMAIN m) BY <1>2, <1>3, <1>4 DEF Bijection, Injection, Surjection, IsInjective
<1>6. ExistsBijection(S, DOMAIN m) BY <1>5 DEF ExistsBijection
<1> QED BY <1>1, <1>6, FS_Bijection DEF S

LEMMA MapWith ==
    ASSUME NEW m, NEW new, NEW ns, NEW ms, NEW S, NEW T, NEW n \in T, NEW k, NEW u,
           Shows(m, ns, S), Shows(new, ms, T), Alike(ns, ms, T \ {n}), Rewritten(ms, n, k, u),
           \/ T = S /\ ns[n].key = k
           \/ T = S \cup {n} /\ n \notin S /\ \A p \in S : ns[p].key # k
    PROVE  new = Map!With(m, k, Map!Fresh(u))
<1> DEFINE r == Map!Fresh(u)
           w == Map!With(m, k, r)
<1>1. w = [j \in DOMAIN m \cup {k} |-> IF j = k THEN r ELSE m[j]] BY DEF Map!With
<1>2. new[k] = r BY DEF Shows, Rewritten, Map!Fresh
<1>3. \A p \in T \ {n} : p \in S /\ ms[p].key = ns[p].key /\ ms[p].key # k /\ new[ms[p].key] = m[ns[p].key]
  <2> SUFFICES ASSUME NEW p \in T, p # n
               PROVE  p \in S /\ ms[p].key = ns[p].key /\ ms[p].key # k /\ new[ms[p].key] = m[ns[p].key]
      OBVIOUS
  <2>1. p \in S OBVIOUS
  <2>2. ms[p].key = ns[p].key /\ ms[p].uses = ns[p].uses /\ ms[p].age = ns[p].age BY DEF Alike
  <2>3. new[ms[p].key] = [age |-> ms[p].age, uses |-> ms[p].uses] /\ m[ns[p].key] = [age |-> ns[p].age, uses |-> ns[p].uses]
      BY <2>1 DEF Shows
  <2>4. ms[p].key # k BY DEF Shows, Rewritten
  <2> QED BY <2>1, <2>2, <2>3, <2>4
<1>4. DOMAIN new = DOMAIN m \cup {k}
  <2>1. DOMAIN new = {ms[p].key : p \in T} /\ DOMAIN m = {ns[p].key : p \in S} BY DEF Shows
  <2>2. ms[n].key = k BY DEF Rewritten
  <2>3. \A p \in S : ns[p].key = k \/ p \in T \ {n} OBVIOUS
  <2> QED BY <1>3, <2>1, <2>2, <2>3
<1>5. ASSUME NEW j \in DOMAIN new PROVE new[j] = IF j = k THEN r ELSE m[j]
  <2>1. PICK p \in T : j = ms[p].key BY DEF Shows
  <2>2. CASE p = n BY <1>2, <2>1, <2>2 DEF Rewritten
  <2>3. CASE p # n BY <1>3, <2>1, <2>3
  <2> QED BY <2>2, <2>3
<1>6. new = [j \in DOMAIN new |-> new[j]] BY DEF Shows
<1> HIDE DEF r, w
<1>7. new = w BY <1>1, <1>4, <1>5, <1>6
<1> QED BY <1>7 DEF r, w

LEMMA MapWithout ==
    ASSUME NEW m, NEW new, NEW ns, NEW ms, NEW S, NEW T, NEW n \in S,
           Shows(m, ns, S), Shows(new, ms, T), Alike(ns, ms, T), T = S \ {n}
    PROVE  ns[n].key \in DOMAIN m /\ new = Map!Without(m, ns[n].key)
<1> DEFINE k == ns[n].key
           w == Map!Without(m, k)
<1>1. w = [j \in DOMAIN m \ {k} |-> m[j]] BY DEF Map!Without
<1>2. \A p \in T : p \in S /\ ms[p].key = ns[p].key /\ ms[p].key # k /\ new[ms[p].key] = m[ns[p].key]
  <2> SUFFICES ASSUME NEW p \in T
               PROVE  p \in S /\ ms[p].key = ns[p].key /\ ms[p].key # k /\ new[ms[p].key] = m[ns[p].key]
      OBVIOUS
  <2>1. p \in S /\ p # n OBVIOUS
  <2>2. ms[p].key = ns[p].key /\ ms[p].uses = ns[p].uses /\ ms[p].age = ns[p].age BY DEF Alike
  <2>3. new[ms[p].key] = [age |-> ms[p].age, uses |-> ms[p].uses] /\ m[ns[p].key] = [age |-> ns[p].age, uses |-> ns[p].uses]
      BY <2>1 DEF Shows
  <2>4. ns[p].key # k BY <2>1 DEF Shows
  <2> QED BY <2>1, <2>2, <2>3, <2>4
<1>3. DOMAIN new = {ms[p].key : p \in T} /\ DOMAIN m = {ns[p].key : p \in S} BY DEF Shows
<1>4. DOMAIN new = DOMAIN m \ {k} /\ k \in DOMAIN m BY <1>2, <1>3
<1>5. ASSUME NEW j \in DOMAIN new PROVE new[j] = m[j]
  <2>1. PICK p \in T : j = ms[p].key BY <1>3
  <2> QED BY <1>2, <2>1
<1>6. new = [j \in DOMAIN new |-> new[j]] BY DEF Shows
<1> HIDE DEF k, w
<1>7. new = w BY <1>1, <1>4, <1>5, <1>6
<1> QED BY <1>4, <1>7 DEF k, w

\* The map without the victim's record, and with the new one in its node.
LEMMA MapInstead ==
    ASSUME NEW m, NEW new, NEW ns, NEW ms, NEW S, NEW n \in S, NEW k, NEW u,
           Shows(m, ns, S), Shows(new, ms, S), Alike(ns, ms, S \ {n}), Rewritten(ms, n, k, u),
           \A p \in S : ns[p].key # k
    PROVE  ns[n].key \in DOMAIN m /\ new = Map!With(Map!Without(m, ns[n].key), k, Map!Fresh(u))
<1> DEFINE T == S \ {n}
           rest == RecordsIn(ns, T)
<1>1. \A p, q \in T : ns[p].key = ns[q].key => p = q BY DEF Shows
<1>2. Shows(rest, ns, T)
  <2> HIDE DEF T
  <2> QED BY <1>1, RecordsShow DEF rest
<1>3. Alike(ns, ns, T) BY DEF Alike
<1> HIDE DEF rest
<1>4. ns[n].key \in DOMAIN m /\ rest = Map!Without(m, ns[n].key) BY <1>2, <1>3, MapWithout
<1>5. S = T \cup {n} /\ n \notin T /\ \A p \in T : ns[p].key # k OBVIOUS
<1>6. Alike(ns, ms, S \ {n}) OBVIOUS
<1> HIDE DEF T
<1>7. new = Map!With(rest, k, Map!Fresh(u)) BY <1>2, <1>5, <1>6, MapWith
<1> QED BY <1>4, <1>7

\* The map with another count of uses in the record of `k`.
Counted(m, k, u) == [m EXCEPT ![k].uses = u]
Counts(ns, ms, S, n, u) ==
    /\ n \in S /\ Alike(ns, ms, S \ {n})
    /\ ms[n].key = ns[n].key /\ ms[n].age = ns[n].age /\ ms[n].uses = u
LEMMA MapUsed ==
    ASSUME NEW m, NEW new, NEW ns, NEW ms, NEW S, NEW n, NEW u,
           Shows(m, ns, S), Shows(new, ms, S), Counts(ns, ms, S, n, u)
    PROVE  ns[n].key \in DOMAIN m /\ m[ns[n].key].uses = ns[n].uses /\ new = Counted(m, ns[n].key, u)
<1> DEFINE k == ns[n].key
           w == Counted(m, k, u)
<1>0. n \in S /\ Alike(ns, ms, S \ {n}) /\ ms[n].key = ns[n].key /\ ms[n].age = ns[n].age /\ ms[n].uses = u BY DEF Counts
<1>1. DOMAIN m = {ns[p].key : p \in S} /\ DOMAIN new = {ms[p].key : p \in S} BY DEF Shows
<1>2. \A p \in S : ms[p].key = ns[p].key BY <1>0 DEF Alike
<1>3. DOMAIN new = DOMAIN m /\ k \in DOMAIN m BY <1>0, <1>1, <1>2
<1>4. m[k] = [age |-> ns[n].age, uses |-> ns[n].uses] /\ new[k] = [age |-> ns[n].age, uses |-> u] BY <1>0 DEF Shows
<1>5. w = [j \in DOMAIN m |-> IF j = k THEN [m[k] EXCEPT !.uses = u] ELSE m[j]] BY DEF Counted
<1>6. [m[k] EXCEPT !.uses = u] = new[k] /\ m[k].uses = ns[n].uses BY <1>4
<1>7. ASSUME NEW j \in DOMAIN new, j # k PROVE new[j] = m[j]
  <2>1. PICK p \in S : j = ms[p].key BY <1>1
  <2>2. p # n /\ ms[p].key = ns[p].key /\ ms[p].uses = ns[p].uses /\ ms[p].age = ns[p].age BY <1>0, <1>2, <1>7, <2>1 DEF Alike
  <2>3. new[j] = [age |-> ms[p].age, uses |-> ms[p].uses] BY <2>1, ShownAs
  <2>4. m[j] = [age |-> ns[p].age, uses |-> ns[p].uses] BY <2>1, <2>2, ShownAs
  <2> QED BY <2>2, <2>3, <2>4
<1>8. new = [j \in DOMAIN new |-> new[j]] BY DEF Shows
<1> HIDE DEF k, w
<1>9. new = w BY <1>3, <1>5, <1>6, <1>7, <1>8
<1> QED BY <1>3, <1>6, <1>9 DEF k, w

LEMMA MapAges ==
    ASSUME NEW m, NEW new, NEW ns, NEW ms, NEW S, Shows(m, ns, S), Shows(new, ms, S),
           \A n \in S : ms[n].key = ns[n].key /\ ms[n].uses = ns[n].uses /\ ms[n].age = Older(ns[n].age)
    PROVE  new = [k \in DOMAIN m |-> [m[k] EXCEPT !.age = (@ + 1) % ClockMod]]
<1> DEFINE w == [k \in DOMAIN m |-> [m[k] EXCEPT !.age = (@ + 1) % ClockMod]]
<1>1. DOMAIN m = {ns[p].key : p \in S} /\ DOMAIN new = {ms[p].key : p \in S} BY DEF Shows
<1>2. DOMAIN new = DOMAIN m BY <1>1
<1>3. ASSUME NEW k \in DOMAIN m PROVE new[k] = w[k]
  <2>1. PICK p \in S : k = ns[p].key BY <1>1
  <2>2. m[k] = [age |-> ns[p].age, uses |-> ns[p].uses] BY <2>1 DEF Shows
  <2>3. new[k] = [age |-> Older(ns[p].age), uses |-> ns[p].uses] BY <2>1 DEF Shows
  <2>4. w[k] = [m[k] EXCEPT !.age = Older(@)] BY DEF Older
  <2> QED BY <2>2, <2>3, <2>4
<1>4. new = [k \in DOMAIN new |-> new[k]] BY DEF Shows
<1> QED BY <1>2, <1>3, <1>4

\* The node that makes room is the least used, the oldest of these.
LEMMA VictimIsDispensable ==
    ASSUME NEW own, NEW n \in InUse(own), Linked = InUse(own), Shows(Records, nodes, InUse(own)), findEvictVictim(n)
    PROVE  Map!Dispensable(nodes[n].key)
<1> SUFFICES ASSUME NEW j \in DOMAIN Records
             PROVE  \/ Records[nodes[n].key].uses < Records[j].uses
                    \/ Records[nodes[n].key].uses = Records[j].uses /\ Records[nodes[n].key].age >= Records[j].age
    BY DEF Map!Dispensable, Map!Elapsed
<1>1. PICK p \in InUse(own) : j = nodes[p].key BY DEF Shows
<1>2. Records[j].uses = nodes[p].uses /\ Records[j].age = nodes[p].age
  <2>1. Records[nodes[p].key] = [age |-> nodes[p].age, uses |-> nodes[p].uses] BY ShownAs
  <2> QED BY <1>1, <2>1
<1>3. Records[nodes[n].key].uses = nodes[n].uses /\ Records[nodes[n].key].age = nodes[n].age
  <2>1. Records[nodes[n].key] = [age |-> nodes[n].age, uses |-> nodes[n].uses] BY ShownAs
  <2> QED BY <2>1
<1>4. \/ nodes[n].uses < nodes[p].uses
      \/ nodes[n].uses = nodes[p].uses /\ nodes[n].age >= nodes[p].age
    BY DEF findEvictVictim, elapsedMs
<1> QED BY <1>2, <1>3, <1>4

LEMMA PutDoes ==
    ASSUME TableTypeOK, arena, arena', NEW own, NEW rank, TableOf(own, rank), NEW k \in Key,
           NEW uses \in [0 .. MaxUses -> 0 .. MaxUses], storeInternal(k, uses)
    PROVE  /\ k \in DOMAIN Records'
           /\ Map!Put(k, Map!Fresh(uses[IF k \in DOMAIN Records THEN Records[k].uses ELSE 0]), Records')
<1> DEFINE S == InUse(own)
           r == Map!Fresh(uses[IF k \in DOMAIN Records THEN Records[k].uses ELSE 0])
<1>1. PICK own2, n : Becomes(own2) /\ Stores(k, uses, own, own2, n) /\ Alike(nodes, nodes', InUse(own2) \ {n})
    BY StoreDoes
<1>2. Shows(Records, nodes, S) /\ Shows(Records', nodes', InUse(own2)) BY <1>1, RecordsNow, RecordsThen
<1>3. Linked = S /\ (freeHead = Nil <=> S = Node) BY ChainsAre
<1>4. S \subseteq Node /\ IsFiniteSet(Node) /\ Cardinality(Node) = NodeCount BY NodesAre DEF InUse
<1>5. Cardinality(DOMAIN Records) = Cardinality(S) BY <1>2, SizeOfMap
<1>6. CASE n \in S /\ nodes[n].key = k /\ own2 = own /\ Rewritten(nodes', n, k, uses[nodes[n].uses])
  <2>1. k \in DOMAIN Records /\ Records[k].uses = nodes[n].uses
    <3>1. Records[k] = [age |-> nodes[n].age, uses |-> nodes[n].uses] BY <1>2, <1>6, ShownAs
    <3>2. k \in DOMAIN Records BY <1>2, <1>6 DEF Shows
    <3> QED BY <3>1, <3>2
  <2>2. Records' = Map!With(Records, k, Map!Fresh(uses[nodes[n].uses])) BY <1>1, <1>2, <1>6, MapWith
  <2>3. k \in DOMAIN Records' BY <1>2, <1>6 DEF Shows, Rewritten
  <2> QED BY <2>1, <2>2, <2>3 DEF Map!Put, Map!Has
<1>7. CASE /\ \A p \in S : nodes[p].key # k
           /\ n \notin S /\ freeHead # Nil /\ InUse(own2) = S \cup {n} /\ Rewritten(nodes', n, k, uses[0])
  <2>1. k \notin DOMAIN Records BY <1>2, <1>7 DEF Shows
  <2>2. n \in InUse(own2) BY <1>7
  <2>3. Records' = Map!With(Records, k, Map!Fresh(uses[0])) BY <1>1, <1>2, <1>7, <2>2, MapWith
  <2>4. k \in DOMAIN Records' BY <1>2, <2>2, <1>7 DEF Shows, Rewritten
  <2>5. Cardinality(S) < NodeCount
    <3>1. S # Node BY <1>3, <1>7
    <3>2. Cardinality(S) <= NodeCount /\ Cardinality(S) # NodeCount BY <1>4, <3>1, FS_Subset
    <3>3. Cardinality(S) \in 0 .. NodeCount BY InUseIsFinite
    <3> QED BY <3>2, <3>3, CacheTableAssumption
  <2>6. r = Map!Fresh(uses[0]) BY <2>1
  <2> HIDE DEF r
  <2>7. Map!Put(k, r, Records') BY <1>5, <2>3, <2>5, <2>6, SameCount DEF Map!Put
  <2> QED BY <2>4, <2>7 DEF r
<1>8. CASE /\ \A p \in S : nodes[p].key # k
           /\ n \in S /\ freeHead = Nil /\ findEvictVictim(n) /\ InUse(own2) = S /\ Rewritten(nodes', n, k, uses[0])
  <2>1. k \notin DOMAIN Records BY <1>2, <1>8 DEF Shows
  <2>2. /\ nodes[n].key \in DOMAIN Records
        /\ Records' = Map!With(Map!Without(Records, nodes[n].key), k, Map!Fresh(uses[0]))
      BY <1>1, <1>2, <1>8, MapInstead
  <2>3. k \in DOMAIN Records' BY <1>2, <1>8 DEF Shows, Rewritten
  <2>4. Cardinality(DOMAIN Records) = NodeCount BY <1>3, <1>4, <1>5, <1>8
  <2>5. Map!Dispensable(nodes[n].key) BY <1>2, <1>3, <1>8, VictimIsDispensable
  <2>6. r = Map!Fresh(uses[0]) BY <2>1
  <2> HIDE DEF r
  <2>7. Map!Put(k, r, Records') BY <2>1, <2>2, <2>4, <2>5, <2>6, SameCount DEF Map!Put, Map!Has
  <2> QED BY <2>3, <2>7 DEF r
<1> QED BY <1>1, <1>6, <1>7, <1>8 DEF Stores
LEMMA KeysThen == ASSUME NEW own, Becomes(own), Shows(Records', nodes', InUse(own)) PROVE DOMAIN Records' \subseteq Key
<1>1. \A n \in InUse(own) : nodes'[n].key \in Key BY DEF Becomes, TableOf, Holding
<1>2. DOMAIN Records' = {nodes'[n].key : n \in InUse(own)} BY DEF Shows
<1> QED BY <1>1, <1>2

LEMMA NothingShown == ASSUME NEW m, NEW ns, Shows(m, ns, {}) PROVE m = Map!Empty
<1>1. DOMAIN m = {} /\ m = [k \in DOMAIN m |-> m[k]] BY DEF Shows
<1> QED BY <1>1 DEF Map!Empty

\* The operations of the map that switch nothing.
LEMMA MapDoes ==
    ASSUME UNCHANGED <<arena, ignoreTtl>>, DOMAIN Records' \subseteq Key,
           \/ Map!Switch(Records') \/ Map!Pass(Records')
           \/ \E k \in DOMAIN Records' : Map!Learn(k, Records') \/ Map!Hit(k, Records')
                                         \/ \E u \in 0 .. MaxUses : Map!Restore(k, u, Records')
           \/ \E k \in DOMAIN Records : Map!Forget(k, Records')
    PROVE  Map!MapNext
BY DEF Map!MapNext

LEMMA SamePool == ASSUME UNCHANGED pool, arena' = arena PROVE Records' = Records
BY DEF pool, Records, Linked

\* A hit of the table is one of the map: its record has not outlived its time.
LEMMA HitIsOne ==
    ASSUME TableTypeOK, arena, arena', NEW own, NEW rank, TableOf(own, rank), NEW k \in Key, NEW n \in findNode(k),
           ~expired(n), nodes' = [nodes EXCEPT ![n].uses = bumpUse(@)], mark' = noteMark(bumpUse(nodes[n].uses)),
           UNCHANGED <<buckets, freeHead, entries>>
    PROVE  Map!Hit(k, Records') /\ k \in DOMAIN Records' /\ DOMAIN Records' \subseteq Key
<1>1. n \in InUse(own) /\ nodes[n].key = k BY FoundIsInUse
<1>2. /\ Becomes(own) /\ Alike(nodes, nodes', InUse(own) \ {n})
      /\ nodes'[n].key = nodes[n].key /\ nodes'[n].age = nodes[n].age
      /\ nodes'[n].uses = bumpUse(nodes[n].uses)
    BY <1>1, HitDoes
<1>3. Shows(Records, nodes, InUse(own)) /\ Shows(Records', nodes', InUse(own)) BY <1>2, RecordsNow, RecordsThen
<1> DEFINE u == bumpUse(nodes[n].uses)
           S == InUse(own)
           ms == nodes'
           new == Records'
<1>4. Counts(nodes, ms, S, n, u) /\ n \in S BY <1>1, <1>2 DEF Counts
<1>5. Shows(Records, nodes, S) /\ Shows(new, ms, S) BY <1>3
<1> HIDE DEF u, S, ms, new
<1>6. /\ nodes[n].key \in DOMAIN Records /\ Records[nodes[n].key].uses = nodes[n].uses
      /\ new = Counted(Records, nodes[n].key, u)
    BY <1>4, <1>5, MapUsed
<1>7. u = Map!Used(Records[k].uses) BY <1>1, <1>6 DEF u, Map!Used, bumpUse
<1>8. new = [Records EXCEPT ![k].uses = Map!Used(@)] BY <1>1, <1>6, <1>7 DEF Counted
<1>9. Records[k].age = nodes[n].age
  <2>1. Records[nodes[n].key] = [age |-> nodes[n].age, uses |-> nodes[n].uses] BY <1>4, <1>5, ShownAs
  <2> QED BY <1>1, <2>1
<1>10. ~Map!Expired(k) BY <1>1, <1>9 DEF Map!Expired, Map!Elapsed, expired, elapsedMs, TtlOfKey
<1>11. k \in DOMAIN new BY <1>1, <1>6, <1>8
<1> QED BY <1>1, <1>2, <1>3, <1>6, <1>8, <1>10, <1>11, KeysThen DEF Map!Hit, Map!Has, new

LEMMA RemovalIsOne ==
    ASSUME TableTypeOK, arena, arena', NEW own, NEW rank, TableOf(own, rank), NEW k \in Key, NEW n \in findNode(k),
           remove(k, n)
    PROVE  Map!Forget(k, Records') /\ k \in DOMAIN Records /\ DOMAIN Records' \subseteq Key
<1>1. nodes[n].key = k BY FoundIsInUse
<1>2. PICK own2 : /\ Becomes(own2) /\ n \in InUse(own) /\ InUse(own2) = InUse(own) \ {n}
                  /\ Alike(nodes, nodes', InUse(own2))
    BY RemoveDoes
<1>3. Shows(Records, nodes, InUse(own)) /\ Shows(Records', nodes', InUse(own2)) BY <1>2, RecordsNow, RecordsThen
<1>4. k \in DOMAIN Records /\ Records' = Map!Without(Records, k) BY <1>1, <1>2, <1>3, MapWithout
<1> QED BY <1>2, <1>3, <1>4, KeysThen DEF Map!Forget, Map!Has

LEMMA StoreIsOne ==
    ASSUME TableTypeOK, arena, arena', NEW own, NEW rank, TableOf(own, rank), NEW k \in Key
    PROVE  /\ storeInternal(k, UsesUp) => Map!Learn(k, Records') /\ k \in DOMAIN Records' /\ DOMAIN Records' \subseteq Key
           /\ \A u \in 0 .. MaxUses :
                 storeInternal(k, UsesOf(u)) => Map!Restore(k, u, Records') /\ k \in DOMAIN Records' /\ DOMAIN Records' \subseteq Key
<1> DEFINE old == IF k \in DOMAIN Records THEN Records[k].uses ELSE 0
<1>1. old \in 0 .. MaxUses
  <2>1. 0 \in 0 .. MaxUses BY CacheTableAssumption
  <2>2. Shows(Records, nodes, InUse(own)) BY RecordsNow
  <2>3. ASSUME k \in DOMAIN Records PROVE Records[k].uses \in 0 .. MaxUses
    <3>1. PICK n \in InUse(own) : nodes[n].key = k BY <2>2, <2>3 DEF Shows
    <3>2. Records[nodes[n].key] = [age |-> nodes[n].age, uses |-> nodes[n].uses] BY <2>2, ShownAs
    <3>3. Records[k].uses = nodes[n].uses BY <3>1, <3>2
    <3>4. nodes[n].uses \in 0 .. MaxUses BY DEF TableTypeOK, InUse
    <3> QED BY <3>3, <3>4
  <2> QED BY <2>1, <2>3
<1>2. ASSUME NEW uses \in [0 .. MaxUses -> 0 .. MaxUses], storeInternal(k, uses) PROVE DOMAIN Records' \subseteq Key
  <2>1. PICK own2, n : Becomes(own2) BY <1>2, StoreDoes
  <2> QED BY <2>1, RecordsThen, KeysThen
<1>3. ASSUME NEW uses \in [0 .. MaxUses -> 0 .. MaxUses], storeInternal(k, uses)
      PROVE  k \in DOMAIN Records' /\ Map!Put(k, Map!Fresh(uses[old]), Records')
    BY <1>3, PutDoes
<1> HIDE DEF old
<1>4. UsesUp[old] = Map!Used(old) /\ \A u \in 0 .. MaxUses : UsesOf(u)[old] = u
    BY <1>1 DEF UsesUp, UsesOf, Map!Used, bumpUse
<1>5. Map!Learn(k, Records') <=> Map!Put(k, Map!Fresh(Map!Used(old)), Records') BY DEF Map!Learn, Map!Has, old
<1>6. \A u : Map!Restore(k, u, Records') <=> Map!Put(k, Map!Fresh(u), Records') BY DEF Map!Restore
<1>7. ASSUME storeInternal(k, UsesUp) PROVE Map!Learn(k, Records') /\ k \in DOMAIN Records' /\ DOMAIN Records' \subseteq Key
    BY <1>2, <1>3, <1>4, <1>5, <1>7, UsesAre
<1>8. ASSUME NEW u \in 0 .. MaxUses, storeInternal(k, UsesOf(u))
      PROVE  Map!Restore(k, u, Records') /\ k \in DOMAIN Records' /\ DOMAIN Records' \subseteq Key
    BY <1>2, <1>3, <1>4, <1>6, <1>8, UsesAre
<1> QED BY <1>7, <1>8

\* Every step of the table is an operation of the map, or changes nothing of it.
LEMMA TableStepsAreMapSteps == TableInv /\ [TableNext]_tableVars => [Map!MapNext]_(Map!mapVars)
<1> SUFFICES ASSUME TableInv, [TableNext]_tableVars PROVE [Map!MapNext]_(Map!mapVars) OBVIOUS
<1>1. TableTypeOK /\ TaskTypes BY TypesOfTable DEF TableInv
<1>2. CASE UNCHANGED tableVars
  <2>1. UNCHANGED pool /\ UNCHANGED <<arena, ignoreTtl>> BY <1>2 DEF tableVars, pool
  <2> QED BY <2>1, SamePool DEF Map!mapVars
<1>3. ASSUME UNCHANGED pool, arena' = arena, ignoreTtl' = ignoreTtl \/ ignoreTtl' = ~ignoreTtl
      PROVE  [Map!MapNext]_(Map!mapVars)
  <2>1. Records' = Records BY <1>3, SamePool
  <2>2. CASE ignoreTtl' = ignoreTtl BY <1>3, <2>1, <2>2 DEF Map!mapVars
  <2>3. CASE ignoreTtl' = ~ignoreTtl
    <3>1. (~ignoreTtl') # (~ignoreTtl) BY <1>1, <2>3, Zenon DEF TaskTypes
    <3> QED BY <1>3, <2>1, <3>1 DEF Map!MapNext
  <2> QED BY <1>3, <2>2, <2>3
<1>4. ASSUME arena', buckets' = emptyBuckets, nodes' = freeNodes, freeHead' = NodeCount - 1, entries' = 0, mark' = 0
      PROVE  Records' = Map!Empty /\ DOMAIN Records' \subseteq Key
  <2> DEFINE own == [n \in Node |-> Nil]
  <2>1. Becomes(own) /\ InUse(own) = {} BY <1>4, FreshPool
  <2> HIDE DEF own
  <2>2. Shows(Records', nodes', {}) BY <1>4, <2>1, RecordsThen
  <2> QED BY <2>1, <2>2, NothingShown, KeysThen
<1>5. ASSUME ~arena, arena', ignoreTtl' = ignoreTtl, Records' = Map!Empty PROVE Map!MapNext
    BY <1>5 DEF Map!MapNext, Map!Switch
<1>6. CASE disable
  <2>1. arena /\ ~arena' /\ ignoreTtl' = ignoreTtl BY <1>6 DEF disable
  <2> QED BY <2>1, NoRecords DEF Map!MapNext, Map!Switch
<1>7. ASSUME arena, arena', ignoreTtl' = ignoreTtl,
             \/ nowMs
             \/ \E k \in Key : \/ storeInternal(k, UsesUp) \/ LookedUp(k) \/ \E n \in findNode(k) : remove(k, n)
                               \/ \E u \in 0 .. MaxUses : storeInternal(k, UsesOf(u))
      PROVE  [Map!MapNext]_(Map!mapVars)
  <2>1. PICK own, rank : TableOf(own, rank) BY <1>7 DEF TableInv
  <2>2. UNCHANGED <<arena, ignoreTtl>> BY <1>1, <1>7 DEF TaskTypes
  <2>3. CASE nowMs
    <3>1. /\ Becomes(own)
          /\ \A n \in InUse(own) : /\ nodes'[n].key = nodes[n].key /\ nodes'[n].uses = nodes[n].uses
                                   /\ nodes'[n].age = Older(nodes[n].age)
        BY <1>1, <2>1, <2>3, TimeDoes
    <3>2. Shows(Records, nodes, InUse(own)) /\ Shows(Records', nodes', InUse(own))
        BY <1>7, <2>1, <3>1, RecordsNow, RecordsThen
    <3>3. Map!Pass(Records') BY <3>1, <3>2, MapAges DEF Map!Pass
    <3> QED BY <2>2, <3>1, <3>2, <3>3, KeysThen, MapDoes
  <2>4. ASSUME NEW k \in Key, storeInternal(k, UsesUp) PROVE Map!MapNext
      BY <1>1, <1>7, <2>1, <2>2, <2>4, StoreIsOne, MapDoes
  <2>5. ASSUME NEW k \in Key, NEW u \in 0 .. MaxUses, storeInternal(k, UsesOf(u)) PROVE Map!MapNext
      BY <1>1, <1>7, <2>1, <2>2, <2>5, StoreIsOne, MapDoes
  <2>6. ASSUME NEW k \in Key, NEW n \in findNode(k), remove(k, n) PROVE Map!MapNext
      BY <1>1, <1>7, <2>1, <2>2, <2>6, RemovalIsOne, MapDoes
  <2>7. ASSUME NEW k \in Key, LookedUp(k) PROVE [Map!MapNext]_(Map!mapVars)
    <3>1. CASE UNCHANGED pool BY <1>3, <2>2, <3>1
    <3>2. CASE \E n \in findNode(k) : remove(k, n) BY <2>6, <3>2
    <3>3. ASSUME NEW n \in findNode(k), ~expired(n), nodes' = [nodes EXCEPT ![n].uses = bumpUse(@)],
                 mark' = noteMark(bumpUse(nodes[n].uses)), UNCHANGED <<buckets, freeHead, entries>>
          PROVE  Map!MapNext
      <4>1. Map!Hit(k, Records') /\ k \in DOMAIN Records' /\ DOMAIN Records' \subseteq Key
          BY <1>1, <1>7, <2>1, <3>3, HitIsOne
      <4> QED BY <2>2, <4>1, MapDoes
    <3> QED BY <2>7, <3>1, <3>2, <3>3 DEF LookedUp
  <2> QED BY <1>7, <2>3, <2>4, <2>5, <2>6, <2>7
<1>8. ASSUME arena, arena', ignoreTtl' = ignoreTtl, Records' = Map!Empty, DOMAIN Records' \subseteq Key
      PROVE  Map!MapNext
  <2>1. UNCHANGED <<arena, ignoreTtl>> BY <1>1, <1>8 DEF TaskTypes
  <2>2. Map!Switch(Records') BY <1>8 DEF Map!Switch
  <2> QED BY <1>8, <2>1, <2>2, MapDoes
<1>9. CASE TableNext BY <1>3, <1>4, <1>5, <1>6, <1>7, <1>8, <1>9, TableSteps
<1> QED BY <1>2, <1>9

LEMMA TableStartsAsMap == TableInit => Map!MapInit
<1> SUFFICES ASSUME TableInit PROVE Map!MapInit OBVIOUS
<1>1. ~arena /\ arena = FALSE /\ ignoreTtl \in BOOLEAN BY DEF TableInit
<1>2. Records = Map!Empty BY <1>1, NoRecords
<1>3. (~ignoreTtl) \in BOOLEAN BY <1>1, Zenon
<1> QED BY <1>1, <1>2, <1>3 DEF Map!MapInit

\* The built-in cache, for every number of nodes and buckets, every hash and every
\* lifetime: after any insertion, eviction, expiry and removal each node of the
\* pool is on exactly one list, every walk ends, a record is found in the chain
\* of its key, and the counters agree with what the chains hold.
THEOREM TableStaysSafe == Spec => []TableSafe
<1>1. Init => TableInv BY TableStart DEF Init
<1>2. TableInv /\ [Next]_vars => TableInv' BY OneAtATime, TableInductive
<1> QED BY <1>1, <1>2, TableHolds, PTL DEF Spec

\* The pool, the buckets, the free list and the eviction implement the map a
\* reader of the cache has in mind: a key has the record last stored for it, and
\* the record that makes room for another is one of the least used.
THEOREM TableImplementsMap == Spec => ImplementsMap
<1>1. Init => TableInv /\ Map!MapInit BY TableStart, TableStartsAsMap DEF Init
<1>2. TableInv /\ [Next]_vars => TableInv' BY OneAtATime, TableInductive
<1>3. TableInv /\ [Next]_vars => [Map!MapNext]_(Map!mapVars) BY OneAtATime, TableStepsAreMapSteps
<1> QED BY <1>1, <1>2, <1>3, PTL DEF Spec, ImplementsMap, Map!MapSpec

=============================================================================
