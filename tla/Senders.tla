------------------------------ MODULE Senders ------------------------------
(***************************************************************************)
(* A server hands a record to a bounded queue and a task of its own sends  *)
(* it: the REST logs of DHCP, DNS and NTP, the file logs of DNS and NTP,   *)
(* and the stores into the external cache.  The code is the same six       *)
(* times; `sender` says which copy a behaviour is about, and the operators *)
(* below say where the copies differ.  (The lookups in the external cache  *)
(* have a queue of their own, see DnsForward.)                             *)
(*                                                                         *)
(* Three parties: the server (producer), the sending task (worker) and the *)
(* task that applies settings (caller).  How long a record takes to send   *)
(* is open: the timeouts bound one socket operation, not the exchange, so  *)
(* the deadline of a stop may pass at any time.                            *)
(***************************************************************************)
EXTENDS Naturals, Sequences, FiniteSets

CONSTANTS Sender, QueueDepth

FileLog == {"dnsFile", "ntpFile"}
Worker == {1, 2}

ASSUME SendersAssumption ==
    /\ Sender \subseteq {"dhcp", "dnsRest", "ntpRest", "store"} \cup FileLog
    /\ QueueDepth \in Nat \ {0}

VARIABLES
    sender,    \* the copy of the code
    switches,  \* the settings that are on
    queue,     \* what waits to be sent, the stop marker included
    made,      \* the queue was created; it is never deleted
    handle,    \* task_ is not null
    stopReq,   \* stopRequested_
    worker,    \* the pc of every sending task
    caller,    \* pc of the task that applies settings
    producer,  \* pc of the server in its push
    writer,    \* fileWriter_ is not null
    excuse     \* why a wanted sender may not run, see SwitchedOnSends

senderVars == <<sender, switches, queue, made, handle, stopReq, worker, caller, producer,
                writer, excuse>>

SendersTypeOK ==
    /\ sender \in Sender
    /\ switches \subseteq {"on", "address", "volumes", "write"}
    /\ queue \in Seq({"record", "stop"}) /\ Len(queue) <= QueueDepth
    /\ made \in BOOLEAN /\ handle \in BOOLEAN /\ stopReq \in BOOLEAN /\ writer \in BOOLEAN
    /\ worker \in [Worker -> {"none", "loop", "receive", "send", "leave"}]
    /\ caller \in {"idle", "marker", "await"}
    /\ producer \in {"idle", "full", "retry"}
    /\ excuse \in SUBSET {"notask", "marker", "deadline"}

SendersInit ==
    /\ sender \in Sender
    /\ switches = {} /\ queue = <<>> /\ made = FALSE /\ handle = FALSE /\ stopReq = FALSE
    /\ worker = [w \in Worker |-> "none"] /\ caller = "idle" /\ producer = "idle"
    /\ writer = FALSE /\ excuse = {}

-----------------------------------------------------------------------------
\* What each copy needs to be switched on.
dhcpSwitches == {"on", "address"}
dnsRestSwitches == {"on", "address"}
dnsFileSwitches == {"on", "volumes"}
ntpRestSwitches == {"on", "address"}
ntpFileSwitches == {"on", "volumes"}
storeSwitches == {"on", "write", "address"}

Switches ==
    CASE sender = "dhcp" -> dhcpSwitches [] sender = "dnsRest" -> dnsRestSwitches
      [] sender = "dnsFile" -> dnsFileSwitches [] sender = "ntpRest" -> ntpRestSwitches
      [] sender = "ntpFile" -> ntpFileSwitches [] sender = "store" -> storeSwitches

wanted(on) == Switches \subseteq on

\* The queue is kept from the last time; the task may not come to be.
startTask ==
    /\ made' = TRUE /\ stopReq' = FALSE
    /\ \/ \E w \in Worker :
             /\ worker[w] = "none"
             /\ worker' = [worker EXCEPT ![w] = "loop"]
             /\ handle' = TRUE /\ excuse' = {}
       \/ excuse' = {"notask"} /\ UNCHANGED <<worker, handle>>
ensureSender == sender = "dhcp" /\ startTask /\ UNCHANGED writer
ensureRestSender == sender = "dnsRest" /\ startTask /\ UNCHANGED writer
ensureNtpRestSender == sender = "ntpRest" /\ startTask /\ UNCHANGED writer
ensureCacheSender == sender = "store" /\ startTask /\ UNCHANGED writer
\* A file log makes its writer first.
ensureFileWriter == sender = "dnsFile" /\ startTask /\ writer' = TRUE
ensureNtpFileWriter == sender = "ntpFile" /\ startTask /\ writer' = TRUE
ensureTask == \/ ensureSender \/ ensureRestSender \/ ensureNtpRestSender
              \/ ensureCacheSender \/ ensureFileWriter \/ ensureNtpFileWriter

\* updateSenderState compares what is wanted with the handle.
updateSenderState ==
    \/ wanted(switches') /\ ~handle /\ ensureTask /\ UNCHANGED caller
    \/ /\ ~wanted(switches') /\ handle
       /\ stopReq' = TRUE /\ caller' = "marker"
       /\ UNCHANGED <<made, worker, handle, writer, excuse>>
    \/ /\ wanted(switches') = handle
       /\ UNCHANGED <<caller, stopReq, made, worker, handle, writer, excuse>>

\* A setter, with a new value or with the one it has: saving a page calls all.
setSwitch(s, on) ==
    /\ caller = "idle" /\ s \in Switches
    /\ switches' = IF on THEN switches \cup {s} ELSE switches \ {s}
    /\ updateSenderState
    /\ UNCHANGED <<sender, queue, producer>>

\* The marker waits for room for one poll and is given up then.
stopRestSender_Marker ==
    /\ caller = "marker" /\ caller' = "await"
    /\ queue' = IF Len(queue) < QueueDepth THEN Append(queue, "stop") ELSE queue
    /\ UNCHANGED <<sender, switches, made, handle, stopReq, worker, producer, writer, excuse>>

\* As if: a stop that gives up forgets its task.
stopRestSender_Await_Forgets ==
    /\ caller = "await" /\ caller' = "idle"
    /\ stopReq' = FALSE /\ writer' = FALSE /\ handle' = FALSE
    /\ UNCHANGED <<sender, switches, queue, made, worker, producer, excuse>>

\* As if: a stop waits until the task is gone.
stopRestSender_Await_Forever ==
    /\ caller = "await" /\ ~handle
    /\ caller' = "idle" /\ stopReq' = FALSE /\ writer' = FALSE
    /\ UNCHANGED <<sender, switches, queue, made, handle, worker, producer, excuse>>

\* The task is gone or the deadline has passed.  A file log then frees its
\* writer, and the flag is taken back, in both cases.
stopRestSender_Await ==
    /\ caller = "await" /\ caller' = "idle"
    /\ stopReq' = FALSE /\ writer' = FALSE
    /\ excuse' = IF handle THEN excuse \cup {"deadline"} ELSE excuse
    /\ UNCHANGED <<sender, switches, queue, made, handle, worker, producer>>

-----------------------------------------------------------------------------
\* What the server asks before it pushes.
logEvent == sender = "dhcp" /\ wanted(switches)
logToRest == sender = "dnsRest" /\ wanted(switches)
logToFile == sender = "dnsFile" /\ "on" \in switches
logRequest == sender = "ntpRest" /\ wanted(switches)
logNtpEvent == sender = "ntpFile" /\ "on" \in switches
storeAnswer == sender = "store" /\ wanted(switches)
mayPush == made /\ (logEvent \/ logToRest \/ logToFile \/ logRequest \/ logNtpEvent \/ storeAnswer)

\* xQueueSendToBack with no wait.
push ==
    /\ producer = "idle" /\ mayPush
    /\ IF Len(queue) < QueueDepth
       THEN queue' = Append(queue, "record") /\ UNCHANGED producer
       ELSE producer' = "full" /\ UNCHANGED queue
    /\ UNCHANGED <<sender, switches, made, handle, stopReq, worker, caller, writer, excuse>>

\* The queue was full: its oldest item is dropped, whatever it is, and the push
\* is tried once more; the worker may have emptied or the caller refilled it.
push_Drop ==
    /\ producer = "full"
    /\ IF queue = <<>>
       THEN producer' = "idle" /\ UNCHANGED queue
       ELSE producer' = "retry" /\ queue' = Tail(queue)
    /\ UNCHANGED <<sender, switches, made, handle, stopReq, worker, caller, writer, excuse>>
push_Retry ==
    /\ producer = "retry" /\ producer' = "idle"
    /\ queue' = IF Len(queue) < QueueDepth THEN Append(queue, "record") ELSE queue
    /\ UNCHANGED <<sender, switches, made, handle, stopReq, worker, caller, writer, excuse>>

-----------------------------------------------------------------------------
\* senderTask: the flag, the queue, the record.
senderTask_Loop(w) ==
    /\ worker[w] = "loop"
    /\ worker' = [worker EXCEPT ![w] = IF stopReq THEN "leave" ELSE "receive"]
    /\ UNCHANGED <<sender, switches, queue, made, handle, stopReq, caller, producer, writer, excuse>>

senderTask_Receive(w) ==
    /\ worker[w] = "receive"
    /\ IF queue = <<>>
       THEN worker' = [worker EXCEPT ![w] = "loop"] /\ UNCHANGED <<queue, excuse>>
       ELSE /\ queue' = Tail(queue)
            /\ LET item == Head(queue) IN
               /\ worker' = [worker EXCEPT ![w] =
                     IF item = "stop" THEN "leave"
                     ELSE IF sender \in FileLog /\ ~writer THEN "loop" ELSE "send"]
               /\ excuse' = IF item = "stop" /\ ~stopReq THEN excuse \cup {"marker"} ELSE excuse
    /\ UNCHANGED <<sender, switches, made, handle, stopReq, caller, producer, writer>>

\* Sent, refused by the server or failed: a record is not kept.
deliver(w) ==
    /\ worker[w] = "send"
    /\ worker' = [worker EXCEPT ![w] = "loop"]
    /\ UNCHANGED <<sender, switches, queue, made, handle, stopReq, caller, producer, writer, excuse>>
sendRecord(w) == sender = "dhcp" /\ deliver(w)
sendRestLog(w) == sender = "dnsRest" /\ deliver(w)
sendNtpRestLog(w) == sender = "ntpRest" /\ deliver(w)
sendStore(w) == sender = "store" /\ deliver(w)
writeFileLog(w) == sender = "dnsFile" /\ deliver(w)
writeNtpFileLog(w) == sender = "ntpFile" /\ deliver(w)
sendItem(w) == \/ sendRecord(w) \/ sendRestLog(w) \/ sendNtpRestLog(w) \/ sendStore(w)
               \/ writeFileLog(w) \/ writeNtpFileLog(w)

senderTask_Leave(w) ==
    /\ worker[w] = "leave"
    /\ worker' = [worker EXCEPT ![w] = "none"] /\ handle' = FALSE
    /\ UNCHANGED <<sender, switches, queue, made, stopReq, caller, producer, writer, excuse>>

callerTask == stopRestSender_Marker \/ stopRestSender_Await
SendersNext ==
    \/ \E s \in {"on", "address", "volumes", "write"}, on \in BOOLEAN : setSwitch(s, on)
    \/ callerTask \/ push \/ push_Drop \/ push_Retry
    \/ \E w \in Worker : \/ senderTask_Loop(w) \/ senderTask_Receive(w) \/ sendItem(w)
                         \/ senderTask_Leave(w)

-----------------------------------------------------------------------------
\* A queue is emptied by one task: no switch flipped back while a stop has
\* given up on a hanging POST makes a second one.
OneSender == \A v, w \in Worker : worker[v] # "none" /\ worker[w] # "none" => v = w

\* What is switched on is sent: only a task that could not be created, a stop
\* marker that outlived its stop, or a stop whose deadline passed with the task
\* still there leaves a wanted sender without its task.
SwitchedOnSends ==
    wanted(switches) /\ caller = "idle" => handle \/ excuse # {}

\* The writer of a file log is not freed under the hands of its task, unless
\* the task outlasted the deadline of the stop.
WriterHeld ==
    sender \in FileLog => \A w \in Worker : worker[w] = "send" => writer \/ "deadline" \in excuse

\* A page that saves settings waits for a sender to stop.
SendersBusy == caller # "idle"

\* A sender and its switches agree, through stops that gave up, markers that
\* came late and retries.
SendersSafe == SendersTypeOK /\ OneSender /\ SwitchedOnSends /\ WriterHeld
============================================================================
