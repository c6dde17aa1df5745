------------------------------ MODULE LogFiles ------------------------------
(***************************************************************************)
(* A journal of the device: sentences go through a bounded queue to a task *)
(* of low priority, which appends them to a live file; a full live file is *)
(* copied to the card, or cut to its newest lines when the card cannot     *)
(* take it.  Six journals are built alike; the state is that of any one of *)
(* them.  A sentence while its journal is switched off is not one.         *)
(*                                                                         *)
(* Two tasks rotate: the writing task before it appends, and the web task  *)
(* when a settings page brings a smaller size.  Nothing keeps them apart.  *)
(* A line is a number in the order of its sentence, 0 is a notice of lost  *)
(* ones; sizes are counted in lines.                                       *)
(***************************************************************************)
EXTENDS Integers, Sequences

CONSTANTS
    MaxLines,     \* bound: how many sentences there are
    LogQueue,     \* kLength of the queue
    Sizes,        \* sizes the operator chooses from
    KeepLines,    \* kLogFileKeepLines
    MaxAttempts   \* kLogFileMaxArchiveAttempts

ASSUME LogFilesAssumption ==
    /\ MaxLines \in Nat /\ LogQueue \in Nat \ {0} /\ MaxAttempts \in Nat \ {0}
    /\ KeepLines \in Nat \ {0} /\ Sizes \subseteq Nat /\ \A s \in Sizes : s >= KeepLines

Party == {"task", "web"}
Line == 0 .. MaxLines

VARIABLES
    core,            \* core_ exists
    logTask,         \* pc of the writing task
    lines,           \* sentences so far
    lq,              \* the queue
    lost, owed,      \* dropped_, dropNoticePending_
    held, what,      \* the line the task took, and whether a notice goes before it
    live, archive,   \* the live file, and the files of the card one after another
    cap, dated,      \* maxBytes_, firstRealSeen_
    clockOk, card,   \* the clock of the device; the card is absent, good or refuses
    fails,           \* failedAttempts_
    rotating,        \* what each party is about to leave in the live file
    written,         \* the lines append() answered for
    excused          \* lines that are gone for a reason, see LinesKept

logVars == <<core, logTask, lines, lq, lost, owed, held, what, live, archive, cap,
             dated, clockOk, card, fails, rotating, written, excused>>
files == <<live, archive, cap, dated, fails, written, excused>>
queueing == <<lines, lq, lost, owed>>

NotRotating == [archived |-> FALSE, content |-> <<>>, seen |-> {}, busy |-> FALSE]
In(s) == {s[i] : i \in DOMAIN s}

LogTypeOK ==
    /\ core \in BOOLEAN
    /\ logTask \in {"none", "wait", "append", "write", "reset"} /\ what \in {"notice", "line"}
    /\ lines \in Line /\ held \in Line /\ lq \in Seq(Line) /\ Len(lq) <= LogQueue
    /\ lost \in 0 .. 2 * MaxLines + 1 /\ owed \in BOOLEAN
    /\ live \in Seq(Line) /\ archive \in Seq(Line) /\ cap \in Sizes
    /\ dated \in BOOLEAN /\ clockOk \in BOOLEAN /\ card \in {"absent", "good", "refuses"}
    /\ fails \in 0 .. MaxAttempts - 1 /\ written \subseteq Line /\ excused \subseteq Line
    /\ rotating \in [Party -> [archived : BOOLEAN, content : Seq(Line),
                           seen : SUBSET Line, busy : BOOLEAN]]

LogInit ==
    /\ core = FALSE /\ logTask = "none"
    /\ lines = 0 /\ lq = <<>> /\ lost = 0 /\ owed = FALSE /\ held = 0 /\ what = "line"
    /\ live = <<>> /\ archive = <<>> /\ cap \in Sizes /\ dated = FALSE /\ clockOk \in BOOLEAN
    /\ card \in {"absent", "good", "refuses"} /\ fails = 0
    /\ rotating = [p \in Party |-> NotRotating] /\ written = {} /\ excused = {}

-----------------------------------------------------------------------------
\* start(): the core is there before the task, and the task may not come to be.
startWriter ==
    /\ logTask = "none" /\ core' = TRUE
    /\ logTask' \in {"none", "wait"}
    /\ UNCHANGED <<queueing, held, what, files, clockOk, card, rotating>>
errors_start == startWriter
jobs_start == startWriter
auth_start == startWriter
ssh_start == startWriter
device_start == startWriter
dhcp_start == startWriter
startLog == \/ errors_start \/ jobs_start \/ auth_start \/ ssh_start \/ device_start \/ dhcp_start

\* submitLine: a full queue is not waited for.
submitLine ==
    IF Len(lq) < LogQueue
    THEN lq' = Append(lq, lines + 1) /\ UNCHANGED <<lost, owed>>
    ELSE lost' = lost + 1 /\ owed' = TRUE /\ UNCHANGED lq
\* One before the start is counted apart.
submitted(A) ==
    /\ lines < MaxLines /\ core /\ lines' = lines + 1 /\ A
    /\ UNCHANGED <<core, logTask, held, what, files, clockOk, card, rotating>>
errors_submit == submitted(submitLine)
jobs_submit == submitted(submitLine)
auth_submit == submitted(submitLine)
ssh_submit == submitted(submitLine)
device_submit == submitted(submitLine)
dhcp_note == submitted(submitLine)
submit == \/ errors_submit \/ jobs_submit \/ auth_submit \/ ssh_submit \/ device_submit \/ dhcp_note

-----------------------------------------------------------------------------
logTail(s) == SubSeq(s, IF Len(s) > KeepLines THEN Len(s) - KeepLines + 1 ELSE 1, Len(s))

\* What a rotation has seen and will leave behind, and the step that decides it.
leaves(p, archived, content) ==
    rotating' = [rotating EXCEPT ![p] = [archived |-> archived, content |-> content,
                                         seen |-> In(live), busy |-> TRUE]]
carries(p) ==
    /\ leaves(p, FALSE, logTail(live)) /\ UNCHANGED archive
    /\ excused' = excused \cup (In(live) \ In(logTail(live)))

\* As if: the live file were emptied without a copy of it.
archived_Uncopied(p) ==
    /\ card = "good" /\ fails' = 0 /\ leaves(p, TRUE, <<>>)
    /\ UNCHANGED <<archive, excused>>
\* archiveToCard: the copy is appended to the file of its range; a copy that
\* fails takes the whole file with it, or fails before it touches it.
archived(p) == card = "good" /\ archive' = archive \o live /\ fails' = 0 /\ leaves(p, TRUE, <<>>)
               /\ UNCHANGED excused
archiveFails(p) ==
    /\ card = "refuses" /\ fails' = (fails + 1) % MaxAttempts
    /\ \/ fails' = 0 /\ carries(p)
       \/ fails' # 0 /\ UNCHANGED <<rotating, archive, excused>>
       \/ fails' # 0 /\ archive' = <<>> /\ excused' = excused \cup In(archive) /\ UNCHANGED rotating

\* rotateIfNeeded: a file without a date has no name on the card and grows.
rotateIfNeeded(p, incoming, size) ==
    IF Len(live) + incoming <= size \/ ~dated
    THEN UNCHANGED <<archive, fails, rotating, excused>>
    ELSE \/ card = "absent" /\ carries(p) /\ UNCHANGED fails
         \/ archived(p) \/ archiveFails(p)

\* startFresh: the file is opened for writing or left as it is.  What another
\* party appended since the copy goes with the old content.
startFresh(p) ==
    /\ rotating[p].busy
    /\ \/ /\ live' = rotating[p].content
          /\ excused' = excused \cup (In(live) \ rotating[p].seen)
       \/ UNCHANGED <<live, excused>>
    /\ dated' = (dated /\ ~rotating[p].archived)
    /\ rotating' = [rotating EXCEPT ![p] = NotRotating]
    /\ UNCHANGED <<core, logTask, queueing, held, what, archive, cap, fails,
                   written, clockOk, card>>

-----------------------------------------------------------------------------
\* drain: a line is taken, and a notice of the lost ones goes before it.
drain_Pop ==
    /\ logTask = "wait" /\ lq # <<>>
    /\ held' = Head(lq) /\ lq' = Tail(lq) /\ logTask' = "append"
    /\ what' = IF owed /\ lost > 0 THEN "notice" ELSE "line"
    /\ UNCHANGED <<core, lines, lost, owed, files, clockOk, card, rotating>>

\* The volume refused the line: it is counted and not tried again.
refused ==
    /\ lost' = lost + 1
    /\ IF what = "notice" THEN what' = "line" /\ logTask' = "append" /\ UNCHANGED <<held, owed>>
       ELSE logTask' = "wait" /\ held' = 0 /\ owed' = TRUE /\ UNCHANGED what

append_Rotate ==
    /\ logTask = "append"
    /\ \/ refused /\ UNCHANGED <<archive, fails, rotating, excused>>
       \/ rotateIfNeeded("task", 1, cap) /\ logTask' = "write" /\ UNCHANGED <<lost, owed, held, what>>
    /\ UNCHANGED <<core, lines, lq, live, cap, dated, written, clockOk, card>>
append_Write ==
    /\ logTask = "write" /\ ~rotating["task"].busy
    /\ \/ refused /\ UNCHANGED <<live, dated, written>>
       \/ /\ live' = Append(live, IF what = "notice" THEN 0 ELSE held)
          /\ dated' = (dated \/ clockOk)
          /\ \/ what = "notice" /\ logTask' = "reset" /\ UNCHANGED <<written, held>>
             \/ what = "line" /\ logTask' = "wait" /\ written' = written \cup {held} /\ held' = 0
          /\ UNCHANGED <<lost, owed, what>>
    /\ UNCHANGED <<core, lines, lq, archive, cap, fails, excused, clockOk, card,
                   rotating>>
\* The notice is written: the count begins anew.
drain_Reset ==
    /\ logTask = "reset" /\ owed' = FALSE /\ lost' = 0 /\ what' = "line" /\ logTask' = "append"
    /\ UNCHANGED <<core, lines, lq, held, files, clockOk, card, rotating>>

\* setFileLogSize: the web task takes a smaller size to the file itself.
setMaxBytes(size) ==
    /\ core /\ ~rotating["web"].busy /\ cap' = size
    /\ rotateIfNeeded("web", 0, size)
    /\ UNCHANGED <<core, logTask, queueing, held, what, live, dated, written, clockOk,
                   card>>

-----------------------------------------------------------------------------
cardChanges(c) ==
    /\ card # c /\ card' = c
    /\ UNCHANGED <<core, logTask, queueing, held, what, files, clockOk, rotating>>
clockArrives ==
    /\ ~clockOk /\ clockOk' = TRUE
    /\ UNCHANGED <<core, logTask, queueing, held, what, files, card, rotating>>
\* A restart keeps the files; a live file just opened for its new content may be
\* found empty.
restart_Device ==
    /\ core
    /\ core' = FALSE /\ logTask' = "none" /\ lq' = <<>> /\ lost' = 0 /\ owed' = FALSE
    /\ held' = 0 /\ what' = "line" /\ dated' = FALSE /\ clockOk' = FALSE /\ fails' = 0
    /\ rotating' = [p \in Party |-> NotRotating]
    /\ \/ UNCHANGED <<live, excused>>
       \/ /\ \E p \in Party : rotating[p].busy
          /\ live' = <<>> /\ excused' = excused \cup (In(live) \ In(archive))
    /\ UNCHANGED <<lines, archive, cap, written, card>>

logStep == drain_Pop \/ append_Rotate \/ startFresh("task") \/ append_Write \/ drain_Reset
webRotates == startFresh("web")
LogNext ==
    \/ startLog \/ submit \/ logStep \/ webRotates \/ clockArrives \/ restart_Device
    \/ \E s \in Sizes : setMaxBytes(s)
    \/ \E c \in {"absent", "good", "refuses"} : cardChanges(c)

-----------------------------------------------------------------------------
\* A line that was written is on the card or in the live file.  It is gone for
\* one of four reasons only: it was older than the tail that was carried over,
\* its range's file was removed with a copy that failed, another task appended it
\* while the file was being rotated, or the power failed in that moment.
LinesKept == written \subseteq In(live) \cup In(archive) \cup excused

\* Lost lines are spoken of: while any are counted, the next line that is
\* written is preceded by their number.
LossIsOwed == lost > 0 => owed \/ logTask = "reset"

LogBusy == logTask \in {"append", "write", "reset"}

\* No line goes without a reason, and no loss without a word.
LogsSafe == LogTypeOK /\ LinesKept /\ LossIsOwed
=============================================================================
