------------------------------ MODULE Uploads ------------------------------
(***************************************************************************)
(* Files that arrive over HTTP: the upload tasks of RestApi, the text      *)
(* editor's save, FileSink with its `<name>.part`, the range check of a    *)
(* resumed upload, the one record of a paused upload, and the rows these   *)
(* operations have in the job table.                                       *)
(*                                                                         *)
(* A file is the sequence of the windows written into it.  Every upload of *)
(* a path sends the same Windows windows, so a whole file is 1..Windows in *)
(* order.  Patient says that a client sends a path again only when the     *)
(* device is done with its last request for it.                            *)
(***************************************************************************)
EXTENDS JobTable, FiniteSets

CONSTANTS Path, Request, Windows, MaxTransfers, RetryLimit, Patient, Absent

ASSUME UploadsAssumption ==
    /\ Windows \in Nat \ {0} /\ MaxTransfers \in Nat \ {0} /\ RetryLimit \in Nat
    /\ Patient \in BOOLEAN /\ Absent \notin Path

VARIABLES
    published,   \* path -> the file under its own name, or Absent
    part,        \* path -> the file `<name>.part`, or Absent
    request,     \* request -> its UploadWork, the pc of its task included
    jobs,        \* the table of JobRegistry
    pausedUpload \* g_pausedUpload: a path, or Absent

uploadVars == <<published, part, request, jobs, pausedUpload>>

Old == <<0>>
Text == <<Windows + 1>>
Whole == [i \in 1 .. Windows |-> i]

Idle == [pc |-> "idle", path |-> Absent, offset |-> 0, total |-> 0, remaining |-> 0,
         attached |-> FALSE, alive |-> TRUE, retries |-> 0, ok |-> TRUE]

Active(r) == request[r].pc # "idle"
Writing(r, p) == Active(r) /\ request[r].path = p
PartSize(p) == IF part[p] = Absent THEN 0 ELSE Len(part[p])

\* The file behind an open sink: unlinking `.part` leaves its writer with none.
Detach(p) == [r \in Request |->
    IF Writing(r, p) THEN [request[r] EXCEPT !.attached = FALSE] ELSE request[r]]

UploadsTypeOK ==
    /\ published \in [Path -> {Absent} \cup Seq(0 .. Windows + 1)]
    /\ part \in [Path -> {Absent} \cup Seq(1 .. Windows + 1)]
    /\ request \in [Request ->
          [pc : {"idle", "open", "begin", "recv", "ended", "publish"}, path : Path \cup {Absent},
           offset : 0 .. Windows, total : 0 .. Windows, remaining : 0 .. Windows,
           attached : BOOLEAN, alive : BOOLEAN, retries : 0 .. RetryLimit, ok : BOOLEAN]]
    /\ jobs \in Seq(JobRow(Path)) /\ Len(jobs) <= MaxJobs
    /\ pausedUpload \in Path \cup {Absent}

UploadsInit ==
    /\ published \in [Path -> {Absent, Old}]
    /\ part = [p \in Path |-> Absent]
    /\ request = [r \in Request |-> Idle]
    /\ jobs = <<>>
    /\ pausedUpload = Absent

-----------------------------------------------------------------------------
\* A request arrives: the whole file without a total, or windows offset+1
\* onwards of a resumable upload.  Over the budget it is refused.
handlePostFileUpload(r, p, offset, total, count) ==
    /\ ~Active(r)
    /\ Patient => \A q \in Request : ~Writing(q, p)
    /\ Cardinality({q \in Request : Active(q)}) < MaxTransfers
    /\ total = 0 => offset = 0 /\ count = Windows
    /\ offset + count <= Windows
    /\ request' = [request EXCEPT ![r] = [Idle EXCEPT !.pc = "open", !.path = p,
                      !.offset = offset, !.total = total, !.remaining = count]]
    /\ UNCHANGED <<published, part, jobs, pausedUpload>>

\* The client goes away; the task hears of it at a later receive.
ClientLeaves(r) ==
    /\ request[r].pc \in {"open", "begin", "recv"} /\ request[r].alive
    /\ request' = [request EXCEPT ![r].alive = FALSE]
    /\ UNCHANGED <<published, part, jobs, pausedUpload>>

\* UploadRange::check: a range continues exactly where the part ends.
rangeOk(p, offset, total, count) ==
    /\ count > 0
    /\ total > 0 => offset = PartSize(p) /\ offset < total /\ offset + count <= total
    /\ total = 0 => offset = 0
resumable(u) == u.total > 0
completes(u) == resumable(u) => u.offset + u.remaining = u.total

\* openWrite refuses: a range that does not fit, a full volume.
openWrite_Refuse(r) ==
    /\ request[r].pc = "open"
    /\ request' = [request EXCEPT ![r] = Idle]
    /\ UNCHANGED <<published, part, jobs, pausedUpload>>

\* openWrite and FileSink's constructor: a first chunk truncates the part.
openWrite(r) ==
    LET u == request[r] IN
    /\ u.pc = "open"
    /\ rangeOk(u.path, u.offset, u.total, u.remaining)
    /\ part' = [part EXCEPT ![u.path] =
                   IF u.offset = 0 \/ @ = Absent THEN <<>> ELSE @]
    /\ request' = [request EXCEPT ![r].pc = "begin", ![r].attached = TRUE]
    /\ UNCHANGED <<published, jobs, pausedUpload>>

\* The row is opened and the record of a paused upload of this path forgotten.
uploadTask_Begin(r) ==
    LET p == request[r].path IN
    /\ request[r].pc = "begin"
    /\ jobs' = jobBegin(jobs, p, FALSE)
    /\ pausedUpload' = IF pausedUpload = p THEN Absent ELSE pausedUpload
    /\ request' = [request EXCEPT ![r].pc = "recv"]
    /\ UNCHANGED <<published, part>>

\* One window is received and written; afterwards a stop is looked for.
uploadTask_Receive(r) ==
    LET u == request[r]
        next == u.offset + 1
        chunk == IF u.attached THEN Append(part[u.path], next) ELSE <<>>
        stopped == jobCancelRequested(jobs, u.path)
    IN
    /\ u.pc = "recv" /\ u.remaining > 0 /\ u.alive
    /\ part' = [part EXCEPT ![u.path] =
                   IF stopped THEN Absent ELSE IF u.attached THEN chunk ELSE @]
    /\ \/ /\ ~stopped
          /\ request' = [request EXCEPT ![r].remaining = @ - 1, ![r].offset = next,
                            ![r].retries = 0]
          /\ jobs' \in {jobs, jobProgress(jobs, u.path)}
       \/ /\ stopped
          /\ request' = [Detach(u.path) EXCEPT ![r] = Idle]
          /\ jobs' = jobFinish(jobs, u.path, "cancelled")
    /\ UNCHANGED <<published, pausedUpload>>

\* A receive that times out is tried again, up to the limit.
uploadTask_Timeout(r) ==
    /\ request[r].pc = "recv" /\ request[r].remaining > 0 /\ ~request[r].alive
    /\ request[r].retries < RetryLimit
    /\ request' = [request EXCEPT ![r].retries = @ + 1]
    /\ UNCHANGED <<published, part, jobs, pausedUpload>>
\* The loop ends: all windows are in, the connection is gone for good, or a
\* write failed.
uploadTask_LoopEnds(r) ==
    LET u == request[r] IN
    /\ u.pc = "recv"
    /\ \/ u.remaining = 0 /\ request' = [request EXCEPT ![r].pc = "ended"]
       \/ /\ u.remaining > 0
          /\ u.alive \/ u.retries = RetryLimit
          /\ request' = [request EXCEPT ![r].pc = "ended", ![r].ok = FALSE]
    /\ UNCHANGED <<published, part, jobs, pausedUpload>>

\* Incomplete and not resumable: FileSink::abort.
uploadTask_Abort(r) ==
    LET u == request[r] IN
    /\ u.pc = "ended" /\ ~(u.ok /\ completes(u)) /\ ~resumable(u)
    /\ part' = [part EXCEPT ![u.path] = Absent]
    /\ request' = [Detach(u.path) EXCEPT ![r] = Idle]
    /\ jobs' = jobFinish(jobs, u.path, "failed")
    /\ UNCHANGED <<published, pausedUpload>>

\* Incomplete and resumable: FileSink::keep, the row pauses, the record.
uploadTask_Keep(r) ==
    LET u == request[r] IN
    /\ u.pc = "ended" /\ ~(u.ok /\ completes(u)) /\ resumable(u)
    /\ request' = [request EXCEPT ![r] = Idle]
    /\ jobs' = jobPause(jobs, u.path)
    /\ pausedUpload' = u.path
    /\ UNCHANGED <<published, part>>

\* FileSink::commit: the old file goes, the part takes its name.
commit_Unlink(r) ==
    LET u == request[r] IN
    /\ u.pc = "ended" /\ u.ok /\ completes(u)
    /\ published' = [published EXCEPT ![u.path] = Absent]
    /\ request' = [request EXCEPT ![r].pc = "publish"]
    /\ UNCHANGED <<part, jobs, pausedUpload>>

commit_Rename(r) ==
    LET u == request[r] IN
    /\ u.pc = "publish" /\ u.attached /\ part[u.path] # Absent
    /\ published' = [published EXCEPT ![u.path] = part[u.path]]
    /\ part' = [part EXCEPT ![u.path] = Absent]
    /\ request' = [request EXCEPT ![r] = Idle]
    /\ jobs' = jobFinish(jobs, u.path, "done")
    /\ pausedUpload' = IF pausedUpload = u.path THEN Absent ELSE pausedUpload

\* The rename fails, or there is no part to rename: the part is removed too.
commit_Fail(r) ==
    LET u == request[r] IN
    /\ u.pc = "publish"
    /\ part' = [part EXCEPT ![u.path] = Absent]
    /\ request' = [Detach(u.path) EXCEPT ![r] = Idle]
    /\ jobs' = jobFinish(jobs, u.path, "failed")
    /\ UNCHANGED <<published, pausedUpload>>

-----------------------------------------------------------------------------
\* The Files page drops a partial upload, whatever a request is doing with it.
handlePostFileUploadCancel(p) ==
    /\ part[p] # Absent \/ jobContains(jobs, p)
    /\ part' = [part EXCEPT ![p] = Absent]
    /\ request' = Detach(p)
    /\ jobs' = jobFinish(jobs, p, "cancelled")
    /\ UNCHANGED <<published, pausedUpload>>

\* The scheduler page: the request is recorded, and the remembered paused
\* upload, which no request would hear it for, is dropped at once.
handlePostJobCancel(p) ==
    /\ jobCancellable(jobs, p)
    /\ \/ /\ pausedUpload = p
          /\ pausedUpload' = Absent
          /\ part' = [part EXCEPT ![p] = Absent]
          /\ request' = Detach(p)
          /\ jobs' = jobFinish(jobRequestCancel(jobs, p), p, "cancelled")
       \/ /\ pausedUpload # p
          /\ ~jobCancelRequested(jobs, p)
          /\ jobs' = jobRequestCancel(jobs, p)
          /\ UNCHANGED <<part, request, pausedUpload>>
    /\ UNCHANGED published

\* The editor's save, written through the same `.part` by the server task; the
\* rename may fail after the old file went.
handlePostFileText(p) ==
    /\ Patient => \A q \in Request : ~Writing(q, p)
    /\ part' = [part EXCEPT ![p] = Absent]
    /\ request' = Detach(p)
    /\ \E file \in {Text, Absent} : published' = [published EXCEPT ![p] = file]
    /\ UNCHANGED <<jobs, pausedUpload>>

\* Delete of a published file by the file manager.
removeFile(p) ==
    /\ published[p] # Absent
    /\ published' = [published EXCEPT ![p] = Absent]
    /\ UNCHANGED <<part, request, jobs, pausedUpload>>

uploadTask(r) ==
    \/ openWrite_Refuse(r) \/ openWrite(r) \/ uploadTask_Begin(r)
    \/ uploadTask_Receive(r) \/ uploadTask_Timeout(r) \/ uploadTask_LoopEnds(r)
    \/ uploadTask_Abort(r) \/ uploadTask_Keep(r)
    \/ commit_Unlink(r) \/ commit_Rename(r) \/ commit_Fail(r)

UploadsNext ==
    \/ \E r \in Request, p \in Path, offset \in 0 .. Windows, count \in 1 .. Windows,
          total \in {0, Windows} : handlePostFileUpload(r, p, offset, total, count)
    \/ \E r \in Request : ClientLeaves(r) \/ uploadTask(r)
    \/ \E p \in Path : \/ handlePostFileUploadCancel(p) \/ handlePostJobCancel(p)
                       \/ handlePostFileText(p) \/ removeFile(p)

-----------------------------------------------------------------------------
\* A file under its own name is a whole one: what was there before, what the
\* editor saved, or every window of an upload once and in order, however many
\* requests, pauses, cancels and failures it took.
PublishedWhole == \A p \in Path : published[p] \in {Absent, Old, Text, Whole}

\* The record of the paused upload never names one whose request is being
\* read, so that a stop from the scheduler page cannot take the part away
\* from a transfer that goes on.
PausedIsIdle ==
    \A r \in Request : request[r].pc = "recv" => pausedUpload # request[r].path

\* An upload has a task and a place in the budget.
UploadsBusy == \E r \in Request : Active(r)
============================================================================
