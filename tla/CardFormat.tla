---------------------------- MODULE CardFormat ----------------------------
(***************************************************************************)
(* Formatting a volume from the web page: the request handler, the task it *)
(* starts, the stop from the scheduler page and the power cut behind it,   *)
(* with the two flags they share (g_formatAbandoned, g_formatCallDone) and *)
(* the row "format" of the job table.  Handlers run in the one task of the *)
(* HTTP server, so each is one step; the format tasks and the power cuts   *)
(* run beside it.                                                          *)
(***************************************************************************)
EXTENDS JobTable

CONSTANTS Formatter   \* one per format request: its task and its power cut

VARIABLES
    fmt,        \* formatter -> pc of formatTask
    cut,        \* formatter -> pc of powerCutTask
    stopped,    \* formatters whose row the operator stopped, and when
    touched,    \* formatters whose erase has begun
    formatting, \* FileManager::formatting_
    abandoned,  \* g_formatAbandoned
    callDone,   \* g_formatCallDone
    fmtJobs     \* the table of JobRegistry, for the one row "format"

formatVars == <<fmt, cut, stopped, touched, formatting, abandoned, callDone, fmtJobs>>

FormatTypeOK ==
    /\ fmt \in [Formatter -> {"none", "look", "format", "erase", "returned", "flags", "close", "ended"}]
    /\ cut \in [Formatter -> {"none", "grace", "ended"}]
    /\ stopped \subseteq Formatter /\ touched \subseteq Formatter
    /\ formatting \in BOOLEAN /\ abandoned \in BOOLEAN /\ callDone \in BOOLEAN
    /\ fmtJobs \in Seq(JobRow({"format"}))

FormatInit ==
    /\ fmt = [f \in Formatter |-> "none"]
    /\ cut = [f \in Formatter |-> "none"]
    /\ stopped = {} /\ touched = {}
    /\ formatting = FALSE /\ abandoned = FALSE /\ callDone = FALSE
    /\ fmtJobs = <<>>

-----------------------------------------------------------------------------
\* As if: the flags of a stopped format are left as they are.
handlePostFileFormat_StaleFlags(f) ==
    /\ fmt[f] = "none" /\ ~jobContains(fmtJobs, "format")
    /\ fmt' = [fmt EXCEPT ![f] = "look"]
    /\ fmtJobs' = jobBegin(fmtJobs, "format", FALSE)
    /\ UNCHANGED <<cut, stopped, touched, formatting, abandoned, callDone>>

\* POST /api/files/format: one row at a time, fresh flags, a task of its own.
handlePostFileFormat(f) ==
    /\ fmt[f] = "none" /\ ~jobContains(fmtJobs, "format")
    /\ abandoned' = FALSE /\ callDone' = FALSE
    /\ \/ /\ fmt' = [fmt EXCEPT ![f] = "look"]        \* runDetached starts the task
          /\ fmtJobs' = jobBegin(fmtJobs, "format", FALSE)
       \/ /\ fmt' = [fmt EXCEPT ![f] = "ended"]       \* no task: the row goes again
          /\ UNCHANGED fmtJobs
    /\ UNCHANGED <<cut, stopped, touched, formatting>>

\* A stop that is still recorded in the row prevents the erase.
formatTask_Look(f) ==
    /\ fmt[f] = "look"
    /\ fmt' = [fmt EXCEPT ![f] = IF jobCancelRequested(fmtJobs, "format") THEN "flags" ELSE "format"]
    /\ UNCHANGED <<cut, stopped, touched, formatting, abandoned, callDone, fmtJobs>>

\* FileManager::format: refused while another one runs.
format_Busy(f) ==
    /\ fmt[f] = "format" /\ formatting
    /\ fmt' = [fmt EXCEPT ![f] = "returned"]
    /\ UNCHANGED <<cut, stopped, touched, formatting, abandoned, callDone, fmtJobs>>
format_Start(f) ==
    /\ fmt[f] = "format" /\ ~formatting
    /\ formatting' = TRUE
    /\ touched' = touched \cup {f}
    /\ fmt' = [fmt EXCEPT ![f] = "erase"]
    /\ UNCHANGED <<cut, stopped, abandoned, callDone, fmtJobs>>
format_Return(f) ==
    /\ fmt[f] = "erase"
    /\ formatting' = FALSE
    /\ fmt' = [fmt EXCEPT ![f] = "returned"]
    /\ UNCHANGED <<cut, stopped, touched, abandoned, callDone, fmtJobs>>

formatTask_CallDone(f) ==
    /\ fmt[f] = "returned"
    /\ callDone' = TRUE
    /\ fmt' = [fmt EXCEPT ![f] = "flags"]
    /\ UNCHANGED <<cut, stopped, touched, formatting, abandoned, fmtJobs>>

\* g_formatAbandoned.exchange(false): an abandoned format has no row to close.
formatTask_Flags(f) ==
    /\ fmt[f] = "flags"
    /\ abandoned' = FALSE
    /\ fmt' = [fmt EXCEPT ![f] = IF abandoned THEN "ended" ELSE "close"]
    /\ UNCHANGED <<cut, stopped, touched, formatting, callDone, fmtJobs>>
formatTask_Close(f) ==
    /\ fmt[f] = "close"
    /\ fmtJobs' = jobFinish(fmtJobs, "format", "done")
    /\ fmt' = [fmt EXCEPT ![f] = "ended"]
    /\ UNCHANGED <<cut, stopped, touched, formatting, abandoned, callDone>>

\* The stop: recorded, abandoned, its row finished at once, and the power cut
\* of the volume started.  `Newest` is the format the row stands for.
Newest(f) == fmt[f] \notin {"none", "ended"}
stopFormat(f) ==
    /\ Newest(f) /\ f \notin stopped
    /\ jobCancellable(fmtJobs, "format")
    /\ abandoned' = TRUE
    /\ fmtJobs' = jobFinish(jobRequestCancel(fmtJobs, "format"), "format", "cancelled")
    /\ \E start \in {"grace", "ended"} : cut' = [cut EXCEPT ![f] = start]
    /\ stopped' = stopped \cup {f}
    /\ UNCHANGED <<fmt, touched, formatting, callDone>>

\* After the grace period the supply is cut unless a call has returned; what
\* runs on the card then returns with an error.
powerCutTask(f) ==
    /\ cut[f] = "grace"
    /\ cut' = [cut EXCEPT ![f] = "ended"]
    /\ \/ callDone /\ UNCHANGED <<fmt, formatting>>
       \/ /\ ~callDone
          /\ formatting' = FALSE
          /\ fmt' = [g \in Formatter |-> IF fmt[g] = "erase" THEN "returned" ELSE fmt[g]]
    /\ UNCHANGED <<stopped, touched, abandoned, callDone, fmtJobs>>

formatTask(f) ==
    \/ formatTask_Look(f) \/ format_Busy(f) \/ format_Start(f) \/ format_Return(f)
    \/ formatTask_CallDone(f) \/ formatTask_Flags(f) \/ formatTask_Close(f)

FormatNext == \E f \in Formatter :
    handlePostFileFormat(f) \/ formatTask(f) \/ stopFormat(f) \/ powerCutTask(f)

-----------------------------------------------------------------------------
\* The row that refuses every other format is in the list.
FormatBusy == jobContains(fmtJobs, "format")

\* formatTask says of a stop that arrives before the erase starts that it
\* "prevents it altogether": a task whose stop came before it looked for one
\* does not go on to erase.
StopBeforeErase ==
    [][\A f \in stopped : fmt[f] = "look" => fmt'[f] # "format"]_formatVars
===========================================================================
