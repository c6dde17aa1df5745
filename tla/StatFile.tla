------------------------------ MODULE StatFile ------------------------------
(***************************************************************************)
(* The counters of the main page and their file (dns/DnsStatStore.cpp, the   *)
(* statistics job of dns/DnsServer.cpp): the job that a restart, a button or *)
(* the autosave starts, its two attempts, the publishing of the new record   *)
(* beside the old one, its return at the next start, the reset, and a power  *)
(* cut at any point.                                                         *)
(*                                                                         *)
(* A record is the number of the reset it was counted after and a count: the *)
(* nine counters are one.  The wait of a restart or of the autosave for the  *)
(* job reads only `statBusy` and gives up in the end, so the restart itself  *)
(* is `reboot`, at any point.                                                *)
(***************************************************************************)
EXTENDS Naturals

CONSTANTS
    MaxCount,      \* bound on the count
    MaxResets      \* bound on the resets

ASSUME StatAssumption == MaxCount \in Nat /\ MaxResets \in Nat

Totals == (0 .. MaxResets) \X (0 .. MaxCount)
StatRecord == {<<"whole", t>> : t \in Totals}
Whole(r) == r \in StatRecord
NoFile == <<"none">>
Torn == <<"torn">>

VARIABLES
    counts,            \* internalCacheHits_ and the other counters
    statFile,          \* Statistica.dat
    statPart,          \* Statistica.dat.part
    keepStats,         \* cacheInternalSaveStats
    jobManual,         \* statsJobManual_
    statBusy,          \* statsJob_: busy_
    verdict,           \* statsJob_: verdict_
    statPc, attempt,   \* the job
    jobTotals,         \* totals of the job
    outcome,           \* the result of its attempt
    resets,            \* how often the statistics were reset
    saved,             \* what a job last reported as saved, until it is given up
    wasAsked,          \* the job was started by a button or the autosave
    overtaken,         \* another request came while it ran
    revived            \* a reset left a record of the part file, or a running job, behind

statVars == <<counts, statFile, statPart, keepStats, jobManual, statBusy, verdict, statPc, attempt,
              jobTotals, outcome, resets, saved, wasAsked, overtaken, revived>>
volumeVars == <<statFile, statPart>>
jobVars == <<jobManual, statBusy, verdict, statPc, attempt, jobTotals, outcome, wasAsked, overtaken>>

Verdict == {"none", "ok", "skipped", "mismatch", "failed"}

StatTypeOK ==
    /\ counts \in Totals /\ jobTotals \in Totals
    /\ statFile \in StatRecord \cup {NoFile, Torn} /\ statPart \in StatRecord \cup {NoFile, Torn}
    /\ keepStats \in BOOLEAN /\ jobManual \in BOOLEAN /\ statBusy \in BOOLEAN
    /\ verdict \in Verdict /\ outcome \in Verdict
    /\ statPc \in {"none", "begin", "clear", "open", "write", "publish", "rename", "verify", "finish"}
    /\ attempt \in 1 .. 2 /\ resets \in 0 .. MaxResets
    /\ saved \in StatRecord \cup {NoFile} /\ wasAsked \in BOOLEAN /\ overtaken \in BOOLEAN /\ revived \in BOOLEAN

StatInit ==
    /\ counts = <<0, 0>> /\ jobTotals = <<0, 0>>
    /\ statFile = NoFile /\ statPart = NoFile
    /\ keepStats \in BOOLEAN /\ jobManual = FALSE /\ statBusy = FALSE
    /\ verdict = "none" /\ outcome = "none" /\ statPc = "none" /\ attempt = 1
    /\ resets = 0 /\ saved = NoFile /\ wasAsked = FALSE /\ overtaken = FALSE /\ revived = FALSE

\* A query is answered.
count ==
    /\ counts[2] < MaxCount
    /\ counts' = [counts EXCEPT ![2] = @ + 1]
    /\ UNCHANGED <<volumeVars, keepStats, jobVars, resets, saved, revived>>

\* The switch of the DNS page.
setKeepStats ==
    /\ keepStats' = ~keepStats
    /\ UNCHANGED <<counts, volumeVars, jobVars, resets, saved, revived>>

-----------------------------------------------------------------------------
\* A restart asks (`manual` false), or a button or the autosave.  The flag is
\* set for whichever job reads it next, the refused request's included.
startStatsSaveJob(manual) ==
    /\ jobManual' = manual
    /\ IF ~manual /\ ~keepStats THEN
            /\ verdict' = "skipped"
            /\ overtaken' = statBusy
            /\ UNCHANGED <<statBusy, statPc, wasAsked>>
       ELSE IF statBusy THEN
            /\ overtaken' = TRUE
            /\ UNCHANGED <<statBusy, verdict, statPc, wasAsked>>
       ELSE \/ /\ statBusy' = TRUE /\ verdict' = "none" /\ statPc' = "begin"
               /\ wasAsked' = manual /\ overtaken' = FALSE
            \/ /\ verdict' = "failed"      \* the task cannot be created
               /\ UNCHANGED <<statBusy, statPc, wasAsked, overtaken>>
    /\ UNCHANGED <<counts, volumeVars, keepStats, attempt, jobTotals, outcome, resets, saved, revived>>

writeStatsNow ==
    /\ statPc = "begin"
    /\ IF ~jobManual /\ ~keepStats
       THEN statPc' = "finish" /\ outcome' = "skipped" /\ UNCHANGED <<attempt, jobTotals>>
       ELSE statPc' = "open" /\ attempt' = 1 /\ jobTotals' = counts /\ UNCHANGED outcome
    /\ UNCHANGED <<counts, volumeVars, keepStats, jobManual, statBusy, verdict, wasAsked, overtaken,
                   resets, saved, revived>>

\* One attempt, one retry, the verdict of the last.
attemptEnds(result) ==
    /\ outcome' = result
    /\ IF result = "ok" \/ attempt = 2
       THEN statPc' = "finish" /\ UNCHANGED attempt
       ELSE statPc' = "clear" /\ attempt' = 2

\* The second attempt starts from nothing: the old file goes first.
saveWithRetry ==
    /\ statPc = "clear"
    /\ statPc' = "open"
    /\ statFile' = NoFile
    /\ saved' = NoFile
    /\ UNCHANGED <<counts, statPart, keepStats, jobManual, statBusy, verdict, attempt, jobTotals, outcome,
                   wasAsked, overtaken, resets, revived>>

\* As if: the record were written straight into its file.
save_InPlace ==
    /\ statPc = "open"
    /\ \/ statFile' = Torn /\ statPart' = Torn /\ statPc' = "write" /\ UNCHANGED <<attempt, outcome>>
       \/ attemptEnds("failed") /\ UNCHANGED volumeVars
    /\ UNCHANGED <<counts, keepStats, jobManual, statBusy, verdict, jobTotals, wasAsked, overtaken,
                   resets, saved, revived>>

save ==
    /\ statPc = "open"
    /\ \/ statPart' = Torn /\ statPc' = "write" /\ UNCHANGED <<attempt, outcome>>
       \/ attemptEnds("failed") /\ UNCHANGED statPart
    /\ UNCHANGED <<counts, statFile, keepStats, jobManual, statBusy, verdict, jobTotals, wasAsked, overtaken,
                   resets, saved, revived>>

\* The record is written and closed.  A part that recover() renamed while it was
\* open (the file system does not lock it) is written somewhere or nowhere.
save_Write ==
    /\ statPc = "write"
    /\ \/ /\ IF statPart = Torn THEN statPart' = <<"whole", jobTotals>> /\ UNCHANGED statFile
                                ELSE statFile' \in {statFile, <<"whole", jobTotals>>} /\ UNCHANGED statPart
          /\ statPc' = "publish" /\ UNCHANGED <<attempt, outcome>>
       \/ statPart' = NoFile /\ attemptEnds("failed") /\ UNCHANGED statFile
    /\ UNCHANGED <<counts, keepStats, jobManual, statBusy, verdict, jobTotals, wasAsked, overtaken,
                   resets, saved, revived>>

\* The old version is removed, and then the part renamed: a rename onto an
\* existing name is refused.
publish ==
    /\ statPc = "publish"
    /\ \/ /\ statPart # NoFile
          /\ statFile' = NoFile /\ statPc' = "rename"
          /\ UNCHANGED <<attempt, outcome>>
       \/ attemptEnds("failed") /\ UNCHANGED statFile
    /\ UNCHANGED <<counts, statPart, keepStats, jobManual, statBusy, verdict, jobTotals, wasAsked, overtaken,
                   resets, saved, revived>>

publish_Rename ==
    /\ statPc = "rename"
    /\ \/ /\ statPart # NoFile /\ statFile = NoFile
          /\ statFile' = statPart /\ statPart' = NoFile /\ statPc' = "verify"
          /\ UNCHANGED <<attempt, outcome>>
       \/ attemptEnds("failed") /\ UNCHANGED volumeVars
    /\ UNCHANGED <<counts, keepStats, jobManual, statBusy, verdict, jobTotals, wasAsked, overtaken,
                   resets, saved, revived>>

\* Read back and compared; a read may fail.
verifyStats ==
    /\ statPc = "verify"
    /\ \/ statFile = <<"whole", jobTotals>> /\ attemptEnds("ok")
       \/ attemptEnds("mismatch")
    /\ UNCHANGED <<counts, volumeVars, keepStats, jobManual, statBusy, verdict, jobTotals, wasAsked, overtaken,
                   resets, saved, revived>>

statsJobTask ==
    /\ statPc = "finish"
    /\ statPc' = "none"
    /\ statBusy' = FALSE
    /\ verdict' = outcome
    /\ saved' = IF outcome = "ok" /\ ~revived THEN <<"whole", jobTotals>> ELSE saved
    /\ attempt' = 1 /\ jobTotals' = <<0, 0>> /\ outcome' = "none" /\ wasAsked' = FALSE /\ overtaken' = FALSE
    /\ UNCHANGED <<counts, volumeVars, keepStats, jobManual, resets, revived>>

-----------------------------------------------------------------------------
\* recover(): a part without its file is the new file.
recovered == IF statFile = NoFile THEN statPart ELSE statFile

\* load() and applyStatsTotals: a damaged record is refused.
load ==
    /\ statFile' = recovered
    /\ statPart' = IF statFile = NoFile THEN NoFile ELSE statPart

restored(otherwise) == IF Whole(recovered) THEN recovered[2] ELSE otherwise

\* The end of DnsServer::start, whenever the DNS server is switched on.
restoreStatsFromFile ==
    /\ keepStats
    /\ load
    /\ counts' = restored(counts)
    /\ UNCHANGED <<keepStats, jobVars, resets, saved, revived>>

\* The button of the page; without a file it is not even tried.
loadStatsFileNow ==
    /\ statFile # NoFile
    /\ load
    /\ counts' = restored(counts)
    /\ UNCHANGED <<keepStats, jobVars, resets, saved, revived>>

\* What a reset cannot reach: the part file, and a record on its way to the volume.
leavesBehind == statBusy \/ Whole(statPart)

removeStatsFile == statFile' = NoFile

resetStats ==
    /\ resets < MaxResets
    /\ resets' = resets + 1
    /\ counts' = <<resets + 1, 0>>
    /\ removeStatsFile
    /\ saved' = NoFile
    /\ revived' = (revived \/ leavesBehind)
    /\ UNCHANGED <<statPart, keepStats, jobVars>>

rebooted ==
    /\ statBusy' = FALSE /\ statPc' = "none" /\ verdict' = "none" /\ outcome' = "none"
    /\ jobManual' = FALSE /\ attempt' = 1 /\ jobTotals' = <<0, 0>> /\ wasAsked' = FALSE /\ overtaken' = FALSE

\* The supply fails, or the device restarts: the DNS server's start restores.
\* With the switch off a record that was cut off from its name stays in the part
\* file, which the next save opens for writing.
reboot ==
    /\ rebooted
    /\ IF keepStats THEN load /\ counts' = restored(<<resets, 0>>) /\ UNCHANGED saved
       ELSE /\ counts' = <<resets, 0>> /\ UNCHANGED volumeVars
            /\ saved' = IF statFile = NoFile THEN NoFile ELSE saved
    /\ UNCHANGED <<keepStats, resets, revived>>

\* A factory reset: the settings are erased (the switch is on by default), the
\* file is deleted and the device restarts.
deleteStatsFile ==
    /\ resets < MaxResets
    /\ rebooted
    /\ resets' = resets + 1
    /\ keepStats' = TRUE
    /\ counts' = IF Whole(statPart) THEN statPart[2] ELSE <<resets + 1, 0>>
    /\ statFile' = statPart /\ statPart' = NoFile
    /\ saved' = NoFile
    /\ revived' = (revived \/ leavesBehind)

statJobStep ==
    writeStatsNow \/ saveWithRetry \/ save \/ save_Write \/ publish \/ publish_Rename \/ verifyStats \/ statsJobTask
StatNext ==
    \/ count \/ setKeepStats \/ startStatsSaveJob(TRUE) \/ startStatsSaveJob(FALSE)
    \/ statJobStep \/ restoreStatsFromFile \/ loadStatsFileNow \/ resetStats \/ reboot \/ deleteStatsFile

-----------------------------------------------------------------------------
\* What a job reported as saved can be restored, or something newer: a power cut
\* inside a later save included, up to the point where a second attempt gives
\* the old record up ("the counters survive both a crash and a reboot").
SavedIsRestorable ==
    Whole(saved) => Whole(recovered) /\ (recovered[2][1] = saved[2][1])

\* Reset statistics do not come back with a restart: "the operator who pressed
\* Reset would watch his statistics return".  A job that runs during the reset,
\* and a record that a failed publishing left in the part file, do bring them
\* back.
ResetIsFinal == ~revived => counts[1] = resets

\* A save that was asked for writes, whatever the switch says: "a button that
\* quietly did nothing while that switch was off would be a lie".  A request of
\* a restart before the job has read the flag makes it one.
OrderIsObeyed == wasAsked /\ ~overtaken => ~(statPc = "finish" /\ outcome = "skipped")

StatBusy == statBusy

\* The file of the statistics follows what the operator was told: saved, reset
\* and asked for.
StatisticsSafe == StatTypeOK /\ SavedIsRestorable /\ ResetIsFinal /\ OrderIsObeyed
=============================================================================
