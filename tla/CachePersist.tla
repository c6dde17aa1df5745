--------------------------- MODULE CachePersist ---------------------------
(***************************************************************************)
(* The file of the built-in DNS cache, /fat/cache.dat: the persist job of  *)
(* src/dns/DnsServer.cpp (saves and loads of the web pages, the restore at *)
(* boot, the save a planned restart asks for and reads back), the periodic *)
(* save of src/dns/CacheAutosave.cpp, saveToFile() and loadFromFile() of   *)
(* src/dns/InternalDnsCache.cpp and the two directory operations of        *)
(* src/core/AtomicFile.cpp, with a power cut possible between any two.     *)
(*                                                                         *)
(* A content of the volume is the write that made it and what became of    *)
(* it: "torn" until the file is closed, then "whole", or "bad" when the    *)
(* medium or a skipped count patch left other bytes than were written and  *)
(* nobody was told. Two writes never produce the same bytes (remaining     *)
(* lifetimes differ), so a checksum stands for the content it was taken of.*)
(*                                                                         *)
(* The cache stays switched on. Rows of the job registry steer nothing     *)
(* here: a row that cannot be opened skips one automatic save, and the     *)
(* stop request saveNow() looks for went with the row it has just closed.  *)
(***************************************************************************)
EXTENDS Integers

CONSTANTS kAttempts,       \* RestartSaveVerify::kAttempts
          Faults,          \* which operations of the volume or the heap may fail
          SavesOverlap,    \* an automatic save or an upload may run beside the job
          MaxStarts,       \* bound on jobs and automatic saves started
          MaxResets,       \* bound on power cuts
          None

Fault == {"task", "open", "header", "write", "silent", "remove", "rename", "hash"}

Content == [write : Nat, state : {"torn", "whole", "bad"}]

ASSUME CachePersistAssumption ==
    /\ kAttempts \in Nat \ {0} /\ Faults \subseteq Fault /\ SavesOverlap \in BOOLEAN
    /\ MaxStarts \in Nat /\ MaxResets \in Nat /\ None \notin Content

VARIABLES file, part,      \* cache.dat and cache.dat.part
          md5,             \* cacheInternalFileMd5 of the settings
          entries,         \* the cache holds something to save
          busy, isSave, force, owed, result, checked,   \* persist*_
          job,             \* the locals of persistJobTask
          save,            \* each writer's saveToFile()
          enabled,         \* CacheAutosave::enabled_
          restart,         \* each caller of startCacheSaveForRestart()
          writes,          \* writes begun, which names their contents
          starts, resets   \* bounds

volume  == <<file, part>>
persist == <<busy, isSave, force, owed, result, checked>>
bounds  == <<starts, resets>>
vars    == <<volume, md5, entries, persist, job, save, enabled, restart, writes, bounds>>

Writer == {"job", "auto"}
Caller == {"prepare", "reboot"}   \* the web page's first step; console, SSH or web reboot
Foreign == [write |-> 0, state |-> "whole"]     \* a file put there by the file manager
Result == {"none", "ok", "empty", "mismatch", "failed"}

NoSave == [pc |-> "idle", write |-> 0, outcome |-> "none"]
NoJob  == [pc |-> "idle", verify |-> FALSE, attempt |-> 0, result |-> "failed"]
Begun  == [NoSave EXCEPT !.pc = "open"]

Init ==
    /\ file = None /\ part = None /\ md5 = None
    /\ entries = FALSE /\ enabled = FALSE
    /\ busy = FALSE /\ isSave = FALSE /\ force = FALSE /\ owed = FALSE
    /\ result = "none" /\ checked = FALSE
    /\ job = NoJob /\ save = [w \in Writer |-> NoSave]
    /\ restart = [c \in Caller |-> "idle"]
    /\ writes = 0 /\ starts = 0 /\ resets = 0
---------------------------------------------------------------------------
(* InternalDnsCache::saveToFile, by the writer w *)

Ends(w, o) == save' = [save EXCEPT ![w].pc = "done", ![w].outcome = o]

Reaches(w, pc) == save' = [save EXCEPT ![w].pc = pc]

saveToFile_Empty(w) ==
    /\ save[w].pc = "open" /\ ~entries
    /\ Ends(w, "empty")
    /\ UNCHANGED <<volume, writes>>

saveToFile_CannotOpen(w) ==
    /\ save[w].pc = "open" /\ entries /\ "open" \in Faults
    /\ Ends(w, "failed")
    /\ UNCHANGED <<volume, writes>>

\* fopen(part, "wb") truncates; a header that cannot be written leaves it so.
saveToFile_Open(w) ==
    /\ save[w].pc = "open" /\ entries
    /\ writes' = writes + 1
    /\ part' = [write |-> writes', state |-> "torn"]
    /\ \/ save' = [save EXCEPT ![w].pc = "write", ![w].write = writes']
       \/ "header" \in Faults /\ Ends(w, "failed")
    /\ UNCHANGED file

\* As if a record that could not be written only ended the loop.
saveToFile_Write_PublishesPartial(w) ==
    /\ save[w].pc = "write"
    /\ part' = part /\ Reaches(w, "publish")
    /\ UNCHANGED <<file, writes>>

\* The records, the count in the header and fclose(). Only a part nobody else
\* truncated since holds what this writer wrote.
saveToFile_Write(w) ==
    /\ save[w].pc = "write"
    /\ \/ /\ part' = IF part # None /\ part.write = save[w].write
                     THEN [part EXCEPT !.state = "whole"] ELSE part
          /\ Reaches(w, "publish")
       \/ /\ "silent" \in Faults /\ part # None
          /\ part' = [part EXCEPT !.state = "bad"]
          /\ Reaches(w, "publish")
       \/ "write" \in Faults /\ part' = None /\ Ends(w, "failed")
    /\ UNCHANGED <<file, writes>>

publish_Remove(w) ==
    /\ save[w].pc = "publish"
    /\ IF part = None THEN Ends(w, "failed") /\ UNCHANGED file
       ELSE \/ file' = None /\ Reaches(w, "rename")
            \/ "remove" \in Faults /\ file # None /\ Ends(w, "failed") /\ UNCHANGED file
    /\ UNCHANGED <<part, writes>>

\* FatFS refuses a rename onto an existing name.
publish_Rename(w) ==
    /\ save[w].pc = "rename"
    /\ \/ /\ part # None /\ file = None
          /\ file' = part /\ part' = None
          /\ Ends(w, "ok")
       \/ /\ "rename" \in Faults \/ part = None \/ file # None
          /\ Ends(w, "failed")
          /\ UNCHANGED volume
    /\ UNCHANGED writes

saveToFile(w) ==
    /\ \/ saveToFile_Empty(w) \/ saveToFile_CannotOpen(w)
       \/ saveToFile_Open(w) \/ saveToFile_Write(w)
       \/ publish_Remove(w) \/ publish_Rename(w)
    /\ UNCHANGED <<md5, entries, persist, job, enabled, restart, bounds>>
---------------------------------------------------------------------------
(* DnsServer::startPersistJob *)

\* persistBusy_ is taken under the mutex; it goes back if no task can be made.
startPersistJob(saving, forced) ==
    /\ ~busy /\ (saving \/ file # None)
    /\ isSave' = saving /\ force' = forced /\ result' = "none"
    /\ \/ busy' = TRUE /\ job' = [NoJob EXCEPT !.pc = "take"]
       \/ "task" \in Faults /\ busy' = FALSE /\ UNCHANGED job
    /\ UNCHANGED checked

\* The runs' side of SavesOverlap and MaxStarts.
MayStart ==
    /\ starts < MaxStarts /\ starts' = starts + 1
    /\ SavesOverlap \/ save["auto"].pc = "idle"
    /\ UNCHANGED resets

match == file # None /\ md5 = file

handlePostInternalCacheSave ==
    /\ startPersistJob(TRUE, FALSE) /\ MayStart
    /\ UNCHANGED <<volume, md5, entries, owed, save, enabled, restart, writes>>

handlePostInternalCacheLoad(forced) ==
    /\ forced \/ match
    /\ startPersistJob(FALSE, forced) /\ MayStart
    /\ UNCHANGED <<volume, md5, entries, owed, save, enabled, restart, writes>>
---------------------------------------------------------------------------
(* DnsServer::persistJobTask *)

takePersistVerifyOwed ==
    /\ job.pc = "take"
    /\ owed' = FALSE
    /\ IF isSave
       THEN /\ job' = [job EXCEPT !.pc = "attempt", !.verify = owed, !.attempt = 1]
            /\ save' = [save EXCEPT !["job"] = Begun]
       ELSE /\ job' = [job EXCEPT !.pc = "check"]
            /\ UNCHANGED save
    /\ UNCHANGED <<volume, md5, entries, busy, isSave, force, result, checked,
                   enabled, restart, writes, bounds>>

\* CacheFileReader::check: a file that parses to its end with the count that was
\* written. Another writer's whole file passes if it happens to have that count.
checkPasses ==
    IF file = None THEN {FALSE}
    ELSE IF file.state # "whole" THEN {FALSE}
    ELSE IF file.write = save["job"].write THEN {TRUE} ELSE BOOLEAN

\* The verdict of one attempt, and RestartSaveVerify::run around it: one retry
\* of a save that is read back, none of another.
attemptResult(passes) ==
    CASE save["job"].outcome = "empty"  -> "empty"
      [] save["job"].outcome = "failed" -> "failed"
      [] OTHER -> IF job.verify /\ ~passes THEN "mismatch" ELSE "ok"

\* As if the checksum were stored of whatever the last attempt left.
RestartSaveVerify_run_AdoptsMismatch ==
    /\ job.pc = "attempt" /\ save["job"].pc = "done"
    /\ \E passes \in checkPasses :
         LET r == attemptResult(passes) IN
         IF r \in {"mismatch", "failed"} /\ job.verify /\ job.attempt < kAttempts
         THEN /\ job' = [job EXCEPT !.attempt = @ + 1, !.result = r]
              /\ save' = [save EXCEPT !["job"] = Begun]
         ELSE /\ job' = [job EXCEPT !.pc = IF r \in {"ok", "mismatch"} THEN "hash" ELSE "end",
                                    !.result = r]
              /\ save' = [save EXCEPT !["job"].pc = "idle"]
    /\ UNCHANGED <<volume, md5, entries, persist, enabled, restart, writes, bounds>>

RestartSaveVerify_run ==
    /\ job.pc = "attempt" /\ save["job"].pc = "done"
    /\ \E passes \in checkPasses :
         LET r == attemptResult(passes) IN
         IF r \in {"mismatch", "failed"} /\ job.verify /\ job.attempt < kAttempts
         THEN /\ job' = [job EXCEPT !.attempt = @ + 1, !.result = r]
              /\ save' = [save EXCEPT !["job"] = Begun]
         ELSE /\ job' = [job EXCEPT !.pc = IF r = "ok" THEN "hash" ELSE "end", !.result = r]
              /\ save' = [save EXCEPT !["job"].pc = "idle"]
    /\ UNCHANGED <<volume, md5, entries, persist, enabled, restart, writes, bounds>>

\* Md5::file and storeCacheFileMd5.
storeCacheFileMd5 ==
    /\ job.pc = "hash"
    /\ job' = [job EXCEPT !.pc = "end"]
    /\ \/ file # None /\ md5' = file
       \/ ("hash" \in Faults \/ file = None) /\ UNCHANGED md5
    /\ UNCHANGED <<volume, entries, persist, save, enabled, restart, writes, bounds>>

\* As if any stored checksum would do.
checkCacheFileMd5_AnyStored ==
    /\ job.pc = "check"
    /\ job' = [job EXCEPT !.pc = IF force \/ (file # None /\ md5 # None) THEN "read" ELSE "end"]
    /\ UNCHANGED <<volume, md5, entries, persist, save, enabled, restart, writes, bounds>>

checkCacheFileMd5 ==
    /\ job.pc = "check"
    /\ job' = [job EXCEPT !.pc = IF force \/ match THEN "read" ELSE "end"]
    /\ UNCHANGED <<volume, md5, entries, persist, save, enabled, restart, writes, bounds>>

\* loadFromFile: AtomicFile's recover(), then the records. A file that ends early
\* restores what it has; one whose header is refused restores nothing.
loadFromFile ==
    /\ job.pc = "read"
    /\ IF file = None THEN file' = part /\ part' = None ELSE UNCHANGED volume
    /\ \/ /\ file' # None
          /\ entries' \in {entries, TRUE}
          /\ job' = [job EXCEPT !.pc = "end", !.result = "ok"]
       \/ /\ file' = None \/ file'.state # "whole"
          /\ job' = [job EXCEPT !.pc = "end", !.result = "failed"]
          /\ UNCHANGED entries
    /\ UNCHANGED <<md5, persist, save, enabled, restart, writes, bounds>>

\* As if a failed job returned before it gave persistBusy_ back.
persistJobTask_End_EarlyReturn ==
    /\ job.pc = "end"
    /\ busy' = (job.result = "failed") /\ result' = job.result
    /\ checked' = (job.verify /\ job.result = "ok")
    /\ job' = NoJob
    /\ UNCHANGED <<volume, md5, entries, isSave, force, owed, save, enabled,
                   restart, writes, bounds>>

persistJobTask_End ==
    /\ job.pc = "end"
    /\ busy' = FALSE /\ result' = job.result
    /\ checked' = (job.verify /\ job.result = "ok")
    /\ job' = NoJob
    /\ UNCHANGED <<volume, md5, entries, isSave, force, owed, save, enabled,
                   restart, writes, bounds>>

persistJobTask ==
    \/ takePersistVerifyOwed \/ RestartSaveVerify_run \/ storeCacheFileMd5
    \/ checkCacheFileMd5 \/ loadFromFile \/ persistJobTask_End
---------------------------------------------------------------------------
(* A reset of any kind, and the restore DnsServer::start begins at boot *)

Reboot ==
    /\ entries' = FALSE /\ owed' = FALSE /\ result' = "none" /\ checked' = FALSE
    /\ isSave' = FALSE /\ force' = FALSE
    /\ save' = [w \in Writer |-> NoSave]
    /\ restart' = [c \in Caller |-> "idle"]
    /\ \/ file # None /\ busy' = TRUE /\ job' = [NoJob EXCEPT !.pc = "take"]
       \/ (file = None \/ "task" \in Faults) /\ busy' = FALSE /\ job' = NoJob
    /\ UNCHANGED <<volume, md5, enabled, writes, starts>>

PowerCut ==
    /\ resets < MaxResets /\ resets' = resets + 1
    /\ Reboot
---------------------------------------------------------------------------
(* DnsServer::startCacheSaveForRestart and saveCacheBeforeRestart, called by c *)

\* The page that prepares a restart only reports; the others go on to reboot.
Returns(c) == IF c = "prepare" THEN "idle" ELSE "restart"

\* An empty cache is not kept; else the verification is asked for.
startCacheSaveForRestart_Owe(c) ==
    /\ restart[c] = "idle" /\ starts < MaxStarts
    /\ IF entries THEN owed' = TRUE /\ restart' = [restart EXCEPT ![c] = "owed"]
                  ELSE UNCHANGED owed /\ restart' = [restart EXCEPT ![c] = Returns(c)]
    /\ starts' = starts + 1
    /\ UNCHANGED <<volume, md5, entries, busy, isSave, force, result, checked,
                   job, save, enabled, writes, resets>>

startCacheSaveForRestart_Busy(c) ==
    /\ restart[c] = "owed"
    /\ restart' = [restart EXCEPT ![c] = IF ~busy THEN "start"
                                         ELSE IF c = "prepare" THEN "idle" ELSE "wait"]
    /\ UNCHANGED <<volume, md5, entries, persist, job, save, enabled, writes, bounds>>

\* A job that slipped in since, or no task: the caller goes on without a save.
startCacheSaveForRestart_Start(c) ==
    /\ restart[c] = "start"
    /\ SavesOverlap \/ save["auto"].pc = "idle"
    /\ \/ /\ startPersistJob(TRUE, FALSE)
          /\ restart' = [restart EXCEPT ![c] =
                            IF busy' /\ c # "prepare" THEN "wait" ELSE Returns(c)]
       \/ /\ busy
          /\ restart' = [restart EXCEPT ![c] = Returns(c)]
          /\ UNCHANGED <<busy, isSave, force, result, checked, job>>
    /\ UNCHANGED <<volume, md5, entries, owed, save, enabled, writes, bounds>>

\* The wait ends with the job, or after kPersistStallMs without progress, and
\* the device restarts either way.
waitForPersistJob(c) ==
    /\ restart[c] = "wait"
    /\ restart' = [restart EXCEPT ![c] = "restart"]
    /\ UNCHANGED <<volume, md5, entries, persist, job, save, enabled, writes, bounds>>

esp_restart(c) ==
    /\ restart[c] = "restart"
    /\ UNCHANGED resets
    /\ Reboot

RestartPath(c) ==
    \/ startCacheSaveForRestart_Owe(c) \/ startCacheSaveForRestart_Busy(c)
    \/ startCacheSaveForRestart_Start(c) \/ waitForPersistJob(c) \/ esp_restart(c)
---------------------------------------------------------------------------
(* CacheAutosave, and what else changes the cache and its file *)

configure ==
    /\ enabled' = ~enabled
    /\ UNCHANGED <<volume, md5, entries, persist, job, save, restart, writes, bounds>>

\* The countdown has run out.
saveNow ==
    /\ enabled /\ save["auto"].pc = "idle"
    /\ SavesOverlap \/ ~busy
    /\ starts < MaxStarts /\ starts' = starts + 1
    /\ save' = [save EXCEPT !["auto"] = Begun]
    /\ UNCHANGED <<volume, md5, entries, persist, job, enabled, restart, writes, resets>>

saveNow_End ==
    /\ save["auto"].pc = "done"
    /\ save' = [save EXCEPT !["auto"] = NoSave]
    /\ UNCHANGED <<volume, md5, entries, persist, job, enabled, restart, writes, bounds>>

\* Answers are stored, lifetimes end, the operator clears the cache.
CacheChanges ==
    /\ entries' = ~entries
    /\ UNCHANGED <<volume, md5, persist, job, save, enabled, restart, writes, bounds>>

\* The file manager puts another file there: it writes the same cache.dat.part.
Replaced ==
    /\ SavesOverlap \/ (~busy /\ save["auto"].pc = "idle")
    /\ file \notin {None, Foreign}
    /\ file' = Foreign /\ part' = None
    /\ UNCHANGED <<md5, entries, persist, job, save, enabled, restart, writes, bounds>>

Next ==
    \/ persistJobTask
    \/ \E w \in Writer : saveToFile(w)
    \/ handlePostInternalCacheSave
    \/ \E forced \in BOOLEAN : handlePostInternalCacheLoad(forced)
    \/ \E c \in Caller : RestartPath(c)
    \/ configure \/ saveNow \/ saveNow_End \/ CacheChanges \/ Replaced
    \/ PowerCut

\* The job is a task of its own and its calls return; nothing else is promised.
Spec == Init /\ [][Next]_vars /\ WF_vars(persistJobTask \/ saveToFile("job"))
---------------------------------------------------------------------------
(* Properties *)

JobState ==
    [pc : {"idle", "take", "attempt", "hash", "check", "read", "end"},
     verify : BOOLEAN, attempt : 0 .. kAttempts, result : Result]

SaveState ==
    [pc : {"idle", "open", "write", "publish", "rename", "done"},
     write : Nat, outcome : {"none", "ok", "empty", "failed"}]

\* Every variable has its type, and the job is busy exactly while its task runs.
TypeOK ==
    /\ file \in Content \cup {None} /\ part \in Content \cup {None}
    /\ md5 \in Content \cup {None}
    /\ entries \in BOOLEAN /\ enabled \in BOOLEAN
    /\ busy \in BOOLEAN /\ isSave \in BOOLEAN /\ force \in BOOLEAN
    /\ owed \in BOOLEAN /\ result \in Result /\ checked \in BOOLEAN
    /\ job \in JobState /\ (busy <=> job.pc # "idle")
    /\ save \in [Writer -> SaveState]
    /\ restart \in [Caller -> {"idle", "owed", "start", "wait", "restart"}]
    /\ writes \in Nat /\ starts \in Nat /\ resets \in Nat

\* "the file on the volume is either the previous complete version or the new
\* one, never a torn mixture": whatever step a power cut or a failure follows,
\* cache.dat is no half-written file (saveToFile, AtomicFile's publish).
PublishedIsWhole == file # None => file.state # "torn"

\* What the restore puts into the cache unforced is the file the stored checksum
\* was taken of: a file replaced, damaged or published by a save that did not
\* get as far as its checksum stays out (checkCacheFileMd5 before loadFromFile).
LoadOnlyKnown ==
    [][job.pc = "read" /\ job'.result = "ok" /\ ~force => file' = md5]_vars

\* A save reported as read back and matched left its own complete write in
\* cache.dat, after a retry too (RestartSaveVerify::run, persistChecked_).
CheckedIsKept ==
    busy /\ ~busy' /\ checked' => file = [write |-> save["job"].write, state |-> "whole"]

\* A save that did not match is kept out of the next boot: the file it left is
\* not the one the stored checksum knows (persistJobTask, "is exactly what
\* keeps it out").
MismatchStaysOut == busy /\ ~busy' /\ result' = "mismatch" => ~match

\* What a finished save reports is true of the file it leaves: a save that was
\* read back is kept, and one that did not match stays out.
VerdictIsTrue == [][CheckedIsKept /\ MismatchStaysOut]_vars

\* The job ends whatever fails under it, so the next save, load or restart is
\* not locked out (persistJobTask, persistBusy_).
JobEnds == busy ~> ~busy

\* There is a file to come back from: cache.dat, or the part recover() publishes.
HoldsComplete == file # None \/ (part # None /\ part.state # "torn")

\* "Publishing a file so that a crash cannot empty it": a volume that holds a
\* complete version, as cache.dat or as the part beside it, goes on holding one.
CrashCannotEmpty == [][HoldsComplete => HoldsComplete']_vars
===========================================================================
