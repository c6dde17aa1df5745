------------------------ MODULE CachePersistProofs ------------------------
(***************************************************************************)
(* Proofs about CachePersist: its types, and what holds of cache.dat for   *)
(* every number of attempts, jobs and power cuts and every set of faults,  *)
(* while at most one writer is at work.                                    *)
(***************************************************************************)
EXTENDS CachePersist, TLAPS

\* At work on the file, so that nobody else may be.
Loading == job.pc \in {"check", "read"} \/ (job.pc = "take" /\ ~isSave)

\* One writer at a time, and the job's saveToFile() only inside an attempt.
OneWriter ==
    /\ busy => save["auto"].pc = "idle"
    /\ save["job"].pc # "idle" => job.pc = "attempt"

\* A writer that is writing owns the part; one that publishes has closed it.
PartOwned ==
    \A w \in Writer :
        /\ save[w].pc = "write" => part # None /\ part.write = save[w].write
        /\ save[w].pc \in {"publish", "rename"} => part # None /\ part.state # "torn"

\* A load has its file, and after the check the file the checksum knows.
LoadHasFile ==
    /\ Loading => file # None
    /\ job.pc = "read" /\ ~force => match

\* The inductive invariant, beside the types.
Guarded == OneWriter /\ PartOwned /\ LoadHasFile /\ PublishedIsWhole

---------------------------------------------------------------------------
(* Types, whatever overlaps *)

\* TypeOK in three parts: what has a shape, what is Boolean, when the job is busy.
Shapes ==
    /\ file \in Content \cup {None} /\ part \in Content \cup {None}
    /\ md5 \in Content \cup {None} /\ result \in Result
    /\ job \in JobState /\ save \in [Writer -> SaveState]
    /\ restart \in [Caller -> {"idle", "owed", "start", "wait", "restart"}]
    /\ writes \in Nat /\ starts \in Nat /\ resets \in Nat

Bools ==
    /\ entries \in BOOLEAN /\ enabled \in BOOLEAN /\ busy \in BOOLEAN
    /\ isSave \in BOOLEAN /\ force \in BOOLEAN /\ owed \in BOOLEAN /\ checked \in BOOLEAN

BusyRuns == busy <=> job.pc # "idle"

LEMMA TypeParts == TypeOK <=> Shapes /\ Bools /\ BusyRuns
BY Zenon DEF TypeOK, Shapes, Bools, BusyRuns

LEMMA TypePartsNext == TypeOK' <=> Shapes' /\ Bools' /\ BusyRuns'
BY Zenon DEF TypeOK, Shapes, Bools, BusyRuns

\* The states a job and a save begin in.
LEMMA JobStates ==
    /\ NoJob \in JobState /\ NoJob.pc = "idle"
    /\ [NoJob EXCEPT !.pc = "take"] \in JobState
    /\ [NoJob EXCEPT !.pc = "take"].pc = "take"
<1>1. 0 \in 0 .. kAttempts
  BY CachePersistAssumption
<1>2. NoJob \in JobState
  BY <1>1 DEF NoJob, JobState, Result
<1>3. [NoJob EXCEPT !.pc = "take"] \in JobState
  BY <1>1 DEF NoJob, JobState, Result
<1>4. NoJob.pc = "idle" /\ [NoJob EXCEPT !.pc = "take"].pc = "take"
  BY DEF NoJob
<1>5. QED
  BY <1>2, <1>3, <1>4

LEMMA SaveStates == NoSave \in SaveState /\ Begun \in SaveState
BY DEF NoSave, Begun, SaveState

LEMMA TypeInit == Init => TypeOK
<1> SUFFICES ASSUME Init PROVE Shapes /\ Bools /\ BusyRuns
  BY TypeParts
<1>1. Shapes
  BY JobStates, SaveStates DEF Init, Shapes, Result
<1>2. Bools
  BY Zenon DEF Init, Bools
<1>3. BusyRuns
  BY JobStates, Zenon DEF Init, BusyRuns
<1>4. QED
  BY <1>1, <1>2, <1>3

\* saveToFile() keeps the shapes of the volume and of its own state.
LEMMA SaveShapes ==
    ASSUME Shapes, NEW w \in Writer,
           \/ saveToFile_Empty(w) \/ saveToFile_CannotOpen(w)
           \/ saveToFile_Open(w) \/ saveToFile_Write(w)
           \/ publish_Remove(w) \/ publish_Rename(w)
    PROVE  /\ file' \in Content \cup {None} /\ part' \in Content \cup {None}
           /\ save' \in [Writer -> SaveState] /\ writes' \in Nat
<1> USE DEF Shapes, Content, SaveState, Ends, Reaches
<1>1. CASE saveToFile_Empty(w)
  BY <1>1 DEF saveToFile_Empty, volume
<1>2. CASE saveToFile_CannotOpen(w)
  BY <1>2 DEF saveToFile_CannotOpen, volume
<1>3. CASE saveToFile_Open(w)
  BY <1>3 DEF saveToFile_Open
<1>4. CASE saveToFile_Write(w)
  BY <1>4 DEF saveToFile_Write
<1>5. CASE publish_Remove(w)
  BY <1>5 DEF publish_Remove
<1>6. CASE publish_Rename(w)
  BY <1>6 DEF publish_Rename, volume
<1>7. QED
  BY <1>1, <1>2, <1>3, <1>4, <1>5, <1>6

\* Every step of saveToFile() keeps the types.
LEMMA TypeSave ==
    ASSUME TypeOK, NEW w \in Writer, saveToFile(w)
    PROVE  TypeOK'
<1>1. Shapes /\ Bools /\ BusyRuns
  BY TypeParts
<1>2. /\ file' \in Content \cup {None} /\ part' \in Content \cup {None}
      /\ save' \in [Writer -> SaveState] /\ writes' \in Nat
  BY <1>1, SaveShapes DEF saveToFile
<1>3. UNCHANGED <<md5, entries, persist, job, enabled, restart, bounds>>
  BY DEF saveToFile
<1>4. Shapes'
  BY <1>1, <1>2, <1>3 DEF Shapes, persist, bounds
<1>5. Bools' /\ BusyRuns'
  BY <1>1, <1>3, Zenon DEF Bools, BusyRuns, persist
<1>6. QED
  BY <1>4, <1>5, TypePartsNext

\* Starting a job keeps the types of what it sets.
LEMMA TypeStart ==
    ASSUME TypeOK, NEW saving \in BOOLEAN, NEW forced \in BOOLEAN,
           startPersistJob(saving, forced)
    PROVE  /\ result' \in Result /\ job' \in JobState
           /\ busy' \in BOOLEAN /\ isSave' \in BOOLEAN /\ force' \in BOOLEAN
           /\ checked' \in BOOLEAN /\ BusyRuns'
<1>1. Shapes /\ Bools /\ BusyRuns
  BY TypeParts
<1>2. result' \in Result
  BY DEF startPersistJob, Result
<1>3. isSave' \in BOOLEAN /\ force' \in BOOLEAN /\ checked' \in BOOLEAN
  BY <1>1, Zenon DEF startPersistJob, Bools
<1>4. CASE busy' = TRUE /\ job' = [NoJob EXCEPT !.pc = "take"]
  <2>1. job' \in JobState /\ job'.pc = "take"
    BY <1>4, JobStates, Zenon
  <2>2. QED
    BY <1>2, <1>3, <1>4, <2>1 DEF BusyRuns
<1>5. CASE busy' = FALSE /\ UNCHANGED job
  <2>1. ~busy
    BY DEF startPersistJob
  <2>2. job' \in JobState
    BY <1>1, <1>5 DEF Shapes
  <2>3. BusyRuns'
    BY <1>1, <1>5, <2>1, Zenon DEF BusyRuns
  <2>4. QED
    BY <1>2, <1>3, <1>5, <2>2, <2>3
<1>6. QED
  BY <1>4, <1>5 DEF startPersistJob

\* The states the job moves to.
LEMMA JobMoves ==
    ASSUME NEW j \in JobState, NEW p \in {"take", "attempt", "hash", "check", "read", "end"}
    PROVE  /\ [j EXCEPT !.pc = p] \in JobState
           /\ [j EXCEPT !.pc = p].pc # "idle"
BY DEF JobState

LEMMA JobConcludes ==
    ASSUME NEW j \in JobState, NEW p \in {"hash", "end"}, NEW r \in Result
    PROVE  /\ [j EXCEPT !.pc = p, !.result = r] \in JobState
           /\ [j EXCEPT !.pc = p, !.result = r].pc # "idle"
BY DEF JobState

LEMMA JobRetries ==
    ASSUME NEW j \in JobState, NEW a \in 0 .. kAttempts, NEW r \in Result
    PROVE  /\ [j EXCEPT !.attempt = a, !.result = r] \in JobState
           /\ [j EXCEPT !.attempt = a, !.result = r].pc = j.pc
BY DEF JobState

LEMMA JobSaves ==
    ASSUME NEW j \in JobState, NEW v \in BOOLEAN, NEW a \in 0 .. kAttempts
    PROVE  /\ [j EXCEPT !.pc = "attempt", !.verify = v, !.attempt = a] \in JobState
           /\ [j EXCEPT !.pc = "attempt", !.verify = v, !.attempt = a].pc # "idle"
BY DEF JobState

\* What a step of the job that is not its last has to keep.
LEMMA TypeJobRunning ==
    ASSUME TypeOK, job.pc # "idle", job' \in JobState, job'.pc # "idle",
           UNCHANGED <<busy, isSave, force, result, checked, enabled, restart, writes, bounds>>,
           file' \in Content \cup {None}, part' \in Content \cup {None},
           md5' \in Content \cup {None}, entries' \in BOOLEAN, owed' \in BOOLEAN,
           save' \in [Writer -> SaveState]
    PROVE  TypeOK'
<1>1. Shapes /\ Bools /\ BusyRuns
  BY TypeParts
<1>2. Shapes'
  BY <1>1 DEF Shapes, bounds
<1>3. Bools'
  BY <1>1, Zenon DEF Bools
<1>4. BusyRuns'
  BY <1>1, Zenon DEF BusyRuns
<1>5. QED
  BY <1>2, <1>3, <1>4, TypePartsNext

\* Every step of the job keeps the types.
LEMMA TypeJob ==
    ASSUME TypeOK, persistJobTask
    PROVE  TypeOK'
<1>1. Shapes /\ Bools /\ BusyRuns
  BY TypeParts
<1> DEFINE begins == [save EXCEPT !["job"] = Begun]
           rests  == [save EXCEPT !["job"].pc = "idle"]
<1>2. begins \in [Writer -> SaveState] /\ rests \in [Writer -> SaveState]
  BY <1>1, SaveStates DEF Shapes, Writer, SaveState
<1>3. job \in JobState /\ owed \in BOOLEAN /\ entries \in BOOLEAN
  BY <1>1, Zenon DEF Shapes, Bools
<1>4. CASE takePersistVerifyOwed
  <2>1. 1 \in 0 .. kAttempts
    BY CachePersistAssumption
  <2>2. /\ [job EXCEPT !.pc = "attempt", !.verify = owed, !.attempt = 1] \in JobState
        /\ [job EXCEPT !.pc = "attempt", !.verify = owed, !.attempt = 1].pc # "idle"
        /\ [job EXCEPT !.pc = "check"] \in JobState
        /\ [job EXCEPT !.pc = "check"].pc # "idle"
    BY <1>3, <2>1, JobMoves, JobSaves
  <2>3. job' \in JobState /\ job'.pc # "idle"
    BY <1>4, <2>2, Zenon DEF takePersistVerifyOwed
  <2>4. job.pc # "idle" /\ owed' \in BOOLEAN /\ entries' \in BOOLEAN
    BY <1>3, <1>4 DEF takePersistVerifyOwed
  <2>5. save' \in [Writer -> SaveState]
    BY <1>1, <1>2, <1>4, Zenon DEF takePersistVerifyOwed, Shapes
  <2>6. file' = file /\ part' = part /\ md5' = md5
    BY <1>4 DEF takePersistVerifyOwed, volume
  <2>7. QED
    BY <1>1, <1>4, <2>3, <2>4, <2>5, <2>6, TypeJobRunning
       DEF takePersistVerifyOwed, Shapes
<1>5. CASE RestartSaveVerify_run
  <2>1. PICK passes \in checkPasses :
            LET r == attemptResult(passes) IN
            IF r \in {"mismatch", "failed"} /\ job.verify /\ job.attempt < kAttempts
            THEN /\ job' = [job EXCEPT !.attempt = @ + 1, !.result = r]
                 /\ save' = [save EXCEPT !["job"] = Begun]
            ELSE /\ job' = [job EXCEPT !.pc = IF r = "ok" THEN "hash" ELSE "end", !.result = r]
                 /\ save' = [save EXCEPT !["job"].pc = "idle"]
    BY <1>5, Zenon DEF RestartSaveVerify_run
  <2> DEFINE r == attemptResult(passes)
             p == IF r = "ok" THEN "hash" ELSE "end"
  <2>2. r \in Result /\ p \in {"hash", "end"}
    BY Zenon DEF attemptResult, Result
  <2>3. job.pc = "attempt" /\ UNCHANGED <<volume, md5, entries, persist, enabled, restart, writes, bounds>>
    BY <1>5 DEF RestartSaveVerify_run
  <2>4. job.attempt < kAttempts => job.attempt + 1 \in 0 .. kAttempts
    BY <1>3, CachePersistAssumption DEF JobState
  <2>5. job' \in JobState /\ job'.pc # "idle" /\ save' \in [Writer -> SaveState]
    <3> HIDE DEF r, p
    <3>1. CASE /\ job.attempt < kAttempts
               /\ job' = [job EXCEPT !.attempt = job.attempt + 1, !.result = r]
               /\ save' = [save EXCEPT !["job"] = Begun]
      BY <1>2, <1>3, <2>2, <2>3, <2>4, <3>1, JobRetries
    <3>2. CASE /\ job' = [job EXCEPT !.pc = p, !.result = r]
               /\ save' = [save EXCEPT !["job"].pc = "idle"]
      BY <1>2, <1>3, <2>2, <3>2, JobConcludes
    <3>3. QED
      BY <2>1, <3>1, <3>2, Zenon DEF r, p
  <2>6. QED
    <3>1. file' = file /\ part' = part /\ md5' = md5 /\ entries' = entries /\ owed' = owed
      BY <2>3 DEF volume, persist
    <3>2. entries' \in BOOLEAN /\ owed' \in BOOLEAN
      BY <1>3, <3>1, Zenon
    <3>3. QED
      BY <1>1, <2>3, <2>5, <3>1, <3>2, TypeJobRunning DEF Shapes, persist
<1>6. CASE storeCacheFileMd5
  <2>1. job' \in JobState /\ job'.pc # "idle"
    BY <1>3, <1>6, JobMoves DEF storeCacheFileMd5
  <2>2. md5' \in Content \cup {None} /\ job.pc = "hash"
    BY <1>1, <1>6 DEF storeCacheFileMd5, Shapes
  <2>3. entries' \in BOOLEAN /\ owed' \in BOOLEAN
    BY <1>3, <1>6, Zenon DEF storeCacheFileMd5, persist
  <2>4. QED
    BY <1>1, <1>6, <2>1, <2>2, <2>3, TypeJobRunning
       DEF storeCacheFileMd5, Shapes, volume, persist
<1>7. CASE checkCacheFileMd5
  <2>1. job' \in JobState /\ job'.pc # "idle"
    <3>1. PICK p \in {"read", "end"} : job' = [job EXCEPT !.pc = p]
      BY <1>7, Zenon DEF checkCacheFileMd5
    <3>2. QED
      BY <1>3, <3>1, JobMoves
  <2>2. entries' \in BOOLEAN /\ owed' \in BOOLEAN
    BY <1>3, <1>7, Zenon DEF checkCacheFileMd5, persist
  <2>3. QED
    BY <1>1, <1>7, <2>1, <2>2, TypeJobRunning
       DEF checkCacheFileMd5, Shapes, volume, persist
<1>8. CASE loadFromFile
  <2>1. job' \in JobState /\ job'.pc # "idle"
    <3>1. PICK r \in {"ok", "failed"} : job' = [job EXCEPT !.pc = "end", !.result = r]
      BY <1>8, Zenon DEF loadFromFile
    <3>2. QED
      BY <1>3, <3>1, JobConcludes DEF Result
  <2>2. file' \in Content \cup {None} /\ part' \in Content \cup {None}
    BY <1>1, <1>8 DEF loadFromFile, Shapes, volume
  <2>3. entries' \in BOOLEAN /\ owed' \in BOOLEAN
    BY <1>3, <1>8, Zenon DEF loadFromFile, persist
  <2>4. QED
    BY <1>1, <1>8, <2>1, <2>2, <2>3, TypeJobRunning
       DEF loadFromFile, Shapes, persist
<1>9. CASE persistJobTask_End
  <2>1. Shapes'
    BY <1>1, <1>9, JobStates DEF persistJobTask_End, Shapes, JobState, volume, bounds
  <2>2. checked' \in BOOLEAN /\ busy' = FALSE /\ job' = NoJob
    BY <1>9, Zenon DEF persistJobTask_End
  <2>3. Bools'
    BY <1>1, <1>9, <2>2, Zenon DEF persistJobTask_End, Bools
  <2>4. BusyRuns'
    BY <2>2, JobStates, Zenon DEF BusyRuns
  <2>5. QED
    BY <2>1, <2>3, <2>4, TypePartsNext
<1>10. QED
  BY <1>4, <1>5, <1>6, <1>7, <1>8, <1>9 DEF persistJobTask

\* A reset keeps the types.
LEMMA TypeReboot ==
    ASSUME TypeOK, Reboot, resets' \in Nat
    PROVE  TypeOK'
<1>1. Shapes /\ Bools
  BY TypeParts
<1>2. PICK b \in BOOLEAN : /\ busy' = b
                           /\ job' = IF b THEN [NoJob EXCEPT !.pc = "take"] ELSE NoJob
  BY DEF Reboot
<1>3. job' \in JobState /\ BusyRuns'
  BY <1>2, JobStates DEF BusyRuns
<1>4. Shapes'
  BY <1>1, <1>3, SaveStates DEF Reboot, Shapes, Result, volume
<1>5. Bools'
  BY <1>1, <1>2, Zenon DEF Reboot, Bools
<1>6. QED
  BY <1>3, <1>4, <1>5, TypePartsNext

\* Every step of a caller that saves before a restart keeps the types.
LEMMA TypeRestart ==
    ASSUME TypeOK, NEW c \in Caller, RestartPath(c)
    PROVE  TypeOK'
<1>1. Shapes /\ Bools /\ BusyRuns
  BY TypeParts
<1>2. CASE startCacheSaveForRestart_Owe(c)
  <2>1. PICK x \in {"idle", "owed", "restart"} : restart' = [restart EXCEPT ![c] = x]
    BY <1>2, Zenon DEF startCacheSaveForRestart_Owe, Returns
  <2>2. Shapes'
    BY <1>1, <1>2, <2>1 DEF startCacheSaveForRestart_Owe, Shapes, volume
  <2>3. Bools' /\ BusyRuns'
    BY <1>1, <1>2, Zenon DEF startCacheSaveForRestart_Owe, Bools, BusyRuns
  <2>4. QED
    BY <2>2, <2>3, TypePartsNext
<1>3. CASE startCacheSaveForRestart_Busy(c)
  <2>1. PICK x \in {"idle", "start", "wait"} : restart' = [restart EXCEPT ![c] = x]
    BY <1>3, Zenon DEF startCacheSaveForRestart_Busy
  <2>2. Shapes'
    BY <1>1, <1>3, <2>1 DEF startCacheSaveForRestart_Busy, Shapes, volume, persist, bounds
  <2>3. Bools' /\ BusyRuns'
    BY <1>1, <1>3, Zenon DEF startCacheSaveForRestart_Busy, Bools, BusyRuns, persist
  <2>4. QED
    BY <2>2, <2>3, TypePartsNext
<1>4. CASE startCacheSaveForRestart_Start(c)
  <2>1. PICK x \in {"idle", "wait", "restart"} : restart' = [restart EXCEPT ![c] = x]
    BY <1>4, Zenon DEF startCacheSaveForRestart_Start, Returns
  <2>2. UNCHANGED <<volume, md5, entries, owed, save, enabled, writes, bounds>>
    BY <1>4 DEF startCacheSaveForRestart_Start
  <2>3. /\ result' \in Result /\ job' \in JobState
        /\ busy' \in BOOLEAN /\ isSave' \in BOOLEAN /\ force' \in BOOLEAN
        /\ checked' \in BOOLEAN /\ BusyRuns'
    <3>1. CASE startPersistJob(TRUE, FALSE)
      BY <3>1, TypeStart
    <3>2. CASE UNCHANGED <<busy, isSave, force, result, checked, job>>
      BY <1>1, <3>2, Zenon DEF Shapes, Bools, BusyRuns
    <3>3. QED
      BY <1>4, <3>1, <3>2 DEF startCacheSaveForRestart_Start
  <2>4. Shapes'
    BY <1>1, <2>1, <2>2, <2>3 DEF Shapes, volume, bounds
  <2>5. Bools'
    BY <1>1, <2>2, <2>3, Zenon DEF Bools
  <2>6. QED
    BY <2>3, <2>4, <2>5, TypePartsNext
<1>5. CASE waitForPersistJob(c)
  <2>1. Shapes'
    BY <1>1, <1>5 DEF waitForPersistJob, Shapes, volume, persist, bounds
  <2>2. Bools' /\ BusyRuns'
    BY <1>1, <1>5, Zenon DEF waitForPersistJob, Bools, BusyRuns, persist
  <2>3. QED
    BY <2>1, <2>2, TypePartsNext
<1>6. CASE esp_restart(c)
  BY <1>1, <1>6, TypeReboot DEF Shapes, esp_restart
<1>7. QED
  BY <1>2, <1>3, <1>4, <1>5, <1>6 DEF RestartPath

LEMMA TypeStep == TypeOK /\ [Next]_vars => TypeOK'
<1> SUFFICES ASSUME TypeOK, [Next]_vars PROVE TypeOK'
  OBVIOUS
<1>1. Shapes /\ Bools /\ BusyRuns
  BY TypeParts
<1>2. ASSUME NEW saving \in BOOLEAN, NEW forced \in BOOLEAN, startPersistJob(saving, forced),
             MayStart, UNCHANGED <<volume, md5, entries, owed, save, enabled, restart, writes>>
      PROVE  TypeOK'
  <2>1. /\ result' \in Result /\ job' \in JobState
        /\ busy' \in BOOLEAN /\ isSave' \in BOOLEAN /\ force' \in BOOLEAN
        /\ checked' \in BOOLEAN /\ BusyRuns'
    BY <1>2, TypeStart
  <2>2. starts' \in Nat /\ resets' \in Nat
    BY <1>1, <1>2 DEF MayStart, Shapes
  <2>3. Shapes'
    BY <1>1, <1>2, <2>1, <2>2 DEF Shapes, volume
  <2>4. Bools'
    BY <1>1, <1>2, <2>1, Zenon DEF Bools
  <2>5. QED
    BY <2>1, <2>3, <2>4, TypePartsNext
<1>3. CASE handlePostInternalCacheSave
  BY <1>2, <1>3 DEF handlePostInternalCacheSave
<1>4. ASSUME NEW forced \in BOOLEAN, handlePostInternalCacheLoad(forced) PROVE TypeOK'
  BY <1>2, <1>4 DEF handlePostInternalCacheLoad
<1>5. CASE saveNow
  <2>1. Shapes'
    BY <1>1, <1>5, SaveStates DEF saveNow, Shapes, Writer, volume, persist
  <2>2. Bools' /\ BusyRuns'
    BY <1>1, <1>5, Zenon DEF saveNow, Bools, BusyRuns, persist
  <2>3. QED
    BY <2>1, <2>2, TypePartsNext
<1>6. CASE saveNow_End
  <2>1. Shapes'
    BY <1>1, <1>6, SaveStates DEF saveNow_End, Shapes, Writer, volume, persist, bounds
  <2>2. Bools' /\ BusyRuns'
    BY <1>1, <1>6, Zenon DEF saveNow_End, Bools, BusyRuns, persist
  <2>3. QED
    BY <2>1, <2>2, TypePartsNext
<1>7. CASE Replaced
  <2>1. Shapes'
    BY <1>1, <1>7 DEF Replaced, Foreign, Content, Shapes, persist, bounds
  <2>2. Bools' /\ BusyRuns'
    BY <1>1, <1>7, Zenon DEF Replaced, Bools, BusyRuns, persist
  <2>3. QED
    BY <2>1, <2>2, TypePartsNext
<1>8. CASE configure \/ CacheChanges \/ UNCHANGED vars
  <2>1. Shapes'
    BY <1>1, <1>8 DEF configure, CacheChanges, vars, Shapes, volume, persist, bounds
  <2>2. CASE configure
    <3>1. Bools' /\ BusyRuns'
      BY <1>1, <2>2, Zenon DEF configure, Bools, BusyRuns, persist
    <3>2. QED
      BY <2>1, <3>1, TypePartsNext
  <2>3. CASE CacheChanges
    <3>1. Bools' /\ BusyRuns'
      BY <1>1, <2>3, Zenon DEF CacheChanges, Bools, BusyRuns, persist
    <3>2. QED
      BY <2>1, <3>1, TypePartsNext
  <2>4. CASE UNCHANGED vars
    <3>1. Bools' /\ BusyRuns'
      BY <1>1, <2>4, Zenon DEF vars, Bools, BusyRuns, persist
    <3>2. QED
      BY <2>1, <3>1, TypePartsNext
  <2>5. QED
    BY <1>8, <2>2, <2>3, <2>4
<1>9. CASE PowerCut
  BY <1>1, <1>9, TypeReboot DEF Shapes, PowerCut
<1>10. QED
  BY <1>3, <1>4, <1>5, <1>6, <1>7, <1>8, <1>9, TypeJob, TypeSave, TypeRestart DEF Next

\* Every variable keeps its type, and the job is busy exactly while it runs.
THEOREM TypeCorrect == Spec => []TypeOK
<1>1. QED
  BY TypeInit, TypeStep, PTL DEF Spec

---------------------------------------------------------------------------
(* The file, while at most one writer is at work *)

LEMMA GuardedInit == Init => Guarded
BY DEF Init, Guarded, OneWriter, PartOwned, LoadHasFile, Loading, PublishedIsWhole,
       NoJob, NoSave, Writer

\* While one writer saves, the other one rests and nothing is loaded.
LEMMA OthersRest ==
    ASSUME TypeOK, OneWriter, NEW w \in Writer, save[w].pc # "idle"
    PROVE  /\ \A v \in Writer \ {w} : save[v].pc = "idle"
           /\ ~Loading
<1>1. BusyRuns
  BY TypeParts
<1>2. CASE w = "job"
  <2>1. job.pc = "attempt"
    BY <1>2 DEF OneWriter
  <2>2. busy
    BY <1>1, <2>1 DEF BusyRuns
  <2>3. save["auto"].pc = "idle"
    BY <2>2 DEF OneWriter
  <2>4. QED
    BY <1>2, <2>1, <2>3 DEF Writer, Loading
<1>3. CASE w = "auto"
  <2>1. ~busy
    BY <1>3 DEF OneWriter
  <2>2. job.pc = "idle"
    BY <1>1, <2>1 DEF BusyRuns
  <2>3. save["job"].pc = "idle"
    BY <2>2 DEF OneWriter
  <2>4. QED
    BY <1>3, <2>2, <2>3 DEF Writer, Loading
<1>4. QED
  BY <1>2, <1>3 DEF Writer

\* Every step of saveToFile() keeps the file and the part as they should be.
LEMMA GuardedSave ==
    ASSUME TypeOK, Guarded, NEW w \in Writer, saveToFile(w)
    PROVE  Guarded'
<1>1. Shapes
  BY TypeParts
<1>2. save[w].pc # "idle"
  BY DEF saveToFile, saveToFile_Empty, saveToFile_CannotOpen, saveToFile_Open,
         saveToFile_Write, publish_Remove, publish_Rename
<1>3. (\A v \in Writer \ {w} : save[v].pc = "idle") /\ ~Loading
  BY <1>2, OthersRest DEF Guarded
<1>4. \A v \in Writer \ {w} : save'[v] = save[v]
  BY <1>1 DEF saveToFile, saveToFile_Empty, saveToFile_CannotOpen, saveToFile_Open,
         saveToFile_Write, publish_Remove, publish_Rename, Ends, Reaches, Shapes
<1>5. job' = job /\ busy' = busy /\ isSave' = isSave /\ force' = force /\ md5' = md5
  BY DEF saveToFile, persist
<1>6. OneWriter'
  BY <1>2, <1>3, <1>4, <1>5 DEF Guarded, OneWriter, Writer
<1>7. LoadHasFile'
  <2>1. ~Loading'
    BY <1>3, <1>5 DEF Loading
  <2>2. job.pc # "read"
    BY <1>3 DEF Loading
  <2>3. QED
    BY <1>5, <2>1, <2>2 DEF LoadHasFile
<1>8. PublishedIsWhole'
  BY DEF saveToFile, saveToFile_Empty, saveToFile_CannotOpen, saveToFile_Open,
         saveToFile_Write, publish_Remove, publish_Rename, volume,
         Guarded, PublishedIsWhole, PartOwned
<1>9. /\ save'[w].pc = "write" => part' # None /\ part'.write = save'[w].write
      /\ save'[w].pc \in {"publish", "rename"} => part' # None /\ part'.state # "torn"
  <2> USE DEF Shapes, SaveState, Content, Ends, Reaches
  <2>1. CASE saveToFile_Empty(w) \/ saveToFile_CannotOpen(w) \/ publish_Rename(w)
    BY <1>1, <2>1 DEF saveToFile_Empty, saveToFile_CannotOpen, publish_Rename
  <2>2. CASE saveToFile_Open(w)
    <3>1. part' = [write |-> writes', state |-> "torn"] /\ part' \in Content
      BY <1>1, <2>2 DEF saveToFile_Open
    <3>2. CASE Ends(w, "failed")
      BY <1>1, <3>2
    <3>3. CASE save' = [save EXCEPT ![w].pc = "write", ![w].write = writes']
      <4>1. save'[w].pc = "write" /\ save'[w].write = writes'
        BY <1>1, <3>3
      <4>2. part' # None
        BY <3>1, CachePersistAssumption
      <4>3. QED
        BY <3>1, <4>1, <4>2
    <3>4. QED
      BY <2>2, <3>2, <3>3 DEF saveToFile_Open
  <2>3. CASE saveToFile_Write(w)
    <3>1. save[w].pc = "write" /\ part \in Content /\ part.write = save[w].write
      BY <1>1, <2>3 DEF saveToFile_Write, Guarded, PartOwned
    <3>2. CASE part' = None /\ Ends(w, "failed")
      BY <1>1, <3>2
    <3>3. CASE /\ part' \in {[part EXCEPT !.state = "whole"], [part EXCEPT !.state = "bad"]}
               /\ Reaches(w, "publish")
      <4>1. part' \in Content /\ part'.state # "torn"
        BY <3>1, <3>3
      <4>2. save'[w].pc = "publish" /\ part' # None
        BY <1>1, <3>3, <4>1, CachePersistAssumption
      <4>3. QED
        BY <4>1, <4>2
    <3>4. QED
      BY <1>1, <2>3, <3>1, <3>2, <3>3, CachePersistAssumption DEF saveToFile_Write
  <2>4. CASE publish_Remove(w)
    BY <1>1, <2>4 DEF publish_Remove, Guarded, PartOwned
  <2>5. QED
    BY <2>1, <2>2, <2>3, <2>4 DEF saveToFile
<1>10. PartOwned'
  BY <1>3, <1>4, <1>9 DEF PartOwned
<1>11. QED
  BY <1>6, <1>7, <1>8, <1>10 DEF Guarded

\* A job that starts while no automatic save runs.
LEMMA GuardedStart ==
    ASSUME TypeOK, Guarded, NEW saving \in BOOLEAN, NEW forced \in BOOLEAN,
           startPersistJob(saving, forced), save["auto"].pc = "idle",
           UNCHANGED <<volume, md5, save>>
    PROVE  Guarded'
<1>1. ~busy /\ job.pc = "idle"
  BY TypeParts DEF startPersistJob, BusyRuns
<1>2. save["job"].pc = "idle"
  BY <1>1 DEF Guarded, OneWriter
<1>3. job'.pc = "take" \/ job'.pc = "idle"
  BY <1>1, JobStates DEF startPersistJob
<1>4. job'.pc = "take" => isSave' \/ file # None
  BY DEF startPersistJob
<1>5. OneWriter' /\ PartOwned'
  BY <1>2 DEF OneWriter, PartOwned, Writer
<1>6. LoadHasFile'
  BY <1>3, <1>4 DEF LoadHasFile, Loading, volume
<1>7. PublishedIsWhole'
  BY DEF Guarded, PublishedIsWhole, volume
<1>8. QED
  BY <1>5, <1>6, <1>7 DEF Guarded

\* A reset leaves the volume as it is and nobody at work but the restore.
LEMMA GuardedReboot ==
    ASSUME Guarded, Reboot
    PROVE  Guarded'
<1>1. \A w \in Writer : save'[w].pc = "idle"
  BY DEF Reboot, NoSave
<1>2. (job'.pc = "take" /\ file # None) \/ job'.pc = "idle"
  BY JobStates DEF Reboot
<1>3. OneWriter' /\ PartOwned'
  BY <1>1 DEF OneWriter, PartOwned, Writer
<1>4. file' = file
  BY DEF Reboot, volume
<1>5. LoadHasFile'
  BY <1>2, <1>4 DEF LoadHasFile, Loading
<1>6. PublishedIsWhole'
  BY <1>4 DEF Guarded, PublishedIsWhole
<1>7. QED
  BY <1>3, <1>5, <1>6 DEF Guarded

\* Steps that leave the volume, the writers and the job alone.
LEMMA GuardedSame ==
    ASSUME Guarded, UNCHANGED <<volume, md5, busy, isSave, force, job, save>>
    PROVE  Guarded'
BY DEF Guarded, OneWriter, PartOwned, LoadHasFile, Loading, PublishedIsWhole, match, volume

\* Every step of the job keeps the file and the part as they should be.
LEMMA GuardedJob ==
    ASSUME TypeOK, Guarded, persistJobTask
    PROVE  Guarded'
<1>1. Shapes /\ BusyRuns
  BY TypeParts
<1>2. job.pc # "idle"
  BY DEF persistJobTask, takePersistVerifyOwed, RestartSaveVerify_run, storeCacheFileMd5,
         checkCacheFileMd5, loadFromFile, persistJobTask_End
<1>3. busy /\ save["auto"].pc = "idle"
  <2>1. busy
    BY <1>1, <1>2 DEF BusyRuns
  <2>2. QED
    BY <2>1 DEF Guarded, OneWriter
<1>4. CASE takePersistVerifyOwed
  <2>1. save["job"].pc = "idle" /\ volume' = volume /\ job.pc = "take"
    BY <1>4 DEF takePersistVerifyOwed, Guarded, OneWriter
  <2>2. PublishedIsWhole'
    BY <2>1 DEF Guarded, PublishedIsWhole, volume
  <2>3. CASE isSave
    <3>1. job'.pc = "attempt" /\ save' = [save EXCEPT !["job"] = Begun]
      BY <1>1, <1>4, <2>3 DEF takePersistVerifyOwed, Shapes, JobState
    <3>2. save'["job"].pc = "open" /\ save'["auto"].pc = "idle"
      BY <1>1, <1>3, <3>1 DEF Shapes, Writer, Begun, NoSave
    <3>3. OneWriter' /\ PartOwned'
      BY <3>1, <3>2 DEF OneWriter, PartOwned, Writer
    <3>4. LoadHasFile'
      BY <3>1 DEF LoadHasFile, Loading
    <3>5. QED
      BY <2>2, <3>3, <3>4 DEF Guarded
  <2>4. CASE ~isSave
    <3>1. job'.pc = "check" /\ save' = save
      BY <1>1, <1>4, <2>4 DEF takePersistVerifyOwed, Shapes, JobState
    <3>2. file # None
      BY <2>1, <2>4 DEF Guarded, LoadHasFile, Loading
    <3>3. OneWriter' /\ PartOwned'
      BY <1>3, <2>1, <3>1 DEF OneWriter, PartOwned, Writer
    <3>4. LoadHasFile'
      BY <2>1, <3>1, <3>2 DEF LoadHasFile, Loading, volume
    <3>5. QED
      BY <2>2, <3>3, <3>4 DEF Guarded
  <2>5. QED
    BY <2>3, <2>4
<1>5. CASE RestartSaveVerify_run
  <2>1. volume' = volume /\ job.pc = "attempt"
    BY <1>5 DEF RestartSaveVerify_run
  <2>2. \/ /\ job'.pc = "attempt" /\ save' = [save EXCEPT !["job"] = Begun]
        \/ /\ job'.pc \in {"hash", "end"} /\ save' = [save EXCEPT !["job"].pc = "idle"]
    <3>1. PICK r :
            \/ /\ job' = [job EXCEPT !.attempt = @ + 1, !.result = r]
               /\ save' = [save EXCEPT !["job"] = Begun]
            \/ /\ job' = [job EXCEPT !.pc = IF r = "ok" THEN "hash" ELSE "end", !.result = r]
               /\ save' = [save EXCEPT !["job"].pc = "idle"]
      BY <1>5, Zenon DEF RestartSaveVerify_run
    <3>2. CASE /\ job' = [job EXCEPT !.attempt = @ + 1, !.result = r]
               /\ save' = [save EXCEPT !["job"] = Begun]
      BY <1>1, <2>1, <3>2 DEF Shapes, JobState
    <3>3. CASE /\ job' = [job EXCEPT !.pc = IF r = "ok" THEN "hash" ELSE "end", !.result = r]
               /\ save' = [save EXCEPT !["job"].pc = "idle"]
      BY <1>1, <3>3 DEF Shapes, JobState
    <3>4. QED
      BY <3>1, <3>2, <3>3
  <2>3. /\ save'["auto"].pc = "idle" /\ save'["job"].pc \in {"open", "idle"}
        /\ save'["job"].pc = "open" => job'.pc = "attempt"
    BY <1>1, <1>3, <2>2 DEF Shapes, SaveState, Writer, Begun, NoSave
  <2>4. OneWriter' /\ PartOwned'
    BY <2>3 DEF OneWriter, PartOwned, Writer
  <2>5. LoadHasFile'
    BY <2>2 DEF LoadHasFile, Loading
  <2>6. PublishedIsWhole'
    BY <2>1 DEF Guarded, PublishedIsWhole, volume
  <2>7. QED
    BY <2>4, <2>5, <2>6 DEF Guarded
<1>6. ASSUME job.pc # "attempt", UNCHANGED <<volume, save>>, ~Loading' \/ file # None,
             job'.pc = "read" /\ ~force' => match'
      PROVE  Guarded'
  <2>1. save["job"].pc = "idle"
    BY <1>6 DEF Guarded, OneWriter
  <2>2. OneWriter' /\ PartOwned'
    BY <1>3, <1>6, <2>1 DEF OneWriter, PartOwned, Writer
  <2>3. LoadHasFile'
    BY <1>6 DEF LoadHasFile, volume
  <2>4. PublishedIsWhole'
    BY <1>6 DEF Guarded, PublishedIsWhole, volume
  <2>5. QED
    BY <2>2, <2>3, <2>4 DEF Guarded
<1>7. CASE storeCacheFileMd5
  <2>1. job.pc = "hash" /\ job'.pc = "end" /\ UNCHANGED <<volume, save>>
    BY <1>1, <1>7 DEF storeCacheFileMd5, Shapes, JobState
  <2>2. QED
    BY <1>6, <2>1 DEF Loading
<1>8. CASE checkCacheFileMd5
  <2>1. job.pc = "check" /\ UNCHANGED <<volume, save, md5>> /\ force' = force
    BY <1>8 DEF checkCacheFileMd5, persist
  <2>2. job'.pc \in {"read", "end"} /\ (job'.pc = "read" => force \/ match)
    BY <1>1, <1>8 DEF checkCacheFileMd5, Shapes, JobState
  <2>3. file # None
    BY <2>1 DEF Guarded, LoadHasFile, Loading
  <2>4. QED
    BY <1>6, <2>1, <2>2, <2>3 DEF match, volume
<1>9. CASE loadFromFile
  <2>1. job.pc = "read" /\ job'.pc = "end" /\ UNCHANGED save
    BY <1>1, <1>9 DEF loadFromFile, Shapes, JobState
  <2>2. file # None
    BY <2>1 DEF Guarded, LoadHasFile, Loading
  <2>3. UNCHANGED volume
    BY <1>9, <2>2 DEF loadFromFile
  <2>4. QED
    BY <1>6, <2>1, <2>3 DEF Loading
<1>10. CASE persistJobTask_End
  <2>1. job.pc = "end" /\ job'.pc = "idle" /\ UNCHANGED <<volume, save>>
    BY <1>10, JobStates DEF persistJobTask_End
  <2>2. QED
    BY <1>6, <2>1 DEF Loading
<1>11. QED
  BY <1>4, <1>5, <1>7, <1>8, <1>9, <1>10 DEF persistJobTask

LEMMA GuardedStep ==
    ASSUME SavesOverlap = FALSE, TypeOK, Guarded, [Next]_vars
    PROVE  Guarded'
<1>1. BusyRuns
  BY TypeParts
<1>2. CASE handlePostInternalCacheSave
  BY <1>2, GuardedStart DEF handlePostInternalCacheSave, MayStart
<1>3. ASSUME NEW forced \in BOOLEAN, handlePostInternalCacheLoad(forced) PROVE Guarded'
  BY <1>3, GuardedStart DEF handlePostInternalCacheLoad, MayStart
<1>4. ASSUME NEW c \in Caller, RestartPath(c) PROVE Guarded'
  <2>1. CASE startCacheSaveForRestart_Start(c)
    <3>1. CASE startPersistJob(TRUE, FALSE)
      BY <2>1, <3>1, GuardedStart DEF startCacheSaveForRestart_Start
    <3>2. CASE UNCHANGED <<busy, isSave, force, result, checked, job>>
      BY <2>1, <3>2, GuardedSame DEF startCacheSaveForRestart_Start
    <3>3. QED
      BY <2>1, <3>1, <3>2 DEF startCacheSaveForRestart_Start
  <2>2. CASE esp_restart(c)
    BY <2>2, GuardedReboot DEF esp_restart
  <2>3. CASE \/ startCacheSaveForRestart_Owe(c) \/ startCacheSaveForRestart_Busy(c)
             \/ waitForPersistJob(c)
    BY <2>3, GuardedSame
       DEF startCacheSaveForRestart_Owe, startCacheSaveForRestart_Busy, waitForPersistJob,
           persist
  <2>4. QED
    BY <1>4, <2>1, <2>2, <2>3 DEF RestartPath
<1>5. CASE configure \/ CacheChanges \/ UNCHANGED vars
  BY <1>5, GuardedSame DEF configure, CacheChanges, vars, persist
<1>6. CASE saveNow
  <2>1. ~busy /\ job.pc = "idle"
    BY <1>1, <1>6 DEF saveNow, BusyRuns
  <2>2. save["job"].pc = "idle" /\ UNCHANGED <<volume, md5, busy, job>>
    BY <1>6, <2>1 DEF Guarded, OneWriter, saveNow, persist
  <2>3. save'["job"].pc = "idle" /\ save'["auto"].pc = "open"
    BY <1>6, <2>2, TypeParts DEF saveNow, Shapes, Writer, Begun, NoSave
  <2>4. OneWriter' /\ PartOwned' /\ LoadHasFile'
    BY <2>1, <2>2, <2>3 DEF OneWriter, PartOwned, LoadHasFile, Loading, Writer
  <2>5. PublishedIsWhole'
    BY <2>2 DEF Guarded, PublishedIsWhole, volume
  <2>6. QED
    BY <2>4, <2>5 DEF Guarded
<1>7. CASE saveNow_End
  <2>1. UNCHANGED <<volume, md5, busy, isSave, force, job>>
    BY <1>7 DEF saveNow_End, persist
  <2>2. save'["job"] = save["job"] /\ save'["auto"].pc = "idle"
    BY <1>7, TypeParts DEF saveNow_End, Shapes, Writer, NoSave
  <2>3. OneWriter' /\ PartOwned'
    BY <2>1, <2>2 DEF Guarded, OneWriter, PartOwned, Writer, volume
  <2>4. LoadHasFile' /\ PublishedIsWhole'
    BY <2>1 DEF Guarded, LoadHasFile, Loading, PublishedIsWhole, match, volume
  <2>5. QED
    BY <2>3, <2>4 DEF Guarded
<1>8. CASE Replaced
  <2>1. ~busy /\ job.pc = "idle" /\ save["auto"].pc = "idle"
    BY <1>1, <1>8 DEF Replaced, BusyRuns
  <2>2. save["job"].pc = "idle" /\ UNCHANGED <<busy, job, save>>
    BY <1>8, <2>1 DEF Guarded, OneWriter, Replaced, persist
  <2>3. OneWriter' /\ PartOwned' /\ LoadHasFile'
    BY <2>1, <2>2 DEF OneWriter, PartOwned, LoadHasFile, Loading, Writer
  <2>4. PublishedIsWhole'
    BY <1>8 DEF Replaced, Foreign, PublishedIsWhole
  <2>5. QED
    BY <2>3, <2>4 DEF Guarded
<1>9. CASE PowerCut
  BY <1>9, GuardedReboot DEF PowerCut
<1>10. QED
  BY <1>2, <1>3, <1>4, <1>5, <1>6, <1>7, <1>8, <1>9, GuardedJob, GuardedSave DEF Next

\* With at most one writer at work, cache.dat is never a half-written file,
\* whatever fails and wherever the power goes: the part is closed before it is
\* renamed, and only the writer that owns it does either.
THEOREM NeverTorn ==
    ASSUME SavesOverlap = FALSE
    PROVE  Spec => []PublishedIsWhole
<1>1. Init => TypeOK /\ Guarded
  BY TypeInit, GuardedInit
<1>2. TypeOK /\ Guarded /\ [Next]_vars => (TypeOK /\ Guarded)'
  BY TypeStep, GuardedStep
<1>3. Guarded => PublishedIsWhole
  BY DEF Guarded
<1>4. QED
  BY <1>1, <1>2, <1>3, PTL DEF Spec

\* What was checked is what is read: no step changes the file under a load.
LEMMA FileStays ==
    ASSUME SavesOverlap = FALSE, TypeOK, Guarded, [Next]_vars, job.pc = "read"
    PROVE  file' = file
<1>1. busy /\ file # None
  <2>1. busy
    BY TypeParts DEF BusyRuns
  <2>2. QED
    BY <2>1 DEF Guarded, LoadHasFile, Loading
<1>2. ASSUME NEW w \in Writer, saveToFile(w) PROVE FALSE
  <2>1. save[w].pc # "idle"
    BY <1>2 DEF saveToFile, saveToFile_Empty, saveToFile_CannotOpen, saveToFile_Open,
                saveToFile_Write, publish_Remove, publish_Rename
  <2>2. QED
    BY <2>1, OthersRest DEF Guarded, Loading
<1>3. CASE persistJobTask
  BY <1>1, <1>3 DEF persistJobTask, takePersistVerifyOwed, RestartSaveVerify_run,
         storeCacheFileMd5, checkCacheFileMd5, loadFromFile, persistJobTask_End, volume
<1>4. ASSUME NEW c \in Caller, RestartPath(c) PROVE file' = file
  BY <1>4 DEF RestartPath, startCacheSaveForRestart_Owe, startCacheSaveForRestart_Busy,
         startCacheSaveForRestart_Start, waitForPersistJob, esp_restart, Reboot, volume
<1>5. CASE Replaced
  BY <1>1, <1>5 DEF Replaced
<1>6. QED
  BY <1>2, <1>3, <1>4, <1>5
     DEF Next, handlePostInternalCacheSave, handlePostInternalCacheLoad, configure, saveNow,
         saveNow_End, CacheChanges, PowerCut, Reboot, vars, volume

\* With at most one writer at work, an unforced load reads the very file its
\* stored checksum was taken of.
THEOREM LoadsWhatItKnows ==
    ASSUME SavesOverlap = FALSE
    PROVE  Spec => LoadOnlyKnown
<1>1. Init => TypeOK /\ Guarded
  BY TypeInit, GuardedInit
<1>2. TypeOK /\ Guarded /\ [Next]_vars => (TypeOK /\ Guarded)'
  BY TypeStep, GuardedStep
<1>3. TypeOK /\ Guarded /\ [Next]_vars
         => [job.pc = "read" /\ job'.result = "ok" /\ ~force => file' = md5]_vars
  BY FileStays DEF Guarded, LoadHasFile, match
<1>4. QED
  BY <1>1, <1>2, <1>3, PTL DEF Spec, LoadOnlyKnown

---------------------------------------------------------------------------
(* What a finished save reports, while at most one writer is at work *)

Numbered(c) == c # None => c.write <= writes

JobWrites == \/ save["job"].pc \in {"write", "publish", "rename"}
             \/ save["job"].pc = "done" /\ save["job"].outcome = "ok"

\* What the job's saveToFile() has written carries its number, and the stored
\* checksum was taken of an older write.
JobsOwn ==
    /\ save["job"].pc \in {"publish", "rename"} => part.write = save["job"].write
    /\ save["job"].pc = "done" => save["job"].outcome # "none"
    /\ save["job"].pc = "done" /\ save["job"].outcome = "ok"
         => file # None /\ file.write = save["job"].write
    /\ JobWrites => md5 = None \/ md5.write < save["job"].write

JobShape ==
    /\ job.pc \in {"take", "check", "read"} => ~job.verify /\ job.result = "failed"
    /\ job.pc = "hash" => job.result = "ok"

\* What the job is about to report of a save it read back.
Kept ==
    job.pc \in {"hash", "end"} /\ job.verify /\ job.result = "ok"
        => file = [write |-> save["job"].write, state |-> "whole"]

Out == job.pc = "end" /\ job.result = "mismatch" => ~match

Numbers == Numbered(file) /\ Numbered(part) /\ Numbered(md5)
Verdict == Numbers /\ JobsOwn /\ JobShape /\ Kept /\ Out

LEMMA VerdictInit == Init => Verdict
BY DEF Init, Verdict, Numbers, Numbered, JobsOwn, JobWrites, JobShape, Kept, Out, NoJob, NoSave, Writer

\* Steps that leave the volume, the checksum, the job's save and the job alone.
LEMMA VerdictSame ==
    ASSUME Verdict, UNCHANGED <<volume, md5, job, writes>>, save'["job"] = save["job"]
    PROVE  Verdict'
BY DEF Verdict, Numbers, Numbered, JobsOwn, JobWrites, JobShape, Kept, Out, match, volume

\* With the job between saves, only what it is about to report matters.
LEMMA VerdictIdle ==
    ASSUME Numbers', save'["job"].pc = "idle", JobShape', Kept', Out'
    PROVE  Verdict'
BY DEF Verdict, JobsOwn, JobWrites

\* A job that starts.
LEMMA VerdictStart ==
    ASSUME TypeOK, Guarded, Verdict, NEW saving, NEW forced, startPersistJob(saving, forced),
           UNCHANGED <<volume, md5, save, writes>>
    PROVE  Verdict'
<1>1. job.pc = "idle" /\ save["job"].pc = "idle"
  <2>1. ~busy /\ BusyRuns
    BY TypeParts DEF startPersistJob
  <2>2. job.pc = "idle"
    BY <2>1 DEF BusyRuns
  <2>3. QED
    BY <2>2 DEF Guarded, OneWriter
<1>2. job' = [NoJob EXCEPT !.pc = "take"] \/ job' = job
  BY DEF startPersistJob
<1>3. job'.pc = "idle" \/ (job'.pc = "take" /\ ~job'.verify /\ job'.result = "failed")
  BY <1>1, <1>2 DEF NoJob
<1>4. JobShape' /\ Kept' /\ Out'
  BY <1>3 DEF JobShape, Kept, Out
<1>5. Numbers'
  BY DEF Verdict, Numbers, Numbered, volume
<1>6. QED
  BY <1>1, <1>4, <1>5, VerdictIdle

\* A reset forgets the job, and a restore begins as every job does.
LEMMA VerdictReboot ==
    ASSUME Verdict, Reboot
    PROVE  Verdict'
<1>1. save'["job"].pc = "idle"
  BY DEF Reboot, NoSave, Writer
<1>2. job'.pc = "idle" \/ (job'.pc = "take" /\ ~job'.verify /\ job'.result = "failed")
  BY DEF Reboot, NoJob
<1>3. JobShape' /\ Kept' /\ Out'
  BY <1>2 DEF JobShape, Kept, Out
<1>4. Numbers'
  BY DEF Verdict, Numbers, Numbered, volume, Reboot
<1>5. QED
  BY <1>1, <1>3, <1>4, VerdictIdle

\* The numbers of contents follow the writes.
LEMMA NumbersSave ==
    ASSUME TypeOK, Verdict, NEW w \in Writer, saveToFile(w)
    PROVE  Numbers'
<1>1. /\ file \in Content \cup {None} /\ part \in Content \cup {None}
      /\ md5 \in Content \cup {None} /\ writes \in Nat /\ md5' = md5
  BY TypeParts DEF Shapes, saveToFile
<1>2. Numbers
  BY DEF Verdict
<1>3. CASE saveToFile_Open(w)
  BY <1>1, <1>2, <1>3 DEF saveToFile_Open, Numbers, Numbered, Content
<1>4. CASE saveToFile_Write(w)
  <2>1. /\ file' = file /\ writes' = writes
        /\ \/ part' = part \/ part' = None
           \/ part # None /\ \E st \in {"whole", "bad"} : part' = [part EXCEPT !.state = st]
    BY <1>4 DEF saveToFile_Write
  <2>2. part' # None => part # None /\ part'.write = part.write
    BY <1>1, <2>1 DEF Content
  <2>3. QED
    BY <1>1, <1>2, <2>1, <2>2 DEF Numbers, Numbered
<1>5. CASE saveToFile_Empty(w) \/ saveToFile_CannotOpen(w) \/ publish_Remove(w) \/ publish_Rename(w)
  BY <1>1, <1>2, <1>5 DEF saveToFile_Empty, saveToFile_CannotOpen, publish_Remove, publish_Rename,
         volume, Numbers, Numbered
<1>6. QED
  BY <1>3, <1>4, <1>5 DEF saveToFile

\* The job's saveToFile(): what it publishes is its own write, which is newer
\* than anything the stored checksum was taken of.
LEMMA JobsOwnSave ==
    ASSUME TypeOK, Guarded, Verdict, saveToFile("job")
    PROVE  JobsOwn'
<1>1. Shapes /\ "job" \in Writer
  BY TypeParts DEF Writer
<1>2. md5' = md5 /\ (md5 # None => md5.write <= writes /\ md5.write \in Nat) /\ writes \in Nat
  BY <1>1 DEF saveToFile, Verdict, Numbers, Numbered, Shapes, Content
<1> USE DEF Ends, Reaches
<1>3. ASSUME NEW o \in {"empty", "failed"}, Ends("job", o) PROVE JobsOwn'
  <2>1. save'["job"].pc = "done" /\ save'["job"].outcome = o
    BY <1>1, <1>3 DEF Shapes, SaveState
  <2>2. QED
    BY <2>1 DEF JobsOwn, JobWrites
<1>4. ASSUME NEW pc \in {"publish", "rename"}, Reaches("job", pc),
             save["job"].pc \in {"write", "publish", "rename"},
             part'.write = save["job"].write
      PROVE  JobsOwn'
  <2>1. save'["job"].pc = pc /\ save'["job"].write = save["job"].write
    BY <1>1, <1>4 DEF Shapes, SaveState
  <2>2. QED
    BY <1>2, <1>4, <2>1 DEF JobsOwn, JobWrites, Verdict
<1>5. CASE saveToFile_Open("job")
  <2>1. writes' = writes + 1
    BY <1>5 DEF saveToFile_Open
  <2>2. CASE save' = [save EXCEPT !["job"].pc = "write", !["job"].write = writes']
    <3>1. save'["job"].pc = "write" /\ save'["job"].write = writes + 1
      BY <1>1, <2>1, <2>2 DEF Shapes, SaveState
    <3>2. QED
      BY <1>2, <3>1 DEF JobsOwn, JobWrites
  <2>3. QED
    BY <1>3, <1>5, <2>2 DEF saveToFile_Open
<1>6. CASE saveToFile_Write("job")
  <2>1. /\ save["job"].pc = "write" /\ part # None /\ part.write = save["job"].write
        /\ part \in Content
    BY <1>1, <1>6 DEF saveToFile_Write, Guarded, PartOwned, Shapes
  <2>2. \/ Ends("job", "failed")
        \/ /\ Reaches("job", "publish")
           /\ \E st \in {"whole", "bad"} : part' = [part EXCEPT !.state = st]
    BY <1>6, <2>1 DEF saveToFile_Write
  <2>3. ASSUME NEW st \in {"whole", "bad"}, part' = [part EXCEPT !.state = st]
        PROVE  part'.write = save["job"].write
    BY <2>1, <2>3 DEF Content
  <2>4. QED
    BY <1>3, <1>4, <2>1, <2>2, <2>3
<1>7. CASE publish_Remove("job")
  BY <1>3, <1>4, <1>7 DEF publish_Remove, Verdict, JobsOwn, JobWrites
<1>8. CASE publish_Rename("job")
  <2>1. save["job"].pc = "rename" /\ part.write = save["job"].write
    BY <1>8 DEF publish_Rename, Verdict, JobsOwn, JobWrites
  <2>2. CASE part # None /\ file' = part /\ Ends("job", "ok")
    <3>1. save'["job"].pc = "done" /\ save'["job"].outcome = "ok"
                                   /\ save'["job"].write = save["job"].write
      BY <1>1, <2>2 DEF Shapes, SaveState
    <3>2. QED
      BY <1>2, <2>1, <2>2, <3>1 DEF JobsOwn, JobWrites, Verdict
  <2>3. QED
    BY <1>3, <1>8, <2>2 DEF publish_Rename
<1>9. CASE saveToFile_Empty("job") \/ saveToFile_CannotOpen("job")
  BY <1>3, <1>9 DEF saveToFile_Empty, saveToFile_CannotOpen
<1>10. QED
  BY <1>5, <1>6, <1>7, <1>8, <1>9 DEF saveToFile

LEMMA VerdictSave ==
    ASSUME TypeOK, Guarded, Verdict, NEW w \in Writer, saveToFile(w)
    PROVE  Verdict'
<1>1. save[w].pc # "idle" /\ job' = job
  BY DEF saveToFile, saveToFile_Empty, saveToFile_CannotOpen, saveToFile_Open,
         saveToFile_Write, publish_Remove, publish_Rename
<1>2. Numbers'
  BY NumbersSave
<1>3. CASE w = "job"
  <2>1. job.pc = "attempt"
    BY <1>1, <1>3 DEF Guarded, OneWriter
  <2>2. JobShape' /\ Kept' /\ Out'
    BY <1>1, <2>1 DEF JobShape, Kept, Out
  <2>3. QED
    BY <1>2, <1>3, <2>2, JobsOwnSave DEF Verdict
<1>4. CASE w = "auto"
  <2>1. ~busy /\ BusyRuns
    BY <1>1, <1>4, TypeParts DEF Guarded, OneWriter
  <2>2. job.pc = "idle"
    BY <2>1 DEF BusyRuns
  <2>3. save["job"].pc = "idle"
    BY <2>2 DEF Guarded, OneWriter
  <2>4. save'["job"] = save["job"]
    BY <1>4, TypeParts DEF saveToFile, saveToFile_Empty, saveToFile_CannotOpen, saveToFile_Open,
         saveToFile_Write, publish_Remove, publish_Rename, Ends, Reaches, Shapes, Writer
  <2>5. JobShape' /\ Kept' /\ Out'
    BY <1>1, <2>2 DEF JobShape, Kept, Out
  <2>6. QED
    BY <1>2, <2>3, <2>4, <2>5, VerdictIdle
<1>5. QED
  BY <1>3, <1>4 DEF Writer

\* An attempt ends: a save that is read back is called ok only if cache.dat is
\* its own whole write, and a mismatch is not what the stored checksum knows.
LEMMA VerdictRun ==
    ASSUME TypeOK, Guarded, Verdict, RestartSaveVerify_run
    PROVE  Verdict'
<1>1. Shapes
  BY TypeParts
<1>2. /\ job.pc = "attempt" /\ save["job"].pc = "done" /\ UNCHANGED <<volume, md5, writes>>
      /\ Numbers'
  BY DEF RestartSaveVerify_run, Verdict, Numbers, Numbered, volume
<1>3. PICK passes \in checkPasses :
         \/ /\ job' = [job EXCEPT !.attempt = @ + 1, !.result = attemptResult(passes)]
            /\ save' = [save EXCEPT !["job"] = Begun]
         \/ /\ job' = [job EXCEPT !.pc = IF attemptResult(passes) = "ok" THEN "hash" ELSE "end",
                                  !.result = attemptResult(passes)]
            /\ save' = [save EXCEPT !["job"].pc = "idle"]
  BY Zenon DEF RestartSaveVerify_run
<1>4. PICK r : r = attemptResult(passes)
  OBVIOUS
<1>5. save["job"].outcome \in {"ok", "empty", "failed"}
  BY <1>1, <1>2 DEF Shapes, SaveState, Writer, Verdict, JobsOwn
<1>6. /\ r = "mismatch" => save["job"].outcome = "ok" /\ ~passes
      /\ r = "ok" /\ job.verify => save["job"].outcome = "ok" /\ passes
  BY <1>4, <1>5 DEF attemptResult
<1>7. /\ file \in Content \cup {None}
      /\ save["job"].outcome = "ok" => /\ file # None /\ file.write = save["job"].write
                                       /\ md5 = None \/ md5.write < save["job"].write
  BY <1>1, <1>2 DEF Shapes, Verdict, JobsOwn, JobWrites
<1>8. ASSUME r = "ok", job.verify PROVE file = [write |-> save["job"].write, state |-> "whole"]
  <2>1. file # None /\ file \in Content /\ file.write = save["job"].write /\ passes
    BY <1>6, <1>7, <1>8
  <2>2. file.state = "whole"
    BY <2>1, <1>3 DEF checkPasses
  <2>3. QED
    BY <2>1, <2>2 DEF Content
<1>9. ASSUME r = "mismatch" PROVE ~match
  <2>1. /\ file # None /\ file.write = save["job"].write /\ save["job"].write \in Nat
        /\ md5 = None \/ md5.write < save["job"].write
    BY <1>1, <1>6, <1>7, <1>9 DEF Shapes, SaveState, Writer
  <2>2. QED
    BY <2>1 DEF match
<1>10. CASE /\ job' = [job EXCEPT !.attempt = @ + 1, !.result = r]
            /\ save' = [save EXCEPT !["job"] = Begun]
  <2>1. job'.pc = "attempt"
    BY <1>1, <1>2, <1>10 DEF Shapes, JobState
  <2>2. save'["job"].pc = "open"
    BY <1>1, <1>10 DEF Shapes, Writer, Begun, NoSave
  <2>3. QED
    BY <1>2, <2>1, <2>2 DEF Verdict, JobsOwn, JobWrites, JobShape, Kept, Out
<1>11. CASE /\ job' = [job EXCEPT !.pc = IF r = "ok" THEN "hash" ELSE "end", !.result = r]
            /\ save' = [save EXCEPT !["job"].pc = "idle"]
  <2>1. save'["job"].pc = "idle" /\ save'["job"].write = save["job"].write
    BY <1>1, <1>11 DEF Shapes, SaveState, Writer
  <2>2. /\ job'.pc = (IF r = "ok" THEN "hash" ELSE "end") /\ job'.result = r
        /\ job'.verify = job.verify
    BY <1>1, <1>11 DEF Shapes, JobState
  <2>3. JobShape'
    BY <2>2 DEF JobShape
  <2>4. Kept'
    BY <1>2, <1>8, <2>1, <2>2 DEF Kept, volume
  <2>5. Out'
    BY <1>2, <1>9, <2>2 DEF Out, match, volume
  <2>6. QED
    BY <1>2, <2>1, <2>3, <2>4, <2>5, VerdictIdle
<1>12. QED
  BY <1>3, <1>4, <1>10, <1>11

LEMMA VerdictJob ==
    ASSUME TypeOK, Guarded, Verdict, persistJobTask
    PROVE  Verdict'
<1>1. Shapes
  BY TypeParts
<1>2. ASSUME job.pc # "attempt", UNCHANGED <<volume, writes, save>>, md5' = md5 \/ md5' = file,
             JobShape', Kept', Out'
      PROVE  Verdict'
  <2>1. save["job"].pc = "idle"
    BY <1>2 DEF Guarded, OneWriter
  <2>2. Numbers'
    BY <1>2 DEF Verdict, Numbers, Numbered, volume
  <2>3. QED
    BY <1>2, <2>1, <2>2, VerdictIdle
<1>3. CASE takePersistVerifyOwed
  <2>1. job.pc = "take" /\ UNCHANGED <<volume, md5, writes>>
    BY <1>3 DEF takePersistVerifyOwed
  <2>2. CASE isSave
    <3>1. job'.pc = "attempt"
      BY <1>1, <1>3, <2>2 DEF takePersistVerifyOwed, Shapes, JobState
    <3>2. save'["job"].pc = "open"
      BY <1>1, <1>3, <2>2 DEF takePersistVerifyOwed, Shapes, Writer, Begun, NoSave
    <3>3. Numbers'
      BY <2>1 DEF Verdict, Numbers, Numbered, volume
    <3>4. QED
      BY <3>1, <3>2, <3>3 DEF Verdict, JobsOwn, JobWrites, JobShape, Kept, Out
  <2>3. CASE ~isSave
    <3>1. job' = [job EXCEPT !.pc = "check"] /\ save' = save
      BY <1>3, <2>3 DEF takePersistVerifyOwed
    <3>2. job'.pc = "check" /\ job'.verify = job.verify /\ job'.result = job.result
      BY <1>1, <3>1 DEF Shapes, JobState
    <3>3. JobShape' /\ Kept' /\ Out'
      BY <2>1, <3>2 DEF Verdict, JobShape, Kept, Out
    <3>4. QED
      BY <1>2, <2>1, <3>1, <3>3
  <2>4. QED
    BY <2>2, <2>3
<1>4. CASE storeCacheFileMd5
  <2>1. /\ job.pc = "hash" /\ job' = [job EXCEPT !.pc = "end"]
        /\ UNCHANGED <<volume, writes, save>> /\ (md5' = md5 \/ md5' = file)
    BY <1>4 DEF storeCacheFileMd5
  <2>2. job'.pc = "end" /\ job'.verify = job.verify /\ job'.result = job.result
    BY <1>1, <2>1 DEF Shapes, JobState
  <2>3. JobShape' /\ Kept' /\ Out'
    BY <2>1, <2>2 DEF Verdict, JobShape, Kept, Out, volume
  <2>4. QED
    BY <1>2, <2>1, <2>3
<1>5. CASE checkCacheFileMd5
  <2>1. /\ job.pc = "check" /\ UNCHANGED <<volume, md5, writes, save>>
        /\ \E pc \in {"read", "end"} : job' = [job EXCEPT !.pc = pc]
    BY <1>5 DEF checkCacheFileMd5
  <2>2. job'.pc \in {"read", "end"} /\ job'.verify = job.verify /\ job'.result = job.result
    BY <1>1, <2>1 DEF Shapes, JobState
  <2>3. JobShape' /\ Kept' /\ Out'
    BY <2>1, <2>2 DEF Verdict, JobShape, Kept, Out
  <2>4. QED
    BY <1>2, <2>1, <2>3
<1>6. CASE loadFromFile
  <2>1. job.pc = "read" /\ file # None
    BY <1>6 DEF loadFromFile, Guarded, LoadHasFile, Loading
  <2>2. /\ UNCHANGED <<volume, md5, writes, save>>
        /\ \E r \in {"ok", "failed"} : job' = [job EXCEPT !.pc = "end", !.result = r]
    BY <1>6, <2>1 DEF loadFromFile
  <2>3. job'.pc = "end" /\ job'.verify = job.verify /\ job'.result \in {"ok", "failed"}
    BY <1>1, <2>2 DEF Shapes, JobState
  <2>4. JobShape' /\ Kept' /\ Out'
    BY <2>1, <2>3 DEF Verdict, JobShape, Kept, Out
  <2>5. QED
    BY <1>2, <2>1, <2>2, <2>4
<1>7. CASE persistJobTask_End
  <2>1. job.pc = "end" /\ job'.pc = "idle" /\ UNCHANGED <<volume, md5, writes, save>>
    BY <1>7, JobStates DEF persistJobTask_End
  <2>2. JobShape' /\ Kept' /\ Out'
    BY <2>1 DEF JobShape, Kept, Out
  <2>3. QED
    BY <1>2, <2>1, <2>2
<1>8. QED
  BY <1>3, <1>4, <1>5, <1>6, <1>7, VerdictRun DEF persistJobTask

LEMMA VerdictStep ==
    ASSUME SavesOverlap = FALSE, TypeOK, Guarded, Verdict, [Next]_vars
    PROVE  Verdict'
<1>1. Shapes /\ BusyRuns
  BY TypeParts
<1>2. CASE handlePostInternalCacheSave
  BY <1>2, VerdictStart DEF handlePostInternalCacheSave
<1>3. ASSUME NEW forced \in BOOLEAN, handlePostInternalCacheLoad(forced) PROVE Verdict'
  BY <1>3, VerdictStart DEF handlePostInternalCacheLoad
<1>4. ASSUME NEW c \in Caller, RestartPath(c) PROVE Verdict'
  <2>1. CASE startCacheSaveForRestart_Start(c)
    <3>1. CASE startPersistJob(TRUE, FALSE)
      BY <2>1, <3>1, VerdictStart DEF startCacheSaveForRestart_Start
    <3>2. CASE UNCHANGED <<busy, isSave, force, result, checked, job>>
      BY <2>1, <3>2, VerdictSame DEF startCacheSaveForRestart_Start
    <3>3. QED
      BY <2>1, <3>1, <3>2 DEF startCacheSaveForRestart_Start
  <2>2. CASE esp_restart(c)
    BY <2>2, VerdictReboot DEF esp_restart
  <2>3. CASE \/ startCacheSaveForRestart_Owe(c) \/ startCacheSaveForRestart_Busy(c)
             \/ waitForPersistJob(c)
    BY <2>3, VerdictSame
       DEF startCacheSaveForRestart_Owe, startCacheSaveForRestart_Busy, waitForPersistJob
  <2>4. QED
    BY <1>4, <2>1, <2>2, <2>3 DEF RestartPath
<1>5. CASE configure \/ CacheChanges \/ UNCHANGED vars
  BY <1>5, VerdictSame DEF configure, CacheChanges, vars
<1>6. CASE saveNow \/ saveNow_End
  <2>1. save'["job"] = save["job"]
    BY <1>1, <1>6 DEF saveNow, saveNow_End, Shapes, Writer
  <2>2. QED
    BY <1>6, <2>1, VerdictSame DEF saveNow, saveNow_End
<1>7. CASE Replaced
  <2>1. ~busy
    BY <1>7 DEF Replaced
  <2>2. job.pc = "idle" /\ UNCHANGED <<job, save, md5, writes>>
    BY <1>1, <1>7, <2>1 DEF Replaced, BusyRuns
  <2>3. save["job"].pc = "idle"
    BY <2>2 DEF Guarded, OneWriter
  <2>4. Numbers'
    <3>1. writes \in Nat /\ file' = Foreign /\ part' = None
      BY <1>1, <1>7 DEF Replaced, Shapes
    <3>2. QED
      BY <2>2, <3>1 DEF Verdict, Numbers, Numbered, Foreign
  <2>5. JobShape' /\ Kept' /\ Out'
    BY <2>2 DEF JobShape, Kept, Out
  <2>6. QED
    BY <2>2, <2>3, <2>4, <2>5, VerdictIdle
<1>8. CASE PowerCut
  BY <1>8, VerdictReboot DEF PowerCut
<1>9. QED
  BY <1>2, <1>3, <1>4, <1>5, <1>6, <1>7, <1>8, VerdictJob, VerdictSave DEF Next

\* Only the end of the job, or a reset that reports nothing, gives persistBusy_
\* back.
LEMMA BusyEnds ==
    ASSUME TypeOK, [Next]_vars, busy, ~busy'
    PROVE  persistJobTask_End \/ (checked' = FALSE /\ result' = "none")
<1>1. CASE persistJobTask
  BY <1>1 DEF persistJobTask, takePersistVerifyOwed, RestartSaveVerify_run, storeCacheFileMd5,
         checkCacheFileMd5, loadFromFile, persist
<1>2. ASSUME NEW c \in Caller, RestartPath(c) PROVE checked' = FALSE /\ result' = "none"
  BY <1>2 DEF RestartPath, startCacheSaveForRestart_Owe, startCacheSaveForRestart_Busy,
         startCacheSaveForRestart_Start, startPersistJob, waitForPersistJob, esp_restart,
         Reboot, persist
<1>3. CASE PowerCut
  BY <1>3 DEF PowerCut, Reboot
<1>4. ASSUME NEW w \in Writer, saveToFile(w) PROVE FALSE
  BY <1>4 DEF saveToFile, persist
<1>5. QED
  BY <1>1, <1>2, <1>3, <1>4
     DEF Next, handlePostInternalCacheSave, handlePostInternalCacheLoad, startPersistJob,
         configure, saveNow, saveNow_End, CacheChanges, Replaced, vars, persist

\* With at most one writer at work, a finished save says what is so: one that
\* was read back left its own whole write in cache.dat, and one that did not
\* match is not what the stored checksum would let in at the next boot.
THEOREM VerdictsHold ==
    ASSUME SavesOverlap = FALSE
    PROVE  Spec => VerdictIsTrue
<1>1. Init => TypeOK /\ Guarded /\ Verdict
  BY TypeInit, GuardedInit, VerdictInit
<1>2. TypeOK /\ Guarded /\ Verdict /\ [Next]_vars => (TypeOK /\ Guarded /\ Verdict)'
  BY TypeStep, GuardedStep, VerdictStep
<1>3. ASSUME TypeOK, Verdict, [Next]_vars PROVE CheckedIsKept /\ MismatchStaysOut
  <2> SUFFICES ASSUME busy, ~busy'
               PROVE  /\ checked' => file = [write |-> save["job"].write, state |-> "whole"]
                      /\ result' = "mismatch" => ~match
    BY Zenon DEF CheckedIsKept, MismatchStaysOut
  <2>1. CASE checked' = FALSE /\ result' = "none"
    BY <2>1
  <2>2. CASE persistJobTask_End
    <3>1. job.pc = "end" /\ (checked' => job.verify /\ job.result = "ok") /\ result' = job.result
      BY <1>3, <2>2 DEF persistJobTask_End
    <3>2. QED
      BY <1>3, <3>1 DEF Verdict, Kept, Out
  <2>3. QED
    BY <1>3, <2>1, <2>2, BusyEnds
<1>4. TypeOK /\ Guarded /\ Verdict /\ [Next]_vars => [CheckedIsKept /\ MismatchStaysOut]_vars
  BY <1>3
<1>5. QED
  BY <1>1, <1>2, <1>4, PTL DEF Spec, VerdictIsTrue
===========================================================================
