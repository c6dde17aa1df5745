---------------------------- MODULE VolumeCare ----------------------------
(***************************************************************************)
(* The read-only check of a volume and the repair that deletes what the    *)
(* check could not read (FileManager): one report of the check, one of the *)
(* repair, a task each, and their rows in the job table.  The HTTP server  *)
(* is one task (web), so its handlers do not overlap each other; they      *)
(* overlap the check task, the repair task and a format.                   *)
(*                                                                         *)
(* A volume is the set of the names on it and the subset of these that no  *)
(* walk can read.  The same names may exist on two volumes.                *)
(***************************************************************************)
EXTENDS JobTable

CONSTANTS Volume, Card, Name, Damage, MaxRounds, MaxChecks, MaxClosing, NoVolume

ASSUME VolumeCareAssumption ==
    /\ NoVolume \notin Volume /\ Card \subseteq Volume
    /\ Damage \in [Volume -> SUBSET Name]    \* what no walk can read, at the start
    /\ MaxRounds \in Nat \ {0} /\ MaxChecks \in Nat /\ MaxClosing \in Nat \ {0}

VARIABLES
    mounted,  \* the volumes that are mounted
    names,    \* volume -> the names on it
    damaged,  \* volume -> the names a walk cannot read
    erasing,  \* formatting_: the volume a format owns, or NoVolume
    check,    \* checkState_ and checkCancel_
    walk,     \* walks in progress, and ended ones whose row is still to be closed
    asked,    \* checks the operator has asked for, at most MaxChecks
    repair,   \* repairState_.busy and .volume, repairCancel_
    mender,   \* what repairRun keeps on its stack, its pc included
    web,      \* pc of the handler in progress in the HTTP server
    careJobs  \* the table of JobRegistry

careVars == <<mounted, names, damaged, erasing, check, walk, asked, repair, mender, web, careJobs>>
disk == <<mounted, names, damaged, erasing>>

NoReport == [busy |-> FALSE, finished |-> FALSE, volume |-> NoVolume, errors |-> {},
             cancelled |-> FALSE, stop |-> FALSE]
NoMender == [pc |-> "none", paths |-> {}, todo |-> {}, deleted |-> FALSE, round |-> 0,
             result |-> "done", closing |-> 0]

CareTypeOK ==
    /\ mounted \subseteq Volume /\ erasing \in Volume \cup {NoVolume}
    /\ names \in [Volume -> SUBSET Name] /\ \A v \in Volume : damaged[v] \subseteq names[v]
    /\ check \in [busy : BOOLEAN, finished : BOOLEAN, volume : Volume \cup {NoVolume},
                  errors : SUBSET Name, cancelled : BOOLEAN, stop : BOOLEAN]
    /\ walk \in [on : Nat, closing : 0 .. MaxClosing] /\ asked \in 0 .. MaxChecks
    /\ repair \in [busy : BOOLEAN, volume : Volume \cup {NoVolume}, stop : BOOLEAN]
    /\ mender \in [pc : {"none", "start", "round", "delete", "walk", "row", "wait", "publish"},
                   paths : SUBSET Name, todo : SUBSET Name, deleted : BOOLEAN,
                   round : 0 .. MaxRounds, result : {"done", "failed", "cancelled"}, closing : 0 .. MaxClosing]
    /\ web \in {"idle", "checkRow", "repairRow", "repairTask"}
    /\ careJobs \in Seq(JobRow({"file_check", "file_repair"}))

\* The operator may have had a volume checked already.
Checked(v) == [NoReport EXCEPT !.finished = TRUE, !.volume = v, !.errors = Damage[v]]

CareInit ==
    /\ mounted = Volume /\ erasing = NoVolume
    /\ names = [v \in Volume |-> Name]
    /\ damaged = Damage
    /\ check \in {NoReport} \cup {Checked(v) : v \in Volume} /\ walk = [on |-> 0, closing |-> 0] /\ asked = 0
    /\ repair = [busy |-> FALSE, volume |-> NoVolume, stop |-> FALSE]
    /\ mender = NoMender /\ web = "idle" /\ careJobs = <<>>

\* resolve(): the volume is mounted and no format owns the file manager.
resolves(v) == v \in mounted /\ erasing = NoVolume

-----------------------------------------------------------------------------
\* checkStart: the report is claimed under its mutex and reset, and the task
\* runs from here on; or the task cannot be created.
checkStart(v) ==
    /\ resolves(v) /\ ~check.busy
    /\ \/ /\ check' = [NoReport EXCEPT !.busy = TRUE, !.volume = v]
          /\ walk' = [walk EXCEPT !.on = @ + 1]
       \/ /\ check' = [NoReport EXCEPT !.finished = TRUE, !.volume = v]
          /\ UNCHANGED walk
\* Only then is the row opened, by whoever called.
checkStart_Row == careJobs' = jobBegin(careJobs, "file_check", FALSE)

\* checkWalk and checkFinish: what the walk could not read, all of it or,
\* when it was stopped, some of it.
checkTask_Walk ==
    /\ walk.on > 0 /\ walk.closing < MaxClosing
    /\ \/ /\ ~check.stop
          /\ check' = [check EXCEPT !.busy = FALSE, !.finished = TRUE,
                                    !.errors = damaged[check.volume]]
       \/ /\ check.stop
          /\ \E found \in SUBSET damaged[check.volume] :
                 check' = [check EXCEPT !.busy = FALSE, !.finished = TRUE,
                                        !.errors = found, !.cancelled = TRUE]
    /\ walk' = [on |-> walk.on - 1, closing |-> walk.closing + 1]
    /\ UNCHANGED <<asked, disk, repair, mender, web, careJobs>>
checkTask_Row ==
    /\ walk.closing > 0
    /\ careJobs' = jobFinish(careJobs, "file_check", IF check.cancelled THEN "cancelled" ELSE "done")
    /\ walk' = [walk EXCEPT !.closing = @ - 1]
    /\ UNCHANGED <<asked, disk, check, repair, mender, web>>

checkCancelled == [check EXCEPT !.stop = check.busy \/ check.stop]

-----------------------------------------------------------------------------
handlePostFileCheck(v) ==
    /\ web = "idle" /\ asked < MaxChecks /\ asked' = asked + 1
    /\ checkStart(v)
    /\ web' = IF check'.busy THEN "checkRow" ELSE "idle"
    /\ UNCHANGED <<disk, repair, mender, careJobs>>
handlePostFileCheck_Row ==
    /\ web = "checkRow" /\ web' = "idle"
    /\ checkStart_Row
    /\ UNCHANGED <<asked, disk, check, walk, repair, mender>>
handlePostFileCheckCancel ==
    /\ web = "idle" /\ check.busy /\ check' = checkCancelled
    /\ UNCHANGED <<asked, disk, walk, repair, mender, web, careJobs>>

\* repairStart: a finished check of this volume with something to delete.  The
\* row is opened before the task is there to close it.
handlePostFileRepair(v) ==
    /\ web = "idle" /\ resolves(v) /\ ~repair.busy
    /\ ~check.busy /\ check.finished /\ check.volume = v /\ check.errors # {}
    /\ repair' = [busy |-> TRUE, volume |-> v, stop |-> FALSE]
    /\ web' = "repairRow"
    /\ UNCHANGED <<asked, disk, check, walk, mender, careJobs>>
repairStart_Row ==
    /\ web = "repairRow"
    /\ careJobs' = jobBegin(careJobs, "file_repair", FALSE)
    /\ web' = "repairTask"
    /\ UNCHANGED <<asked, disk, check, walk, repair, mender>>
\* As if: a task that cannot be created leaves its row in the list.
repairStart_Task_RowStays ==
    /\ web = "repairTask" /\ web' = "idle"
    /\ \/ mender' = [NoMender EXCEPT !.pc = "start", !.closing = mender.closing] /\ UNCHANGED repair
       \/ repair' = [repair EXCEPT !.busy = FALSE] /\ UNCHANGED mender
    /\ UNCHANGED <<asked, disk, check, walk, careJobs>>
repairStart_Task ==
    /\ web = "repairTask" /\ web' = "idle"
    /\ \/ /\ mender' = [NoMender EXCEPT !.pc = "start", !.closing = mender.closing]
          /\ UNCHANGED <<repair, careJobs>>
       \/ /\ repair' = [repair EXCEPT !.busy = FALSE]       \* no task
          /\ careJobs' = jobFinish(careJobs, "file_repair", "failed")
          /\ UNCHANGED mender
    /\ UNCHANGED <<asked, disk, check, walk>>

\* repairCancel, from the Files page or the scheduler page: three switches.
repairCancel ==
    /\ web = "idle" /\ repair.busy /\ ~repair.stop
    /\ repair' = [repair EXCEPT !.stop = TRUE]
    /\ careJobs' = jobRequestCancel(careJobs, "file_repair")
    /\ check' = checkCancelled
    /\ UNCHANGED <<asked, disk, walk, mender, web>>

repairStopRequested == repair.stop \/ jobCancelRequested(careJobs, "file_repair")

-----------------------------------------------------------------------------
\* repairRun reads the report again; without its volume it fails.
repairRun_Start ==
    /\ mender.pc = "start"
    /\ mender' = IF resolves(repair.volume)
                 THEN [mender EXCEPT !.pc = "round", !.paths = check.errors, !.round = 1]
                 ELSE [mender EXCEPT !.pc = "publish", !.result = "failed"]
    /\ UNCHANGED <<asked, disk, check, walk, repair, web, careJobs>>

repairRun_Round ==
    /\ mender.pc = "round"
    /\ mender' =
         IF repairStopRequested
         THEN [mender EXCEPT !.pc = "publish", !.result = "cancelled"]
         ELSE IF mender.paths = {} THEN [mender EXCEPT !.pc = "publish"]
         ELSE [mender EXCEPT !.pc = "delete", !.todo = mender.paths, !.deleted = FALSE]
    /\ UNCHANGED <<asked, disk, check, walk, repair, web, careJobs>>

\* One entry of the list: removeTree under the mount of the repaired volume.
repairRun_Delete ==
    /\ mender.pc = "delete" /\ mender.todo # {} /\ ~repairStopRequested
    /\ \E n \in mender.todo, refused \in BOOLEAN :
          LET removed == ~refused /\ repair.volume \in mounted IN
          /\ mender' = [mender EXCEPT !.todo = @ \ {n}, !.deleted = @ \/ removed]
          /\ names' = [names EXCEPT ![repair.volume] = IF removed THEN @ \ {n} ELSE @]
          /\ damaged' = [damaged EXCEPT ![repair.volume] = IF removed THEN @ \ {n} ELSE @]
    /\ careJobs' = jobProgress(careJobs, "file_repair")
    /\ UNCHANGED <<asked, mounted, erasing, check, walk, repair, web>>
repairRun_Deleted ==
    /\ mender.pc = "delete" /\ (mender.todo = {} \/ repairStopRequested)
    /\ mender' = IF mender.todo # {}
                 THEN [mender EXCEPT !.pc = "publish", !.result = "cancelled"]
                 ELSE [mender EXCEPT !.pc = IF mender.deleted THEN "walk" ELSE "publish"]
    /\ UNCHANGED <<asked, disk, check, walk, repair, web, careJobs>>

\* The next walk is started like the operator's; a walk already running, or a
\* volume that is gone, ends the repair.
repairRun_Walk ==
    /\ mender.pc = "walk"
    /\ checkStart(repair.volume)
    /\ mender' = [mender EXCEPT !.pc = IF check'.busy THEN "row" ELSE "publish",
                                !.result = IF check'.busy THEN @ ELSE "failed"]
    /\ UNCHANGED <<asked, disk, repair, web, careJobs>>
repairRun_NoWalk ==
    /\ mender.pc = "walk" /\ (check.busy \/ ~resolves(repair.volume))
    /\ mender' = [mender EXCEPT !.pc = "publish", !.result = "failed"]
    /\ UNCHANGED <<asked, disk, check, walk, repair, web, careJobs>>
repairRun_Row ==
    /\ mender.pc = "row"
    /\ checkStart_Row
    /\ mender' = [mender EXCEPT !.pc = "wait"]
    /\ UNCHANGED <<asked, disk, check, walk, repair, web>>

\* Every 100 ms: a stop, or a report that is not busy, whichever walk it is of.
walkOver == ~check.busy
repairRun_Wait ==
    /\ mender.pc = "wait"
    /\ \/ /\ repairStopRequested
          /\ check' = checkCancelled
          /\ mender' = [mender EXCEPT !.pc = "publish", !.result = "cancelled"]
       \/ /\ ~repairStopRequested /\ walkOver
          /\ LET last == check.errors \in {{}, mender.paths} \/ mender.round = MaxRounds
             IN mender' =
                  IF check.cancelled
                  THEN [mender EXCEPT !.pc = "publish", !.result = "cancelled"]
                  ELSE IF last THEN [mender EXCEPT !.pc = "publish"]
                  ELSE [mender EXCEPT !.pc = "round", !.paths = check.errors, !.round = @ + 1]
          /\ UNCHANGED check
    /\ UNCHANGED <<asked, disk, walk, repair, web, careJobs>>

\* The report first, then the row: a repair started in between may lose its.
repairRun_Publish ==
    /\ mender.pc = "publish" /\ mender.closing < MaxClosing
    /\ repair' = [repair EXCEPT !.busy = FALSE]
    /\ mender' = [NoMender EXCEPT !.closing = mender.closing + 1]
    /\ UNCHANGED <<asked, disk, check, walk, web, careJobs>>
repairRun_Finish ==
    /\ mender.closing > 0
    /\ careJobs' = jobFinish(careJobs, "file_repair", "done")
    /\ mender' = [mender EXCEPT !.closing = @ - 1]
    /\ UNCHANGED <<asked, disk, check, walk, repair, web>>

-----------------------------------------------------------------------------
\* FileManager::format looks at the three flags and then raises its own.
format_Begin(v) ==
    /\ erasing = NoVolume /\ ~check.busy /\ ~repair.busy
    /\ erasing' = v
    /\ UNCHANGED <<asked, mounted, names, damaged, check, walk, repair, mender, web, careJobs>>
format_End ==
    /\ erasing # NoVolume /\ erasing' = NoVolume
    /\ \/ /\ names' = [names EXCEPT ![erasing] = {}]
          /\ damaged' = [damaged EXCEPT ![erasing] = {}]
          /\ mounted' = mounted \cup {erasing}
       \/ mounted' = mounted \ {erasing} /\ UNCHANGED <<names, damaged>>
    /\ UNCHANGED <<asked, check, walk, repair, mender, web, careJobs>>

\* refresh(): a card that left is unmounted, one that came back is mounted.
refresh(v) ==
    /\ erasing = NoVolume /\ v \in Card
    /\ mounted' = IF v \in mounted THEN mounted \ {v} ELSE mounted \cup {v}
    /\ UNCHANGED <<asked, names, damaged, erasing, check, walk, repair, mender, web, careJobs>>

checkTask == checkTask_Walk \/ checkTask_Row
repairTask ==
    \/ repairRun_Start \/ repairRun_Round \/ repairRun_Delete \/ repairRun_Deleted
    \/ repairRun_Walk \/ repairRun_NoWalk \/ repairRun_Row \/ repairRun_Wait
    \/ repairRun_Publish
webHandler ==
    \/ handlePostFileCheck_Row \/ repairStart_Row \/ repairStart_Task

CareNext ==
    \/ checkTask \/ repairTask \/ repairRun_Finish \/ webHandler
    \/ \E v \in Volume : \/ handlePostFileCheck(v) \/ handlePostFileRepair(v)
                         \/ format_Begin(v) \/ refresh(v)
    \/ handlePostFileCheckCancel \/ repairCancel \/ format_End

-----------------------------------------------------------------------------
\* The row of a repair stands for a repair: it is never left behind by a task
\* that ended before the handler had opened it.
RepairRowTrue ==
    jobContains(careJobs, "file_repair") =>
        repair.busy \/ mender.closing > 0

\* Every walk publishes into the report of its own start: no second walk runs
\* while one does, whether the operator or a repair asks for it.
OneWalk == walk.on = IF check.busy THEN 1 ELSE 0

\* Nobody else can repair a volume now.
CareBusy == repair.busy

\* repairRun says that its paths "come from our own walk of this very volume":
\* a repair only deletes what a walk of its volume reported, so no name that
\* can be read leaves a volume while it runs.
RepairDeletesDamage ==
    [][\A v \in Volume : names[v] \ names'[v] \subseteq damaged[v] \/ erasing = v]_careVars
===========================================================================
