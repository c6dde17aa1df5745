------------------------------ MODULE Updates -------------------------------
(***************************************************************************)
(* Updating the device from the browser: the firmware upload, the files of  *)
(* the web interface, their pruning, and the restart (RestApi).  The two    *)
(* ports of the interface serve their requests independently of each other. *)
(*                                                                          *)
(* The flash has two application partitions; what is in one is an old or a  *)
(* new image, or a part of one.  The web tree holds for each path nothing,  *)
(* a part of the file, or the file.  External: esp_ota_* and the boot       *)
(* loader, which falls back to the other partition when the chosen one does *)
(* not hold an image.                                                       *)
(***************************************************************************)
EXTENDS Naturals, FiniteSets

CONSTANTS
    Entrance,   \* the tasks of the web server
    Path,       \* the names in the web tree
    Folder      \* the ones in the operator's folder

ASSUME UpdatesAssumption == Folder \subseteq Path /\ Folder # {} /\ Entrance # {}

Partition == {"ota_0", "ota_1"}
Image == {"old", "part", "new"}
Content == {"none", "stale", "part", "file"}

VARIABLES
    flash,      \* what each partition holds
    boot,       \* the one the boot loader is pointed at
    running,    \* the one that runs
    upload,     \* the step of the request at each entrance
    tree,       \* the web tree
    sent,       \* the files whose upload was answered "ok" since the last restart
    promised,   \* an update was answered with "Update successful"
    crossed     \* two firmware uploads were under way at once

updateVars == <<flash, boot, running, upload, tree, sent, promised, crossed>>

NoUpload == [step |-> "idle", what |-> "none", list |-> {}]
OtaSteps == {"stream", "end", "point", "answered"}

UpdatesTypeOK ==
    /\ flash \in [Partition -> Image] /\ boot \in Partition /\ running \in Partition
    /\ tree \in [Path -> Content] /\ sent \subseteq Path
    /\ promised \in BOOLEAN /\ crossed \in BOOLEAN
    /\ \A e \in Entrance :
          /\ upload[e].step \in OtaSteps \cup {"idle", "write", "prune", "pruned"}
          /\ upload[e].what \in Path \cup {"none", "ota", "failed"} /\ upload[e].list \subseteq Path

UpdatesInit ==
    /\ flash = [p \in Partition |-> "old"] /\ boot = "ota_0" /\ running = "ota_0"
    /\ upload = [e \in Entrance |-> NoUpload]
    /\ tree \in [Path -> {"none", "stale"}] /\ sent = {} /\ promised = FALSE /\ crossed = FALSE

-----------------------------------------------------------------------------
goesTo(e, step) == upload' = [upload EXCEPT ![e].step = step]
leaves(e) == upload' = [upload EXCEPT ![e] = NoUpload]
updating(e) == upload[e].step \in OtaSteps

\* As if: the update went where the device runs from.
nextUpdatePartition_Own == running
nextUpdatePartition == CHOOSE p \in Partition : p # running

\* handlePostOtaUpload: the body's layout, the partition, esp_ota_begin, which erases it.
handlePostOtaUpload(e) ==
    /\ upload[e].step = "idle"
    /\ upload' = [upload EXCEPT ![e] = [step |-> "stream", what |-> "ota", list |-> {}]]
    /\ flash' = [flash EXCEPT ![nextUpdatePartition] = "part"]
    /\ crossed' = (crossed \/ \E f \in Entrance \ {e} : updating(f))
    /\ UNCHANGED <<boot, running, tree, sent, promised>>
\* The body, firmware or not, is streamed to its end; or it breaks off or cannot be written: then
\* the session is aborted and the request answered with an error.
ota_Stream(e) ==
    /\ upload[e].step = "stream"
    /\ \/ goesTo(e, "end") /\ \E i \in {"new", "part"} : flash' = [flash EXCEPT ![nextUpdatePartition] = i]
       \/ leaves(e) /\ UNCHANGED flash
    /\ UNCHANGED <<boot, running, tree, sent, promised, crossed>>
\* esp_ota_end looks at the image; what is not one ends the request.
ota_End(e) ==
    /\ upload[e].step = "end"
    /\ IF flash[nextUpdatePartition] = "new" THEN goesTo(e, "point") ELSE leaves(e)
    /\ UNCHANGED <<flash, boot, running, tree, sent, promised, crossed>>
\* esp_ota_set_boot_partition, then the answer.
ota_Point(e) ==
    /\ upload[e].step = "point"
    /\ \/ /\ boot' = nextUpdatePartition /\ promised' = TRUE /\ goesTo(e, "answered")
       \/ leaves(e) /\ UNCHANGED <<boot, promised>>
    /\ UNCHANGED <<flash, running, tree, sent, crossed>>

\* What the boot loader takes: the chosen partition if it holds an image.
bootable == IF flash[boot] # "part" THEN boot ELSE CHOOSE p \in Partition : p # boot
\* A restart: after an update (once the files are saved), by the operator, or by itself.
deviceRestarts ==
    /\ running' = bootable /\ upload' = [e \in Entrance |-> NoUpload]
    /\ sent' = {} /\ promised' = FALSE /\ crossed' = FALSE
    /\ UNCHANGED <<flash, boot, tree>>
ota_Restart(e) == upload[e].step = "answered" /\ deviceRestarts
handlePostDeviceReboot(e) == upload[e].step = "idle" /\ deviceRestarts

-----------------------------------------------------------------------------
\* handlePostWebFile: the old file is emptied before the new one has come.
handlePostWebFile(e, p) ==
    /\ upload[e].step = "idle"
    /\ upload' = [upload EXCEPT ![e] = [step |-> "write", what |-> p, list |-> {}]]
    /\ tree' = [tree EXCEPT ![p] = "part"] /\ sent' = sent \ {p}
    /\ UNCHANGED <<flash, boot, running, promised, crossed>>
\* The whole body is written and the file closed, or the upload failed.
webFile_End(e) ==
    /\ upload[e].step = "write" /\ leaves(e)
    /\ \/ tree' = [tree EXCEPT ![upload[e].what] = "file"] /\ sent' = sent \cup {upload[e].what}
       \/ UNCHANGED <<tree, sent>>
    /\ UNCHANGED <<flash, boot, running, promised, crossed>>

\* WebPrune::extra: what is on the volume and not in the folder.
extra == {p \in Path \ Folder : tree[p] # "none"}
\* handlePostWebSync: the volume is listed; a dry run ends here.
handlePostWebSync(e) ==
    /\ upload[e].step = "idle"
    /\ upload' = [upload EXCEPT ![e] = [step |-> "prune", what |-> "none", list |-> extra]]
    /\ UNCHANGED <<flash, boot, running, tree, sent, promised, crossed>>
\* A file is removed, or named in the answer as one that could not be.
webSync_Remove(e) ==
    /\ upload[e].step = "prune"
    /\ \E p \in upload[e].list :
          \/ upload' = [upload EXCEPT ![e].list = @ \ {p}] /\ tree' = [tree EXCEPT ![p] = "none"]
          \/ upload' = [upload EXCEPT ![e].list = @ \ {p}, ![e].what = "failed"]
             /\ UNCHANGED tree
    /\ UNCHANGED <<flash, boot, running, sent, promised, crossed>>
webSync_End(e) ==
    /\ upload[e].step = "prune" /\ upload[e].list = {}
    /\ IF upload[e].what = "failed" THEN leaves(e) ELSE goesTo(e, "pruned")
    /\ UNCHANGED <<flash, boot, running, tree, sent, promised, crossed>>
\* The page reads an answer without failures.
webSync_Answered(e) ==
    /\ upload[e].step = "pruned" /\ leaves(e)
    /\ UNCHANGED <<flash, boot, running, tree, sent, promised, crossed>>

UpdatesWork(e) ==
    \/ ota_Stream(e) \/ ota_End(e) \/ ota_Point(e) \/ ota_Restart(e) \/ webFile_End(e)
    \/ webSync_Remove(e) \/ webSync_End(e) \/ webSync_Answered(e)
UpdatesNext ==
    \E e \in Entrance :
        \/ UpdatesWork(e) \/ handlePostOtaUpload(e) \/ handlePostDeviceReboot(e)
        \/ handlePostWebSync(e) \/ \E p \in Folder : handlePostWebFile(e, p)

(* Whatever is uploaded, breaks off, or crosses another upload, the device  *)
(* can start again: one partition holds an image and it is found.           *)
DeviceStarts == flash[bootable] # "part"

(* An update that was answered with "Update successful. Rebooting..." is    *)
(* what the next start runs, unless a second upload crossed it: that one    *)
(* goes to the same partition and erases what was promised.                 *)
PromisedIsBooted == promised /\ ~crossed => flash[bootable] = "new"

(* When the prune is answered without a failure and every file of the       *)
(* folder was answered "ok", the web tree is the folder: nothing else is    *)
(* left, nothing of the folder was removed, and no file is a part of one.   *)
TreeIsFolder ==
    \A e \in Entrance :
        upload[e].step = "pruned" /\ Folder \subseteq sent
            => \A p \in Path : tree[p] = IF p \in Folder THEN "file" ELSE "none"

(* An update leaves a device that starts, with the program and the pages it *)
(* was answered with.                                                       *)
UpdatesSafe == UpdatesTypeOK /\ DeviceStarts /\ PromisedIsBooted /\ TreeIsFolder
=============================================================================
