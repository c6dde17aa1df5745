----------------------------- MODULE Transfer -----------------------------
(***************************************************************************)
(* Copying and moving entries inside a volume and between volumes: the one *)
(* background transfer of FileManager and TransferEngine::run.  An entry   *)
(* is a file or a tree of files; a read, a write, a rename or a removal    *)
(* may fail, and the operator may stop the transfer between two windows.   *)
(* Nobody else writes the entries of the transfer while it runs.           *)
(***************************************************************************)
EXTENDS Integers, FiniteSets

CONSTANTS Entry, Tree, File   \* Tree: the entries that are directories

ASSUME TransferAssumption == Tree \subseteq Entry /\ File # {} /\ IsFiniteSet(File)

VARIABLES
    source,   \* entry -> its files on the source volume
    target,   \* entry -> file -> "none", "old" or "new" on the destination
    taken,    \* the entries whose name exists at the destination
    transfer, \* the request and the report of the transfer
    run       \* what TransferEngine::run keeps, its pc included

transferVars == <<source, target, taken, transfer, run>>

FilesOf(e) == IF e \in Tree THEN File ELSE {CHOOSE f \in File : TRUE}
NoFiles == [f \in File |-> "none"]
NoRun == [pc |-> "idle", todo |-> {}, entry |-> {}, files |-> {}, current |-> {}, ok |-> TRUE]

TransferTypeOK ==
    /\ source \in [Entry -> SUBSET File] /\ taken \subseteq Entry
    /\ target \in [Entry -> [File -> {"none", "old", "new"}]]
    /\ transfer \in [op : {"copy", "move"}, conflict : {"ask", "overwrite", "skip"},
                     same : BOOLEAN, cancel : BOOLEAN, stopped : BOOLEAN]
    /\ run \in [pc : {"idle", "begin", "instant", "removed", "measure", "entries", "copy",
                      "commit", "delete"},
                todo : SUBSET Entry, entry : SUBSET Entry, files : SUBSET File,
                current : SUBSET File, ok : BOOLEAN]

TransferInit ==
    /\ source = [e \in Entry |-> FilesOf(e)]
    /\ taken \in SUBSET Entry
    /\ target \in [Entry -> [File -> {"none", "old"}]]
    /\ \A e \in Entry, f \in File :
          target[e][f] = "old" <=> e \in taken /\ f \in FilesOf(e)
    /\ transfer = [op |-> "copy", conflict |-> "ask", same |-> FALSE, cancel |-> FALSE,
                   stopped |-> FALSE]
    /\ run = NoRun

-----------------------------------------------------------------------------
\* handlePostFileTransfer: names that are taken are asked about first; then
\* transferStart claims the one place.
transferStart(op, conflict, same, entries) ==
    /\ run.pc = "idle" /\ entries # {}
    /\ \A e \in entries : source[e] # {}
    /\ conflict = "ask" => entries \cap taken = {}
    /\ transfer' = [op |-> op, conflict |-> conflict, same |-> same, cancel |-> FALSE,
                    stopped |-> FALSE]
    /\ run' = [NoRun EXCEPT !.pc = "begin", !.todo = entries]
    /\ UNCHANGED <<source, target, taken>>
transferCancel ==
    /\ run.pc # "idle" /\ ~transfer.cancel
    /\ transfer' = [transfer EXCEPT !.cancel = TRUE]
    /\ UNCHANGED <<source, target, taken, run>>

\* run: validate, then either renames or the measuring pass.
run_Begin ==
    /\ run.pc = "begin"
    /\ run' = [run EXCEPT !.pc =
                  IF transfer.op = "move" /\ transfer.same THEN "instant" ELSE "measure"]
    /\ UNCHANGED <<source, target, taken, transfer>>

\* Every way out of run(): finishReport.
finishReport ==
    /\ \/ run.pc \in {"begin", "measure"}                      \* invalid, or no space
       \/ run.pc \in {"instant", "entries"} /\ run.todo = {}
       \/ run.pc = "instant" /\ transfer.cancel
       \/ run.pc = "entries" /\ transfer.stopped
    /\ run' = NoRun
    /\ UNCHANGED <<source, target, taken, transfer>>

\* The entry is passed over: skipped, failed, or refused.
passOver(e) ==
    /\ run' = [run EXCEPT !.todo = @ \ {e}, !.pc = IF @ = "removed" THEN "instant" ELSE @,
                          !.entry = {}]
    /\ UNCHANGED <<source, target, taken, transfer>>

\* runInstant: a taken directory fails, a taken file is removed first.
runInstant_Remove(e) ==
    /\ run.pc = "instant" /\ e \in run.todo /\ ~transfer.cancel
    /\ \/ e \in taken /\ (e \in Tree \/ transfer.conflict = "skip") /\ passOver(e)
       \/ e \in taken /\ e \notin Tree /\ transfer.conflict # "skip" /\ passOver(e) \* unlink failed
       \/ /\ e \in taken => e \notin Tree /\ transfer.conflict # "skip"
          /\ taken' = taken \ {e}
          /\ target' = [target EXCEPT ![e] = NoFiles]
          /\ run' = [run EXCEPT !.pc = "removed", !.entry = {e}]
          /\ UNCHANGED <<source, transfer>>
runInstant_Rename(e) ==
    /\ run.pc = "removed" /\ run.entry = {e}
    /\ \/ passOver(e)                                          \* the rename failed
       \/ /\ source' = [source EXCEPT ![e] = {}]
          /\ target' = [target EXCEPT ![e] =
                           [f \in File |-> IF f \in source[e] THEN "new" ELSE "none"]]
          /\ taken' = taken \cup {e}
          /\ run' = [run EXCEPT !.pc = "instant", !.todo = @ \ {e}, !.entry = {}]
          /\ UNCHANGED transfer

run_Measured ==
    /\ run.pc = "measure"
    /\ run' = [run EXCEPT !.pc = "entries"]
    /\ UNCHANGED <<source, target, taken, transfer>>

\* As if: a taken name is copied over whatever the operator answered.
run_Entry_OverSkipped(e) ==
    /\ run.pc = "entries" /\ e \in run.todo /\ ~transfer.stopped
    /\ taken' = IF e \in Tree THEN taken \cup {e} ELSE taken
    /\ run' = [run EXCEPT !.pc = "copy", !.entry = {e}, !.files = source[e], !.ok = TRUE]
    /\ UNCHANGED <<source, target, transfer>>

\* The next entry: skipped, refused, or its directory made and its files listed.
run_Entry(e) ==
    /\ run.pc = "entries" /\ e \in run.todo /\ ~transfer.stopped
    /\ \/ passOver(e)
       \/ /\ e \in taken => transfer.conflict # "skip"
          /\ taken' = IF e \in Tree THEN taken \cup {e} ELSE taken
          /\ run' = [run EXCEPT !.pc = "copy", !.entry = {e}, !.files = source[e], !.ok = TRUE]
          /\ UNCHANGED <<source, target, transfer>>
\* copyFile into `.part`: it fails or is stopped, and the visit of the tree goes
\* on to its next file; or the copy is whole and is to be published.
copyFile(e, f) ==
    /\ run.pc = "copy" /\ run.entry = {e} /\ f \in run.files
    /\ \/ /\ run' = [run EXCEPT !.files = @ \ {f}, !.ok = FALSE]
          /\ transfer' = [transfer EXCEPT !.stopped = @ \/ transfer.cancel]
          /\ UNCHANGED <<source, target, taken>>
       \/ /\ target' = [target EXCEPT ![e][f] = "none"]        \* commit removes the old file
          /\ run' = [run EXCEPT !.pc = "commit", !.files = @ \ {f}, !.current = {f}]
          /\ UNCHANGED <<source, taken, transfer>>
copyFile_Commit(e, f) ==
    /\ run.pc = "commit" /\ run.entry = {e} /\ run.current = {f}
    /\ \/ /\ target' = [target EXCEPT ![e][f] = "new"]
          /\ taken' = taken \cup {e}
          /\ run' = [run EXCEPT !.pc = "copy", !.current = {}]
       \/ /\ run' = [run EXCEPT !.pc = "copy", !.current = {}, !.ok = FALSE]
          /\ taken' = IF e \in Tree THEN taken ELSE taken \ {e}
          /\ UNCHANGED target
    /\ UNCHANGED <<source, transfer>>

\* As if: a move deletes the source of an incomplete copy.
mayDelete_AnyCopy == transfer.op = "move"

\* copyEntry is over: a move deletes the source of a complete copy only.
mayDelete == transfer.op = "move" /\ run.ok
copyEntry_End(e) ==
    /\ run.pc = "copy" /\ run.entry = {e} /\ run.files = {}
    /\ run' = [run EXCEPT !.pc = IF mayDelete /\ ~transfer.stopped THEN "delete" ELSE "entries",
                          !.todo = @ \ {e}, !.entry = IF mayDelete /\ ~transfer.stopped THEN @ ELSE {}]
    /\ UNCHANGED <<source, target, taken, transfer>>

\* The removal of the source, whole or stopped by an error halfway.
run_Delete(e) ==
    /\ run.pc = "delete" /\ run.entry = {e}
    /\ \E left \in SUBSET source[e] : source' = [source EXCEPT ![e] = left]
    /\ run' = [run EXCEPT !.pc = "entries", !.entry = {}]
    /\ UNCHANGED <<target, taken, transfer>>

transferTask ==
    \/ run_Begin \/ finishReport \/ run_Measured
    \/ \E e \in Entry : \/ runInstant_Remove(e) \/ runInstant_Rename(e) \/ run_Entry(e)
                        \/ copyEntry_End(e) \/ run_Delete(e)
                        \/ \E f \in File : copyFile(e, f) \/ copyFile_Commit(e, f)

TransferNext ==
    \/ \E op \in {"copy", "move"}, conflict \in {"ask", "overwrite", "skip"},
          same \in BOOLEAN, entries \in SUBSET Entry : transferStart(op, conflict, same, entries)
    \/ transferCancel \/ transferTask

-----------------------------------------------------------------------------
\* Whatever fails and whenever the operator stops it, the data of every file is
\* at its source or, whole, at its destination.
NothingLost ==
    \A e \in Entry : \A f \in FilesOf(e) : f \in source[e] \/ target[e][f] = "new"

\* A file at the destination goes only when the operator agreed to it: an
\* answer "skip", or a question that found no taken name, overwrites nothing.
OverwriteAgreed ==
    \A e \in Entry, f \in File :
        target[e][f] = "old" /\ target'[e][f] # "old" => transfer.conflict = "overwrite"

\* The one place is taken.
TransferBusy == run.pc # "idle"
===========================================================================
