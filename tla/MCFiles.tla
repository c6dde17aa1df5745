------------------------------ MODULE MCFiles ------------------------------
(***************************************************************************)
(* The file subsystem for TLC: uploads, transfers, check and repair, the   *)
(* format of a volume and the mounting of the card.  They share no state   *)
(* beyond the job table, whose rows have different names, so each is       *)
(* explored by itself: `at` says which one a behaviour is about.           *)
(***************************************************************************)
EXTENDS Uploads, Transfer, VolumeCare, CardFormat, CardMount

VARIABLE at

\* The card has one unreadable name, the internal volume has two.
SomeDamage == [v \in Volume |-> IF v \in Card THEN {"a"} ELSE Name]

vars == <<at, uploadVars, transferVars, careVars, formatVars, cardVars>>

Init ==
    /\ at \in {"uploads", "transfer", "care", "format", "card"}
    /\ UploadsInit /\ TransferInit /\ CareInit /\ FormatInit /\ CardInit
    /\ at # "uploads" => published = [p \in Path |-> Absent]
    /\ at # "transfer" => taken = {}
    /\ at # "card" => sd = "out" /\ board = [powers |-> "configured", switch |-> TRUE, flaky |-> FALSE]
    /\ at # "care" => check = NoReport

UploadsStep(A) == at = "uploads" /\ A /\ UNCHANGED <<at, transferVars, careVars, formatVars, cardVars>>
TransferStep(A) == at = "transfer" /\ A /\ UNCHANGED <<at, uploadVars, careVars, formatVars, cardVars>>
CareStep(A) == at = "care" /\ A /\ UNCHANGED <<at, uploadVars, transferVars, formatVars, cardVars>>
FormatStep(A) == at = "format" /\ A /\ UNCHANGED <<at, uploadVars, transferVars, careVars, cardVars>>
CardStep(A) == at = "card" /\ A /\ UNCHANGED <<at, uploadVars, transferVars, careVars, formatVars>>

Next ==
    \/ UploadsStep(UploadsNext) \/ TransferStep(TransferNext)
    \/ CareStep(CareNext) \/ FormatStep(FormatNext) \/ CardStep(CardNext)

\* A FreeRTOS task that can go on does: the priorities of these tasks starve
\* none of them for ever, and every driver call returns.  A page asks for the
\* volumes as long as it is open.
Fairness ==
    /\ \A r \in Request : WF_vars(UploadsStep(uploadTask(r)))
    /\ WF_vars(TransferStep(transferTask))
    /\ WF_vars(CareStep(checkTask)) /\ WF_vars(CareStep(repairTask))
    /\ WF_vars(CareStep(webHandler)) /\ WF_vars(CareStep(repairRun_Finish))
    /\ \A f \in Formatter : WF_vars(FormatStep(formatTask(f)))
    /\ WF_vars(CardStep(passStep)) /\ WF_vars(CardStep(formatStep))

Spec == Init /\ [][Next]_vars /\ Fairness

-----------------------------------------------------------------------------
\* No upload, pause, cancel, transfer or failure costs the data of a file: what
\* is published is whole, and what is moved is at its source or its destination.
ContentsSafe ==
    UploadsTypeOK /\ PublishedWhole /\ PausedIsIdle /\ TransferTypeOK /\ NothingLost

\* The device knows what it does with a volume: a repair's row stands for a
\* repair, a check's report for one walk, and a mounted card for a driver.
VolumesSafe ==
    CareTypeOK /\ RepairRowTrue /\ OneWalk /\ FormatTypeOK /\ CardTypeOK /\ DriverFollows

\* Files and cards are overwritten as the operator agreed: no file that was to be
\* skipped, and a format leaves a file system.
WipedAsAgreed == [][OverwriteAgreed /\ FormatRescues]_vars

Busy == UploadsBusy \/ TransferBusy \/ CareBusy \/ FormatBusy \/ CardWaits

\* Every operation ends and frees what it held: an upload its place in the
\* budget although its client left without a word, a transfer and a repair
\* their one place whatever became of the walks they waited for, and a format
\* its row, which would refuse every later format, whatever was stopped and
\* retried before it.  A card that can be mounted does not wait for ever either:
\* the passes find the level that powers its slot.
EverythingEnds == Busy ~> ~Busy
============================================================================
