---------------------------- MODULE FilesProofs -----------------------------
(***************************************************************************)
(* Proofs about the file subsystem: uploads, transfers, check and repair,   *)
(* formats and the memory card, for every set of paths, requests, entries,  *)
(* volumes and names and every bound.  A behaviour of MCFiles is about one  *)
(* of them and leaves the others alone, so each has an inductive invariant  *)
(* over its own variables.                                                  *)
(***************************************************************************)
EXTENDS MCFiles, WellFoundedInduction, TLAPS

\* A step of the composition is a step of a component, or leaves it alone.
LEMMA OneAtATime ==
    [Next]_vars => /\ [UploadsNext]_uploadVars /\ [TransferNext]_transferVars /\ [CareNext]_careVars
                   /\ [FormatNext]_formatVars /\ [CardNext]_cardVars
<1> SUFFICES ASSUME [Next]_vars
             PROVE  /\ [UploadsNext]_uploadVars /\ [TransferNext]_transferVars /\ [CareNext]_careVars
                    /\ [FormatNext]_formatVars /\ [CardNext]_cardVars
    OBVIOUS
<1>1. CASE UploadsStep(UploadsNext) BY <1>1 DEF UploadsStep
<1>2. CASE TransferStep(TransferNext) BY <1>2 DEF TransferStep
<1>3. CASE CareStep(CareNext) BY <1>3 DEF CareStep
<1>4. CASE FormatStep(FormatNext) BY <1>4 DEF FormatStep
<1>5. CASE CardStep(CardNext) BY <1>5 DEF CardStep
<1>6. CASE UNCHANGED vars BY <1>6 DEF vars
<1> QED BY <1>1, <1>2, <1>3, <1>4, <1>5, <1>6 DEF Next

-----------------------------------------------------------------------------
(* The job table.  No operation has two rows, and the rows of these parts   *)
(* are one-off: what is finished is gone.                                   *)
Table(table, Id) ==
    /\ table \in Seq(JobRow(Id)) /\ Len(table) <= MaxJobs
    /\ \A i, j \in DOMAIN table : table[i].id = table[j].id => i = j
    /\ \A i \in DOMAIN table : ~table[i].repeats

LEMMA EmptyTable == ASSUME NEW Id PROVE Table(<<>>, Id)
BY MaxJobsAssumption DEF Table

\* A row that is freed leaves the others in their order.
LEMMA RowFreed ==
    ASSUME NEW Id, NEW table, Table(table, Id), NEW place \in DOMAIN table
    PROVE  /\ Table(jobFreed(table, place), Id)
           /\ Len(jobFreed(table, place)) = Len(table) - 1
           /\ \A i \in DOMAIN jobFreed(table, place) :
                 \E j \in DOMAIN table : j # place /\ jobFreed(table, place)[i] = table[j]
<1> DEFINE new == jobFreed(table, place)
<1>1. table \in Seq(JobRow(Id)) /\ Len(table) \in Nat /\ DOMAIN table = 1 .. Len(table) BY DEF Table
<1>2. place \in 1 .. Len(table) /\ Len(table) - 1 \in Nat BY <1>1
<1>3. /\ new = [i \in 1 .. Len(table) - 1 |-> IF i < place THEN table[i] ELSE table[i + 1]]
    BY DEF jobFreed
<1>4. \A i \in 1 .. Len(table) - 1 : table[i] \in JobRow(Id) /\ table[i + 1] \in JobRow(Id) BY <1>1, <1>2
<1>5. new \in Seq(JobRow(Id)) /\ Len(new) = Len(table) - 1 /\ DOMAIN new = 1 .. Len(table) - 1
    BY <1>2, <1>3, <1>4
<1>6. \A i \in DOMAIN new : new[i] = table[IF i < place THEN i ELSE i + 1] BY <1>3, <1>5
<1>7. \A i \in DOMAIN new : /\ (IF i < place THEN i ELSE i + 1) \in DOMAIN table
                            /\ (IF i < place THEN i ELSE i + 1) # place
    BY <1>1, <1>2, <1>5
<1>8. \A i, j \in DOMAIN new : (IF i < place THEN i ELSE i + 1) = (IF j < place THEN j ELSE j + 1) => i = j
    BY <1>2, <1>5
<1> HIDE DEF new
<1>9. Table(new, Id)
  <2>1. \A i, j \in DOMAIN new : new[i].id = new[j].id => i = j BY <1>6, <1>7, <1>8 DEF Table
  <2>2. \A i \in DOMAIN new : ~new[i].repeats BY <1>6, <1>7 DEF Table
  <2>3. Len(new) <= MaxJobs BY <1>1, <1>5, MaxJobsAssumption DEF Table
  <2> QED BY <1>5, <2>1, <2>2, <2>3 DEF Table
<1>10. \A i \in DOMAIN new : \E j \in DOMAIN table : j # place /\ new[i] = table[j] BY <1>6, <1>7
<1> QED BY <1>5, <1>9, <1>10 DEF new

LEMMA RowFound ==
    ASSUME NEW table, NEW id, jobContains(table, id)
    PROVE  jobPlace(table, id) \in DOMAIN table /\ table[jobPlace(table, id)].id = id
BY DEF jobContains, jobPlace

LEMMA WithoutRow ==
    ASSUME NEW Id, NEW table, Table(table, Id), NEW id
    PROVE  /\ Table(jobWithout(table, id), Id) /\ ~jobContains(jobWithout(table, id), id)
           /\ \A x : jobContains(jobWithout(table, id), x) => jobContains(table, x)
           /\ jobContains(table, id) => Len(jobWithout(table, id)) = Len(table) - 1
<1>1. CASE ~jobContains(table, id) BY <1>1 DEF jobWithout
<1>2. CASE jobContains(table, id)
  <2> DEFINE place == jobPlace(table, id)
  <2>1. place \in DOMAIN table /\ table[place].id = id BY <1>2, RowFound
  <2>2. jobWithout(table, id) = jobFreed(table, place) BY <1>2 DEF jobWithout
  <2> HIDE DEF place
  <2> DEFINE new == jobFreed(table, place)
  <2>3. /\ Table(new, Id) /\ Len(new) = Len(table) - 1
        /\ \A i \in DOMAIN new : \E j \in DOMAIN table : j # place /\ new[i] = table[j]
      BY <2>1, RowFreed
  <2> HIDE DEF new
  <2>4. ~jobContains(new, id) BY <2>1, <2>3 DEF jobContains, Table
  <2>5. \A x : jobContains(new, x) => jobContains(table, x) BY <2>3 DEF jobContains
  <2> QED BY <2>2, <2>3, <2>4, <2>5 DEF new
<1> QED BY <1>1, <1>2

LEMMA RowAdded ==
    ASSUME NEW Id, NEW id \in Id, NEW table, Table(table, Id), ~jobContains(table, id),
           Len(table) < MaxJobs, NEW row \in JobRow(Id), row.id = id, ~row.repeats
    PROVE  /\ Table(Append(table, row), Id)
           /\ \A x : jobContains(Append(table, row), x) => x = id \/ jobContains(table, x)
<1>1. row \in JobRow(Id) /\ row.id = id /\ ~row.repeats OBVIOUS
<1> DEFINE new == Append(table, row)
<1>2. table \in Seq(JobRow(Id)) /\ Len(table) \in Nat BY DEF Table
<1>3. /\ new \in Seq(JobRow(Id)) /\ Len(new) = Len(table) + 1 /\ DOMAIN new = 1 .. Len(table) + 1
      /\ new[Len(table) + 1] = row
      /\ \A i \in 1 .. Len(table) : new[i] = table[i]
    BY <1>1, <1>2
<1> HIDE DEF new
<1>4. DOMAIN table = 1 .. Len(table) BY <1>2
<1>5. \A i \in DOMAIN new : i \in DOMAIN table \/ i = Len(table) + 1 BY <1>2, <1>3, <1>4
<1>6. \A i \in DOMAIN table : table[i].id # id BY DEF jobContains
<1>7. \A i, j \in DOMAIN new : new[i].id = new[j].id => i = j BY <1>1, <1>3, <1>4, <1>5, <1>6 DEF Table
<1>8. \A i \in DOMAIN new : ~new[i].repeats BY <1>1, <1>3, <1>4, <1>5 DEF Table
<1>9. Len(new) <= MaxJobs BY <1>2, <1>3, MaxJobsAssumption
<1>10. \A x : jobContains(new, x) => x = id \/ jobContains(table, x)
    BY <1>1, <1>3, <1>4, <1>5 DEF jobContains
<1> QED BY <1>3, <1>7, <1>8, <1>9, <1>10 DEF Table, new

\* The oldest row that may be given away is a row of the table.
LEMMA OldestIsRow ==
    ASSUME NEW Id, NEW table, Table(table, Id), Reusable(table) # {}
    PROVE  jobContains(table, oldestReusable(table).id)
<1> DEFINE rows == Reusable(table)
<1>1. rows \subseteq Nat /\ rows \subseteq DOMAIN table BY DEF Reusable, Table
<1> DEFINE R == OpToRel(<, Nat)
<1>2. IsWellFoundedOn(R, Nat) BY NatLessThanWellFounded
<1>3. \A i, j \in Nat : j < i => <<j, i>> \in R BY DEF OpToRel
<1> HIDE DEF R, rows
<1>4. rows # {} BY DEF rows
<1>5. \E i \in rows : \A j \in rows : ~(<<j, i>> \in R) BY <1>1, <1>2, <1>4, WFMin
<1>6. \E i \in rows : \A j \in rows : i <= j
  <2>1. PICK i \in rows : \A j \in rows : ~(<<j, i>> \in R) BY <1>5
  <2>2. ASSUME NEW j \in rows PROVE i <= j
    <3>1. i \in Nat /\ j \in Nat BY <1>1
    <3>2. ~(j < i) BY <1>3, <2>1, <3>1
    <3> QED BY <3>1, <3>2
  <2> QED BY <2>2
<1>7. oldestReusable(table) = table[CHOOSE i \in rows : \A j \in rows : i <= j]
    BY DEF oldestReusable, rows
<1> QED BY <1>1, <1>6, <1>7 DEF jobContains

\* begin() opens one row and keeps the table a table.
LEMMA TableBegins ==
    ASSUME NEW Id, NEW id \in Id, NEW table, Table(table, Id)
    PROVE  /\ Table(jobBegin(table, id, FALSE), Id)
           /\ \A x : jobContains(jobBegin(table, id, FALSE), x) => x = id \/ jobContains(table, x)
<1> DEFINE row == JobInfo(id, FALSE)
<1> DEFINE new == jobBegin(table, id, FALSE)
<1>0. Len(table) \in Nat /\ Len(table) <= MaxJobs BY DEF Table
<1>4. row \in JobRow(Id) /\ row.id = id /\ ~row.repeats BY DEF JobInfo, JobRow, JobState
<1>5. new = IF jobContains(table, id) \/ Len(table) < MaxJobs THEN Append(jobWithout(table, id), row)
            ELSE IF Reusable(table) # {} THEN Append(jobWithout(table, oldestReusable(table).id), row)
            ELSE table
    BY DEF jobBegin
<1> HIDE DEF row, new
<1> SUFFICES Table(new, Id) /\ \A x : jobContains(new, x) => x = id \/ jobContains(table, x)
    BY DEF new
<1>1. CASE jobContains(table, id) \/ Len(table) < MaxJobs
  <2>1. new = Append(jobWithout(table, id), row) BY <1>1, <1>5
  <2>2. /\ Table(jobWithout(table, id), Id) /\ ~jobContains(jobWithout(table, id), id)
        /\ \A x : jobContains(jobWithout(table, id), x) => jobContains(table, x)
        /\ jobContains(table, id) => Len(jobWithout(table, id)) = Len(table) - 1
      BY WithoutRow
  <2>3. Len(jobWithout(table, id)) < MaxJobs
    <3>1. CASE jobContains(table, id) BY <1>0, <2>2, <3>1, MaxJobsAssumption
    <3>2. CASE ~jobContains(table, id) BY <1>1, <3>2 DEF jobWithout
    <3> QED BY <3>1, <3>2
  <2> QED BY <1>4, <2>1, <2>2, <2>3, RowAdded
<1>2. CASE ~jobContains(table, id) /\ ~(Len(table) < MaxJobs) /\ Reusable(table) # {}
  <2> DEFINE old == oldestReusable(table).id
  <2>1. new = Append(jobWithout(table, old), row) BY <1>2, <1>5
  <2>2. jobContains(table, old) BY <1>2, OldestIsRow
  <2> HIDE DEF old
  <2>3. /\ Table(jobWithout(table, old), Id)
        /\ \A x : jobContains(jobWithout(table, old), x) => jobContains(table, x)
        /\ Len(jobWithout(table, old)) = Len(table) - 1
      BY <2>2, WithoutRow
  <2>4. Len(jobWithout(table, old)) < MaxJobs BY <1>0, <2>3, MaxJobsAssumption
  <2>5. ~jobContains(jobWithout(table, old), id) BY <1>2, <2>3
  <2> QED BY <1>4, <2>1, <2>3, <2>4, <2>5, RowAdded
<1>3. CASE ~jobContains(table, id) /\ ~(Len(table) < MaxJobs) /\ Reusable(table) = {}
    BY <1>3, <1>5
<1> QED BY <1>1, <1>2, <1>3

\* What rewrites a row keeps the names.
LEMMA RowRewritten ==
    ASSUME NEW Id, NEW table, Table(table, Id), NEW new,
           new \in [DOMAIN table -> JobRow(Id)],
           \A i \in DOMAIN table : new[i].id = table[i].id /\ new[i].repeats = table[i].repeats
    PROVE  Table(new, Id) /\ \A x : jobContains(new, x) <=> jobContains(table, x)
<1>1. table \in Seq(JobRow(Id)) /\ Len(table) \in Nat /\ DOMAIN table = 1 .. Len(table) BY DEF Table
<1>2. new \in Seq(JobRow(Id)) /\ Len(new) = Len(table) /\ DOMAIN new = DOMAIN table BY <1>1
<1> QED BY <1>2 DEF Table, jobContains

LEMMA TableGoesOn ==
    ASSUME NEW Id, NEW table, Table(table, Id), NEW id
    PROVE  /\ Table(jobProgress(table, id), Id) /\ Table(jobPause(table, id), Id)
           /\ Table(jobRequestCancel(table, id), Id)
           /\ \A x : /\ jobContains(jobProgress(table, id), x) <=> jobContains(table, x)
                     /\ jobContains(jobPause(table, id), x) <=> jobContains(table, x)
                     /\ jobContains(jobRequestCancel(table, id), x) <=> jobContains(table, x)
<1>1. \A i \in DOMAIN table : table[i] \in JobRow(Id) BY DEF Table
<1>2. ASSUME NEW s \in JobState, NEW i \in DOMAIN table
      PROVE  /\ [table[i] EXCEPT !.state = s] \in JobRow(Id)
             /\ [table[i] EXCEPT !.state = s].id = table[i].id
             /\ [table[i] EXCEPT !.state = s].repeats = table[i].repeats
             /\ [table[i] EXCEPT !.cancel = TRUE] \in JobRow(Id)
             /\ [table[i] EXCEPT !.cancel = TRUE].id = table[i].id
             /\ [table[i] EXCEPT !.cancel = TRUE].repeats = table[i].repeats
    BY <1>1 DEF JobRow
<1>3. "running" \in JobState /\ "paused" \in JobState BY DEF JobState
<1>4. Table(jobProgress(table, id), Id) /\ \A x : jobContains(jobProgress(table, id), x) <=> jobContains(table, x)
  <2> DEFINE new == jobProgress(table, id)
  <2>1. /\ new \in [DOMAIN table -> JobRow(Id)]
        /\ \A i \in DOMAIN table : new[i].id = table[i].id /\ new[i].repeats = table[i].repeats
      BY <1>1, <1>2, <1>3 DEF jobProgress, jobRewrite
  <2> HIDE DEF new
  <2> QED BY <2>1, RowRewritten DEF new
<1>5. Table(jobPause(table, id), Id) /\ \A x : jobContains(jobPause(table, id), x) <=> jobContains(table, x)
  <2> DEFINE new == jobPause(table, id)
  <2>1. /\ new \in [DOMAIN table -> JobRow(Id)]
        /\ \A i \in DOMAIN table : new[i].id = table[i].id /\ new[i].repeats = table[i].repeats
      BY <1>1, <1>2, <1>3 DEF jobPause, jobRewrite
  <2> HIDE DEF new
  <2> QED BY <2>1, RowRewritten DEF new
<1>6. /\ Table(jobRequestCancel(table, id), Id)
      /\ \A x : jobContains(jobRequestCancel(table, id), x) <=> jobContains(table, x)
  <2> DEFINE new == [i \in DOMAIN table |->
                        IF table[i].id = id THEN [table[i] EXCEPT !.cancel = TRUE] ELSE table[i]]
  <2>1. /\ new \in [DOMAIN table -> JobRow(Id)]
        /\ \A i \in DOMAIN table : new[i].id = table[i].id /\ new[i].repeats = table[i].repeats
      BY <1>1, <1>2, <1>3
  <2>2. jobRequestCancel(table, id) \in {table, new} BY DEF jobRequestCancel, jobRewrite
  <2> HIDE DEF new
  <2>3. Table(new, Id) /\ \A x : jobContains(new, x) <=> jobContains(table, x) BY <2>1, RowRewritten
  <2> QED BY <2>2, <2>3
<1> QED BY <1>4, <1>5, <1>6

\* finish() takes the row away.
LEMMA TableEnds ==
    ASSUME NEW Id, NEW table, Table(table, Id), NEW id, NEW state
    PROVE  /\ Table(jobFinish(table, id, state), Id) /\ ~jobContains(jobFinish(table, id, state), id)
           /\ \A x : jobContains(jobFinish(table, id, state), x) => jobContains(table, x)
<1>1. CASE jobContains(table, id)
  <2>1. ~jobOf(table, id).repeats BY <1>1, RowFound DEF jobOf, Table
  <2>2. jobFinish(table, id, state) = jobWithout(table, id) BY <1>1, <2>1 DEF jobFinish
  <2> QED BY <2>2, WithoutRow
<1>2. CASE ~jobContains(table, id)
  <2>1. \A i \in DOMAIN table : table[i].id # id BY <1>2 DEF jobContains
  <2>2. jobFinish(table, id, state) = [i \in DOMAIN table |-> table[i]]
      BY <1>2, <2>1 DEF jobFinish, jobRewrite
  <2>3. [i \in DOMAIN table |-> table[i]] = table BY DEF Table
  <2> QED BY <1>2, <2>2, <2>3
<1> QED BY <1>1, <1>2

-----------------------------------------------------------------------------
(* Formats: their one row.                                                  *)
FormatInv == FormatTypeOK /\ Table(fmtJobs, {"format"})

LEMMA FormatStart == FormatInit => FormatInv
<1> SUFFICES ASSUME FormatInit PROVE FormatInv OBVIOUS
<1>1. Table(fmtJobs, {"format"}) BY EmptyTable DEF FormatInit
<1>2. fmtJobs \in Seq(JobRow({"format"})) BY <1>1 DEF Table
<1>3. FormatTypeOK BY <1>2 DEF FormatInit, FormatTypeOK
<1> QED BY <1>1, <1>3 DEF FormatInv

LEMMA FormatInductive == FormatInv /\ [FormatNext]_formatVars => FormatInv'
<1> SUFFICES ASSUME FormatInv, [FormatNext]_formatVars PROVE FormatInv' OBVIOUS
<1>1. Table(fmtJobs, {"format"}) /\ FormatTypeOK BY DEF FormatInv
<1>2. Table(fmtJobs', {"format"}) => fmtJobs' \in Seq(JobRow({"format"})) BY DEF Table
<1>3. CASE UNCHANGED formatVars BY <1>1, <1>3 DEF formatVars, FormatInv, FormatTypeOK
<1>4. ASSUME NEW f \in Formatter, handlePostFileFormat(f) PROVE FormatInv'
  <2>1. Table(jobBegin(fmtJobs, "format", FALSE), {"format"}) BY <1>1, TableBegins
  <2>2. Table(fmtJobs', {"format"}) BY <1>1, <1>4, <2>1 DEF handlePostFileFormat
  <2> QED BY <1>1, <1>2, <1>4, <2>2 DEF handlePostFileFormat, FormatInv, FormatTypeOK
<1>5. ASSUME NEW f \in Formatter, formatTask(f) PROVE FormatInv'
  <2>1. Table(jobFinish(fmtJobs, "format", "done"), {"format"}) BY <1>1, TableEnds
  <2>2. CASE formatTask_Close(f)
    <3>1. Table(fmtJobs', {"format"}) BY <2>1, <2>2 DEF formatTask_Close
    <3> QED BY <1>1, <1>2, <2>2, <3>1 DEF formatTask_Close, FormatInv, FormatTypeOK
  <2>3. CASE ~formatTask_Close(f)
    <3>1. UNCHANGED fmtJobs
        BY <1>5, <2>3 DEF formatTask, formatTask_Look, format_Busy, format_Start, format_Return,
                          formatTask_CallDone, formatTask_Flags
    <3>2. FormatTypeOK'
        BY <1>1, <1>5, <2>3, <3>1 DEF formatTask, formatTask_Look, format_Busy, format_Start, format_Return,
                          formatTask_CallDone, formatTask_Flags, FormatTypeOK
    <3> QED BY <1>1, <3>1, <3>2 DEF FormatInv
  <2> QED BY <2>2, <2>3
<1>6. ASSUME NEW f \in Formatter, stopFormat(f) PROVE FormatInv'
  <2>1. Table(jobRequestCancel(fmtJobs, "format"), {"format"}) BY <1>1, TableGoesOn
  <2>2. Table(jobFinish(jobRequestCancel(fmtJobs, "format"), "format", "cancelled"), {"format"})
      BY <2>1, TableEnds
  <2>3. Table(fmtJobs', {"format"}) BY <1>6, <2>2 DEF stopFormat
  <2> QED BY <1>1, <1>2, <1>6, <2>3 DEF stopFormat, FormatInv, FormatTypeOK
<1>7. ASSUME NEW f \in Formatter, powerCutTask(f) PROVE FormatInv'
    BY <1>1, <1>7 DEF powerCutTask, FormatInv, FormatTypeOK
<1> QED BY <1>3, <1>4, <1>5, <1>6, <1>7 DEF FormatNext

-----------------------------------------------------------------------------
(* The card.  As long as no pass overlaps a format, a format that erases    *)
(* has a mounted card and one that creates a file system has none, and a    *)
(* level that has worked is the one that powers the slot.                   *)
FormatKnows ==
    ~sdCrossed => /\ sdFormat # "no" => sdPage = "idle"
                  /\ sdFormat = "erases" => sdMounted
                  /\ sdFormat \in {"begins", "creates"} => ~sdMounted
LevelProven ==
    power.proven /\ board.switch => power.level = "unusable" \/ power.next = board.powers
CardInv == CardTypeOK /\ DriverFollows /\ FormatKnows /\ LevelProven

LEMMA CardStart == CardInit => CardInv
<1> SUFFICES ASSUME CardInit PROVE CardInv OBVIOUS
<1>1. CardTypeOK BY DEF CardInit, CardTypeOK, Level
<1>2. DriverFollows
  <2>1. driver.claimed = FALSE /\ driver.volume = FALSE /\ sdMounted = FALSE BY DEF CardInit
  <2> QED BY <2>1 DEF DriverFollows
<1>3. FormatKnows BY DEF CardInit, FormatKnows
<1>4. LevelProven
  <2>1. ~power.proven BY DEF CardInit
  <2> QED BY <2>1 DEF LevelProven
<1> QED BY <1>1, <1>2, <1>3, <1>4 DEF CardInv

\* The switch before an attempt, and what an attempt makes of its level.
LEMMA SlotPower ==
    ASSUME CardTypeOK, LevelProven, NEW p \in applySlotPower(power)
    PROVE  /\ p \in [level : Level \cup {"none", "unusable"}, next : Level, proven : BOOLEAN]
           /\ p.proven = power.proven /\ p.next = power.next
           /\ ~board.switch => p = power
           /\ board.switch => p.level = p.next \/ p.level = "unusable"
           /\ ~board.flaky /\ board.switch => p.level = "unusable" \/ p.level = power.next
           /\ ~board.flaky /\ power.level # "unusable" /\ board.switch => p.level = power.next
           /\ p.proven /\ board.switch => p.level = "unusable" \/ p.next = board.powers
BY DEF applySlotPower, CardTypeOK, LevelProven, Level

LEMMA MountTried ==
    ASSUME CardTypeOK, LevelProven, NEW create \in BOOLEAN, tryMount(create), UNCHANGED board
    PROVE  /\ sd' \in {"out", "blank", "good"} /\ sdMounted' \in BOOLEAN
           /\ driver' \in [claimed : BOOLEAN, volume : BOOLEAN]
           /\ power' \in [level : Level \cup {"none", "unusable"}, next : Level, proven : BOOLEAN]
           /\ LevelProven'
           /\ \/ driver'.claimed /\ driver'.volume /\ sdMounted'
              \/ UNCHANGED <<sd, driver, sdMounted>>
<1>1. PICK p \in applySlotPower(power) :
        \/ /\ ~driver.claimed /\ powered(p)
           /\ driver' = [claimed |-> TRUE, volume |-> TRUE] /\ sdMounted' = TRUE /\ sd' = "good"
           /\ power' = [p EXCEPT !.proven = TRUE]
        \/ power' = mountAttempts(p) /\ UNCHANGED <<sd, driver, sdMounted>>
    BY DEF tryMount
<1>2. /\ p \in [level : Level \cup {"none", "unusable"}, next : Level, proven : BOOLEAN]
      /\ p.proven /\ board.switch => p.level = "unusable" \/ p.next = board.powers
      /\ board.switch => p.level = p.next \/ p.level = "unusable"
    BY <1>1, SlotPower
<1>3. CASE /\ powered(p) /\ driver' = [claimed |-> TRUE, volume |-> TRUE] /\ sdMounted' = TRUE /\ sd' = "good"
           /\ power' = [p EXCEPT !.proven = TRUE]
  <2>1. /\ power' \in [level : Level \cup {"none", "unusable"}, next : Level, proven : BOOLEAN]
        /\ power'.level = p.level /\ power'.next = p.next
      BY <1>2, <1>3
  <2>2. LevelProven' BY <1>2, <1>3, <2>1 DEF LevelProven, powered, Level
  <2> QED BY <1>3, <2>1, <2>2
<1>4. CASE power' = mountAttempts(p) /\ UNCHANGED <<sd, driver, sdMounted>>
  <2>1. /\ power' \in [level : Level \cup {"none", "unusable"}, next : Level, proven : BOOLEAN]
        /\ power'.proven = p.proven /\ power'.level = p.level
        /\ p.proven => power' = p
        /\ ~board.switch => power' = p
      BY <1>2, <1>4 DEF mountAttempts, Opposite, Level
  <2>2. LevelProven' BY <1>2, <2>1 DEF LevelProven
  <2> QED BY <1>4, <2>1, <2>2 DEF CardTypeOK
<1> QED BY <1>1, <1>3, <1>4

LEMMA CardInductive == CardInv /\ [CardNext]_cardVars => CardInv'
<1> SUFFICES ASSUME CardInv, [CardNext]_cardVars PROVE CardInv' OBVIOUS
<1>1. CardTypeOK /\ DriverFollows /\ FormatKnows /\ LevelProven BY DEF CardInv
<1>2. CASE UNCHANGED cardVars
    BY <1>1, <1>2 DEF cardVars, CardInv, CardTypeOK, DriverFollows, FormatKnows, LevelProven
<1>3. CASE refreshVolumes
    BY <1>1, <1>3 DEF refreshVolumes, CardInv, CardTypeOK, DriverFollows, FormatKnows, LevelProven
<1>4. CASE verify
  <2>1. /\ sdPage = "verify" /\ sdPage' = "idle" /\ UNCHANGED <<sd, board, power, sdFormat, cutOff, sdCrossed>>
        /\ \/ UNCHANGED <<driver, sdMounted>>
           \/ driver' = [claimed |-> FALSE, volume |-> FALSE] /\ sdMounted' = FALSE
      BY <1>4 DEF verify, released
  <2>5. driver' \in [claimed : BOOLEAN, volume : BOOLEAN] /\ sdMounted' \in BOOLEAN
    <3>1. CASE UNCHANGED <<driver, sdMounted>> BY <1>1, <3>1 DEF CardTypeOK
    <3>2. CASE driver' = [claimed |-> FALSE, volume |-> FALSE] /\ sdMounted' = FALSE BY <3>2
    <3> QED BY <2>1, <3>1, <3>2
  <2>6. CardTypeOK'
    <3>1. UNCHANGED <<board, power, cutOff, sdCrossed>> /\ sd' \in {"out", "blank", "good"}
          /\ sdFormat' \in {"no", "begins", "creates", "erases"} /\ sdPage' \in {"idle", "verify", "mount"}
        BY <1>1, <2>1 DEF CardTypeOK
    <3> QED BY <1>1, <2>5, <3>1 DEF CardTypeOK
  <2>7. UNCHANGED <<board, power>> BY <2>1
  <2>2. LevelProven' BY <1>1, <2>7 DEF LevelProven
  <2>3. DriverFollows'
    <3>1. CASE UNCHANGED <<driver, sdMounted>> BY <1>1, <2>1, <3>1 DEF DriverFollows
    <3>2. CASE driver' = [claimed |-> FALSE, volume |-> FALSE] /\ sdMounted' = FALSE
      <4>1. driver'.claimed = FALSE /\ driver'.volume = FALSE /\ sdMounted' = FALSE BY <3>2
      <4> QED BY <4>1 DEF DriverFollows
    <3> QED BY <2>1, <3>1, <3>2
  <2>4. FormatKnows' BY <1>1, <2>1 DEF FormatKnows
  <2> QED BY <2>2, <2>3, <2>4, <2>6 DEF CardInv
<1>5. CASE mount
  <2>1. /\ sdPage = "mount" /\ sdPage' = "idle" /\ UNCHANGED <<board, sdFormat, cutOff, sdCrossed>>
        /\ UNCHANGED <<sd, driver, sdMounted, power>> \/ tryMount(FALSE)
      BY <1>5 DEF mount
  <2>2. CASE UNCHANGED <<sd, driver, sdMounted, power>>
      BY <1>1, <2>1, <2>2 DEF CardInv, CardTypeOK, DriverFollows, FormatKnows, LevelProven
  <2>3. CASE tryMount(FALSE)
    <3>1. /\ sd' \in {"out", "blank", "good"} /\ sdMounted' \in BOOLEAN
          /\ driver' \in [claimed : BOOLEAN, volume : BOOLEAN]
          /\ power' \in [level : Level \cup {"none", "unusable"}, next : Level, proven : BOOLEAN]
          /\ LevelProven'
          /\ \/ driver'.claimed /\ driver'.volume /\ sdMounted'
             \/ UNCHANGED <<sd, driver, sdMounted>>
        BY <1>1, <2>1, <2>3, MountTried
    <3> QED BY <1>1, <2>1, <3>1 DEF CardInv, CardTypeOK, DriverFollows, FormatKnows
  <2> QED BY <2>1, <2>2, <2>3
<1>6. CASE format
    BY <1>1, <1>6 DEF format, CardInv, CardTypeOK, DriverFollows, FormatKnows, LevelProven
<1>7. CASE format_Mount \/ mountWithFormat
  <2>1. /\ UNCHANGED <<board, sdPage, cutOff, sdCrossed>> /\ (tryMount(FALSE) \/ tryMount(TRUE))
        /\ sdFormat' = "no" \/ (sdFormat # "no" /\ sdFormat' = IF sdMounted' THEN "erases" ELSE "creates")
      BY <1>7 DEF format_Mount, mountWithFormat
  <2>2. /\ sd' \in {"out", "blank", "good"} /\ sdMounted' \in BOOLEAN
        /\ driver' \in [claimed : BOOLEAN, volume : BOOLEAN]
        /\ power' \in [level : Level \cup {"none", "unusable"}, next : Level, proven : BOOLEAN]
        /\ LevelProven'
        /\ \/ driver'.claimed /\ driver'.volume /\ sdMounted'
           \/ UNCHANGED <<sd, driver, sdMounted>>
      BY <1>1, <2>1, MountTried
  <2> QED BY <1>1, <2>1, <2>2 DEF CardInv, CardTypeOK, DriverFollows, FormatKnows
<1>8. CASE format_Erase
  <2>1. /\ sdFormat' = "no" /\ UNCHANGED <<board, power, sdPage, cutOff, sdCrossed>>
        /\ sd' \in {"out", "blank", "good"}
        /\ \/ UNCHANGED <<driver, sdMounted>>
           \/ driver' = [claimed |-> FALSE, volume |-> FALSE] /\ sdMounted' = FALSE
      BY <1>1, <1>8 DEF format_Erase, format_Failed, released, CardTypeOK
  <2>5. driver' \in [claimed : BOOLEAN, volume : BOOLEAN] /\ sdMounted' \in BOOLEAN
    <3>1. CASE UNCHANGED <<driver, sdMounted>> BY <1>1, <3>1 DEF CardTypeOK
    <3>2. CASE driver' = [claimed |-> FALSE, volume |-> FALSE] /\ sdMounted' = FALSE BY <3>2
    <3> QED BY <2>1, <3>1, <3>2
  <2>6. CardTypeOK'
    <3>1. UNCHANGED <<board, power, cutOff, sdCrossed>> /\ sd' \in {"out", "blank", "good"}
          /\ sdFormat' \in {"no", "begins", "creates", "erases"} /\ sdPage' \in {"idle", "verify", "mount"}
        BY <1>1, <2>1 DEF CardTypeOK
    <3> QED BY <1>1, <2>5, <3>1 DEF CardTypeOK
  <2>7. UNCHANGED <<board, power>> BY <2>1
  <2>2. LevelProven' BY <1>1, <2>7 DEF LevelProven
  <2>3. DriverFollows'
    <3>1. CASE UNCHANGED <<driver, sdMounted>> BY <1>1, <2>1, <3>1 DEF DriverFollows
    <3>2. CASE driver' = [claimed |-> FALSE, volume |-> FALSE] /\ sdMounted' = FALSE
      <4>1. driver'.claimed = FALSE /\ driver'.volume = FALSE /\ sdMounted' = FALSE BY <3>2
      <4> QED BY <4>1 DEF DriverFollows
    <3> QED BY <2>1, <3>1, <3>2
  <2>4. FormatKnows' BY <2>1 DEF FormatKnows
  <2> QED BY <2>2, <2>3, <2>4, <2>6 DEF CardInv
<1>9. CASE powerCycle
  <2>1. PICK p \in applySlotPower(power) : power' = p /\ cutOff' = (cutOff \/ p.level # "unusable")
      BY <1>9 DEF powerCycle
  <2>2. UNCHANGED <<sd, board, driver, sdMounted, sdFormat, sdPage, sdCrossed>> BY <1>9 DEF powerCycle
  <2>3. /\ power' \in [level : Level \cup {"none", "unusable"}, next : Level, proven : BOOLEAN]
        /\ power'.proven /\ board.switch => power'.level = "unusable" \/ power'.next = board.powers
      BY <1>1, <2>1, SlotPower
  <2>4. cutOff' \in BOOLEAN BY <1>1, <2>1 DEF CardTypeOK
  <2> QED BY <1>1, <2>2, <2>3, <2>4 DEF CardInv, CardTypeOK, DriverFollows, FormatKnows, LevelProven
<1>10. CASE cardMoves
    BY <1>1, <1>10 DEF cardMoves, CardInv, CardTypeOK, DriverFollows, FormatKnows, LevelProven
<1> QED BY <1>2, <1>3, <1>4, <1>5, <1>6, <1>7, <1>8, <1>9, <1>10 DEF CardNext, passStep, formatStep

\* What a format that was not disturbed leaves.
LEMMA CardRescued == ASSUME CardInv, [CardNext]_cardVars PROVE FormatRescues
<1> SUFFICES ASSUME sdFormat # "no", sdFormat' = "no", ~board.flaky, ~sdCrossed, ~cutOff, sd # "out",
                    power.proven \/ ~board.switch, powered(power)
             PROVE  sdMounted' /\ sd' = "good"
    BY DEF FormatRescues
<1>1. CardTypeOK /\ DriverFollows /\ FormatKnows /\ LevelProven BY DEF CardInv
<1>2. mountWithFormat \/ format_Erase \/ format_Mount
    BY DEF CardNext, passStep, formatStep, refreshVolumes, verify, mount, format, powerCycle, cardMoves, cardVars
<1>3. ~format_Mount BY DEF format_Mount
<1>4. CASE format_Erase
  <2>1. driver.claimed /\ sdMounted BY <1>1, <1>4 DEF format_Erase, FormatKnows, DriverFollows
  <2> QED BY <1>4, <2>1 DEF format_Erase
<1>5. CASE mountWithFormat
  <2>1. ~driver.claimed BY <1>1, <1>5 DEF mountWithFormat, FormatKnows, DriverFollows, CardTypeOK
  <2>2. \A p \in applySlotPower(power) : powered(p)
    <3> SUFFICES ASSUME NEW p \in applySlotPower(power) PROVE powered(p) OBVIOUS
    <3>1. CASE ~board.switch BY <1>1, <3>1, SlotPower
    <3>2. CASE board.switch
      <4>1. p.level = "unusable" \/ p.level = board.powers
          BY <1>1, <3>2, SlotPower DEF LevelProven
      <4> QED BY <4>1 DEF powered, Level
    <3> QED BY <3>1, <3>2
  <2>3. sd \in {"blank", "good"} BY <1>1 DEF CardTypeOK
  <2> QED BY <1>5, <2>1, <2>2, <2>3 DEF mountWithFormat, tryMount
<1> QED BY <1>2, <1>3, <1>4, <1>5

-----------------------------------------------------------------------------
(* Check and repair.  A repair is claimed before its row is opened and its  *)
(* task created, and given up by its task only: until then the claim stands *)
(* for the handler that still has the row or the task to make.              *)
CareRow == {"file_check", "file_repair"}
Report ==
    [busy : BOOLEAN, finished : BOOLEAN, volume : Volume \cup {NoVolume},
     errors : SUBSET Name, cancelled : BOOLEAN, stop : BOOLEAN]
Mender ==
    [pc : {"none", "start", "round", "delete", "walk", "row", "wait", "publish"},
     paths : SUBSET Name, todo : SUBSET Name, deleted : BOOLEAN,
     round : 0 .. MaxRounds, result : {"done", "failed", "cancelled"}, closing : 0 .. MaxClosing]
DiskShape ==
    /\ mounted \subseteq Volume /\ erasing \in Volume \cup {NoVolume}
    /\ names \in [Volume -> SUBSET Name] /\ damaged \in [Volume -> SUBSET Name]
    /\ \A v \in Volume : damaged[v] \subseteq names[v]
CheckShape ==
    /\ check \in Report /\ walk \in [on : Nat, closing : 0 .. MaxClosing] /\ asked \in 0 .. MaxChecks
    /\ OneWalk
    /\ check.busy => check.volume \in Volume
RepairShape ==
    /\ repair \in [busy : BOOLEAN, volume : Volume \cup {NoVolume}, stop : BOOLEAN]
    /\ mender \in Mender /\ web \in {"idle", "checkRow", "repairRow", "repairTask"}
    /\ mender.pc # "none" => repair.busy
    /\ web \in {"repairRow", "repairTask"} => repair.busy /\ mender.pc = "none"
CareInv == DiskShape /\ CheckShape /\ RepairShape /\ Table(careJobs, CareRow) /\ RepairRowTrue

LEMMA NewMender ==
    ASSUME NEW c \in 0 .. MaxClosing, NEW pc \in {"none", "start"}
    PROVE  /\ [NoMender EXCEPT !.pc = pc, !.closing = c] \in Mender
           /\ [NoMender EXCEPT !.pc = pc, !.closing = c].closing = c
           /\ [NoMender EXCEPT !.pc = pc, !.closing = c].pc = pc
           /\ [NoMender EXCEPT !.closing = c] = [NoMender EXCEPT !.pc = "none", !.closing = c]
<1>1. NoMender \in Mender /\ NoMender.pc = "none" BY VolumeCareAssumption DEF NoMender, Mender
<1> QED BY <1>1 DEF Mender

LEMMA CareHolds == CareInv => CareTypeOK /\ RepairRowTrue /\ OneWalk
<1> SUFFICES ASSUME CareInv PROVE CareTypeOK /\ RepairRowTrue /\ OneWalk OBVIOUS
<1>1. careJobs \in Seq(JobRow(CareRow)) BY DEF CareInv, Table
<1> QED BY <1>1 DEF CareInv, DiskShape, CheckShape, RepairShape, CareTypeOK, CareRow, Report, Mender

LEMMA CareStart == CareInit => CareInv
<1> SUFFICES ASSUME CareInit PROVE CareInv OBVIOUS
<1>1. DiskShape BY VolumeCareAssumption DEF CareInit, DiskShape
<1>2. NoReport \in Report /\ ~NoReport.busy BY DEF NoReport, Report
<1>3. \A v \in Volume : Checked(v) \in Report /\ ~Checked(v).busy
    BY VolumeCareAssumption DEF NoReport, Report, Checked
<1>4. check \in Report /\ ~check.busy BY <1>2, <1>3 DEF CareInit
<1>5. /\ walk \in [on : Nat, closing : 0 .. MaxClosing] /\ walk.on = 0 /\ asked \in 0 .. MaxChecks
    BY VolumeCareAssumption DEF CareInit
<1>6. CheckShape BY <1>4, <1>5 DEF CheckShape, OneWalk
<1>7. NoMender \in Mender /\ NoMender.pc = "none" BY VolumeCareAssumption DEF NoMender, Mender
<1>8. RepairShape BY <1>7 DEF CareInit, RepairShape
<1>9. Table(careJobs, CareRow) /\ ~jobContains(careJobs, "file_repair")
    BY EmptyTable DEF CareInit, jobContains
<1> QED BY <1>1, <1>6, <1>8, <1>9 DEF CareInv, RepairRowTrue

\* checkStart: the report of a walk is claimed when no other walk runs.
LEMMA WalkStarts ==
    ASSUME CareInv, NEW v, checkStart(v)
    PROVE  /\ check' \in Report /\ walk' \in [on : Nat, closing : 0 .. MaxClosing]
           /\ OneWalk' /\ (check'.busy => check'.volume \in Volume)
<1>1. v \in Volume /\ ~check.busy BY DEF checkStart, resolves, CareInv, DiskShape
<1>2. walk \in [on : Nat, closing : 0 .. MaxClosing] /\ walk.on = 0
    BY <1>1 DEF CareInv, CheckShape, OneWalk
<1>3. CASE /\ check' = [NoReport EXCEPT !.busy = TRUE, !.volume = v]
           /\ walk' = [walk EXCEPT !.on = @ + 1]
  <2>1. check' \in Report /\ check'.busy /\ check'.volume = v BY <1>1, <1>3 DEF NoReport, Report
  <2>2. walk' \in [on : Nat, closing : 0 .. MaxClosing] /\ walk'.on = 1 BY <1>2, <1>3
  <2> QED BY <1>1, <2>1, <2>2 DEF OneWalk
<1>4. CASE check' = [NoReport EXCEPT !.finished = TRUE, !.volume = v] /\ UNCHANGED walk
  <2>1. check' \in Report /\ ~check'.busy BY <1>1, <1>4 DEF NoReport, Report
  <2> QED BY <1>2, <1>4, <2>1 DEF OneWalk
<1> QED BY <1>3, <1>4 DEF checkStart

\* A stop is noted in the report.
LEMMA CheckStopped ==
    ASSUME CareInv, check' = checkCancelled, UNCHANGED <<walk, asked>>
    PROVE  CheckShape'
<1>1. check' \in Report /\ check'.busy = check.busy /\ check'.volume = check.volume
    BY DEF checkCancelled, CareInv, CheckShape, Report
<1> QED BY <1>1 DEF CareInv, CheckShape, OneWalk

\* The task of a check.
LEMMA CareChecks == ASSUME CareInv, checkTask PROVE CareInv'
<1> USE DEF CareInv
<1>1. UNCHANGED <<asked, disk, repair, mender, web>> BY DEF checkTask, checkTask_Walk, checkTask_Row
<1>2. DiskShape' /\ RepairShape' BY <1>1 DEF DiskShape, RepairShape, disk
<1>3. CASE checkTask_Walk
  <2>1. /\ walk.on > 0 /\ walk.closing < MaxClosing /\ walk' = [on |-> walk.on - 1, closing |-> walk.closing + 1]
        /\ UNCHANGED careJobs
      BY <1>3 DEF checkTask_Walk
  <2>2. walk.on = 1 /\ check.busy /\ check.volume \in Volume BY <2>1 DEF CheckShape, OneWalk
  <2>3. walk' \in [on : Nat, closing : 0 .. MaxClosing] /\ walk'.on = 0
      BY <2>1, <2>2, VolumeCareAssumption DEF CheckShape
  <2>4. \E found \in SUBSET Name, c \in BOOLEAN :
           check' = [check EXCEPT !.busy = FALSE, !.finished = TRUE, !.errors = found, !.cancelled = c]
    <3>1. damaged[check.volume] \subseteq Name /\ check.cancelled \in BOOLEAN
        BY <2>2 DEF DiskShape, CheckShape, Report
    <3>2. CASE check' = [check EXCEPT !.busy = FALSE, !.finished = TRUE, !.errors = damaged[check.volume]]
      <4>1. check' = [check EXCEPT !.busy = FALSE, !.finished = TRUE, !.errors = damaged[check.volume],
                                   !.cancelled = check.cancelled]
          BY <3>2 DEF CheckShape, Report
      <4> QED BY <3>1, <4>1
    <3>3. ASSUME NEW found \in SUBSET damaged[check.volume],
                 check' = [check EXCEPT !.busy = FALSE, !.finished = TRUE, !.errors = found, !.cancelled = TRUE]
          PROVE  \E some \in SUBSET Name, c \in BOOLEAN :
                    check' = [check EXCEPT !.busy = FALSE, !.finished = TRUE, !.errors = some, !.cancelled = c]
      <4>1. found \in SUBSET Name BY <3>1
      <4> QED BY <3>3, <4>1
    <3> QED BY <1>3, <3>2, <3>3 DEF checkTask_Walk
  <2>5. check' \in Report /\ ~check'.busy BY <2>4 DEF CheckShape, Report
  <2>6. CheckShape' BY <1>1, <2>3, <2>5 DEF CheckShape, OneWalk
  <2>7. RepairRowTrue' BY <1>1, <2>1 DEF RepairRowTrue
  <2> QED BY <1>2, <2>1, <2>6, <2>7
<1>4. CASE checkTask_Row
  <2>1. /\ walk.closing > 0 /\ walk' = [walk EXCEPT !.closing = @ - 1] /\ UNCHANGED check
        /\ \E state : careJobs' = jobFinish(careJobs, "file_check", state)
      BY <1>4 DEF checkTask_Row
  <2>2. walk' \in [on : Nat, closing : 0 .. MaxClosing] /\ walk'.on = walk.on
      BY <2>1, VolumeCareAssumption DEF CheckShape
  <2>3. CheckShape' BY <1>1, <2>1, <2>2 DEF CheckShape, OneWalk
  <2>4. /\ Table(careJobs', CareRow)
        /\ \A x : jobContains(careJobs', x) => jobContains(careJobs, x)
      BY <2>1, TableEnds
  <2>5. RepairRowTrue' BY <1>1, <2>4 DEF RepairRowTrue
  <2> QED BY <1>2, <2>3, <2>4, <2>5
<1> QED BY <1>3, <1>4 DEF checkTask

\* The handlers of the pages.
LEMMA CareHandlers ==
    ASSUME CareInv,
           \/ webHandler \/ handlePostFileCheckCancel \/ repairCancel
           \/ \E v \in Volume : handlePostFileCheck(v) \/ handlePostFileRepair(v)
    PROVE  CareInv'
<1> USE DEF CareInv
<1>1. UNCHANGED disk
    BY DEF webHandler, handlePostFileCheck_Row, repairStart_Row, repairStart_Task, handlePostFileCheckCancel,
           repairCancel, handlePostFileCheck, handlePostFileRepair
<1>2. DiskShape' BY <1>1 DEF DiskShape, disk
<1>3. "file_check" \in CareRow /\ "file_repair" \in CareRow BY DEF CareRow
<1>4. CASE handlePostFileCheck_Row
  <2>1. /\ web' = "idle" /\ careJobs' = jobBegin(careJobs, "file_check", FALSE)
        /\ UNCHANGED <<asked, check, walk, repair, mender>>
      BY <1>4 DEF handlePostFileCheck_Row, checkStart_Row
  <2>2. /\ Table(careJobs', CareRow)
        /\ \A x : jobContains(careJobs', x) => x = "file_check" \/ jobContains(careJobs, x)
      BY <1>3, <2>1, TableBegins
  <2>3. CheckShape' /\ RepairShape' BY <2>1 DEF CheckShape, OneWalk, RepairShape
  <2>4. RepairRowTrue' BY <2>1, <2>2 DEF RepairRowTrue
  <2> QED BY <1>2, <2>2, <2>3, <2>4
<1>5. CASE repairStart_Row
  <2>1. /\ web = "repairRow" /\ web' = "repairTask" /\ careJobs' = jobBegin(careJobs, "file_repair", FALSE)
        /\ UNCHANGED <<asked, check, walk, repair, mender>>
      BY <1>5 DEF repairStart_Row
  <2>2. Table(careJobs', CareRow) BY <1>3, <2>1, TableBegins
  <2>3. CheckShape' /\ RepairShape' BY <2>1 DEF CheckShape, OneWalk, RepairShape
  <2>4. RepairRowTrue' BY <2>1 DEF RepairRowTrue, RepairShape
  <2> QED BY <1>2, <2>2, <2>3, <2>4
<1>6. CASE repairStart_Task
  <2>1. web = "repairTask" /\ web' = "idle" /\ UNCHANGED <<asked, check, walk>> BY <1>6 DEF repairStart_Task
  <2>2. CheckShape' BY <2>1 DEF CheckShape, OneWalk
  <2>3. CASE /\ mender' = [NoMender EXCEPT !.pc = "start", !.closing = mender.closing]
             /\ UNCHANGED <<repair, careJobs>>
    <3>0. mender.closing \in 0 .. MaxClosing BY DEF Mender, RepairShape
    <3>1. mender' \in Mender /\ mender'.closing = mender.closing BY <2>3, <3>0, NewMender
    <3>2. RepairShape' BY <2>1, <2>3, <3>1 DEF RepairShape
    <3>3. RepairRowTrue' BY <2>3, <3>1 DEF RepairRowTrue
    <3> QED BY <1>2, <2>2, <2>3, <3>2, <3>3
  <2>4. CASE /\ repair' = [repair EXCEPT !.busy = FALSE] /\ UNCHANGED mender
             /\ careJobs' = jobFinish(careJobs, "file_repair", "failed")
    <3>1. Table(careJobs', CareRow) /\ ~jobContains(careJobs', "file_repair") BY <2>4, TableEnds
    <3>2. RepairShape' BY <2>1, <2>4 DEF RepairShape
    <3>3. RepairRowTrue' BY <3>1 DEF RepairRowTrue
    <3> QED BY <1>2, <2>2, <3>1, <3>2, <3>3
  <2> QED BY <1>6, <2>3, <2>4 DEF repairStart_Task
<1>7. CASE handlePostFileCheckCancel
  <2>1. check' = checkCancelled /\ UNCHANGED <<asked, walk, repair, mender, web, careJobs>>
      BY <1>7 DEF handlePostFileCheckCancel
  <2>2. CheckShape' BY <2>1, CheckStopped
  <2>3. RepairShape' /\ RepairRowTrue' BY <2>1 DEF RepairShape, RepairRowTrue
  <2> QED BY <1>2, <2>1, <2>2, <2>3
<1>8. CASE repairCancel
  <2>1. /\ check' = checkCancelled /\ UNCHANGED <<asked, walk, mender, web>>
        /\ repair' = [repair EXCEPT !.stop = TRUE] /\ careJobs' = jobRequestCancel(careJobs, "file_repair")
      BY <1>8 DEF repairCancel
  <2>2. CheckShape' BY <2>1, CheckStopped
  <2>3. /\ repair' \in [busy : BOOLEAN, volume : Volume \cup {NoVolume}, stop : BOOLEAN]
        /\ repair'.busy = repair.busy
      BY <2>1 DEF RepairShape
  <2>4. RepairShape' BY <2>1, <2>3 DEF RepairShape
  <2>5. Table(careJobs', CareRow) /\ \A x : jobContains(careJobs', x) <=> jobContains(careJobs, x)
      BY <2>1, TableGoesOn
  <2>6. RepairRowTrue' BY <2>1, <2>3, <2>5 DEF RepairRowTrue
  <2> QED BY <1>2, <2>2, <2>4, <2>5, <2>6
<1>9. ASSUME NEW v \in Volume, handlePostFileCheck(v) PROVE CareInv'
  <2>1. /\ asked < MaxChecks /\ asked' = asked + 1 /\ web' \in {"checkRow", "idle"}
        /\ checkStart(v) /\ UNCHANGED <<repair, mender, careJobs>>
      BY <1>9 DEF handlePostFileCheck
  <2>2. asked' \in 0 .. MaxChecks BY <2>1, VolumeCareAssumption DEF CheckShape
  <2>3. CheckShape' BY <2>1, <2>2, WalkStarts DEF CheckShape
  <2>4. RepairShape' /\ RepairRowTrue' BY <2>1 DEF RepairShape, RepairRowTrue
  <2> QED BY <1>2, <2>1, <2>3, <2>4
<1>10. ASSUME NEW v \in Volume, handlePostFileRepair(v) PROVE CareInv'
  <2>1. /\ ~repair.busy /\ repair' = [busy |-> TRUE, volume |-> v, stop |-> FALSE] /\ web' = "repairRow"
        /\ UNCHANGED <<asked, check, walk, mender, careJobs>>
      BY <1>10 DEF handlePostFileRepair
  <2>2. repair' \in [busy : BOOLEAN, volume : Volume \cup {NoVolume}, stop : BOOLEAN] /\ repair'.busy BY <2>1
  <2>3. mender.pc = "none" BY <2>1 DEF RepairShape
  <2>4. RepairShape' BY <2>1, <2>2, <2>3 DEF RepairShape
  <2>5. CheckShape' /\ RepairRowTrue' BY <2>1, <2>2 DEF CheckShape, OneWalk, RepairRowTrue
  <2> QED BY <1>2, <2>1, <2>4, <2>5
<1> QED BY <1>4, <1>5, <1>6, <1>7, <1>8, <1>9, <1>10 DEF webHandler

\* The task of a repair, but for its looks at the report.
LEMMA CareRepairs ==
    ASSUME CareInv,
           \/ repairRun_Start \/ repairRun_Round \/ repairRun_Deleted \/ repairRun_NoWalk
           \/ repairRun_Row \/ repairRun_Publish \/ repairRun_Finish \/ repairRun_Delete
    PROVE  CareInv'
<1> USE DEF CareInv
<1>1. UNCHANGED <<asked, check, walk, web>>
    BY DEF repairRun_Start, repairRun_Round, repairRun_Deleted, repairRun_NoWalk, repairRun_Row,
           repairRun_Publish, repairRun_Finish, repairRun_Delete
<1>2. CheckShape' BY <1>1 DEF CheckShape, OneWalk
<1>3. /\ mender \in Mender
      /\ mender.pc # "none" => repair.busy /\ web \notin {"repairRow", "repairTask"}
      /\ check.errors \subseteq Name /\ 1 \in 0 .. MaxRounds
    BY VolumeCareAssumption DEF RepairShape, CheckShape, Report
<1>4. CASE repairRun_Start \/ repairRun_Round \/ repairRun_Deleted \/ repairRun_NoWalk
  <2>1. UNCHANGED <<disk, repair, careJobs>> /\ mender.pc # "none"
      BY <1>4 DEF repairRun_Start, repairRun_Round, repairRun_Deleted, repairRun_NoWalk
  <2>2. mender' \in Mender /\ mender'.closing = mender.closing
    <3>1. CASE repairRun_Start BY <1>3, <3>1 DEF repairRun_Start, Mender
    <3>2. CASE repairRun_Round BY <1>3, <3>2 DEF repairRun_Round, Mender
    <3>3. CASE repairRun_Deleted BY <1>3, <3>3 DEF repairRun_Deleted, Mender
    <3>4. CASE repairRun_NoWalk BY <1>3, <3>4 DEF repairRun_NoWalk, Mender
    <3> QED BY <1>4, <3>1, <3>2, <3>3, <3>4
  <2>3. RepairShape' BY <1>1, <1>3, <2>1, <2>2 DEF RepairShape
  <2>4. DiskShape' BY <2>1 DEF DiskShape, disk
  <2>5. RepairRowTrue' BY <2>1, <2>2 DEF RepairRowTrue
  <2> QED BY <1>2, <2>1, <2>3, <2>4, <2>5
<1>5. CASE repairRun_Row
  <2>1. /\ mender.pc = "row" /\ careJobs' = jobBegin(careJobs, "file_check", FALSE)
        /\ mender' = [mender EXCEPT !.pc = "wait"] /\ UNCHANGED <<disk, repair>>
      BY <1>5 DEF repairRun_Row, checkStart_Row
  <2>2. mender' \in Mender /\ mender'.closing = mender.closing BY <1>3, <2>1 DEF Mender
  <2>3. RepairShape' BY <1>1, <1>3, <2>1, <2>2 DEF RepairShape
  <2>4. DiskShape' BY <2>1 DEF DiskShape, disk
  <2>5. "file_check" \in CareRow BY DEF CareRow
  <2>6. /\ Table(careJobs', CareRow)
        /\ \A x : jobContains(careJobs', x) => x = "file_check" \/ jobContains(careJobs, x)
      BY <2>1, <2>5, TableBegins
  <2>7. RepairRowTrue' BY <2>1, <2>2, <2>6 DEF RepairRowTrue
  <2> QED BY <1>2, <2>3, <2>4, <2>6, <2>7
<1>6. CASE repairRun_Publish
  <2>1. /\ mender.pc = "publish" /\ mender.closing < MaxClosing /\ repair' = [repair EXCEPT !.busy = FALSE]
        /\ mender' = [NoMender EXCEPT !.closing = mender.closing + 1] /\ UNCHANGED <<disk, careJobs>>
      BY <1>6 DEF repairRun_Publish
  <2>2. mender.closing + 1 \in 0 .. MaxClosing /\ mender.closing + 1 > 0
      BY <1>3, <2>1, VolumeCareAssumption DEF Mender
  <2>3. mender' \in Mender /\ mender'.closing = mender.closing + 1 /\ mender'.pc = "none"
    <3>1. NoMender \in Mender /\ NoMender.pc = "none" BY VolumeCareAssumption DEF NoMender, Mender
    <3> QED BY <2>1, <2>2, <3>1 DEF Mender
  <2>4. repair' \in [busy : BOOLEAN, volume : Volume \cup {NoVolume}, stop : BOOLEAN] BY <2>1 DEF RepairShape
  <2>5. RepairShape' BY <1>1, <1>3, <2>1, <2>3, <2>4 DEF RepairShape
  <2>6. DiskShape' BY <2>1 DEF DiskShape, disk
  <2>7. RepairRowTrue' BY <2>2, <2>3 DEF RepairRowTrue
  <2> QED BY <1>2, <2>1, <2>5, <2>6, <2>7
<1>7. CASE repairRun_Finish
  <2>1. /\ mender.closing > 0 /\ mender' = [mender EXCEPT !.closing = @ - 1] /\ UNCHANGED <<disk, repair>>
        /\ careJobs' = jobFinish(careJobs, "file_repair", "done")
      BY <1>7 DEF repairRun_Finish
  <2>2. mender.closing - 1 \in 0 .. MaxClosing BY <1>3, <2>1, VolumeCareAssumption DEF Mender
  <2>3. mender' \in Mender /\ mender'.pc = mender.pc BY <1>3, <2>1, <2>2 DEF Mender
  <2>4. RepairShape' BY <1>1, <2>1, <2>3 DEF RepairShape
  <2>5. DiskShape' BY <2>1 DEF DiskShape, disk
  <2>6. Table(careJobs', CareRow) /\ ~jobContains(careJobs', "file_repair") BY <2>1, TableEnds
  <2>7. RepairRowTrue' BY <2>6 DEF RepairRowTrue
  <2> QED BY <1>2, <2>4, <2>5, <2>6, <2>7
<1>8. CASE repairRun_Delete
  <2>1. /\ mender.pc = "delete" /\ UNCHANGED <<mounted, erasing, repair>>
        /\ careJobs' = jobProgress(careJobs, "file_repair")
      BY <1>8 DEF repairRun_Delete
  <2>2. PICK n \in mender.todo, removed \in BOOLEAN :
           /\ mender' = [mender EXCEPT !.todo = @ \ {n}, !.deleted = @ \/ removed]
           /\ names' = [names EXCEPT ![repair.volume] = IF removed THEN @ \ {n} ELSE @]
           /\ damaged' = [damaged EXCEPT ![repair.volume] = IF removed THEN @ \ {n} ELSE @]
    <3>1. PICK n \in mender.todo, refused \in BOOLEAN :
           LET removed == ~refused /\ repair.volume \in mounted IN
           /\ mender' = [mender EXCEPT !.todo = @ \ {n}, !.deleted = @ \/ removed]
           /\ names' = [names EXCEPT ![repair.volume] = IF removed THEN @ \ {n} ELSE @]
           /\ damaged' = [damaged EXCEPT ![repair.volume] = IF removed THEN @ \ {n} ELSE @]
        BY <1>8 DEF repairRun_Delete
    <3> DEFINE removed == ~refused /\ repair.volume \in mounted
    <3>2. removed \in BOOLEAN OBVIOUS
    <3>3. /\ mender' = [mender EXCEPT !.todo = @ \ {n}, !.deleted = @ \/ removed]
          /\ names' = [names EXCEPT ![repair.volume] = IF removed THEN @ \ {n} ELSE @]
          /\ damaged' = [damaged EXCEPT ![repair.volume] = IF removed THEN @ \ {n} ELSE @]
        BY <3>1
    <3> HIDE DEF removed
    <3> QED BY <3>2, <3>3
  <2>3. mender' \in Mender /\ mender'.closing = mender.closing /\ mender'.pc = mender.pc
      BY <1>3, <2>2 DEF Mender
  <2>4. RepairShape' BY <1>1, <1>3, <2>1, <2>3 DEF RepairShape
  <2>5. DiskShape'
    <3>1. names' \in [Volume -> SUBSET Name] /\ damaged' \in [Volume -> SUBSET Name]
        BY <2>2 DEF DiskShape
    <3>2. ASSUME NEW v \in Volume PROVE damaged'[v] \subseteq names'[v] BY <2>2 DEF DiskShape
    <3> QED BY <2>1, <3>1, <3>2 DEF DiskShape
  <2>6. Table(careJobs', CareRow) /\ \A x : jobContains(careJobs', x) <=> jobContains(careJobs, x)
      BY <2>1, TableGoesOn
  <2>7. RepairRowTrue' BY <2>1, <2>3, <2>6 DEF RepairRowTrue
  <2> QED BY <1>2, <2>4, <2>5, <2>6, <2>7
<1> QED BY <1>4, <1>5, <1>6, <1>7, <1>8

\* A repair starts the next walk and waits for its report.
LEMMA CareWaits == ASSUME CareInv, repairRun_Walk \/ repairRun_Wait PROVE CareInv'
<1> USE DEF CareInv
<1>1. UNCHANGED <<asked, disk, repair, web, careJobs>> BY DEF repairRun_Walk, repairRun_Wait
<1>2. DiskShape' BY <1>1 DEF DiskShape, disk
<1>3. mender \in Mender /\ check.errors \subseteq Name BY DEF RepairShape, CheckShape, Report
<1>4. CASE repairRun_Walk
  <2>1. /\ mender.pc = "walk" /\ checkStart(repair.volume)
        /\ mender' = [mender EXCEPT !.pc = IF check'.busy THEN "row" ELSE "publish",
                                    !.result = IF check'.busy THEN @ ELSE "failed"]
      BY <1>4 DEF repairRun_Walk
  <2>2. CheckShape' BY <1>1, <2>1, WalkStarts DEF CheckShape
  <2>3. mender' \in Mender /\ mender'.closing = mender.closing BY <1>3, <2>1 DEF Mender
  <2>4. RepairShape' /\ RepairRowTrue' BY <1>1, <2>1, <2>3 DEF RepairShape, RepairRowTrue
  <2> QED BY <1>1, <1>2, <2>2, <2>4
<1>5. CASE repairRun_Wait
  <2>1. mender.pc = "wait" /\ UNCHANGED walk BY <1>5 DEF repairRun_Wait
  <2>2. CheckShape'
    <3>1. CASE check' = checkCancelled BY <1>1, <2>1, <3>1, CheckStopped
    <3>2. CASE UNCHANGED check BY <1>1, <2>1, <3>2 DEF CheckShape, OneWalk
    <3> QED BY <1>5, <3>1, <3>2 DEF repairRun_Wait
  <2>3. mender.round = MaxRounds \/ mender.round + 1 \in 0 .. MaxRounds
      BY <1>3, VolumeCareAssumption DEF Mender
  <2>4. \/ mender' = [mender EXCEPT !.pc = "publish", !.result = "cancelled"]
        \/ mender' = [mender EXCEPT !.pc = "publish"]
        \/ /\ mender' = [mender EXCEPT !.pc = "round", !.paths = check.errors, !.round = @ + 1]
           /\ mender.round # MaxRounds
      BY <1>5 DEF repairRun_Wait
  <2>5. mender' \in Mender /\ mender'.closing = mender.closing BY <1>3, <2>3, <2>4 DEF Mender
  <2>6. RepairShape' /\ RepairRowTrue' BY <1>1, <2>1, <2>5 DEF RepairShape, RepairRowTrue
  <2> QED BY <1>1, <1>2, <2>2, <2>6
<1> QED BY <1>4, <1>5

\* A format beside them, and a card that leaves or comes back.
LEMMA CareDisks ==
    ASSUME CareInv, format_End \/ \E v \in Volume : format_Begin(v) \/ refresh(v)
    PROVE  CareInv'
<1> USE DEF CareInv
<1>1. UNCHANGED <<asked, check, walk, repair, mender, web, careJobs>> BY DEF format_End, format_Begin, refresh
<1>2. CheckShape' /\ RepairShape' /\ RepairRowTrue' BY <1>1 DEF CheckShape, OneWalk, RepairShape, RepairRowTrue
<1>3. CASE format_End
  <2>1. erasing \in Volume /\ erasing' = NoVolume BY <1>3 DEF format_End, DiskShape
  <2>4. DiskShape'
    <3>1. CASE /\ names' = [names EXCEPT ![erasing] = {}] /\ damaged' = [damaged EXCEPT ![erasing] = {}]
               /\ mounted' = mounted \cup {erasing}
        BY <2>1, <3>1 DEF DiskShape
    <3>2. CASE mounted' = mounted \ {erasing} /\ UNCHANGED <<names, damaged>> BY <2>1, <3>2 DEF DiskShape
    <3> QED BY <1>3, <3>1, <3>2 DEF format_End
  <2> QED BY <1>1, <1>2, <2>4
<1>4. ASSUME NEW v \in Volume, format_Begin(v) \/ refresh(v) PROVE CareInv'
  <2>1. DiskShape' BY <1>4 DEF format_Begin, refresh, DiskShape
  <2> QED BY <1>1, <1>2, <2>1
<1> QED BY <1>3, <1>4

LEMMA CareInductive == CareInv /\ [CareNext]_careVars => CareInv'
<1> SUFFICES ASSUME CareInv, [CareNext]_careVars PROVE CareInv' OBVIOUS
<1>1. CASE UNCHANGED careVars
    BY <1>1 DEF careVars, CareInv, DiskShape, CheckShape, OneWalk, RepairShape, RepairRowTrue
<1>2. CASE CareNext
    BY <1>2, CareChecks, CareHandlers, CareRepairs, CareWaits, CareDisks DEF CareNext, repairTask
<1> QED BY <1>1, <1>2

(* Whoever asks for checks, repairs, formats and stops, and whenever a card *)
(* is pulled: a repair's row stands for a repair, one walk at a time writes *)
(* the report, and the driver is held exactly while the card is mounted.    *)
THEOREM VolumesStaySafe == Spec => []VolumesSafe
<1>1. Init => CareInv /\ FormatInv /\ CardInv BY CareStart, FormatStart, CardStart DEF Init
<1>2. CareInv /\ [Next]_vars => CareInv' BY OneAtATime, CareInductive
<1>3. FormatInv /\ [Next]_vars => FormatInv' BY OneAtATime, FormatInductive
<1>4. CardInv /\ [Next]_vars => CardInv' BY OneAtATime, CardInductive
<1>5. CareInv /\ FormatInv /\ CardInv => VolumesSafe BY CareHolds DEF FormatInv, CardInv, VolumesSafe
<1> QED BY <1>1, <1>2, <1>3, <1>4, <1>5, PTL DEF Spec

-----------------------------------------------------------------------------
(***************************************************************************)
(* Transfers: TransferInv relates what is left at the source to what       *)
(* stands at the destination, entry by entry, and says of the entry at     *)
(* hand which of its files are copied, to be copied, or being published.   *)
(***************************************************************************)
\* Source and destination of one entry.
Sides(e) ==
    /\ source[e] \subseteq FilesOf(e)
    /\ \A f \in FilesOf(e) : f \in source[e] \/ target[e][f] = "new"
    /\ \A f \in File : /\ target[e][f] = "old" => e \in taken
                       /\ target[e][f] = "new" /\ e \in Tree => e \in taken
                       /\ target[e][f] # "none" => f \in FilesOf(e)

\* The entry a step of the transfer works on.
AtHand(e) ==
    /\ run.pc = "removed" => \A f \in File : target[e][f] = "none"
    /\ run.pc \in {"copy", "commit", "delete"} =>
          /\ run.files \cup run.current \subseteq source[e]
          /\ run.ok => \A f \in source[e] : f \in run.files \cup run.current \/ target[e][f] = "new"
    /\ run.pc = "commit" => \A f \in run.current : target[e][f] = "none"
    /\ run.pc \in {"copy", "commit"} =>
          transfer.conflict = "overwrite" \/ \A f \in File : target[e][f] # "old"

Cursor ==
    /\ run.pc \notin {"removed", "copy", "commit", "delete"} => run.entry = {}
    /\ run.pc \in {"removed", "copy", "commit"} => \E e \in run.todo : run.entry = {e}
    /\ run.pc = "delete" => /\ run.ok /\ run.files = {} /\ run.entry \cap run.todo = {}
                            /\ \E e \in Entry : run.entry = {e}
    /\ IF run.pc = "commit" THEN \E f \in File : run.current = {f} ELSE run.current = {}
    /\ run.pc # "idle" => \A e \in run.todo : source[e] # {}
    /\ run.pc # "idle" /\ transfer.conflict = "ask" =>
          \A e \in run.todo, f \in File : target[e][f] # "old"

TransferInv ==
    /\ TransferTypeOK /\ Cursor
    /\ \A e \in Entry : Sides(e)
    /\ \A e \in run.entry : AtHand(e)

LEMMA FilesInFile == \A e : FilesOf(e) \subseteq File BY TransferAssumption DEF FilesOf

\* A file has one part: while anything is left of it at the source, all is.
LEMMA WholeOrNothing ==
    ASSUME NEW e \in Entry, e \notin Tree, source[e] # {}, source[e] \subseteq FilesOf(e)
    PROVE  source[e] = FilesOf(e)
BY DEF FilesOf

LEMMA NoRunTyped ==
    /\ NoRun \in [pc : {"idle", "begin", "instant", "removed", "measure", "entries", "copy",
                        "commit", "delete"},
                  todo : SUBSET Entry, entry : SUBSET Entry, files : SUBSET File,
                  current : SUBSET File, ok : BOOLEAN]
    /\ NoRun.pc = "idle" /\ NoRun.todo = {} /\ NoRun.entry = {} /\ NoRun.files = {} /\ NoRun.current = {}
BY DEF NoRun

LEMMA TransferBegins == TransferInit => TransferInv
<1> SUFFICES ASSUME TransferInit PROVE TransferInv OBVIOUS
<1>1. source \in [Entry -> SUBSET File] BY FilesInFile DEF TransferInit
<1>2. transfer \in [op : {"copy", "move"}, conflict : {"ask", "overwrite", "skip"},
                    same : BOOLEAN, cancel : BOOLEAN, stopped : BOOLEAN]
    BY DEF TransferInit
<1>3. TransferTypeOK BY <1>1, <1>2, NoRunTyped DEF TransferTypeOK, TransferInit
<1>4. Cursor BY NoRunTyped DEF Cursor, TransferInit
<1>5. ASSUME NEW e \in Entry PROVE Sides(e)
  <2>1. source[e] = FilesOf(e) BY DEF TransferInit
  <2>2. \A f \in File : /\ target[e][f] \in {"none", "old"}
                        /\ target[e][f] = "old" <=> e \in taken /\ f \in FilesOf(e)
      BY DEF TransferInit
  <2> QED BY <2>1, <2>2 DEF Sides
<1>6. run.entry = {} BY NoRunTyped DEF TransferInit
<1> QED BY <1>3, <1>4, <1>5, <1>6 DEF TransferInv

\* The steps that leave both sides alone.
LEMMA TransferControl ==
    ASSUME TransferInv,
           \/ transferCancel \/ run_Begin \/ finishReport \/ run_Measured
           \/ \E op \in {"copy", "move"}, conflict \in {"ask", "overwrite", "skip"},
                 same \in BOOLEAN, entries \in SUBSET Entry : transferStart(op, conflict, same, entries)
    PROVE  TransferInv'
<1>1. UNCHANGED <<source, target, taken>>
    BY DEF transferCancel, run_Begin, finishReport, run_Measured, transferStart
<1>2. \A e \in Entry : Sides(e)' BY <1>1 DEF TransferInv, Sides
<1>3. CASE transferCancel
  <2>1. /\ UNCHANGED run /\ transfer' = [transfer EXCEPT !.cancel = TRUE] BY <1>3 DEF transferCancel
  <2>2. TransferTypeOK' /\ transfer'.conflict = transfer.conflict
      BY <1>1, <2>1 DEF TransferInv, TransferTypeOK
  <2>3. Cursor' BY <1>1, <2>1, <2>2 DEF TransferInv, Cursor
  <2>4. \A e \in run'.entry : AtHand(e)' BY <1>1, <2>1, <2>2 DEF TransferInv, AtHand
  <2> QED BY <1>2, <2>2, <2>3, <2>4 DEF TransferInv
<1>4. CASE run_Begin \/ run_Measured
  <2>1. PICK pc \in {"instant", "measure", "entries"} :
           /\ run' = [run EXCEPT !.pc = pc] /\ UNCHANGED transfer
           /\ run.pc \in {"begin", "measure"}
      BY <1>4 DEF run_Begin, run_Measured
  <2>2. TransferTypeOK' BY <1>1, <2>1 DEF TransferInv, TransferTypeOK
  <2>3. /\ run'.pc = pc /\ run'.todo = run.todo /\ run'.entry = run.entry /\ run'.current = run.current
      BY <2>1 DEF TransferInv, TransferTypeOK
  <2>4. Cursor' BY <1>1, <2>1, <2>3 DEF TransferInv, Cursor
  <2>5. run'.entry = {} BY <2>1, <2>3 DEF TransferInv, Cursor
  <2> QED BY <1>2, <2>2, <2>4, <2>5 DEF TransferInv
<1>5. CASE finishReport
  <2>1. run' = NoRun /\ UNCHANGED transfer BY <1>5 DEF finishReport
  <2>2. TransferTypeOK' BY <1>1, <2>1, NoRunTyped DEF TransferInv, TransferTypeOK
  <2>3. Cursor' /\ run'.entry = {} BY <2>1, NoRunTyped DEF Cursor
  <2> QED BY <1>2, <2>2, <2>3 DEF TransferInv
<1>6. ASSUME NEW op \in {"copy", "move"}, NEW conflict \in {"ask", "overwrite", "skip"},
             NEW same \in BOOLEAN, NEW entries \in SUBSET Entry, transferStart(op, conflict, same, entries)
      PROVE  TransferInv'
  <2>1. /\ \A e \in entries : source[e] # {}
        /\ conflict = "ask" => entries \cap taken = {}
        /\ transfer' = [op |-> op, conflict |-> conflict, same |-> same, cancel |-> FALSE, stopped |-> FALSE]
        /\ run' = [NoRun EXCEPT !.pc = "begin", !.todo = entries]
      BY <1>6 DEF transferStart
  <2>2. /\ run'.pc = "begin" /\ run'.todo = entries /\ run'.entry = {} /\ run'.current = {}
        /\ run' \in [pc : {"idle", "begin", "instant", "removed", "measure", "entries", "copy",
                           "commit", "delete"},
                     todo : SUBSET Entry, entry : SUBSET Entry, files : SUBSET File,
                     current : SUBSET File, ok : BOOLEAN]
      BY <2>1, NoRunTyped
  <2>3. /\ transfer' \in [op : {"copy", "move"}, conflict : {"ask", "overwrite", "skip"},
                          same : BOOLEAN, cancel : BOOLEAN, stopped : BOOLEAN]
        /\ transfer'.conflict = conflict
      BY <2>1
  <2>4. TransferTypeOK' BY <1>1, <2>2, <2>3 DEF TransferInv, TransferTypeOK
  <2>5. ASSUME NEW e \in entries, NEW f \in File, conflict = "ask" PROVE target[e][f] # "old"
      BY <2>1, <2>5 DEF TransferInv, Sides
  <2>6. Cursor' BY <1>1, <2>1, <2>2, <2>3, <2>5 DEF Cursor
  <2> QED BY <1>2, <2>2, <2>4, <2>6 DEF TransferInv
<1> QED BY <1>3, <1>4, <1>5, <1>6

\* What a step does to one entry leaves the sides of the others alone.
LEMMA OthersKeepSides ==
    ASSUME TransferInv, NEW e \in Entry,
           \A x \in Entry \ {e} : source'[x] = source[x] /\ target'[x] = target[x],
           \A x \in Entry \ {e} : x \in taken' <=> x \in taken,
           Sides(e)'
    PROVE  \A x \in Entry : Sides(x)'
<1> SUFFICES ASSUME NEW x \in Entry, x # e PROVE Sides(x)' OBVIOUS
<1>1. Sides(x) BY DEF TransferInv
<1> QED BY <1>1 DEF Sides

\* An entry that is passed over.
LEMMA TransferPassesOver ==
    ASSUME TransferInv, NEW e \in Entry, run.pc \in {"instant", "removed", "entries"}, passOver(e)
    PROVE  TransferInv'
<1>1. /\ UNCHANGED <<source, target, taken, transfer>>
      /\ run' = [run EXCEPT !.todo = @ \ {e}, !.pc = IF @ = "removed" THEN "instant" ELSE @, !.entry = {}]
    BY DEF passOver
<1>2. /\ run'.pc \in {"instant", "entries"} /\ run'.todo = run.todo \ {e} /\ run'.entry = {}
      /\ run'.current = run.current
    BY <1>1 DEF TransferInv, TransferTypeOK
<1>3. TransferTypeOK' BY <1>1 DEF TransferInv, TransferTypeOK
<1>4. Cursor' BY <1>1, <1>2 DEF TransferInv, Cursor
<1>5. \A x \in Entry : Sides(x)' BY <1>1 DEF TransferInv, Sides
<1> QED BY <1>2, <1>3, <1>4, <1>5 DEF TransferInv

\* A move within a volume: the taken name goes, the entry takes it.
LEMMA TransferInstant ==
    ASSUME TransferInv, NEW e \in Entry, runInstant_Remove(e) \/ runInstant_Rename(e)
    PROVE  TransferInv'
<1> USE DEF TransferInv
<1>1. Sides(e) OBVIOUS
<1>2. CASE passOver(e) BY <1>2, TransferPassesOver DEF runInstant_Remove, runInstant_Rename
<1>3. CASE runInstant_Remove(e) /\ ~passOver(e)
  <2>1. /\ run.pc = "instant" /\ e \in run.todo /\ UNCHANGED <<source, transfer>>
        /\ e \in taken => e \notin Tree /\ transfer.conflict # "skip"
        /\ taken' = taken \ {e} /\ target' = [target EXCEPT ![e] = NoFiles]
        /\ run' = [run EXCEPT !.pc = "removed", !.entry = {e}]
      BY <1>3 DEF runInstant_Remove
  <2>2. /\ run'.pc = "removed" /\ run'.todo = run.todo /\ run'.entry = {e} /\ run'.current = run.current
      BY <2>1 DEF TransferTypeOK
  <2>3. /\ \A f \in File : target'[e][f] = "none"
        /\ \A x \in Entry \ {e} : target'[x] = target[x]
      BY <2>1 DEF TransferTypeOK, NoFiles
  <2>4. TransferTypeOK'
    <3>1. NoFiles \in [File -> {"none", "old", "new"}] BY DEF NoFiles
    <3> QED BY <2>1, <3>1 DEF TransferTypeOK
  <2>5. Sides(e)'
    <3>1. ASSUME NEW f \in FilesOf(e) PROVE f \in source[e]
      <4>1. source[e] # {} BY <2>1 DEF Cursor
      <4>2. CASE e \in Tree BY <1>1, <2>1, <4>2, FilesInFile DEF Sides
      <4>3. CASE e \notin Tree BY <1>1, <4>1, <4>3, WholeOrNothing DEF Sides
      <4> QED BY <4>2, <4>3
    <3> QED BY <1>1, <2>1, <2>3, <3>1 DEF Sides
  <2>6. \A x \in Entry : Sides(x)' BY <2>1, <2>3, <2>5, OthersKeepSides
  <2>7. AtHand(e)' BY <2>2, <2>3 DEF AtHand
  <2>8. Cursor'
    <3>1. ASSUME NEW x \in run.todo, NEW f \in File, target[x][f] # "old" PROVE target'[x][f] # "old"
        BY <2>3, <3>1 DEF TransferTypeOK
    <3> QED BY <2>1, <2>2, <3>1 DEF Cursor
  <2> QED BY <2>2, <2>4, <2>6, <2>7, <2>8
<1>4. CASE runInstant_Rename(e) /\ ~passOver(e)
  <2> DEFINE moved == [f \in File |-> IF f \in source[e] THEN "new" ELSE "none"]
  <2>1. /\ run.pc = "removed" /\ run.entry = {e} /\ UNCHANGED transfer
        /\ source' = [source EXCEPT ![e] = {}] /\ target' = [target EXCEPT ![e] = moved]
        /\ taken' = taken \cup {e}
        /\ run' = [run EXCEPT !.pc = "instant", !.todo = @ \ {e}, !.entry = {}]
      BY <1>4 DEF runInstant_Rename
  <2>2. /\ run'.pc = "instant" /\ run'.todo = run.todo \ {e} /\ run'.entry = {} /\ run'.current = run.current
      BY <2>1 DEF TransferTypeOK
  <2>3. moved \in [File -> {"none", "old", "new"}]
        /\ \A f \in File : moved[f] = IF f \in source[e] THEN "new" ELSE "none"
      OBVIOUS
  <2> HIDE DEF moved
  <2>4. TransferTypeOK' BY <2>1, <2>3 DEF TransferTypeOK
  <2>5. /\ source'[e] = {} /\ target'[e] = moved
        /\ \A x \in Entry \ {e} : source'[x] = source[x] /\ target'[x] = target[x]
      BY <2>1 DEF TransferTypeOK
  <2>6. Sides(e)'
    <3>1. ASSUME NEW f \in FilesOf(e) PROVE target'[e][f] = "new"
      <4>1. f \in File /\ target[e][f] = "none" BY <2>1, FilesInFile DEF AtHand
      <4> QED BY <1>1, <2>3, <2>5, <4>1 DEF Sides
    <3> QED BY <1>1, <2>1, <2>3, <2>5, <3>1 DEF Sides
  <2>7. \A x \in Entry : Sides(x)' BY <2>1, <2>5, <2>6, OthersKeepSides
  <2>8. Cursor'
    <3>1. \A x \in run'.todo : x \in run.todo /\ x \in Entry /\ x # e BY <2>2 DEF TransferTypeOK
    <3> QED BY <2>1, <2>2, <2>5, <3>1 DEF Cursor
  <2> QED BY <2>2, <2>4, <2>7, <2>8
<1> QED BY <1>2, <1>3, <1>4

\* An entry's turn: its directory is made, its files are listed.
LEMMA TransferEntry ==
    ASSUME TransferInv, NEW e \in Entry, run_Entry(e) \/ copyEntry_End(e)
    PROVE  TransferInv'
<1> USE DEF TransferInv
<1>1. Sides(e) OBVIOUS
<1>2. CASE passOver(e) /\ run_Entry(e) BY <1>2, TransferPassesOver DEF run_Entry
<1>3. CASE run_Entry(e) /\ ~passOver(e)
  <2>1. /\ run.pc = "entries" /\ e \in run.todo /\ UNCHANGED <<source, target, transfer>>
        /\ e \in taken => transfer.conflict # "skip"
        /\ taken' = IF e \in Tree THEN taken \cup {e} ELSE taken
        /\ run' = [run EXCEPT !.pc = "copy", !.entry = {e}, !.files = source[e], !.ok = TRUE]
      BY <1>3 DEF run_Entry
  <2>2. /\ run'.pc = "copy" /\ run'.todo = run.todo /\ run'.entry = {e} /\ run'.current = run.current
        /\ run'.files = source[e]
      BY <2>1 DEF TransferTypeOK
  <2>3. TransferTypeOK' BY <2>1 DEF TransferTypeOK
  <2>4. \A x \in Entry : Sides(x)'
    <3>1. Sides(e)' BY <1>1, <2>1 DEF Sides
    <3> QED BY <2>1, <3>1, OthersKeepSides
  <2>5. Cursor' BY <2>1, <2>2 DEF Cursor
  <2>6. AtHand(e)'
    <3>1. run'.current = {} BY <2>1, <2>2 DEF Cursor
    <3>2. ASSUME NEW f \in File, target[e][f] = "old" PROVE transfer.conflict = "overwrite"
      <4>1. transfer.conflict # "skip" BY <1>1, <2>1, <3>2 DEF Sides
      <4>2. transfer.conflict # "ask" BY <2>1, <3>2 DEF Cursor
      <4> QED BY <4>1, <4>2 DEF TransferTypeOK
    <3> QED BY <2>1, <2>2, <3>1, <3>2 DEF AtHand
  <2> QED BY <2>2, <2>3, <2>4, <2>5, <2>6
<1>4. CASE copyEntry_End(e)
  <2> DEFINE deletes == mayDelete /\ ~transfer.stopped
  <2>1. /\ run.pc = "copy" /\ run.entry = {e} /\ run.files = {}
        /\ UNCHANGED <<source, target, taken, transfer>>
        /\ run' = [run EXCEPT !.pc = IF deletes THEN "delete" ELSE "entries",
                              !.todo = @ \ {e}, !.entry = IF deletes THEN @ ELSE {}]
        /\ deletes => run.ok
      BY <1>4 DEF copyEntry_End, mayDelete
  <2> HIDE DEF deletes
  <2>2. /\ run'.pc = (IF deletes THEN "delete" ELSE "entries") /\ run'.todo = run.todo \ {e}
        /\ run'.entry = (IF deletes THEN {e} ELSE {}) /\ run'.current = run.current
        /\ run'.files = run.files /\ run'.ok = run.ok
      BY <2>1 DEF TransferTypeOK
  <2>3. TransferTypeOK' BY <2>1 DEF TransferTypeOK
  <2>4. \A x \in Entry : Sides(x)' BY <2>1 DEF Sides
  <2>5. Cursor' BY <2>1, <2>2 DEF Cursor
  <2>6. \A x \in run'.entry : AtHand(x)' BY <2>1, <2>2 DEF AtHand
  <2> QED BY <2>3, <2>4, <2>5, <2>6
<1> QED BY <1>2, <1>3, <1>4

\* One file is read, and then published under its name.
LEMMA TransferCopies ==
    ASSUME TransferInv, NEW e \in Entry, NEW f \in File, copyFile(e, f) \/ copyFile_Commit(e, f)
    PROVE  TransferInv'
<1> USE DEF TransferInv
<1>1. Sides(e) /\ run.entry = {e} /\ AtHand(e) BY DEF copyFile, copyFile_Commit
<1>2. CASE /\ run.pc = "copy" /\ f \in run.files
           /\ run' = [run EXCEPT !.files = @ \ {f}, !.ok = FALSE]
           /\ transfer' = [transfer EXCEPT !.stopped = @ \/ transfer.cancel]
           /\ UNCHANGED <<source, target, taken>>
  <2>1. /\ run'.pc = "copy" /\ run'.todo = run.todo /\ run'.entry = {e} /\ run'.current = run.current
        /\ run'.files = run.files \ {f} /\ ~run'.ok
      BY <1>1, <1>2 DEF TransferTypeOK
  <2>2. TransferTypeOK' /\ transfer'.conflict = transfer.conflict BY <1>2 DEF TransferTypeOK
  <2>3. \A x \in Entry : Sides(x)' BY <1>2 DEF Sides
  <2>4. Cursor' BY <1>1, <1>2, <2>1, <2>2 DEF Cursor
  <2>5. AtHand(e)' BY <1>1, <1>2, <2>1, <2>2 DEF AtHand
  <2> QED BY <2>1, <2>2, <2>3, <2>4, <2>5
<1>3. CASE /\ run.pc = "copy" /\ f \in run.files
           /\ target' = [target EXCEPT ![e][f] = "none"]
           /\ run' = [run EXCEPT !.pc = "commit", !.files = @ \ {f}, !.current = {f}]
           /\ UNCHANGED <<source, taken, transfer>>
  <2>1. /\ run.pc = "copy" /\ f \in run.files
        /\ target' = [target EXCEPT ![e][f] = "none"]
        /\ run' = [run EXCEPT !.pc = "commit", !.files = @ \ {f}, !.current = {f}]
        /\ UNCHANGED <<source, taken, transfer>>
      BY <1>3
  <2>2. /\ run'.pc = "commit" /\ run'.todo = run.todo /\ run'.entry = {e} /\ run'.current = {f}
        /\ run'.files = run.files \ {f} /\ run'.ok = run.ok
      BY <1>1, <2>1 DEF TransferTypeOK
  <2>3. /\ target'[e][f] = "none" /\ \A g \in File \ {f} : target'[e][g] = target[e][g]
        /\ \A x \in Entry \ {e} : target'[x] = target[x]
      BY <2>1 DEF TransferTypeOK
  <2>4. TransferTypeOK' BY <2>1 DEF TransferTypeOK
  <2>5. f \in source[e] /\ run.current = {} BY <1>1, <2>1 DEF AtHand, Cursor
  <2>6. Sides(e)' BY <1>1, <2>1, <2>3, <2>5, FilesInFile DEF Sides
  <2>7. \A x \in Entry : Sides(x)' BY <2>1, <2>3, <2>6, OthersKeepSides
  <2>8. Cursor'
    <3>1. ASSUME NEW x \in run.todo, NEW g \in File, target[x][g] # "old" PROVE target'[x][g] # "old"
        BY <2>3, <3>1 DEF TransferTypeOK
    <3> QED BY <2>1, <2>2, <3>1 DEF Cursor
  <2>9. AtHand(e)'
    <3>1. ASSUME NEW g \in source[e] PROVE g \in File BY DEF TransferTypeOK
    <3> QED BY <1>1, <2>1, <2>2, <2>3, <2>5, <3>1 DEF AtHand
  <2> QED BY <2>2, <2>4, <2>7, <2>8, <2>9
<1>4. CASE copyFile_Commit(e, f)
  <2>1. /\ run.pc = "commit" /\ run.current = {f} /\ UNCHANGED <<source, transfer>> BY <1>4 DEF copyFile_Commit
  <2>2. f \in source[e] /\ f \in FilesOf(e) BY <1>1, <2>1 DEF AtHand, Sides
  <2>3. CASE /\ target' = [target EXCEPT ![e][f] = "new"] /\ taken' = taken \cup {e}
             /\ run' = [run EXCEPT !.pc = "copy", !.current = {}]
    <3>1. /\ run'.pc = "copy" /\ run'.todo = run.todo /\ run'.entry = {e} /\ run'.current = {}
          /\ run'.files = run.files /\ run'.ok = run.ok
        BY <1>1, <2>3 DEF TransferTypeOK
    <3>2. /\ target'[e][f] = "new" /\ \A g \in File \ {f} : target'[e][g] = target[e][g]
          /\ \A x \in Entry \ {e} : target'[x] = target[x]
        BY <2>3 DEF TransferTypeOK
    <3>3. TransferTypeOK' BY <2>1, <2>3 DEF TransferTypeOK
    <3>4. Sides(e)' BY <1>1, <2>1, <2>2, <2>3, <3>2, FilesInFile DEF Sides
    <3>5. \A x \in Entry : Sides(x)' BY <2>1, <2>3, <3>2, <3>4, OthersKeepSides
    <3>6. Cursor'
      <4>1. ASSUME NEW x \in run.todo, NEW g \in File, target[x][g] # "old" PROVE target'[x][g] # "old"
          BY <3>2, <4>1 DEF TransferTypeOK
      <4> QED BY <1>1, <2>1, <3>1, <4>1 DEF Cursor
    <3>7. AtHand(e)'
      <4>1. ASSUME NEW g \in source[e] PROVE g \in File BY DEF TransferTypeOK
      <4> QED BY <1>1, <2>1, <3>1, <3>2, <4>1 DEF AtHand
    <3> QED BY <3>1, <3>3, <3>5, <3>6, <3>7
  <2>4. CASE /\ run' = [run EXCEPT !.pc = "copy", !.current = {}, !.ok = FALSE]
             /\ taken' = IF e \in Tree THEN taken ELSE taken \ {e}
             /\ UNCHANGED target
    <3>1. /\ run'.pc = "copy" /\ run'.todo = run.todo /\ run'.entry = {e} /\ run'.current = {}
          /\ run'.files = run.files /\ ~run'.ok
        BY <1>1, <2>4 DEF TransferTypeOK
    <3>2. TransferTypeOK' BY <2>1, <2>4 DEF TransferTypeOK
    <3>3. Sides(e)'
      <4>1. CASE e \in Tree BY <1>1, <2>1, <2>4, <4>1 DEF Sides
      <4>2. CASE e \notin Tree
        <5>1. target[e][f] = "none" BY <1>1, <2>1 DEF AtHand
        <5>2. \A g \in FilesOf(e) : g = f BY <2>2, <4>2 DEF FilesOf
        <5> QED BY <1>1, <2>1, <2>4, <4>2, <5>1, <5>2 DEF Sides
      <4> QED BY <4>1, <4>2
    <3>4. \A x \in Entry : Sides(x)' BY <2>1, <2>4, <3>3, OthersKeepSides
    <3>5. Cursor' BY <1>1, <2>1, <2>4, <3>1 DEF Cursor
    <3>6. AtHand(e)' BY <1>1, <2>1, <2>4, <3>1 DEF AtHand
    <3> QED BY <3>1, <3>2, <3>4, <3>5, <3>6
  <2> QED BY <1>4, <2>3, <2>4 DEF copyFile_Commit
<1> QED BY <1>2, <1>3, <1>4 DEF copyFile

\* A move deletes the source of a copy that is whole.
LEMMA TransferDeletes == ASSUME TransferInv, NEW e \in Entry, run_Delete(e) PROVE TransferInv'
<1> USE DEF TransferInv
<1>1. /\ run.pc = "delete" /\ run.entry = {e} /\ UNCHANGED <<target, taken, transfer>>
      /\ run' = [run EXCEPT !.pc = "entries", !.entry = {}]
    BY DEF run_Delete
<1>2. PICK left \in SUBSET source[e] : source' = [source EXCEPT ![e] = left] BY DEF run_Delete
<1>3. Sides(e) /\ AtHand(e) /\ run.ok /\ run.files = {} /\ run.current = {} BY <1>1 DEF Cursor
<1>4. /\ run'.pc = "entries" /\ run'.todo = run.todo /\ run'.entry = {} /\ run'.current = run.current
    BY <1>1 DEF TransferTypeOK
<1>5. TransferTypeOK' BY <1>1, <1>2 DEF TransferTypeOK
<1>6. source'[e] = left /\ \A x \in Entry \ {e} : source'[x] = source[x] BY <1>2 DEF TransferTypeOK
<1>7. \A f \in source[e] : target[e][f] = "new" BY <1>1, <1>3 DEF AtHand
<1>8. Sides(e)' BY <1>1, <1>3, <1>6, <1>7 DEF Sides
<1>9. \A x \in Entry : Sides(x)' BY <1>1, <1>6, <1>8, OthersKeepSides
<1>10. Cursor'
  <2>1. e \notin run.todo /\ run.todo \subseteq Entry BY <1>1 DEF Cursor, TransferTypeOK
  <2> QED BY <1>1, <1>4, <1>6, <2>1 DEF Cursor
<1> QED BY <1>4, <1>5, <1>9, <1>10

LEMMA TransferInductive == TransferInv /\ [TransferNext]_transferVars => TransferInv'
<1> SUFFICES ASSUME TransferInv, [TransferNext]_transferVars PROVE TransferInv' OBVIOUS
<1>1. CASE UNCHANGED transferVars
    BY <1>1 DEF transferVars, TransferInv, TransferTypeOK, Cursor, Sides, AtHand
<1>2. CASE TransferNext
    BY <1>2, TransferControl, TransferInstant, TransferEntry, TransferCopies, TransferDeletes
    DEF TransferNext, transferTask
<1> QED BY <1>1, <1>2

\* No step of a transfer takes an old file the operator did not give up.
LEMMA TransferAsAgreed == TransferInv /\ [TransferNext]_transferVars => OverwriteAgreed
<1> SUFFICES ASSUME TransferInv, [TransferNext]_transferVars, NEW e \in Entry, NEW f \in File,
                    target[e][f] = "old", target'[e][f] # "old"
             PROVE  transfer.conflict = "overwrite"
    BY DEF OverwriteAgreed
<1> USE DEF TransferInv
<1>1. ~UNCHANGED target OBVIOUS
<1>2. PICK x \in Entry : runInstant_Remove(x) \/ runInstant_Rename(x)
                         \/ \E g \in File : copyFile(x, g) \/ copyFile_Commit(x, g)
    BY <1>1 DEF TransferNext, transferTask, transferVars, transferStart, transferCancel, run_Begin,
                finishReport, run_Measured, run_Entry, passOver, copyEntry_End, run_Delete
<1>3. CASE runInstant_Remove(x)
  <2>1. /\ run.pc = "instant" /\ x \in run.todo
        /\ x \in taken => transfer.conflict # "skip"
        /\ target' = [target EXCEPT ![x] = NoFiles]
      BY <1>1, <1>3 DEF runInstant_Remove, passOver
  <2>2. x = e BY <2>1 DEF TransferTypeOK
  <2>3. e \in taken BY DEF Sides
  <2>4. transfer.conflict # "ask" BY <2>1, <2>2 DEF Cursor
  <2> QED BY <2>1, <2>2, <2>3, <2>4 DEF TransferTypeOK
<1>4. CASE runInstant_Rename(x)
  <2>1. run.pc = "removed" /\ run.entry = {x} BY <1>4 DEF runInstant_Rename
  <2>2. \A g \in File : target[x][g] = "none" BY <2>1 DEF AtHand
  <2>3. x # e BY <2>2
  <2> QED BY <1>1, <1>4, <2>3 DEF runInstant_Rename, passOver, TransferTypeOK
<1>5. ASSUME NEW g \in File, copyFile(x, g) \/ copyFile_Commit(x, g) PROVE transfer.conflict = "overwrite"
  <2>1. /\ run.pc \in {"copy", "commit"} /\ run.entry = {x}
        /\ \A y \in Entry \ {x} : target'[y] = target[y]
      BY <1>5 DEF copyFile, copyFile_Commit, TransferTypeOK
  <2>2. x = e BY <2>1
  <2> QED BY <2>1, <2>2 DEF AtHand
<1> QED BY <1>2, <1>3, <1>4, <1>5

-----------------------------------------------------------------------------
(***************************************************************************)
(* Uploads: the part of a path is always the first windows of its file, in *)
(* order, and a request that still has its part stands right behind the    *)
(* last of them.  That needs at most one request at work on a path, which  *)
(* is what a patient client grants.                                        *)
(***************************************************************************)
Prefix(n) == [i \in 1 .. n |-> i]
UploadWork ==
    [pc : {"idle", "open", "begin", "recv", "ended", "publish"}, path : Path \cup {Absent},
     offset : 0 .. Windows, total : 0 .. Windows, remaining : 0 .. Windows,
     attached : BOOLEAN, alive : BOOLEAN, retries : 0 .. RetryLimit, ok : BOOLEAN]

\* What an active request u relies on, given the parts and the paused path.
Upload(u, parts, paused) ==
    /\ u.path \in Path /\ u.total \in {0, Windows} /\ u.offset + u.remaining <= Windows
    /\ u.total = 0 => u.offset + u.remaining = Windows
    /\ u.pc = "open" => ~u.attached
    /\ u.attached => parts[u.path] = Prefix(u.offset)
    /\ u.pc = "ended" /\ u.ok => u.remaining = 0
    /\ u.pc = "publish" => u.offset = Windows
    /\ u.pc = "recv" => paused # u.path

OneWriter ==
    \A r, s \in Request : Active(r) /\ Active(s) /\ request[r].path = request[s].path => r = s

UploadShape ==
    /\ published \in [Path -> {Absent, Old, Text, Whole}]
    /\ part \in [Path -> {Absent} \cup {Prefix(n) : n \in 0 .. Windows}]
    /\ request \in [Request -> UploadWork]
    /\ Table(jobs, Path) /\ pausedUpload \in Path \cup {Absent}

UploadInv ==
    /\ UploadShape /\ OneWriter
    /\ \A r \in Request : Active(r) => Upload(request[r], part, pausedUpload)

\* A window is added behind the last one.
LEMMA PrefixGrows ==
    ASSUME NEW n \in Nat
    PROVE  /\ Prefix(n) \in Seq(1 .. n) /\ Len(Prefix(n)) = n
           /\ Append(Prefix(n), n + 1) = Prefix(n + 1)
<1>1. Prefix(n) \in Seq(1 .. n) /\ Len(Prefix(n)) = n BY DEF Prefix
<1>2. Prefix(n + 1) \in Seq(1 .. n + 1) /\ Len(Prefix(n + 1)) = n + 1 BY DEF Prefix
<1>3. /\ Append(Prefix(n), n + 1) \in Seq(1 .. n + 1) /\ Len(Append(Prefix(n), n + 1)) = n + 1
      /\ \A i \in 1 .. n + 1 : Append(Prefix(n), n + 1)[i] = Prefix(n + 1)[i]
  <2>1. Prefix(n) \in Seq(1 .. n + 1) BY <1>1
  <2>2. \A i \in 1 .. n : Prefix(n)[i] = i BY DEF Prefix
  <2>3. \A i \in 1 .. n + 1 : Prefix(n + 1)[i] = i BY DEF Prefix
  <2> QED BY <1>1, <2>1, <2>2, <2>3
<1> HIDE DEF Prefix
<1>4. Append(Prefix(n), n + 1) = Prefix(n + 1)
    BY <1>2, <1>3
<1> QED BY <1>1, <1>4

LEMMA WholeIsPrefix == Whole = Prefix(Windows) /\ Prefix(0) = <<>>
BY DEF Whole, Prefix

LEMMA IdleTyped == Idle \in UploadWork /\ Idle.pc = "idle"
BY UploadsAssumption DEF Idle, UploadWork

LEMMA UploadHolds == UploadInv => UploadsTypeOK /\ PublishedWhole /\ PausedIsIdle
<1> SUFFICES ASSUME UploadInv PROVE UploadsTypeOK /\ PublishedWhole /\ PausedIsIdle OBVIOUS
<1> USE DEF UploadInv, UploadShape
<1>1. jobs \in Seq(JobRow(Path)) /\ Len(jobs) <= MaxJobs BY DEF Table
<1>2. \A n \in 0 .. Windows : Prefix(n) \in Seq(1 .. Windows + 1)
    BY UploadsAssumption DEF Prefix
<1>3. part \in [Path -> {Absent} \cup Seq(1 .. Windows + 1)] BY <1>2
<1>4. {Old, Text, Whole} \subseteq Seq(0 .. Windows + 1)
    BY UploadsAssumption DEF Old, Text, Whole
<1>5. published \in [Path -> {Absent} \cup Seq(0 .. Windows + 1)] BY <1>4
<1>6. UploadsTypeOK BY <1>1, <1>3, <1>5 DEF UploadsTypeOK, UploadWork
<1>7. PublishedWhole BY DEF PublishedWhole
<1>8. PausedIsIdle BY DEF PausedIsIdle, Upload, Active
<1> QED BY <1>6, <1>7, <1>8

LEMMA UploadsStart == UploadsInit => UploadInv
<1> SUFFICES ASSUME UploadsInit PROVE UploadInv OBVIOUS
<1>1. UploadShape BY IdleTyped, EmptyTable DEF UploadsInit, UploadShape
<1>2. \A r \in Request : ~Active(r) BY IdleTyped DEF UploadsInit, Active
<1> QED BY <1>1, <1>2 DEF UploadInv, OneWriter

\* A step of one request, alone on its path.
LEMMA RequestMoves ==
    ASSUME UploadInv, UploadShape', NEW r \in Request, NEW p \in Path,
           \A x \in Request \ {r} : request'[x] = request[x] /\ ~Writing(x, p),
           \A q \in Path \ {p} : part'[q] = part[q],
           pausedUpload' \in {pausedUpload, Absent, p},
           request'[r].pc # "idle" => request'[r].path = p /\ Upload(request'[r], part', pausedUpload')
    PROVE  UploadInv'
<1>1. OneWriter' BY DEF OneWriter, Active, UploadInv, Writing
<1>2. ASSUME NEW x \in Request, Active(x)' PROVE Upload(request'[x], part', pausedUpload')
  <2>1. CASE x = r BY <1>2, <2>1 DEF Active
  <2>2. CASE x # r
    <3>1. request'[x] = request[x] /\ Active(x) /\ request[x].path # p BY <1>2, <2>2 DEF Active, Writing
    <3>2. Upload(request[x], part, pausedUpload) BY <3>1 DEF UploadInv
    <3>3. request[x].path \in Path /\ request[x].path # Absent BY <3>2, UploadsAssumption DEF Upload
    <3> QED BY <3>1, <3>2, <3>3 DEF Upload
  <2> QED BY <2>1, <2>2
<1> QED BY <1>1, <1>2 DEF UploadInv

\* The part of a path is dropped, whatever a request is doing with it.
LEMMA PartDropped ==
    ASSUME UploadInv, NEW p \in Path, request' = Detach(p), part' = [part EXCEPT ![p] = Absent],
           pausedUpload' \in {pausedUpload, Absent}, Table(jobs', Path),
           published' \in [Path -> {Absent, Old, Text, Whole}]
    PROVE  UploadInv'
<1>1. UploadShape BY DEF UploadInv
<1>2. ASSUME NEW x \in Request
      PROVE  request'[x] = IF Writing(x, p) THEN [request[x] EXCEPT !.attached = FALSE] ELSE request[x]
    BY DEF Detach
<1>3. ASSUME NEW x \in Request
      PROVE  /\ request'[x] \in UploadWork /\ request'[x].pc = request[x].pc
             /\ request'[x].path = request[x].path
    BY <1>1, <1>2 DEF UploadShape, UploadWork
<1>4. request' \in [Request -> UploadWork]
  <2>1. request' = [x \in Request |-> request'[x]] BY DEF Detach
  <2> QED BY <1>3, <2>1
<1>5. UploadShape' BY <1>1, <1>4 DEF UploadShape
<1>6. OneWriter' BY <1>3 DEF UploadInv, OneWriter, Active
<1>7. ASSUME NEW x \in Request, Active(x)' PROVE Upload(request'[x], part', pausedUpload')
  <2>1. Active(x) BY <1>3, <1>7 DEF Active
  <2>2. Upload(request[x], part, pausedUpload) /\ request[x] \in UploadWork
      BY <1>1, <2>1 DEF UploadInv, UploadShape
  <2>3. request[x].path \in Path /\ request[x].path # Absent BY <2>2, UploadsAssumption DEF Upload
  <2>4. CASE Writing(x, p)
    <3>1. request'[x] = [request[x] EXCEPT !.attached = FALSE] BY <1>2, <2>4
    <3>2. ~request'[x].attached BY <2>2, <3>1 DEF UploadWork
    <3> QED BY <2>2, <2>3, <3>1, <3>2 DEF Upload, UploadWork
  <2>5. CASE ~Writing(x, p)
    <3>1. request'[x] = request[x] /\ part'[request[x].path] = part[request[x].path]
        BY <1>1, <1>2, <2>1, <2>3, <2>5 DEF Writing, UploadShape
    <3> QED BY <2>2, <2>3, <3>1 DEF Upload
  <2> QED BY <2>4, <2>5
<1> QED BY <1>5, <1>6, <1>7 DEF UploadInv

\* The request at work on a path is alone there.
LEMMA OnlyWriter ==
    ASSUME UploadInv, NEW r \in Request, Active(r)
    PROVE  /\ request[r] \in UploadWork /\ Upload(request[r], part, pausedUpload)
           /\ request[r].path \in Path
           /\ \A x \in Request \ {r} : ~Writing(x, request[r].path)
           /\ [Detach(request[r].path) EXCEPT ![r] = Idle] = [request EXCEPT ![r] = Idle]
<1>1. /\ request[r] \in UploadWork /\ Upload(request[r], part, pausedUpload)
      /\ request \in [Request -> UploadWork]
    BY DEF UploadInv, UploadShape
<1>2. request[r].path \in Path BY <1>1 DEF Upload
<1>3. \A x \in Request \ {r} : ~Writing(x, request[r].path) BY DEF UploadInv, OneWriter, Writing
<1> DEFINE d == Detach(request[r].path)
<1>4. /\ d = [x \in Request |-> d[x]]
      /\ \A x \in Request \ {r} : d[x] = request[x]
    BY <1>3 DEF Detach
<1> HIDE DEF d
<1>5. [d EXCEPT ![r] = Idle] = [request EXCEPT ![r] = Idle]
  <2>1. DOMAIN d = Request /\ DOMAIN request = Request BY <1>1, <1>4
  <2>2. \A x \in Request : [d EXCEPT ![r] = Idle][x] = [request EXCEPT ![r] = Idle][x] BY <1>1, <1>4, <2>1
  <2> QED BY <1>1, <1>4, <2>1, <2>2
<1> QED BY <1>1, <1>2, <1>3, <1>5 DEF d

\* A request gives its place back.
LEMMA RequestLeaves ==
    ASSUME UploadInv, NEW r \in Request, Active(r),
           request' = [request EXCEPT ![r] = Idle],
           published' \in [Path -> {Absent, Old, Text, Whole}],
           part' \in {part, [part EXCEPT ![request[r].path] = Absent]},
           pausedUpload' \in {pausedUpload, Absent, request[r].path}, Table(jobs', Path)
    PROVE  UploadInv'
<1> DEFINE p == request[r].path
<1>1. p \in Path /\ UploadShape /\ \A x \in Request \ {r} : ~Writing(x, p) BY OnlyWriter DEF UploadInv
<1> HIDE DEF p
<1>2. /\ request'[r].pc = "idle" /\ \A x \in Request \ {r} : request'[x] = request[x]
      /\ request' \in [Request -> UploadWork]
    BY <1>1, IdleTyped DEF UploadShape
<1>3. /\ part' \in [Path -> {Absent} \cup {Prefix(n) : n \in 0 .. Windows}]
      /\ \A q \in Path \ {p} : part'[q] = part[q]
    BY <1>1 DEF UploadShape, p
<1>4. UploadShape' BY <1>1, <1>2, <1>3 DEF UploadShape, p
<1>5. pausedUpload' \in {pausedUpload, Absent, p} BY DEF p
<1> QED BY <1>1, <1>2, <1>3, <1>4, <1>5, RequestMoves

\* A request arrives, or its client goes away.
LEMMA UploadArrives ==
    ASSUME UploadInv, NEW r \in Request, NEW p \in Path, NEW offset \in 0 .. Windows,
           NEW count \in 1 .. Windows, NEW total \in {0, Windows}, Patient,
           handlePostFileUpload(r, p, offset, total, count)
    PROVE  UploadInv'
<1> DEFINE u == [Idle EXCEPT !.pc = "open", !.path = p, !.offset = offset, !.total = total, !.remaining = count]
<1>1. /\ UNCHANGED <<published, part, jobs, pausedUpload>> /\ request' = [request EXCEPT ![r] = u]
      /\ \A x \in Request : ~Writing(x, p)
      /\ total = 0 => offset = 0 /\ count = Windows
      /\ offset + count <= Windows
    BY DEF handlePostFileUpload
<1>2. /\ u.pc = "open" /\ u.path = p /\ u.offset = offset /\ u.total = total /\ u.remaining = count
      /\ ~u.attached
    BY DEF Idle
<1>3. u \in UploadWork
  <2>1. total \in 0 .. Windows /\ count \in 0 .. Windows BY UploadsAssumption
  <2> QED BY <2>1, IdleTyped DEF UploadWork
<1> HIDE DEF u
<1>4. UploadShape BY DEF UploadInv
<1>5. /\ request'[r] = u /\ \A x \in Request \ {r} : request'[x] = request[x]
      /\ request' \in [Request -> UploadWork]
    BY <1>1, <1>3, <1>4 DEF UploadShape
<1>6. UploadShape' BY <1>1, <1>4, <1>5 DEF UploadShape
<1>7. Upload(u, part', pausedUpload') BY <1>1, <1>2, UploadsAssumption DEF Upload
<1> QED BY <1>1, <1>2, <1>5, <1>6, <1>7, RequestMoves

LEMMA UploadAbandoned == ASSUME UploadInv, NEW r \in Request, ClientLeaves(r) PROVE UploadInv'
<1> DEFINE u == request[r]
<1>1. /\ u.pc \in {"open", "begin", "recv"} /\ UNCHANGED <<published, part, jobs, pausedUpload>>
      /\ request' = [request EXCEPT ![r].alive = FALSE]
    BY DEF ClientLeaves
<1>2. u \in UploadWork /\ Upload(u, part, pausedUpload) /\ u.path \in Path
      /\ \A x \in Request \ {r} : ~Writing(x, u.path)
    BY <1>1, OnlyWriter DEF Active
<1>3. UploadShape BY DEF UploadInv
<1>4. request'[r] = [u EXCEPT !.alive = FALSE] /\ \A x \in Request \ {r} : request'[x] = request[x]
    BY <1>1, <1>3 DEF UploadShape
<1>5. [u EXCEPT !.alive = FALSE] \in UploadWork BY <1>2 DEF UploadWork
<1>6. UploadShape' BY <1>1, <1>3, <1>4, <1>5 DEF UploadShape
<1> HIDE DEF u
<1>7. Upload(request'[r], part', pausedUpload') /\ request'[r].path = u.path
    BY <1>1, <1>2, <1>4 DEF Upload, UploadWork
<1> QED BY <1>1, <1>2, <1>4, <1>6, <1>7, RequestMoves

\* openWrite: a range fits the part it continues, a first one empties it.
LEMMA UploadOpens ==
    ASSUME UploadInv, NEW r \in Request, openWrite_Refuse(r) \/ openWrite(r) PROVE UploadInv'
<1> DEFINE u == request[r]
<1>0. u.pc = "open" /\ Active(r) BY DEF openWrite_Refuse, openWrite, Active
<1>1. u \in UploadWork /\ Upload(u, part, pausedUpload) /\ u.path \in Path
      /\ \A x \in Request \ {r} : ~Writing(x, u.path)
    BY <1>0, OnlyWriter
<1>2. UploadShape BY DEF UploadInv
<1>3. CASE openWrite_Refuse(r)
    BY <1>0, <1>2, <1>3, RequestLeaves DEF openWrite_Refuse, UploadShape
<1>4. CASE openWrite(r)
  <2>1. /\ rangeOk(u.path, u.offset, u.total, u.remaining) /\ UNCHANGED <<published, jobs, pausedUpload>>
        /\ part' = [part EXCEPT ![u.path] = IF u.offset = 0 \/ @ = Absent THEN <<>> ELSE @]
        /\ request' = [request EXCEPT ![r].pc = "begin", ![r].attached = TRUE]
      BY <1>4 DEF openWrite
  <2>2. request'[r] = [u EXCEPT !.pc = "begin", !.attached = TRUE]
        /\ \A x \in Request \ {r} : request'[x] = request[x]
      BY <1>2, <2>1 DEF UploadShape
  <2>3. [u EXCEPT !.pc = "begin", !.attached = TRUE] \in UploadWork BY <1>1 DEF UploadWork
  <2>4. request' \in [Request -> UploadWork] BY <1>2, <2>1, <2>2, <2>3 DEF UploadShape
  <2> HIDE DEF u
  <2>5. /\ request'[r].pc = "begin" /\ request'[r].path = u.path /\ request'[r].offset = u.offset
        /\ request'[r].total = u.total /\ request'[r].remaining = u.remaining
      BY <1>1, <2>2 DEF UploadWork
  <2>6. u.offset \in 0 .. Windows /\ u.total \in 0 .. Windows BY <1>1 DEF UploadWork
  <2>7. part'[u.path] = Prefix(u.offset)
    <3>1. part'[u.path] = IF u.offset = 0 \/ part[u.path] = Absent THEN <<>> ELSE part[u.path]
        BY <1>1, <1>2, <2>1 DEF UploadShape
    <3>2. CASE u.offset = 0 BY <3>1, <3>2, WholeIsPrefix
    <3>3. CASE u.offset # 0
      <4>0. u.total > 0
        <5>1. u.total = 0 => u.offset = 0 BY <2>1 DEF rangeOk
        <5> QED BY <2>6, <3>3, <5>1, UploadsAssumption
      <4>1. u.offset = PartSize(u.path) BY <2>1, <4>0 DEF rangeOk
      <4>2. part[u.path] # Absent BY <3>3, <4>1 DEF PartSize
      <4>3. PICK n \in 0 .. Windows : part[u.path] = Prefix(n) BY <1>1, <1>2, <4>2 DEF UploadShape
      <4>4. n \in Nat BY UploadsAssumption
      <4>5. u.offset = n BY <4>1, <4>2, <4>3, <4>4, PrefixGrows DEF PartSize
      <4> QED BY <3>1, <3>3, <4>2, <4>3, <4>5
    <3> QED BY <3>2, <3>3
  <2>11. \A q \in Path \ {u.path} : part'[q] = part[q] BY <1>2, <2>1 DEF UploadShape
  <2>8. part' \in [Path -> {Absent} \cup {Prefix(n) : n \in 0 .. Windows}]
      BY <1>1, <1>2, <2>1, <2>6, <2>7 DEF UploadShape
  <2>9. UploadShape' BY <1>2, <2>1, <2>4, <2>8 DEF UploadShape
  <2>10. Upload(request'[r], part', pausedUpload') BY <1>1, <2>5, <2>7 DEF Upload
  <2>12. \A x \in Request \ {r} : request'[x] = request[x] /\ ~Writing(x, u.path) BY <1>1, <2>2
  <2>13. pausedUpload' \in {pausedUpload, Absent, u.path} BY <2>1
  <2> QED BY <1>1, <2>5, <2>9, <2>10, <2>11, <2>12, <2>13, RequestMoves
<1> QED BY <1>3, <1>4

\* A step that changes one request's record and neither a part nor a file.
LEMMA RequestSteps ==
    ASSUME UploadInv, NEW r \in Request, Active(r), UNCHANGED part, Table(jobs', Path),
           published' \in [Path -> {Absent, Old, Text, Whole}],
           pausedUpload' \in {pausedUpload, Absent},
           NEW w \in UploadWork, request' = [request EXCEPT ![r] = w],
           w.path = request[r].path, Upload(w, part, pausedUpload')
    PROVE  UploadInv'
<1>1. request[r].path \in Path /\ \A x \in Request \ {r} : ~Writing(x, request[r].path) BY OnlyWriter
<1>2. UploadShape BY DEF UploadInv
<1>3. request'[r] = w /\ \A x \in Request \ {r} : request'[x] = request[x] BY <1>2 DEF UploadShape
<1>4. UploadShape' BY <1>2 DEF UploadShape
<1>5. \A x \in Request \ {r} : request'[x] = request[x] /\ ~Writing(x, request[r].path) BY <1>1, <1>3
<1>6. Upload(request'[r], part', pausedUpload') /\ request'[r].path = request[r].path BY <1>3
<1>7. pausedUpload' \in {pausedUpload, Absent, request[r].path} OBVIOUS
<1> QED BY <1>1, <1>4, <1>5, <1>6, <1>7, RequestMoves

\* The row is opened, a receive times out, the loop ends, the old file goes.
LEMMA UploadGoesOn ==
    ASSUME UploadInv, NEW r \in Request,
           \/ uploadTask_Begin(r) \/ uploadTask_Timeout(r) \/ uploadTask_LoopEnds(r) \/ commit_Unlink(r)
    PROVE  UploadInv'
<1> DEFINE u == request[r]
<1>1. Active(r) /\ UNCHANGED part
    BY DEF Active, uploadTask_Begin, uploadTask_Timeout, uploadTask_LoopEnds, commit_Unlink
<1>2. u \in UploadWork /\ Upload(u, part, pausedUpload) /\ u.path \in Path BY <1>1, OnlyWriter
<1>3. UploadShape BY DEF UploadInv
<1>4. Table(jobs, Path) /\ published \in [Path -> {Absent, Old, Text, Whole}] BY <1>3 DEF UploadShape
<1>5. CASE uploadTask_Begin(r)
  <2> DEFINE w == [u EXCEPT !.pc = "recv"]
  <2>1. /\ u.pc = "begin" /\ jobs' = jobBegin(jobs, u.path, FALSE) /\ UNCHANGED published
        /\ pausedUpload' = IF pausedUpload = u.path THEN Absent ELSE pausedUpload
        /\ request' = [request EXCEPT ![r] = w]
      BY <1>5 DEF uploadTask_Begin
  <2>2. Table(jobs', Path) BY <1>2, <1>4, <2>1, TableBegins
  <2>3. w \in UploadWork /\ w.path = u.path BY <1>2 DEF UploadWork
  <2>4. pausedUpload' \in {pausedUpload, Absent} /\ pausedUpload' # u.path
      BY <1>2, <2>1, UploadsAssumption
  <2>5. Upload(w, part, pausedUpload') BY <1>2, <2>1, <2>4 DEF Upload, UploadWork
  <2> HIDE DEF w
  <2> QED BY <1>1, <1>4, <2>1, <2>2, <2>3, <2>4, <2>5, RequestSteps
<1>6. CASE uploadTask_Timeout(r)
  <2> DEFINE w == [u EXCEPT !.retries = u.retries + 1]
  <2>1. /\ UNCHANGED <<published, jobs, pausedUpload>> /\ u.retries < RetryLimit
        /\ request' = [request EXCEPT ![r] = w]
      BY <1>6 DEF uploadTask_Timeout
  <2>2. u.retries + 1 \in 0 .. RetryLimit BY <1>2, <2>1, UploadsAssumption DEF UploadWork
  <2>3. w \in UploadWork /\ w.path = u.path BY <1>2, <2>2 DEF UploadWork
  <2>4. Upload(w, part, pausedUpload) BY <1>2 DEF Upload, UploadWork
  <2> HIDE DEF w
  <2> QED BY <1>1, <1>4, <2>1, <2>3, <2>4, RequestSteps
<1>7. CASE uploadTask_LoopEnds(r)
  <2>1. u.pc = "recv" /\ UNCHANGED <<published, jobs, pausedUpload>> BY <1>7 DEF uploadTask_LoopEnds
  <2>2. CASE u.remaining = 0 /\ request' = [request EXCEPT ![r].pc = "ended"]
    <3> DEFINE w == [u EXCEPT !.pc = "ended"]
    <3>1. request' = [request EXCEPT ![r] = w] BY <2>2
    <3>2. w \in UploadWork /\ w.path = u.path BY <1>2 DEF UploadWork
    <3>3. Upload(w, part, pausedUpload) BY <1>2, <2>2 DEF Upload, UploadWork
    <3> HIDE DEF w
    <3> QED BY <1>1, <1>4, <2>1, <3>1, <3>2, <3>3, RequestSteps
  <2>3. CASE request' = [request EXCEPT ![r].pc = "ended", ![r].ok = FALSE]
    <3> DEFINE w == [u EXCEPT !.pc = "ended", !.ok = FALSE]
    <3>1. request' = [request EXCEPT ![r] = w] BY <1>3, <2>3 DEF UploadShape
    <3>2. w \in UploadWork /\ w.path = u.path /\ ~w.ok BY <1>2 DEF UploadWork
    <3>3. Upload(w, part, pausedUpload) BY <1>2, <3>2 DEF Upload, UploadWork
    <3> HIDE DEF w
    <3> QED BY <1>1, <1>4, <2>1, <3>1, <3>2, <3>3, RequestSteps
  <2> QED BY <1>7, <2>2, <2>3 DEF uploadTask_LoopEnds
<1>8. CASE commit_Unlink(r)
  <2> DEFINE w == [u EXCEPT !.pc = "publish"]
  <2>1. /\ u.pc = "ended" /\ u.ok /\ completes(u) /\ UNCHANGED <<jobs, pausedUpload>>
        /\ published' = [published EXCEPT ![u.path] = Absent]
        /\ request' = [request EXCEPT ![r] = w]
      BY <1>8 DEF commit_Unlink
  <2>2. published' \in [Path -> {Absent, Old, Text, Whole}] BY <1>4, <2>1
  <2>3. w \in UploadWork /\ w.path = u.path BY <1>2 DEF UploadWork
  <2>4. u.offset = Windows
    <3>1. u.remaining = 0 /\ u.total \in {0, Windows} /\ u.offset \in Int BY <1>2, <2>1 DEF Upload, UploadWork
    <3>2. CASE u.total = 0 BY <1>2, <3>1, <3>2 DEF Upload
    <3>3. CASE u.total = Windows BY <2>1, <3>1, <3>3, UploadsAssumption DEF completes, resumable
    <3> QED BY <3>1, <3>2, <3>3
  <2>5. Upload(w, part, pausedUpload) BY <1>2, <2>4 DEF Upload, UploadWork
  <2> HIDE DEF w
  <2> QED BY <1>1, <2>1, <1>4, <2>2, <2>3, <2>5, RequestSteps
<1> QED BY <1>5, <1>6, <1>7, <1>8

\* One window is written, or the operator's stop is heard.
LEMMA UploadReceives == ASSUME UploadInv, NEW r \in Request, uploadTask_Receive(r) PROVE UploadInv'
<1> DEFINE u == request[r]
<1>1. Active(r) /\ u.pc = "recv" /\ u.remaining > 0 /\ UNCHANGED <<published, pausedUpload>>
    BY DEF Active, uploadTask_Receive
<1>2. /\ u \in UploadWork /\ Upload(u, part, pausedUpload) /\ u.path \in Path
      /\ \A x \in Request \ {r} : ~Writing(x, u.path)
      /\ [Detach(u.path) EXCEPT ![r] = Idle] = [request EXCEPT ![r] = Idle]
    BY <1>1, OnlyWriter
<1>3. UploadShape BY DEF UploadInv
<1>4. Table(jobs, Path) /\ published \in [Path -> {Absent, Old, Text, Whole}] BY <1>3 DEF UploadShape
<1>5. CASE jobCancelRequested(jobs, u.path)
  <2>1. /\ part' = [part EXCEPT ![u.path] = Absent] /\ jobs' = jobFinish(jobs, u.path, "cancelled")
        /\ request' = [request EXCEPT ![r] = Idle]
      BY <1>2, <1>5 DEF uploadTask_Receive
  <2>2. Table(jobs', Path) BY <1>4, <2>1, TableEnds
  <2> QED BY <1>1, <1>4, <2>1, <2>2, RequestLeaves
<1>6. CASE ~jobCancelRequested(jobs, u.path)
  <2> DEFINE w == [u EXCEPT !.remaining = u.remaining - 1, !.offset = u.offset + 1, !.retries = 0]
  <2>1. /\ part' = [part EXCEPT ![u.path] = IF u.attached THEN Append(part[u.path], u.offset + 1) ELSE @]
        /\ jobs' \in {jobs, jobProgress(jobs, u.path)}
        /\ request' = [request EXCEPT ![r].remaining = @ - 1, ![r].offset = u.offset + 1, ![r].retries = 0]
      BY <1>6 DEF uploadTask_Receive
  <2>2. Table(jobs', Path) BY <1>4, <2>1, TableGoesOn
  <2>3. request' = [request EXCEPT ![r] = w] BY <1>3, <2>1 DEF UploadShape
  <2>4. u.offset \in Nat /\ u.offset + 1 \in 0 .. Windows /\ u.remaining - 1 \in 0 .. Windows
      BY <1>1, <1>2, UploadsAssumption DEF Upload, UploadWork
  <2>5. w \in UploadWork
    <3>1. 0 \in 0 .. RetryLimit BY UploadsAssumption
    <3> QED BY <1>2, <2>4, <3>1 DEF UploadWork
  <2>6. /\ w.pc = "recv" /\ w.path = u.path /\ w.offset = u.offset + 1 /\ w.remaining = u.remaining - 1
        /\ w.total = u.total /\ w.attached = u.attached
      BY <1>1, <1>2 DEF UploadWork
  <2> HIDE DEF w, u
  <2>7. u.attached => part'[u.path] = Prefix(u.offset + 1)
    <3>1. u.attached => part[u.path] = Prefix(u.offset) BY <1>2 DEF Upload
    <3> QED BY <1>2, <1>3, <2>1, <2>4, <3>1, PrefixGrows DEF UploadShape
  <2>8. /\ \A q \in Path \ {u.path} : part'[q] = part[q]
        /\ part' \in [Path -> {Absent} \cup {Prefix(n) : n \in 0 .. Windows}]
    <3>1. part'[u.path] \in {Absent} \cup {Prefix(n) : n \in 0 .. Windows}
      <4>1. CASE u.attached BY <2>4, <2>7, <4>1
      <4>2. CASE ~u.attached BY <1>2, <1>3, <2>1, <4>2 DEF UploadShape
      <4> QED BY <4>1, <4>2
    <3> QED BY <1>2, <1>3, <2>1, <3>1 DEF UploadShape
  <2>9. request'[r] = w /\ \A x \in Request \ {r} : request'[x] = request[x] BY <1>3, <2>3 DEF UploadShape
  <2>10. UploadShape' BY <1>1, <1>3, <2>2, <2>3, <2>5, <2>8 DEF UploadShape
  <2>11. Upload(w, part', pausedUpload')
    <3>1. u.offset \in Int /\ u.remaining \in Int BY <1>2 DEF UploadWork
    <3>2. w.offset + w.remaining = u.offset + u.remaining BY <2>6, <3>1
    <3> QED BY <1>1, <1>2, <2>6, <2>7, <3>2 DEF Upload
  <2>12. \A x \in Request \ {r} : request'[x] = request[x] /\ ~Writing(x, u.path) BY <1>2, <2>9
  <2>13. pausedUpload' \in {pausedUpload, Absent, u.path} BY <1>1
  <2>14. request'[r].path = u.path /\ Upload(request'[r], part', pausedUpload') BY <2>6, <2>9, <2>11
  <2> QED BY <1>2, <2>8, <2>10, <2>12, <2>13, <2>14, RequestMoves
<1> QED BY <1>5, <1>6

\* A request ends: its part is dropped, kept for a later one, or published.
LEMMA UploadEnds ==
    ASSUME UploadInv, NEW r \in Request,
           uploadTask_Abort(r) \/ uploadTask_Keep(r) \/ commit_Rename(r) \/ commit_Fail(r)
    PROVE  UploadInv'
<1> DEFINE u == request[r]
<1>1. Active(r) BY DEF Active, uploadTask_Abort, uploadTask_Keep, commit_Rename, commit_Fail
<1>2. /\ Upload(u, part, pausedUpload) /\ u.path \in Path
      /\ [Detach(u.path) EXCEPT ![r] = Idle] = [request EXCEPT ![r] = Idle]
    BY <1>1, OnlyWriter
<1>3. Table(jobs, Path) /\ published \in [Path -> {Absent, Old, Text, Whole}] BY DEF UploadInv, UploadShape
<1>4. CASE uploadTask_Abort(r) \/ commit_Fail(r)
  <2>1. /\ part' = [part EXCEPT ![u.path] = Absent] /\ jobs' = jobFinish(jobs, u.path, "failed")
        /\ request' = [request EXCEPT ![r] = Idle] /\ UNCHANGED <<published, pausedUpload>>
      BY <1>2, <1>4 DEF uploadTask_Abort, commit_Fail
  <2>2. Table(jobs', Path) BY <1>3, <2>1, TableEnds
  <2> QED BY <1>1, <1>3, <2>1, <2>2, RequestLeaves
<1>5. CASE uploadTask_Keep(r)
  <2>1. /\ jobs' = jobPause(jobs, u.path) /\ pausedUpload' = u.path
        /\ request' = [request EXCEPT ![r] = Idle] /\ UNCHANGED <<published, part>>
      BY <1>5 DEF uploadTask_Keep
  <2>2. Table(jobs', Path) BY <1>3, <2>1, TableGoesOn
  <2> QED BY <1>1, <1>3, <2>1, <2>2, RequestLeaves
<1>6. CASE commit_Rename(r)
  <2>1. /\ u.pc = "publish" /\ u.attached
        /\ published' = [published EXCEPT ![u.path] = part[u.path]]
        /\ part' = [part EXCEPT ![u.path] = Absent] /\ jobs' = jobFinish(jobs, u.path, "done")
        /\ request' = [request EXCEPT ![r] = Idle]
        /\ pausedUpload' = IF pausedUpload = u.path THEN Absent ELSE pausedUpload
      BY <1>6 DEF commit_Rename
  <2>2. Table(jobs', Path) BY <1>3, <2>1, TableEnds
  <2>3. part[u.path] = Whole BY <1>2, <2>1, WholeIsPrefix DEF Upload
  <2>4. published' \in [Path -> {Absent, Old, Text, Whole}] BY <1>3, <2>1, <2>3
  <2> QED BY <1>1, <2>1, <2>2, <2>4, RequestLeaves
<1> QED BY <1>4, <1>5, <1>6

\* What the pages do with a path: drop its upload, save a text, delete the file.
LEMMA UploadPages ==
    ASSUME UploadInv, NEW p \in Path,
           \/ handlePostFileUploadCancel(p) \/ handlePostJobCancel(p)
           \/ handlePostFileText(p) \/ removeFile(p)
    PROVE  UploadInv'
<1>1. UploadShape /\ Table(jobs, Path) /\ published \in [Path -> {Absent, Old, Text, Whole}]
    BY DEF UploadInv, UploadShape
<1>2. CASE handlePostFileUploadCancel(p)
  <2>1. Table(jobs', Path) BY <1>1, <1>2, TableEnds DEF handlePostFileUploadCancel
  <2> QED BY <1>1, <1>2, <2>1, PartDropped DEF handlePostFileUploadCancel
<1>3. CASE handlePostJobCancel(p)
  <2>1. UNCHANGED published BY <1>3 DEF handlePostJobCancel
  <2>2. CASE pausedUpload = p
    <3>1. /\ pausedUpload' = Absent /\ part' = [part EXCEPT ![p] = Absent] /\ request' = Detach(p)
          /\ jobs' = jobFinish(jobRequestCancel(jobs, p), p, "cancelled")
        BY <1>3, <2>2 DEF handlePostJobCancel
    <3>2. Table(jobRequestCancel(jobs, p), Path) BY <1>1, TableGoesOn
    <3>3. Table(jobs', Path) BY <3>1, <3>2, TableEnds
    <3> QED BY <1>1, <2>1, <3>1, <3>3, PartDropped
  <2>3. CASE pausedUpload # p
    <3>1. jobs' = jobRequestCancel(jobs, p) /\ UNCHANGED <<part, request, pausedUpload>>
        BY <1>3, <2>3 DEF handlePostJobCancel
    <3>2. Table(jobs', Path) BY <1>1, <3>1, TableGoesOn
    <3>3. UploadShape' BY <1>1, <2>1, <3>1, <3>2 DEF UploadShape
    <3> QED BY <3>1, <3>3 DEF UploadInv, OneWriter, Active
  <2> QED BY <2>2, <2>3
<1>4. CASE handlePostFileText(p)
  <2>1. /\ part' = [part EXCEPT ![p] = Absent] /\ request' = Detach(p) /\ UNCHANGED <<jobs, pausedUpload>>
        /\ \E file \in {Text, Absent} : published' = [published EXCEPT ![p] = file]
      BY <1>4 DEF handlePostFileText
  <2>2. published' \in [Path -> {Absent, Old, Text, Whole}] BY <1>1, <2>1
  <2> QED BY <1>1, <2>1, <2>2, PartDropped
<1>5. CASE removeFile(p)
  <2>1. published' = [published EXCEPT ![p] = Absent] /\ UNCHANGED <<part, request, jobs, pausedUpload>>
      BY <1>5 DEF removeFile
  <2>2. UploadShape' BY <1>1, <2>1 DEF UploadShape
  <2> QED BY <2>1, <2>2 DEF UploadInv, OneWriter, Active
<1> QED BY <1>2, <1>3, <1>4, <1>5

LEMMA UploadsInductive == ASSUME Patient PROVE UploadInv /\ [UploadsNext]_uploadVars => UploadInv'
<1> SUFFICES ASSUME UploadInv, [UploadsNext]_uploadVars PROVE UploadInv' OBVIOUS
<1>1. CASE UNCHANGED uploadVars
    BY <1>1 DEF uploadVars, UploadInv, UploadShape, OneWriter, Active
<1>2. ASSUME NEW r \in Request, uploadTask(r) PROVE UploadInv'
    BY <1>2, UploadOpens, UploadGoesOn, UploadReceives, UploadEnds DEF uploadTask
<1>3. CASE UploadsNext
    BY <1>2, <1>3, UploadArrives, UploadAbandoned, UploadPages DEF UploadsNext
<1> QED BY <1>1, <1>3

(* However many clients upload, pause, resume, cancel and fail, and whatever *)
(* the file manager copies and moves beside them: a file under its own name  *)
(* is whole, the scheduler page cannot take the part from a transfer that    *)
(* goes on, and a file that is moved is at its source or at its destination. *)
(* A client that sends a path again while the device still works on it is    *)
(* excluded, as in the run.                                                  *)
THEOREM ContentsStaySafe == ASSUME Patient PROVE Spec => []ContentsSafe
<1>1. Init => UploadInv /\ TransferInv BY UploadsStart, TransferBegins DEF Init
<1>2. UploadInv /\ [Next]_vars => UploadInv' BY OneAtATime, UploadsInductive
<1>3. TransferInv /\ [Next]_vars => TransferInv' BY OneAtATime, TransferInductive
<1>4. UploadInv /\ TransferInv => ContentsSafe
  <2>1. TransferInv => TransferTypeOK /\ NothingLost BY DEF TransferInv, Sides, NothingLost
  <2> QED BY <2>1, UploadHolds DEF ContentsSafe
<1> QED BY <1>1, <1>2, <1>3, <1>4, PTL DEF Spec

(* Nothing is wiped that the operator did not give up: a transfer replaces a *)
(* file only on the answer "overwrite", and a format that no pass, pulled    *)
(* card or failing slot disturbed leaves the card mounted and readable.      *)
THEOREM WipedOnlyAsAgreed == Spec => WipedAsAgreed
<1>1. Init => TransferInv /\ CardInv BY TransferBegins, CardStart DEF Init
<1>2. TransferInv /\ [Next]_vars => TransferInv' BY OneAtATime, TransferInductive
<1>3. CardInv /\ [Next]_vars => CardInv' BY OneAtATime, CardInductive
<1>4. TransferInv /\ CardInv /\ [Next]_vars => [OverwriteAgreed /\ FormatRescues]_vars
    BY OneAtATime, TransferAsAgreed, CardRescued
<1> QED BY <1>1, <1>2, <1>3, <1>4, PTL DEF Spec, WipedAsAgreed

=============================================================================
