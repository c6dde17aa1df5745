---------------------------- MODULE AdminProofs -----------------------------
(***************************************************************************)
(* Proofs about the administration of the device: the login guard, the      *)
(* generator of certificates, the updates from the browser, the file of the *)
(* statistics, the switch of HTTPS and the settings, for every set of       *)
(* clients, tasks, files and values and every bound.  A behaviour of        *)
(* MCAdmin is about one of them and leaves the others alone, so each has an *)
(* inductive invariant over its own variables.                              *)
(***************************************************************************)
EXTENDS MCAdmin, FiniteSetTheorems, WellFoundedInduction, TLAPS

\* A step of the composition is a step of a component, or leaves it alone.
LEMMA OneAtATime ==
    [Next]_vars => /\ [GenerateNext]_generateVars /\ [LoginsNext]_loginVars
                   /\ [UpdatesNext]_updateVars /\ [StatNext]_statVars
                   /\ [HttpsNext]_httpsVars /\ [SettingsNext]_settingVars
<1> SUFFICES ASSUME [Next]_vars
             PROVE  /\ [GenerateNext]_generateVars /\ [LoginsNext]_loginVars
                    /\ [UpdatesNext]_updateVars /\ [StatNext]_statVars
                    /\ [HttpsNext]_httpsVars /\ [SettingsNext]_settingVars
    OBVIOUS
<1>1. CASE SettingsStep(SettingsNext) BY <1>1 DEF SettingsStep
<1>2. CASE HttpsStep(HttpsNext) BY <1>2 DEF HttpsStep
<1>3. CASE GenerateStep(GenerateNext) BY <1>3 DEF GenerateStep
<1>4. CASE LoginsStep(LoginsNext) BY <1>4 DEF LoginsStep
<1>5. CASE UpdatesStep(UpdatesNext) BY <1>5 DEF UpdatesStep
<1>6. CASE StatStep(StatNext) BY <1>6 DEF StatStep
<1>7. CASE UNCHANGED vars BY <1>7 DEF vars
<1> QED BY <1>1, <1>2, <1>3, <1>4, <1>5, <1>6, <1>7 DEF Next

-----------------------------------------------------------------------------
(* The login guard.  A task that has passed the check and still compares    *)
(* may add one failure: what is bounded by an induction is the failures     *)
(* and the tasks under way together.                                        *)
Waiting(c) == {d \in Door : comparing[d] = c}

LoginsShape ==
    /\ failedAttempts \in [Client -> [count : Nat, age : Nat]]
    /\ limits \in Limits /\ comparing \in [Door -> Client \cup {NoClient}]
    /\ loosest \in [Client -> {l.tries : l \in Limits}]
LimitIsLoosest == \A c \in Client : limits.tries <= loosest[c]
UnderWay ==
    \A c \in Client :
        failedAttempts[c].count + Cardinality(Waiting(c)) < loosest[c] + Cardinality(Door)
LoginsInv == LoginsShape /\ LimitIsLoosest /\ UnderWay

\* The doors are counted.
LEMMA DoorsCounted ==
    /\ Cardinality(Door) \in Nat
    /\ \A S \in SUBSET Door : Cardinality(S) \in Nat /\ Cardinality(S) <= Cardinality(Door)
    /\ \A S \in SUBSET Door : \A d \in S : Cardinality(S \ {d}) = Cardinality(S) - 1
<1>1. IsFiniteSet(Door) BY LoginsAssumption
<1>2. \A S \in SUBSET Door : IsFiniteSet(S) BY <1>1, FS_Subset
<1> QED BY <1>1, <1>2, FS_Subset, FS_CardinalityType, FS_RemoveElement

\* The tries of a limit.
LEMMA TriesAreCounted ==
    /\ \A l \in Limits : l.tries \in Nat /\ l.tries >= 1 /\ l.period \in Nat
    /\ \A n \in {l.tries : l \in Limits} : n \in Nat /\ n >= 1
BY LoginsAssumption

\* What cleanupExpired leaves is an entry as it was, or none.
LEMMA CleanedIsLess ==
    ASSUME LoginsShape
    PROVE  /\ cleaned \in [Client -> [count : Nat, age : Nat]]
           /\ \A c \in Client : cleaned[c].count <= failedAttempts[c].count
           /\ \A c \in Client : cleaned[c] = None => cleaned[c].count = 0
<1>1. None \in [count : Nat, age : Nat] /\ None.count = 0 BY DEF None
<1> QED BY <1>1 DEF cleaned, LoginsShape

\* The invariant holds at the start.
LEMMA LoginsStart == LoginsInit => LoginsInv
<1> SUFFICES ASSUME LoginsInit PROVE LoginsInv OBVIOUS
<1>1. LoginsShape BY TriesAreCounted DEF LoginsInit, LoginsShape, None
<1>2. LimitIsLoosest BY TriesAreCounted DEF LoginsInit, LimitIsLoosest
<1>3. ASSUME NEW c \in Client
      PROVE  failedAttempts[c].count + Cardinality(Waiting(c)) < loosest[c] + Cardinality(Door)
  <2>1. Waiting(c) \in SUBSET Door BY DEF Waiting
  <2>2. failedAttempts[c].count = 0 /\ loosest[c] \in Nat /\ loosest[c] >= 1
      BY TriesAreCounted DEF LoginsInit, None
  <2> QED BY <2>1, <2>2, DoorsCounted
<1> QED BY <1>1, <1>2, <1>3 DEF LoginsInv, UnderWay

\* Up to the comparison: the check is made on what the entry is then.
LEMMA LoginsVerify ==
    ASSUME LoginsInv, NEW d \in Door, NEW c \in Client, verify(d, c) PROVE LoginsInv'
<1> USE DEF LoginsInv
<1>1. /\ cleaned \in [Client -> [count : Nat, age : Nat]]
      /\ \A x \in Client : cleaned[x].count <= failedAttempts[x].count
      /\ \A x \in Client : cleaned[x] = None => cleaned[x].count = 0
    BY CleanedIsLess
<1>2. /\ limits.tries \in Nat /\ limits.tries >= 1
      /\ \A x \in Client : loosest[x] \in Nat /\ loosest[x] >= 1
      /\ limits.tries \in {l.tries : l \in Limits}
    BY TriesAreCounted DEF LoginsShape
<1>3. looser(c, limits.tries) \in {limits.tries, loosest[c]} /\ looser(c, limits.tries) >= limits.tries
    BY <1>2 DEF looser
<1>4. looser(c, limits.tries) >= loosest[c] \/ cleaned[c].count = 0 BY <1>1, <1>2 DEF looser
<1>5. LoginsShape'
  <2>1. looser(c, limits.tries) \in {l.tries : l \in Limits} BY <1>2, <1>3 DEF LoginsShape
  <2>2. (loosest \in [Client -> {l.tries : l \in Limits}])' BY <2>1 DEF LoginsShape, verify
  <2>3. (comparing \in [Door -> Client \cup {NoClient}])' BY DEF LoginsShape, verify
  <2> QED BY <1>1, <2>2, <2>3 DEF LoginsShape, verify
<1>6. /\ failedAttempts' = cleaned /\ limits' = limits
      /\ loosest'[c] = looser(c, limits.tries)
      /\ \A x \in Client : x # c => loosest'[x] = loosest[x]
    BY DEF verify, LoginsShape
<1>7. LimitIsLoosest' BY <1>2, <1>3, <1>6 DEF LimitIsLoosest
<1>8. ASSUME NEW x \in Client
      PROVE  cleaned[x].count + Cardinality(Waiting(x)') < loosest'[x] + Cardinality(Door)
  <2>1. Waiting(x) \in SUBSET Door /\ Waiting(x)' \in SUBSET Door BY DEF Waiting
  <2>2. failedAttempts[x].count + Cardinality(Waiting(x)) < loosest[x] + Cardinality(Door)
      BY DEF UnderWay
  <2>3. cleaned[x].count \in Nat /\ failedAttempts[x].count \in Nat BY <1>1 DEF LoginsShape
  <2>4. CASE x # c \/ comparing' = comparing
    <3>1. Waiting(x)' = Waiting(x)
        BY <2>4, LoginsAssumption DEF Waiting, verify, LoginsShape
    <3>2. CASE x = c
        BY <1>1, <1>2, <1>3, <1>4, <1>6, <2>1, <2>2, <2>3, <3>1, <3>2, DoorsCounted
    <3>3. CASE x # c BY <1>1, <1>2, <1>6, <2>1, <2>2, <2>3, <3>1, <3>3, DoorsCounted
    <3> QED BY <3>2, <3>3
  <2>5. CASE x = c /\ comparing' # comparing
    <3>1. ~isLockedOut(c) BY <2>5 DEF verify
    <3>2. cleaned[c].count < limits.tries BY <1>2, <2>3, <2>5, <3>1 DEF isLockedOut
    <3> QED BY <1>2, <1>3, <1>6, <2>1, <2>3, <2>5, <3>2, DoorsCounted
  <2> QED BY <2>4, <2>5
<1>9. UnderWay' BY <1>6, <1>8 DEF UnderWay
<1> QED BY <1>5, <1>7, <1>9

\* The comparison: one failure more, one task less that may add one.
LEMMA LoginsCompare ==
    ASSUME LoginsInv, NEW d \in Door, verify_Compare(d) PROVE LoginsInv'
<1> USE DEF LoginsInv
<1> DEFINE c == comparing[d]
<1>1. c \in Client BY DEF verify_Compare, LoginsShape
<1>2. \A x \in Client : loosest[x] \in Nat /\ loosest[x] >= 1 /\ failedAttempts[x].count \in Nat
    BY TriesAreCounted DEF LoginsShape
<1>3. /\ loosest' = loosest /\ limits' = limits
      /\ comparing' = [comparing EXCEPT ![d] = NoClient]
    BY DEF verify_Compare
<1>4. \/ failedAttempts'[c].count = failedAttempts[c].count + 1
      \/ failedAttempts'[c].count = 0
    BY <1>1 DEF verify_Compare, recordFailure, LoginsShape, None
<1>5. \A x \in Client : x # c => failedAttempts'[x] = failedAttempts[x]
    BY <1>1 DEF verify_Compare, recordFailure, LoginsShape
<1>6. LoginsShape'
  <2>1. CASE recordFailure(c)
      BY <1>1, <1>2, <1>3, <2>1 DEF LoginsShape, recordFailure
  <2>2. CASE failedAttempts' = [failedAttempts EXCEPT ![c] = None]
    <3>1. None \in [count : Nat, age : Nat] BY DEF None
    <3> QED BY <1>1, <1>3, <2>2, <3>1 DEF LoginsShape
  <2> QED BY <2>1, <2>2 DEF verify_Compare
<1>7. LimitIsLoosest' BY <1>3 DEF LimitIsLoosest
<1>8. ASSUME NEW x \in Client
      PROVE  failedAttempts'[x].count + Cardinality(Waiting(x)') < loosest[x] + Cardinality(Door)
  <2>1. Waiting(x) \in SUBSET Door /\ Waiting(x)' \in SUBSET Door BY DEF Waiting
  <2>2. failedAttempts[x].count + Cardinality(Waiting(x)) < loosest[x] + Cardinality(Door)
      BY DEF UnderWay
  <2>3. CASE x = c
    <3>1. d \in Waiting(x) /\ Waiting(x)' = Waiting(x) \ {d}
        BY <1>1, <1>3, <2>3, LoginsAssumption DEF Waiting, LoginsShape
    <3>2. Cardinality(Waiting(x)') = Cardinality(Waiting(x)) - 1 BY <2>1, <3>1, DoorsCounted
    <3> QED BY <1>2, <1>4, <2>1, <2>2, <2>3, <3>2, DoorsCounted
  <2>4. CASE x # c
    <3>1. Waiting(x)' = Waiting(x)
        BY <1>3, <2>4, LoginsAssumption DEF Waiting, LoginsShape
    <3> QED BY <1>5, <2>2, <2>4, <3>1
  <2> QED BY <2>3, <2>4
<1>9. UnderWay' BY <1>3, <1>8 DEF UnderWay
<1> QED BY <1>6, <1>7, <1>9

\* A new limit counts for the failures there are, and time changes no count.
LEMMA LoginsOther ==
    ASSUME LoginsInv, secondPasses \/ (\E l \in Limits : reloadConfig(l)) PROVE LoginsInv'
<1> USE DEF LoginsInv
<1>1. \A x \in Client : loosest[x] \in Nat /\ loosest[x] >= 1 /\ failedAttempts[x].count \in Nat
    BY TriesAreCounted DEF LoginsShape
<1>2. CASE secondPasses
  <2>1. /\ \A x \in Client : failedAttempts'[x].count = failedAttempts[x].count
        /\ (failedAttempts \in [Client -> [count : Nat, age : Nat]])'
      BY <1>2 DEF secondPasses, LoginsShape
  <2>2. LoginsShape' BY <1>2, <2>1 DEF secondPasses, LoginsShape
  <2>3. LimitIsLoosest' BY <1>2 DEF secondPasses, LimitIsLoosest
  <2>4. UnderWay'
      BY <1>2, <2>1 DEF secondPasses, UnderWay, Waiting
  <2> QED BY <2>2, <2>3, <2>4
<1>3. CASE \E l \in Limits : reloadConfig(l)
  <2> PICK l \in Limits : reloadConfig(l) BY <1>3
  <2>1. l.tries \in Nat BY TriesAreCounted
  <2>2. LoginsShape' BY DEF reloadConfig, LoginsShape
  <2>3. \A x \in Client : loosest'[x] \in Nat /\ loosest'[x] >= loosest[x] /\ loosest'[x] >= l.tries
      BY <1>1, <2>1 DEF reloadConfig
  <2>4. LimitIsLoosest' BY <2>3 DEF reloadConfig, LimitIsLoosest
  <2>5. ASSUME NEW x \in Client
        PROVE  failedAttempts[x].count + Cardinality(Waiting(x)) < loosest'[x] + Cardinality(Door)
    <3>1. Waiting(x) \in SUBSET Door BY DEF Waiting
    <3> QED BY <1>1, <2>3, <3>1, DoorsCounted DEF UnderWay
  <2>6. failedAttempts' = failedAttempts /\ comparing' = comparing BY DEF reloadConfig
  <2>7. UnderWay' BY <2>5, <2>6 DEF UnderWay, Waiting
  <2> QED BY <2>2, <2>4, <2>7
<1> QED BY <1>2, <1>3

LEMMA LoginsInductive == LoginsInv /\ [LoginsNext]_loginVars => LoginsInv'
<1> SUFFICES ASSUME LoginsInv, [LoginsNext]_loginVars PROVE LoginsInv' OBVIOUS
<1>1. CASE UNCHANGED loginVars
    BY <1>1 DEF loginVars, LoginsInv, LoginsShape, LimitIsLoosest, UnderWay, Waiting
<1>2. CASE LoginsNext BY <1>2, LoginsVerify, LoginsCompare, LoginsOther DEF LoginsNext
<1> QED BY <1>1, <1>2

LEMMA LoginsHold == LoginsInv => GuessesBounded
<1> SUFFICES ASSUME LoginsInv PROVE GuessesBounded OBVIOUS
<1> USE DEF LoginsInv
<1>1. LoginsTypeOK
  <2>1. \A c \in Client : \E l \in Limits : loosest[c] = l.tries BY DEF LoginsShape
  <2> QED BY <2>1 DEF LoginsTypeOK, LoginsShape
<1>2. ASSUME NEW c \in Client PROVE failedAttempts[c].count < loosest[c] + Cardinality(Door)
  <2>1. Cardinality(Waiting(c)) \in Nat BY DoorsCounted DEF Waiting
  <2>2. loosest[c] \in Nat /\ failedAttempts[c].count \in Nat BY TriesAreCounted DEF LoginsShape
  <2> QED BY <2>1, <2>2, DoorsCounted DEF UnderWay
<1> QED BY <1>1, <1>2 DEF GuessesBounded

(* However many tasks of the web server ask AuthManager at once, a client   *)
(* gets no more wrong passwords compared before it is locked out than the   *)
(* loosest limit since its first failure allows, and one for each task.     *)
THEOREM GuessesStayBounded == Spec => []GuessesBounded
<1>1. Init => LoginsInv BY LoginsStart DEF Init
<1>2. LoginsInv /\ [Next]_vars => LoginsInv' BY OneAtATime, LoginsInductive
<1> QED BY <1>1, <1>2, LoginsHold, PTL DEF Spec

-----------------------------------------------------------------------------
(* The generator of certificates.  The run whose task is at work is the     *)
(* newest and holds the gate; the slot holds the newest run's result or     *)
(* none, and a signal that is given is the slot's.                          *)
AtWork == {"generate", "signal", "release"}
Newest(r) == \A s \in GenRun : s > r => stage[s] = "none"

RunsInOrder == \A r, s \in GenRun : s < r /\ stage[r] # "none" => stage[s] # "none"
GateHeld == \A r \in GenRun : stage[r] \in AtWork => ~gate /\ Newest(r)
WaitsForStarted == \A p \in Port : ticket[p] # 0 => stage[ticket[p]] # "none"
SlotIsNewest ==
    /\ slot.run # 0 => stage[slot.run] # "none" /\ Newest(slot.run)
    /\ \A r \in GenRun : stage[r] \in {"signal", "release"} => slot.run = r
SignalIsSlots ==
    /\ given # 0 => slot.run = given
    /\ \A r \in GenRun : stage[r] = "generate" => given = 0
OwnAnswers == \A p \in Port : answered[p].newest => answered[p].got.run = answered[p].asked
GenerateInv ==
    /\ GenerateTypeOK /\ RunsInOrder /\ GateHeld /\ WaitsForStarted
    /\ SlotIsNewest /\ SignalIsSlots /\ OwnAnswers

\* The numbers of the runs.
LEMMA RunNumbers == GenRun \subseteq Nat \ {0} /\ 0 .. MaxRun = GenRun \cup {0}
BY GenerateAssumption DEF GenRun

LEMMA GenerateStart == GenerateInit => GenerateInv
<1> SUFFICES ASSUME GenerateInit PROVE GenerateInv OBVIOUS
<1>0. 0 \in 0 .. MaxRun BY GenerateAssumption
<1>1. NoResult \in Result BY <1>0 DEF NoResult, Result
<1>2. GenerateTypeOK BY <1>0, <1>1 DEF GenerateInit, GenerateTypeOK
<1>3. RunsInOrder /\ GateHeld BY DEF GenerateInit, RunsInOrder, GateHeld, AtWork
<1>4. WaitsForStarted BY DEF GenerateInit, WaitsForStarted
<1>5. SlotIsNewest BY DEF GenerateInit, SlotIsNewest, NoResult
<1>6. SignalIsSlots /\ OwnAnswers BY DEF GenerateInit, SignalIsSlots, OwnAnswers, NoResult
<1> QED BY <1>2, <1>3, <1>4, <1>5, <1>6 DEF GenerateInv

\* A run begins: the slot is emptied and no signal is left.
LEMMA GenerateBegins ==
    ASSUME GenerateInv, NEW p \in Port, NEW run \in GenRun, runGeneration(p, run)
    PROVE  GenerateInv'
<1> USE DEF GenerateInv
<1>0. run \in 0 .. MaxRun /\ 0 \in 0 .. MaxRun BY RunNumbers
<1>1. NoResult \in Result BY <1>0 DEF NoResult, Result
<1>2. GenerateTypeOK' BY <1>0, <1>1 DEF runGeneration, GenerateTypeOK
<1>3. /\ \A r \in GenRun : r # run => stage'[r] = stage[r]
      /\ stage'[run] \in {"generate", "gone"}
      /\ stage'[run] = "generate" => ~gate'
      /\ gate /\ slot'.run = 0 /\ given' = 0 /\ answered' = answered
    BY DEF runGeneration, GenerateTypeOK, NoResult
<1>4. \A r \in GenRun : r < run => stage[r] # "none" BY DEF runGeneration
<1>5. \A r \in GenRun : r > run => stage[r] = "none" BY RunNumbers DEF runGeneration, RunsInOrder
<1>6. RunsInOrder' BY <1>3, <1>4, <1>5, RunNumbers DEF RunsInOrder
<1>7. GateHeld'
  <2>1. \A r \in GenRun : r # run => stage'[r] \notin AtWork BY <1>3 DEF GateHeld
  <2>2. Newest(run)' BY <1>3, <1>5, RunNumbers DEF Newest
  <2> QED BY <1>3, <2>1, <2>2 DEF GateHeld, AtWork
<1>8. WaitsForStarted'
  <2>1. \A q \in Port : ticket'[q] \in {ticket[q], run} BY DEF runGeneration, GenerateTypeOK
  <2>2. \A q \in Port : ticket'[q] # 0 => ticket'[q] \in GenRun
      BY <1>2, RunNumbers DEF GenerateTypeOK
  <2> QED BY <1>3, <2>1, <2>2 DEF WaitsForStarted
<1>9. SlotIsNewest'
  <2>1. \A r \in GenRun : r # run => stage'[r] \notin {"signal", "release"} BY <1>3 DEF GateHeld, AtWork
  <2> QED BY <1>3, <2>1 DEF SlotIsNewest
<1>10. SignalIsSlots' /\ OwnAnswers' BY <1>3 DEF SignalIsSlots, OwnAnswers
<1> QED BY <1>2, <1>6, <1>7, <1>8, <1>9, <1>10

\* The task of a run: the slot, the signal, the gate.
LEMMA GenerateTask ==
    ASSUME GenerateInv, NEW run \in GenRun, generateTask(run) PROVE GenerateInv'
<1> USE DEF GenerateInv
<1>0. run \in 0 .. MaxRun /\ run # 0 BY RunNumbers
<1>1. stage[run] \in AtWork /\ ~gate /\ Newest(run) BY DEF generateTask, AtWork, GateHeld
<1>2. \A r \in GenRun : stage[r] \in AtWork => r = run
    BY <1>1, RunNumbers DEF GateHeld, Newest, AtWork
<1>3. /\ \A r \in GenRun : r # run => stage'[r] = stage[r]
      /\ stage'[run] \in {"signal", "release", "gone"}
      /\ ticket' = ticket /\ answered' = answered
    BY DEF generateTask, GenerateTypeOK
<1>4. \A r \in GenRun : stage'[r] = "none" <=> stage[r] = "none"
    BY <1>1, <1>3 DEF AtWork
<1>5. GenerateTypeOK'
  <2>1. \A ok \in BOOLEAN : [run |-> run, ok |-> ok] \in Result BY <1>0 DEF Result
  <2>2. slot' \in Result BY <2>1 DEF generateTask, GenerateTypeOK
  <2>3. given' \in 0 .. MaxRun /\ gate' \in BOOLEAN BY <1>0 DEF generateTask, GenerateTypeOK
  <2>4. (stage \in [GenRun -> {"none", "generate", "signal", "release", "gone"}])'
      BY DEF generateTask, GenerateTypeOK
  <2> QED BY <1>3, <2>2, <2>3, <2>4 DEF GenerateTypeOK
<1>6. RunsInOrder' BY <1>4 DEF RunsInOrder
<1>7. \A r : Newest(r)' <=> Newest(r) BY <1>4 DEF Newest
<1>8. GateHeld'
  <2>1. \A r \in GenRun : r # run => stage'[r] \notin AtWork BY <1>2, <1>3
  <2>2. stage'[run] \in AtWork => gate' = gate BY DEF generateTask, AtWork, GenerateTypeOK
  <2> QED BY <1>1, <1>7, <2>1, <2>2 DEF GateHeld
<1>9. WaitsForStarted'
  <2>1. \A q \in Port : ticket[q] # 0 => ticket[q] \in GenRun BY RunNumbers DEF GenerateTypeOK
  <2> QED BY <1>3, <1>4, <2>1 DEF WaitsForStarted
<1>10. slot'.run = run
    BY DEF generateTask, SlotIsNewest
<1>11. SlotIsNewest'
  <2>1. \A r \in GenRun : r # run => stage'[r] \notin {"signal", "release"}
      BY <1>2, <1>3 DEF AtWork
  <2>2. stage'[run] # "none" BY <1>3
  <2> QED BY <1>1, <1>7, <1>10, <2>1, <2>2 DEF SlotIsNewest
<1>12. SignalIsSlots'
  <2>1. given' \in {0, run}
      BY <1>10 DEF generateTask, SignalIsSlots, SlotIsNewest
  <2>2. \A r \in GenRun : stage'[r] # "generate" BY <1>2, <1>3 DEF AtWork
  <2> QED BY <1>10, <2>1, <2>2 DEF SignalIsSlots
<1>13. OwnAnswers' BY <1>3 DEF OwnAnswers
<1> QED BY <1>5, <1>6, <1>8, <1>9, <1>11, <1>12, <1>13

\* The page: what it takes when its run is the newest is the slot of its run.
LEMMA GeneratePage ==
    ASSUME GenerateInv, NEW p \in Port, generationAnswered(p) \/ generationTimedOut(p)
    PROVE  GenerateInv'
<1> USE DEF GenerateInv
<1>0. 0 \in 0 .. MaxRun BY GenerateAssumption
<1>1. /\ gate' = gate /\ slot' = slot /\ stage' = stage /\ given' = 0
      /\ ticket' = [ticket EXCEPT ![p] = 0]
    BY DEF generationAnswered, generationTimedOut
<1>2. ticket[p] \in GenRun /\ stage[ticket[p]] # "none"
    BY RunNumbers DEF generationAnswered, generationTimedOut, GenerateTypeOK, WaitsForStarted
<1>3. GenerateTypeOK'
  <2>1. (answered \in [Port -> [asked : 0 .. MaxRun, newest : BOOLEAN, got : Result]])'
    <3> DEFINE now == [asked |-> ticket[p], got |-> slot,
                       newest |-> \A r \in GenRun : r > ticket[p] => stage[r] = "none"]
    <3>1. now \in [asked : 0 .. MaxRun, newest : BOOLEAN, got : Result]
        BY <1>2, RunNumbers DEF GenerateTypeOK
    <3>2. answered' = answered \/ answered' = [answered EXCEPT ![p] = now]
        BY DEF generationAnswered, generationTimedOut
    <3> HIDE DEF now
    <3> QED BY <3>1, <3>2 DEF GenerateTypeOK
  <2> QED BY <1>0, <1>1, <2>1 DEF GenerateTypeOK
<1>4. RunsInOrder' /\ GateHeld' /\ SlotIsNewest' /\ SignalIsSlots'
    BY <1>1 DEF RunsInOrder, GateHeld, Newest, SlotIsNewest, SignalIsSlots
<1>5. WaitsForStarted' BY <1>1 DEF WaitsForStarted, GenerateTypeOK
<1>6. OwnAnswers'
  <2>1. CASE generationTimedOut(p) BY <2>1 DEF generationTimedOut, OwnAnswers
  <2>2. CASE generationAnswered(p)
    <3>1. slot.run # 0 /\ slot.run \in GenRun /\ stage[slot.run] # "none" /\ Newest(slot.run)
        BY <2>2, RunNumbers DEF generationAnswered, SignalIsSlots, SlotIsNewest, GenerateTypeOK, Result
    <3>2. Newest(ticket[p]) => slot.run = ticket[p]
        BY <1>2, <3>1, RunNumbers DEF Newest
    <3>3. /\ answered'[p].newest = Newest(ticket[p])
          /\ answered'[p].got = slot /\ answered'[p].asked = ticket[p]
          /\ \A q \in Port : q # p => answered'[q] = answered[q]
        BY <2>2 DEF generationAnswered, GenerateTypeOK, Newest
    <3> QED BY <3>2, <3>3 DEF OwnAnswers
  <2> QED BY <2>1, <2>2
<1> QED BY <1>3, <1>4, <1>5, <1>6

LEMMA GenerateInductive == GenerateInv /\ [GenerateNext]_generateVars => GenerateInv'
<1> SUFFICES ASSUME GenerateInv, [GenerateNext]_generateVars PROVE GenerateInv' OBVIOUS
<1>1. CASE UNCHANGED generateVars
    BY <1>1 DEF generateVars, GenerateInv, GenerateTypeOK, RunsInOrder, GateHeld, Newest,
                WaitsForStarted, SlotIsNewest, SignalIsSlots, OwnAnswers
<1>2. CASE GenerateNext
    BY <1>2, GenerateBegins, GenerateTask, GeneratePage DEF GenerateNext, generateWork
<1> QED BY <1>1, <1>2

(* However many pairs are asked for, a page that waits for the newest run   *)
(* is answered with the result of that run and never with what an earlier   *)
(* run, whose page gave up, signalled late (runCertificateGeneration).      *)
THEOREM AnswersStayOwn == Spec => []AnswerIsOwn
<1>1. Init => GenerateInv BY GenerateStart DEF Init
<1>2. GenerateInv /\ [Next]_vars => GenerateInv' BY OneAtATime, GenerateInductive
<1>3. GenerateInv => AnswerIsOwn BY DEF GenerateInv, AnswerIsOwn, OwnAnswers
<1> QED BY <1>1, <1>2, <1>3, PTL DEF Spec

-----------------------------------------------------------------------------
(* The updates.  The partition that runs is never written, so one partition *)
(* always holds an image; an upload that is alone owns the other one.  The  *)
(* files of the folder are the only ones written to the web tree, and a     *)
(* prune has on its list all that is left besides them.                     *)
UploadRequest ==
    [step : OtaSteps \cup {"idle", "write", "prune", "pruned"},
     what : Path \cup {"none", "ota", "failed"}, list : SUBSET (Path \ Folder)]
UpdatesShape ==
    /\ flash \in [Partition -> Image] /\ boot \in Partition /\ running \in Partition
    /\ tree \in [Path -> Content] /\ sent \subseteq Folder
    /\ promised \in BOOLEAN /\ crossed \in BOOLEAN
    /\ upload \in [Entrance -> UploadRequest]
RunsAnImage == flash[running] # "part"
CrossingIsSeen == \A e, f \in Entrance : e # f /\ updating(e) /\ updating(f) => crossed
CheckedIsNew ==
    \A e \in Entrance : upload[e].step = "point" /\ ~crossed => flash[nextUpdatePartition] = "new"
PromiseIsKept ==
    promised => /\ \E e \in Entrance : upload[e].step = "answered"
                /\ ~crossed => flash[boot] = "new"
SentIsWhole == \A p \in sent : tree[p] = "file"
OnlyTheFolder == \A e \in Entrance : upload[e].step = "write" => upload[e].what \in Folder
ListIsEnough ==
    \A e \in Entrance :
        /\ upload[e].step = "prune" /\ upload[e].what # "failed" => extra \subseteq upload[e].list
        /\ upload[e].step = "pruned" => extra = {}
FlashInv == RunsAnImage /\ CrossingIsSeen /\ CheckedIsNew /\ PromiseIsKept
TreeInv == SentIsWhole /\ OnlyTheFolder /\ ListIsEnough
UpdatesInv == UpdatesShape /\ FlashInv /\ TreeInv

\* There are two partitions, and an update goes to the one that does not run.
LEMMA TheOtherPartition ==
    ASSUME running \in Partition
    PROVE  nextUpdatePartition \in Partition /\ nextUpdatePartition # running
BY DEF nextUpdatePartition, Partition

\* The request of the entrance e goes on; what the others are at stays.
LEMMA UploadMoves ==
    ASSUME upload \in [Entrance -> UploadRequest], NEW e \in Entrance
    PROVE  /\ leaves(e) => upload' \in [Entrance -> UploadRequest] /\ upload'[e] = NoUpload
           /\ leaves(e) => \A f \in Entrance : f # e => upload'[f] = upload[f]
           /\ \A step \in OtaSteps \cup {"pruned"} : goesTo(e, step) =>
                 /\ upload' \in [Entrance -> UploadRequest]
                 /\ upload'[e].step = step
                 /\ \A f \in Entrance : f # e => upload'[f] = upload[f]
<1>1. NoUpload \in UploadRequest BY DEF NoUpload, UploadRequest
<1>2. ASSUME leaves(e)
      PROVE  /\ upload' \in [Entrance -> UploadRequest] /\ upload'[e] = NoUpload
             /\ \A f \in Entrance : f # e => upload'[f] = upload[f]
    BY <1>1, <1>2 DEF leaves
<1>3. ASSUME NEW step \in OtaSteps \cup {"pruned"}, goesTo(e, step)
      PROVE  /\ upload' \in [Entrance -> UploadRequest]
             /\ upload'[e].step = step
             /\ \A f \in Entrance : f # e => upload'[f] = upload[f]
  <2>1. [upload[e] EXCEPT !.step = step] \in UploadRequest BY DEF UploadRequest
  <2>2. upload' = [upload EXCEPT ![e] = [upload[e] EXCEPT !.step = step]] BY <1>3 DEF goesTo
  <2>3. [upload[e] EXCEPT !.step = step].step = step BY DEF UploadRequest
  <2> QED BY <2>1, <2>2, <2>3
<1> QED BY <1>2, <1>3

\* What the files of the tree leave alone.
LEMMA FlashKept ==
    ASSUME FlashInv, UpdatesShape, NEW e \in Entrance,
           UNCHANGED <<flash, boot, running, promised, crossed>>,
           \A f \in Entrance : f # e => upload'[f] = upload[f],
           ~updating(e), ~updating(e)'
    PROVE  FlashInv'
<1>1. \A f \in Entrance : updating(f)' => f # e BY Zenon
<1>2. \A f \in Entrance : updating(f)' => updating(f) BY <1>1 DEF updating
<1>3. \A f \in Entrance : upload'[f].step = "point" => upload[f].step = "point"
    BY <1>1 DEF updating, OtaSteps
<1>4. RunsAnImage' BY DEF FlashInv, RunsAnImage
<1>5. CrossingIsSeen' BY <1>2 DEF FlashInv, CrossingIsSeen
<1>6. CheckedIsNew' BY <1>3 DEF FlashInv, CheckedIsNew, nextUpdatePartition
<1>7. \A f \in Entrance : upload[f].step = "answered" => upload'[f].step = "answered"
    BY DEF updating, OtaSteps
<1>8. PromiseIsKept' BY <1>7 DEF FlashInv, PromiseIsKept
<1> QED BY <1>4, <1>5, <1>6, <1>8 DEF FlashInv

\* What the flash leaves alone.
LEMMA TreeKept ==
    ASSUME TreeInv, NEW e \in Entrance, UNCHANGED <<tree, sent>>,
           \A f \in Entrance : f # e => upload'[f] = upload[f],
           upload'[e].step \notin {"write", "prune", "pruned"}
    PROVE  TreeInv'
<1>1. extra' = extra BY DEF extra
<1>2. SentIsWhole' BY DEF TreeInv, SentIsWhole
<1>3. OnlyTheFolder' BY DEF TreeInv, OnlyTheFolder
<1>4. ListIsEnough' BY <1>1 DEF TreeInv, ListIsEnough
<1> QED BY <1>2, <1>3, <1>4 DEF TreeInv

LEMMA UpdatesStart == UpdatesInit => UpdatesInv
<1> SUFFICES ASSUME UpdatesInit PROVE UpdatesInv OBVIOUS
<1>1. UpdatesShape
    BY DEF UpdatesInit, UpdatesShape, Partition, Image, Content, UploadRequest, NoUpload
<1>2. FlashInv
    BY DEF UpdatesInit, FlashInv, RunsAnImage, CrossingIsSeen, CheckedIsNew, PromiseIsKept, updating,
           OtaSteps, NoUpload, Partition
<1>3. TreeInv
    BY DEF UpdatesInit, TreeInv, SentIsWhole, OnlyTheFolder, ListIsEnough, NoUpload
<1> QED BY <1>1, <1>2, <1>3 DEF UpdatesInv

\* A firmware upload begins: the partition beside the running one is erased.
LEMMA UpdatesOta ==
    ASSUME UpdatesInv, NEW e \in Entrance, handlePostOtaUpload(e) PROVE UpdatesInv'
<1> USE DEF UpdatesInv
<1>1. nextUpdatePartition \in Partition /\ nextUpdatePartition # running
    BY TheOtherPartition DEF UpdatesShape
<1>2. /\ upload[e].step = "idle" /\ upload'[e].step = "stream"
      /\ \A f \in Entrance : f # e => upload'[f] = upload[f]
      /\ UNCHANGED <<boot, running, tree, sent, promised>>
      /\ flash' = [flash EXCEPT ![nextUpdatePartition] = "part"]
      /\ crossed' = (crossed \/ \E f \in Entrance \ {e} : updating(f))
    BY DEF handlePostOtaUpload, UpdatesShape
<1>3. UpdatesShape'
  <2>1. [step |-> "stream", what |-> "ota", list |-> {}] \in UploadRequest
      BY DEF UploadRequest, OtaSteps
  <2>2. (upload \in [Entrance -> UploadRequest])' BY <2>1 DEF handlePostOtaUpload, UpdatesShape
  <2>3. (flash \in [Partition -> Image])' BY <1>1, <1>2 DEF UpdatesShape, Image
  <2>4. crossed' \in BOOLEAN BY <1>2 DEF UpdatesShape
  <2> QED BY <1>2, <2>2, <2>3, <2>4 DEF UpdatesShape
<1>4. RunsAnImage' BY <1>1, <1>2 DEF FlashInv, RunsAnImage, UpdatesShape
<1>5. CrossingIsSeen'
    BY <1>2, Zenon DEF FlashInv, CrossingIsSeen, updating
<1>6. \A f \in Entrance : upload'[f].step \in {"point", "answered"} => crossed'
    BY <1>2 DEF updating, OtaSteps
<1>7. CheckedIsNew' BY <1>6 DEF CheckedIsNew
<1>8. PromiseIsKept'
  <2>1. promised => \E f \in Entrance : upload'[f].step = "answered"
      BY <1>2 DEF FlashInv, PromiseIsKept
  <2> QED BY <1>2, <1>6, <2>1 DEF PromiseIsKept
<1>9. TreeInv' BY <1>2, TreeKept
<1> QED BY <1>3, <1>4, <1>5, <1>7, <1>8, <1>9 DEF FlashInv

\* The steps of the firmware upload: an upload that is alone finds what it wrote.
LEMMA UpdatesOtaGoesOn ==
    ASSUME UpdatesInv, NEW e \in Entrance, ota_Stream(e) \/ ota_End(e) \/ ota_Point(e)
    PROVE  UpdatesInv'
<1> USE DEF UpdatesInv
<1>1. nextUpdatePartition \in Partition /\ nextUpdatePartition # running
    BY TheOtherPartition DEF UpdatesShape
<1>2. /\ UNCHANGED <<running, tree, sent, crossed>>
      /\ upload[e].step \in {"stream", "end", "point"}
    BY DEF ota_Stream, ota_End, ota_Point
<1>3. updating(e) BY <1>2 DEF updating, OtaSteps
<1>4. \/ leaves(e)
      \/ goesTo(e, "end") \/ goesTo(e, "point") \/ goesTo(e, "answered")
    BY DEF ota_Stream, ota_End, ota_Point
<1>5. /\ upload' \in [Entrance -> UploadRequest]
      /\ upload'[e].step \in {"idle", "end", "point", "answered"}
      /\ \A f \in Entrance : f # e => upload'[f] = upload[f]
  <2>1. upload \in [Entrance -> UploadRequest] BY DEF UpdatesShape
  <2>2. {"end", "point", "answered"} \subseteq OtaSteps \cup {"pruned"} BY DEF OtaSteps
  <2>3. CASE leaves(e) BY <2>1, <2>3, UploadMoves DEF NoUpload
  <2>4. CASE ~leaves(e) BY <1>4, <2>1, <2>2, <2>4, UploadMoves
  <2> QED BY <2>3, <2>4
<1>6. /\ flash' \in [Partition -> Image] /\ boot' \in Partition /\ promised' \in BOOLEAN
      /\ flash'[running] = flash[running]
    BY <1>1 DEF UpdatesShape, ota_Stream, ota_End, ota_Point, Image
<1>7. UpdatesShape' BY <1>2, <1>5, <1>6 DEF UpdatesShape
<1>8. RunsAnImage' BY <1>2, <1>6 DEF FlashInv, RunsAnImage
<1>9. \A f \in Entrance : updating(f)' => updating(f)
    BY <1>3, <1>5 DEF updating
<1>10. CrossingIsSeen' BY <1>2, <1>9 DEF FlashInv, CrossingIsSeen
<1>11. ~crossed => \A f \in Entrance : f # e => upload[f].step \notin OtaSteps
    BY <1>3 DEF FlashInv, CrossingIsSeen, updating
<1>12. nextUpdatePartition' = nextUpdatePartition BY <1>2 DEF nextUpdatePartition
<1>13. CheckedIsNew'
  <2> SUFFICES ASSUME NEW f \in Entrance, upload'[f].step = "point", ~crossed
               PROVE  flash'[nextUpdatePartition] = "new"
      BY <1>2, <1>12 DEF CheckedIsNew
  <2>1. f = e BY <1>5, <1>11 DEF OtaSteps
  <2>2. ~leaves(e) BY <2>1, UploadMoves DEF NoUpload, UpdatesShape
  <2>3. ota_End(e)
    <3>1. "end" \in OtaSteps \cup {"pruned"} /\ "answered" \in OtaSteps \cup {"pruned"} BY DEF OtaSteps
    <3>2. ~goesTo(e, "end") /\ ~goesTo(e, "answered")
        BY <2>1, <3>1, UploadMoves DEF UpdatesShape
    <3> QED BY <2>2, <3>2 DEF ota_Stream, ota_End, ota_Point
  <2> QED BY <2>2, <2>3 DEF ota_End
<1>14. PromiseIsKept'
  <2> SUFFICES ASSUME promised'
               PROVE  /\ \E f \in Entrance : upload'[f].step = "answered"
                      /\ ~crossed => flash'[boot'] = "new"
      BY <1>2 DEF PromiseIsKept
  <2>1. CASE ota_Point(e) /\ goesTo(e, "answered") /\ boot' = nextUpdatePartition
    <3>1. upload'[e].step = "answered" BY <2>1, UploadMoves DEF UpdatesShape, OtaSteps
    <3>2. ~crossed => flash[nextUpdatePartition] = "new" BY <2>1 DEF FlashInv, CheckedIsNew, ota_Point
    <3> QED BY <2>1, <3>1, <3>2 DEF ota_Point
  <2>2. CASE UNCHANGED <<boot, promised>>
    <3>1. PICK f \in Entrance : upload[f].step = "answered" BY <2>2 DEF FlashInv, PromiseIsKept
    <3>2. f # e BY <1>2, <3>1
    <3>3. crossed BY <1>3, <3>1, <3>2 DEF FlashInv, CrossingIsSeen, updating, OtaSteps
    <3> QED BY <1>5, <3>1, <3>2, <3>3
  <2> QED BY <2>1, <2>2 DEF ota_Stream, ota_End, ota_Point
<1>15. TreeInv' BY <1>2, <1>5, TreeKept
<1> QED BY <1>7, <1>8, <1>10, <1>13, <1>14, <1>15 DEF FlashInv

\* A restart: what the boot loader takes holds an image.
LEMMA UpdatesRestart == ASSUME UpdatesInv, deviceRestarts PROVE UpdatesInv'
<1> USE DEF UpdatesInv
<1>1. bootable \in Partition /\ flash[bootable] # "part"
    BY DEF UpdatesShape, FlashInv, RunsAnImage, bootable, Partition
<1>2. /\ UNCHANGED <<flash, boot, tree>> /\ running' = bootable /\ sent' = {}
      /\ promised' = FALSE /\ crossed' = FALSE
      /\ upload' = [f \in Entrance |-> NoUpload]
    BY DEF deviceRestarts
<1>3. NoUpload \in UploadRequest /\ NoUpload.step = "idle" BY DEF NoUpload, UploadRequest
<1>4. UpdatesShape' BY <1>1, <1>2, <1>3 DEF UpdatesShape
<1>5. FlashInv'
    BY <1>1, <1>2, <1>3
       DEF FlashInv, RunsAnImage, CrossingIsSeen, CheckedIsNew, PromiseIsKept, updating, OtaSteps
<1>6. TreeInv' BY <1>2, <1>3 DEF TreeInv, SentIsWhole, OnlyTheFolder, ListIsEnough
<1> QED BY <1>4, <1>5, <1>6

\* A file of the web tree comes: nothing outside the folder is touched.
LEMMA UpdatesWebFile ==
    ASSUME UpdatesInv, NEW e \in Entrance,
           webFile_End(e) \/ (\E p \in Folder : handlePostWebFile(e, p))
    PROVE  UpdatesInv'
<1> USE DEF UpdatesInv
<1>1. Folder \subseteq Path BY UpdatesAssumption
<1>2. PICK p \in Folder : \/ handlePostWebFile(e, p)
                          \/ webFile_End(e) /\ upload[e].what = p
    BY DEF webFile_End, TreeInv, OnlyTheFolder
<1>3. /\ upload' \in [Entrance -> UploadRequest]
      /\ \A f \in Entrance : f # e => upload'[f] = upload[f]
      /\ upload'[e].step \in {"idle", "write"} /\ upload[e].step \in {"idle", "write"}
      /\ upload'[e].step = "write" => upload'[e].what = p
  <2>1. CASE handlePostWebFile(e, p)
    <3>1. [step |-> "write", what |-> p, list |-> {}] \in UploadRequest BY <1>1 DEF UploadRequest
    <3> QED BY <2>1, <3>1 DEF handlePostWebFile, UpdatesShape
  <2>2. CASE webFile_End(e) BY <2>2, UploadMoves DEF webFile_End, UpdatesShape, NoUpload
  <2> QED BY <1>2, <2>1, <2>2
<1>4. /\ UNCHANGED <<flash, boot, running, promised, crossed>>
      /\ tree' \in [Path -> Content]
      /\ \A q \in Path : q # p => tree'[q] = tree[q]
      /\ sent' \subseteq sent \cup {p}
      /\ p \in sent' => tree'[p] = "file"
    BY <1>1, <1>2 DEF handlePostWebFile, webFile_End, UpdatesShape, Content, TreeInv, SentIsWhole
<1>5. UpdatesShape' BY <1>3, <1>4 DEF UpdatesShape
<1>6. FlashInv' BY <1>3, <1>4, FlashKept DEF updating, OtaSteps
<1>7. SentIsWhole' BY <1>1, <1>4 DEF TreeInv, SentIsWhole, UpdatesShape
<1>8. OnlyTheFolder' BY <1>3 DEF TreeInv, OnlyTheFolder
<1>9. extra' = extra BY <1>1, <1>4 DEF extra
<1>10. ListIsEnough' BY <1>3, <1>9 DEF TreeInv, ListIsEnough
<1> QED BY <1>5, <1>6, <1>7, <1>8, <1>10 DEF TreeInv

\* The prune: a file goes from the list when it goes from the tree.
LEMMA UpdatesPrune ==
    ASSUME UpdatesInv, NEW e \in Entrance,
           handlePostWebSync(e) \/ webSync_Remove(e) \/ webSync_End(e) \/ webSync_Answered(e)
    PROVE  UpdatesInv'
<1> USE DEF UpdatesInv
<1> DEFINE Steps == {"idle", "prune", "pruned"}
<1>1. /\ upload' \in [Entrance -> UploadRequest]
      /\ \A f \in Entrance : f # e => upload'[f] = upload[f]
      /\ upload[e].step \in Steps /\ upload'[e].step \in Steps
      /\ tree' \in [Path -> Content]
      /\ \A q \in Path : tree'[q] = tree[q] \/ (q \notin Folder /\ tree'[q] = "none")
      /\ UNCHANGED <<flash, boot, running, sent, promised, crossed>>
      /\ upload'[e].step = "prune" /\ upload'[e].what # "failed" => extra' \subseteq upload'[e].list
      /\ upload'[e].step = "pruned" => extra' = {}
  <2>1. CASE handlePostWebSync(e)
    <3>1. [step |-> "prune", what |-> "none", list |-> extra] \in UploadRequest
        BY DEF UploadRequest, extra
    <3>2. extra' = extra /\ UNCHANGED tree BY <2>1 DEF extra, handlePostWebSync
    <3> QED BY <2>1, <3>1, <3>2 DEF handlePostWebSync, UpdatesShape
  <2>2. CASE webSync_Remove(e)
    <3>1. PICK p \in upload[e].list :
             \/ upload' = [upload EXCEPT ![e].list = @ \ {p}] /\ tree' = [tree EXCEPT ![p] = "none"]
             \/ upload' = [upload EXCEPT ![e].list = @ \ {p}, ![e].what = "failed"]
                /\ UNCHANGED tree
        BY <2>2 DEF webSync_Remove
    <3>2. p \in Path \ Folder BY DEF UpdatesShape, UploadRequest
    <3>3. upload[e] \in UploadRequest /\ upload[e].step = "prune"
          /\ UNCHANGED <<flash, boot, running, sent, promised, crossed>>
        BY <2>2 DEF UpdatesShape, webSync_Remove
    <3>4. CASE upload' = [upload EXCEPT ![e].list = @ \ {p}] /\ tree' = [tree EXCEPT ![p] = "none"]
      <4>1. [upload[e] EXCEPT !.list = @ \ {p}] \in UploadRequest BY <3>3 DEF UploadRequest
      <4>2. upload' = [upload EXCEPT ![e] = [upload[e] EXCEPT !.list = @ \ {p}]] BY <3>4
      <4>3. /\ upload'[e].step = "prune" /\ upload'[e].what = upload[e].what
            /\ upload'[e].list = upload[e].list \ {p}
          BY <3>3, <4>2 DEF UpdatesShape, UploadRequest
      <4>4. tree' \in [Path -> Content] BY <3>4 DEF UpdatesShape, Content
      <4>5. extra' = extra \ {p} BY <3>2, <3>4 DEF extra, UpdatesShape
      <4>6. upload[e].what # "failed" => extra \subseteq upload[e].list
          BY <3>3 DEF TreeInv, ListIsEnough
      <4>7. /\ upload' \in [Entrance -> UploadRequest]
            /\ \A f \in Entrance : f # e => upload'[f] = upload[f]
          BY <4>1, <4>2 DEF UpdatesShape
      <4>8. \A q \in Path : tree'[q] = tree[q] \/ (q \notin Folder /\ tree'[q] = "none")
          BY <3>2, <3>4 DEF UpdatesShape
      <4> QED BY <3>3, <4>3, <4>4, <4>5, <4>6, <4>7, <4>8
    <3>5. CASE /\ upload' = [upload EXCEPT ![e].list = @ \ {p}, ![e].what = "failed"]
               /\ UNCHANGED tree
      <4>1. [upload[e] EXCEPT !.list = @ \ {p}, !.what = "failed"] \in UploadRequest
          BY <3>3 DEF UploadRequest
      <4>2. upload'[e].step = "prune" /\ upload'[e].what = "failed"
          BY <3>3, <3>5 DEF UpdatesShape, UploadRequest
      <4> DEFINE now == [upload[e] EXCEPT !.list = @ \ {p}, !.what = "failed"]
      <4>4. upload' = [upload EXCEPT ![e] = now] BY <3>5
      <4>5. now \in UploadRequest BY <4>1
      <4> HIDE DEF now
      <4>3. /\ upload' \in [Entrance -> UploadRequest]
            /\ \A f \in Entrance : f # e => upload'[f] = upload[f]
          BY <4>4, <4>5 DEF UpdatesShape
      <4> QED BY <3>3, <3>5, <4>2, <4>3 DEF UpdatesShape
    <3> QED BY <3>1, <3>4, <3>5
  <2>3. CASE webSync_End(e)
    <3>1. UNCHANGED tree /\ extra' = extra /\ upload[e].step = "prune" BY <2>3 DEF webSync_End, extra
    <3>2. CASE leaves(e) BY <2>3, <3>1, <3>2, UploadMoves DEF UpdatesShape, NoUpload, webSync_End
    <3>3. CASE goesTo(e, "pruned") /\ upload[e].what # "failed"
      <4>1. upload[e].list = {} BY <2>3 DEF webSync_End
      <4>2. extra = {} BY <3>1, <3>3, <4>1 DEF TreeInv, ListIsEnough
      <4> QED BY <2>3, <3>1, <3>3, <4>2, UploadMoves DEF UpdatesShape, webSync_End
    <3> QED BY <2>3, <3>2, <3>3 DEF webSync_End
  <2>4. CASE webSync_Answered(e)
      BY <2>4, UploadMoves DEF webSync_Answered, UpdatesShape, NoUpload
  <2> QED BY <2>1, <2>2, <2>3, <2>4
<1>2. UpdatesShape' BY <1>1 DEF UpdatesShape
<1>3. FlashInv' BY <1>1, FlashKept DEF updating, OtaSteps
<1>4. SentIsWhole' BY <1>1, UpdatesAssumption DEF TreeInv, SentIsWhole, UpdatesShape
<1>5. OnlyTheFolder' BY <1>1 DEF TreeInv, OnlyTheFolder
<1>6. extra' \subseteq extra BY <1>1 DEF extra
<1>7. ListIsEnough' BY <1>1, <1>6 DEF TreeInv, ListIsEnough
<1> QED BY <1>2, <1>3, <1>4, <1>5, <1>7 DEF TreeInv

LEMMA UpdatesInductive == UpdatesInv /\ [UpdatesNext]_updateVars => UpdatesInv'
<1> SUFFICES ASSUME UpdatesInv, [UpdatesNext]_updateVars PROVE UpdatesInv' OBVIOUS
<1>1. CASE UNCHANGED updateVars
    BY <1>1 DEF updateVars, UpdatesInv, UpdatesShape, FlashInv, TreeInv, RunsAnImage, CrossingIsSeen,
                CheckedIsNew, PromiseIsKept, SentIsWhole, OnlyTheFolder, ListIsEnough, updating,
                nextUpdatePartition, extra
<1>2. CASE UpdatesNext
    BY <1>2, UpdatesOta, UpdatesOtaGoesOn, UpdatesRestart, UpdatesWebFile, UpdatesPrune
       DEF UpdatesNext, UpdatesWork, ota_Restart, handlePostDeviceReboot
<1> QED BY <1>1, <1>2

LEMMA UpdatesHold == UpdatesInv => UpdatesSafe
<1> SUFFICES ASSUME UpdatesInv PROVE UpdatesSafe OBVIOUS
<1> USE DEF UpdatesInv
<1>1. UpdatesTypeOK
  <2>1. sent \subseteq Path BY UpdatesAssumption DEF UpdatesShape
  <2> QED BY <2>1 DEF UpdatesTypeOK, UpdatesShape, UploadRequest
<1>2. DeviceStarts BY DEF DeviceStarts, UpdatesShape, FlashInv, RunsAnImage, bootable, Partition
<1>3. PromisedIsBooted BY DEF PromisedIsBooted, FlashInv, PromiseIsKept, bootable
<1>4. TreeIsFolder
    BY UpdatesAssumption DEF TreeIsFolder, TreeInv, SentIsWhole, ListIsEnough, extra
<1> QED BY <1>1, <1>2, <1>3, <1>4 DEF UpdatesSafe

(* Whatever is uploaded, breaks off, is restarted or crosses another        *)
(* upload, from however many tasks: the device finds an image to start; an  *)
(* update that was promised and not crossed is what it starts; and after a  *)
(* prune without a failure the web tree is the operator's folder.           *)
THEOREM UpdatesStaySafe == Spec => []UpdatesSafe
<1>1. Init => UpdatesInv BY UpdatesStart DEF Init
<1>2. UpdatesInv /\ [Next]_vars => UpdatesInv' BY OneAtATime, UpdatesInductive
<1> QED BY <1>1, <1>2, UpdatesHold, PTL DEF Spec

-----------------------------------------------------------------------------
(* The file of the statistics.  As long as no reset left something behind,  *)
(* every record anywhere was counted after the last reset; and what a job   *)
(* reported as saved is in its file, or, while the job is between the       *)
(* removal of the old file and the rename, in the part beside it.           *)
Writing == {"clear", "open", "write", "publish", "rename", "verify"}
Counted(r) == Whole(r) => r[2][1] = resets

BusyIsAJob == statBusy <=> statPc # "none"
CountedAfterReset ==
    ~revived => /\ counts[1] = resets /\ Counted(statFile) /\ Counted(statPart) /\ Counted(saved)
                /\ statPc \in Writing => jobTotals[1] = resets
SavedIsGivenUp ==
    /\ revived => saved = NoFile
    /\ attempt = 2 /\ statPc # "clear" => saved = NoFile
PartIsTheJobs ==
    /\ statPc = "write" => statPart \in {Torn, NoFile}
    /\ statPc \in {"publish", "rename"} => statPart \in {NoFile, <<"whole", jobTotals>>}
SavedIsThere ==
    Whole(saved) => \/ Whole(statFile)
                    \/ statFile = NoFile /\ Whole(statPart) /\ statPc \in {"rename", "clear"}
OkIsThere == statPc = "finish" /\ outcome = "ok" /\ ~revived => statFile = <<"whole", jobTotals>>
AskedIsManual ==
    /\ ~statBusy => ~wasAsked
    /\ statPc = "begin" /\ wasAsked /\ ~overtaken => jobManual
    /\ statPc = "finish" /\ wasAsked /\ ~overtaken => outcome # "skipped"
StatInv ==
    /\ StatTypeOK /\ BusyIsAJob /\ CountedAfterReset /\ SavedIsGivenUp
    /\ PartIsTheJobs /\ SavedIsThere /\ OkIsThere /\ AskedIsManual

\* What a record is.
LEMMA Records ==
    /\ \A t \in Totals : t[1] \in 0 .. MaxResets /\ t[2] \in 0 .. MaxCount
    /\ \A n \in 0 .. MaxResets, m \in 0 .. MaxCount : <<n, m>> \in Totals
    /\ \A t \in Totals : <<"whole", t>> \in StatRecord
    /\ \A r \in StatRecord : Whole(r) /\ r[2] \in Totals /\ r = <<"whole", r[2]>>
    /\ ~Whole(NoFile) /\ ~Whole(Torn) /\ NoFile # Torn
    /\ 0 \in 0 .. MaxResets /\ 0 \in 0 .. MaxCount
<1>1. \A t \in Totals : t[1] \in 0 .. MaxResets /\ t[2] \in 0 .. MaxCount BY DEF Totals
<1>2. \A n \in 0 .. MaxResets, m \in 0 .. MaxCount : <<n, m>> \in Totals BY DEF Totals
<1>3. \A t \in Totals : <<"whole", t>> \in StatRecord BY DEF StatRecord
<1>4. \A r \in StatRecord : Whole(r) /\ r[2] \in Totals /\ r = <<"whole", r[2]>>
    BY DEF StatRecord, Whole
<1>5. ~Whole(NoFile) /\ ~Whole(Torn) /\ NoFile # Torn BY DEF StatRecord, Whole, NoFile, Torn
<1>6. 0 \in 0 .. MaxResets /\ 0 \in 0 .. MaxCount BY StatAssumption
<1> QED BY <1>1, <1>2, <1>3, <1>4, <1>5, <1>6

LEMMA StatStart == StatInit => StatInv
<1> SUFFICES ASSUME StatInit PROVE StatInv OBVIOUS
<1>1. <<0, 0>> \in Totals BY Records
<1>2. StatTypeOK
  <2>1. counts \in Totals /\ jobTotals \in Totals /\ resets \in 0 .. MaxResets /\ attempt \in 1 .. 2
      BY <1>1, Records DEF StatInit
  <2> QED BY <2>1 DEF StatInit, StatTypeOK, Verdict
<1>3. BusyIsAJob /\ SavedIsGivenUp /\ PartIsTheJobs /\ OkIsThere /\ AskedIsManual
    BY DEF StatInit, BusyIsAJob, SavedIsGivenUp, PartIsTheJobs, OkIsThere, AskedIsManual
<1>4. CountedAfterReset /\ SavedIsThere
    BY Records DEF StatInit, CountedAfterReset, SavedIsThere, Counted, Writing
<1> QED BY <1>2, <1>3, <1>4 DEF StatInv

\* The switch, the counters and the requests: the volume is left alone.
LEMMA StatRequests ==
    ASSUME StatInv, count \/ setKeepStats \/ startStatsSaveJob(TRUE) \/ startStatsSaveJob(FALSE)
    PROVE  StatInv'
<1> USE DEF StatInv
<1>1. CASE count
  <2>1. counts[1] \in 0 .. MaxResets /\ counts[2] + 1 \in 0 .. MaxCount /\ counts = <<counts[1], counts[2]>>
      BY <1>1, StatAssumption DEF count, StatTypeOK, Totals
  <2>2. counts' = <<counts[1], counts[2] + 1>> BY <1>1, <2>1 DEF count
  <2>3. counts' \in Totals /\ counts'[1] = counts[1] BY <2>1, <2>2, Records
  <2>4. UNCHANGED <<statFile, statPart, keepStats, jobManual, statBusy, verdict, statPc, attempt,
                    jobTotals, outcome, resets, saved, wasAsked, overtaken, revived>>
      BY <1>1 DEF count, volumeVars, jobVars
  <2> QED BY <2>3, <2>4
      DEF StatTypeOK, BusyIsAJob, CountedAfterReset, Counted, SavedIsGivenUp, PartIsTheJobs,
          SavedIsThere, OkIsThere, AskedIsManual
<1>2. CASE setKeepStats
    BY <1>2 DEF setKeepStats, volumeVars, jobVars, StatTypeOK, BusyIsAJob, CountedAfterReset, Counted,
                SavedIsGivenUp, PartIsTheJobs, SavedIsThere, OkIsThere, AskedIsManual
<1>3. ASSUME NEW manual \in BOOLEAN, startStatsSaveJob(manual) PROVE StatInv'
  <2>1. /\ UNCHANGED <<counts, statFile, statPart, keepStats, attempt, jobTotals, outcome, resets, saved,
                       revived>>
        /\ jobManual' = manual
      BY <1>3 DEF startStatsSaveJob, volumeVars
  <2>2. \/ UNCHANGED <<statBusy, statPc, wasAsked>> /\ (statBusy => overtaken')
                /\ overtaken' \in BOOLEAN /\ verdict' \in Verdict
        \/ /\ ~statBusy /\ statBusy' = TRUE /\ verdict' = "none" /\ statPc' = "begin"
           /\ wasAsked' = manual /\ overtaken' = FALSE
      BY <1>3 DEF startStatsSaveJob, StatTypeOK, Verdict
  <2>3. StatTypeOK'
    <3>1. jobManual' \in BOOLEAN /\ statBusy' \in BOOLEAN /\ wasAsked' \in BOOLEAN /\ overtaken' \in BOOLEAN
        BY <2>1, <2>2, Zenon DEF StatTypeOK
    <3>2. verdict' \in Verdict BY <2>2 DEF Verdict
    <3>3. statPc' = statPc \/ statPc' = "begin" BY <2>2
    <3> QED BY <2>1, <3>1, <3>2, <3>3 DEF StatTypeOK
  <2>4. statPc' = statPc \/ (statPc = "none" /\ statPc' = "begin") BY <2>2 DEF BusyIsAJob
  <2>5. BusyIsAJob' BY <2>2 DEF BusyIsAJob
  <2>6. CountedAfterReset' BY <2>1, <2>4 DEF CountedAfterReset, Counted, Writing
  <2>7. SavedIsGivenUp' BY <2>1, <2>4 DEF SavedIsGivenUp
  <2>8. PartIsTheJobs' BY <2>1, <2>4 DEF PartIsTheJobs
  <2>9. SavedIsThere' /\ OkIsThere' BY <2>1, <2>4 DEF SavedIsThere, OkIsThere
  <2>10. AskedIsManual' BY <2>1, <2>2 DEF AskedIsManual, BusyIsAJob
  <2> QED BY <2>3, <2>5, <2>6, <2>7, <2>8, <2>9, <2>10
<1> QED BY <1>1, <1>2, <1>3

\* How an attempt of the job ends.
LEMMA AttemptEnds ==
    ASSUME NEW result \in {"ok", "failed", "mismatch"}, attemptEnds(result), StatTypeOK
    PROVE  /\ outcome' = result /\ outcome' \in Verdict /\ attempt' \in 1 .. 2
           /\ statPc' \in {"clear", "finish"}
           /\ statPc' = "clear" => attempt' = 2 /\ attempt = 1
           /\ statPc' = "finish" => attempt' = attempt
BY DEF attemptEnds, StatTypeOK, Verdict

\* The job from its beginning to the closing of the part.
LEMMA StatJobWrites ==
    ASSUME StatInv, writeStatsNow \/ saveWithRetry \/ save \/ save_Write
    PROVE  StatInv'
<1> USE DEF StatInv
<1> DEFINE JobGoesOn == UNCHANGED <<counts, keepStats, jobManual, statBusy, verdict, wasAsked, overtaken,
                                    resets, revived>>
<1>1. CASE writeStatsNow
  <2>1. JobGoesOn /\ UNCHANGED <<statFile, statPart, saved>> /\ statPc = "begin"
      BY <1>1 DEF writeStatsNow, volumeVars
  <2>2. \/ /\ ~jobManual /\ statPc' = "finish" /\ outcome' = "skipped" /\ UNCHANGED <<attempt, jobTotals>>
        \/ statPc' = "open" /\ attempt' = 1 /\ jobTotals' = counts /\ UNCHANGED outcome
      BY <1>1 DEF writeStatsNow
  <2>3. StatTypeOK' BY <2>1, <2>2 DEF StatTypeOK, Verdict
  <2>4. BusyIsAJob' BY <2>1, <2>2 DEF BusyIsAJob
  <2>5. CountedAfterReset' BY <2>1, <2>2 DEF CountedAfterReset, Counted, Writing
  <2>6. SavedIsGivenUp' /\ PartIsTheJobs' BY <2>1, <2>2 DEF SavedIsGivenUp, PartIsTheJobs
  <2>7. SavedIsThere' /\ OkIsThere' BY <2>1, <2>2 DEF SavedIsThere, OkIsThere
  <2>8. AskedIsManual' BY <2>1, <2>2 DEF AskedIsManual
  <2> QED BY <2>3, <2>4, <2>5, <2>6, <2>7, <2>8
<1>2. CASE saveWithRetry
  <2>1. /\ JobGoesOn /\ UNCHANGED <<statPart, attempt, jobTotals, outcome>>
        /\ statPc = "clear" /\ statPc' = "open" /\ statFile' = NoFile /\ saved' = NoFile
      BY <1>2 DEF saveWithRetry
  <2>2. StatTypeOK' BY <2>1 DEF StatTypeOK
  <2>3. BusyIsAJob' /\ SavedIsGivenUp' /\ PartIsTheJobs' /\ OkIsThere' /\ AskedIsManual'
      BY <2>1 DEF BusyIsAJob, SavedIsGivenUp, PartIsTheJobs, OkIsThere, AskedIsManual
  <2>4. CountedAfterReset' /\ SavedIsThere'
      BY <2>1, Records DEF CountedAfterReset, Counted, Writing, SavedIsThere
  <2> QED BY <2>2, <2>3, <2>4
<1>3. CASE save
  <2>1. JobGoesOn /\ UNCHANGED <<statFile, saved, jobTotals>> /\ statPc = "open"
      BY <1>3 DEF save
  <2>2. \/ statPart' = Torn /\ statPc' = "write" /\ UNCHANGED <<attempt, outcome>>
        \/ attemptEnds("failed") /\ UNCHANGED statPart
      BY <1>3 DEF save
  <2>3. CASE statPart' = Torn /\ statPc' = "write" /\ UNCHANGED <<attempt, outcome>>
    <3>1. StatTypeOK' BY <2>1, <2>3 DEF StatTypeOK
    <3>2. BusyIsAJob' /\ SavedIsGivenUp' /\ PartIsTheJobs' /\ OkIsThere' /\ AskedIsManual'
        BY <2>1, <2>3 DEF BusyIsAJob, SavedIsGivenUp, PartIsTheJobs, OkIsThere, AskedIsManual
    <3>3. CountedAfterReset' BY <2>1, <2>3, Records DEF CountedAfterReset, Counted, Writing
    <3>4. SavedIsThere' BY <2>1, <2>3 DEF SavedIsThere
    <3> QED BY <3>1, <3>2, <3>3, <3>4
  <2>4. CASE attemptEnds("failed") /\ UNCHANGED statPart
    <3>1. /\ outcome' = "failed" /\ outcome' \in Verdict /\ attempt' \in 1 .. 2
          /\ statPc' \in {"clear", "finish"}
          /\ statPc' = "clear" => attempt' = 2 /\ attempt = 1
          /\ statPc' = "finish" => attempt' = attempt
        BY <2>4, AttemptEnds
    <3>2. StatTypeOK' BY <2>1, <2>4, <3>1 DEF StatTypeOK
    <3>3. BusyIsAJob' /\ SavedIsGivenUp' /\ PartIsTheJobs' /\ OkIsThere' /\ AskedIsManual'
        BY <2>1, <2>4, <3>1 DEF BusyIsAJob, SavedIsGivenUp, PartIsTheJobs, OkIsThere, AskedIsManual
    <3>4. CountedAfterReset' BY <2>1, <2>4, <3>1 DEF CountedAfterReset, Counted, Writing
    <3>5. SavedIsThere' BY <2>1, <2>4, <3>1 DEF SavedIsThere
    <3> QED BY <3>2, <3>3, <3>4, <3>5
  <2> QED BY <2>2, <2>3, <2>4
<1>4. CASE save_Write
  <2>1. JobGoesOn /\ UNCHANGED <<saved, jobTotals>> /\ statPc = "write"
      BY <1>4 DEF save_Write
  <2>2. statPart \in {Torn, NoFile} BY <2>1 DEF PartIsTheJobs
  <2>3. <<"whole", jobTotals>> \in StatRecord /\ Whole(<<"whole", jobTotals>>)
        /\ (~revived => Counted(<<"whole", jobTotals>>))
    <3>1. <<"whole", jobTotals>> \in StatRecord /\ Whole(<<"whole", jobTotals>>)
        BY Records DEF StatTypeOK
    <3>2. ~revived => jobTotals[1] = resets BY <2>1 DEF CountedAfterReset, Writing
    <3> QED BY <3>1, <3>2 DEF Counted
  <2>4. CASE /\ statPc' = "publish" /\ UNCHANGED <<attempt, outcome>>
             /\ IF statPart = Torn THEN statPart' = <<"whole", jobTotals>> /\ UNCHANGED statFile
                ELSE statFile' \in {statFile, <<"whole", jobTotals>>} /\ UNCHANGED statPart
    <3>0. /\ statFile' \in {statFile, <<"whole", jobTotals>>}
          /\ statPart' \in {NoFile, <<"whole", jobTotals>>}
        BY <2>2, <2>4
    <3>1. StatTypeOK' BY <2>1, <2>3, <2>4, <3>0 DEF StatTypeOK
    <3>2. BusyIsAJob' /\ SavedIsGivenUp' /\ PartIsTheJobs' /\ OkIsThere' /\ AskedIsManual'
        BY <2>1, <2>4, <3>0 DEF BusyIsAJob, SavedIsGivenUp, PartIsTheJobs, OkIsThere, AskedIsManual
    <3>3. CountedAfterReset' BY <2>1, <2>3, <2>4, <3>0, Records DEF CountedAfterReset, Counted, Writing
    <3>4. SavedIsThere' BY <2>1, <2>3, <2>4, <3>0 DEF SavedIsThere
    <3> QED BY <3>1, <3>2, <3>3, <3>4
  <2>5. CASE statPart' = NoFile /\ attemptEnds("failed") /\ UNCHANGED statFile
    <3>1. /\ outcome' = "failed" /\ outcome' \in Verdict /\ attempt' \in 1 .. 2
          /\ statPc' \in {"clear", "finish"}
          /\ statPc' = "clear" => attempt' = 2 /\ attempt = 1
          /\ statPc' = "finish" => attempt' = attempt
        BY <2>5, AttemptEnds
    <3>2. StatTypeOK' BY <2>1, <2>5, <3>1 DEF StatTypeOK
    <3>3. BusyIsAJob' /\ SavedIsGivenUp' /\ PartIsTheJobs' /\ OkIsThere' /\ AskedIsManual'
        BY <2>1, <2>5, <3>1 DEF BusyIsAJob, SavedIsGivenUp, PartIsTheJobs, OkIsThere, AskedIsManual
    <3>4. CountedAfterReset' BY <2>1, <2>5, <3>1, Records DEF CountedAfterReset, Counted, Writing
    <3>5. SavedIsThere' BY <2>1, <2>5, <3>1 DEF SavedIsThere
    <3> QED BY <3>2, <3>3, <3>4, <3>5
  <2> QED BY <1>4, <2>4, <2>5 DEF save_Write
<1> QED BY <1>1, <1>2, <1>3, <1>4

\* The job from the publishing of the part to its verdict.
LEMMA StatJobPublishes ==
    ASSUME StatInv, publish \/ publish_Rename \/ verifyStats \/ statsJobTask
    PROVE  StatInv'
<1> USE DEF StatInv
<1> DEFINE JobGoesOn == UNCHANGED <<counts, keepStats, jobManual, statBusy, verdict, wasAsked, overtaken,
                                    resets, revived, saved, jobTotals>>
<1>1. ASSUME statPc \in {"publish", "rename", "verify"}, JobGoesOn, UNCHANGED <<statFile, statPart>>,
             NEW result \in {"ok", "failed", "mismatch"}, attemptEnds(result),
             result = "ok" => statFile = <<"whole", jobTotals>>
      PROVE  StatInv'
  <2>1. /\ outcome' = result /\ outcome' \in Verdict /\ attempt' \in 1 .. 2
        /\ statPc' \in {"clear", "finish"}
        /\ statPc' = "clear" => attempt' = 2 /\ attempt = 1
        /\ statPc' = "finish" => attempt' = attempt
      BY <1>1, AttemptEnds
  <2>2. StatTypeOK' BY <1>1, <2>1 DEF StatTypeOK
  <2>3. BusyIsAJob' /\ PartIsTheJobs' /\ OkIsThere' /\ AskedIsManual'
      BY <1>1, <2>1 DEF BusyIsAJob, PartIsTheJobs, OkIsThere, AskedIsManual
  <2>4. CountedAfterReset' BY <1>1, <2>1 DEF CountedAfterReset, Counted, Writing
  <2>5. SavedIsGivenUp' BY <1>1, <2>1 DEF SavedIsGivenUp
  <2>6. SavedIsThere'
    <3>1. statPc' = "finish" /\ result # "ok" => attempt = 2
        BY <1>1 DEF attemptEnds
    <3>2. statPc' = "finish" /\ result # "ok" => saved = NoFile
        BY <1>1, <3>1 DEF SavedIsGivenUp
    <3>3. <<"whole", jobTotals>> \in StatRecord BY Records DEF StatTypeOK
    <3>4. result = "ok" => Whole(statFile) BY <1>1, <3>3 DEF Whole
    <3> QED BY <1>1, <2>1, <3>2, <3>4, Records DEF SavedIsThere
  <2> QED BY <2>2, <2>3, <2>4, <2>5, <2>6
<1>2. CASE publish
  <2>1. JobGoesOn /\ UNCHANGED statPart /\ statPc = "publish"
      BY <1>2 DEF publish
  <2>2. CASE /\ statPart # NoFile /\ statFile' = NoFile /\ statPc' = "rename"
             /\ UNCHANGED <<attempt, outcome>>
    <3>1. Whole(statPart) BY <2>1, <2>2, Records DEF PartIsTheJobs, StatTypeOK, Whole
    <3>2. StatTypeOK' BY <2>1, <2>2 DEF StatTypeOK
    <3>3. BusyIsAJob' /\ SavedIsGivenUp' /\ PartIsTheJobs' /\ OkIsThere' /\ AskedIsManual'
        BY <2>1, <2>2 DEF BusyIsAJob, SavedIsGivenUp, PartIsTheJobs, OkIsThere, AskedIsManual
    <3>4. CountedAfterReset' BY <2>1, <2>2, Records DEF CountedAfterReset, Counted, Writing
    <3>5. SavedIsThere' BY <2>1, <2>2, <3>1 DEF SavedIsThere
    <3> QED BY <3>2, <3>3, <3>4, <3>5
  <2> QED BY <1>1, <1>2, <2>1, <2>2 DEF publish
<1>3. CASE publish_Rename
  <2>1. JobGoesOn /\ statPc = "rename" BY <1>3 DEF publish_Rename
  <2>2. CASE /\ statPart # NoFile /\ statFile = NoFile
             /\ statFile' = statPart /\ statPart' = NoFile /\ statPc' = "verify"
             /\ UNCHANGED <<attempt, outcome>>
    <3>1. Whole(statPart) BY <2>1, <2>2, Records DEF PartIsTheJobs, StatTypeOK, Whole
    <3>2. StatTypeOK' BY <2>1, <2>2 DEF StatTypeOK
    <3>3. BusyIsAJob' /\ SavedIsGivenUp' /\ PartIsTheJobs' /\ OkIsThere' /\ AskedIsManual'
        BY <2>1, <2>2 DEF BusyIsAJob, SavedIsGivenUp, PartIsTheJobs, OkIsThere, AskedIsManual
    <3>4. CountedAfterReset' BY <2>1, <2>2, Records DEF CountedAfterReset, Counted, Writing
    <3>5. SavedIsThere' BY <2>1, <2>2, <3>1 DEF SavedIsThere
    <3> QED BY <3>2, <3>3, <3>4, <3>5
  <2> QED BY <1>1, <1>3, <2>1, <2>2 DEF publish_Rename, volumeVars
<1>4. CASE verifyStats
  <2>1. JobGoesOn /\ UNCHANGED <<statFile, statPart>> /\ statPc = "verify"
      BY <1>4 DEF verifyStats, volumeVars
  <2> QED BY <1>1, <1>4, <2>1 DEF verifyStats
<1>5. CASE statsJobTask
  <2>1. /\ statPc = "finish" /\ statPc' = "none" /\ statBusy' = FALSE /\ verdict' = outcome
        /\ attempt' = 1 /\ jobTotals' = <<0, 0>> /\ outcome' = "none" /\ wasAsked' = FALSE
        /\ overtaken' = FALSE
        /\ UNCHANGED <<counts, statFile, statPart, keepStats, jobManual, resets, revived>>
      BY <1>5 DEF statsJobTask, volumeVars
  <2>2. <<"whole", jobTotals>> \in StatRecord /\ <<0, 0>> \in Totals BY Records DEF StatTypeOK
  <2>3. \/ saved' = saved
        \/ ~revived /\ saved' = <<"whole", jobTotals>> /\ statFile = <<"whole", jobTotals>>
      BY <1>5 DEF statsJobTask, OkIsThere
  <2>4. saved' \in StatRecord \cup {NoFile} BY <2>2, <2>3 DEF StatTypeOK
  <2>5. StatTypeOK'
    <3>1. /\ statBusy' \in BOOLEAN /\ wasAsked' \in BOOLEAN /\ overtaken' \in BOOLEAN
          /\ verdict' \in Verdict /\ outcome' \in Verdict /\ attempt' \in 1 .. 2 /\ jobTotals' \in Totals
      <4>1. jobTotals' \in Totals BY <2>1, <2>2, Zenon
      <4>2. statBusy' \in BOOLEAN /\ wasAsked' \in BOOLEAN /\ overtaken' \in BOOLEAN BY <2>1, Zenon
      <4>3. outcome' \in Verdict BY <2>1, Zenon DEF Verdict
      <4>4. verdict' \in Verdict BY <2>1, Zenon DEF StatTypeOK
      <4> QED BY <2>1, <4>1, <4>2, <4>3, <4>4
    <3>2. statPc' = "none" /\ UNCHANGED <<counts, statFile, statPart, keepStats, jobManual, resets, revived>>
        BY <2>1
    <3> QED BY <2>4, <3>1, <3>2 DEF StatTypeOK
  <2>6. BusyIsAJob' /\ PartIsTheJobs' /\ OkIsThere' /\ AskedIsManual'
      BY <2>1 DEF BusyIsAJob, PartIsTheJobs, OkIsThere, AskedIsManual
  <2>7. SavedIsGivenUp' BY <2>1, <2>3 DEF SavedIsGivenUp
  <2>8. CountedAfterReset' BY <2>1, <2>3 DEF CountedAfterReset, Counted, Writing
  <2>9. SavedIsThere' BY <2>1, <2>2, <2>3 DEF SavedIsThere, Whole
  <2> QED BY <2>5, <2>6, <2>7, <2>8, <2>9
<1> QED BY <1>2, <1>3, <1>4, <1>5

\* What load() leaves on the volume, and what it hands to the counters.
LEMMA StatLoads ==
    ASSUME StatInv, load
    PROVE  /\ statFile' \in StatRecord \cup {NoFile, Torn} /\ statPart' \in StatRecord \cup {NoFile, Torn}
           /\ \/ UNCHANGED <<statFile, statPart>>
              \/ statFile = NoFile /\ statFile' = statPart /\ statPart' = NoFile
           /\ \A t \in Totals : restored(t) \in Totals
           /\ \A t \in Totals : ~revived /\ t[1] = resets => restored(t)[1] = resets
<1> USE DEF StatInv
<1>1. /\ statFile' \in StatRecord \cup {NoFile, Torn} /\ statPart' \in StatRecord \cup {NoFile, Torn}
      /\ \/ UNCHANGED <<statFile, statPart>>
         \/ statFile = NoFile /\ statFile' = statPart /\ statPart' = NoFile
    BY DEF load, recovered, StatTypeOK
<1>2. Whole(recovered) => recovered[2] \in Totals BY Records DEF Whole
<1>3. ~revived /\ Whole(recovered) => recovered[2][1] = resets
    BY DEF recovered, CountedAfterReset, Counted
<1> QED BY <1>1, <1>2, <1>3 DEF restored

\* The start of the DNS server and the button: a record comes back.
LEMMA StatRestores ==
    ASSUME StatInv, restoreStatsFromFile \/ loadStatsFileNow PROVE StatInv'
<1> USE DEF StatInv
<1>1. /\ load /\ counts' = restored(counts)
      /\ UNCHANGED <<keepStats, jobManual, statBusy, verdict, statPc, attempt, jobTotals, outcome,
                     wasAsked, overtaken, resets, saved, revived>>
    BY DEF restoreStatsFromFile, loadStatsFileNow, jobVars
<1>2. /\ statFile' \in StatRecord \cup {NoFile, Torn} /\ statPart' \in StatRecord \cup {NoFile, Torn}
      /\ \/ UNCHANGED <<statFile, statPart>>
         \/ statFile = NoFile /\ statFile' = statPart /\ statPart' = NoFile
      /\ counts' \in Totals /\ (~revived => counts'[1] = resets)
    BY <1>1, StatLoads DEF StatTypeOK, CountedAfterReset
<1>3. StatTypeOK' BY <1>1, <1>2 DEF StatTypeOK
<1>4. BusyIsAJob' /\ SavedIsGivenUp' /\ AskedIsManual'
    BY <1>1 DEF BusyIsAJob, SavedIsGivenUp, AskedIsManual
<1>5. PartIsTheJobs' BY <1>1, <1>2 DEF PartIsTheJobs
<1>6. OkIsThere'
  <2>1. <<"whole", jobTotals>> # NoFile BY DEF NoFile
  <2> QED BY <1>1, <1>2, <2>1 DEF OkIsThere
<1>7. CountedAfterReset' BY <1>1, <1>2, Records DEF CountedAfterReset, Counted
<1>8. SavedIsThere' BY <1>1, <1>2, Records DEF SavedIsThere
<1> QED BY <1>3, <1>4, <1>5, <1>6, <1>7, <1>8

\* A reset: what it cannot reach is remembered as left behind.
LEMMA StatResets == ASSUME StatInv, resetStats PROVE StatInv'
<1> USE DEF StatInv
<1>1. /\ resets' = resets + 1 /\ resets' \in 0 .. MaxResets /\ counts' = <<resets', 0>>
      /\ statFile' = NoFile /\ saved' = NoFile
      /\ revived' = (revived \/ statBusy \/ Whole(statPart))
      /\ UNCHANGED <<statPart, keepStats, jobManual, statBusy, verdict, statPc, attempt, jobTotals,
                     outcome, wasAsked, overtaken>>
    BY StatAssumption DEF resetStats, removeStatsFile, leavesBehind, jobVars, StatTypeOK
<1>2. counts' \in Totals /\ counts'[1] = resets' BY <1>1, Records
<1>3. revived' \in BOOLEAN BY <1>1 DEF StatTypeOK
<1>4. StatTypeOK' BY <1>1, <1>2, <1>3 DEF StatTypeOK
<1>5. BusyIsAJob' /\ SavedIsGivenUp' /\ PartIsTheJobs' /\ AskedIsManual'
    BY <1>1 DEF BusyIsAJob, SavedIsGivenUp, PartIsTheJobs, AskedIsManual
<1>6. ~revived' => statPc = "none" /\ ~Whole(statPart) BY <1>1 DEF BusyIsAJob
<1>7. CountedAfterReset' BY <1>1, <1>2, <1>6, Records DEF CountedAfterReset, Counted, Writing
<1>8. SavedIsThere' BY <1>1, Records DEF SavedIsThere
<1>9. OkIsThere' BY <1>1, <1>6 DEF OkIsThere
<1> QED BY <1>4, <1>5, <1>7, <1>8, <1>9

\* A restart, a power cut or a factory reset ends the job wherever it is.
LEMMA StatRestarts == ASSUME StatInv, reboot \/ deleteStatsFile PROVE StatInv'
<1> USE DEF StatInv
<1>1. /\ statBusy' = FALSE /\ statPc' = "none" /\ verdict' = "none" /\ outcome' = "none"
      /\ jobManual' = FALSE /\ attempt' = 1 /\ jobTotals' = <<0, 0>> /\ wasAsked' = FALSE
      /\ overtaken' = FALSE
    BY DEF reboot, deleteStatsFile, rebooted
<1>2. <<0, 0>> \in Totals BY Records
<1>3. BusyIsAJob' /\ PartIsTheJobs' /\ OkIsThere' /\ AskedIsManual'
    BY <1>1 DEF BusyIsAJob, PartIsTheJobs, OkIsThere, AskedIsManual
<1>6. /\ statBusy' \in BOOLEAN /\ jobManual' \in BOOLEAN /\ wasAsked' \in BOOLEAN /\ overtaken' \in BOOLEAN
      /\ verdict' \in Verdict /\ outcome' \in Verdict /\ attempt' \in 1 .. 2 /\ jobTotals' \in Totals
      /\ statPc' = "none"
  <2>1. jobTotals' \in Totals BY <1>1, <1>2, Zenon
  <2>2. statBusy' \in BOOLEAN /\ jobManual' \in BOOLEAN /\ wasAsked' \in BOOLEAN /\ overtaken' \in BOOLEAN
      BY <1>1, Zenon
  <2>3. verdict' \in Verdict /\ outcome' \in Verdict BY <1>1, Zenon DEF Verdict
  <2> QED BY <1>1, <2>1, <2>2, <2>3
<1>4. CASE reboot
  <2>1. UNCHANGED <<keepStats, resets, revived>> BY <1>4 DEF reboot
  <2>2. <<resets, 0>> \in Totals /\ <<resets, 0>>[1] = resets BY Records DEF StatTypeOK
  <2>3. CASE keepStats
    <3>1. load /\ counts' = restored(<<resets, 0>>) /\ UNCHANGED saved BY <1>4, <2>3 DEF reboot
    <3>2. /\ statFile' \in StatRecord \cup {NoFile, Torn} /\ statPart' \in StatRecord \cup {NoFile, Torn}
          /\ \/ UNCHANGED <<statFile, statPart>> /\ statFile # NoFile
             \/ statFile = NoFile /\ statFile' = statPart /\ statPart' = NoFile
          /\ counts' \in Totals /\ (~revived => counts'[1] = resets)
        BY <2>2, <3>1, StatLoads DEF load, recovered
    <3>3. StatTypeOK'
      <4>1. saved' = saved BY <3>1
      <4> QED BY <1>6, <2>1, <3>2, <4>1 DEF StatTypeOK
    <3>4. CountedAfterReset' BY <1>1, <2>1, <3>1, <3>2, Records DEF CountedAfterReset, Counted, Writing
    <3>5. SavedIsGivenUp' BY <1>1, <2>1, <3>1 DEF SavedIsGivenUp
    <3>6. SavedIsThere' BY <1>1, <3>1, <3>2, Records DEF SavedIsThere
    <3> QED BY <1>3, <3>3, <3>4, <3>5, <3>6
  <2>4. CASE ~keepStats
    <3>1. /\ counts' = <<resets, 0>> /\ UNCHANGED <<statFile, statPart>>
          /\ saved' = IF statFile = NoFile THEN NoFile ELSE saved
        BY <1>4, <2>4 DEF reboot, volumeVars
    <3>2. saved' \in {saved, NoFile} BY <3>1
    <3>3. StatTypeOK'
      <4>1. counts' \in Totals /\ UNCHANGED <<statFile, statPart>> BY <2>2, <3>1
      <4> QED BY <1>6, <2>1, <3>2, <4>1 DEF StatTypeOK
    <3>4. CountedAfterReset'
        BY <1>1, <2>1, <2>2, <3>1, <3>2, Records DEF CountedAfterReset, Counted, Writing
    <3>5. SavedIsGivenUp' BY <1>1, <2>1, <3>2 DEF SavedIsGivenUp
    <3>6. SavedIsThere' BY <1>1, <3>1, Records DEF SavedIsThere
    <3> QED BY <1>3, <3>3, <3>4, <3>5, <3>6
  <2> QED BY <2>3, <2>4
<1>5. CASE deleteStatsFile
  <2>1. /\ resets' = resets + 1 /\ resets' \in 0 .. MaxResets /\ keepStats' = TRUE
        /\ counts' = IF Whole(statPart) THEN statPart[2] ELSE <<resets', 0>>
        /\ statFile' = statPart /\ statPart' = NoFile /\ saved' = NoFile
        /\ revived' = (revived \/ statBusy \/ Whole(statPart))
      BY <1>5, StatAssumption DEF deleteStatsFile, leavesBehind, StatTypeOK
  <2>2. counts' \in Totals BY <2>1, Records DEF Whole
  <2>3. revived' \in BOOLEAN BY <2>1 DEF StatTypeOK
  <2>4. StatTypeOK'
    <3>1. keepStats' \in BOOLEAN /\ statFile' = statPart /\ statPart' = NoFile /\ saved' = NoFile
        BY <2>1
    <3>2. resets' \in 0 .. MaxResets BY <2>1
    <3> QED BY <1>6, <2>2, <2>3, <3>1, <3>2 DEF StatTypeOK
  <2>5. ~revived' => ~Whole(statPart) /\ counts'[1] = resets' BY <2>1
  <2>6. CountedAfterReset' BY <1>1, <2>1, <2>5, Records DEF CountedAfterReset, Counted, Writing
  <2>7. SavedIsGivenUp' BY <1>1, <2>1 DEF SavedIsGivenUp
  <2>8. SavedIsThere' BY <2>1, Records DEF SavedIsThere
  <2> QED BY <1>3, <2>4, <2>6, <2>7, <2>8
<1> QED BY <1>4, <1>5

LEMMA StatInductive == StatInv /\ [StatNext]_statVars => StatInv'
<1> SUFFICES ASSUME StatInv, [StatNext]_statVars PROVE StatInv' OBVIOUS
<1>1. CASE UNCHANGED statVars
    BY <1>1 DEF statVars, StatInv, StatTypeOK, BusyIsAJob, CountedAfterReset, Counted, SavedIsGivenUp,
                PartIsTheJobs, SavedIsThere, OkIsThere, AskedIsManual
<1>2. CASE StatNext
    BY <1>2, StatRequests, StatJobWrites, StatJobPublishes, StatRestores, StatResets, StatRestarts
       DEF StatNext, statJobStep
<1> QED BY <1>1, <1>2

LEMMA StatHolds == StatInv => StatisticsSafe
<1> SUFFICES ASSUME StatInv PROVE StatisticsSafe OBVIOUS
<1> USE DEF StatInv
<1>1. SavedIsRestorable
  <2> SUFFICES ASSUME Whole(saved) PROVE Whole(recovered) /\ recovered[2][1] = saved[2][1]
      BY DEF SavedIsRestorable
  <2>1. ~revived BY Records DEF SavedIsGivenUp
  <2>2. Whole(recovered) BY Records DEF SavedIsThere, recovered
  <2> QED BY <2>1, <2>2 DEF CountedAfterReset, Counted, recovered
<1>2. ResetIsFinal BY DEF ResetIsFinal, CountedAfterReset
<1>3. OrderIsObeyed BY DEF OrderIsObeyed, AskedIsManual
<1> QED BY <1>1, <1>2, <1>3 DEF StatisticsSafe

(* However many queries, resets, saves and power cuts there are: what a job *)
(* reported as saved can be restored, statistics that were reset stay so    *)
(* unless the reset left a job or a part file behind, and a save that was   *)
(* asked for writes.                                                        *)
THEOREM StatisticsStaySafe == Spec => []StatisticsSafe
<1>1. Init => StatInv BY StatStart DEF Init
<1>2. StatInv /\ [Next]_vars => StatInv' BY OneAtATime, StatInductive
<1> QED BY <1>1, <1>2, StatHolds, PTL DEF Spec

-----------------------------------------------------------------------------
(* HTTPS.  While no two are at the listener at once, the one who is knows   *)
(* what the section will say when he has written it: his copy is the stored *)
(* section, and where the listener or the store is ahead of it, his wish    *)
(* or the store's volume is what he will write.                             *)
ActorState == [at : Busy \cup {"idle", "delayed", "schedule", "hung"}, copy : Sec, wish : BOOLEAN]
Fits == (handle => section.https) /\ store = section.volume
Switching(a) ==
    /\ place(a) = "start" => Fits /\ (a = "web" => actor[a].copy = section)
    /\ place(a) = "read" => /\ handle = actor[a].wish /\ store = section.volume
                            /\ a = "web" => actor[a].copy = section
    /\ place(a) = "write" => handle = actor[a].wish /\ store = section.volume /\ actor[a].copy = section
Saving(a) ==
    /\ place(a) = "wait" => a = "web" /\ Fits /\ actor[a].copy = section
    /\ place(a) = "save" => /\ a = "web"
                            /\ page # "storage" => store = actor[a].copy.volume
                            /\ handle /\ page = "thrown" => actor[a].wish
                            /\ handle /\ page # "thrown" => actor[a].copy.https
Doing(a) == Switching(a) /\ Saving(a)
OneBusy == \A a, b \in Actor : place(a) \in Busy /\ place(b) \in Busy => a = b
HttpsCalm ==
    /\ OneBusy
    /\ (\A a \in Actor : place(a) \notin Busy) => Fits
    /\ \A a \in Actor : Doing(a)
HttpsInv == HttpsTypeOK /\ (~mixed => HttpsCalm)

\* Two that are busy are two.
LEMMA CountedBusy ==
    ASSUME NEW B \in SUBSET Actor, ~(Cardinality(B) > 1) PROVE \A a, b \in B : a = b
<1>1. IsFiniteSet(Actor)
  <2>1. IsFiniteSet({}) BY FS_EmptySet
  <2>2. IsFiniteSet({} \cup {"web"}) BY <2>1, FS_AddElement
  <2>3. IsFiniteSet(({} \cup {"web"}) \cup {"switch"}) BY <2>2, FS_AddElement
  <2>4. IsFiniteSet((({} \cup {"web"}) \cup {"switch"}) \cup {"retry"}) BY <2>3, FS_AddElement
  <2>5. Actor = (({} \cup {"web"}) \cup {"switch"}) \cup {"retry"} BY DEF Actor
  <2> QED BY <2>4, <2>5
<1>2. IsFiniteSet(B) /\ Cardinality(B) \in Nat BY <1>1, FS_Subset, FS_CardinalityType
<1>3. ASSUME NEW a \in B, NEW b \in B, a # b PROVE FALSE
  <2>1. Cardinality(B \ {a}) = Cardinality(B) - 1 BY <1>2, <1>3, FS_RemoveElement
  <2>2. IsFiniteSet(B \ {a}) BY <1>2, FS_Subset
  <2>3. b \in B \ {a} BY <1>3
  <2>4. Cardinality((B \ {a}) \ {b}) = Cardinality(B \ {a}) - 1 BY <2>2, <2>3, FS_RemoveElement
  <2>5. IsFiniteSet((B \ {a}) \ {b}) BY <2>2, FS_Subset
  <2>6. Cardinality((B \ {a}) \ {b}) \in Nat BY <2>5, FS_CardinalityType
  <2>7. Cardinality(B) <= 1 BY <1>2
  <2> QED BY <1>2, <2>1, <2>4, <2>6, <2>7
<1> QED BY <1>3

\* One is at work before or after its step: only what it has in hand counts.
LEMMA OneMoves ==
    ASSUME HttpsCalm, OneBusy', NEW a \in Actor,
           \A b \in Actor : b # a => actor'[b] = actor[b],
           place(a) \in Busy \/ place(a)' \in Busy,
           place(a)' \in Busy => Doing(a)', place(a)' \notin Busy => Fits'
    PROVE  HttpsCalm'
<1>1. ASSUME NEW b \in Actor, b # a PROVE place(b)' \notin Busy
    BY <1>1 DEF HttpsCalm, OneBusy, place
<1>2. \A b \in Actor : place(b)' \notin Busy => Doing(b)'
    BY DEF Doing, Switching, Saving, Busy
<1>3. \A b \in Actor : Doing(b)' BY <1>1, <1>2
<1> QED BY <1>3 DEF HttpsCalm

\* The one who begins has found nobody at work.
LEMMA OneBegins ==
    ASSUME HttpsCalm, OneBusy', NEW a \in Actor,
           \A b \in Actor : b # a => actor'[b] = actor[b],
           place(a) \notin Busy, place(a)' \in Busy
    PROVE  Fits
<1>1. \A b \in Actor : b # a => place(b) \notin Busy BY DEF OneBusy, place
<1> QED BY <1>1 DEF HttpsCalm

\* Nothing that those at work have in hand is changed.
LEMMA NobodyMoves ==
    ASSUME HttpsCalm, UNCHANGED <<handle, store, section>>,
           \A a \in Actor : place(a)' \in Busy <=> place(a) \in Busy,
           \A a \in Actor : place(a) \in Busy => actor'[a] = actor[a],
           place("web") = "save" => page' = page
    PROVE  HttpsCalm'
<1>1. OneBusy' BY DEF HttpsCalm, OneBusy
<1>2. Fits' <=> Fits BY DEF Fits
<1>3. ASSUME NEW a \in Actor, place(a) \in Busy PROVE Doing(a)'
  <2>1. actor'[a] = actor[a] /\ Doing(a) BY <1>3 DEF HttpsCalm
  <2>2. Switching(a)' BY <1>2, <2>1 DEF Doing, Switching, place
  <2>3. Saving(a)' BY <1>2, <2>1 DEF Doing, Saving, place
  <2> QED BY <2>2, <2>3 DEF Doing
<1>4. \A a \in Actor : place(a)' \notin Busy => Doing(a)' BY DEF Doing, Switching, Saving, Busy
<1> QED BY <1>1, <1>2, <1>3, <1>4 DEF HttpsCalm

\* How an actor goes on, and where it begins.
LEMMA ActorGoes ==
    ASSUME HttpsTypeOK, NEW a \in Actor, NEW to \in Busy \cup {"idle", "delayed", "schedule", "hung"}
    PROVE  /\ goes(a, to) => /\ actor' \in [Actor -> ActorState] /\ place(a)' = to
                             /\ \A b \in Actor : b # a => actor'[b] = actor[b]
                             /\ to # "idle" => /\ actor'[a].copy = actor[a].copy
                                               /\ actor'[a].wish = actor[a].wish
           /\ \A w \in BOOLEAN : begins(a, to, w) =>
                             /\ actor' \in [Actor -> ActorState] /\ place(a)' = to
                             /\ \A b \in Actor : b # a => actor'[b] = actor[b]
                             /\ actor'[a].copy = section /\ actor'[a].wish = w
<1>1. AtRest \in ActorState /\ AtRest.at = "idle" BY DEF AtRest, ActorState, Sec, Volume
<1>2. actor \in [Actor -> ActorState] /\ section \in Sec BY DEF HttpsTypeOK, ActorState
<1>3. /\ moved(a, to) \in ActorState /\ moved(a, to).at = to
      /\ to # "idle" => moved(a, to).copy = actor[a].copy /\ moved(a, to).wish = actor[a].wish
    BY <1>1, <1>2 DEF moved, ActorState
<1>4. ASSUME goes(a, to)
      PROVE  /\ actor' \in [Actor -> ActorState] /\ actor'[a] = moved(a, to)
             /\ \A b \in Actor : b # a => actor'[b] = actor[b]
    BY <1>2, <1>3, <1>4 DEF goes
<1>5. ASSUME NEW w \in BOOLEAN, begins(a, to, w)
      PROVE  /\ actor' \in [Actor -> ActorState] /\ place(a)' = to
             /\ \A b \in Actor : b # a => actor'[b] = actor[b]
             /\ actor'[a].copy = section /\ actor'[a].wish = w
  <2>1. [at |-> to, copy |-> section, wish |-> w] \in ActorState BY <1>2 DEF ActorState
  <2> QED BY <1>2, <1>5, <2>1 DEF begins, place
<1> QED BY <1>3, <1>4, <1>5 DEF place

\* The type invariant without the mark of a crossing.
HttpsShape ==
    /\ handle \in BOOLEAN /\ served \in Pair /\ deadline \in 0 .. MaxHour + 1
    /\ pairs \in [Volume -> Pair] /\ card \in BOOLEAN /\ store \in Volume
    /\ section \in Sec /\ hour \in 0 .. MaxHour
    /\ actor \in [Actor -> ActorState] /\ page \in Page

LEMMA ShapeIsType == HttpsTypeOK <=> HttpsShape /\ mixed \in BOOLEAN
BY DEF HttpsTypeOK, HttpsShape, ActorState

\* A pair that is there is a date, and a listener has one of them.
LEMMA PairsAreDates ==
    ASSUME HttpsShape
    PROVE  /\ info \in Pair /\ info \in 0 .. MaxHour + 1 /\ 0 \in 0 .. MaxHour + 1 /\ NoPair \in Pair
           /\ httpsAvailable => deadline' \in 0 .. MaxHour + 1
           /\ startHttps => handle' \in BOOLEAN /\ served' \in Pair
           /\ stopHttps => handle' \in BOOLEAN /\ served' \in Pair /\ deadline' \in 0 .. MaxHour + 1
<1>1. NoPair \in Pair /\ \A q \in Pair : q \in 0 .. MaxHour + 1 /\ 0 \in 0 .. MaxHour + 1
    BY HttpsAssumption DEF Pair, NoPair
<1>2. info \in Pair BY <1>1 DEF info, HttpsShape
<1>3. httpsAvailable => deadline' \in 0 .. MaxHour + 1 BY <1>1, <1>2 DEF httpsAvailable
<1>4. startHttps => handle' \in BOOLEAN /\ served' \in Pair BY <1>2 DEF startHttps, HttpsShape
<1>5. stopHttps => handle' \in BOOLEAN /\ served' \in Pair /\ deadline' \in 0 .. MaxHour + 1
    BY <1>1 DEF stopHttps, HttpsShape
<1> QED BY <1>1, <1>2, <1>3, <1>4, <1>5

\* The three steps of setHttpsEnabled.
LEMMA HttpsEnables ==
    ASSUME HttpsTypeOK, NEW a \in Actor, setHttpsEnabled(a)
    PROVE  HttpsShape' /\ (HttpsCalm /\ OneBusy' => HttpsCalm')
<1>0. HttpsShape BY ShapeIsType
<1>1. CASE setHttpsEnabled_Switch(a)
  <2>1. /\ place(a) = "start" /\ place(a) \in Busy
        /\ UNCHANGED <<pairs, card, store, section, hour, page>>
      BY <1>1 DEF setHttpsEnabled_Switch, volumes, Busy
  <2>2. refused(a) \in {"save", "idle"} /\ (refused(a) = "save" => a = "web" /\ page = "import")
      BY DEF refused
  <2>3. PICK to \in {"read", "save", "idle"} :
           /\ goes(a, to)
           /\ \/ to = "read" /\ handle' = actor[a].wish
              \/ to = refused(a) /\ UNCHANGED handle
    <3>1. actor[a].wish \in BOOLEAN BY <1>0 DEF HttpsShape, ActorState
    <3> QED BY <1>1, <2>2, <3>1 DEF setHttpsEnabled_Switch, startHttps, stopHttps
  <2>4. /\ actor' \in [Actor -> ActorState] /\ place(a)' = to
        /\ \A b \in Actor : b # a => actor'[b] = actor[b]
        /\ to # "idle" => actor'[a].copy = actor[a].copy /\ actor'[a].wish = actor[a].wish
      BY <2>3, ActorGoes DEF Busy
  <2>5. handle' \in BOOLEAN /\ served' \in Pair /\ deadline' \in 0 .. MaxHour + 1
    <3>1. UNCHANGED <<handle, served>> => handle' \in BOOLEAN /\ served' \in Pair BY <1>0 DEF HttpsShape
    <3> QED BY <1>0, <1>1, <3>1, PairsAreDates DEF setHttpsEnabled_Switch
  <2>6. HttpsShape' BY <1>0, <2>1, <2>4, <2>5 DEF HttpsShape
  <2>7. ASSUME HttpsCalm, OneBusy' PROVE HttpsCalm'
    <3>1. Fits /\ (a = "web" => actor[a].copy = section) BY <2>1, <2>7 DEF HttpsCalm, Doing, Switching
    <3>2. CASE to = "read"
      <4>1. place(a)' = "read" /\ handle' = actor'[a].wish /\ actor'[a].copy = actor[a].copy
          BY <2>2, <2>3, <2>4, <3>2
      <4>2. Doing(a)' BY <2>1, <3>1, <4>1 DEF Doing, Switching, Saving, Fits
      <4> QED BY <2>1, <2>4, <2>7, <4>1, <4>2, OneMoves DEF Busy
    <3>3. CASE to = "save"
      <4>1. a = "web" /\ page' = "import" /\ handle' = handle /\ place(a)' = "save"
            /\ actor'[a].copy = section
          BY <2>1, <2>2, <2>3, <2>4, <3>1, <3>3
      <4>2. Doing(a)' BY <2>1, <3>1, <4>1 DEF Doing, Switching, Saving, Fits
      <4> QED BY <2>1, <2>4, <2>7, <4>1, <4>2, OneMoves DEF Busy
    <3>4. CASE to = "idle"
      <4>1. Fits' /\ place(a)' = "idle" BY <2>1, <2>2, <2>3, <2>4, <3>1, <3>4 DEF Fits
      <4> QED BY <2>1, <2>4, <2>7, <4>1, OneMoves DEF Busy
    <3> QED BY <3>2, <3>3, <3>4
  <2> QED BY <2>6, <2>7
<1>2. CASE setHttpsEnabled_Read(a)
  <2>1. /\ place(a) = "read" /\ place(a) \in Busy
        /\ UNCHANGED <<handle, served, deadline, pairs, card, store, section, hour, page>>
      BY <1>2 DEF setHttpsEnabled_Read, listener, volumes, Busy
  <2>2. actor[a].wish \in BOOLEAN BY <1>0 DEF HttpsShape, ActorState
  <2>3. /\ actor' \in [Actor -> ActorState] /\ place(a)' = "write"
        /\ \A b \in Actor : b # a => actor'[b] = actor[b]
        /\ actor'[a].wish = actor[a].wish
        /\ actor'[a].copy = section \/ (a = "web" /\ actor'[a].copy = actor[a].copy)
      BY <1>2, <2>2, ActorGoes DEF setHttpsEnabled_Read, Busy
  <2>4. HttpsShape' BY <1>0, <2>1, <2>3 DEF HttpsShape
  <2>5. ASSUME HttpsCalm, OneBusy' PROVE HttpsCalm'
    <3>1. handle = actor[a].wish /\ store = section.volume /\ (a = "web" => actor[a].copy = section)
        BY <2>1, <2>5 DEF HttpsCalm, Doing, Switching
    <3>2. Doing(a)' BY <2>1, <2>3, <3>1 DEF Doing, Switching, Saving
    <3> QED BY <2>1, <2>3, <2>5, <3>2, OneMoves DEF Busy
  <2> QED BY <2>4, <2>5
<1>3. CASE setHttpsEnabled_Write(a)
  <2>1. /\ place(a) = "write" /\ place(a) \in Busy
        /\ UNCHANGED <<handle, served, deadline, pairs, card, store, hour>>
        /\ page' = IF a = "web" THEN "thrown" ELSE page
      BY <1>3 DEF setHttpsEnabled_Write, listener, volumes, Busy
  <2>2. /\ actor' \in [Actor -> ActorState] /\ place(a)' = IF a = "web" THEN "save" ELSE "idle"
        /\ \A b \in Actor : b # a => actor'[b] = actor[b]
        /\ a = "web" => actor'[a].copy = actor[a].copy /\ actor'[a].wish = actor[a].wish
      BY <1>3, ActorGoes DEF setHttpsEnabled_Write, enough, Busy
  <2>3. /\ section' \in Sec /\ section'.https = actor[a].wish
        /\ section'.volume = IF a = "web" THEN section.volume ELSE actor[a].copy.volume
    <3>1. actor[a].wish \in BOOLEAN /\ actor[a].copy \in Sec /\ section \in Sec
        BY <1>0 DEF HttpsShape, ActorState
    <3> QED BY <1>3, <3>1 DEF setHttpsEnabled_Write, Sec
  <2>4. page' \in Page BY <1>0, <2>1 DEF HttpsShape, Page
  <2>5. HttpsShape' BY <1>0, <2>1, <2>2, <2>3, <2>4 DEF HttpsShape
  <2>6. ASSUME HttpsCalm, OneBusy' PROVE HttpsCalm'
    <3>1. handle = actor[a].wish /\ store = section.volume /\ actor[a].copy = section
        BY <2>1, <2>6 DEF HttpsCalm, Doing, Switching
    <3>2. CASE a = "web"
      <4>1. /\ place(a)' = "save" /\ page' = "thrown" /\ actor'[a].wish = handle'
            /\ actor'[a].copy.volume = store'
          BY <2>1, <2>2, <3>1, <3>2
      <4>2. Doing(a)' BY <3>2, <4>1 DEF Doing, Switching, Saving
      <4> QED BY <2>1, <2>2, <2>6, <4>1, <4>2, OneMoves DEF Busy
    <3>3. CASE a # "web"
      <4>1. place(a)' = "idle" /\ Fits' BY <2>1, <2>2, <2>3, <3>1, <3>3 DEF Fits
      <4> QED BY <2>1, <2>2, <2>6, <4>1, OneMoves DEF Busy
    <3> QED BY <3>2, <3>3
  <2> QED BY <2>5, <2>6
<1> QED BY <1>1, <1>2, <1>3 DEF setHttpsEnabled

\* What the pages do with the section, the store and the pairs.
LEMMA HttpsPages ==
    ASSUME HttpsTypeOK,
           \/ \E https, overTls \in BOOLEAN : securityPage_Switch(https, overTls)
           \/ securityPage_Save
           \/ \E v \in Volume : handlePostSettingsImport_Storage(v) \/ handlePostCertificates_Storage(v)
           \/ handlePostCertificates_Save
    PROVE  HttpsShape' /\ (HttpsCalm /\ OneBusy' => HttpsCalm')
<1>0. HttpsShape BY ShapeIsType
<1>a. "web" \in Actor BY DEF Actor
<1>1. ASSUME NEW https \in BOOLEAN, NEW overTls \in BOOLEAN, securityPage_Switch(https, overTls)
      PROVE  HttpsShape' /\ (HttpsCalm /\ OneBusy' => HttpsCalm')
  <2>1. /\ place("web") = "idle" /\ page' \in {"security", "import"}
        /\ UNCHANGED <<handle, served, deadline, pairs, card, store, section, hour>>
      BY <1>1 DEF securityPage_Switch, listener, volumes
  <2>2. PICK to \in {"save", "hung", "start"} : begins("web", to, https) BY <1>1 DEF securityPage_Switch
  <2>3. /\ actor' \in [Actor -> ActorState] /\ place("web")' = to
        /\ \A b \in Actor : b # "web" => actor'[b] = actor[b]
        /\ actor'["web"].copy = section
      BY <1>a, <2>2, ActorGoes DEF Busy
  <2>4. page' \in Page BY <2>1 DEF Page
  <2>5. HttpsShape' BY <1>0, <2>1, <2>3, <2>4 DEF HttpsShape
  <2>6. ASSUME HttpsCalm, OneBusy' PROVE HttpsCalm'
    <3>1. CASE to \in {"save", "start"}
      <4>1. place("web") \notin Busy /\ place("web")' \in Busy BY <2>1, <2>3, <3>1 DEF Busy
      <4>2. Fits BY <1>a, <2>3, <2>6, <4>1, OneBegins
      <4>3. Doing("web")' BY <2>1, <2>3, <3>1, <4>2 DEF Doing, Switching, Saving, Fits
      <4> QED BY <1>a, <2>3, <2>6, <4>1, <4>3, OneMoves
    <3>2. CASE to = "hung"
      <4>1. \A a \in Actor : place(a)' \in Busy <=> place(a) \in Busy
          BY <2>1, <2>3, <3>2 DEF Busy, place
      <4>2. \A a \in Actor : place(a) \in Busy => actor'[a] = actor[a]
          BY <2>1, <2>3 DEF Busy
      <4> QED BY <2>1, <2>6, <4>1, <4>2, NobodyMoves
    <3> QED BY <3>1, <3>2
  <2> QED BY <2>5, <2>6
<1>2. CASE securityPage_Save
  <2>1. /\ place("web") = "save" /\ page' = "none" /\ place("web") \in Busy
        /\ UNCHANGED <<handle, served, deadline, pairs, card, store, hour>>
        /\ page \in {"security", "import", "thrown"}
      BY <1>2 DEF securityPage_Save, listener, volumes, Busy
  <2>2. /\ actor' \in [Actor -> ActorState] /\ place("web")' = "idle"
        /\ \A b \in Actor : b # "web" => actor'[b] = actor[b]
      BY <1>2, <1>a, ActorGoes DEF securityPage_Save
  <2>3. actor["web"].copy \in Sec /\ actor["web"].wish \in BOOLEAN /\ actor["web"].copy.https \in BOOLEAN
      BY <1>0, <1>a DEF HttpsShape, ActorState, Sec
  <2>4. savedSwitch \in BOOLEAN BY <2>3 DEF savedSwitch
  <2>5. section' \in Sec /\ section'.https = savedSwitch /\ section'.volume = actor["web"].copy.volume
      BY <1>2, <2>3, <2>4 DEF securityPage_Save, Sec
  <2>6. page' \in Page BY <2>1 DEF Page
  <2>7. HttpsShape' BY <1>0, <2>1, <2>2, <2>5, <2>6 DEF HttpsShape
  <2>8. ASSUME HttpsCalm, OneBusy' PROVE HttpsCalm'
    <3>1. /\ store = actor["web"].copy.volume
          /\ handle /\ page = "thrown" => actor["web"].wish
          /\ handle /\ page # "thrown" => actor["web"].copy.https
        BY <1>a, <2>1, <2>8 DEF HttpsCalm, Doing, Saving
    <3>2. handle => savedSwitch BY <2>3, <3>1, Zenon DEF savedSwitch
    <3>3. Fits' BY <2>1, <2>5, <3>1, <3>2 DEF Fits
    <3> QED BY <1>a, <2>1, <2>2, <2>8, <3>3, OneMoves DEF Busy
  <2> QED BY <2>7, <2>8
<1>3. ASSUME NEW v \in Volume, handlePostSettingsImport_Storage(v)
      PROVE  HttpsShape' /\ (HttpsCalm /\ OneBusy' => HttpsCalm')
  <2>1. /\ place("web") = "save" /\ place("web") \in Busy /\ page = "import" /\ store' = v
        /\ UNCHANGED <<handle, served, deadline, pairs, card, section, hour, page>>
        /\ actor' = [actor EXCEPT !["web"].copy.volume = v]
      BY <1>3 DEF handlePostSettingsImport_Storage, listener, Busy
  <2> DEFINE copy == [actor["web"].copy EXCEPT !.volume = v]
  <2>2. /\ copy \in Sec /\ copy.volume = v /\ copy.https = actor["web"].copy.https
      BY <1>0, <1>a DEF HttpsShape, ActorState, Sec
  <2>3. /\ actor'["web"].at = "save" /\ actor'["web"].copy = copy
        /\ \A b \in Actor : b # "web" => actor'[b] = actor[b]
      BY <1>0, <1>a, <2>1 DEF HttpsShape, ActorState, place
  <2>4. actor' \in [Actor -> ActorState]
    <3> HIDE DEF copy
    <3>1. [actor["web"] EXCEPT !.copy = copy] \in ActorState
        BY <1>0, <1>a, <2>2 DEF HttpsShape, ActorState
    <3>2. actor' = [actor EXCEPT !["web"] = [actor["web"] EXCEPT !.copy = copy]]
        BY <1>0, <1>a, <2>1 DEF copy
    <3> QED BY <1>0, <3>1, <3>2 DEF HttpsShape
  <2>5. HttpsShape' BY <1>0, <2>1, <2>4 DEF HttpsShape
  <2>6. ASSUME HttpsCalm, OneBusy' PROVE HttpsCalm'
    <3>1. handle => actor["web"].copy.https BY <1>a, <2>1, <2>6 DEF HttpsCalm, Doing, Saving
    <3> HIDE DEF copy
    <3>2. Doing("web")' BY <2>1, <2>2, <2>3, <3>1 DEF Doing, Switching, Saving, place
    <3>3. place("web")' = "save" BY <2>3 DEF place
    <3> QED BY <1>a, <2>1, <2>3, <2>6, <3>2, <3>3, OneMoves DEF Busy
  <2> QED BY <2>5, <2>6
<1>4. ASSUME NEW v \in Volume, handlePostCertificates_Storage(v)
      PROVE  HttpsShape' /\ (HttpsCalm /\ OneBusy' => HttpsCalm')
  <2>1. /\ place("web") = "idle" /\ page' = "storage" /\ store' = v /\ begins("web", "save", handle)
        /\ UNCHANGED <<handle, served, deadline, card, section, hour>>
      BY <1>4 DEF handlePostCertificates_Storage, listener
  <2>2. pairs' \in [Volume -> Pair]
      BY <1>0, <1>4 DEF handlePostCertificates_Storage, copyTo, HttpsShape
  <2>3. /\ actor' \in [Actor -> ActorState] /\ place("web")' = "save"
        /\ \A b \in Actor : b # "web" => actor'[b] = actor[b]
        /\ actor'["web"].copy = section
      BY <1>0, <1>a, <2>1, ActorGoes DEF Busy, HttpsShape
  <2>4. page' \in Page BY <2>1 DEF Page
  <2>5. HttpsShape' BY <1>0, <2>1, <2>2, <2>3, <2>4 DEF HttpsShape
  <2>6. ASSUME HttpsCalm, OneBusy' PROVE HttpsCalm'
    <3>1. place("web") \notin Busy /\ place("web")' \in Busy BY <2>1, <2>3 DEF Busy
    <3>2. Fits BY <1>a, <2>3, <2>6, <3>1, OneBegins
    <3>3. Doing("web")' BY <2>1, <2>3, <3>2 DEF Doing, Switching, Saving, Fits
    <3> QED BY <1>a, <2>3, <2>6, <3>1, <3>3, OneMoves
  <2> QED BY <2>5, <2>6
<1>5. CASE handlePostCertificates_Save
  <2>1. /\ place("web") = "save" /\ page' = "none" /\ place("web") \in Busy
        /\ UNCHANGED <<handle, served, deadline, pairs, card, store, hour>>
        /\ page \in {"storage", "rename"}
        /\ section' = IF page = "storage" THEN [actor["web"].copy EXCEPT !.volume = store]
                                          ELSE actor["web"].copy
      BY <1>5 DEF handlePostCertificates_Save, listener, volumes, Busy
  <2>2. PICK to \in {"schedule", "idle"} : goes("web", to)
      BY <1>5 DEF handlePostCertificates_Save, scheduled
  <2>3. /\ actor' \in [Actor -> ActorState] /\ place("web")' = to
        /\ \A b \in Actor : b # "web" => actor'[b] = actor[b]
      BY <1>a, <2>2, ActorGoes
  <2>4. actor["web"].copy \in Sec /\ store \in Volume BY <1>0, <1>a DEF HttpsShape, ActorState
  <2>5. /\ section' \in Sec /\ section'.https = actor["web"].copy.https
        /\ section'.volume = IF page = "storage" THEN store ELSE actor["web"].copy.volume
      BY <2>1, <2>4 DEF Sec
  <2>6. page' \in Page BY <2>1 DEF Page
  <2>7. HttpsShape' BY <1>0, <2>1, <2>3, <2>5, <2>6 DEF HttpsShape
  <2>8. ASSUME HttpsCalm, OneBusy' PROVE HttpsCalm'
    <3>1. /\ page # "storage" => store = actor["web"].copy.volume
          /\ handle => actor["web"].copy.https
        BY <1>a, <2>1, <2>8 DEF HttpsCalm, Doing, Saving
    <3>2. Fits' BY <2>1, <2>5, <3>1 DEF Fits
    <3> QED BY <1>a, <2>1, <2>3, <2>8, <3>2, OneMoves DEF Busy
  <2> QED BY <2>7, <2>8
<1> QED BY <1>1, <1>2, <1>3, <1>4, <1>5

\* The generation of a pair by the page.
LEMMA HttpsGenerates ==
    ASSUME HttpsTypeOK, handlePostCertificates_Generate \/ generate \/ runCertificateGeneration
    PROVE  HttpsShape' /\ (HttpsCalm /\ OneBusy' => HttpsCalm')
<1>0. HttpsShape BY ShapeIsType
<1>a. "web" \in Actor BY DEF Actor
<1>1. CASE handlePostCertificates_Generate
  <2>1. /\ place("web") = "idle" /\ page' = "generate" /\ begins("web", "wait", handle)
        /\ UNCHANGED <<handle, served, deadline, pairs, card, store, section, hour>>
      BY <1>1 DEF handlePostCertificates_Generate, listener, volumes
  <2>2. /\ actor' \in [Actor -> ActorState] /\ place("web")' = "wait"
        /\ \A b \in Actor : b # "web" => actor'[b] = actor[b]
        /\ actor'["web"].copy = section
      BY <1>0, <1>a, <2>1, ActorGoes DEF Busy, HttpsShape
  <2>3. page' \in Page BY <2>1 DEF Page
  <2>4. HttpsShape' BY <1>0, <2>1, <2>2, <2>3 DEF HttpsShape
  <2>5. ASSUME HttpsCalm, OneBusy' PROVE HttpsCalm'
    <3>1. place("web") \notin Busy /\ place("web")' \in Busy BY <2>1, <2>2 DEF Busy
    <3>2. Fits BY <1>a, <2>2, <2>5, <3>1, OneBegins
    <3>3. Doing("web")' BY <2>1, <2>2, <3>2 DEF Doing, Switching, Saving, Fits
    <3> QED BY <1>a, <2>2, <2>5, <3>1, <3>3, OneMoves
  <2> QED BY <2>4, <2>5
<1>2. CASE generate
  <2>1. /\ place("web") = "wait" /\ page' \in {"made", "generate"}
        /\ UNCHANGED <<handle, served, deadline, card, store, section, hour, actor>>
      BY <1>2 DEF generate, listener
  <2>2. hour + 1 \in Pair /\ NoPair \in Pair
      BY <1>0, <1>2, HttpsAssumption DEF generate, HttpsShape, Pair, NoPair
  <2>3. pairs' \in [Volume -> Pair] BY <1>0, <1>2, <2>2 DEF generate, HttpsShape
  <2>4. page' \in Page BY <2>1 DEF Page
  <2>5. HttpsShape' BY <1>0, <2>1, <2>3, <2>4 DEF HttpsShape
  <2>6. HttpsCalm => HttpsCalm' BY <2>1, NobodyMoves DEF place
  <2> QED BY <2>5, <2>6
<1>3. CASE runCertificateGeneration
  <2>1. /\ place("web") = "wait" /\ place("web") \in Busy
        /\ UNCHANGED <<handle, served, deadline, pairs, card, store, section, hour>>
      BY <1>3 DEF runCertificateGeneration, listener, volumes, Busy
  <2>2. PICK to \in {"save", "schedule", "idle"} :
           goes("web", to) /\ page' \in {"rename", "none"} /\ (to = "save" => page' = "rename")
      BY <1>3 DEF runCertificateGeneration, scheduled
  <2>3. /\ actor' \in [Actor -> ActorState] /\ place("web")' = to
        /\ \A b \in Actor : b # "web" => actor'[b] = actor[b]
        /\ to # "idle" => actor'["web"].copy = actor["web"].copy
      BY <1>a, <2>2, ActorGoes DEF Busy
  <2>4. page' \in Page BY <2>2 DEF Page
  <2>5. HttpsShape' BY <1>0, <2>1, <2>3, <2>4 DEF HttpsShape
  <2>6. ASSUME HttpsCalm, OneBusy' PROVE HttpsCalm'
    <3>1. Fits /\ actor["web"].copy = section BY <1>a, <2>1, <2>6 DEF HttpsCalm, Doing, Saving
    <3>2. Fits' BY <2>1, <3>1 DEF Fits
    <3>3. to = "save" => Doing("web")'
        BY <2>1, <2>2, <2>3, <3>1 DEF Doing, Switching, Saving, Fits
    <3>4. to # "save" => place("web")' \notin Busy BY <2>3 DEF Busy
    <3> QED BY <1>a, <2>1, <2>3, <2>6, <3>2, <3>3, <3>4, OneMoves
  <2> QED BY <2>5, <2>6
<1> QED BY <1>1, <1>2, <1>3

\* The tasks that switch HTTPS later.
LEMMA HttpsTasksBegin ==
    ASSUME HttpsTypeOK, scheduleHttpsSwitch \/ httpsSwitchTask \/ onClockSet \/ httpsRetryTask
    PROVE  HttpsShape' /\ (HttpsCalm /\ OneBusy' => HttpsCalm')
<1>0. HttpsShape BY ShapeIsType
<1>a. "web" \in Actor /\ "switch" \in Actor /\ "retry" \in Actor BY DEF Actor
<1>b. AtRest \in ActorState /\ AtRest.at = "idle" BY DEF AtRest, ActorState, Sec, Volume
<1>1. CASE scheduleHttpsSwitch
  <2>1. /\ place("web") = "schedule" /\ place("switch") = "idle" /\ page' = "none"
        /\ UNCHANGED <<handle, served, deadline, pairs, card, store, section, hour>>
      BY <1>1 DEF scheduleHttpsSwitch, listener, volumes
  <2>2. PICK to \in {"delayed", "idle"} :
           actor' = [actor EXCEPT !["web"] = AtRest,
                                  !["switch"] = [AtRest EXCEPT !.at = to, !.wish = to = "delayed" /\ certUsable]]
      BY <1>1 DEF scheduleHttpsSwitch
  <2> DEFINE new == [AtRest EXCEPT !.at = to, !.wish = to = "delayed" /\ certUsable]
  <2>3. new \in ActorState /\ new.at = to
    <3>1. (to = "delayed" /\ certUsable) \in BOOLEAN OBVIOUS
    <3> QED BY <1>b, <3>1 DEF ActorState
  <2>4. actor' = [actor EXCEPT !["web"] = AtRest, !["switch"] = new] BY <2>2
  <2> HIDE DEF new
  <2>5. /\ actor' \in [Actor -> ActorState] /\ actor'["web"] = AtRest /\ actor'["switch"] = new
        /\ actor'["retry"] = actor["retry"]
      BY <1>0, <1>a, <1>b, <2>3, <2>4 DEF HttpsShape
  <2>6. page' \in Page BY <2>1 DEF Page
  <2>7. HttpsShape' BY <1>0, <2>1, <2>5, <2>6 DEF HttpsShape
  <2>8. \A a \in Actor : place(a)' \in Busy <=> place(a) \in Busy
      BY <1>b, <2>1, <2>3, <2>5 DEF Busy, place, Actor
  <2>9. \A a \in Actor : place(a) \in Busy => actor'[a] = actor[a]
      BY <2>1, <2>5 DEF Busy, Actor
  <2> QED BY <2>1, <2>7, <2>8, <2>9, NobodyMoves
<1>2. CASE httpsSwitchTask
  <2>1. /\ place("switch") = "delayed" /\ goes("switch", "start")
        /\ UNCHANGED <<handle, served, deadline, pairs, card, store, section, hour, page>>
      BY <1>2 DEF httpsSwitchTask, listener, volumes
  <2>2. /\ actor' \in [Actor -> ActorState] /\ place("switch")' = "start"
        /\ \A b \in Actor : b # "switch" => actor'[b] = actor[b]
      BY <1>a, <2>1, ActorGoes DEF Busy
  <2>3. HttpsShape' BY <1>0, <2>1, <2>2 DEF HttpsShape
  <2>4. ASSUME HttpsCalm, OneBusy' PROVE HttpsCalm'
    <3>1. place("switch") \notin Busy /\ place("switch")' \in Busy BY <2>1, <2>2 DEF Busy
    <3>2. Fits BY <1>a, <2>2, <2>4, <3>1, OneBegins
    <3>3. Doing("switch")' BY <2>1, <2>2, <3>2 DEF Doing, Switching, Saving, Fits
    <3> QED BY <1>a, <2>2, <2>4, <3>1, <3>3, OneMoves
  <2> QED BY <2>3, <2>4
<1>3. CASE onClockSet
  <2>1. /\ place("retry") = "idle" /\ goes("retry", "delayed")
        /\ UNCHANGED <<handle, served, deadline, pairs, card, store, section, hour, page>>
      BY <1>3 DEF onClockSet, listener, volumes
  <2>2. /\ actor' \in [Actor -> ActorState] /\ place("retry")' = "delayed"
        /\ \A b \in Actor : b # "retry" => actor'[b] = actor[b]
      BY <1>a, <2>1, ActorGoes
  <2>3. HttpsShape' BY <1>0, <2>1, <2>2 DEF HttpsShape
  <2>4. \A a \in Actor : place(a)' \in Busy <=> place(a) \in Busy BY <2>1, <2>2 DEF Busy, place
  <2>5. \A a \in Actor : place(a) \in Busy => actor'[a] = actor[a] BY <2>1, <2>2 DEF Busy
  <2> QED BY <2>1, <2>3, <2>4, <2>5, NobodyMoves
<1>4. CASE httpsRetryTask
  <2>1. /\ place("retry") = "delayed"
        /\ UNCHANGED <<handle, served, deadline, pairs, card, store, section, hour, page>>
      BY <1>4 DEF httpsRetryTask, listener, volumes
  <2>2. [AtRest EXCEPT !.at = "start", !.wish = TRUE] \in ActorState
        /\ [AtRest EXCEPT !.at = "start", !.wish = TRUE].at = "start"
      BY <1>b DEF ActorState, Busy
  <2>3. PICK new \in ActorState : new.at \in {"start", "idle"} /\ actor' = [actor EXCEPT !["retry"] = new]
      BY <1>4, <1>b, <2>2 DEF httpsRetryTask
  <2>4. /\ actor' \in [Actor -> ActorState] /\ place("retry")' \in {"start", "idle"}
        /\ \A b \in Actor : b # "retry" => actor'[b] = actor[b]
      BY <1>0, <1>a, <2>3 DEF HttpsShape, place
  <2>5. HttpsShape' BY <1>0, <2>1, <2>4 DEF HttpsShape
  <2>6. ASSUME HttpsCalm, OneBusy', place("retry")' = "start" PROVE HttpsCalm'
    <3>1. place("retry") \notin Busy /\ place("retry")' \in Busy BY <2>1, <2>6 DEF Busy
    <3>2. Fits BY <1>a, <2>4, <2>6, <3>1, OneBegins
    <3>3. Doing("retry")' BY <2>1, <2>6, <3>2 DEF Doing, Switching, Saving, Fits
    <3> QED BY <1>a, <2>4, <2>6, <3>1, <3>3, OneMoves
  <2>7. ASSUME HttpsCalm, place("retry")' = "idle" PROVE HttpsCalm'
    <3>1. \A a \in Actor : place(a)' \in Busy <=> place(a) \in Busy
        BY <2>1, <2>4, <2>7 DEF Busy, place
    <3>2. \A a \in Actor : place(a) \in Busy => actor'[a] = actor[a] BY <2>1, <2>4 DEF Busy
    <3> QED BY <2>1, <2>7, <3>1, <3>2, NobodyMoves
  <2> QED BY <2>4, <2>5, <2>6, <2>7
<1> QED BY <1>1, <1>2, <1>3, <1>4

\* The clock, the card, a look at the page, and the removal of a pair.
LEMMA HttpsSurroundings ==
    ASSUME HttpsTypeOK,
           \/ handleGetSecuritySettings \/ handlePostCertificates_Delete
           \/ hourPasses \/ notifyClockSet \/ cardChanges
    PROVE  HttpsShape' /\ (HttpsCalm => HttpsCalm')
<1>0. HttpsShape BY ShapeIsType
<1>a. "web" \in Actor /\ "retry" \in Actor BY DEF Actor
<1>1. CASE handleGetSecuritySettings
  <2>1. UNCHANGED <<handle, served, pairs, card, store, section, hour, actor, page>>
      BY <1>1 DEF handleGetSecuritySettings, volumes
  <2>2. deadline' \in 0 .. MaxHour + 1 BY <1>0, <1>1, PairsAreDates DEF handleGetSecuritySettings
  <2>3. HttpsShape' BY <1>0, <2>1, <2>2 DEF HttpsShape
  <2> QED BY <2>1, <2>3, NobodyMoves DEF place
<1>2. CASE handlePostCertificates_Delete
  <2>1. /\ place("web") = "idle" /\ page' = "delete" /\ pairs' = [pairs EXCEPT ![store] = NoPair]
        /\ UNCHANGED <<handle, served, deadline, card, store, section, hour>>
      BY <1>2 DEF handlePostCertificates_Delete, listener
  <2>2. PICK to \in {"schedule", "idle"} : goes("web", to) BY <1>2 DEF handlePostCertificates_Delete
  <2>3. /\ actor' \in [Actor -> ActorState] /\ place("web")' = to
        /\ \A b \in Actor : b # "web" => actor'[b] = actor[b]
      BY <1>a, <2>2, ActorGoes
  <2>4. pairs' \in [Volume -> Pair] /\ page' \in Page BY <1>0, <2>1, PairsAreDates DEF HttpsShape, Page
  <2>5. HttpsShape' BY <1>0, <2>1, <2>3, <2>4 DEF HttpsShape
  <2>6. \A a \in Actor : place(a)' \in Busy <=> place(a) \in Busy BY <2>1, <2>3 DEF Busy, place
  <2>7. \A a \in Actor : place(a) \in Busy => actor'[a] = actor[a] BY <2>1, <2>3 DEF Busy
  <2> QED BY <2>1, <2>5, <2>6, <2>7, NobodyMoves
<1>3. CASE hourPasses
  <2>1. UNCHANGED <<handle, served, deadline, pairs, card, store, section, actor, page>>
      BY <1>3 DEF hourPasses, listener, volumes
  <2>2. hour' \in 0 .. MaxHour BY <1>0, <1>3, HttpsAssumption DEF hourPasses, HttpsShape
  <2>3. HttpsShape' BY <1>0, <2>1, <2>2 DEF HttpsShape
  <2> QED BY <2>1, <2>3, NobodyMoves DEF place
<1>4. CASE notifyClockSet
  <2>1. UNCHANGED <<handle, served, deadline, pairs, card, store, section, page>> /\ hour' \in 0 .. MaxHour
      BY <1>4, HttpsAssumption DEF notifyClockSet, listener, volumes
  <2>2. CASE actor' = actor
    <3>1. HttpsShape' BY <1>0, <2>1, <2>2 DEF HttpsShape
    <3> QED BY <2>1, <2>2, <3>1, NobodyMoves DEF place
  <2>3. CASE place("retry") = "idle" /\ actor' = [actor EXCEPT !["retry"].at = "delayed"]
    <3> DEFINE new == [actor["retry"] EXCEPT !.at = "delayed"]
    <3>1. new \in ActorState /\ new.at = "delayed" BY <1>0, <1>a DEF HttpsShape, ActorState
    <3>2. actor' = [actor EXCEPT !["retry"] = new] BY <2>3
    <3> HIDE DEF new
    <3>3. /\ actor' \in [Actor -> ActorState] /\ place("retry")' = "delayed"
          /\ \A b \in Actor : b # "retry" => actor'[b] = actor[b]
        BY <1>0, <1>a, <3>1, <3>2 DEF HttpsShape, place
    <3>4. HttpsShape' BY <1>0, <2>1, <3>3 DEF HttpsShape
    <3>5. \A a \in Actor : place(a)' \in Busy <=> place(a) \in Busy BY <2>3, <3>3 DEF Busy, place
    <3>6. \A a \in Actor : place(a) \in Busy => actor'[a] = actor[a] BY <2>3, <3>3 DEF Busy
    <3> QED BY <2>1, <3>4, <3>5, <3>6, NobodyMoves
  <2> QED BY <1>4, <2>2, <2>3 DEF notifyClockSet
<1>5. CASE cardChanges
  <2>1. UNCHANGED <<handle, served, deadline, pairs, store, section, hour, actor, page>>
      BY <1>5 DEF cardChanges, listener
  <2>2. card' \in BOOLEAN BY <1>5 DEF cardChanges
  <2>3. HttpsShape' BY <1>0, <2>1, <2>2 DEF HttpsShape
  <2> QED BY <2>1, <2>3, NobodyMoves DEF place
<1> QED BY <1>1, <1>2, <1>3, <1>4, <1>5

\* WebServer::start: a listener comes up only if the section asks for it.
LEMMA HttpsServerStarts ==
    ASSUME HttpsShape, NEW v \in Volume, NEW now \in 0 .. MaxHour, webServerStart(v, now)
    PROVE  /\ handle' \in BOOLEAN /\ served' \in Pair /\ deadline' \in 0 .. MaxHour + 1
           /\ handle' => section.https
<1> DEFINE p == IF pairPresentIn(v) THEN pairs[v] ELSE NoPair
<1> DEFINE up == section.https /\ p # NoPair /\ now > 0 /\ now < p
<1>1. p \in Pair /\ p \in 0 .. MaxHour + 1 /\ NoPair \in Pair /\ 0 \in 0 .. MaxHour + 1
    BY HttpsAssumption DEF HttpsShape, Pair, NoPair
<1>2. /\ handle' = up /\ served' = (IF up THEN p ELSE NoPair)
      /\ deadline' = (IF up THEN p ELSE 0)
    BY DEF webServerStart
<1>3. up \in BOOLEAN /\ (up => section.https) BY DEF HttpsShape, Sec
<1> HIDE DEF p, up
<1> QED BY <1>1, <1>2, <1>3

\* The web server or the device starts again.
LEMMA HttpsRestarts ==
    ASSUME HttpsTypeOK
    PROVE  /\ onNetworkConnected /\ (mixed' = \E a \in Actor : place(a) \in Busy)
                => HttpsShape' /\ mixed' \in BOOLEAN /\ (~mixed' /\ (~mixed => HttpsCalm) /\ ~mixed => HttpsCalm')
           /\ restarted => HttpsShape' /\ HttpsCalm'
<1>0. HttpsShape BY ShapeIsType
<1>1. ASSUME onNetworkConnected, mixed' = \E a \in Actor : place(a) \in Busy
      PROVE  HttpsShape' /\ mixed' \in BOOLEAN /\ (~mixed' /\ HttpsCalm => HttpsCalm')
  <2>1. UNCHANGED <<pairs, card, store, section, hour, actor, page>> /\ webServerStart(store, hour)
      BY <1>1 DEF onNetworkConnected, volumes
  <2>2. /\ handle' \in BOOLEAN /\ served' \in Pair /\ deadline' \in 0 .. MaxHour + 1
        /\ handle' => section.https
      BY <1>0, <2>1, HttpsServerStarts DEF HttpsShape
  <2>3. HttpsShape' BY <1>0, <2>1, <2>2 DEF HttpsShape
  <2>4. mixed' \in BOOLEAN BY <1>1
  <2>5. ASSUME ~mixed', HttpsCalm PROVE HttpsCalm'
    <3>1. \A a \in Actor : place(a) \notin Busy /\ place(a)' \notin Busy BY <1>1, <2>1, <2>5 DEF place
    <3>2. Fits' BY <2>1, <2>2, <2>5, <3>1 DEF HttpsCalm, Fits
    <3>3. OneBusy' BY <3>1 DEF OneBusy
    <3>4. \A a \in Actor : Doing(a)' BY <3>1 DEF Doing, Switching, Saving, Busy
    <3> QED BY <3>2, <3>3, <3>4 DEF HttpsCalm
  <2> QED BY <2>3, <2>4, <2>5
<1>2. ASSUME restarted PROVE HttpsShape' /\ HttpsCalm'
  <2>1. PICK now \in {0, hour} : hour' = now /\ webServerStart(section.volume, now) BY <1>2 DEF restarted
  <2>2. /\ store' = section.volume /\ actor' = [a \in Actor |-> AtRest] /\ page' = "none"
        /\ UNCHANGED <<pairs, card, section>>
      BY <1>2 DEF restarted
  <2>3. now \in 0 .. MaxHour /\ section.volume \in Volume
      BY <1>0, HttpsAssumption DEF HttpsShape, Sec
  <2>4. /\ handle' \in BOOLEAN /\ served' \in Pair /\ deadline' \in 0 .. MaxHour + 1
        /\ handle' => section.https
      BY <1>0, <2>1, <2>3, HttpsServerStarts
  <2>5. AtRest \in ActorState /\ AtRest.at = "idle" BY DEF AtRest, ActorState, Sec, Volume
  <2>6. actor' \in [Actor -> ActorState] /\ \A a \in Actor : place(a)' = "idle"
      BY <2>2, <2>5 DEF place
  <2>7. page' \in Page BY <2>2 DEF Page
  <2>8. HttpsShape' BY <1>0, <2>1, <2>2, <2>3, <2>4, <2>6, <2>7 DEF HttpsShape
  <2>9. HttpsCalm'
    <3>1. Fits' BY <2>2, <2>4 DEF Fits
    <3> QED BY <2>6, <3>1 DEF HttpsCalm, OneBusy, Doing, Switching, Saving, Busy
  <2> QED BY <2>8, <2>9
<1> QED BY <1>1, <1>2

LEMMA HttpsStart == HttpsInit => HttpsInv
<1> SUFFICES ASSUME HttpsInit PROVE HttpsInv OBVIOUS
<1>1. AtRest \in ActorState /\ AtRest.at = "idle" BY DEF AtRest, ActorState, Sec, Volume
<1>2. actor \in [Actor -> ActorState] /\ \A a \in Actor : place(a) = "idle"
    BY <1>1 DEF HttpsInit, place
<1>3. section \in Sec /\ Fits BY DEF HttpsInit, Sec, Volume, Fits
<1>4. pairs \in [Volume -> Pair] /\ served \in Pair /\ hour \in 0 .. MaxHour /\ deadline \in 0 .. MaxHour + 1
    BY HttpsAssumption DEF HttpsInit, Pair, NoPair
<1>5. handle \in BOOLEAN /\ card \in BOOLEAN /\ store \in Volume /\ page \in Page
    BY DEF HttpsInit, Volume, Page
<1>6. HttpsTypeOK BY <1>2, <1>3, <1>4, <1>5, ShapeIsType DEF HttpsShape, HttpsInit
<1>7. HttpsCalm BY <1>2, <1>3 DEF HttpsCalm, OneBusy, Doing, Switching, Saving, Busy
<1> QED BY <1>6, <1>7 DEF HttpsInv

LEMMA HttpsInductive == HttpsInv /\ [HttpsNext]_httpsVars => HttpsInv'
<1> SUFFICES ASSUME HttpsInv, [HttpsNext]_httpsVars PROVE HttpsInv' OBVIOUS
<1>1. HttpsTypeOK /\ mixed \in BOOLEAN /\ (~mixed => HttpsCalm) BY DEF HttpsInv, HttpsTypeOK
<1>2. CASE UNCHANGED httpsVars
  <2>1. HttpsTypeOK' BY <1>1, <1>2 DEF httpsVars, HttpsTypeOK
  <2>2. ~mixed' => HttpsCalm' BY <1>1, <1>2, NobodyMoves DEF httpsVars, place
  <2> QED BY <2>1, <2>2 DEF HttpsInv
<1>3. CASE /\ httpsWebTask \/ httpsTasks \/ (~mixed /\ HttpsAsk)
           /\ mixed' = (mixed \/ Cardinality({a \in Actor : actor'[a].at \in Busy}) > 1)
  <2>1. HttpsShape' /\ (HttpsCalm /\ OneBusy' => HttpsCalm')
    <3>1. "web" \in Actor /\ "switch" \in Actor /\ "retry" \in Actor BY DEF Actor
    <3>2. CASE httpsWebTask
        BY <1>1, <3>1, <3>2, HttpsEnables, HttpsPages, HttpsGenerates, HttpsTasksBegin DEF httpsWebTask
    <3>3. CASE httpsTasks BY <1>1, <3>1, <3>3, HttpsEnables, HttpsTasksBegin DEF httpsTasks
    <3>4. CASE HttpsAsk
        BY <1>1, <3>4, HttpsPages, HttpsGenerates, HttpsTasksBegin, HttpsSurroundings DEF HttpsAsk
    <3> QED BY <1>3, <3>2, <3>3, <3>4
  <2>2. mixed' \in BOOLEAN BY <1>1, <1>3
  <2>3. HttpsTypeOK' BY <2>1, <2>2 DEF HttpsShape, HttpsTypeOK, ActorState
  <2>4. ASSUME ~mixed' PROVE HttpsCalm'
    <3> DEFINE B == {a \in Actor : actor'[a].at \in Busy}
    <3>1. B \in SUBSET Actor /\ ~(Cardinality(B) > 1) BY <1>3, <2>4
    <3>3. \A a, b \in B : a = b BY <3>1, CountedBusy
    <3>2. OneBusy' BY <3>3 DEF OneBusy, place
    <3> QED BY <1>1, <1>3, <2>1, <2>4, <3>2
  <2> QED BY <2>3, <2>4 DEF HttpsInv
<1>4. CASE ~mixed /\ onNetworkConnected /\ mixed' = \E a \in Actor : place(a) \in Busy
  <2>1. HttpsShape' /\ mixed' \in BOOLEAN /\ (~mixed' => HttpsCalm') BY <1>1, <1>4, HttpsRestarts
  <2> QED BY <2>1 DEF HttpsInv, HttpsShape, HttpsTypeOK, ActorState
<1>5. CASE restarted /\ mixed' = FALSE
  <2>1. HttpsShape' /\ HttpsCalm' BY <1>1, <1>5, HttpsRestarts
  <2>2. mixed' \in BOOLEAN BY <1>5
  <2> QED BY <2>1, <2>2 DEF HttpsInv, HttpsShape, HttpsTypeOK, ActorState
<1> QED BY <1>2, <1>3, <1>4, <1>5 DEF HttpsNext

LEMMA HttpsHolds == HttpsInv => HttpsTypeOK /\ RestartKeepsHttps
BY DEF HttpsInv, RestartKeepsHttps, HttpsQuiet, HttpsCalm, Fits, Busy

-----------------------------------------------------------------------------
(* The settings.  As long as no key was lost, what is stored differs from   *)
(* what is used only in the section that the request in hand is about, and  *)
(* by what its steps have done so far; an import has the sections of its    *)
(* file in hand together, because the services follow at the end.           *)
Saved(s) == used[s].cfg = nvs[s].cfg /\ (used[s].on => nvs[s].on)
File == UNION {[ss -> Setting] : ss \in SUBSET Section}
PageRequest ==
    [page : {"page"}, section : Section, ask : Setting, had : Setting, step : {"switch", "rest", "apply"}]
ImportRequest ==
    [page : {"import"}, file : File, at : 1 .. Len(ImportOrder) + 1, step : {"switch", "rest"}]
IsPage == request \in PageRequest /\ request.ask \in Asking(request.section)
IsImport ==
    /\ request \in ImportRequest
    /\ \A s \in DOMAIN request.file : request.file[s] \in Asking(s)
    /\ request.at <= Len(ImportOrder) => ImportOrder[request.at] \in DOMAIN request.file
SettingsShape ==
    /\ nvs \in [Section -> Setting] /\ used \in [Section -> Setting]
    /\ subnet \in [Filtered -> Value] /\ touched \in Touched /\ lost \in BOOLEAN
    /\ job \in [step : {"idle", "read", "switch"}, copy : Setting]
    /\ request = NoRequest \/ request = [page |-> "reset"] \/ IsPage \/ IsImport
    /\ \A s \in Section \ Switched : ~used[s].on /\ ~nvs[s].on
IdleSaved == Idle => \A s \in Section \ {"timelog"} : Saved(s)
PageSaved ==
    request.page = "page" =>
        /\ \A s \in Section \ {"timelog", request.section} : Saved(s)
        /\ request.section # "timelog" => /\ used[request.section].cfg = request.had.cfg
                                          /\ used[request.section].on => request.had.on
        /\ request.step = "switch" => nvs[request.section] = request.had
        /\ request.step = "rest" /\ request.section = "general" =>
              nvs["general"] = [on |-> request.had.on, cfg |-> request.ask.cfg]
        /\ request.step = "rest" /\ request.section # "general" =>
              nvs[request.section] = [on |-> request.ask.on, cfg |-> request.had.cfg]
        /\ request.step = "apply" => request.section = "bindings" \/ nvs[request.section] = request.ask
NamePending == ImportOf("general") /\ request.step = "rest"
ImportSaved ==
    request.page = "import" =>
        /\ \A s \in Section \ {"timelog"} : s \notin DOMAIN request.file => Saved(s)
        /\ \A s \in DOMAIN request.file \ {"timelog", "dns", "ssh"} :
              used[s].cfg = nvs[s].cfg \/ (s = "general" /\ NamePending)
        /\ NamePending => nvs["general"].cfg = request.file["general"].cfg
NothingElse == ~lost => IdleSaved /\ PageSaved /\ ImportSaved
SettingsInv == SettingsShape /\ NothingElse /\ ResetIsFactory

\* The kinds of requests are told apart by their page.
LEMMA Kinds ==
    ASSUME SettingsShape
    PROVE  /\ request.page = "none" <=> request = NoRequest
           /\ request.page = "page" <=> IsPage
           /\ request.page = "import" <=> IsImport
           /\ request.page = "reset" <=> request = [page |-> "reset"]
           /\ request.page \in {"none", "page", "import", "reset"}
<1>1. CASE request = NoRequest BY <1>1 DEF NoRequest, IsPage, IsImport, PageRequest, ImportRequest
<1>2. CASE request = [page |-> "reset"] BY <1>2 DEF NoRequest, IsPage, IsImport, PageRequest, ImportRequest
<1>3. CASE IsPage BY <1>3 DEF NoRequest, IsPage, IsImport, PageRequest, ImportRequest
<1>4. CASE IsImport BY <1>4 DEF NoRequest, IsPage, IsImport, PageRequest, ImportRequest
<1> QED BY <1>1, <1>2, <1>3, <1>4 DEF SettingsShape

\* What a section may be asked to be.
LEMMA Asked ==
    /\ \A s \in Section : Asking(s) \subseteq Setting
    /\ \A s \in Section \ Switched : \A ask \in Asking(s) : ~ask.on
    /\ \A s \in Section : Factory(s) \in Setting /\ Factory(s).cfg = Default
    /\ \A s \in Section \ Switched : ~Factory(s).on
    /\ Factory("dns") \in Setting
<1>1. \A s \in Section : Asking(s) \subseteq Setting BY DEF Asking, Setting
<1>2. \A s \in Section \ Switched : \A ask \in Asking(s) : ~ask.on BY DEF Asking
<1>3. \A s : Factory(s) \in Setting /\ Factory(s).cfg = Default
    BY SettingsAssumption DEF Setting, Factory
<1>4. \A s \in Section \ Switched : ~Factory(s).on BY DEF Factory, Switched
<1> QED BY <1>1, <1>2, <1>3, <1>4

\* The keys of a save: the first and the rest make the section that was asked for.
LEMMA KeysOfASave ==
    ASSUME nvs \in [Section -> Setting], NEW s \in Section, NEW ask \in Setting
    PROVE  /\ firstKey(ask, s) \in [Section -> Setting] /\ restKey(ask, s) \in [Section -> Setting]
           /\ \A t \in Section : t # s => firstKey(ask, s)[t] = nvs[t] /\ restKey(ask, s)[t] = nvs[t]
           /\ s = "general" => /\ firstKey(ask, s)[s] = [on |-> nvs[s].on, cfg |-> ask.cfg]
                               /\ restKey(ask, s)[s] = [on |-> ask.on, cfg |-> nvs[s].cfg]
           /\ s # "general" => /\ firstKey(ask, s)[s] = [on |-> ask.on, cfg |-> nvs[s].cfg]
                               /\ restKey(ask, s)[s] = [on |-> nvs[s].on, cfg |-> ask.cfg]
<1>1. nvs[s] \in Setting /\ ask.on \in BOOLEAN /\ ask.cfg \in Value BY DEF Setting
<1>2. /\ withSwitch(ask, s) \in [Section -> Setting]
      /\ \A t \in Section : t # s => withSwitch(ask, s)[t] = nvs[t]
      /\ withSwitch(ask, s)[s] = [on |-> ask.on, cfg |-> nvs[s].cfg]
    BY <1>1 DEF withSwitch, Setting
<1>3. /\ withCfg(ask, s) \in [Section -> Setting]
      /\ \A t \in Section : t # s => withCfg(ask, s)[t] = nvs[t]
      /\ withCfg(ask, s)[s] = [on |-> nvs[s].on, cfg |-> ask.cfg]
    BY <1>1 DEF withCfg, Setting
<1> QED BY <1>2, <1>3 DEF firstKey, restKey

\* A write that is not lost has written.
LEMMA KeysAreWritten ==
    ASSUME nvs \in [Section -> Setting], lost \in BOOLEAN, NEW new \in [Section -> Setting], writeKeys(new)
    PROVE  /\ nvs' \in [Section -> Setting] /\ lost' \in BOOLEAN
           /\ ~lost' => ~lost /\ nvs' = new
           /\ nvs' = nvs \/ nvs' = new
BY DEF writeKeys

\* The filters are made of what is stored.
LEMMA FiltersTyped ==
    ASSUME subnet \in [Filtered -> Value], nvs' \in [Section -> Setting], NEW filters, refreshed(filters)
    PROVE  subnet' \in [Filtered -> Value]
<1>1. nvs'["dhcp"].cfg \in Value BY DEF Section, Switched, Setting
<1> QED BY <1>1 DEF refreshed

LEMMA SettingsStart == SettingsInit => SettingsInv
<1> SUFFICES ASSUME SettingsInit PROVE SettingsInv OBVIOUS
<1>1. request.page = "none" BY DEF SettingsInit, NoRequest
<1>2. nvs \in [Section -> Setting] /\ used \in [Section -> Setting] /\ subnet \in [Filtered -> Value]
    BY Asked, SettingsAssumption DEF SettingsInit
<1>3. job \in [step : {"idle", "read", "switch"}, copy : Setting] BY Asked DEF SettingsInit, NoJob
<1>4. \A s \in Section \ Switched : ~used[s].on /\ ~nvs[s].on BY Asked DEF SettingsInit
<1>5. SettingsShape BY <1>2, <1>3, <1>4 DEF SettingsShape, SettingsInit
<1>6. NothingElse
    BY <1>1, <1>2 DEF NothingElse, IdleSaved, PageSaved, ImportSaved, Saved, SettingsInit
<1>7. ResetIsFactory BY <1>1 DEF ResetIsFactory
<1> QED BY <1>5, <1>6, <1>7 DEF SettingsInv

\* The task that stores the checksum, and the beginning of a page's request.
LEMMA SettingsJob ==
    ASSUME SettingsInv, storeCacheFileMd5_Read \/ storeCacheFileMd5_Switch \/ storeCacheFileMd5_Rest
    PROVE  SettingsInv'
<1> USE DEF SettingsInv
<1>1. UNCHANGED <<used, subnet, touched, request>>
    BY DEF storeCacheFileMd5_Read, storeCacheFileMd5_Switch, storeCacheFileMd5_Rest
<1>2. "dns" \in Section BY DEF Section, Switched
<1>3. /\ nvs' \in [Section -> Setting] /\ lost' \in BOOLEAN /\ (~lost' => ~lost /\ nvs' = nvs)
      /\ job' \in [step : {"idle", "read", "switch"}, copy : Setting]
  <2>1. nvs["dns"] \in Setting /\ job.copy \in Setting /\ job.copy.on \in BOOLEAN /\ job.copy.cfg \in Value
      BY <1>2 DEF SettingsShape, Setting
  <2>2. CASE storeCacheFileMd5_Read BY <2>1, <2>2 DEF storeCacheFileMd5_Read, SettingsShape
  <2>3. CASE storeCacheFileMd5_Switch
    <3>1. nvs' \in [Section -> Setting] BY <1>2, <2>1, <2>3 DEF storeCacheFileMd5_Switch, SettingsShape, Setting
    <3>2. job' \in [step : {"idle", "read", "switch"}, copy : Setting]
        BY <2>3 DEF storeCacheFileMd5_Switch, SettingsShape
    <3> QED BY <2>3, <3>1, <3>2 DEF storeCacheFileMd5_Switch, SettingsShape
  <2>4. CASE storeCacheFileMd5_Rest
    <3>1. nvs' \in [Section -> Setting] BY <1>2, <2>1, <2>4 DEF storeCacheFileMd5_Rest, SettingsShape, Setting
    <3>2. job' \in [step : {"idle", "read", "switch"}, copy : Setting]
        BY <2>4, Asked DEF storeCacheFileMd5_Rest, NoJob
    <3> QED BY <2>4, <3>1, <3>2 DEF storeCacheFileMd5_Rest, SettingsShape
  <2> QED BY <2>2, <2>3, <2>4
<1>7. \A s \in Section \ Switched : nvs'[s] = nvs[s]
  <2>1. "dns" \in Switched BY DEF Switched
  <2> QED BY <2>1 DEF storeCacheFileMd5_Read, storeCacheFileMd5_Switch, storeCacheFileMd5_Rest, SettingsShape
<1>4. SettingsShape' BY <1>1, <1>3, <1>7 DEF SettingsShape, IsPage, IsImport
<1>5. NothingElse'
    BY <1>1, <1>3 DEF NothingElse, IdleSaved, Idle, PageSaved, ImportSaved, Saved, NamePending, ImportOf
<1>6. ResetIsFactory' BY <1>1, <1>3 DEF ResetIsFactory
<1> QED BY <1>4, <1>5, <1>6

\* A page is sent, refused, and its keys are written one after the other.
LEMMA SettingsPage ==
    ASSUME SettingsInv,
           \/ \E s \in Section : \E ask \in Asking(s) : page_Begin(s, ask)
           \/ page_Refuse \/ page_SaveSwitch \/ page_SaveRest
    PROVE  SettingsInv'
<1> USE DEF SettingsInv
<1>1. UNCHANGED <<used, subnet, touched, job>>
    BY DEF page_Begin, page_Refuse, page_SaveSwitch, page_SaveRest
<1>2. ASSUME NEW s \in Section, NEW ask \in Asking(s), page_Begin(s, ask) PROVE SettingsInv'
  <2>1. /\ Idle /\ ~lost /\ nvs' = nvs /\ lost' = lost
        /\ request' = [page |-> "page", section |-> s, ask |-> ask, had |-> nvs[s], step |-> "switch"]
      BY <1>2 DEF page_Begin
  <2>2. \A t \in Section \ {"timelog"} : Saved(t) BY <2>1 DEF NothingElse, IdleSaved
  <2>3. nvs[s] \in Setting /\ ask \in Setting BY Asked DEF SettingsShape
  <2>4. IsPage' BY <2>1, <2>3 DEF IsPage, PageRequest
  <2>5. SettingsShape' BY <1>1, <2>1, <2>4 DEF SettingsShape
  <2>6. PageSaved' BY <1>1, <2>1, <2>2 DEF PageSaved, Saved
  <2>7. request'.page = "page" BY <2>1
  <2> QED BY <2>5, <2>6, <2>7 DEF NothingElse, IdleSaved, Idle, ImportSaved, ResetIsFactory
<1>3. CASE page_Refuse
  <2>1. request.page = "page" /\ request.step = "switch" /\ request' = NoRequest /\ nvs' = nvs /\ lost' = lost
      BY <1>3 DEF page_Refuse
  <2>2. SettingsShape' BY <1>1, <2>1 DEF SettingsShape
  <2>3. IsPage BY <2>1, Kinds
  <2>4. ~lost => \A t \in Section \ {"timelog"} : Saved(t)
      BY <2>1, <2>3 DEF NothingElse, PageSaved, Saved
  <2>5. request'.page = "none" BY <2>1 DEF NoRequest
  <2> QED BY <1>1, <2>1, <2>2, <2>4, <2>5
      DEF NothingElse, IdleSaved, Idle, PageSaved, ImportSaved, ResetIsFactory, Saved
<1>4. CASE page_SaveSwitch \/ page_SaveRest
  <2>1. request.page = "page" /\ IsPage BY <1>4, Kinds DEF page_SaveSwitch, page_SaveRest
  <2> DEFINE x == request.section
  <2>2. x \in Section /\ request.ask \in Setting /\ request.had \in Setting
      BY <2>1 DEF IsPage, PageRequest
  <2>3. PICK step \in {"rest", "apply"} : request' = [request EXCEPT !.step = step]
      BY <1>4 DEF page_SaveSwitch, page_SaveRest
  <2>4. IsPage' /\ request'.page = "page" /\ request'.section = x /\ request'.ask = request.ask
        /\ request'.had = request.had /\ request'.step = step
      BY <2>1, <2>3 DEF IsPage, PageRequest
  <2>5. nvs \in [Section -> Setting] /\ lost \in BOOLEAN BY DEF SettingsShape
  <2>6. /\ firstKey(request.ask, x) \in [Section -> Setting] /\ restKey(request.ask, x) \in [Section -> Setting]
        /\ \A t \in Section : t # x => firstKey(request.ask, x)[t] = nvs[t] /\ restKey(request.ask, x)[t] = nvs[t]
        /\ x = "general" => /\ firstKey(request.ask, x)[x] = [on |-> nvs[x].on, cfg |-> request.ask.cfg]
                            /\ restKey(request.ask, x)[x] = [on |-> request.ask.on, cfg |-> nvs[x].cfg]
        /\ x # "general" => /\ firstKey(request.ask, x)[x] = [on |-> request.ask.on, cfg |-> nvs[x].cfg]
                            /\ restKey(request.ask, x)[x] = [on |-> nvs[x].on, cfg |-> request.ask.cfg]
      BY <2>2, <2>5, KeysOfASave
  <2>7. ~lost => /\ \A t \in Section \ {"timelog", x} : Saved(t)
                 /\ x # "timelog" => used[x].cfg = request.had.cfg /\ (used[x].on => request.had.on)
      BY <2>1 DEF NothingElse, PageSaved
  <2>10. /\ \A s \in Section \ Switched : ~used[s].on /\ ~nvs[s].on
         /\ x \notin Switched => ~request.ask.on
      BY <2>1, <2>2, Asked DEF SettingsShape, IsPage
  <2>11. "general" \in Switched BY DEF Switched
  <2>12. \A s \in Section \ Switched : ~firstKey(request.ask, x)[s].on /\ ~restKey(request.ask, x)[s].on
    <3> SUFFICES ASSUME NEW s \in Section \ Switched
                 PROVE  ~firstKey(request.ask, x)[s].on /\ ~restKey(request.ask, x)[s].on
        OBVIOUS
    <3>1. CASE s = x BY <2>6, <2>10, <2>11, <3>1
    <3>2. CASE s # x BY <2>6, <2>10, <3>2
    <3> QED BY <3>1, <3>2
  <2>8. CASE page_SaveSwitch
    <3>1. step = "rest" BY <2>1, <2>3, <2>4, <2>8 DEF page_SaveSwitch, IsPage, PageRequest
    <3>2. /\ nvs' \in [Section -> Setting] /\ lost' \in BOOLEAN
          /\ ~lost' => ~lost /\ nvs' = firstKey(request.ask, x)
          /\ nvs' = nvs \/ nvs' = firstKey(request.ask, x)
        BY <2>5, <2>6, <2>8, KeysAreWritten DEF page_SaveSwitch
    <3>5. \A s \in Section \ Switched : ~nvs'[s].on BY <2>10, <2>12, <3>2
    <3>3. SettingsShape' BY <1>1, <2>4, <2>10, <3>2, <3>5 DEF SettingsShape
    <3>4. ASSUME ~lost' PROVE PageSaved'
      <4>1. nvs[x] = request.had BY <2>1, <2>8, <3>2, <3>4 DEF page_SaveSwitch, NothingElse, PageSaved
      <4>2. /\ \A t \in Section : t # x => nvs'[t] = nvs[t]
            /\ x = "general" => nvs'[x] = [on |-> request.had.on, cfg |-> request.ask.cfg]
            /\ x # "general" => nvs'[x] = [on |-> request.ask.on, cfg |-> request.had.cfg]
          BY <2>6, <3>2, <3>4, <4>1
      <4> QED BY <1>1, <2>4, <2>7, <3>1, <3>2, <3>4, <4>2 DEF PageSaved, Saved
    <3> QED BY <2>4, <3>3, <3>4 DEF NothingElse, IdleSaved, Idle, ImportSaved, ResetIsFactory
  <2>9. CASE page_SaveRest
    <3>1. step = "apply" BY <2>1, <2>3, <2>4, <2>9 DEF page_SaveRest, IsPage, PageRequest
    <3>2. /\ nvs' \in [Section -> Setting] /\ lost' \in BOOLEAN
          /\ ~lost' => ~lost /\ (nvs' = restKey(request.ask, x) \/ (x = "bindings" /\ nvs' = nvs))
          /\ nvs' = nvs \/ nvs' = restKey(request.ask, x)
      <4>1. CASE writeKeys(restKey(request.ask, x)) BY <2>5, <2>6, <4>1, KeysAreWritten
      <4> QED BY <2>5, <2>9, <4>1 DEF page_SaveRest
    <3>5. \A s \in Section \ Switched : ~nvs'[s].on BY <2>10, <2>12, <3>2
    <3>3. SettingsShape' BY <1>1, <2>4, <2>10, <3>2, <3>5 DEF SettingsShape
    <3>4. ASSUME ~lost' PROVE PageSaved'
      <4>1. /\ x = "general" => nvs[x] = [on |-> request.had.on, cfg |-> request.ask.cfg]
            /\ x # "general" => nvs[x] = [on |-> request.ask.on, cfg |-> request.had.cfg]
          BY <2>1, <2>9, <3>2, <3>4 DEF page_SaveRest, NothingElse, PageSaved
      <4>2. request.ask = [on |-> request.ask.on, cfg |-> request.ask.cfg] BY <2>2 DEF Setting
      <4>3. nvs' = restKey(request.ask, x) => nvs'[x] = request.ask BY <2>6, <4>1, <4>2
      <4>4. \A t \in Section : t # x => nvs'[t] = nvs[t] BY <2>6, <3>2, <3>4
      <4>5. x = "bindings" \/ nvs'[x] = request.ask BY <3>2, <3>4, <4>3
      <4> QED BY <1>1, <2>4, <2>7, <3>1, <3>2, <3>4, <4>4, <4>5 DEF PageSaved, Saved
    <3> QED BY <2>4, <3>3, <3>4 DEF NothingElse, IdleSaved, Idle, ImportSaved, ResetIsFactory
  <2> QED BY <1>4, <2>8, <2>9
<1> QED BY <1>2, <1>3, <1>4

\* The next section of the file is one of the file, or there is none left.
LEMMA NextOfTheFile ==
    ASSUME NEW file, NEW at \in 0 .. Len(ImportOrder) + 1
    PROVE  /\ after(file, at) \in 1 .. Len(ImportOrder) + 1
           /\ after(file, at) <= Len(ImportOrder) => ImportOrder[after(file, at)] \in DOMAIN file
<1> DEFINE next == {i \in at + 1 .. Len(ImportOrder) : ImportOrder[i] \in DOMAIN file}
<1>1. Len(ImportOrder) \in Nat BY DEF ImportOrder
<1>2. CASE next = {} BY <1>1, <1>2 DEF after
<1>3. CASE next # {}
  <2>1. next \subseteq Nat BY <1>1
  <2> DEFINE R == OpToRel(<, Nat)
  <2>2. IsWellFoundedOn(R, Nat) BY NatLessThanWellFounded
  <2>5. \A i, j \in Nat : j < i => <<j, i>> \in R BY DEF OpToRel
  <2> HIDE DEF R, next
  <2>6. \E i \in next : \A j \in next : ~(<<j, i>> \in R) BY <1>3, <2>1, <2>2, WFMin
  <2>3. \E i \in next : \A j \in next : i <= j
    <3>1. PICK i \in next : \A j \in next : ~(<<j, i>> \in R) BY <2>6
    <3>2. ASSUME NEW j \in next PROVE i <= j
      <4>1. i \in Nat /\ j \in Nat BY <2>1
      <4>2. ~(j < i) BY <2>5, <3>1, <4>1
      <4> QED BY <4>1, <4>2
    <3> QED BY <3>2
  <2> USE DEF next
  <2>4. after(file, at) \in next BY <1>3, <2>3 DEF after
  <2> QED BY <1>1, <2>4
<1> QED BY <1>2, <1>3

\* A page brings its section in line: then nothing is in hand any more.
LEMMA SettingsApplied ==
    ASSUME SettingsInv, NEW x \in Section, page_Apply(x), NEW v \in Setting,
           used' = [used EXCEPT ![x] = v], x \notin Switched => ~v.on /\ nvs'[x] = nvs[x],
           nvs' \in [Section -> Setting], \A t \in Section : t # x => nvs'[t] = nvs[t],
           lost' \in BOOLEAN, ~lost' => ~lost, subnet' \in [Filtered -> Value],
           ~lost' /\ x # "timelog" => v.cfg = nvs'[x].cfg /\ (v.on => nvs'[x].on)
    PROVE  SettingsInv'
<1> USE DEF SettingsInv
<1>1. /\ request.page = "page" /\ request.section = x /\ request' = NoRequest
      /\ request'.page = "none" /\ UNCHANGED <<touched, job>>
    BY DEF page_Apply, NoRequest
<1>2. /\ used'[x] = v /\ used' \in [Section -> Setting]
      /\ \A t \in Section : t # x => used'[t] = used[t]
    BY DEF SettingsShape
<1>3. \A s \in Section \ Switched : ~used'[s].on /\ ~nvs'[s].on
  <2> SUFFICES ASSUME NEW s \in Section \ Switched PROVE ~used'[s].on /\ ~nvs'[s].on OBVIOUS
  <2>1. nvs'[s] = nvs[s] BY SMT
  <2>2. ~nvs[s].on /\ ~used[s].on BY DEF SettingsShape
  <2> QED BY <1>2, <2>1, <2>2
<1>4. SettingsShape' BY <1>1, <1>2, <1>3 DEF SettingsShape
<1>5. ASSUME ~lost', NEW t \in Section \ {"timelog"} PROVE Saved(t)'
  <2>1. CASE t = x BY <1>2, <1>5, <2>1 DEF Saved
  <2>2. CASE t # x
    <3>1. Saved(t) BY <1>1, <1>5, <2>2 DEF NothingElse, PageSaved
    <3> QED BY <1>2, <2>2, <3>1 DEF Saved
  <2> QED BY <2>1, <2>2
<1> QED BY <1>1, <1>4, <1>5 DEF NothingElse, IdleSaved, Idle, PageSaved, ImportSaved, ResetIsFactory

\* A start may fail, a stop does not.
LEMMA Switches ==
    ASSUME NEW now \in BOOLEAN, NEW want \in BOOLEAN, NEW up \in switched(now, want)
    PROVE  up \in BOOLEAN /\ (up => want)
BY DEF switched

\* The handlers that go by what the page sent.
LEMMA SettingsApplyAsked ==
    ASSUME SettingsInv,
           \/ handlePostDhcpSettings \/ handlePostDnsSettings \/ handlePostTimeSettings
           \/ handlePostLocalHosts \/ handlePostSettingsGeneral
    PROVE  SettingsInv'
<1> USE DEF SettingsInv
<1>0. /\ {"dhcp", "dns", "time", "hosts", "general"} \subseteq Section
      /\ {"dhcp", "dns", "time", "general"} \subseteq Switched /\ "hosts" \notin Switched
    BY DEF Section, Switched, Lists
<1>1. /\ nvs \in [Section -> Setting] /\ used \in [Section -> Setting] /\ lost \in BOOLEAN
      /\ subnet \in [Filtered -> Value]
      /\ \A s \in Section : used[s].on \in BOOLEAN /\ nvs[s] \in Setting
    BY DEF SettingsShape, Setting
<1>2. ASSUME NEW x \in Section, page_Apply(x)
      PROVE  /\ request.ask \in Setting /\ request.ask.on \in BOOLEAN /\ request.ask.cfg \in Value
             /\ ~lost => x = "bindings" \/ nvs[x] = request.ask
             /\ x \notin Switched => ~request.ask.on
  <2>1. IsPage /\ request.section = x BY <1>2, Kinds DEF page_Apply
  <2>2. request.ask \in Setting /\ request.ask \in Asking(x) BY <2>1 DEF IsPage, PageRequest
  <2>3. ~lost => x = "bindings" \/ nvs[x] = request.ask BY <1>2 DEF page_Apply, NothingElse, PageSaved
  <2> QED BY <2>2, <2>3, Asked DEF Setting
<1>3. ASSUME NEW x \in {"dhcp", "dns", "time"}, page_Apply(x), UNCHANGED <<nvs, lost>>,
             NEW up \in switched(used[x].on, request.ask.on),
             applySettingsLive(x, up, request.ask.cfg), subnet' \in [Filtered -> Value]
      PROVE  SettingsInv'
  <2>1. x \in Section /\ x \in Switched /\ x # "bindings" BY <1>0
  <2>2. up \in BOOLEAN /\ (up => request.ask.on) BY <1>1, <1>2, <1>3, <2>1, Switches
  <2> DEFINE v == [on |-> up, cfg |-> request.ask.cfg]
  <2>3. v \in Setting /\ v.on = up /\ v.cfg = request.ask.cfg BY <1>2, <1>3, <2>1, <2>2 DEF Setting
  <2>4. used' = [used EXCEPT ![x] = v] BY <1>3 DEF applySettingsLive
  <2>5. ~lost => nvs[x] = request.ask BY <1>2, <1>3, <2>1
  <2> HIDE DEF v
  <2> QED BY <1>1, <1>3, <2>1, <2>2, <2>3, <2>4, <2>5, SettingsApplied
<1>4. CASE handlePostDhcpSettings
  <2>1. PICK up \in switched(used["dhcp"].on, request.ask.on) :
           /\ applySettingsLive("dhcp", up, request.ask.cfg)
           /\ UNCHANGED subnet \/ refreshed(Filtered)
      BY <1>4 DEF handlePostDhcpSettings, applyDhcpRunning
  <2>2. nvs' \in [Section -> Setting] BY <1>1, <1>4 DEF handlePostDhcpSettings
  <2>3. subnet' \in [Filtered -> Value] BY <1>1, <2>1, <2>2, FiltersTyped
  <2> QED BY <1>3, <1>4, <2>1, <2>3 DEF handlePostDhcpSettings
<1>5. CASE handlePostDnsSettings
  <2>1. PICK up \in switched(used["dns"].on, request.ask.on) :
           applySettingsLive("dns", up, request.ask.cfg) /\ refreshed({"dns"})
      BY <1>5 DEF handlePostDnsSettings, applyDnsRunning
  <2>2. nvs' \in [Section -> Setting] BY <1>1, <1>5 DEF handlePostDnsSettings
  <2>3. subnet' \in [Filtered -> Value] BY <1>1, <2>1, <2>2, FiltersTyped
  <2> QED BY <1>3, <1>5, <2>1, <2>3 DEF handlePostDnsSettings
<1>6. CASE handlePostTimeSettings
  <2>1. PICK up \in switched(used["time"].on, request.ask.on) :
           applySettingsLive("time", up, request.ask.cfg) /\ refreshed({"time"})
      BY <1>6 DEF handlePostTimeSettings, applyTimeRunning
  <2>2. nvs' \in [Section -> Setting] BY <1>1, <1>6 DEF handlePostTimeSettings
  <2>3. subnet' \in [Filtered -> Value] BY <1>1, <2>1, <2>2, FiltersTyped
  <2> QED BY <1>3, <1>6, <2>1, <2>3 DEF handlePostTimeSettings
<1>7. CASE handlePostLocalHosts
  <2>1. /\ page_Apply("hosts") /\ used' = [used EXCEPT !["hosts"] = request.ask]
        /\ UNCHANGED <<nvs, subnet, lost>>
      BY <1>7 DEF handlePostLocalHosts
  <2>2. request.ask \in Setting /\ ~request.ask.on /\ (~lost => nvs["hosts"] = request.ask)
      BY <1>0, <1>2, <2>1
  <2> QED BY <1>0, <1>1, <2>1, <2>2, SettingsApplied
<1>8. CASE handlePostSettingsGeneral
  <2>1. page_Apply("general") /\ UNCHANGED subnet BY <1>8 DEF handlePostSettingsGeneral
  <2>2. PICK up \in switched(FALSE, request.ask.on) :
           /\ used' = [used EXCEPT !["general"] = [on |-> up, cfg |-> request.ask.cfg]]
           /\ IF request.ask.on /\ ~up THEN writeKeys([nvs EXCEPT !["general"].on = FALSE])
              ELSE UNCHANGED <<nvs, lost>>
      BY <1>8 DEF handlePostSettingsGeneral
  <2>3. /\ request.ask.on \in BOOLEAN /\ request.ask.cfg \in Value
        /\ ~lost => nvs["general"] = request.ask
      BY <1>0, <1>2, <2>1
  <2>4. up \in BOOLEAN /\ (up => request.ask.on) BY <2>3, Switches
  <2> DEFINE v == [on |-> up, cfg |-> request.ask.cfg]
  <2>5. v \in Setting /\ v.on = up /\ v.cfg = request.ask.cfg BY <2>3, <2>4 DEF Setting
  <2>6. used' = [used EXCEPT !["general"] = v] BY <2>2
  <2> HIDE DEF v
  <2> DEFINE new == [nvs EXCEPT !["general"].on = FALSE]
  <2>7. /\ new \in [Section -> Setting] /\ new["general"].cfg = nvs["general"].cfg
        /\ \A t \in Section : t # "general" => new[t] = nvs[t]
      BY <1>0, <1>1 DEF Setting
  <2>8. CASE request.ask.on /\ ~up
    <3>1. writeKeys(new) BY <2>2, <2>8
    <3> HIDE DEF new
    <3>2. /\ nvs' \in [Section -> Setting] /\ lost' \in BOOLEAN
          /\ ~lost' => ~lost /\ nvs' = new
          /\ nvs' = nvs \/ nvs' = new
        BY <1>1, <2>7, <3>1, KeysAreWritten
    <3>3. \A t \in Section : t # "general" => nvs'[t] = nvs[t] BY <2>7, <3>2
    <3>4. ~lost' => v.cfg = nvs'["general"].cfg /\ ~v.on BY <2>3, <2>5, <2>7, <2>8, <3>2
    <3> QED BY <1>0, <1>1, <2>1, <2>5, <2>6, <3>2, <3>3, <3>4, SettingsApplied
  <2>9. CASE ~(request.ask.on /\ ~up)
    <3>1. UNCHANGED <<nvs, lost>> BY <2>2, <2>9
    <3> QED BY <1>0, <1>1, <2>1, <2>3, <2>4, <2>5, <2>6, <3>1, SettingsApplied
  <2> QED BY <2>8, <2>9
<1> QED BY <1>4, <1>5, <1>6, <1>7, <1>8

\* The handlers that go by what is stored.
LEMMA SettingsApplyStored ==
    ASSUME SettingsInv,
           \/ handlePostStaticBindings \/ handlePostAllowedComputers \/ handlePostSecuritySettings
           \/ handlePostTimeSettings_Log \/ handlePostFileSettings \/ handlePostSshSettings
    PROVE  SettingsInv'
<1> USE DEF SettingsInv
<1> DEFINE Stored == {"bindings", "allowed", "security", "timelog", "files"}
<1>0. Stored \subseteq Section /\ Stored \cap Switched = {} /\ "ssh" \in Section /\ "ssh" \in Switched
    BY DEF Section, Switched, Lists
<1>1. /\ nvs \in [Section -> Setting] /\ used \in [Section -> Setting] /\ lost \in BOOLEAN
      /\ subnet \in [Filtered -> Value]
      /\ \A s \in Section : used[s].on \in BOOLEAN /\ nvs[s] \in Setting /\ used[s] \in Setting
    BY DEF SettingsShape, Setting
<1>2. ASSUME NEW x \in Stored, page_Apply(x), UNCHANGED <<nvs, lost>>,
             used' = [used EXCEPT ![x] = nvs[x]], subnet' \in [Filtered -> Value]
      PROVE  SettingsInv'
  <2>1. x \in Section /\ x \in Section \ Switched BY <1>0
  <2>2. nvs[x] \in Setting /\ ~nvs[x].on BY <1>1, <2>1 DEF SettingsShape
  <2> QED BY <1>1, <1>2, <2>1, <2>2, SettingsApplied
<1>3. CASE handlePostStaticBindings BY <1>1, <1>2, <1>3 DEF handlePostStaticBindings
<1>4. CASE handlePostAllowedComputers BY <1>1, <1>2, <1>4 DEF handlePostAllowedComputers
<1>5. CASE handlePostSecuritySettings BY <1>1, <1>2, <1>5 DEF handlePostSecuritySettings
<1>6. CASE handlePostTimeSettings_Log BY <1>1, <1>2, <1>6 DEF handlePostTimeSettings_Log
<1>7. CASE handlePostFileSettings
  <2>1. nvs' \in [Section -> Setting] /\ refreshed({"files"}) BY <1>1, <1>7 DEF handlePostFileSettings
  <2>2. subnet' \in [Filtered -> Value] BY <1>1, <2>1, FiltersTyped
  <2> QED BY <1>2, <1>7, <2>2 DEF handlePostFileSettings
<1>8. CASE handlePostSshSettings
  <2>1. page_Apply("ssh") /\ UNCHANGED <<nvs, lost>> /\ refreshed({"ssh"}) BY <1>8 DEF handlePostSshSettings
  <2>2. nvs' \in [Section -> Setting] /\ lost' \in BOOLEAN BY <1>1, <2>1
  <2>3. subnet' \in [Filtered -> Value] BY <1>1, <2>1, <2>2, FiltersTyped
  <2>4. CASE request.ask = request.had
    <3> DEFINE v == used["ssh"]
    <3>1. v \in Setting BY <1>0, <1>1
    <3>2. used' = used /\ used' = [used EXCEPT !["ssh"] = v]
        BY <1>0, <1>1, <1>8, <2>4 DEF handlePostSshSettings
    <3>3. ~lost => v.cfg = nvs["ssh"].cfg /\ (v.on => nvs["ssh"].on)
        BY <1>0, <2>1, <2>4 DEF page_Apply, NothingElse, PageSaved
    <3> HIDE DEF v
    <3> QED BY <1>0, <2>1, <2>2, <2>3, <3>1, <3>2, <3>3, SettingsApplied
  <2>5. CASE request.ask # request.had
    <3>1. PICK up \in switched(FALSE, nvs["ssh"].on) :
             used' = [used EXCEPT !["ssh"] = [on |-> up, cfg |-> nvs["ssh"].cfg]]
        BY <1>8, <2>5 DEF handlePostSshSettings, applySshLive
    <3>2. nvs["ssh"].on \in BOOLEAN /\ nvs["ssh"].cfg \in Value BY <1>0, <1>1 DEF Setting
    <3>3. up \in BOOLEAN /\ (up => nvs["ssh"].on) BY <3>2, Switches
    <3> DEFINE v == [on |-> up, cfg |-> nvs["ssh"].cfg]
    <3>4. v \in Setting /\ v.on = up /\ v.cfg = nvs["ssh"].cfg BY <3>2, <3>3 DEF Setting
    <3>5. used' = [used EXCEPT !["ssh"] = v] BY <3>1
    <3> HIDE DEF v
    <3> QED BY <1>0, <2>1, <2>2, <2>3, <3>3, <3>4, <3>5, SettingsApplied
  <2> QED BY <2>4, <2>5
<1> QED BY <1>3, <1>4, <1>5, <1>6, <1>7, <1>8

\* An import has the sections of its file in hand, each of them typed.
LEMMA ImportInHand ==
    ASSUME SettingsInv, request.page = "import"
    PROVE  /\ IsImport /\ request.file \in File /\ DOMAIN request.file \subseteq Section
           /\ \A s \in DOMAIN request.file : request.file[s] \in Setting
           /\ \A s \in DOMAIN request.file \ Switched : ~request.file[s].on
           /\ \A s : ImportOf(s) => s \in DOMAIN request.file
           /\ \A s, t : ImportOf(s) /\ ImportOf(t) => s = t
           /\ request.step \in {"switch", "rest"}
<1>1. IsImport BY Kinds DEF SettingsInv
<1>2. /\ request.file \in File /\ request.at \in 1 .. Len(ImportOrder) + 1
      /\ request.step \in {"switch", "rest"}
    BY <1>1 DEF IsImport, ImportRequest
<1>3. DOMAIN request.file \subseteq Section BY <1>2 DEF File
<1>4. \A s \in DOMAIN request.file : request.file[s] \in Asking(s) BY <1>1 DEF IsImport
<1>5. \A s : ImportOf(s) => s \in DOMAIN request.file BY <1>1 DEF ImportOf, IsImport
<1>6. \A s, t : ImportOf(s) /\ ImportOf(t) => s = t BY DEF ImportOf
<1> QED BY <1>1, <1>2, <1>3, <1>4, <1>5, <1>6, Asked

\* The file stays, and its next section is looked for.
LEMMA ImportGoesOn ==
    ASSUME SettingsInv, request.page = "import", import_Next
    PROVE  /\ IsImport' /\ request'.page = "import" /\ request'.file = request.file
           /\ request'.step = "switch"
<1>1. IsImport BY ImportInHand
<1>2. request.at \in 0 .. Len(ImportOrder) + 1
  <2>1. Len(ImportOrder) \in Nat BY DEF ImportOrder
  <2> QED BY <1>1, <2>1 DEF IsImport, ImportRequest
<1> DEFINE next == after(request.file, request.at)
<1>3. /\ next \in 1 .. Len(ImportOrder) + 1
      /\ next <= Len(ImportOrder) => ImportOrder[next] \in DOMAIN request.file
    BY <1>2, NextOfTheFile
<1>4. request' = [request EXCEPT !.at = next, !.step = "switch"] BY DEF import_Next
<1> HIDE DEF next
<1>5. /\ request' \in ImportRequest /\ request'.file = request.file /\ request'.at = next
      /\ request'.step = "switch" /\ request'.page = "import"
    BY <1>1, <1>3, <1>4 DEF IsImport, ImportRequest
<1> QED BY <1>1, <1>3, <1>5 DEF IsImport

\* A settings file arrives.
LEMMA SettingsImportBegins ==
    ASSUME SettingsInv, NEW ss \in SUBSET touched, NEW file \in [ss -> Setting], import_Begin(file)
    PROVE  SettingsInv'
<1> USE DEF SettingsInv
<1>1. /\ Idle /\ ~lost /\ UNCHANGED <<nvs, used, subnet, touched, job, lost>>
      /\ \A s \in DOMAIN file : file[s] \in Asking(s)
      /\ request' = [page |-> "import", file |-> file, at |-> after(file, 0), step |-> "switch"]
    BY DEF import_Begin
<1>2. ss \subseteq Section BY SettingsAssumption DEF SettingsShape
<1>3. file \in File BY <1>2 DEF File
<1>4. /\ after(file, 0) \in 1 .. Len(ImportOrder) + 1
      /\ after(file, 0) <= Len(ImportOrder) => ImportOrder[after(file, 0)] \in DOMAIN file
  <2>1. 0 \in 0 .. Len(ImportOrder) + 1 BY DEF ImportOrder
  <2> QED BY <2>1, NextOfTheFile
<1>5. /\ request' \in ImportRequest /\ request'.file = file /\ request'.at = after(file, 0)
      /\ request'.page = "import" /\ request'.step = "switch"
    BY <1>1, <1>3, <1>4 DEF ImportRequest
<1>6. IsImport' BY <1>1, <1>4, <1>5 DEF IsImport
<1>7. SettingsShape' BY <1>1, <1>6 DEF SettingsShape
<1>8. \A t \in Section \ {"timelog"} : Saved(t)' BY <1>1 DEF NothingElse, IdleSaved, Saved
<1>9. ~NamePending' BY <1>5 DEF NamePending
<1>10. ImportSaved'
  <2>1. DOMAIN request'.file \subseteq Section BY <1>2, <1>5
  <2> QED BY <1>8, <1>9, <2>1 DEF ImportSaved, Saved
<1> QED BY <1>5, <1>7, <1>10 DEF NothingElse, IdleSaved, Idle, PageSaved, ResetIsFactory

\* The sections of the file are saved one after the other.
LEMMA SettingsImport ==
    ASSUME SettingsInv, NEW s \in Section, import_Warn(s) \/ import_SaveSwitch(s) \/ import_SaveRest(s)
    PROVE  SettingsInv'
<1> USE DEF SettingsInv
<1>1. /\ request.page = "import" /\ ImportOf(s) /\ UNCHANGED <<touched, job>>
    BY DEF import_Warn, import_SaveSwitch, import_SaveRest, ImportOf
<1>2. /\ IsImport /\ DOMAIN request.file \subseteq Section /\ s \in DOMAIN request.file
      /\ \A t \in DOMAIN request.file : request.file[t] \in Setting
      /\ \A t : ImportOf(t) => s = t
      /\ s \notin Switched => ~request.file[s].on
    BY <1>1, ImportInHand
<1> DEFINE ask == request.file[s]
<1>3. ask \in Setting /\ ask.cfg \in Value BY <1>2 DEF Setting
<1>4. /\ nvs \in [Section -> Setting] /\ used \in [Section -> Setting] /\ lost \in BOOLEAN
      /\ subnet \in [Filtered -> Value]
      /\ \A t \in Section \ Switched : ~used[t].on /\ ~nvs[t].on
    BY DEF SettingsShape
<1>5. /\ firstKey(ask, s) \in [Section -> Setting] /\ restKey(ask, s) \in [Section -> Setting]
      /\ \A t \in Section : t # s => firstKey(ask, s)[t] = nvs[t] /\ restKey(ask, s)[t] = nvs[t]
      /\ s = "general" => /\ firstKey(ask, s)[s] = [on |-> nvs[s].on, cfg |-> ask.cfg]
                          /\ restKey(ask, s)[s] = [on |-> ask.on, cfg |-> nvs[s].cfg]
      /\ s # "general" => /\ firstKey(ask, s)[s] = [on |-> ask.on, cfg |-> nvs[s].cfg]
                          /\ restKey(ask, s)[s] = [on |-> nvs[s].on, cfg |-> ask.cfg]
    BY <1>3, <1>4, KeysOfASave
<1>6. \A t \in Section \ Switched : ~firstKey(ask, s)[t].on /\ ~restKey(ask, s)[t].on
  <2> SUFFICES ASSUME NEW t \in Section \ Switched
               PROVE  ~firstKey(ask, s)[t].on /\ ~restKey(ask, s)[t].on
      OBVIOUS
  <2>1. "general" \in Switched BY DEF Switched
  <2>2. CASE s = t BY <1>2, <1>4, <1>5, <2>1, <2>2
  <2>3. CASE s # t BY <1>4, <1>5, <2>3
  <2> QED BY <2>2, <2>3
<1>7. ~lost => /\ \A t \in Section \ {"timelog"} : t \notin DOMAIN request.file => Saved(t)
               /\ \A t \in DOMAIN request.file \ {"timelog", "dns", "ssh"} :
                     used[t].cfg = nvs[t].cfg \/ (t = "general" /\ NamePending)
               /\ NamePending => nvs["general"].cfg = request.file["general"].cfg
    BY <1>1 DEF NothingElse, ImportSaved
<1> HIDE DEF ask
<1>8. CASE import_Warn(s)
  <2>1. /\ import_Next /\ UNCHANGED <<nvs, used, subnet, lost>> /\ request.step = "switch"
      BY <1>8 DEF import_Warn
  <2>2. /\ IsImport' /\ request'.page = "import" /\ request'.file = request.file
        /\ request'.step = "switch"
      BY <1>1, <2>1, ImportGoesOn
  <2>3. SettingsShape' BY <1>1, <1>4, <2>1, <2>2 DEF SettingsShape
  <2>4. ~NamePending /\ ~NamePending' BY <2>1, <2>2 DEF NamePending
  <2>5. ~lost' => ImportSaved' BY <1>7, <2>1, <2>2, <2>4 DEF ImportSaved, Saved
  <2> QED BY <2>2, <2>3, <2>5 DEF NothingElse, IdleSaved, Idle, PageSaved, ResetIsFactory
<1>9. CASE import_SaveSwitch(s)
  <2>1. /\ writeKeys(firstKey(ask, s)) /\ UNCHANGED <<used, subnet>> /\ request.step = "switch"
        /\ request' = [request EXCEPT !.step = "rest"]
      BY <1>9 DEF import_SaveSwitch, ask
  <2>2. /\ request' \in ImportRequest /\ request'.page = "import" /\ request'.file = request.file
        /\ request'.step = "rest" /\ request'.at = request.at
      BY <1>2, <2>1 DEF IsImport, ImportRequest
  <2>3. IsImport' BY <1>2, <2>2 DEF IsImport
  <2>4. /\ nvs' \in [Section -> Setting] /\ lost' \in BOOLEAN
        /\ ~lost' => ~lost /\ nvs' = firstKey(ask, s)
        /\ nvs' = nvs \/ nvs' = firstKey(ask, s)
      BY <1>4, <1>5, <2>1, KeysAreWritten
  <2>5. \A t \in Section \ Switched : ~nvs'[t].on BY <1>4, <1>6, <2>4
  <2>6. SettingsShape' BY <1>1, <1>4, <2>1, <2>3, <2>4, <2>5 DEF SettingsShape
  <2>7. ASSUME ~lost' PROVE ImportSaved'
    <3>1. ~NamePending BY <2>1 DEF NamePending
    <3>2. NamePending' <=> s = "general" BY <1>1, <1>2, <2>2 DEF NamePending, ImportOf
    <3>3. /\ \A t \in Section : t # s => nvs'[t] = nvs[t]
          /\ s = "general" => nvs'[s].cfg = ask.cfg
          /\ s # "general" => nvs'[s].cfg = nvs[s].cfg
        BY <1>5, <2>4, <2>7
    <3>4. ASSUME NEW t \in Section \ {"timelog"}, t \notin DOMAIN request.file PROVE Saved(t)'
      <4>1. t # s /\ Saved(t) BY <1>2, <1>7, <2>4, <2>7, <3>4
      <4> QED BY <2>1, <3>3, <4>1 DEF Saved
    <3>5. ASSUME NEW t \in DOMAIN request.file \ {"timelog", "dns", "ssh"}
          PROVE  used'[t].cfg = nvs'[t].cfg \/ (t = "general" /\ NamePending')
      <4>1. used[t].cfg = nvs[t].cfg BY <1>7, <2>4, <2>7, <3>1
      <4>2. t \in Section BY <1>2
      <4> QED BY <2>1, <3>2, <3>3, <4>1, <4>2
    <3>6. NamePending' => nvs'["general"].cfg = request.file["general"].cfg
        BY <3>2, <3>3 DEF ask
    <3> QED BY <2>2, <3>4, <3>5, <3>6 DEF ImportSaved
  <2> QED BY <2>2, <2>6, <2>7 DEF NothingElse, IdleSaved, Idle, PageSaved, ResetIsFactory
<1>10. CASE import_SaveRest(s)
  <2>1. /\ writeKeys(restKey(ask, s)) /\ import_Next /\ request.step = "rest"
        /\ used' = IF s \in {"dns", "ssh"} THEN used ELSE [used EXCEPT ![s].cfg = ask.cfg]
        /\ refreshed({f \in {"ssh"} : s \in {"dhcp", "ssh"}} \cup ({"time", "files"} \cap {s}))
      BY <1>10 DEF import_SaveRest, ask
  <2>2. /\ IsImport' /\ request'.page = "import" /\ request'.file = request.file
        /\ request'.step = "switch"
      BY <1>1, <2>1, ImportGoesOn
  <2>4. /\ nvs' \in [Section -> Setting] /\ lost' \in BOOLEAN
        /\ ~lost' => ~lost /\ nvs' = restKey(ask, s)
        /\ nvs' = nvs \/ nvs' = restKey(ask, s)
      BY <1>4, <1>5, <2>1, KeysAreWritten
  <2>5. \A t \in Section \ Switched : ~nvs'[t].on BY <1>4, <1>6, <2>4
  <2>8. /\ used' \in [Section -> Setting]
        /\ \A t \in Section : t # s => used'[t] = used[t]
        /\ \A t \in Section : used'[t].on = used[t].on
        /\ s \notin {"dns", "ssh"} => used'[s].cfg = ask.cfg
    <3>1. used[s] \in Setting BY <1>4
    <3> QED BY <1>3, <1>4, <2>1, <3>1 DEF Setting
  <2>9. subnet' \in [Filtered -> Value] BY <1>4, <2>1, <2>4, FiltersTyped
  <2>10. \A t \in Section \ Switched : ~used'[t].on BY <1>4, <2>8
  <2>6. SettingsShape' BY <1>1, <1>4, <2>2, <2>4, <2>5, <2>8, <2>9, <2>10 DEF SettingsShape
  <2>7. ASSUME ~lost' PROVE ImportSaved'
    <3>1. NamePending => s = "general" BY <1>2 DEF NamePending
    <3>2. ~NamePending' /\ (s = "general" => NamePending) BY <1>1, <2>1, <2>2 DEF NamePending
    <3>3. /\ \A t \in Section : t # s => nvs'[t] = nvs[t]
          /\ s = "general" => nvs'[s].cfg = nvs[s].cfg
          /\ s # "general" => nvs'[s].cfg = ask.cfg
        BY <1>5, <2>4, <2>7
    <3>7. nvs'[s].cfg = ask.cfg BY <1>7, <2>4, <2>7, <3>2, <3>3 DEF ask
    <3>4. ASSUME NEW t \in Section \ {"timelog"}, t \notin DOMAIN request.file PROVE Saved(t)'
      <4>1. t # s /\ Saved(t) BY <1>2, <1>7, <2>4, <2>7, <3>4
      <4> QED BY <2>8, <3>3, <4>1 DEF Saved
    <3>5. ASSUME NEW t \in DOMAIN request.file \ {"timelog", "dns", "ssh"}
          PROVE  used'[t].cfg = nvs'[t].cfg
      <4>1. t \in Section BY <1>2
      <4>2. CASE t = s BY <2>8, <3>5, <3>7, <4>2
      <4>3. CASE t # s
        <5>1. used[t].cfg = nvs[t].cfg BY <1>7, <2>4, <2>7, <3>1, <4>3
        <5> QED BY <2>8, <3>3, <4>1, <4>3, <5>1
      <4> QED BY <4>2, <4>3
    <3> QED BY <2>2, <3>2, <3>4, <3>5 DEF ImportSaved
  <2> QED BY <2>2, <2>6, <2>7 DEF NothingElse, IdleSaved, Idle, PageSaved, ResetIsFactory
<1> QED BY <1>8, <1>9, <1>10

\* The services follow what is stored: with that the file is done.
LEMMA SettingsImportEnds == ASSUME SettingsInv, import_Services PROVE SettingsInv'
<1> USE DEF SettingsInv
<1>1. /\ request.page = "import" /\ request.at = Len(ImportOrder) + 1 /\ request' = NoRequest
      /\ UNCHANGED <<nvs, touched, job, lost>> /\ request'.page = "none"
    BY DEF import_Services, NoRequest
<1>2. DOMAIN request.file \subseteq Section BY <1>1, ImportInHand
<1>3. ~NamePending
  <2>1. Len(ImportOrder) \in Nat BY DEF ImportOrder
  <2> QED BY <1>1, <2>1 DEF NamePending, ImportOf
<1>4. /\ nvs \in [Section -> Setting] /\ used \in [Section -> Setting] /\ lost \in BOOLEAN
      /\ subnet \in [Filtered -> Value]
      /\ \A t \in Section \ Switched : ~used[t].on /\ ~nvs[t].on
    BY DEF SettingsShape
<1>5. {"dhcp", "time", "dns", "general", "ssh"} \subseteq Section BY DEF Section, Switched
<1>6. \A t \in Section : /\ nvs[t].on \in BOOLEAN /\ nvs[t].cfg \in Value
                         /\ used[t].on \in BOOLEAN /\ used[t].cfg \in Value
    BY <1>4 DEF Setting
<1>7. PICK dhcpUp \in switched(used["dhcp"].on, nvs["dhcp"].on),
           dnsUp \in switched(used["dns"].on, nvs["dns"].on),
           timeUp \in switched(used["time"].on, nvs["time"].on),
           nameUp \in switched(FALSE, nvs["general"].on),
           sshUp \in switched(FALSE, nvs["ssh"].on) :
          used' = [used EXCEPT
            !["dhcp"].on = dhcpUp, !["time"].on = timeUp,
            !["dns"] = [on |-> dnsUp, cfg |-> nvs["dns"].cfg],
            !["general"].on = IF "general" \in DOMAIN request.file THEN nameUp ELSE @,
            !["ssh"] = IF "ssh" \in DOMAIN request.file
                       THEN [on |-> sshUp, cfg |-> nvs["ssh"].cfg] ELSE @]
    BY DEF import_Services
<1>8. /\ dhcpUp \in BOOLEAN /\ (dhcpUp => nvs["dhcp"].on)
      /\ dnsUp \in BOOLEAN /\ (dnsUp => nvs["dns"].on)
      /\ timeUp \in BOOLEAN /\ (timeUp => nvs["time"].on)
      /\ nameUp \in BOOLEAN /\ (nameUp => nvs["general"].on)
      /\ sshUp \in BOOLEAN /\ (sshUp => nvs["ssh"].on)
    BY <1>5, <1>6, Switches
<1>9. /\ DOMAIN used' = Section
      /\ used'["dhcp"] = [on |-> dhcpUp, cfg |-> used["dhcp"].cfg]
      /\ used'["time"] = [on |-> timeUp, cfg |-> used["time"].cfg]
      /\ used'["dns"] = [on |-> dnsUp, cfg |-> nvs["dns"].cfg]
      /\ "general" \in DOMAIN request.file => used'["general"] = [on |-> nameUp, cfg |-> used["general"].cfg]
      /\ "general" \notin DOMAIN request.file => used'["general"] = used["general"]
      /\ "ssh" \in DOMAIN request.file => used'["ssh"] = [on |-> sshUp, cfg |-> nvs["ssh"].cfg]
      /\ "ssh" \notin DOMAIN request.file => used'["ssh"] = used["ssh"]
      /\ \A t \in Section \ {"dhcp", "time", "dns", "general", "ssh"} : used'[t] = used[t]
  <2> DEFINE named == "general" \in DOMAIN request.file
  <2> DEFINE inFile == "ssh" \in DOMAIN request.file
  <2> DEFINE dns == [on |-> dnsUp, cfg |-> nvs["dns"].cfg]
  <2> DEFINE ssh == [on |-> sshUp, cfg |-> nvs["ssh"].cfg]
  <2>1. used' = [used EXCEPT !["dhcp"].on = dhcpUp, !["time"].on = timeUp, !["dns"] = dns,
                             !["general"].on = IF named THEN nameUp ELSE @,
                             !["ssh"] = IF inFile THEN ssh ELSE @]
      BY <1>7
  <2> HIDE DEF named, inFile, dns, ssh
  <2>2. DOMAIN used' = Section BY <1>4, <2>1
  <2>3. \A t \in Section : used[t] = [on |-> used[t].on, cfg |-> used[t].cfg] BY <1>4 DEF Setting
  <2>4. used'["dhcp"] = [used["dhcp"] EXCEPT !.on = dhcpUp] BY <1>4, <1>5, <2>1
  <2>5. used'["time"] = [used["time"] EXCEPT !.on = timeUp] BY <1>4, <1>5, <2>1
  <2>6. used'["general"] = [used["general"] EXCEPT !.on = IF named THEN nameUp ELSE @] BY <1>4, <1>5, <2>1
  <2>7. used'["dns"] = dns /\ used'["ssh"] = IF inFile THEN ssh ELSE used["ssh"] BY <1>4, <1>5, <2>1
  <2>8. \A t \in Section \ {"dhcp", "time", "dns", "general", "ssh"} : used'[t] = used[t] BY <1>4, <2>1
  <2>9. used["dhcp"] \in Setting /\ used["time"] \in Setting /\ used["general"] \in Setting BY <1>4, <1>5
  <2>10. /\ used'["dhcp"] = [on |-> dhcpUp, cfg |-> used["dhcp"].cfg]
         /\ used'["time"] = [on |-> timeUp, cfg |-> used["time"].cfg]
      BY <2>4, <2>5, <2>9 DEF Setting
  <2>11. /\ named => used'["general"] = [on |-> nameUp, cfg |-> used["general"].cfg]
         /\ ~named => used'["general"] = used["general"]
      BY <2>6, <2>9 DEF Setting
  <2> QED BY <2>2, <2>7, <2>8, <2>10, <2>11 DEF named, inFile, dns, ssh
<1>10. used' \in [Section -> Setting]
  <2>1. \A t \in Section : used'[t] \in Setting
    <3> SUFFICES ASSUME NEW t \in Section PROVE used'[t] \in Setting OBVIOUS
    <3>1. CASE t \in {"dhcp", "time", "dns", "general", "ssh"}
        BY <1>4, <1>5, <1>6, <1>8, <1>9, <3>1 DEF Setting
    <3>2. CASE t \notin {"dhcp", "time", "dns", "general", "ssh"} BY <1>4, <1>9, <3>2
    <3> QED BY <3>1, <3>2
  <2>2. used' = [t \in DOMAIN used' |-> used'[t]] BY <1>4, <1>7
  <2> QED BY <1>9, <2>1, <2>2
<1>11. subnet' \in [Filtered -> Value]
  <2>1. PICK filters : refreshed(filters) BY DEF import_Services
  <2>2. nvs' \in [Section -> Setting] BY <1>1, <1>4
  <2> QED BY <1>4, <2>1, <2>2, FiltersTyped
<1>12. \A t \in Section \ Switched : ~used'[t].on /\ ~nvs'[t].on
  <2>1. {"dhcp", "time", "dns", "general", "ssh"} \subseteq Switched BY DEF Switched
  <2> QED BY <1>1, <1>4, <1>9, <2>1
<1>13. SettingsShape' BY <1>1, <1>4, <1>10, <1>11, <1>12 DEF SettingsShape
<1>14. ASSUME ~lost', NEW t \in Section \ {"timelog"} PROVE Saved(t)'
  <2>1. /\ t \notin DOMAIN request.file => Saved(t)
        /\ t \in DOMAIN request.file /\ t \notin {"dns", "ssh"} => used[t].cfg = nvs[t].cfg
      BY <1>1, <1>3, <1>14 DEF NothingElse, ImportSaved
  <2>2. CASE t \in {"dhcp", "time"} BY <1>1, <1>8, <1>9, <2>1, <2>2 DEF Saved
  <2>3. CASE t = "dns" BY <1>1, <1>8, <1>9, <2>3 DEF Saved
  <2>4. CASE t = "general" BY <1>1, <1>8, <1>9, <2>1, <2>4 DEF Saved
  <2>5. CASE t = "ssh" BY <1>1, <1>8, <1>9, <2>1, <2>5 DEF Saved
  <2>6. CASE t \notin {"dhcp", "time", "dns", "general", "ssh"}
    <3>1. t \notin Switched BY <2>6 DEF Switched
    <3>2. ~used[t].on /\ used'[t] = used[t] BY <1>4, <1>9, <2>6, <3>1
    <3> QED BY <1>1, <2>1, <2>6, <3>2 DEF Saved
  <2> QED BY <2>2, <2>3, <2>4, <2>5, <2>6
<1> QED BY <1>1, <1>13, <1>14 DEF NothingElse, IdleSaved, Idle, PageSaved, ImportSaved, ResetIsFactory

\* The factory reset.
LEMMA SettingsResets == ASSUME SettingsInv, handlePostSettingsReset PROVE SettingsInv'
<1> USE DEF SettingsInv
<1>1. UNCHANGED <<used, subnet, touched, job>> BY DEF handlePostSettingsReset
<1>2. CASE nvs' = resetAll /\ request' = [page |-> "reset"] /\ lost' = FALSE
  <2>1. /\ nvs' \in [Section -> Setting] /\ \A t \in Section : nvs'[t] = Factory(t)
        /\ \A t \in Section \ Switched : ~nvs'[t].on
      BY <1>2, Asked DEF resetAll
  <2>2. SettingsShape' BY <1>1, <1>2, <2>1 DEF SettingsShape
  <2>3. request'.page = "reset" BY <1>2
  <2> QED BY <2>1, <2>2, <2>3 DEF NothingElse, IdleSaved, Idle, PageSaved, ImportSaved, ResetIsFactory
<1>3. CASE UNCHANGED <<nvs, request, lost>>
  <2>1. SettingsShape' BY <1>1, <1>3 DEF SettingsShape, IsPage, IsImport
  <2>2. NothingElse' /\ ResetIsFactory'
      BY <1>1, <1>3 DEF NothingElse, IdleSaved, Idle, PageSaved, ImportSaved, Saved, NamePending, ImportOf,
                        ResetIsFactory
  <2> QED BY <2>1, <2>2
<1> QED BY <1>2, <1>3 DEF handlePostSettingsReset

\* The device starts again with what is stored.
LEMMA SettingsRestarts == ASSUME SettingsInv, esp_restart PROVE SettingsInv'
<1> USE DEF SettingsInv
<1>1. /\ request' = NoRequest /\ job' = NoJob /\ lost' = FALSE /\ UNCHANGED <<nvs, touched>>
      /\ refreshed(Filtered) /\ request'.page = "none"
    BY DEF esp_restart, NoRequest
<1>2. PICK up : used' = booted(nvs, up) BY DEF esp_restart
<1>3. nvs \in [Section -> Setting] /\ nvs' \in [Section -> Setting] /\ subnet \in [Filtered -> Value]
    BY <1>1 DEF SettingsShape
<1>4. \A t \in Section : nvs[t].on \in BOOLEAN /\ nvs[t].cfg \in Value BY <1>3 DEF Setting
<1>5. \A t \in Section : /\ (nvs[t].on /\ t \in up) \in BOOLEAN
                         /\ (IF t = "timelog" THEN Default ELSE nvs[t].cfg) \in Value
    BY <1>4, SettingsAssumption
<1>6. used' \in [Section -> Setting]
  <2>1. \A t \in Section : [on |-> nvs[t].on /\ t \in up,
                            cfg |-> IF t = "timelog" THEN Default ELSE nvs[t].cfg] \in Setting
      BY <1>5 DEF Setting
  <2> QED BY <1>2, <2>1 DEF booted
<1>7. \A t \in Section : /\ used'[t].on => nvs[t].on
                         /\ t # "timelog" => used'[t].cfg = nvs[t].cfg
    BY <1>2 DEF booted
<1>8. subnet' \in [Filtered -> Value] BY <1>1, <1>3, FiltersTyped
<1>9. job' \in [step : {"idle", "read", "switch"}, copy : Setting] BY <1>1, Asked DEF NoJob
<1>10. \A t \in Section \ Switched : ~used'[t].on /\ ~nvs'[t].on BY <1>1, <1>7 DEF SettingsShape
<1>11. SettingsShape' BY <1>1, <1>3, <1>6, <1>8, <1>9, <1>10 DEF SettingsShape
<1>12. \A t \in Section \ {"timelog"} : Saved(t)' BY <1>1, <1>7 DEF Saved
<1> QED BY <1>1, <1>11, <1>12 DEF NothingElse, IdleSaved, Idle, PageSaved, ImportSaved, ResetIsFactory

LEMMA SettingsInductive == SettingsInv /\ [SettingsNext]_settingVars => SettingsInv'
<1> SUFFICES ASSUME SettingsInv, [SettingsNext]_settingVars PROVE SettingsInv' OBVIOUS
<1>1. CASE UNCHANGED settingVars
    BY <1>1 DEF settingVars, SettingsInv, SettingsShape, IsPage, IsImport, NothingElse, IdleSaved, Idle,
                PageSaved, ImportSaved, Saved, NamePending, ImportOf, ResetIsFactory
<1>2. CASE webTask
    BY <1>2, SettingsPage, SettingsApplyAsked, SettingsApplyStored, SettingsImport, SettingsImportEnds,
       SettingsRestarts DEF webTask
<1>3. CASE handlePostTimeSettingsReset
  <2>1. "time" \in Section /\ "time" \in Switched BY DEF Section, Switched
  <2>2. Factory("time") \in Asking("time") BY <2>1, Asked DEF Asking
  <2> QED BY <1>3, <2>1, <2>2, SettingsPage DEF handlePostTimeSettingsReset
<1>4. CASE \E s \in Section : \E ask \in Asking(s) : page_Begin(s, ask) BY <1>4, SettingsPage
<1>5. CASE \E ss \in SUBSET touched : \E file \in [ss -> Setting] : import_Begin(file)
    BY <1>5, SettingsImportBegins
<1>6. CASE storeCacheFileMd5_Read \/ storeCacheFileMd5_Switch \/ storeCacheFileMd5_Rest BY <1>6, SettingsJob
<1>7. CASE handlePostSettingsReset BY <1>7, SettingsResets
<1>8. CASE esp_restart BY <1>8, SettingsRestarts
<1> QED BY <1>1, <1>2, <1>3, <1>4, <1>5, <1>6, <1>7, <1>8 DEF SettingsNext

LEMMA SettingsHolds == SettingsInv => SettingsTypeOK /\ AppliedIsSaved /\ ResetIsFactory
<1> SUFFICES ASSUME SettingsInv PROVE SettingsTypeOK /\ AppliedIsSaved BY DEF SettingsInv
<1>1. SettingsShape BY DEF SettingsInv
<1>2. SettingsTypeOK
  <2>1. request.page \in {"none", "page", "import", "reset"} BY <1>1, Kinds
  <2>2. request.page = "page" => request.section \in Section BY <1>1, Kinds DEF IsPage, PageRequest
  <2>3. request.page = "import" => request.at \in 1 .. Len(ImportOrder) + 1
      BY <1>1, Kinds DEF IsImport, ImportRequest
  <2> QED BY <1>1, <2>1, <2>2, <2>3 DEF SettingsShape, SettingsTypeOK
<1>3. AppliedIsSaved BY DEF SettingsInv, NothingElse, IdleSaved, AppliedIsSaved, Saved
<1> QED BY <1>2, <1>3

(* Whatever requests, files, resets, tasks and power cuts come: between two *)
(* requests the device goes by what it has stored, a factory reset that was *)
(* answered leaves the factory settings, and a restart finds the listener   *)
(* and the certificate's volume as they were.                               *)
THEOREM SettingsStayKept == Spec => []SettingsKept
<1>1. Init => SettingsInv /\ HttpsInv BY SettingsStart, HttpsStart DEF Init
<1>2. SettingsInv /\ [Next]_vars => SettingsInv' BY OneAtATime, SettingsInductive
<1>3. HttpsInv /\ [Next]_vars => HttpsInv' BY OneAtATime, HttpsInductive
<1>4. SettingsInv /\ HttpsInv => SettingsKept BY SettingsHolds, HttpsHolds DEF SettingsKept
<1> QED BY <1>1, <1>2, <1>3, <1>4, PTL DEF Spec

=============================================================================
