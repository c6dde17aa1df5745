---------------------------- MODULE CertGenerate ----------------------------
(***************************************************************************)
(* One certificate generation at a time, run in a task of its own for a     *)
(* page that waits for it (RestApi's runCertificateGeneration).  The two    *)
(* ports of the web interface serve their pages independently; a page that  *)
(* gives up waiting leaves the run going.  Abstracted: both semaphores      *)
(* exist from the start, where the first request makes them.                *)
(***************************************************************************)
EXTENDS Naturals

CONSTANT MaxRun       \* how many generations are asked for (bound)

ASSUME GenerateAssumption == MaxRun \in Nat \ {0}

Port == {"http", "https"}
GenRun == 1 .. MaxRun

VARIABLES
    gate,      \* s_certGenGate is free
    given,     \* the run that gave s_certGenDone; 0 when it is not given
    slot,      \* s_certGenJob: the run it was filled by, and its result
    stage,     \* where the task of each run is
    ticket,    \* the run the page of each port waits for; 0 when it does not
    answered   \* the last answer of each port: its run, was it the newest, the result

generateVars == <<gate, given, slot, stage, ticket, answered>>

Result == [run : 0 .. MaxRun, ok : BOOLEAN]
NoResult == [run |-> 0, ok |-> FALSE]

GenerateTypeOK ==
    /\ gate \in BOOLEAN /\ given \in 0 .. MaxRun /\ slot \in Result
    /\ stage \in [GenRun -> {"none", "generate", "signal", "release", "gone"}]
    /\ ticket \in [Port -> 0 .. MaxRun]
    /\ answered \in [Port -> [asked : 0 .. MaxRun, newest : BOOLEAN, got : Result]]

GenerateInit ==
    /\ gate = TRUE /\ given = 0 /\ slot = NoResult
    /\ stage = [r \in GenRun |-> "none"] /\ ticket = [p \in Port |-> 0]
    /\ answered = [p \in Port |-> [asked |-> 0, newest |-> TRUE, got |-> NoResult]]

\* The gate is taken, the slot emptied, a signal left behind taken off; then the
\* task is made, or the gate given back.
runGeneration(p, run) ==
    /\ ticket[p] = 0 /\ gate
    /\ stage[run] = "none" /\ \A r \in GenRun : r < run => stage[r] # "none"
    /\ slot' = NoResult /\ given' = 0
    /\ \/ /\ gate' = FALSE /\ ticket' = [ticket EXCEPT ![p] = run]
          /\ stage' = [stage EXCEPT ![run] = "generate"]
       \/ /\ gate' = TRUE /\ stage' = [stage EXCEPT ![run] = "gone"]
          /\ UNCHANGED ticket
    /\ UNCHANGED answered

\* As if: the gate were opened before the result is signalled.
generateTask_GateFirst(run) ==
    \/ /\ stage[run] = "generate" /\ stage' = [stage EXCEPT ![run] = "signal"]
       /\ \E ok \in BOOLEAN : slot' = [run |-> run, ok |-> ok]
       /\ UNCHANGED <<gate, given, ticket, answered>>
    \/ /\ stage[run] = "signal" /\ stage' = [stage EXCEPT ![run] = "release"]
       /\ gate' = TRUE /\ UNCHANGED <<slot, given, ticket, answered>>
    \/ /\ stage[run] = "release" /\ stage' = [stage EXCEPT ![run] = "gone"]
       /\ given' = run /\ UNCHANGED <<slot, gate, ticket, answered>>
\* The slot is filled, the result signalled, the gate opened for the next run.
generateTask(run) ==
    \/ /\ stage[run] = "generate" /\ stage' = [stage EXCEPT ![run] = "signal"]
       /\ \E ok \in BOOLEAN : slot' = [run |-> run, ok |-> ok]
       /\ UNCHANGED <<gate, given, ticket, answered>>
    \/ /\ stage[run] = "signal" /\ stage' = [stage EXCEPT ![run] = "release"]
       /\ given' = run /\ UNCHANGED <<slot, gate, ticket, answered>>
    \/ /\ stage[run] = "release" /\ stage' = [stage EXCEPT ![run] = "gone"]
       /\ gate' = TRUE /\ UNCHANGED <<slot, given, ticket, answered>>

\* The wait ends with the signal, and the slot is read after it.
generationAnswered(p) ==
    /\ ticket[p] # 0 /\ given # 0 /\ given' = 0
    /\ answered' = [answered EXCEPT ![p] =
          [asked |-> ticket[p], got |-> slot,
           newest |-> \A r \in GenRun : r > ticket[p] => stage[r] = "none"]]
    /\ ticket' = [ticket EXCEPT ![p] = 0]
    /\ UNCHANGED <<gate, slot, stage>>
generationTimedOut(p) ==
    /\ ticket[p] # 0 /\ given = 0 /\ ticket' = [ticket EXCEPT ![p] = 0]
    /\ UNCHANGED <<gate, given, slot, stage, answered>>

generateWork ==
    \/ \E p \in Port : generationAnswered(p) \/ generationTimedOut(p)
    \/ \E r \in GenRun : generateTask(r)
GenerateNext == generateWork \/ \E p \in Port, r \in GenRun : runGeneration(p, r)

GenerateBusy == ~gate \/ \E p \in Port : ticket[p] # 0

(* A page that waited for a new pair gets the result of its own run, also   *)
(* after an earlier page gave up waiting and that run's signal came later:  *)
(* "a fresh wait must not read it as the answer of this one".  This is so   *)
(* while its run is the newest: the gate opens before the waiting page has  *)
(* taken its signal, and a page of the other port that comes in between     *)
(* takes the signal off and empties the slot.                               *)
AnswerIsOwn ==
    /\ GenerateTypeOK
    /\ \A p \in Port : answered[p].newest => answered[p].got.run = answered[p].asked
=============================================================================
