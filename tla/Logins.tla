------------------------------- MODULE Logins -------------------------------
(***************************************************************************)
(* The login guard of the web interface (AuthManager): failed attempts per  *)
(* client, counted from the first one, and the lockout they lead to.  The   *)
(* two ports of the interface ask it from two tasks, without a lock, so the *)
(* check for a lockout and the recording of a failure are two steps.        *)
(*                                                                          *)
(* An attempt is a header without a password, with a wrong one or with the  *)
(* right one.  Time is the age of an entry, which stops one past the        *)
(* lockout period.  Abstracted: the map itself survives the two tasks.      *)
(***************************************************************************)
EXTENDS Naturals, FiniteSets

CONSTANTS
    Client,     \* the addresses that log in
    Door,       \* the tasks of the web server that serve requests
    Limits      \* the settings [tries, period] the operator may choose

NoClient == "nobody"

ASSUME LoginsAssumption ==
    /\ IsFiniteSet(Door) /\ Door # {} /\ NoClient \notin Client
    /\ Limits # {} /\ \A l \in Limits : l.tries \in Nat \ {0} /\ l.period \in Nat

None == [count |-> 0, age |-> 0]

VARIABLES
    failedAttempts,  \* per client: how many, and how long ago the first was
    limits,          \* maxAttempts_, lockoutPeriodSec_
    comparing,       \* the client whose password each task is comparing
    loosest          \* per client: the most tries allowed since its first failure

loginVars == <<failedAttempts, limits, comparing, loosest>>

LoginsTypeOK ==
    /\ \A c \in Client : failedAttempts[c].count \in Nat /\ failedAttempts[c].age \in Nat
    /\ limits \in Limits /\ comparing \in [Door -> Client \cup {NoClient}]
    /\ \A c \in Client : \E l \in Limits : loosest[c] = l.tries

LoginsInit ==
    /\ failedAttempts = [c \in Client |-> None] /\ limits \in Limits
    /\ comparing = [d \in Door |-> NoClient] /\ loosest = [c \in Client |-> limits.tries]

-----------------------------------------------------------------------------
\* cleanupExpired: what is older than the period is forgotten.
cleaned == [c \in Client |-> IF failedAttempts[c].age > limits.period THEN None ELSE failedAttempts[c]]
looser(c, n) == IF cleaned[c] = None \/ n > loosest[c] THEN n ELSE loosest[c]

\* As if: one try more were free.
isLockedOut_Late(c) == cleaned[c].count > limits.tries
isLockedOut(c) == cleaned[c].count >= limits.tries

\* As if: an attempt during the lockout counted, and started the period again.
verify_Extends(d, c) ==
    /\ comparing[d] = NoClient
    /\ failedAttempts' = IF isLockedOut(c) THEN [cleaned EXCEPT ![c].age = 0] ELSE cleaned
    /\ loosest' = [loosest EXCEPT ![c] = looser(c, limits.tries)]
    /\ comparing' = IF isLockedOut(c) THEN comparing ELSE [comparing EXCEPT ![d] = c]
    /\ UNCHANGED limits
\* verify up to the comparison: a client that is locked out, or that sent no
\* password (countsAsFailedAttempt), is asked again and nothing is counted.
verify(d, c) ==
    /\ comparing[d] = NoClient
    /\ failedAttempts' = cleaned
    /\ loosest' = [loosest EXCEPT ![c] = looser(c, limits.tries)]
    /\ comparing' \in {comparing} \cup
          (IF isLockedOut(c) THEN {} ELSE {[comparing EXCEPT ![d] = c]})
    /\ UNCHANGED limits

recordFailure(c) ==
    failedAttempts' = [failedAttempts EXCEPT ![c] =
        [count |-> @.count + 1, age |-> IF @.count = 0 THEN 0 ELSE @.age]]
\* The rest of verify: the right password clears the client's failures.
verify_Compare(d) ==
    /\ comparing[d] # NoClient
    /\ comparing' = [comparing EXCEPT ![d] = NoClient]
    /\ \/ recordFailure(comparing[d])
       \/ failedAttempts' = [failedAttempts EXCEPT ![comparing[d]] = None]
    /\ UNCHANGED <<limits, loosest>>

\* A saved security page, or a settings file.
reloadConfig(l) ==
    /\ limits' = l
    /\ loosest' = [c \in Client |-> IF l.tries > loosest[c] THEN l.tries ELSE loosest[c]]
    /\ UNCHANGED <<failedAttempts, comparing>>

oldest == CHOOSE n \in {l.period + 1 : l \in Limits} : \A l \in Limits : n > l.period
secondPasses ==
    /\ \E c \in Client : failedAttempts[c] # None /\ failedAttempts[c].age < oldest
    /\ failedAttempts' = [c \in Client |->
          IF failedAttempts[c] = None \/ failedAttempts[c].age = oldest THEN failedAttempts[c]
          ELSE [failedAttempts[c] EXCEPT !.age = @ + 1]]
    /\ UNCHANGED <<limits, comparing, loosest>>

LoginsNext ==
    \/ secondPasses
    \/ \E d \in Door : verify_Compare(d) \/ \E c \in Client : verify(d, c)
    \/ \E l \in Limits : reloadConfig(l)

(* However the two tasks interleave, a client gets no more wrong passwords  *)
(* compared before it is locked out than the setting allows and one for     *)
(* each other task that had already passed the check.                       *)
GuessesBounded ==
    /\ LoginsTypeOK
    /\ \A c \in Client : failedAttempts[c].count < loosest[c] + Cardinality(Door)

(* A client that is locked out is let in again: what it tries meanwhile     *)
(* does not count, and the period runs from its first failure.              *)
LoginsBusy == \E c \in Client : isLockedOut(c)
=============================================================================
