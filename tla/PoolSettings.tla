--------------------------- MODULE PoolSettings ---------------------------
(***************************************************************************)
(* The address arithmetic of DhcpPool over every range the settings page   *)
(* may save: POST /api/dhcp/settings stores start_ip and end_ip as they    *)
(* come and the running server re-reads them.                              *)
(***************************************************************************)
EXTENDS Integers, FiniteSets

CONSTANTS Octet, ServerIp, MinLeaseEntries, MaxLeaseEntries

ASSUME PoolSettingsAssumption ==
    /\ Octet \in Nat /\ Octet >= 3 /\ ServerIp \in 1 .. Octet * Octet - 1
    /\ MinLeaseEntries \in Nat \ {0} /\ MaxLeaseEntries \in Nat /\ MinLeaseEntries <= MaxLeaseEntries

VARIABLES rangeStart, rangeEnd, maxLeaseEntries

Pool == INSTANCE DhcpPool WITH RangeStart <- rangeStart, RangeEnd <- rangeEnd

poolVars == <<rangeStart, rangeEnd, maxLeaseEntries>>
Host == 1 .. Octet * Octet - 1

\* The defaults of the shipped configuration: one block, automatic cap.
PoolInit == rangeStart = Octet + 1 /\ rangeEnd = Octet + 2 /\ maxLeaseEntries = 0

savePool ==
    /\ rangeStart' \in Host /\ rangeEnd' \in Host
    /\ maxLeaseEntries' \in {0, MaxLeaseEntries + 1}

PoolNext == savePool

\* The settings keep their type.
PoolTypeOK ==
    rangeStart \in Host /\ rangeEnd \in Host /\ maxLeaseEntries \in {0, MaxLeaseEntries + 1}

-----------------------------------------------------------------------------
\* A range inside one block of the last octet that does not end in its last
\* value (a /24 pool below the broadcast address).
OneBlock ==
    /\ rangeStart <= rangeEnd
    /\ rangeStart \div Octet = rangeEnd \div Octet
    /\ rangeEnd % Octet < Octet - 1

\* What the server hands out and what it accepts agree on such a range: every
\* address the walk of selectIp() may offer, the server's own left out, passes
\* the isIpInRange() check the client's REQUEST meets, and no address that
\* check accepts is beyond the reach of the walk.
OfferableIsAcceptable ==
    OneBlock => Pool!Walk \ {ServerIp} = {a \in Host : Pool!isIpInRange(a)}

\* The cap in force is one a table can live with, and an automatic one never
\* refuses a client the pool still has an address for, unless the ceiling does.
CapFitsPool ==
    /\ Pool!EffectiveLimit(maxLeaseEntries) \in MinLeaseEntries .. MaxLeaseEntries
    /\ OneBlock /\ maxLeaseEntries = 0 =>
           Pool!EffectiveLimit(0) >= Cardinality(Pool!ConfiguredRange)
             \/ Pool!EffectiveLimit(0) = MaxLeaseEntries
===========================================================================
