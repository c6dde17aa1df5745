---------------------------- MODULE MCServices ----------------------------
(* Small instances of Services for TLC. *)
EXTENDS Services

CONSTANTS t1, t2

\* Both controllers at once on the DHCP server, with every failure; and the
\* three servers with calls that do not overlap and starts that find the old
\* task gone.
TwoScenarios ==
    {[servers |-> {"dhcp"}, tasks |-> {t1, t2}, serialized |-> FALSE, patient |-> FALSE,
      openFails |-> TRUE, createFails |-> TRUE, noAddress |-> TRUE, ntpLate |-> FALSE],
     [servers |-> Server, tasks |-> {t1}, serialized |-> TRUE, patient |-> TRUE,
      openFails |-> FALSE, createFails |-> TRUE, noAddress |-> FALSE, ntpLate |-> FALSE]}
===========================================================================
