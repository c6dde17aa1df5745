--------------------------- MODULE MCDhcpServer ---------------------------
(* Small instances of DhcpServer for TLC. *)
EXTENDS DhcpServer, TLC

CONSTANTS m1, m2

\* Clients are interchangeable where no binding or list names one.
Symmetry == Permutations(Mac)

\* The operator's settings: none, or one that favours the first client.
NoBindings   == {<<>>}
OneBinding   == {<<>>, <<[mac |-> m1, ip |-> RangeEnd, enabled |-> TRUE]>>}
OpenPolicy   == {[only |-> FALSE, list |-> {}]}
SwitchPolicy == {[only |-> FALSE, list |-> {}]}
                    \cup {[only |-> TRUE, list |-> l] : l \in {Mac, Mac \ {m1}}}
===========================================================================
