--------------------------- MODULE MCDnsForward ---------------------------
(* Small instances of DnsForward for TLC. *)
EXTENDS DnsForward, TLC

CONSTANTS d1, d2, d3, q1, q2, q3, q4, q5, q6

\* The questions of the runs: two names; six that between them are remote,
\* local, large, of another type and from another subnet.
PairDomain  == (q1 :> d1) @@ (q2 :> d2)
PairType    == (q1 :> "A") @@ (q2 :> "A")
MixDomain   == (q1 :> d1) @@ (q2 :> d1) @@ (q3 :> d3) @@ (q4 :> d2) @@ (q5 :> d2) @@ (q6 :> d1)
MixType     == (q1 :> "A") @@ (q2 :> "AAAA") @@ (q3 :> "AAAA") @@ (q4 :> "A")
                    @@ (q5 :> "other") @@ (q6 :> "A")
NoLocal     == [d \in Domain |-> {}]
ThirdLocal  == [d \in Domain |-> IF d = d3 THEN {"A"} ELSE {}]
===========================================================================
