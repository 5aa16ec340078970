----------------------------- MODULE MC_MsrRead -----------------------------
(* Instances of MsrRead for TLC.                                           *)
EXTENDS MsrRead

\* The table of two address options: the second one after three rows.
TwoGateways == [i \in 0 .. N-1 |-> IF i < 3 THEN 2 ELSE 9]
=============================================================================
