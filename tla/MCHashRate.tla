----------------------------- MODULE MCHashRate -----------------------------
(* A cell that counts on by one or by some, one that jumps far, one that   *)
(* begins again.                                                           *)
EXTENDS HashRate

MCReports == {[a \in Algos |-> IF a = "BTC" THEN b ELSE b + 1] : b \in {0, 1, 3, 40}}
=============================================================================
