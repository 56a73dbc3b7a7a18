------------------------------ MODULE MCKeygen ------------------------------
(* Instances of Keygen for TLC. *)
EXTENDS Keygen

(* Two failures in a DKLS key generation, one in the other operations. *)
TwoOrOne == [op \in Operations |-> IF op = "dkls" THEN 2 ELSE 1]
One == [op \in Operations |-> 1]
=============================================================================
