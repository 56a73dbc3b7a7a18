----------------------------- MODULE MCEvmNonce -----------------------------
(* Instances of EvmNonce for TLC. *)
EXTENDS EvmNonce, TLC
Symmetry == Permutations(Proc)
=============================================================================
