---------------------------- MODULE MCVaultStore ----------------------------
EXTENDS VaultStore

CONSTANTS i1, i2, h1, h2

(* Two instances of one process, or one each of two processes. *)
TogetherOrApart == {[i \in {i1, i2} |-> IF i = i1 THEN h1 ELSE h] : h \in {h1, h2}}
=============================================================================
