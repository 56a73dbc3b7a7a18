---------------------------- MODULE MCJournalFile ----------------------------
(* Instances of JournalFile for TLC. *)
EXTENDS JournalFile, TLC
Symmetry == Permutations(Proc)
=============================================================================
