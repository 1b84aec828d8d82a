--------------------------- MODULE MCJournalStore ---------------------------
(* TLC instances of JournalStore.                                           *)
EXTENDS JournalStore, TLC

Symmetry == Permutations(Blocks)
=============================================================================
