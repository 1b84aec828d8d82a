-------------------------- MODULE MCJournalPipeline --------------------------
(* Small instances of JournalPipeline for TLC                               *)
EXTENDS JournalPipeline, TLC

Symmetry == Permutations(Tasks)
==============================================================================
