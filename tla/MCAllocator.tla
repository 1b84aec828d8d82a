----------------------------- MODULE MCAllocator -----------------------------
(* Small instances of Allocator for TLC                                     *)
EXTENDS Allocator, TLC

Symmetry == Permutations(Tasks)
=============================================================================
