---------------------------- MODULE MCOrphanList ----------------------------
(* Small instances of OrphanList for TLC                                    *)
EXTENDS OrphanListInv, TLC

Symmetry == Permutations(Inodes)
=============================================================================
