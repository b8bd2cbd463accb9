---------------------------- MODULE MCShmChannel ----------------------------
(* Small instances of ShmChannel for TLC. *)
EXTENDS ShmChannel, TLC

Symmetry == Permutations(Consumers) \cup Permutations(Words)
=============================================================================
