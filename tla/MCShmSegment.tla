---------------------------- MODULE MCShmSegment ----------------------------
(* Small instances of ShmSegment for TLC. *)
EXTENDS ShmSegment, TLC

\* Publishers run the same code and start in any order.
Symmetry == Permutations(Publishers)
=============================================================================
