----------------------------- MODULE MCMpmcRing -----------------------------
(* Small instances of MpmcRing for TLC. *)
EXTENDS MpmcRing, TLC

\* Threads of one role run the same code; payloads are opaque.
Symmetry == Permutations(Producers) \cup Permutations(Consumers) \cup Permutations(Items)
=============================================================================
