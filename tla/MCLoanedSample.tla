--------------------------- MODULE MCLoanedSample ---------------------------
(* A small instance of LoanedSample for TLC. *)
EXTENDS LoanedSample, TLC

Symmetry == Permutations(Slots) \cup Permutations(Handles) \cup Permutations(Payloads)
=============================================================================
