----------------------------- MODULE MCSpmcRing -----------------------------
(* Small instances of SpmcRing for TLC. *)
EXTENDS SpmcRing
=============================================================================
