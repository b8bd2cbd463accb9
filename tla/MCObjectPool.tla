---------------------------- MODULE MCObjectPool ----------------------------
(* Small instances of ObjectPool for TLC. *)
EXTENDS ObjectPool
=============================================================================
