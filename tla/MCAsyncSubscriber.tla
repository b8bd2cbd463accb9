-------------------------- MODULE MCAsyncSubscriber --------------------------
(* Small instances of AsyncSubscriber for TLC. *)
EXTENDS AsyncSubscriber
=============================================================================
