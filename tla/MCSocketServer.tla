--------------------------- MODULE MCSocketServer ---------------------------
(* Small instances of SocketServer for TLC. *)
EXTENDS SocketServer

\* Two listening sockets and two connections at most.
MCFds == 3 .. 6
=============================================================================
