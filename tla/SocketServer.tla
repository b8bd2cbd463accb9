---------------------------- MODULE SocketServer ----------------------------
(***************************************************************************)
(* SocketServer (socket_transport.hpp): start(), stop(), broadcast(), the  *)
(* accept thread and one thread per connection.  One thread, the owner,    *)
(* calls start(), stop() and the destructor; another calls broadcast().    *)
(* Sections under client_fds_mutex_ are one step, except broadcast(),      *)
(* which sends while it holds it; clients_mutex_ is never contended, as    *)
(* stop() has joined the accept thread before it takes it.                 *)
(*                                                                         *)
(* The kernel is modelled by what the code uses: descriptors are the       *)
(* lowest free numbers, one socket at a time is bound to the port,         *)
(* shutdown() of a listening socket wakes accept(), close() does not.      *)
(* What recv_ipc_message() does inside is in SocketFrames.                 *)
(***************************************************************************)
EXTENDS Integers, Sequences, Functions

CONSTANTS
  Conns,        \* connections, each made once by a client
  Fds,          \* descriptors, enough for every socket of the model
  MaxClients,   \* max_clients_
  MaxStarts,    \* start() calls that make a listening socket
  Free          \* a descriptor that is not open

ASSUME ServerAssumption ==
  /\ MaxClients \in Nat /\ MaxStarts \in Nat /\ Fds \subseteq Nat
  /\ Conns \cap (1 .. MaxStarts) = {} /\ Free \notin Conns \cup (1 .. MaxStarts)

VARIABLES
  running,      \* running_
  listen_fd,    \* listen_fd_
  client_fds,   \* client_fds_
  threads,      \* client_threads_, by connection
  opc,          \* where the owner is
  apc,          \* where the accept thread is
  target,       \* the socket its accept() waits on
  cfd,          \* accept_loop(), handle_client(): cfd
  tpc,          \* where each client thread is
  todo,         \* broadcast(): descriptors still to send to
  fds,          \* kernel: what each descriptor stands for
  shut,         \* kernel: listening sockets that were shut down
  bound,        \* kernel: sockets bound to the port and listening
  peer,         \* the client's end of each connection
  inbox,        \* is there data or a message for the server to read?
  starts,       \* listening sockets made
  early         \* auxiliary: a stop() came before its accept thread's socket()

ovars == <<running, opc, starts, early>>
avars == <<listen_fd, apc, target>>
tvars == <<client_fds, threads, cfd, tpc>>
kvars == <<fds, shut, bound>>
pvars == <<peer, inbox>>
vars  == <<ovars, avars, tvars, todo, kvars, pvars>>

Socks   == 1 .. MaxStarts     \* listening sockets
NoFd    == -1
Sending == todo # <<>>        \* client_fds_mutex_ is held by broadcast()

TypeOK ==
  /\ running \in BOOLEAN /\ early \in BOOLEAN
  /\ listen_fd \in Fds \cup {NoFd}
  /\ client_fds \in Seq(Fds)
  /\ threads \subseteq Conns
  /\ opc \in {"idle", "fd", "close", "join_accept", "join_clients"}
  /\ apc \in {"none", "socket", "bind", "loop", "call", "accept", "limit", "spawn",
              "done"}
  /\ target \in Socks \cup Conns \cup {Free}
  /\ cfd \in [Conns -> Fds \cup {NoFd}]
  /\ tpc \in [Conns -> {"none", "loop", "recv", "erase", "close", "done"}]
  /\ todo \in Seq(Fds)
  /\ fds \in [Fds -> Socks \cup Conns \cup {Free}]
  /\ shut \subseteq Socks /\ bound \subseteq Socks
  /\ peer \in [Conns -> {"none", "backlog", "open", "closed"}]
  /\ inbox \in [Conns -> BOOLEAN]
  /\ starts \in 0 .. MaxStarts

Init ==
  /\ running = FALSE /\ early = FALSE
  /\ listen_fd = NoFd
  /\ client_fds = <<>> /\ threads = {} /\ todo = <<>>
  /\ opc = "idle" /\ apc = "none" /\ target = Free
  /\ cfd = [c \in Conns |-> NoFd]
  /\ tpc = [c \in Conns |-> "none"]
  /\ fds = [f \in Fds |-> Free]
  /\ shut = {} /\ bound = {}
  /\ peer = [c \in Conns |-> "none"]
  /\ inbox = [c \in Conns |-> FALSE]
  /\ starts = 0
-----------------------------------------------------------------------------
(* Kernel *)

HasFree == \E f \in Fds : fds[f] = Free

LowestFree == CHOOSE f \in Fds : fds[f] = Free /\ \A g \in Fds : g < f => fds[g] # Free

At(f) == IF f \in Fds THEN fds[f] ELSE Free

\* close(f): a listening socket frees the port, and what waits on it is reset.
Close(f) ==
  /\ fds' = IF f \in Fds THEN [fds EXCEPT ![f] = Free] ELSE fds
  /\ bound' = bound \ {At(f)}
  /\ peer' = [c \in Conns |->
                IF At(f) = c \/ (At(f) \in bound /\ peer[c] = "backlog") THEN "closed" ELSE peer[c]]
-----------------------------------------------------------------------------
(* The owner: start() and stop() *)

\* The accept thread starts at once; start() of a running server returns.
Start ==
  /\ opc = "idle" /\ ~running /\ starts < MaxStarts
  /\ running' = TRUE
  /\ apc' = "socket"
  /\ UNCHANGED <<opc, starts, early, listen_fd, target, tvars, todo, kvars, pvars>>

Stop ==
  /\ opc = "idle"
  /\ running' = FALSE
  /\ opc' = "fd"
  /\ UNCHANGED <<starts, early, avars, tvars, todo, kvars, pvars>>

\* Mutant: the listening socket is closed but not shut down.
StopShutdown_Skipped ==
  /\ opc = "fd"
  /\ opc' = IF listen_fd = NoFd THEN "join_accept" ELSE "close"
  /\ early' = (early \/ (listen_fd = NoFd /\ apc = "socket"))
  /\ UNCHANGED <<running, starts, avars, tvars, todo, kvars, pvars>>

\* listen_fd_ is a plain int that the accept thread writes.
StopShutdown ==
  /\ opc = "fd"
  /\ opc' = IF listen_fd = NoFd THEN "join_accept" ELSE "close"
  /\ shut' = shut \cup ({At(listen_fd)} \cap bound)
  /\ early' = (early \/ (listen_fd = NoFd /\ apc = "socket"))
  /\ UNCHANGED <<running, starts, avars, tvars, todo, fds, bound, pvars>>

StopClose ==
  /\ opc = "close"
  /\ Close(listen_fd)
  /\ listen_fd' = NoFd
  /\ opc' = "join_accept"
  /\ UNCHANGED <<running, starts, early, apc, target, tvars, todo, shut, inbox>>

\* Mutant: the client threads are joined first.
JoinAccept_Last ==
  /\ opc = "join_accept"
  /\ \A c \in threads : tpc[c] = "done"
  /\ opc' = "join_clients"
  /\ UNCHANGED <<running, starts, early, avars, tvars, todo, kvars, pvars>>

JoinAccept ==
  /\ opc = "join_accept"
  /\ apc \in {"none", "done"}
  /\ opc' = "join_clients"
  /\ UNCHANGED <<running, starts, early, avars, tvars, todo, kvars, pvars>>

JoinClients ==
  /\ opc = "join_clients"
  /\ \A c \in threads : tpc[c] = "done"
  /\ threads' = {}
  /\ opc' = "idle"
  /\ UNCHANGED <<running, starts, early, avars, client_fds, cfd, tpc, todo, kvars, pvars>>
-----------------------------------------------------------------------------
(* The accept thread *)

AGoto(label) == apc' = label

Socket ==
  /\ apc = "socket" /\ HasFree
  /\ starts' = starts + 1
  /\ fds' = [fds EXCEPT ![LowestFree] = starts + 1]
  /\ listen_fd' = LowestFree
  /\ AGoto("bind")
  /\ UNCHANGED <<running, opc, early, target, tvars, todo, shut, bound, pvars>>

\* socket() fails: the thread ends, with running_ still set.
SocketFails ==
  /\ apc = "socket"
  /\ starts' = starts + 1
  /\ listen_fd' = NoFd
  /\ AGoto("done")
  /\ UNCHANGED <<running, opc, early, target, tvars, todo, kvars, pvars>>

\* bind() or listen() must fail if another socket has the port or stop()
\* closed this one, and may fail anyway: the thread ends in the same way.
Bind ==
  /\ apc = "bind"
  /\ \/ /\ At(listen_fd) \in Socks /\ bound = {}
        /\ bound' = {At(listen_fd)}
        /\ AGoto("loop")
        /\ UNCHANGED <<listen_fd, fds, peer>>
     \/ /\ Close(listen_fd)
        /\ listen_fd' = NoFd
        /\ AGoto("done")
  /\ UNCHANGED <<ovars, target, tvars, todo, shut, inbox>>

\* while (running_) ...
LoopTest ==
  /\ apc = "loop"
  /\ AGoto(IF running THEN "call" ELSE "done")
  /\ UNCHANGED <<ovars, listen_fd, target, tvars, todo, kvars, pvars>>

\* ... accept() on what listen_fd_ is by now.
AcceptCall ==
  /\ apc = "call"
  /\ target' = At(listen_fd)
  /\ AGoto("accept")
  /\ UNCHANGED <<ovars, listen_fd, tvars, todo, kvars, pvars>>

Accept(c) ==
  /\ apc = "accept" /\ target \in bound \ shut /\ HasFree
  /\ peer[c] = "backlog"
  /\ peer' = [peer EXCEPT ![c] = "open"]
  /\ fds' = [fds EXCEPT ![LowestFree] = c]
  /\ cfd' = [cfd EXCEPT ![c] = LowestFree]
  /\ target' = c
  /\ AGoto("limit")
  /\ UNCHANGED <<ovars, listen_fd, client_fds, threads, tpc, todo, shut, bound, inbox>>

\* accept() fails as the socket was shut down, or was closed before the call.
AcceptFails ==
  /\ apc = "accept" /\ target \in shut \cup {Free}
  /\ AGoto("done")
  /\ target' = Free
  /\ UNCHANGED <<ovars, listen_fd, tvars, todo, kvars, pvars>>

\* Any other error ends the loop too: a client that gave up, no descriptors.
AcceptError(c) ==
  /\ apc = "accept" /\ target \in bound \ shut
  /\ peer[c] = "backlog"
  /\ peer' = [peer EXCEPT ![c] = "closed"]
  /\ AGoto("done")
  /\ target' = Free
  /\ UNCHANGED <<ovars, listen_fd, tvars, todo, kvars, inbox>>

\* Mutant: the limit is off by one.
Full_Late == Len(client_fds) > MaxClients

Full == Len(client_fds) >= MaxClients

\* Enforce the connection limit, under the lock.
Refuse ==
  /\ apc = "limit" /\ ~Sending /\ Full
  /\ Close(cfd[target])
  /\ cfd' = [cfd EXCEPT ![target] = NoFd]
  /\ target' = Free
  /\ AGoto("loop")
  /\ UNCHANGED <<ovars, listen_fd, client_fds, threads, tpc, todo, shut, inbox>>

Admit ==
  /\ apc = "limit" /\ ~Sending /\ ~Full
  /\ client_fds' = Append(client_fds, cfd[target])
  /\ AGoto("spawn")
  /\ UNCHANGED <<ovars, listen_fd, target, threads, cfd, tpc, todo, kvars, pvars>>

\* reap_done_threads() keeps every joinable thread, so all of them; then the
\* new thread is added.
Spawn ==
  /\ apc = "spawn"
  /\ threads' = threads \cup {target}
  /\ tpc' = [tpc EXCEPT ![target] = "loop"]
  /\ target' = Free
  /\ AGoto("loop")
  /\ UNCHANGED <<ovars, listen_fd, client_fds, cfd, todo, kvars, pvars>>
-----------------------------------------------------------------------------
(* handle_client() *)

TGoto(c, label) == tpc' = [tpc EXCEPT ![c] = label]

ClientLoop(c) ==
  /\ tpc[c] = "loop"
  /\ TGoto(c, IF running THEN "recv" ELSE "erase")
  /\ UNCHANGED <<ovars, avars, client_fds, threads, cfd, todo, kvars, pvars>>

\* recv_ipc_message() blocks until there is something: a valid message,
\* which goes to the callback, ...
RecvValid(c) ==
  /\ tpc[c] = "recv" /\ inbox[c]
  /\ inbox' = [inbox EXCEPT ![c] = FALSE]
  /\ TGoto(c, "loop")
  /\ UNCHANGED <<ovars, avars, client_fds, threads, cfd, todo, kvars, peer>>

\* ... or one that is not, or the end of the stream, or an error.
RecvInvalid(c) ==
  /\ tpc[c] = "recv" /\ (inbox[c] \/ peer[c] = "closed")
  /\ inbox' = [inbox EXCEPT ![c] = FALSE]
  /\ TGoto(c, "erase")
  /\ UNCHANGED <<ovars, avars, client_fds, threads, cfd, todo, kvars, peer>>

\* Mutant: the descriptor is closed before it is taken off the list.
Erase_Late(c) ==
  /\ tpc[c] = "erase"
  /\ Close(cfd[c])
  /\ TGoto(c, "close")
  /\ UNCHANGED <<ovars, avars, client_fds, threads, cfd, todo, shut, inbox>>

\* std::find(), and erase() of the one it found.
Without(s, e) ==
  LET i == CHOOSE i \in DOMAIN s : s[i] = e /\ \A j \in 1 .. i - 1 : s[j] # e
  IN  IF e \in Range(s) THEN [k \in 1 .. Len(s) - 1 |-> s[IF k < i THEN k ELSE k + 1]] ELSE s

Erase(c) ==
  /\ tpc[c] = "erase" /\ ~Sending
  /\ client_fds' = Without(client_fds, cfd[c])
  /\ TGoto(c, "close")
  /\ UNCHANGED <<ovars, avars, threads, cfd, todo, kvars, pvars>>

CloseClient(c) ==
  /\ tpc[c] = "close"
  /\ Close(cfd[c])
  /\ cfd' = [cfd EXCEPT ![c] = NoFd]
  /\ TGoto(c, "done")
  /\ UNCHANGED <<ovars, avars, client_fds, threads, todo, shut, inbox>>
-----------------------------------------------------------------------------
(* broadcast(): the lock is held until the last client has its message *)

BroadcastBegin ==
  /\ ~Sending
  /\ todo' = client_fds
  /\ UNCHANGED <<ovars, avars, tvars, kvars, pvars>>

\* Sent, or failed: the loop goes on either way.
BroadcastSend ==
  /\ Sending
  /\ todo' = Tail(todo)
  /\ UNCHANGED <<ovars, avars, tvars, kvars, pvars>>
-----------------------------------------------------------------------------
(* Clients *)

Connect(c) ==
  /\ peer[c] = "none" /\ bound \ shut # {}
  /\ peer' = [peer EXCEPT ![c] = "backlog"]
  /\ UNCHANGED <<ovars, avars, tvars, todo, kvars, inbox>>

Send(c) ==
  /\ peer[c] \in {"backlog", "open"} /\ ~inbox[c]
  /\ inbox' = [inbox EXCEPT ![c] = TRUE]
  /\ UNCHANGED <<ovars, avars, tvars, todo, kvars, peer>>

Disconnect(c) ==
  /\ peer[c] = "open"
  /\ peer' = [peer EXCEPT ![c] = "closed"]
  /\ UNCHANGED <<ovars, avars, tvars, todo, kvars, inbox>>
-----------------------------------------------------------------------------
StopStep == StopShutdown \/ StopClose \/ JoinAccept \/ JoinClients

AcceptStep ==
  \/ Socket \/ SocketFails \/ Bind \/ LoopTest \/ AcceptCall
  \/ (\E c \in Conns : Accept(c) \/ AcceptError(c)) \/ AcceptFails \/ Refuse \/ Admit \/ Spawn

ClientStep(c) ==
  \/ ClientLoop(c) \/ RecvValid(c) \/ RecvInvalid(c)
  \/ Erase(c) \/ CloseClient(c)

Next ==
  \/ Start \/ Stop \/ StopStep \/ AcceptStep
  \/ BroadcastBegin \/ BroadcastSend
  \/ \E c \in Conns : ClientStep(c) \/ Connect(c) \/ Send(c) \/ Disconnect(c)

Spec == Init /\ [][Next]_vars

\* The server's threads keep running, callbacks return, broadcast() gets its
\* messages out, a thread that keeps asking for the mutex gets it, and
\* clients do not stay connected for ever.  Nothing is assumed of when they
\* connect or send.
LiveSpec ==
  /\ Spec
  /\ WF_vars(StopStep) /\ WF_vars(AcceptStep)
  /\ WF_vars(BroadcastSend)
  /\ SF_vars(Refuse \/ Admit)
  /\ \A c \in Conns : WF_vars(ClientStep(c)) /\ SF_vars(Erase(c)) /\ WF_vars(Disconnect(c))
-----------------------------------------------------------------------------
(* Properties *)

\* Every descriptor on the list, and every one that broadcast() is about to
\* write to, is open and is that of a connection whose thread has not ended:
\* broadcast() never writes to a closed descriptor or to whatever got its
\* number.
ListedAreOpen ==
  \A f \in Range(client_fds) \cup Range(todo) :
    \E c \in Conns : fds[f] = c /\ cfd[c] = f /\ tpc[c] \notin {"close", "done"}

\* At most max_clients_ connections are served at a time (line 110).
LimitHolds == Len(client_fds) <= MaxClients

Stopped == opc = "idle" /\ ~running

\* When stop() has returned all threads have ended, also those of connections
\* accepted while it ran, no connection is left open or listed, and the
\* listening socket is closed (line 136) - unless some stop() ran before its
\* accept thread had made the socket: it then finds no descriptor to close,
\* and the thread still makes one.
StoppedIsQuiet ==
  Stopped =>
    /\ apc \in {"none", "done"}
    /\ \A c \in Conns : tpc[c] \in {"none", "done"}
    /\ client_fds = <<>>
    /\ \A f \in Fds : fds[f] \notin Conns
    /\ ~early => \A f \in Fds : fds[f] \notin Socks

\* stop() returns, wherever the accept thread was, provided that clients
\* leave: a thread inside recv() is woken by nothing else.
StopReturns == opc # "idle" ~> opc = "idle"

\* The server's variables keep their types, and the limit on clients holds.
ServerInv == TypeOK /\ LimitHolds
=============================================================================
