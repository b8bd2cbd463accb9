------------------------- MODULE SocketServerProofs -------------------------
(***************************************************************************)
(* Proofs about SocketServer, for any number of connections, descriptors   *)
(* and start() calls and any limit on clients.                             *)
(***************************************************************************)
EXTENDS SocketServer, WellFoundedInduction, TLAPS

\* Who has a descriptor: a connection whose thread has not closed it, or
\* the one that the accept thread is about to admit.
Accepted(c) == tpc[c] = "none" /\ apc \in {"limit", "spawn"} /\ target = c
Owns(c)     == tpc[c] \in {"loop", "recv", "erase", "close"} \/ Accepted(c)

Descriptors ==
  /\ \A c \in Conns : IF Owns(c) THEN cfd[c] \in Fds /\ fds[cfd[c]] = c ELSE cfd[c] = NoFd
  /\ \A f \in Fds : fds[f] \in Conns => cfd[fds[f]] = f
  /\ listen_fd # NoFd => fds[listen_fd] \in Socks
  /\ \A f \in Fds : fds[f] \in Socks => f = listen_fd \/ early

\* What the owner, the accept thread and the client threads know of each
\* other.
Phases ==
  /\ running => opc = "idle"
  /\ opc = "join_clients" \/ Stopped => apc \in {"none", "done"}
  /\ Stopped => threads = {}
  /\ \A c \in Conns : tpc[c] \notin {"none", "done"} => c \in threads
  /\ apc \in {"limit", "spawn"} => target \in Conns /\ tpc[target] = "none"
  /\ \A c \in Conns : peer[c] \in {"none", "backlog"} => tpc[c] = "none" /\ ~Accepted(c)

\* A stop() that found the socket closes it, and one that found none ran
\* before it was made, which early records.
Closing ==
  /\ apc = "socket" => starts < MaxStarts /\ (listen_fd = NoFd \/ early)
  /\ apc = "socket" /\ opc = "close" => early
  /\ opc \in {"join_accept", "join_clients"} \/ Stopped =>
       early \/ (listen_fd = NoFd /\ apc # "socket")

\* A connection on the list is open and served, or about to be, and is listed
\* once: handle_client() takes off one descriptor.
Served(c) == tpc[c] \in {"loop", "recv", "erase"} \/ (Accepted(c) /\ apc = "spawn")

Listed ==
  /\ \A f \in Range(client_fds) : \E c \in Conns : cfd[c] = f /\ fds[f] = c /\ Served(c)
  /\ IsInjective(client_fds)
  /\ Range(todo) \subseteq Range(client_fds)
  /\ LimitHolds

IInv == TypeOK /\ Phases /\ Closing /\ Descriptors /\ Listed
-----------------------------------------------------------------------------
(* The lowest free descriptor, and a vector without one of its elements *)

LEMMA Least ==
  ASSUME NEW T, T \subseteq Nat, T # {}
  PROVE  \E x \in T : \A y \in T : x <= y
<1>1. PICK x \in T : \A y \in T : ~(<<y, x>> \in OpToRel(<, Nat))
  BY NatLessThanWellFounded, WFMin, Zenon
<1>2. ASSUME NEW y \in T
      PROVE  x <= y
  <2>1. x \in Nat /\ y \in Nat
    OBVIOUS
  <2>2. y < x => <<y, x>> \in OpToRel(<, Nat)
    BY <2>1 DEF OpToRel
  <2>3. ~(y < x)
    BY <1>1, <2>2, Zenon
  <2> QED
    BY <2>1, <2>3
<1> QED
  BY <1>2, Zenon

LEMMA FreeFd == ASSUME HasFree PROVE LowestFree \in Fds /\ fds[LowestFree] = Free
<1> DEFINE T == {f \in Fds : fds[f] = Free}
<1>1. T \subseteq Nat /\ T # {}
  BY ServerAssumption DEF HasFree
<1>2. PICK f \in T : \A g \in T : f <= g
  BY <1>1, Least
<1>3. ASSUME NEW g \in Fds, g < f
      PROVE  fds[g] # Free
  <2>1. f \in Nat /\ g \in Nat
    BY ServerAssumption
  <2>2. ~(f <= g)
    BY <1>3, <2>1
  <2> QED
    BY <1>2, <2>2
<1>4. f \in Fds /\ fds[f] = Free /\ \A g \in Fds : g < f => fds[g] # Free
  BY <1>3
<1> QED
  BY <1>4, Zenon DEF LowestFree

\* find() and erase() of an element that is there at most once.
LEMMA Removed ==
  ASSUME NEW S, NEW s \in Seq(S), NEW e, NEW r, r = Without(s, e), IsInjective(s)
  PROVE  /\ r \in Seq(S) /\ Len(r) <= Len(s)
         /\ Range(r) = Range(s) \ {e} /\ IsInjective(r)
<1>1. Len(s) \in Nat /\ DOMAIN s = 1 .. Len(s) /\ \A n \in 1 .. Len(s) : s[n] \in S
  OBVIOUS
<1>2. CASE e \notin Range(s)
  BY <1>1, <1>2 DEF Without
<1>3. CASE e \in Range(s)
  <2> DEFINE First(i) == s[i] = e /\ \A j \in 1 .. i - 1 : s[j] # e
             k == CHOOSE i \in DOMAIN s : First(i)
  <2>1. k \in 1 .. Len(s) /\ s[k] = e
    <3> DEFINE I == {i \in 1 .. Len(s) : s[i] = e}
    <3>1. I \subseteq Nat /\ I # {}
      BY <1>1, <1>3 DEF Range
    <3>2. PICK x \in I : \A y \in I : x <= y
      BY <3>1, Least
    <3>3. ASSUME NEW j \in 1 .. x - 1
          PROVE  s[j] # e
      <4>1. j \in 1 .. Len(s) /\ ~(x <= j)
        BY <1>1
      <4> QED
        BY <3>2, <4>1
    <3>4. x \in DOMAIN s /\ First(x)
      BY <1>1, <3>3
    <3> HIDE DEF First
    <3>5. k \in DOMAIN s /\ First(k)
      BY <3>4, Zenon
    <3> QED
      BY <1>1, <3>5 DEF First
  <2>2. r = [n \in 1 .. Len(s) - 1 |-> s[IF n < k THEN n ELSE n + 1]]
    BY <1>3 DEF Without
  <2> HIDE DEF k
  <2>3. Len(s) - 1 \in Nat
    BY <1>1, <2>1
  <2>4. /\ r \in Seq(S) /\ Len(r) = Len(s) - 1 /\ DOMAIN r = 1 .. Len(s) - 1
        /\ \A n \in 1 .. Len(s) - 1 : r[n] = IF n < k THEN s[n] ELSE s[n + 1]
    BY <1>1, <2>1, <2>2, <2>3
  <2>5. ASSUME NEW n \in DOMAIN r
        PROVE  \E m \in DOMAIN s : m # k /\ m = (IF n < k THEN n ELSE n + 1) /\ r[n] = s[m]
    BY <1>1, <2>1, <2>4
  <2>6. IsInjective(r)
    <3>1. SUFFICES ASSUME NEW n \in DOMAIN r, NEW m \in DOMAIN r, r[n] = r[m]
                   PROVE  n = m
      BY DEF IsInjective
    <3>2. (IF n < k THEN n ELSE n + 1) = (IF m < k THEN m ELSE m + 1)
      BY <2>5, <3>1 DEF IsInjective
    <3>3. n \in Int /\ m \in Int /\ k \in Int
      BY <1>1, <2>1, <2>4
    <3> QED
      BY <3>2, <3>3
  <2>7. Range(r) \subseteq Range(s) \ {e}
    BY <1>1, <2>1, <2>5 DEF Range, IsInjective
  <2>8. ASSUME NEW v \in Range(s), v # e
        PROVE  v \in Range(r)
    <3>1. PICK m \in 1 .. Len(s) : s[m] = v
      BY <1>1 DEF Range
    <3>2. m # k
      BY <2>1, <2>8, <3>1
    <3>3. CASE m < k
      <4>1. m \in 1 .. Len(s) - 1 /\ r[m] = v
        BY <1>1, <2>1, <2>4, <3>1, <3>3
      <4> QED
        BY <2>4, <4>1 DEF Range
    <3>4. CASE m > k
      <4>1. m - 1 \in 1 .. Len(s) - 1 /\ ~(m - 1 < k) /\ (m - 1) + 1 = m
        BY <1>1, <2>1, <3>4
      <4>2. r[m - 1] = v
        BY <2>4, <3>1, <4>1
      <4> QED
        BY <2>4, <4>1, <4>2 DEF Range
    <3> QED
      BY <2>1, <3>2, <3>3, <3>4
  <2> QED
    BY <1>1, <2>4, <2>6, <2>7, <2>8
<1> QED
  BY <1>2, <1>3

\* push_back() of an element that is not there.
LEMMA Appended ==
  ASSUME TypeOK, IsInjective(client_fds), NEW e \in Fds, e \notin Range(client_fds),
         client_fds' = Append(client_fds, e)
  PROVE  /\ Len(client_fds') = Len(client_fds) + 1
         /\ Range(client_fds') = Range(client_fds) \cup {e} /\ IsInjective(client_fds')
<1> DEFINE n == Len(client_fds)
<1>1. /\ client_fds \in Seq(Fds) /\ n \in Nat /\ DOMAIN client_fds = 1 .. n
      /\ Len(client_fds') = n + 1 /\ DOMAIN client_fds' = 1 .. n + 1
      /\ client_fds'[n + 1] = e /\ \A i \in 1 .. n : client_fds'[i] = client_fds[i]
  BY DEF TypeOK
<1> HIDE DEF n
<1>2. \A i \in 1 .. n : client_fds[i] # e
  BY <1>1 DEF Range
<1>3. \A i \in DOMAIN client_fds' : i \in 1 .. n \/ i = n + 1
  BY <1>1
<1>4. Range(client_fds') = Range(client_fds) \cup {e}
  BY <1>1, <1>3 DEF Range
<1>5. IsInjective(client_fds')
  BY <1>1, <1>2, <1>3 DEF IsInjective
<1> QED
  BY <1>1, <1>4, <1>5 DEF n

LEMMA TailSubset ==
  ASSUME NEW S, NEW s \in Seq(S), s # <<>>
  PROVE  Tail(s) \in Seq(S) /\ Range(Tail(s)) \subseteq Range(s)
<1>1. /\ Tail(s) \in Seq(S) /\ DOMAIN Tail(s) = 1 .. Len(s) - 1
      /\ \A i \in 1 .. Len(s) - 1 : Tail(s)[i] = s[i + 1] /\ i + 1 \in DOMAIN s
  OBVIOUS
<1> QED
  BY <1>1 DEF Range
-----------------------------------------------------------------------------
(* Types *)

LEMMA Apart == /\ Conns \cap Socks = {} /\ Free \notin Conns \cup Socks
               /\ NoFd \notin Fds /\ MaxStarts \in Nat /\ MaxClients \in Nat
BY ServerAssumption DEF Socks, NoFd

\* close() frees that descriptor and no other, and at most hangs up on clients.
LEMMA Closes ==
  ASSUME TypeOK, NEW f \in Fds \cup {NoFd}, Close(f)
  PROVE  /\ fds' \in [Fds -> Socks \cup Conns \cup {Free}]
         /\ \A g \in Fds : fds'[g] = IF g = f THEN Free ELSE fds[g]
         /\ bound' \subseteq bound
         /\ peer' \in [Conns -> {"none", "backlog", "open", "closed"}]
         /\ \A c \in Conns : peer'[c] \in {peer[c], "closed"}
BY Apart DEF TypeOK, Close

\* The descriptor that socket() or accept() returns.
LEMMA Opens ==
  ASSUME TypeOK, HasFree, NEW v \in Socks \cup Conns, fds' = [fds EXCEPT ![LowestFree] = v]
  PROVE  \E f \in Fds : /\ f = LowestFree /\ fds[f] = Free /\ fds'[f] = v
                        /\ fds' \in [Fds -> Socks \cup Conns \cup {Free}]
                        /\ \A g \in Fds \ {f} : fds'[g] = fds[g]
BY FreeFd DEF TypeOK

OwnerStep  == Start \/ Stop \/ StopStep
OtherStep  ==
  \/ BroadcastBegin \/ BroadcastSend
  \/ \E c \in Conns : ClientStep(c) \/ Connect(c) \/ Send(c) \/ Disconnect(c)

LEMMA Steps == Next <=> OwnerStep \/ AcceptStep \/ OtherStep
BY DEF Next, OwnerStep, OtherStep

LEMMA OwnerTypes == ASSUME IInv, OwnerStep PROVE TypeOK'
<1> USE DEF IInv, ovars, avars, tvars, kvars, pvars
<1>1. CASE Start
  BY <1>1 DEF TypeOK, Start
<1>2. CASE Stop
  BY <1>2 DEF TypeOK, Stop
<1>3. CASE StopShutdown
  BY <1>3 DEF TypeOK, StopShutdown
<1>4. CASE StopClose
  <2>1. listen_fd \in Fds \cup {NoFd} /\ Close(listen_fd)
    BY <1>4 DEF TypeOK, StopClose
  <2> QED
    BY <1>4, <2>1, Closes DEF TypeOK, StopClose
<1>5. CASE JoinAccept \/ JoinClients
  BY <1>5 DEF TypeOK, JoinAccept, JoinClients
<1> QED
  BY <1>1, <1>2, <1>3, <1>4, <1>5 DEF OwnerStep, StopStep

LEMMA AcceptTypes == ASSUME IInv, AcceptStep PROVE TypeOK'
<1> USE DEF IInv, ovars, avars, tvars, kvars, pvars, AGoto
<1>1. CASE Socket
  <2>1. starts + 1 \in Socks /\ starts' \in 0 .. MaxStarts
    BY <1>1, Apart DEF TypeOK, Closing, Socks, Socket
  <2>2. PICK f \in Fds : f = LowestFree /\ fds' \in [Fds -> Socks \cup Conns \cup {Free}]
    BY <1>1, <2>1, Opens DEF Socket
  <2> QED
    BY <1>1, <2>1, <2>2 DEF TypeOK, Socket
<1>2. CASE SocketFails
  <2>1. starts' \in 0 .. MaxStarts
    BY <1>2, Apart DEF TypeOK, Closing, SocketFails
  <2> QED
    BY <1>2, <2>1 DEF TypeOK, SocketFails
<1>3. CASE Bind
  <2>1. CASE Close(listen_fd) /\ listen_fd' = NoFd /\ apc' = "done"
    <3>1. listen_fd \in Fds \cup {NoFd}
      BY DEF TypeOK
    <3> QED
      BY <1>3, <2>1, <3>1, Closes DEF TypeOK, Bind
  <2>2. CASE /\ At(listen_fd) \in Socks /\ bound' = {At(listen_fd)} /\ apc' = "loop"
             /\ UNCHANGED <<listen_fd, fds, peer>>
    BY <1>3, <2>2 DEF TypeOK, Bind
  <2> QED
    BY <1>3, <2>1, <2>2 DEF Bind
<1>4. CASE LoopTest \/ AcceptFails \/ \E c \in Conns : AcceptError(c)
  BY <1>4 DEF TypeOK, LoopTest, AcceptFails, AcceptError
<1>5. CASE AcceptCall
  BY <1>5, Apart DEF TypeOK, AcceptCall, At
<1>6. ASSUME NEW c \in Conns, Accept(c)
      PROVE  TypeOK'
  <2>1. PICK f \in Fds : f = LowestFree /\ fds' \in [Fds -> Socks \cup Conns \cup {Free}]
    BY <1>6, Opens DEF Accept
  <2> QED
    BY <1>6, <2>1 DEF TypeOK, Accept
<1>7. CASE Refuse
  <2>1. target \in Conns /\ cfd[target] \in Fds \cup {NoFd} /\ Close(cfd[target])
    BY <1>7 DEF TypeOK, Phases, Refuse
  <2> QED
    BY <1>7, <2>1, Closes DEF TypeOK, Refuse
<1>8. CASE Admit
  <2>1. target \in Conns /\ Accepted(target) /\ cfd[target] \in Fds
    BY <1>8 DEF Phases, Descriptors, Owns, Accepted, Admit
  <2>2. client_fds' \in Seq(Fds)
    BY <1>8, <2>1 DEF TypeOK, Admit
  <2> QED
    BY <1>8, <2>2 DEF TypeOK, Admit
<1>9. CASE Spawn
  BY <1>9 DEF TypeOK, Phases, Spawn
<1> QED
  BY <1>1, <1>2, <1>3, <1>4, <1>5, <1>6, <1>7, <1>8, <1>9 DEF AcceptStep

LEMMA OtherTypes == ASSUME IInv, OtherStep PROVE TypeOK'
<1> USE DEF IInv, ovars, avars, tvars, kvars, pvars, TGoto
<1>1. CASE BroadcastBegin
  BY <1>1 DEF TypeOK, BroadcastBegin
<1>2. CASE BroadcastSend
  <2>1. todo' \in Seq(Fds)
    BY <1>2, TailSubset DEF TypeOK, BroadcastSend, Sending
  <2> QED
    BY <1>2, <2>1 DEF TypeOK, BroadcastSend
<1>3. ASSUME NEW c \in Conns, ClientLoop(c) \/ RecvValid(c) \/ RecvInvalid(c)
      PROVE  TypeOK'
  <2>1. /\ UNCHANGED <<ovars, avars, client_fds, threads, cfd, todo, kvars, peer>>
        /\ inbox' \in {inbox, [inbox EXCEPT ![c] = FALSE]}
        /\ \E l \in {"loop", "recv", "erase"} : tpc' = [tpc EXCEPT ![c] = l]
    BY <1>3 DEF ClientLoop, RecvValid, RecvInvalid
  <2>2. inbox' \in [Conns -> BOOLEAN]
    BY <2>1 DEF TypeOK
  <2>3. tpc' \in [Conns -> {"none", "loop", "recv", "erase", "close", "done"}]
    BY <2>1 DEF TypeOK
  <2> QED
    BY <2>1, <2>2, <2>3 DEF TypeOK
<1>4. ASSUME NEW c \in Conns, Erase(c)
      PROVE  TypeOK'
  <2>1. client_fds' \in Seq(Fds)
    BY <1>4, Removed DEF TypeOK, Erase, Listed
  <2> QED
    BY <1>4, <2>1 DEF TypeOK, Erase
<1>5. ASSUME NEW c \in Conns, CloseClient(c)
      PROVE  TypeOK'
  <2>1. cfd[c] \in Fds \cup {NoFd} /\ Close(cfd[c])
    BY <1>5 DEF TypeOK, CloseClient
  <2> QED
    BY <1>5, <2>1, Closes DEF TypeOK, CloseClient
<1>6. ASSUME NEW c \in Conns, Connect(c) \/ Send(c) \/ Disconnect(c)
      PROVE  TypeOK'
  <2>1. UNCHANGED <<ovars, avars, tvars, todo, kvars>>
    BY <1>6 DEF Connect, Send, Disconnect
  <2>2. /\ peer' \in [Conns -> {"none", "backlog", "open", "closed"}]
        /\ inbox' \in [Conns -> BOOLEAN]
    BY <1>6 DEF TypeOK, Connect, Send, Disconnect
  <2> QED
    BY <2>1, <2>2 DEF TypeOK
<1> QED
  BY <1>1, <1>2, <1>3, <1>4, <1>5, <1>6 DEF OtherStep, ClientStep
-----------------------------------------------------------------------------
(* The three kinds of thread *)

LEMMA OwnerPhases == ASSUME IInv, OwnerStep PROVE Phases' /\ Closing'
<1> USE DEF IInv, ovars, avars, tvars, kvars, pvars, Accepted, Stopped
<1>1. CASE Start
  BY <1>1 DEF TypeOK, Phases, Closing, Start
<1>2. CASE Stop
  BY <1>2 DEF TypeOK, Phases, Closing, Stop
<1>3. CASE StopShutdown
  BY <1>3 DEF TypeOK, Phases, Closing, StopShutdown
<1>4. CASE StopClose
  <2>1. \A c \in Conns : peer'[c] \in {peer[c], "closed"}
    BY <1>4, Closes DEF TypeOK, StopClose
  <2> QED
    BY <1>4, <2>1 DEF TypeOK, Phases, Closing, StopClose
<1>5. CASE JoinAccept
  BY <1>5 DEF TypeOK, Phases, Closing, JoinAccept
<1>6. CASE JoinClients
  BY <1>6 DEF TypeOK, Phases, Closing, JoinClients
<1> QED
  BY <1>1, <1>2, <1>3, <1>4, <1>5, <1>6 DEF OwnerStep, StopStep

LEMMA AcceptPhases == ASSUME IInv, AcceptStep PROVE Phases' /\ Closing'
<1> USE DEF IInv, ovars, avars, tvars, kvars, pvars, Accepted, Stopped, AGoto
<1>1. CASE Socket \/ SocketFails
  BY <1>1 DEF TypeOK, Phases, Closing, Socket, SocketFails
<1>2. CASE Bind
  <2>1. /\ \A c \in Conns : peer'[c] \in {peer[c], "closed"}
        /\ apc' \in {"loop", "done"} /\ listen_fd' \in {listen_fd, NoFd}
    <3>1. CASE Close(listen_fd) /\ listen_fd' = NoFd /\ apc' = "done"
      BY <3>1, Closes DEF TypeOK
    <3>2. CASE apc' = "loop" /\ UNCHANGED <<listen_fd, peer>>
      BY <3>2
    <3> QED
      BY <1>2, <3>1, <3>2 DEF Bind
  <2> QED
    BY <1>2, <2>1 DEF TypeOK, Phases, Closing, Bind
<1>3. CASE LoopTest \/ AcceptCall \/ AcceptFails
  BY <1>3 DEF TypeOK, Phases, Closing, LoopTest, AcceptCall, AcceptFails
<1>4. ASSUME NEW c \in Conns, Accept(c) \/ AcceptError(c)
      PROVE  Phases' /\ Closing'
  BY <1>4 DEF TypeOK, Phases, Closing, Accept, AcceptError
<1>5. CASE Refuse
  <2>1. \A c \in Conns : peer'[c] \in {peer[c], "closed"}
    BY <1>5, Closes DEF TypeOK, Phases, Refuse
  <2> QED
    BY <1>5, <2>1 DEF TypeOK, Phases, Closing, Refuse
<1>6. CASE Admit
  BY <1>6 DEF TypeOK, Phases, Closing, Admit
<1>7. CASE Spawn
  BY <1>7 DEF TypeOK, Phases, Closing, Spawn
<1> QED
  BY <1>1, <1>2, <1>3, <1>4, <1>5, <1>6, <1>7 DEF AcceptStep

LEMMA OtherPhases == ASSUME IInv, OtherStep PROVE Phases' /\ Closing'
<1> USE DEF IInv, ovars, avars, tvars, kvars, pvars, Accepted, Stopped, TGoto
<1>1. CASE BroadcastBegin \/ BroadcastSend
  BY <1>1 DEF TypeOK, Phases, Closing, BroadcastBegin, BroadcastSend
<1>2. ASSUME NEW c \in Conns, ClientLoop(c) \/ RecvValid(c) \/ RecvInvalid(c) \/ Erase(c)
      PROVE  Phases' /\ Closing'
  BY <1>2 DEF TypeOK, Phases, Closing, ClientLoop, RecvValid, RecvInvalid, Erase
<1>3. ASSUME NEW c \in Conns, CloseClient(c)
      PROVE  Phases' /\ Closing'
  <2>1. \A d \in Conns : peer'[d] \in {peer[d], "closed"}
    BY <1>3, Closes DEF TypeOK, CloseClient
  <2> QED
    BY <1>3, <2>1 DEF TypeOK, Phases, Closing, CloseClient
<1>4. ASSUME NEW c \in Conns, Connect(c) \/ Send(c) \/ Disconnect(c)
      PROVE  Phases' /\ Closing'
  BY <1>4 DEF TypeOK, Phases, Closing, Connect, Send, Disconnect
<1> QED
  BY <1>1, <1>2, <1>3, <1>4 DEF OtherStep, ClientStep
-----------------------------------------------------------------------------
(* Descriptors *)

\* Closing listen_fd_ touches no connection.
LEMMA ListenerCloses ==
  ASSUME IInv, Close(listen_fd), listen_fd' = NoFd, UNCHANGED <<cfd, tpc, target, early>>,
         \A c \in Conns : Accepted(c)' <=> Accepted(c)
  PROVE  Descriptors'
<1>1. /\ \A g \in Fds : fds'[g] = IF g = listen_fd THEN Free ELSE fds[g]
      /\ listen_fd \in Fds => fds[listen_fd] \in Socks
  BY Closes, Apart DEF IInv, TypeOK, Descriptors
<1> QED
  BY <1>1, Apart DEF IInv, Descriptors, Owns

\* Closing a connection's descriptor touches no other one.
LEMMA ConnectionCloses ==
  ASSUME IInv, NEW c \in Conns, Owns(c), Close(cfd[c]), cfd' = [cfd EXCEPT ![c] = NoFd],
         \A d \in Conns : Owns(d)' <=> Owns(d) /\ d # c, UNCHANGED <<listen_fd, early>>
  PROVE  Descriptors'
<1>1. /\ cfd[c] \in Fds /\ fds[cfd[c]] = c
      /\ \A g \in Fds : fds'[g] = IF g = cfd[c] THEN Free ELSE fds[g]
  BY Closes DEF IInv, Descriptors
<1>2. \A d \in Conns : cfd'[d] = IF d = c THEN NoFd ELSE cfd[d]
  BY DEF IInv, TypeOK
<1>3. ASSUME NEW d \in Conns
      PROVE  (IF Owns(d) THEN cfd[d] \in Fds /\ fds[cfd[d]] = d ELSE cfd[d] = NoFd)'
  <2>1. CASE d = c
    BY <1>2, <2>1
  <2>2. CASE d # c
    <3>1. IF Owns(d) THEN cfd[d] \in Fds /\ fds[cfd[d]] = d ELSE cfd[d] = NoFd
      BY DEF IInv, Descriptors
    <3> QED
      BY <1>1, <1>2, <2>2, <3>1
  <2> QED
    BY <2>1, <2>2
<1>4. ASSUME NEW g \in Fds, fds'[g] \in Conns
      PROVE  cfd'[fds'[g]] = g
  <2>1. g # cfd[c] /\ fds'[g] = fds[g] /\ cfd[fds[g]] = g
    BY <1>1, <1>4, Apart DEF IInv, Descriptors
  <2> QED
    BY <1>2, <1>4, <2>1
<1>5. listen_fd' # NoFd => fds'[listen_fd'] \in Socks
  BY <1>1, Apart DEF IInv, TypeOK, Descriptors
<1>6. \A g \in Fds : fds'[g] \in Socks => g = listen_fd' \/ early'
  BY <1>1, Apart DEF IInv, Descriptors
<1> QED
  BY <1>3, <1>4, <1>5, <1>6 DEF Descriptors

LEMMA OwnerDescriptors == ASSUME IInv, OwnerStep PROVE Descriptors'
<1> USE DEF IInv, ovars, avars, tvars, kvars, pvars, Accepted
<1>1. CASE Start
  BY <1>1 DEF Phases, Stopped, Descriptors, Owns, Start
<1>2. CASE Stop \/ StopShutdown \/ JoinAccept \/ JoinClients
  BY <1>2 DEF TypeOK, Descriptors, Owns, Stop, StopShutdown, JoinAccept, JoinClients
<1>3. CASE StopClose
  BY <1>3, ListenerCloses DEF StopClose
<1> QED
  BY <1>1, <1>2, <1>3 DEF OwnerStep, StopStep

LEMMA AcceptDescriptors == ASSUME IInv, AcceptStep PROVE Descriptors'
<1> USE DEF IInv, ovars, avars, tvars, kvars, pvars, Accepted, AGoto
<1>1. CASE Socket
  <2>1. starts + 1 \in Socks
    BY <1>1, Apart DEF TypeOK, Closing, Socks, Socket
  <2>2. PICK f \in Fds : /\ f = LowestFree /\ fds[f] = Free /\ fds'[f] = starts + 1
                        /\ \A g \in Fds \ {f} : fds'[g] = fds[g]
    BY <1>1, <2>1, Opens DEF Socket
  <2>3. listen_fd' = f /\ (listen_fd = NoFd \/ early) /\ early' = early
    BY <1>1, <2>2 DEF Socket, Closing
  <2> QED
    BY <1>1, <2>1, <2>2, <2>3, Apart DEF Descriptors, Owns, Socket
<1>2. CASE SocketFails
  BY <1>2, Apart DEF Closing, Descriptors, Owns, SocketFails
<1>3. CASE Bind
  <2>1. CASE Close(listen_fd) /\ listen_fd' = NoFd /\ apc' = "done"
    BY <1>3, <2>1, ListenerCloses DEF Bind
  <2>2. CASE apc' = "loop" /\ UNCHANGED <<listen_fd, fds>>
    BY <1>3, <2>2 DEF Descriptors, Owns, Bind
  <2> QED
    BY <1>3, <2>1, <2>2 DEF Bind
<1>4. CASE LoopTest \/ AcceptCall \/ AcceptFails \/ \E c \in Conns : AcceptError(c)
  BY <1>4 DEF Descriptors, Owns, LoopTest, AcceptCall, AcceptFails, AcceptError
<1>5. ASSUME NEW c \in Conns, Accept(c)
      PROVE  Descriptors'
  <2>1. PICK f \in Fds : /\ f = LowestFree /\ fds[f] = Free /\ fds'[f] = c
                        /\ \A g \in Fds \ {f} : fds'[g] = fds[g]
    BY <1>5, Opens DEF Accept
  <2>2. tpc[c] = "none" /\ \A d \in Conns : ~Accepted(d) /\ (Accepted(d)' <=> d = c)
    BY <1>5 DEF Phases, Accept
  <2>3. \A d \in Conns : cfd'[d] = IF d = c THEN f ELSE cfd[d]
    BY <1>5, <2>1 DEF TypeOK, Accept
  <2>4. UNCHANGED <<tpc, listen_fd, early>>
    BY <1>5 DEF Accept
  <2>5. cfd[c] = NoFd
    BY <2>2 DEF Descriptors, Owns
  <2> HIDE DEF Accepted
  <2>6. ASSUME NEW d \in Conns
        PROVE  (IF Owns(d) THEN cfd[d] \in Fds /\ fds[cfd[d]] = d ELSE cfd[d] = NoFd)'
    <3>1. CASE d = c
      BY <2>1, <2>2, <2>3, <3>1 DEF Owns
    <3>2. CASE d # c
      <4>1. IF Owns(d) THEN cfd[d] \in Fds /\ fds[cfd[d]] = d ELSE cfd[d] = NoFd
        BY DEF Descriptors
      <4>2. Owns(d)' <=> Owns(d)
        BY <2>2, <2>4, <3>2 DEF Owns
      <4> QED
        BY <2>1, <2>3, <3>2, <4>1, <4>2, Apart
    <3> QED
      BY <3>1, <3>2
  <2>7. ASSUME NEW g \in Fds, fds'[g] \in Conns
        PROVE  cfd'[fds'[g]] = g
    <3>1. CASE g = f
      BY <2>1, <2>3, <3>1
    <3>2. CASE g # f
      BY <2>1, <2>3, <2>5, <2>7, <3>2, Apart DEF Descriptors
    <3> QED
      BY <3>1, <3>2
  <2>8. /\ listen_fd' # NoFd => fds'[listen_fd'] \in Socks
        /\ \A g \in Fds : fds'[g] \in Socks => g = listen_fd' \/ early'
    BY <2>1, <2>4, Apart DEF TypeOK, Descriptors
  <2> QED
    BY <2>6, <2>7, <2>8 DEF Descriptors
<1>6. CASE Refuse
  <2>1. target \in Conns /\ Owns(target) /\ tpc[target] = "none"
    BY <1>6 DEF Phases, Owns, Refuse
  <2>2. \A d \in Conns : Owns(d)' <=> Owns(d) /\ d # target
    BY <1>6, <2>1 DEF Owns, Refuse
  <2> QED
    BY <1>6, <2>1, <2>2, ConnectionCloses DEF Refuse
<1>7. CASE Admit
  BY <1>7 DEF Descriptors, Owns, Admit
<1>8. CASE Spawn
  <2>1. \A d \in Conns : Owns(d)' <=> Owns(d)
    BY <1>8 DEF TypeOK, Phases, Owns, Spawn
  <2> QED
    BY <1>8, <2>1 DEF Descriptors, Spawn
<1> QED
  BY <1>1, <1>2, <1>3, <1>4, <1>5, <1>6, <1>7, <1>8 DEF AcceptStep

LEMMA OtherDescriptors == ASSUME IInv, OtherStep PROVE Descriptors'
<1> USE DEF IInv, ovars, avars, tvars, kvars, pvars, Accepted, TGoto
<1>1. CASE BroadcastBegin \/ BroadcastSend
  BY <1>1 DEF Descriptors, Owns, BroadcastBegin, BroadcastSend
<1>2. ASSUME NEW c \in Conns, ClientLoop(c) \/ RecvValid(c) \/ RecvInvalid(c) \/ Erase(c)
      PROVE  Descriptors'
  <2>1. \A d \in Conns : Owns(d)' <=> Owns(d)
    BY <1>2 DEF TypeOK, Owns, ClientLoop, RecvValid, RecvInvalid, Erase
  <2>2. UNCHANGED <<cfd, fds, listen_fd, early>>
    BY <1>2 DEF ClientLoop, RecvValid, RecvInvalid, Erase
  <2> QED
    BY <2>1, <2>2 DEF Descriptors
<1>3. ASSUME NEW c \in Conns, CloseClient(c)
      PROVE  Descriptors'
  <2>1. Owns(c) /\ \A d \in Conns : Owns(d)' <=> Owns(d) /\ d # c
    BY <1>3 DEF TypeOK, Owns, CloseClient
  <2> QED
    BY <1>3, <2>1, ConnectionCloses DEF CloseClient
<1>4. ASSUME NEW c \in Conns, Connect(c) \/ Send(c) \/ Disconnect(c)
      PROVE  Descriptors'
  <2>1. UNCHANGED <<cfd, fds, listen_fd, early, tpc, apc, target>>
    BY <1>4 DEF Connect, Send, Disconnect
  <2> QED
    BY <2>1 DEF Descriptors, Owns
<1> QED
  BY <1>1, <1>2, <1>3, <1>4 DEF OtherStep, ClientStep
-----------------------------------------------------------------------------
(* The list of clients *)

\* What a step that leaves the list alone must not do to a served connection.
LEMMA ListedKept ==
  ASSUME IInv, UNCHANGED client_fds, Range(todo') \subseteq Range(client_fds),
         \A c \in Conns : Served(c) => Served(c)' /\ cfd'[c] = cfd[c],
         \A f \in Fds : fds[f] \in Conns /\ Served(fds[f]) => fds'[f] = fds[f]
  PROVE  Listed'
<1>1. ASSUME NEW f \in Range(client_fds)
      PROVE  \E c \in Conns : cfd'[c] = f /\ fds'[f] = c /\ Served(c)'
  <2>1. f \in Fds
    BY DEF IInv, TypeOK, Range
  <2>2. PICK c \in Conns : cfd[c] = f /\ fds[f] = c /\ Served(c)
    BY DEF IInv, Listed
  <2> QED
    BY <2>1, <2>2
<1> QED
  BY <1>1 DEF IInv, Listed, LimitHolds

\* A connection whose thread has not got the descriptor is not on the list.
LEMMA NotListed ==
  ASSUME IInv, NEW c \in Conns, Owns(c), ~Served(c)
  PROVE  cfd[c] \in Fds /\ fds[cfd[c]] = c /\ cfd[c] \notin Range(client_fds)
<1>1. cfd[c] \in Fds /\ fds[cfd[c]] = c
  BY DEF IInv, Descriptors
<1> QED
  BY <1>1 DEF IInv, Listed

LEMMA OwnerListed == ASSUME IInv, OwnerStep PROVE Listed'
<1> USE DEF IInv, ovars, avars, tvars, kvars, pvars, Served, Accepted
<1>1. UNCHANGED <<client_fds, todo, cfd, tpc, target>>
  BY DEF OwnerStep, StopStep, Start, Stop, StopShutdown, StopClose, JoinAccept, JoinClients
<1>2. Range(todo') \subseteq Range(client_fds)
  BY <1>1 DEF Listed
<1>3. \A c \in Conns : Served(c) => Served(c)' /\ cfd'[c] = cfd[c]
  BY <1>1 DEF Phases, Stopped, OwnerStep, StopStep, Start, Stop, StopShutdown, StopClose,
              JoinAccept, JoinClients
<1>4. \A f \in Fds : fds[f] \in Conns => fds'[f] = fds[f]
  <2>1. CASE StopClose
    <3>1. listen_fd \in Fds \cup {NoFd} /\ Close(listen_fd)
      BY <2>1 DEF TypeOK, StopClose
    <3> QED
      BY <3>1, Closes, Apart DEF Descriptors
  <2>2. CASE UNCHANGED fds
    BY <2>2
  <2> QED
    BY <2>1, <2>2 DEF OwnerStep, StopStep, Start, Stop, StopShutdown, JoinAccept, JoinClients
<1> HIDE DEF Served, Accepted
<1> QED
  BY <1>1, <1>2, <1>3, <1>4, ListedKept

LEMMA AcceptListed == ASSUME IInv, AcceptStep PROVE Listed'
<1> USE DEF IInv, ovars, avars, tvars, kvars, pvars, Served, Accepted, AGoto
<1>1. Range(todo) \subseteq Range(client_fds)
  BY DEF Listed
<1>2. CASE Socket
  <2>1. UNCHANGED <<client_fds, todo, cfd, tpc>> /\ apc = "socket"
    BY <1>2 DEF Socket
  <2>2. \A f \in Fds : fds[f] \in Conns => fds'[f] = fds[f]
    <3>1. starts + 1 \in Socks
      BY <1>2, Apart DEF TypeOK, Closing, Socks, Socket
    <3> QED
      BY <1>2, <3>1, Opens, Apart DEF Socket
  <2> QED
    BY <1>1, <2>1, <2>2, ListedKept
<1>3. CASE Bind
  <2>1. UNCHANGED <<client_fds, todo, cfd, tpc>> /\ apc = "bind"
    BY <1>3 DEF Bind
  <2>2. \A f \in Fds : fds[f] \in Conns => fds'[f] = fds[f]
    <3>1. CASE Close(listen_fd)
      <4>1. listen_fd \in Fds \cup {NoFd}
        BY DEF TypeOK
      <4> QED
        BY <3>1, <4>1, Closes, Apart DEF Descriptors
    <3>2. CASE UNCHANGED fds
      BY <3>2
    <3> QED
      BY <1>3, <3>1, <3>2 DEF Bind
  <2> QED
    BY <1>1, <2>1, <2>2, ListedKept
<1>4. CASE SocketFails \/ LoopTest \/ AcceptCall \/ AcceptFails \/ \E c \in Conns : AcceptError(c)
  <2>1. /\ UNCHANGED <<client_fds, todo, cfd, tpc, fds>>
        /\ apc \in {"socket", "loop", "call", "accept"}
    BY <1>4 DEF SocketFails, LoopTest, AcceptCall, AcceptFails, AcceptError
  <2> QED
    BY <1>1, <2>1, ListedKept
<1>5. ASSUME NEW c \in Conns, Accept(c)
      PROVE  Listed'
  <2>1. /\ UNCHANGED <<client_fds, todo, tpc>> /\ apc = "accept" /\ tpc[c] = "none"
        /\ \A d \in Conns \ {c} : cfd'[d] = cfd[d]
    BY <1>5 DEF TypeOK, Phases, Accept
  <2>2. \A f \in Fds : fds[f] \in Conns => fds'[f] = fds[f]
    <3>1. PICK f \in Fds : fds[f] = Free /\ \A g \in Fds \ {f} : fds'[g] = fds[g]
      BY <1>5, Opens DEF Accept
    <3> QED
      BY <3>1, Apart
  <2> QED
    BY <1>1, <2>1, <2>2, ListedKept
<1>6. CASE Refuse
  <2>1. /\ UNCHANGED <<client_fds, todo, tpc>> /\ apc = "limit" /\ Close(cfd[target])
        /\ target \in Conns /\ Owns(target) /\ ~Served(target)
        /\ \A d \in Conns \ {target} : cfd'[d] = cfd[d]
    BY <1>6 DEF TypeOK, Phases, Owns, Refuse
  <2>2. \A f \in Fds : fds[f] \in Conns /\ Served(fds[f]) => fds'[f] = fds[f]
    <3>1. cfd[target] \in Fds /\ fds[cfd[target]] = target
      BY <2>1, NotListed
    <3> QED
      BY <2>1, <3>1, Closes
  <2> QED
    BY <1>1, <2>1, <2>2, ListedKept
<1>7. CASE Admit
  <2>1. /\ UNCHANGED <<todo, tpc, cfd, fds, target>> /\ apc = "limit" /\ apc' = "spawn"
        /\ target \in Conns /\ Owns(target) /\ ~Served(target) /\ todo = <<>>
        /\ client_fds' = Append(client_fds, cfd[target]) /\ ~Full
    BY <1>7 DEF Phases, Owns, Admit, Sending
  <2>2. cfd[target] \in Fds /\ fds[cfd[target]] = target /\ cfd[target] \notin Range(client_fds)
    BY <2>1, NotListed
  <2>3. client_fds \in Seq(Fds) /\ IsInjective(client_fds)
    BY DEF TypeOK, Listed
  <2>4. /\ Len(client_fds') = Len(client_fds) + 1
        /\ Range(client_fds') = Range(client_fds) \cup {cfd[target]}
        /\ IsInjective(client_fds')
    BY <2>1, <2>2, <2>3, Appended
  <2>5. LimitHolds'
    <3>1. Len(client_fds) \in Nat /\ Len(client_fds) < MaxClients
      BY <2>1, <2>3, Apart DEF Full
    <3> QED
      BY <2>4, <3>1, Apart DEF LimitHolds
  <2>6. Range(todo') = {}
    BY <2>1 DEF Range
  <2>7. ASSUME NEW f \in Range(client_fds')
        PROVE  \E c \in Conns : cfd'[c] = f /\ fds'[f] = c /\ Served(c)'
    <3>1. CASE f = cfd[target]
      BY <1>7, <2>1, <2>2, <3>1 DEF Phases
    <3>2. CASE f \in Range(client_fds)
      BY <2>1, <3>2 DEF Listed
    <3> QED
      BY <2>4, <2>7, <3>1, <3>2
  <2> QED
    BY <2>4, <2>5, <2>6, <2>7 DEF Listed
<1>8. CASE Spawn
  <2>1. UNCHANGED <<client_fds, todo, cfd, fds>>
    BY <1>8 DEF Spawn
  <2>2. \A c \in Conns : Served(c) => Served(c)'
    BY <1>8 DEF TypeOK, Phases, Spawn
  <2> HIDE DEF Served
  <2> QED
    BY <1>1, <2>1, <2>2, ListedKept
<1> QED
  BY <1>2, <1>3, <1>4, <1>5, <1>6, <1>7, <1>8 DEF AcceptStep

LEMMA OtherListed == ASSUME IInv, OtherStep PROVE Listed'
<1> USE DEF IInv, ovars, avars, tvars, kvars, pvars, Served, Accepted, TGoto
<1>1. Range(todo) \subseteq Range(client_fds)
  BY DEF Listed
<1>2. CASE BroadcastBegin \/ BroadcastSend
  <2>1. UNCHANGED <<client_fds, cfd, fds, tpc, apc, target>>
    BY <1>2 DEF BroadcastBegin, BroadcastSend
  <2>2. Range(todo') \subseteq Range(client_fds)
    BY <1>1, <1>2, TailSubset DEF TypeOK, BroadcastBegin, BroadcastSend, Sending
  <2> QED
    BY <2>1, <2>2, ListedKept
<1>3. ASSUME NEW c \in Conns, ClientLoop(c) \/ RecvValid(c) \/ RecvInvalid(c)
      PROVE  Listed'
  <2>1. UNCHANGED <<client_fds, todo, cfd, fds>>
    BY <1>3 DEF ClientLoop, RecvValid, RecvInvalid
  <2>2. \A d \in Conns : Served(d) => Served(d)'
    BY <1>3 DEF TypeOK, ClientLoop, RecvValid, RecvInvalid
  <2> HIDE DEF Served
  <2> QED
    BY <1>1, <2>1, <2>2, ListedKept
<1>4. ASSUME NEW c \in Conns, Erase(c)
      PROVE  Listed'
  <2>1. /\ UNCHANGED <<todo, cfd, fds>> /\ todo = <<>>
        /\ client_fds' = Without(client_fds, cfd[c])
        /\ \A d \in Conns : Served(d) /\ d # c => Served(d)'
    BY <1>4 DEF TypeOK, Erase, Sending
  <2>2. client_fds \in Seq(Fds) /\ IsInjective(client_fds)
    BY DEF TypeOK, Listed
  <2>3. /\ client_fds' \in Seq(Fds) /\ Len(client_fds') <= Len(client_fds)
        /\ Range(client_fds') = Range(client_fds) \ {cfd[c]}
        /\ IsInjective(client_fds')
    BY <2>1, <2>2, Removed
  <2>4. LimitHolds'
    <3>1. Len(client_fds) \in Nat /\ Len(client_fds') \in Nat /\ Len(client_fds) <= MaxClients
      <4>1. Len(client_fds) \in Nat /\ Len(client_fds') \in Nat
        BY <2>2, <2>3
      <4> QED
        BY <4>1 DEF Listed, LimitHolds
    <3> QED
      BY <2>3, <3>1, Apart DEF LimitHolds
  <2>5. Range(todo') = {}
    BY <2>1 DEF Range
  <2> HIDE DEF Served
  <2>6. ASSUME NEW f \in Range(client_fds')
        PROVE  \E d \in Conns : cfd'[d] = f /\ fds'[f] = d /\ Served(d)'
    <3>1. PICK d \in Conns : cfd[d] = f /\ fds[f] = d /\ Served(d)
      BY <2>3, <2>6 DEF Listed
    <3> QED
      BY <2>1, <2>3, <2>6, <3>1
  <2> QED
    BY <2>3, <2>4, <2>5, <2>6 DEF Listed
<1>5. ASSUME NEW c \in Conns, CloseClient(c)
      PROVE  Listed'
  <2>1. /\ UNCHANGED <<client_fds, todo>> /\ Close(cfd[c]) /\ Owns(c) /\ ~Served(c)
        /\ \A d \in Conns : Served(d) => Served(d)' /\ cfd'[d] = cfd[d]
    BY <1>5 DEF TypeOK, Owns, CloseClient
  <2> HIDE DEF Served
  <2>2. \A f \in Fds : fds[f] \in Conns /\ Served(fds[f]) => fds'[f] = fds[f]
    <3>1. cfd[c] \in Fds /\ fds[cfd[c]] = c
      BY <2>1, NotListed
    <3> QED
      BY <2>1, <3>1, Closes
  <2> QED
    BY <1>1, <2>1, <2>2, ListedKept
<1>6. ASSUME NEW c \in Conns, Connect(c) \/ Send(c) \/ Disconnect(c)
      PROVE  Listed'
  <2>1. UNCHANGED <<client_fds, todo, cfd, fds, tpc, apc, target>>
    BY <1>6 DEF Connect, Send, Disconnect
  <2> QED
    BY <1>1, <2>1, ListedKept
<1> QED
  BY <1>2, <1>3, <1>4, <1>5, <1>6 DEF OtherStep, ClientStep
-----------------------------------------------------------------------------
(* Theorems *)

LEMMA InvInit == ASSUME Init PROVE IInv
<1> USE DEF Init
<1>1. TypeOK
  <2>1. client_fds \in Seq(Fds) /\ todo \in Seq(Fds) /\ starts \in 0 .. MaxStarts
    BY Apart
  <2>2. /\ cfd \in [Conns -> Fds \cup {NoFd}]
        /\ tpc \in [Conns -> {"none", "loop", "recv", "erase", "close", "done"}]
        /\ fds \in [Fds -> Socks \cup Conns \cup {Free}]
        /\ peer \in [Conns -> {"none", "backlog", "open", "closed"}]
        /\ inbox \in [Conns -> BOOLEAN]
    OBVIOUS
  <2>3. /\ running \in BOOLEAN /\ early \in BOOLEAN /\ listen_fd \in Fds \cup {NoFd}
        /\ threads \subseteq Conns /\ shut \subseteq Socks /\ bound \subseteq Socks
        /\ target \in Socks \cup Conns \cup {Free}
    OBVIOUS
  <2> QED
    BY <2>1, <2>2, <2>3 DEF TypeOK
<1>2. Phases /\ Closing
  BY DEF Phases, Closing, Stopped, Accepted
<1>3. Descriptors
  BY Apart DEF Descriptors, Owns, Accepted
<1>4. Listed
  <2>1. Len(<<>>) = 0 /\ DOMAIN client_fds = {} /\ Range(client_fds) = {} /\ Range(todo) = {}
    BY DEF Range
  <2> QED
    BY <2>1, Apart DEF Listed, LimitHolds, IsInjective
<1> QED
  BY <1>1, <1>2, <1>3, <1>4 DEF IInv

LEMMA InvNext == ASSUME IInv, [Next]_vars PROVE IInv'
<1>1. CASE UNCHANGED vars
  <2> USE <1>1 DEF vars, ovars, avars, tvars, kvars, pvars, IInv
  <2>1. TypeOK'
    BY DEF TypeOK
  <2>2. Phases' /\ Closing'
    BY DEF Phases, Closing, Stopped, Accepted
  <2>3. Descriptors'
    BY DEF Descriptors, Owns, Accepted
  <2>4. Listed'
    <3>1. Range(todo) \subseteq Range(client_fds)
      BY DEF Listed
    <3>2. \A c \in Conns : Served(c) => Served(c)'
      BY DEF Served, Accepted
    <3> QED
      BY <3>1, <3>2, ListedKept
  <2> QED
    BY <2>1, <2>2, <2>3, <2>4
<1>2. CASE OwnerStep
  BY <1>2, OwnerTypes, OwnerPhases, OwnerDescriptors, OwnerListed DEF IInv
<1>3. CASE AcceptStep
  BY <1>3, AcceptTypes, AcceptPhases, AcceptDescriptors, AcceptListed DEF IInv
<1>4. CASE OtherStep
  BY <1>4, OtherTypes, OtherPhases, OtherDescriptors, OtherListed DEF IInv
<1> QED
  BY <1>1, <1>2, <1>3, <1>4, Steps

LEMMA Invariance == Spec => []IInv
BY InvInit, InvNext, PTL DEF Spec

\* accept_loop() never lets client_fds_ grow past max_clients_, whatever the
\* threads do between its test of the size and the next one.
THEOREM ServerInvariant == Spec => []ServerInv
<1>1. IInv => ServerInv
  BY DEF IInv, Listed, ServerInv
<1> QED
  BY <1>1, Invariance, PTL

\* handle_client() takes a descriptor off the list before it closes it, and
\* broadcast() holds the lock while it walks, so every descriptor that
\* broadcast() writes to is that of a connection that is still served, also
\* when the kernel gives closed numbers out again.
THEOREM ListedAreOpenInvariant == Spec => []ListedAreOpen
<1>1. IInv => ListedAreOpen
  BY DEF IInv, Listed, Served, Accepted, ListedAreOpen
<1> QED
  BY <1>1, Invariance, PTL

\* stop() joins the accept thread before the client threads, so when it has
\* returned none is left and no connection is open; the listening socket is
\* closed too, unless a stop() overtook the socket() call.
THEOREM StoppedIsQuietInvariant == Spec => []StoppedIsQuiet
<1>1. ASSUME IInv, Stopped
      PROVE  /\ apc \in {"none", "done"}
             /\ \A c \in Conns : tpc[c] \in {"none", "done"}
             /\ client_fds = <<>>
             /\ \A f \in Fds : fds[f] \notin Conns
             /\ ~early => \A f \in Fds : fds[f] \notin Socks
  <2>1. apc \in {"none", "done"} /\ \A c \in Conns : tpc[c] \in {"none", "done"}
    BY <1>1 DEF IInv, Phases
  <2>2. \A c \in Conns : ~Owns(c) /\ ~Served(c)
    BY <2>1 DEF Owns, Served, Accepted
  <2>3. client_fds = <<>>
    <3>1. Range(client_fds) = {} /\ client_fds \in Seq(Fds)
      BY <1>1, <2>2 DEF IInv, TypeOK, Listed
    <3>2. Len(client_fds) \in Nat /\ ~(Len(client_fds) >= 1)
      BY <3>1 DEF Range
    <3> QED
      BY <3>1, <3>2
  <2>4. \A f \in Fds : fds[f] \notin Conns
    BY <1>1, <2>2, Apart DEF IInv, Descriptors
  <2>5. ~early => \A f \in Fds : fds[f] \notin Socks
    BY <1>1, Apart DEF IInv, Closing, Descriptors
  <2> QED
    BY <2>1, <2>3, <2>4, <2>5
<1>2. IInv => StoppedIsQuiet
  BY <1>1 DEF StoppedIsQuiet
<1> QED
  BY <1>2, Invariance, PTL
=============================================================================
