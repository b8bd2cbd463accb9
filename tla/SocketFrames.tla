---------------------------- MODULE SocketFrames ----------------------------
(***************************************************************************)
(* The framing layer of socket_transport.hpp: a SocketClient sends         *)
(* IPCMessages, reconnects after a failure, and the handle_client()        *)
(* thread of each connection takes them off the stream again.              *)
(*                                                                         *)
(* send() and recv() move part of what they are asked to; the model moves  *)
(* one cell at a time, which every other split is a sequence of.  A        *)
(* connection may fail at any point and lose what is under way, and one    *)
(* cell may be damaged as it is about to be read; length prefixes are not. *)
(***************************************************************************)
EXTENDS IpcMessage

CONSTANTS
  Conns,            \* connections, used in order
  Inputs,           \* what messages are made from: [payload, length]
  Flips,            \* bit patterns that damage a byte
  MaxMsgs,          \* send() calls
  Window,           \* cells the kernel buffers on a connection
  kMaxMessageSize,  \* in cells
  Uint32            \* number of values of the uint32_t length prefix

ASSUME FramesAssumption ==
  /\ Conns \subseteq Nat \ {0} /\ MaxMsgs \in Nat /\ Window \in Nat \ {0}
  /\ kMaxMessageSize \in kHeader .. (Uint32 - 1)
  /\ \A i \in Inputs : i.payload = <<>> \/ i.length = Len(i.payload)

VARIABLES
  fd,         \* the client's fd_: its connection, or 0
  out,        \* send_ipc_message(): cells not yet written
  link,       \* the state of each connection
  wire,       \* cells written and not yet read
  hpc,        \* where each handle_client() is
  total,      \* recv_ipc_message(): total
  buf,        \*   and the cells read of it
  sent,       \* messages given to send(), by connection
  failed,     \* sequence numbers of those for which it returned false
  delivered,  \* messages given to the callback
  damaged     \* connections with a damaged cell

cvars == <<fd, out, sent, failed>>
hvars == <<hpc, total, buf, delivered>>
vars  == <<cvars, hvars, link, wire, damaged>>

Count == MapThenSumSet(LAMBDA c : Len(sent[c]), Conns)

TypeOK ==
  /\ fd \in Conns \cup {0}
  /\ link \in [Conns -> {"new", "up", "eof", "reset", "closed"}]
  /\ hpc \in [Conns -> {"none", "len", "buf", "done"}]
  /\ total \in [Conns -> 0 .. Uint32 - 1]
  /\ \A c \in Conns : hpc[c] = "buf" => Len(buf[c]) <= total[c] /\ total[c] <= kMaxMessageSize
  /\ failed \subseteq 1 .. MaxMsgs
  /\ damaged \subseteq Conns

Init ==
  /\ fd = 0 /\ out = <<>> /\ failed = {} /\ damaged = {}
  /\ link = [c \in Conns |-> "new"]
  /\ wire = [c \in Conns |-> <<>>]
  /\ hpc = [c \in Conns |-> "none"]
  /\ total = [c \in Conns |-> 0]
  /\ buf = [c \in Conns |-> <<>>]
  /\ sent = [c \in Conns |-> <<>>]
  /\ delivered = [c \in Conns |-> <<>>]
-----------------------------------------------------------------------------
(* SocketClient *)

\* The server starts a handle_client() for the new connection.  A connect()
\* that fails closes its socket and leaves fd_ as it was.
Connect(c) ==
  /\ fd = 0 /\ link[c] = "new" /\ \A d \in Conns : d < c => link[d] # "new"
  /\ fd' = c
  /\ link' = [link EXCEPT ![c] = "up"]
  /\ hpc' = [hpc EXCEPT ![c] = "len"]
  /\ UNCHANGED <<out, sent, failed, total, buf, delivered, wire, damaged>>

\* What was written still arrives, unless the close turns into a reset, as
\* it does when the client has not read what the server broadcast.
Disconnect ==
  /\ fd # 0 /\ out = <<>>
  /\ fd' = 0
  /\ \/ /\ link[fd] = "up"
        /\ link' = [link EXCEPT ![fd] = "eof"]
     \/ UNCHANGED link
  /\ UNCHANGED <<out, sent, failed, hvars, wire, damaged>>

\* send_ipc_message(): the length prefix, then the buffer.
Frame(m) == <<[len |-> Len(to_buffer(m)) % Uint32]>> \o to_buffer(m)

Send(i) ==
  /\ fd # 0 /\ out = <<>> /\ Count < MaxMsgs
  /\ \E m \in {Construct(Count + 1, i.payload, i.length)} :
       /\ sent' = [sent EXCEPT ![fd] = Append(@, m)]
       /\ out' = Frame(m)
  /\ UNCHANGED <<fd, failed, hvars, link, wire, damaged>>

\* send_all(): one more cell, once there is room for it; after the last one
\* send() returns true.
SendCell ==
  /\ out # <<>> /\ link[fd] = "up" /\ Len(wire[fd]) < Window
  /\ wire' = [wire EXCEPT ![fd] = Append(@, Head(out))]
  /\ out' = Tail(out)
  /\ UNCHANGED <<fd, sent, failed, hvars, link, damaged>>

\* ... or ::send() fails, and send() returns false with fd_ still set.
SendFails ==
  /\ out # <<>> /\ link[fd] # "up"
  /\ out' = <<>>
  /\ failed' = failed \cup {Last(sent[fd]).sequence}
  /\ UNCHANGED <<fd, sent, hvars, link, wire, damaged>>
-----------------------------------------------------------------------------
(* The network *)

\* The connection fails, and what was under way is lost with it or not.
Reset(c) ==
  /\ link[c] \in {"up", "eof"}
  /\ link' = [link EXCEPT ![c] = "reset"]
  /\ wire' \in {wire, [wire EXCEPT ![c] = <<>>]}
  /\ UNCHANGED <<cvars, hvars, damaged>>

\* The next payload byte, or the length in the next header, is damaged.
Damage(c) ==
  /\ damaged = {} /\ damaged' = {c}
  /\ wire[c] # <<>>
  /\ \/ /\ "byte" \in DOMAIN Head(wire[c])
        /\ \E f \in Flips : wire' = [wire EXCEPT ![c][1].byte = SymDiff(@, f)]
     \/ /\ "hdr" \in DOMAIN Head(wire[c])
        /\ \E n \in 0 .. kMaxMessageSize : wire' = [wire EXCEPT ![c][1].hdr.length = n]
  /\ UNCHANGED <<cvars, hvars, link>>
-----------------------------------------------------------------------------
(* handle_client() and recv_ipc_message() *)

\* An invalid message ends the thread, which closes its end.
Quit(c) ==
  /\ hpc' = [hpc EXCEPT ![c] = "done"]
  /\ link' = [link EXCEPT ![c] = IF @ = "up" THEN "closed" ELSE @]
  /\ wire' = [wire EXCEPT ![c] = <<>>]
  /\ buf' = [buf EXCEPT ![c] = <<>>]
  /\ total' = [total EXCEPT ![c] = 0]
  /\ UNCHANGED <<cvars, delivered, damaged>>

\* Mutant: the largest frame is refused.
Sane_Strict(n) == n >= kHeader /\ n < kMaxMessageSize

Sane(n) == n >= kHeader /\ n <= kMaxMessageSize

RecvTotal(c) ==
  /\ hpc[c] = "len" /\ wire[c] # <<>>
  /\ LET n == Head(wire[c]).len
     IN  \/ /\ Sane(n)
            /\ total' = [total EXCEPT ![c] = n]
            /\ hpc' = [hpc EXCEPT ![c] = "buf"]
            /\ wire' = [wire EXCEPT ![c] = Tail(@)]
            /\ UNCHANGED <<cvars, link, buf, delivered, damaged>>
         \/ ~Sane(n) /\ Quit(c)

\* recv_all(): one more cell of the buffer.
RecvCell(c) ==
  /\ hpc[c] = "buf" /\ Len(buf[c]) < total[c] /\ wire[c] # <<>>
  /\ buf' = [buf EXCEPT ![c] = Append(@, Head(wire[c]))]
  /\ wire' = [wire EXCEPT ![c] = Tail(@)]
  /\ UNCHANGED <<cvars, hpc, total, link, delivered, damaged>>

\* Mutant: a buffer that does not parse is passed over.
Deliver_Skips(c) ==
  /\ hpc[c] = "buf" /\ Len(buf[c]) = total[c]
  /\ delivered' = [delivered EXCEPT ![c] =
                     IF Parses(buf[c]) THEN Append(@, from_buffer(buf[c])) ELSE @]
  /\ hpc' = [hpc EXCEPT ![c] = "len"]
  /\ buf' = [buf EXCEPT ![c] = <<>>]
  /\ total' = [total EXCEPT ![c] = 0]
  /\ UNCHANGED <<cvars, link, wire, damaged>>

\* The buffer is parsed; a valid message goes to the callback, verified or
\* not.
Deliver(c) ==
  /\ hpc[c] = "buf" /\ Len(buf[c]) = total[c]
  /\ \/ /\ Parses(buf[c])
        /\ delivered' = [delivered EXCEPT ![c] = Append(@, from_buffer(buf[c]))]
        /\ hpc' = [hpc EXCEPT ![c] = "len"]
        /\ buf' = [buf EXCEPT ![c] = <<>>]
        /\ total' = [total EXCEPT ![c] = 0]
        /\ UNCHANGED <<cvars, link, wire, damaged>>
     \/ ~Parses(buf[c]) /\ Quit(c)

Receiving(c) == hpc[c] = "len" \/ (hpc[c] = "buf" /\ Len(buf[c]) < total[c])

\* Mutant: a hang-up is noticed before the data in front of it is read.
RecvEnd_Early(c) ==
  /\ Receiving(c) /\ link[c] \in {"eof", "reset"}
  /\ Quit(c)

\* ::recv() returns 0 or fails once there is nothing left.
RecvEnd(c) ==
  /\ Receiving(c) /\ wire[c] = <<>> /\ link[c] \in {"eof", "reset"}
  /\ Quit(c)

ServerStep(c) == RecvTotal(c) \/ RecvCell(c) \/ Deliver(c) \/ RecvEnd(c)
-----------------------------------------------------------------------------
Next ==
  \/ \E c \in Conns : Connect(c) \/ Reset(c) \/ Damage(c) \/ ServerStep(c)
  \/ \E i \in Inputs : Send(i)
  \/ Disconnect \/ SendCell \/ SendFails

Spec == Init /\ [][Next]_vars

\* A thread in recv() with data or an end to report goes on, and so does a
\* client inside send(); nothing makes a client call send().
LiveSpec ==
  /\ Spec
  /\ WF_vars(SendCell \/ SendFails)
  /\ \A c \in Conns : WF_vars(ServerStep(c))
-----------------------------------------------------------------------------
(* Properties *)

\* Is this message one that from_buffer() takes at the other end?
Acceptable(m) == m.length = Len(m.data) /\ kHeader + m.length <= kMaxMessageSize

\* Each connection gives the callback the messages sent on it, in order,
\* without gaps and, if nothing was damaged, as they were; and never one for
\* which send() returned false: to send such a message again on a new
\* connection cannot duplicate it.
DeliveredInOrder ==
  \A c \in Conns :
    /\ Len(delivered[c]) <= Len(sent[c])
    /\ \A i \in DOMAIN delivered[c] :
         /\ sent[c][i].sequence \notin failed
         /\ delivered[c][i].sequence = sent[c][i].sequence
         /\ c \notin damaged => delivered[c][i] = sent[c][i]

\* The receiver's verify_checksum() tells exactly the messages whose payload
\* is the one that was sent, whichever byte or length was damaged.
ChecksumDecides ==
  \A c \in Conns : \A i \in DOMAIN delivered[c] :
    verify_checksum(delivered[c][i]) <=> delivered[c][i].data = sent[c][i].data

\* The table-driven checksum is the CRC-32 of ISO 3309 (line 26).
ChecksumIsIso3309 ==
  \A c \in Conns : \A i \in DOMAIN delivered[c] :
    LET m == sent[c][i] IN m.data # <<>> => m.checksum = Iso3309(m.data)

\* The server hangs up on a connected client only for a frame that was
\* damaged, or that its limits refuse: too large, a length that wrapped, or
\* a header that announces a payload the message does not have.
HangsUpForCause ==
  \A c \in Conns \ damaged :
    link[c] = "closed" => ~Acceptable(sent[c][Len(delivered[c]) + 1])

\* What send() has returned true for reaches the callback, also when the
\* client disconnects at once, unless the connection fails or the server
\* refused a message before it.
SentArrives ==
  \A c \in Conns : \A n \in 1 .. MaxMsgs :
    (/\ Len(sent[c]) >= n /\ (fd # c \/ out = <<>>)
     /\ \A i \in 1 .. n : Acceptable(sent[c][i]) /\ sent[c][i].sequence \notin failed)
      ~> (Len(delivered[c]) >= n \/ link[c] = "reset" \/ c \in damaged)

\* The variables keep their types, and a server hangs up for cause.
FrameInv == TypeOK /\ HangsUpForCause
=============================================================================
