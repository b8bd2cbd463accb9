------------------------------ MODULE SpmcRing ------------------------------
(***************************************************************************)
(* The lock-free ring behind every LwIPC channel: ShmRingBuffer in POSIX   *)
(* shared memory (shm_ring_buffer.hpp) and IntraRingBuffer on the heap     *)
(* (publisher.hpp), whose push() and pop() are the same algorithm.         *)
(*                                                                         *)
(* One action per access to shared memory.  A payload is a set of Words    *)
(* that memcpy moves one at a time, in any order; the message pushed at    *)
(* position k is the payload whose every word is k, so a word tells which  *)
(* push it comes from.  Positions are uint64_t in the code: MaxPush keeps  *)
(* them, and the 2*pos+1 sequence numbers, far below the width.            *)
(***************************************************************************)
EXTENDS Integers

CONSTANTS
  Capacity,    \* slots of the ring
  Words,       \* words of a payload
  Producers,   \* threads that call push(); the design is for one
  Consumers,   \* cursors, each used by one thread
  MaxPush,     \* bound on the number of pushes
  Timeout,     \* the timeout_ns that consumers pass to producer_alive()
  InOrder      \* do a thread's accesses take effect in program order?

\* The static_assert asks for a power of two, so that pos & kMask is the
\* remainder modulo Capacity; nothing else depends on it.
ASSUME RingAssumption ==
  /\ Capacity \in Nat /\ Capacity >= 2
  /\ MaxPush \in Nat
  /\ Timeout \in Nat
  /\ InOrder \in BOOLEAN

VARIABLES
  write_pos,   \* ControlBlock::write_pos
  sequence,    \* Slot::sequence, one per slot
  data,        \* Slot::data, one word each
  hb_age,      \* now - ControlBlock::last_heartbeat_ns, -1 before any beat
  pstate,      \* where each producer is in push()
  pos,         \* push(): the local pos
  unwritten,   \* push(): words the memcpy has not stored yet
  cstate,      \* where each consumer is in pop()
  cursor,      \* Cursor::pos
  unread,      \* pop(): words the memcpy has not loaded yet
  out          \* pop(): the caller's buffer

shared == <<write_pos, sequence, data, hb_age>>
pvars  == <<pstate, pos, unwritten>>
cvars  == <<cstate, cursor, unread, out>>
vars   == <<shared, pvars, cvars>>

Slots     == 0 .. Capacity - 1
Blank     == -1                        \* a word of a zero-initialised slot
Never     == -1                        \* last_heartbeat_ns is still 0
Slot(k)   == k % Capacity              \* slots_[pos & kMask]
Busy(k)   == 2 * k                     \* even: being written
Ready(k)  == 2 * k + 1                 \* odd: ready to read

TypeOK ==
  /\ write_pos \in 0 .. MaxPush
  /\ sequence \in [Slots -> Nat]
  /\ data \in [Slots -> [Words -> Int]]
  /\ hb_age \in -1 .. Timeout + 1
  /\ pstate \in [Producers -> {"idle", "claimed", "marked", "beat"}]
  /\ pos \in [Producers -> Nat]
  /\ unwritten \in [Producers -> SUBSET Words]
  /\ cstate \in [Consumers -> {"none", "idle", "check", "copy", "verified"}]
  /\ cursor \in [Consumers -> Nat]
  /\ unread \in [Consumers -> SUBSET Words]
  /\ out \in [Consumers -> [Words -> Int]]

\* open_shm(create): placement-new of the control block and of every slot.
Init ==
  /\ write_pos = 0
  /\ sequence = [s \in Slots |-> 0]
  /\ data = [s \in Slots |-> [w \in Words |-> Blank]]
  /\ hb_age = Never
  /\ pstate = [p \in Producers |-> "idle"]
  /\ pos = [p \in Producers |-> 0]
  /\ unwritten = [p \in Producers |-> {}]
  /\ cstate = [c \in Consumers |-> "none"]
  /\ cursor = [c \in Consumers |-> 0]
  /\ unread = [c \in Consumers |-> {}]
  /\ out = [c \in Consumers |-> [w \in Words |-> Blank]]
-----------------------------------------------------------------------------
(* push() *)

\* fetch_add(write_pos, 1): claims the position.
Claim(p) ==
  /\ pstate[p] = "idle"
  /\ write_pos < MaxPush
  /\ write_pos' = write_pos + 1
  /\ pos' = [pos EXCEPT ![p] = write_pos]
  /\ unwritten' = [unwritten EXCEPT ![p] = Words]
  /\ pstate' = [pstate EXCEPT ![p] = "claimed"]
  /\ UNCHANGED <<sequence, data, hb_age, cvars>>

\* Mutant: the "being written" mark is never stored.
MarkBusy_Skipped(p) ==
  /\ pstate[p] = "claimed"
  /\ pstate' = [pstate EXCEPT ![p] = "marked"]
  /\ UNCHANGED <<shared, pos, unwritten, cvars>>

\* store(sequence, pos * 2)
MarkBusy(p) ==
  /\ pstate[p] = "claimed"
  /\ sequence' = [sequence EXCEPT ![Slot(pos[p])] = Busy(pos[p])]
  /\ pstate' = [pstate EXCEPT ![p] = "marked"]
  /\ UNCHANGED <<write_pos, data, hb_age, pos, unwritten, cvars>>

\* One word of the memcpy.  A release (or relaxed) store keeps nothing that
\* follows it from taking effect first: only InOrder puts the mark before.
StoreWord(p, w) ==
  /\ pstate[p] = "marked" \/ (~InOrder /\ pstate[p] = "claimed")
  /\ w \in unwritten[p]
  /\ data' = [data EXCEPT ![Slot(pos[p])][w] = pos[p]]
  /\ unwritten' = [unwritten EXCEPT ![p] = @ \ {w}]
  /\ UNCHANGED <<write_pos, sequence, hb_age, pstate, pos, cvars>>

\* Mutant: the ready mark of the slot's previous round is stored again.
MarkReady_OldRound(p) ==
  /\ pstate[p] = "marked"
  /\ unwritten[p] = {}
  /\ sequence' = [sequence EXCEPT ![Slot(pos[p])] =
                    IF pos[p] >= Capacity THEN Ready(pos[p] - Capacity) ELSE Ready(pos[p])]
  /\ pstate' = [pstate EXCEPT ![p] = "beat"]
  /\ UNCHANGED <<write_pos, data, hb_age, pos, unwritten, cvars>>

\* store(sequence, pos * 2 + 1), a release: the whole payload is stored.
MarkReady(p) ==
  /\ pstate[p] = "marked"
  /\ unwritten[p] = {}
  /\ sequence' = [sequence EXCEPT ![Slot(pos[p])] = Ready(pos[p])]
  /\ pstate' = [pstate EXCEPT ![p] = "beat"]
  /\ UNCHANGED <<write_pos, data, hb_age, pos, unwritten, cvars>>

\* last_heartbeat_ns.store(now_ns()) and return (IntraRingBuffer has no
\* heartbeat: for it this step is the return).
Beat(p) ==
  /\ pstate[p] = "beat"
  /\ hb_age' = 0
  /\ pstate' = [pstate EXCEPT ![p] = "idle"]
  /\ UNCHANGED <<write_pos, sequence, data, pos, unwritten, cvars>>
-----------------------------------------------------------------------------
(* make_cursor(), make_cursor_from_start() and pop() *)

MakeCursor(c) ==
  /\ cstate[c] = "none"
  /\ cursor' = [cursor EXCEPT ![c] = write_pos]
  /\ cstate' = [cstate EXCEPT ![c] = "idle"]
  /\ UNCHANGED <<shared, pvars, unread, out>>

MakeCursorFromStart(c) ==
  /\ cstate[c] = "none"
  /\ cursor' = [cursor EXCEPT ![c] = 0]
  /\ cstate' = [cstate EXCEPT ![c] = "idle"]
  /\ UNCHANGED <<shared, pvars, unread, out>>

\* Mutant: lands one slot short of the window.
FastForward_OneShort(k, wp) ==
  IF wp - k > Capacity THEN wp - Capacity - 1 ELSE k

\* A cursor more than Capacity behind moves to the oldest slot still held.
FastForward(k, wp) ==
  IF wp - k > Capacity THEN wp - Capacity ELSE k

\* load(write_pos), nothing new: return false.
PopEmpty(c) ==
  /\ cstate[c] = "idle"
  /\ cursor[c] >= write_pos
  /\ UNCHANGED vars

\* load(write_pos) and the fast-forward, which is local to the consumer.
PopBegin(c) ==
  /\ cstate[c] = "idle"
  /\ cursor[c] < write_pos
  /\ cursor' = [cursor EXCEPT ![c] = FastForward(@, write_pos)]
  /\ cstate' = [cstate EXCEPT ![c] = "check"]
  /\ UNCHANGED <<shared, pvars, unread, out>>

\* First load of the sequence; anything but the expected one returns false.
CheckSeq(c) ==
  /\ cstate[c] = "check"
  /\ IF sequence[Slot(cursor[c])] = Ready(cursor[c])
     THEN /\ cstate' = [cstate EXCEPT ![c] = "copy"]
          /\ unread' = [unread EXCEPT ![c] = Words]
     ELSE /\ cstate' = [cstate EXCEPT ![c] = "idle"]
          /\ UNCHANGED unread
  /\ UNCHANGED <<shared, pvars, cursor, out>>

\* One word of the memcpy.  An acquire load keeps nothing that precedes it
\* from taking effect later: only InOrder puts the copy before the re-check.
LoadWord(c, w) ==
  /\ cstate[c] = "copy" \/ (~InOrder /\ cstate[c] = "verified")
  /\ w \in unread[c]
  /\ out' = [out EXCEPT ![c][w] = data[Slot(cursor[c])][w]]
  /\ unread' = [unread EXCEPT ![c] = @ \ {w}]
  /\ UNCHANGED <<shared, pvars, cstate, cursor>>

\* Second load of the sequence: a torn read returns false.
Recheck(c) ==
  /\ cstate[c] = "copy"
  /\ InOrder => unread[c] = {}
  /\ cstate' = [cstate EXCEPT ![c] =
                  IF sequence[Slot(cursor[c])] = Ready(cursor[c])
                  THEN "verified" ELSE "idle"]
  /\ UNCHANGED <<shared, pvars, cursor, unread, out>>

\* ++cursor.pos; return true.
PopReturn(c) ==
  /\ cstate[c] = "verified"
  /\ unread[c] = {}
  /\ cursor' = [cursor EXCEPT ![c] = @ + 1]
  /\ cstate' = [cstate EXCEPT ![c] = "idle"]
  /\ UNCHANGED <<shared, pvars, unread, out>>
-----------------------------------------------------------------------------
(* producer_alive() *)

\* Time passes; ages beyond the timeout are all alike.
Tick ==
  /\ hb_age \in 0 .. Timeout
  /\ hb_age' = hb_age + 1
  /\ UNCHANGED <<write_pos, sequence, data, pvars, cvars>>

\* Mutant: only asks whether a message was ever written.
ProducerAlive_EverWrote == hb_age # Never

ProducerAlive == hb_age # Never /\ hb_age <= Timeout
-----------------------------------------------------------------------------
Push(p) ==
  \/ Claim(p) \/ MarkBusy(p) \/ MarkReady(p) \/ Beat(p)
  \/ \E w \in Words : StoreWord(p, w)

Pop(c) ==
  \/ PopEmpty(c) \/ PopBegin(c) \/ CheckSeq(c) \/ Recheck(c) \/ PopReturn(c)
  \/ \E w \in Words : LoadWord(c, w)

Next ==
  \/ \E p \in Producers : Push(p)
  \/ \E c \in Consumers : MakeCursor(c) \/ MakeCursorFromStart(c) \/ Pop(c)
  \/ Tick

Spec == Init /\ [][Next]_vars

\* Consumers poll for ever (Subscriber::spin) and time passes.  Producers
\* get no fairness: one may stop, or die, at any point of push().
LiveSpec == Spec /\ (\A c \in Consumers : WF_vars(Pop(c))) /\ WF_vars(Tick)
-----------------------------------------------------------------------------
(* Properties *)

\* What pop() hands to its caller is, word for word, the message pushed at
\* the cursor's position: never a mixture of two messages, never one that
\* push() has not finished ("torn read", shm_ring_buffer.hpp:199).
IntactDelivery ==
  \A c \in Consumers :
    cstate[c] = "verified" /\ unread[c] = {} =>
      \A w \in Words : out[c][w] = cursor[c]

\* The producer is inside push() and has taken its position.
Pushing(p) == pstate[p] \in {"claimed", "marked"}

\* The last Capacity messages are there to be read, all but the one that the
\* push in progress is replacing: the position that a lagging cursor is
\* moved to holds a message.
WindowReadable ==
  \A k \in write_pos - Capacity .. write_pos - 1 :
    k >= 0 /\ (\A p \in Producers : Pushing(p) => k # pos[p]) =>
      /\ sequence[Slot(k)] = Ready(k)
      /\ \A w \in Words : data[Slot(k)][w] = k

\* A ready message ahead of a polling consumer is received, skipped because
\* the consumer was overtaken, or overwritten - even if the producer stops
\* for ever inside a later push().
ReadyIsConsumed ==
  \A c \in Consumers, k \in 0 .. MaxPush - 1 :
    (cstate[c] # "none" /\ cursor[c] <= k /\ sequence[Slot(k)] = Ready(k))
      ~> (cursor[c] > k \/ sequence[Slot(k)] # Ready(k))

\* A producer that has stopped publishing is eventually, and for good,
\* reported dead by producer_alive().
DeadProducerReported == <>[]~ProducerAlive
=============================================================================
