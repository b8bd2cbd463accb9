------------------------------ MODULE MpmcRing ------------------------------
(***************************************************************************)
(* MpmcRingBuffer (mpmc_ring_buffer.hpp): the bounded queue of Vyukov for  *)
(* many producers and many consumers.  One action per access to a shared   *)
(* location.  A slot's payload is moved in one step: SlotExclusive shows   *)
(* that no other thread touches the slot meanwhile.  Positions are         *)
(* uint64_t in the code; MaxPush keeps them far below the width.           *)
(***************************************************************************)
EXTENDS Integers, Sequences

CONSTANTS
  Capacity,    \* slots of the ring
  Items,       \* payloads
  None,        \* no payload: zero-initialised storage
  Producers, Consumers, Observers,
               \* threads that call push(), pop(), approx_size(); may overlap
  MaxPush,     \* no push() begins once MaxPush have been claimed
  Spurious     \* may compare_exchange_weak fail for no reason?

\* The static_assert asks for a power of two, so that pos & kMask is the
\* remainder modulo Capacity; nothing else depends on it.
ASSUME MpmcAssumption ==
  /\ Capacity \in Nat /\ Capacity >= 2
  /\ None \notin Items
  /\ MaxPush \in Nat
  /\ Spurious \in BOOLEAN

VARIABLES
  write_pos, read_pos,   \* write_pos_, read_pos_
  sequence,              \* Slot::sequence
  data,                  \* Slot::data
  pc,                    \* where each thread is
  pos,                   \* push(), pop(): the local pos; approx_size(): w
  item,                  \* push(): the argument
  out,                   \* pop(): the caller's buffer
  size,                  \* the last approx_size() of each thread
  pushed                 \* auxiliary: the item claimed at each position

shared == <<write_pos, read_pos, sequence, data>>
vars == <<shared, pc, pos, item, out, size, pushed>>

Threads == Producers \cup Consumers \cup Observers
Slots   == 0 .. Capacity - 1
Slot(k) == k % Capacity              \* slots_[pos & kMask]

PushPC == {"push_seq", "push_cas", "push_reload", "push_copy", "push_ready"}
PopPC  == {"pop_seq", "pop_cas", "pop_reload", "pop_copy", "pop_free"}

TypeOK ==
  /\ write_pos \in Nat /\ read_pos \in Nat /\ write_pos - read_pos \in 0 .. Capacity
  /\ sequence \in [Slots -> Nat]
  /\ data \in [Slots -> Items \cup {None}]
  /\ pc \in [Threads -> {"idle", "size"} \cup PushPC \cup PopPC]
  /\ pos \in [Threads -> Nat]
  /\ item \in [Threads -> Items \cup {None}]
  /\ out \in [Threads -> Items \cup {None}]
  /\ size \in [Threads -> Nat]
  /\ pushed \in Seq(Items)

\* The constructor seeds each slot's sequence with its index.
Init ==
  /\ write_pos = 0 /\ read_pos = 0
  /\ sequence = [s \in Slots |-> s]
  /\ data = [s \in Slots |-> None]
  /\ pc = [t \in Threads |-> "idle"]
  /\ pos = [t \in Threads |-> 0]
  /\ item = [t \in Threads |-> None]
  /\ out = [t \in Threads |-> None]
  /\ size = [t \in Threads |-> 0]
  /\ pushed = <<>>

Goto(t, label) == pc' = [pc EXCEPT ![t] = label]

\* The slot's sequence minus the one the thread is waiting for.
Diff(t, expected) == sequence[Slot(pos[t])] - expected
-----------------------------------------------------------------------------
(* push() *)

PushBegin(t, v) ==
  /\ pc[t] = "idle"
  /\ write_pos < MaxPush
  /\ item' = [item EXCEPT ![t] = v]
  /\ pos' = [pos EXCEPT ![t] = write_pos]
  /\ Goto(t, "push_seq")
  /\ UNCHANGED <<shared, out, size, pushed>>

\* Mutant: a producer that fell behind retries without reloading.
PushSeq_NoReload(t) ==
  /\ pc[t] = "push_seq"
  /\ Goto(t, IF Diff(t, pos[t]) = 0 THEN "push_cas"
             ELSE IF Diff(t, pos[t]) < 0 THEN "idle"
             ELSE "push_seq")
  /\ UNCHANGED <<shared, pos, item, out, size, pushed>>

\* Mutant: a full ring is overwritten.
PushSeq_Overwrites(t) ==
  /\ pc[t] = "push_seq"
  /\ Goto(t, IF Diff(t, pos[t]) <= 0 THEN "push_cas" ELSE "push_reload")
  /\ UNCHANGED <<shared, pos, item, out, size, pushed>>

\* sequence.load(): free for this round, full, or another producer ahead.
PushSeq(t) ==
  /\ pc[t] = "push_seq"
  /\ Goto(t, IF Diff(t, pos[t]) = 0 THEN "push_cas"
             ELSE IF Diff(t, pos[t]) < 0 THEN "idle"
             ELSE "push_reload")
  /\ UNCHANGED <<shared, pos, item, out, size, pushed>>

PushReload(t) ==
  /\ pc[t] = "push_reload"
  /\ pos' = [pos EXCEPT ![t] = write_pos]
  /\ Goto(t, "push_seq")
  /\ UNCHANGED <<shared, item, out, size, pushed>>

\* Mutant: a plain store where the code has a compare-and-swap.
PushCas_Store(t) ==
  /\ pc[t] = "push_cas"
  /\ write_pos' = pos[t] + 1
  /\ pushed' = Append(pushed, item[t])
  /\ Goto(t, "push_copy")
  /\ UNCHANGED <<read_pos, sequence, data, pos, item, out, size>>

\* compare_exchange_weak(pos, pos + 1) succeeds: the position is claimed.
PushCas(t) ==
  /\ pc[t] = "push_cas"
  /\ write_pos = pos[t]
  /\ write_pos' = write_pos + 1
  /\ pushed' = Append(pushed, item[t])
  /\ Goto(t, "push_copy")
  /\ UNCHANGED <<read_pos, sequence, data, pos, item, out, size>>

\* ... or fails, and leaves the current value in pos.
PushCasFails(t) ==
  /\ pc[t] = "push_cas"
  /\ write_pos # pos[t] \/ Spurious
  /\ pos' = [pos EXCEPT ![t] = write_pos]
  /\ Goto(t, "push_seq")
  /\ UNCHANGED <<shared, item, out, size, pushed>>

\* Mutant: the memcpy is left out.
PushCopy_Skipped(t) ==
  /\ pc[t] = "push_copy"
  /\ Goto(t, "push_ready")
  /\ UNCHANGED <<shared, pos, item, out, size, pushed>>

PushCopy(t) ==
  /\ pc[t] = "push_copy"
  /\ data' = [data EXCEPT ![Slot(pos[t])] = item[t]]
  /\ Goto(t, "push_ready")
  /\ UNCHANGED <<write_pos, read_pos, sequence, pos, item, out, size, pushed>>

\* sequence.store(pos + 1); return true.
PushReady(t) ==
  /\ pc[t] = "push_ready"
  /\ sequence' = [sequence EXCEPT ![Slot(pos[t])] = pos[t] + 1]
  /\ Goto(t, "idle")
  /\ UNCHANGED <<write_pos, read_pos, data, pos, item, out, size, pushed>>
-----------------------------------------------------------------------------
(* pop() *)

PopBegin(t) ==
  /\ pc[t] = "idle"
  /\ pos' = [pos EXCEPT ![t] = read_pos]
  /\ Goto(t, "pop_seq")
  /\ UNCHANGED <<shared, item, out, size, pushed>>

\* Mutant: a slot that another consumer has taken counts as "empty".
PopSeq_EmptyWhenAhead(t) ==
  /\ pc[t] = "pop_seq"
  /\ Goto(t, IF Diff(t, pos[t] + 1) = 0 THEN "pop_cas" ELSE "idle")
  /\ UNCHANGED <<shared, pos, item, out, size, pushed>>

\* sequence.load(): ready to read, empty, or another consumer ahead.
PopSeq(t) ==
  /\ pc[t] = "pop_seq"
  /\ Goto(t, IF Diff(t, pos[t] + 1) = 0 THEN "pop_cas"
             ELSE IF Diff(t, pos[t] + 1) < 0 THEN "idle"
             ELSE "pop_reload")
  /\ UNCHANGED <<shared, pos, item, out, size, pushed>>

PopReload(t) ==
  /\ pc[t] = "pop_reload"
  /\ pos' = [pos EXCEPT ![t] = read_pos]
  /\ Goto(t, "pop_seq")
  /\ UNCHANGED <<shared, item, out, size, pushed>>

PopCas(t) ==
  /\ pc[t] = "pop_cas"
  /\ read_pos = pos[t]
  /\ read_pos' = read_pos + 1
  /\ Goto(t, "pop_copy")
  /\ UNCHANGED <<write_pos, sequence, data, pos, item, out, size, pushed>>

PopCasFails(t) ==
  /\ pc[t] = "pop_cas"
  /\ read_pos # pos[t] \/ Spurious
  /\ pos' = [pos EXCEPT ![t] = read_pos]
  /\ Goto(t, "pop_seq")
  /\ UNCHANGED <<shared, item, out, size, pushed>>

PopCopy(t) ==
  /\ pc[t] = "pop_copy"
  /\ out' = [out EXCEPT ![t] = data[Slot(pos[t])]]
  /\ Goto(t, "pop_free")
  /\ UNCHANGED <<shared, pos, item, size, pushed>>

\* sequence.store(pos + Capacity); return true.
PopFree(t) ==
  /\ pc[t] = "pop_free"
  /\ sequence' = [sequence EXCEPT ![Slot(pos[t])] = pos[t] + Capacity]
  /\ Goto(t, "idle")
  /\ UNCHANGED <<write_pos, read_pos, data, pos, item, out, size, pushed>>
-----------------------------------------------------------------------------
(* approx_size() *)

SizeBegin(t) ==
  /\ pc[t] = "idle"
  /\ pos' = [pos EXCEPT ![t] = write_pos]
  /\ Goto(t, "size")
  /\ UNCHANGED <<shared, item, out, size, pushed>>

\* Mutant: w - r without the test, an unsigned difference that wraps.
SizeEnd_Wraps(t) ==
  /\ pc[t] = "size"
  /\ size' = [size EXCEPT ![t] = (pos[t] - read_pos) % 2^16]
  /\ Goto(t, "idle")
  /\ UNCHANGED <<shared, pos, item, out, pushed>>

\* Consumers may have passed the w that was loaded first.
SizeEnd(t) ==
  /\ pc[t] = "size"
  /\ size' = [size EXCEPT ![t] = IF pos[t] >= read_pos THEN pos[t] - read_pos ELSE 0]
  /\ Goto(t, "idle")
  /\ UNCHANGED <<shared, pos, item, out, pushed>>
-----------------------------------------------------------------------------
Push(t) ==
  \/ PushSeq(t) \/ PushReload(t) \/ PushCas(t) \/ PushCasFails(t)
  \/ PushCopy(t) \/ PushReady(t)

Pop(t) ==
  \/ PopSeq(t) \/ PopReload(t) \/ PopCas(t) \/ PopCasFails(t)
  \/ PopCopy(t) \/ PopFree(t)

Next ==
  \/ \E t \in Producers : Push(t) \/ \E v \in Items : PushBegin(t, v)
  \/ \E t \in Consumers : Pop(t) \/ PopBegin(t)
  \/ \E t \in Observers : SizeEnd(t) \/ SizeBegin(t)

Spec == Init /\ [][Next]_vars

\* Threads that are inside an operation keep running.
LiveSpec == Spec /\ \A t \in Threads : WF_vars(Push(t) \/ Pop(t) \/ SizeEnd(t))
-----------------------------------------------------------------------------
(* Properties *)

Writing(t) == pc[t] \in {"push_copy", "push_ready"}
Reading(t) == pc[t] \in {"pop_copy", "pop_free"}

\* From its compare-and-swap to its sequence store a thread has the slot to
\* itself: the two memcpys never race (mpmc_ring_buffer.hpp:88, :120).
SlotExclusive ==
  \A t, u \in Threads :
    t # u /\ (Writing(t) \/ Reading(t)) /\ (Writing(u) \/ Reading(u)) =>
      Slot(pos[t]) # Slot(pos[u])

\* pop() hands out, at each position, the item that push() claimed it for.
PopsWhatWasPushed ==
  \A t \in Threads : pc[t] = "pop_free" => out[t] = pushed[pos[t] + 1]

\* The items in the ring, oldest first, from the moment push() claims their
\* position to the moment pop() claims it.
Fifo == INSTANCE BoundedFifo WITH
  queue <- [i \in 1 .. write_pos - read_pos |-> pushed[read_pos + i]],
  taken <- [t \in Threads |-> IF pc[t] = "pop_copy" THEN data[Slot(pos[t])] ELSE out[t]]

\* The ring is a bounded FIFO queue: nothing is lost, duplicated, reordered
\* or invented, and never more than Capacity items are in it.
ImplementsFifo == Fifo!FifoSpec

\* approx_size() never exceeds the capacity, stale as it may be: w is loaded
\* before r, and the order of the two loads matters.
SizeBounded == \A t \in Threads : size[t] <= Capacity

\* When push() returns false all Capacity slots are taken, by items or by a
\* consumer that has not yet given back the slot needed next.
PushFailsOnlyWhenFull ==
  [][\A t \in Producers : pc[t] = "push_seq" /\ pc'[t] = "idle" =>
       \/ write_pos - read_pos = Capacity
       \/ \E u \in Threads : Reading(u) /\ pos[u] = write_pos - Capacity]_vars

\* When pop() returns false the ring is empty, or the oldest item is still
\* being written by its producer.
PopFailsOnlyWhenEmpty ==
  [][\A t \in Consumers : pc[t] = "pop_seq" /\ pc'[t] = "idle" =>
       \/ write_pos = read_pos
       \/ \E u \in Threads : Writing(u) /\ pos[u] = read_pos]_vars

\* Lock freedom: as only finitely many pushes happen, a thread that retried
\* for ever would do so without any other thread making progress.
OperationsReturn == \A t \in Threads : pc[t] # "idle" ~> pc[t] = "idle"

\* The ring's variables keep their types, and no two threads are in one slot.
RingInv == TypeOK /\ SlotExclusive

\* Neither operation gives up without cause (mpmc_ring_buffer.hpp:94, :126).
FailsForCause == PushFailsOnlyWhenFull /\ PopFailsOnlyWhenEmpty
=============================================================================
