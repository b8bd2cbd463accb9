---------------------------- MODULE BoundedFifo -----------------------------
(***************************************************************************)
(* What MpmcRingBuffer promises its callers: a first-in first-out queue of *)
(* at most Capacity items.  An item enters when a push takes effect and    *)
(* leaves, into the hands of exactly one thread, when a pop takes effect.  *)
(***************************************************************************)
EXTENDS Integers, Sequences

CONSTANTS Capacity, Items, Threads, None

VARIABLES
  queue,   \* the items, oldest first
  taken    \* the item that each thread's last pop took

fvars == <<queue, taken>>

FifoInit ==
  /\ queue = <<>>
  /\ taken = [t \in Threads |-> None]

Enqueue(v) ==
  /\ Len(queue) < Capacity
  /\ queue' = Append(queue, v)
  /\ UNCHANGED taken

Dequeue(t) ==
  /\ queue # <<>>
  /\ taken' = [taken EXCEPT ![t] = Head(queue)]
  /\ queue' = Tail(queue)

FifoNext ==
  \/ \E v \in Items : Enqueue(v)
  \/ \E t \in Threads : Dequeue(t)

FifoSpec == FifoInit /\ [][FifoNext]_fvars
=============================================================================
