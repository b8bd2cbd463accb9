----------------------------- MODULE ObjectPool -----------------------------
(***************************************************************************)
(* ObjectPool (object_pool.hpp): a Treiber stack of slot indices whose     *)
(* head carries a tag against the ABA problem.  One action per access to   *)
(* shared memory; next_ is a plain array, so its loads and stores are      *)
(* steps of their own that race with other threads.  The tag has 48 bits:  *)
(* MaxTag keeps it far below the width.                                    *)
(***************************************************************************)
EXTENDS Integers, Sequences

CONSTANTS
  Capacity,    \* slots of the pool
  Threads,     \* callers of acquire(), release() and available()
  MaxTag,      \* no acquire() begins once the tag has reached MaxTag
  Spurious     \* may compare_exchange_weak fail for no reason?

ASSUME PoolAssumption ==
  /\ Capacity \in Nat /\ Capacity >= 1
  /\ MaxTag \in Nat
  /\ Spurious \in BOOLEAN

VARIABLES
  head,       \* head_, unpacked: [idx, tag]
  next,       \* next_
  pc,         \* where each thread is
  old_head,   \* acquire(), release(): the local old_head
  new_idx,    \* acquire(): index of new_head; available(): idx
  mine,       \* release(): the slot given back
  count,      \* available(): count
  loans,      \* auxiliary: how many callers hold each slot
  free        \* auxiliary: the free list, from the head on

vars == <<head, next, pc, old_head, new_idx, mine, count, loans, free>>

Slots == 0 .. Capacity - 1
Null  == -1                                 \* kNullIndex, 0xFFFF in the code
Links == Slots \cup {Null}
Heads == [idx : Links, tag : Nat]

TypeOK ==
  /\ head \in Heads
  /\ next \in [Slots -> Links]
  /\ pc \in [Threads -> {"idle", "acq_next", "acq_cas", "rel_next", "rel_cas", "walk"}]
  /\ old_head \in [Threads -> Heads]
  /\ new_idx \in [Threads -> Links]
  /\ mine \in [Threads -> Slots]
  /\ count \in [Threads -> 0 .. Capacity + 1]
  /\ loans \in [Slots -> Nat]
  /\ free \in Seq(Slots)

\* The constructor: head -> 0 -> 1 -> ... -> Capacity-1 -> null, tag 0.
Init ==
  /\ head = [idx |-> 0, tag |-> 0]
  /\ next = [s \in Slots |-> IF s + 1 < Capacity THEN s + 1 ELSE Null]
  /\ pc = [t \in Threads |-> "idle"]
  /\ old_head = [t \in Threads |-> [idx |-> Null, tag |-> 0]]
  /\ new_idx = [t \in Threads |-> Null]
  /\ mine = [t \in Threads |-> 0]
  /\ count = [t \in Threads |-> 0]
  /\ loans = [s \in Slots |-> 0]
  /\ free = [i \in 1 .. Capacity |-> i - 1]

Goto(t, label) == pc' = [pc EXCEPT ![t] = label]
-----------------------------------------------------------------------------
(* acquire() *)

\* old_head has been loaded: an empty list returns nullptr.
AcquireTest(t, h) ==
  /\ old_head' = [old_head EXCEPT ![t] = h]
  /\ Goto(t, IF h.idx = Null THEN "idle" ELSE "acq_next")

AcquireBegin(t) ==
  /\ pc[t] = "idle"
  /\ head.tag < MaxTag
  /\ AcquireTest(t, head)
  /\ UNCHANGED <<head, next, new_idx, mine, count, loans, free>>

\* next_[idx], read while another thread may own the slot and write it.
AcquireNext(t) ==
  /\ pc[t] = "acq_next"
  /\ new_idx' = [new_idx EXCEPT ![t] = next[old_head[t].idx]]
  /\ Goto(t, "acq_cas")
  /\ UNCHANGED <<head, next, old_head, mine, count, loans, free>>

\* Mutant: the tag stays, so only the index is compared.
AcquireCas_NoTag(t) ==
  /\ pc[t] = "acq_cas"
  /\ head.idx = old_head[t].idx
  /\ head' = [head EXCEPT !.idx = new_idx[t]]
  /\ loans' = [loans EXCEPT ![old_head[t].idx] = @ + 1]
  /\ free' = SubSeq(free, 2, Len(free))
  /\ Goto(t, "idle")
  /\ UNCHANGED <<next, old_head, new_idx, mine, count>>

\* compare_exchange_weak succeeds: the slot is the caller's.
AcquireCas(t) ==
  /\ pc[t] = "acq_cas"
  /\ head = old_head[t]
  /\ head' = [idx |-> new_idx[t], tag |-> head.tag + 1]
  /\ loans' = [loans EXCEPT ![old_head[t].idx] = @ + 1]
  /\ free' = SubSeq(free, 2, Len(free))
  /\ Goto(t, "idle")
  /\ UNCHANGED <<next, old_head, new_idx, mine, count>>

\* Mutant: the retry keeps the old head.
AcquireCasFails_KeepsOld(t) ==
  /\ pc[t] = "acq_cas"
  /\ head # old_head[t] \/ Spurious
  /\ Goto(t, "acq_next")
  /\ UNCHANGED <<head, next, old_head, new_idx, mine, count, loans, free>>

\* ... or fails, and leaves the current head in old_head.
AcquireCasFails(t) ==
  /\ pc[t] = "acq_cas"
  /\ head # old_head[t] \/ Spurious
  /\ AcquireTest(t, head)
  /\ UNCHANGED <<head, next, new_idx, mine, count, loans, free>>
-----------------------------------------------------------------------------
(* release() *)

\* Called once for a slot that is out, by whichever thread has it now.
ReleaseBegin(t, s) ==
  /\ pc[t] = "idle"
  /\ loans[s] > 0
  /\ loans' = [loans EXCEPT ![s] = @ - 1]
  /\ mine' = [mine EXCEPT ![t] = s]
  /\ old_head' = [old_head EXCEPT ![t] = head]
  /\ Goto(t, "rel_next")
  /\ UNCHANGED <<head, next, new_idx, count, free>>

ReleaseNext(t) ==
  /\ pc[t] = "rel_next"
  /\ next' = [next EXCEPT ![mine[t]] = old_head[t].idx]
  /\ Goto(t, "rel_cas")
  /\ UNCHANGED <<head, old_head, new_idx, mine, count, loans, free>>

ReleaseCas(t) ==
  /\ pc[t] = "rel_cas"
  /\ head = old_head[t]
  /\ head' = [idx |-> mine[t], tag |-> head.tag + 1]
  /\ free' = <<mine[t]>> \o free
  /\ Goto(t, "idle")
  /\ UNCHANGED <<next, old_head, new_idx, mine, count, loans>>

ReleaseCasFails(t) ==
  /\ pc[t] = "rel_cas"
  /\ head # old_head[t] \/ Spurious
  /\ old_head' = [old_head EXCEPT ![t] = head]
  /\ Goto(t, "rel_next")
  /\ UNCHANGED <<head, next, new_idx, mine, count, loans, free>>
-----------------------------------------------------------------------------
(* available() *)

\* The code keeps the index only; the tag is kept for WalkExactWhenQuiet.
WalkBegin(t) ==
  /\ pc[t] = "idle"
  /\ old_head' = [old_head EXCEPT ![t] = head]
  /\ new_idx' = [new_idx EXCEPT ![t] = head.idx]
  /\ count' = [count EXCEPT ![t] = 0]
  /\ Goto(t, "walk")
  /\ UNCHANGED <<head, next, mine, loans, free>>

\* The bound keeps a walk over a list that changes under it finite.
WalkGoesOn(t) == new_idx[t] # Null /\ count[t] <= Capacity

\* Mutant: the link is followed before the slot is counted.
WalkStep_Late(t) ==
  /\ pc[t] = "walk"
  /\ WalkGoesOn(t)
  /\ count' = [count EXCEPT ![t] = IF next[new_idx[t]] = Null THEN @ ELSE @ + 1]
  /\ new_idx' = [new_idx EXCEPT ![t] = next[@]]
  /\ UNCHANGED <<head, next, pc, old_head, mine, loans, free>>

WalkStep(t) ==
  /\ pc[t] = "walk"
  /\ WalkGoesOn(t)
  /\ count' = [count EXCEPT ![t] = @ + 1]
  /\ new_idx' = [new_idx EXCEPT ![t] = next[@]]
  /\ UNCHANGED <<head, next, pc, old_head, mine, loans, free>>

WalkEnd(t) ==
  /\ pc[t] = "walk"
  /\ ~WalkGoesOn(t)
  /\ Goto(t, "idle")
  /\ UNCHANGED <<head, next, old_head, new_idx, mine, count, loans, free>>
-----------------------------------------------------------------------------
Step(t) ==
  \/ AcquireNext(t) \/ AcquireCas(t) \/ AcquireCasFails(t)
  \/ ReleaseNext(t) \/ ReleaseCas(t) \/ ReleaseCasFails(t)
  \/ WalkStep(t) \/ WalkEnd(t)

Next ==
  \E t \in Threads :
    \/ Step(t) \/ AcquireBegin(t) \/ WalkBegin(t)
    \/ \E s \in Slots : ReleaseBegin(t, s)

Spec == Init /\ [][Next]_vars

\* Threads that are inside an operation keep running, and a weak CAS that
\* could succeed again and again does not fail spuriously every time.
LiveSpec ==
  /\ Spec
  /\ \A t \in Threads : WF_vars(Step(t)) /\ SF_vars(AcquireCas(t)) /\ SF_vars(ReleaseCas(t))
-----------------------------------------------------------------------------
(* Properties *)

\* Slots on their way back: release() has been called, its CAS not done.
Returning(t) == pc[t] \in {"rel_next", "rel_cas"}

Listed == {free[i] : i \in DOMAIN free}

\* The links in memory are the free list: from the head, through next_, to
\* the null index.  This is what the ABA tag is for (object_pool.hpp:25).
ListIntact ==
  /\ head.idx = IF free = <<>> THEN Null ELSE free[1]
  /\ \A i \in DOMAIN free :
       next[free[i]] = IF i = Len(free) THEN Null ELSE free[i + 1]

\* Every slot is in exactly one place: once in the free list, or with one
\* caller, or on its way back.  So acquire() never hands out a slot that is
\* in use, and none is lost.
EachSlotOnce ==
  /\ \A i, j \in DOMAIN free : free[i] = free[j] => i = j
  /\ \A s \in Slots :
       LET returning == {t \in Threads : Returning(t) /\ mine[t] = s}
       IN  \/ s \in Listed /\ loans[s] = 0 /\ returning = {}
           \/ s \notin Listed /\ loans[s] = 1 /\ returning = {}
           \/ s \notin Listed /\ loans[s] = 0 /\ \E t \in Threads : returning = {t}

\* The slots that the links in memory lead to.
Link[n \in 0 .. Capacity] ==
  IF n = 0 THEN head.idx
  ELSE IF Link[n - 1] = Null THEN Null ELSE next[Link[n - 1]]

Pool == INSTANCE SlotPool WITH
  free <- {Link[n] : n \in 0 .. Capacity} \ {Null},
  lent <- {s \in Slots : loans[s] > 0 \/ \E t \in Threads : Returning(t) /\ mine[t] = s}

\* The pool behaves as a set of slots, each free or lent to one caller.
ImplementsPool == Pool!PoolSpec

\* available() is exact when no acquire() or release() succeeded during the
\* walk, whatever they did to next_ meanwhile.
WalkExactWhenQuiet ==
  \A t \in Threads :
    pc[t] = "walk" /\ ~WalkGoesOn(t) /\ head.tag = old_head[t].tag => count[t] = Len(free)

\* Lock freedom: as only finitely many operations succeed, a thread that
\* retried for ever would do so without any other thread making progress.
OperationsReturn == \A t \in Threads : pc[t] # "idle" ~> pc[t] = "idle"
=============================================================================
