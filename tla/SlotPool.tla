------------------------------ MODULE SlotPool ------------------------------
(***************************************************************************)
(* What ObjectPool promises its callers: a set of slots, each free or out. *)
(* acquire() hands out some free slot and release() takes one back.        *)
(***************************************************************************)
EXTENDS Integers

CONSTANT Slots

VARIABLES
  free,   \* slots in the pool
  lent    \* slots handed out

pvars == <<free, lent>>

PoolInit == free = Slots /\ lent = {}

Acquire(s) ==
  /\ s \in free
  /\ free' = free \ {s}
  /\ lent' = lent \cup {s}

Release(s) ==
  /\ s \in lent
  /\ lent' = lent \ {s}
  /\ free' = free \cup {s}

PoolNext == \E s \in Slots : Acquire(s) \/ Release(s)

PoolSpec == PoolInit /\ [][PoolNext]_pvars
=============================================================================
