---------------------------- MODULE LoanedSample ----------------------------
(***************************************************************************)
(* The loan path: Publisher::loan() and publish(LoanType&&) (publisher.hpp) *)
(* with the RAII handle LoanedSample (loaned_sample.hpp) over the pool that *)
(* SlotPool specifies and ObjectPool implements.  Handles live in any      *)
(* thread; each member function of a handle touches that handle, its slot  *)
(* and the pool, so one call is one step - except publish(), during which  *)
(* other threads go on.                                                    *)
(***************************************************************************)
EXTENDS SlotPool

CONSTANTS
  Handles,     \* LoanedSample objects
  Payloads,    \* what a loan is filled with
  MaxFailures  \* bound on pool_exhaustions_

Nil == "nil"

ASSUME LoanAssumption == MaxFailures \in Nat /\ Nil \notin Slots

VARIABLES
  hstate,        \* unborn, alive, or inside publish()
  ptr,           \* ptr_ (pool_ is null exactly when ptr_ is)
  raw,           \* pointers handed out by release_raw()
  payload,       \* the contents of the pool's slots
  exhaustions,   \* pool_exhaustions_
  filled         \* auxiliary: what the holder of a handle wrote through it

hvars == <<hstate, ptr, raw, payload, exhaustions, filled>>
lvars == <<pvars, hvars>>

LoanTypeOK ==
  /\ free \subseteq Slots /\ lent \subseteq Slots /\ raw \subseteq Slots
  /\ hstate \in [Handles -> {"unborn", "alive", "publishing"}]
  /\ ptr \in [Handles -> Slots \cup {Nil}]
  /\ payload \in [Slots -> Payloads \cup {Nil}]
  /\ exhaustions \in 0 .. MaxFailures
  /\ filled \in [Handles -> Payloads \cup {Nil}]

LoanInit ==
  /\ PoolInit
  /\ hstate = [h \in Handles |-> "unborn"]
  /\ ptr = [h \in Handles |-> Nil]
  /\ raw = {}
  /\ payload = [s \in Slots |-> Nil]
  /\ exhaustions = 0
  /\ filled = [h \in Handles |-> Nil]

\* pool_->release(ptr): the pool is told to take the slot back, lent or not.
PoolTakes(s) ==
  /\ free' = free \cup {s}
  /\ lent' = lent \ {s}

\* do_release() up to the assignments that empty the handle.
DoRelease(h) == IF ptr[h] = Nil THEN UNCHANGED pvars ELSE PoolTakes(ptr[h])
-----------------------------------------------------------------------------
\* loan() on a pool with a free slot; the slot keeps its old contents.
Loan(h, s) ==
  /\ hstate[h] = "unborn"
  /\ Acquire(s)
  /\ hstate' = [hstate EXCEPT ![h] = "alive"]
  /\ ptr' = [ptr EXCEPT ![h] = s]
  /\ filled' = [filled EXCEPT ![h] = payload[s]]
  /\ UNCHANGED <<raw, payload, exhaustions>>

\* loan() on an exhausted pool: counted, and an empty handle.
LoanFails(h) ==
  /\ hstate[h] = "unborn"
  /\ free = {}
  /\ exhaustions < MaxFailures
  /\ exhaustions' = exhaustions + 1
  /\ hstate' = [hstate EXCEPT ![h] = "alive"]
  /\ UNCHANGED <<pvars, ptr, raw, payload, filled>>

\* *loan = v
Fill(h, v) ==
  /\ hstate[h] = "alive" /\ ptr[h] # Nil
  /\ payload' = [payload EXCEPT ![ptr[h]] = v]
  /\ filled' = [filled EXCEPT ![h] = v]
  /\ UNCHANGED <<pvars, hstate, ptr, raw, exhaustions>>

\* LoanedSample g(std::move(h))
MoveConstruct(g, h) ==
  /\ hstate[g] = "unborn" /\ hstate[h] = "alive"
  /\ hstate' = [hstate EXCEPT ![g] = "alive"]
  /\ ptr' = [ptr EXCEPT ![g] = ptr[h], ![h] = Nil]
  /\ filled' = [filled EXCEPT ![g] = filled[h]]
  /\ UNCHANGED <<pvars, raw, payload, exhaustions>>

\* Mutant: the loan that g held is forgotten.
MoveAssign_Leaks(g, h) ==
  /\ hstate[g] = "alive" /\ hstate[h] = "alive" /\ g # h
  /\ ptr' = [ptr EXCEPT ![g] = ptr[h], ![h] = Nil]
  /\ filled' = [filled EXCEPT ![g] = filled[h]]
  /\ UNCHANGED <<pvars, hstate, raw, payload, exhaustions>>

\* g = std::move(h); self-assignment does nothing.
MoveAssign(g, h) ==
  /\ hstate[g] = "alive" /\ hstate[h] = "alive" /\ g # h
  /\ DoRelease(g)
  /\ ptr' = [ptr EXCEPT ![g] = ptr[h], ![h] = Nil]
  /\ filled' = [filled EXCEPT ![g] = filled[h]]
  /\ UNCHANGED <<hstate, raw, payload, exhaustions>>

Reset(h) ==
  /\ hstate[h] = "alive"
  /\ DoRelease(h)
  /\ ptr' = [ptr EXCEPT ![h] = Nil]
  /\ UNCHANGED <<hstate, raw, payload, exhaustions, filled>>

Destroy(h) ==
  /\ hstate[h] = "alive"
  /\ DoRelease(h)
  /\ ptr' = [ptr EXCEPT ![h] = Nil]
  /\ hstate' = [hstate EXCEPT ![h] = "unborn"]
  /\ UNCHANGED <<raw, payload, exhaustions, filled>>

ReleaseRaw(h) ==
  /\ hstate[h] = "alive" /\ ptr[h] # Nil
  /\ raw' = raw \cup {ptr[h]}
  /\ ptr' = [ptr EXCEPT ![h] = Nil]
  /\ UNCHANGED <<pvars, hstate, payload, exhaustions, filled>>

\* "The caller takes responsibility for calling pool.release()."
CallerReleases(s) ==
  /\ s \in raw
  /\ raw' = raw \ {s}
  /\ PoolTakes(s)
  /\ UNCHANGED <<hstate, ptr, payload, exhaustions, filled>>
-----------------------------------------------------------------------------
(* publish(LoanType&&); for an empty handle it returns at once *)

\* Mutant: the slot goes back to the pool before it is read.
PublishBegin_ResetsFirst(h) ==
  /\ hstate[h] = "alive" /\ ptr[h] # Nil
  /\ hstate' = [hstate EXCEPT ![h] = "publishing"]
  /\ PoolTakes(ptr[h])
  /\ UNCHANGED <<ptr, raw, payload, exhaustions, filled>>

\* From here on the slot is read, for the checksum and again for the copy.
PublishBegin(h) ==
  /\ hstate[h] = "alive" /\ ptr[h] # Nil
  /\ hstate' = [hstate EXCEPT ![h] = "publishing"]
  /\ UNCHANGED <<pvars, ptr, raw, payload, exhaustions, filled>>

\* ring_.push() is done; loan_sample.reset().
PublishEnd(h) ==
  /\ hstate[h] = "publishing"
  /\ DoRelease(h)
  /\ ptr' = [ptr EXCEPT ![h] = Nil]
  /\ hstate' = [hstate EXCEPT ![h] = "alive"]
  /\ UNCHANGED <<raw, payload, exhaustions, filled>>
-----------------------------------------------------------------------------
LoanNext ==
  \/ \E h \in Handles :
       \/ LoanFails(h) \/ Reset(h) \/ Destroy(h) \/ ReleaseRaw(h)
       \/ PublishBegin(h) \/ PublishEnd(h)
       \/ \E s \in Slots : Loan(h, s)
       \/ \E v \in Payloads : Fill(h, v)
       \/ \E g \in Handles : MoveConstruct(g, h) \/ MoveAssign(g, h)
  \/ \E s \in Slots : CallerReleases(s)

LoanSpec == LoanInit /\ [][LoanNext]_lvars
-----------------------------------------------------------------------------
Held(h) == ptr[h] # Nil

\* A slot that is out has exactly one owner - one handle, or the caller of
\* release_raw() - and every slot that has none is in the pool: no path
\* through moves, resets, destructors and publish() releases a slot twice
\* or leaks it (loaned_sample.hpp:85).
OneOwner ==
  /\ \A g, h \in Handles : Held(h) /\ ptr[g] = ptr[h] => g = h
  /\ \A h \in Handles : Held(h) => ptr[h] \notin raw
  /\ lent = raw \cup {ptr[h] : h \in {g \in Handles : Held(g)}}
  /\ free = Slots \ lent

\* A slot holds what the owner of its handle wrote, all the while that it
\* is on loan: publish(), which reads the slot twice (publisher.hpp:103-104)
\* while other threads use the pool, sends a payload that its checksum fits.
SlotStableOnLoan ==
  \A h \in Handles : Held(h) => payload[ptr[h]] = filled[h]
=============================================================================
