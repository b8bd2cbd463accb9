--------------------------- MODULE SpmcRingProofs ---------------------------
(***************************************************************************)
(* Proofs about SpmcRing and about the channel over it, ShmChannel, for    *)
(* every capacity, payload size, number of consumers and number of pushes. *)
(***************************************************************************)
EXTENDS ShmChannel, FiniteSetTheorems, WellFoundedInduction, TLAPS

\* No multiple of n lies strictly between 0 and n.
LEMMA NoMultipleBetween ==
  ASSUME NEW n \in Nat, NEW d \in Int, 0 < n * d, n * d < n
  PROVE  FALSE
<1>1. CASE d <= 0
  <2>1. n * (-d) >= 0
    BY <1>1
  <2>2. QED
    BY <2>1
<1>2. CASE d >= 1
  <2>1. n * (d - 1) >= 0
    BY <1>2
  <2>2. QED
    BY <2>1
<1>3. QED
  BY <1>1, <1>2

\* Two positions less than n apart have different indices (slots_[pos & kMask]).
LEMMA IndexInjective ==
  ASSUME NEW n \in Nat \ {0}, NEW j \in Int, NEW k \in Int, j < k, k - j < n
  PROVE  j % n # k % n
<1> DEFINE qj == j \div n  qk == k \div n
<1>1. /\ qj \in Int /\ qk \in Int /\ j % n \in Int /\ k % n \in Int
      /\ j = n * qj + (j % n) /\ k = n * qk + (k % n)
  OBVIOUS
<1> HIDE DEF qj, qk
<1>2. SUFFICES ASSUME j % n = k % n PROVE FALSE
  OBVIOUS
<1>3. k - j = n * (qk - qj)
  BY <1>1, <1>2
<1>4. 0 < n * (qk - qj) /\ n * (qk - qj) < n
  BY <1>3
<1>5. QED
  BY <1>1, <1>4, NoMultipleBetween

\* pos & kMask is always the index of a slot.
LEMMA SlotInRange == \A k \in Int : Slot(k) \in Slots
  BY RingAssumption DEF Slot, Slots

\* Two positions less than Capacity apart never share a slot.
LEMMA SlotInjective ==
  ASSUME NEW j \in Int, NEW k \in Int, j < k, k - j < Capacity
  PROVE  Slot(j) # Slot(k)
<1>1. Capacity \in Nat \ {0}
  BY RingAssumption
<1>2. QED
  BY <1>1, IndexInjective DEF Slot
-----------------------------------------------------------------------------
\* Every action keeps the variables of SpmcRing in their types.
THEOREM TypeCorrect == Spec => []TypeOK
<1>1. Init => TypeOK
  BY RingAssumption DEF Init, TypeOK, Blank, Never, Slots
<1>2. TypeOK /\ [Next]_vars => TypeOK'
  <2> SUFFICES ASSUME TypeOK, [Next]_vars PROVE TypeOK'
    OBVIOUS
  <2> USE RingAssumption, SlotInRange DEF TypeOK
  <2>1. ASSUME NEW p \in Producers, Claim(p) PROVE TypeOK'
    BY <2>1 DEF Claim, cvars
  <2>2. ASSUME NEW p \in Producers, MarkBusy(p) PROVE TypeOK'
    BY <2>2 DEF MarkBusy, cvars, Busy
  <2>3. ASSUME NEW p \in Producers, NEW w \in Words, StoreWord(p, w) PROVE TypeOK'
    BY <2>3 DEF StoreWord, cvars
  <2>4. ASSUME NEW p \in Producers, MarkReady(p) PROVE TypeOK'
    BY <2>4 DEF MarkReady, cvars, Ready
  <2>5. ASSUME NEW p \in Producers, Beat(p) PROVE TypeOK'
    BY <2>5 DEF Beat, cvars
  <2>6. ASSUME NEW c \in Consumers, MakeCursor(c) PROVE TypeOK'
    BY <2>6 DEF MakeCursor, shared, pvars
  <2>7. ASSUME NEW c \in Consumers, MakeCursorFromStart(c) PROVE TypeOK'
    BY <2>7 DEF MakeCursorFromStart, shared, pvars
  <2>8. ASSUME NEW c \in Consumers, PopBegin(c) PROVE TypeOK'
    BY <2>8 DEF PopBegin, FastForward, shared, pvars
  <2>9. ASSUME NEW c \in Consumers, CheckSeq(c) PROVE TypeOK'
    BY <2>9 DEF CheckSeq, shared, pvars
  <2>10. ASSUME NEW c \in Consumers, NEW w \in Words, LoadWord(c, w) PROVE TypeOK'
    BY <2>10 DEF LoadWord, shared, pvars
  <2>11. ASSUME NEW c \in Consumers, Recheck(c) PROVE TypeOK'
    BY <2>11 DEF Recheck, shared, pvars
  <2>12. ASSUME NEW c \in Consumers, PopReturn(c) PROVE TypeOK'
    BY <2>12 DEF PopReturn, shared, pvars
  <2>13. ASSUME Tick PROVE TypeOK'
    BY <2>13 DEF Tick, pvars, cvars
  <2>14. ASSUME UNCHANGED vars PROVE TypeOK'
    BY <2>14 DEF vars, shared, pvars, cvars
  <2>15. QED
    BY <2>1, <2>2, <2>3, <2>4, <2>5, <2>6, <2>7, <2>8, <2>9, <2>10, <2>11, <2>12, <2>13, <2>14
       DEF Next, Push, Pop, PopEmpty
<1>3. QED
  BY <1>1, <1>2, PTL DEF Spec
-----------------------------------------------------------------------------
(***************************************************************************)
(* The inductive invariant, for one producer and accesses that take effect *)
(* in program order.  Its heart is that sequence numbers only grow, so a   *)
(* consumer that finds the same odd number before and after its copy knows *)
(* that nothing was stored to the slot in between.                         *)
(***************************************************************************)
SingleProducer == \A p, q \in Producers : p = q

\* No slot is ahead of write_pos.
SeqBounded == \A s \in Slots : sequence[s] <= 2 * write_pos

\* The producer's position is the last one claimed; until it marks its slot
\* no sequence number passes its own, and after that the slot is its own.
ProducerInv ==
  \A p \in Producers :
    /\ pstate[p] # "idle" => write_pos = pos[p] + 1
    /\ pstate[p] = "claimed" =>
         /\ unwritten[p] = Words
         /\ \A s \in Slots : sequence[s] <= 2 * pos[p]
    /\ pstate[p] = "marked" =>
         /\ sequence[Slot(pos[p])] = 2 * pos[p]
         /\ \A w \in Words \ unwritten[p] : data[Slot(pos[p])][w] = pos[p]

\* A slot marked ready for position k holds the message of position k.
ReadySlots ==
  \A s \in Slots, k \in Nat :
    sequence[s] = 2 * k + 1 => \A w \in Words : data[s][w] = k

\* A copy in progress is good for as long as the sequence has not moved on.
CopyInv ==
  \A c \in Consumers : cstate[c] = "copy" =>
    /\ sequence[Slot(cursor[c])] >= 2 * cursor[c] + 1
    /\ sequence[Slot(cursor[c])] = 2 * cursor[c] + 1 =>
         \A w \in Words \ unread[c] : out[c][w] = cursor[c]

VerifiedInv ==
  \A c \in Consumers : cstate[c] = "verified" =>
    \A w \in Words : out[c][w] = cursor[c]

\* The positions of the window that are not being replaced are ready.
WindowInv ==
  \A k \in write_pos - Capacity .. write_pos - 1 :
    k >= 0 /\ (\A p \in Producers : Pushing(p) => k # pos[p]) =>
      sequence[Slot(k)] = 2 * k + 1

IInv ==
  /\ TypeOK /\ SeqBounded /\ ProducerInv /\ ReadySlots
  /\ CopyInv /\ VerifiedInv /\ WindowInv

\* A "being written" mark is never a "ready" mark.
LEMMA EvenOdd == \A j, k \in Int : 2 * j # 2 * k + 1
  OBVIOUS

\* Every step of push() preserves the invariant.
LEMMA PushPreserves ==
  ASSUME InOrder, SingleProducer, IInv, TypeOK', NEW p \in Producers, Push(p)
  PROVE  IInv'
<1> DEFINE s0 == Slot(pos[p])
<1>0. \A q \in Producers : q = p
  BY DEF SingleProducer
<1>a. Capacity \in Nat /\ write_pos \in Nat /\ pos[p] \in Nat
  BY RingAssumption DEF IInv, TypeOK
<1>b. /\ s0 \in Slots /\ sequence \in [Slots -> Nat]
      /\ \A c \in Consumers : cursor[c] \in Nat /\ Slot(cursor[c]) \in Slots
      /\ \A k \in Int : Slot(k) \in Slots
  BY SlotInRange DEF IInv, TypeOK
<1>c. data \in [Slots -> [Words -> Int]]
  BY DEF IInv, TypeOK
<1> HIDE DEF s0
<1>1. CASE Claim(p)
  <2>0. /\ pstate[p] = "idle" /\ pstate'[p] = "claimed" /\ pos'[p] = write_pos
        /\ unwritten'[p] = Words
        /\ write_pos' = write_pos + 1
        /\ UNCHANGED <<sequence, data, cstate, cursor, unread, out>>
    BY <1>1 DEF Claim, cvars, IInv, TypeOK
  <2>1. SeqBounded'
    BY <1>a, <1>b, <2>0 DEF IInv, SeqBounded
  <2>2. ProducerInv'
    BY <1>a, <1>b, <1>0, <2>0 DEF IInv, SeqBounded, ProducerInv
  <2>3. ReadySlots' /\ CopyInv' /\ VerifiedInv'
    BY <2>0 DEF IInv, ReadySlots, CopyInv, VerifiedInv
  <2>4. WindowInv'
    <3> SUFFICES ASSUME NEW k \in write_pos + 1 - Capacity .. write_pos, k >= 0,
                        \A q \in Producers : Pushing(q)' => k # pos'[q]
                 PROVE  sequence[Slot(k)] = 2 * k + 1
      BY <1>a, <2>0 DEF WindowInv
    <3>1. k # write_pos
      BY <2>0 DEF Pushing
    <3>2. k \in write_pos - Capacity .. write_pos - 1
      BY <3>1, <1>a
    <3>3. QED
      BY <1>0, <2>0, <3>2 DEF IInv, WindowInv, Pushing
  <2>5. QED
    BY <2>1, <2>2, <2>3, <2>4 DEF IInv
<1>2. CASE MarkBusy(p)
  <2>w. write_pos = pos[p] + 1
    BY <1>2 DEF MarkBusy, IInv, ProducerInv
  <2>0. /\ pstate[p] = "claimed" /\ pstate'[p] = "marked" /\ unwritten[p] = Words
        /\ \A s \in Slots : sequence[s] <= 2 * pos[p]
        /\ \A s \in Slots : sequence'[s] = IF s = s0 THEN 2 * pos[p] ELSE sequence[s]
        /\ UNCHANGED <<write_pos, data, pos, unwritten, cstate, cursor, unread, out>>
    BY <1>2, <1>b DEF MarkBusy, cvars, IInv, TypeOK, ProducerInv, Busy, s0
  <2>1. SeqBounded'
    BY <1>a, <1>b, <2>w, <2>0 DEF IInv, SeqBounded
  <2>2. ProducerInv'
    BY <1>a, <1>b, <1>0, <2>w, <2>0 DEF ProducerInv, s0
  <2>3. ReadySlots'
    <3> SUFFICES ASSUME NEW s \in Slots, NEW k \in Nat, sequence'[s] = 2 * k + 1
                 PROVE  \A w \in Words : data[s][w] = k
      BY <2>0 DEF ReadySlots
    <3>1. s # s0
      BY <1>a, <2>0, EvenOdd
    <3>2. QED
      BY <2>0, <3>1 DEF IInv, ReadySlots
  <2>4. CopyInv' /\ VerifiedInv'
    <3>1. VerifiedInv'
      BY <2>0 DEF IInv, VerifiedInv
    <3> SUFFICES ASSUME NEW c \in Consumers, cstate[c] = "copy"
                 PROVE  /\ sequence'[Slot(cursor[c])] >= 2 * cursor[c] + 1
                        /\ sequence'[Slot(cursor[c])] = 2 * cursor[c] + 1 =>
                             \A w \in Words \ unread[c] : out[c][w] = cursor[c]
      BY <2>0, <3>1 DEF CopyInv
    <3>2. CASE Slot(cursor[c]) = s0
      <4>1. sequence[s0] >= 2 * cursor[c] + 1 /\ sequence[s0] <= 2 * pos[p]
        BY <1>b, <2>0, <3>2 DEF IInv, CopyInv
      <4>2. sequence'[s0] = 2 * pos[p] /\ sequence[s0] \in Nat /\ cursor[c] \in Nat
        BY <1>b, <2>0
      <4>3. QED
        BY <1>a, <3>2, <4>1, <4>2, EvenOdd
    <3>3. CASE Slot(cursor[c]) # s0
      BY <1>b, <2>0, <3>3 DEF IInv, CopyInv
    <3>4. QED
      BY <3>2, <3>3
  <2>5. WindowInv'
    <3> SUFFICES ASSUME NEW k \in write_pos - Capacity .. write_pos - 1, k >= 0,
                        \A q \in Producers : Pushing(q)' => k # pos'[q]
                 PROVE  sequence'[Slot(k)] = 2 * k + 1
      BY <2>0 DEF WindowInv
    <3>1. k # pos[p]
      BY <2>0 DEF Pushing
    <3>2. k \in Int /\ k < pos[p] /\ pos[p] - k < Capacity
      BY <3>1, <2>w, <1>a
    <3>3. Slot(k) # s0
      BY <3>2, <1>a, SlotInjective DEF s0
    <3>4. sequence[Slot(k)] = 2 * k + 1
      BY <1>0, <3>1 DEF IInv, WindowInv
    <3>5. QED
      BY <3>2, <3>3, <3>4, <2>0, <1>b
  <2>6. QED
    BY <2>1, <2>2, <2>3, <2>4, <2>5 DEF IInv
<1>3. CASE \E w \in Words : StoreWord(p, w)
  <2> PICK w \in Words : StoreWord(p, w)
    BY <1>3
  <2>0. /\ pstate[p] = "marked" /\ sequence[s0] = 2 * pos[p]
        /\ \A v \in Words \ unwritten[p] : data[s0][v] = pos[p]
        /\ unwritten'[p] = unwritten[p] \ {w}
        /\ \A s \in Slots, v \in Words :
             data'[s][v] = IF s = s0 /\ v = w THEN pos[p] ELSE data[s][v]
        /\ UNCHANGED <<write_pos, sequence, pstate, pos, cstate, cursor, unread, out>>
    BY <1>b, <1>c, SMTT(30) DEF StoreWord, cvars, IInv, TypeOK, ProducerInv, s0
  <2>1. SeqBounded' /\ CopyInv' /\ VerifiedInv' /\ WindowInv'
    BY <2>0 DEF IInv, SeqBounded, CopyInv, VerifiedInv, WindowInv, Pushing
  <2>2. ProducerInv'
    <3>1. /\ s0 = Slot(pos'[p])
          /\ \A v \in Words \ unwritten'[p] : data'[s0][v] = pos'[p]
      BY <1>b, <2>0 DEF s0
    <3>2. QED
      BY <1>0, <2>0, <3>1 DEF IInv, ProducerInv
  <2>3. ReadySlots'
    <3> SUFFICES ASSUME NEW s \in Slots, NEW k \in Nat, sequence[s] = 2 * k + 1
                 PROVE  \A v \in Words : data'[s][v] = k
      BY <2>0 DEF ReadySlots
    <3>1. s # s0
      BY <1>a, <2>0, EvenOdd
    <3>2. QED
      BY <2>0, <3>1 DEF IInv, ReadySlots
  <2>4. QED
    BY <2>1, <2>2, <2>3 DEF IInv
<1>4. CASE MarkReady(p)
  <2>w. write_pos = pos[p] + 1
    BY <1>4 DEF MarkReady, IInv, ProducerInv
  <2>0. /\ pstate[p] = "marked" /\ pstate'[p] = "beat"
        /\ sequence[s0] = 2 * pos[p]
        /\ \A w \in Words : data[s0][w] = pos[p]
        /\ \A s \in Slots : sequence'[s] = IF s = s0 THEN 2 * pos[p] + 1 ELSE sequence[s]
        /\ UNCHANGED <<write_pos, data, pos, unwritten, cstate, cursor, unread, out>>
    BY <1>4, <1>b DEF MarkReady, cvars, IInv, TypeOK, ProducerInv, Ready, s0
  <2>1. SeqBounded'
    BY <1>a, <1>b, <2>w, <2>0 DEF IInv, SeqBounded
  <2>2. ProducerInv'
    BY <1>0, <2>w, <2>0 DEF ProducerInv
  <2>3. ReadySlots' /\ VerifiedInv'
    <3>1. VerifiedInv'
      BY <2>0 DEF IInv, VerifiedInv
    <3> SUFFICES ASSUME NEW s \in Slots, NEW k \in Nat, sequence'[s] = 2 * k + 1
                 PROVE  \A w \in Words : data[s][w] = k
      BY <2>0, <3>1 DEF ReadySlots
    <3>2. CASE s = s0
      <4>1. k = pos[p]
        BY <1>a, <2>0, <3>2
      <4>2. QED
        BY <2>0, <3>2, <4>1
    <3>3. CASE s # s0
      BY <2>0, <3>3 DEF IInv, ReadySlots
    <3>4. QED
      BY <3>2, <3>3
  <2>4. CopyInv'
    <3> SUFFICES ASSUME NEW c \in Consumers, cstate[c] = "copy"
                 PROVE  /\ sequence'[Slot(cursor[c])] >= 2 * cursor[c] + 1
                        /\ sequence'[Slot(cursor[c])] = 2 * cursor[c] + 1 =>
                             \A w \in Words \ unread[c] : out[c][w] = cursor[c]
      BY <2>0 DEF CopyInv
    <3>1. CASE Slot(cursor[c]) = s0
      <4>1. 2 * pos[p] >= 2 * cursor[c] + 1
        BY <2>0, <3>1 DEF IInv, CopyInv
      <4>2. sequence'[s0] = 2 * pos[p] + 1 /\ cursor[c] \in Nat
        BY <1>b, <2>0
      <4>3. QED
        BY <1>a, <3>1, <4>1, <4>2
    <3>2. CASE Slot(cursor[c]) # s0
      BY <1>b, <2>0, <3>2 DEF IInv, CopyInv
    <3>3. QED
      BY <3>1, <3>2
  <2>5. WindowInv'
    <3> SUFFICES ASSUME NEW k \in write_pos - Capacity .. write_pos - 1, k >= 0
                 PROVE  sequence'[Slot(k)] = 2 * k + 1
      BY <2>0 DEF WindowInv
    <3>1. CASE k = pos[p]
      BY <3>1, <2>0, <1>b DEF s0
    <3>2. CASE k # pos[p]
      <4>1. k \in Int /\ k < pos[p] /\ pos[p] - k < Capacity
        BY <3>2, <2>w, <1>a
      <4>2. Slot(k) # s0
        BY <4>1, <1>a, SlotInjective DEF s0
      <4>3. sequence[Slot(k)] = 2 * k + 1
        BY <1>0, <3>2 DEF IInv, WindowInv
      <4>4. QED
        BY <4>1, <4>2, <4>3, <2>0, <1>b
    <3>3. QED
      BY <3>1, <3>2
  <2>6. QED
    BY <2>1, <2>2, <2>3, <2>4, <2>5 DEF IInv
<1>5. CASE Beat(p)
  <2>0. /\ pstate[p] = "beat" /\ pstate'[p] = "idle"
        /\ UNCHANGED <<write_pos, sequence, data, pos, cstate, cursor, unread, out>>
    BY <1>5 DEF Beat, cvars, IInv, TypeOK
  <2>1. SeqBounded' /\ ReadySlots' /\ CopyInv' /\ VerifiedInv'
    BY <2>0 DEF IInv, SeqBounded, ReadySlots, CopyInv, VerifiedInv
  <2>2. ProducerInv'
    BY <1>0, <2>0 DEF ProducerInv
  <2>3. WindowInv'
    BY <1>0, <2>0 DEF IInv, WindowInv, Pushing
  <2>4. QED
    BY <2>1, <2>2, <2>3 DEF IInv
<1>6. QED
  BY <1>1, <1>2, <1>3, <1>4, <1>5 DEF Push

\* Every step of make_cursor() and pop() preserves the invariant.  Nothing
\* that the producer relies on is touched.
LEMMA PopPreserves ==
  ASSUME InOrder, IInv, TypeOK', NEW c \in Consumers,
         MakeCursor(c) \/ MakeCursorFromStart(c) \/ Pop(c)
  PROVE  IInv'
<1>a. /\ UNCHANGED <<write_pos, sequence, data, pstate, pos, unwritten>>
      /\ \A d \in Consumers \ {c} : /\ cstate'[d] = cstate[d] /\ cursor'[d] = cursor[d]
                                    /\ unread'[d] = unread[d] /\ out'[d] = out[d]
  <2>1. CASE MakeCursor(c) \/ MakeCursorFromStart(c)
    BY <2>1 DEF IInv, TypeOK, MakeCursor, MakeCursorFromStart, shared, pvars
  <2>2. CASE PopEmpty(c) \/ PopBegin(c) \/ CheckSeq(c)
    BY <2>2 DEF IInv, TypeOK, PopEmpty, PopBegin, CheckSeq, vars, shared, pvars, cvars
  <2>3. CASE Recheck(c) \/ PopReturn(c)
    BY <2>3 DEF IInv, TypeOK, Recheck, PopReturn, shared, pvars
  <2>4. ASSUME NEW w \in Words, LoadWord(c, w)
        PROVE  /\ UNCHANGED <<write_pos, sequence, data, pstate, pos, unwritten>>
               /\ \A d \in Consumers \ {c} : /\ cstate'[d] = cstate[d] /\ cursor'[d] = cursor[d]
                                             /\ unread'[d] = unread[d] /\ out'[d] = out[d]
    BY <2>4 DEF IInv, TypeOK, LoadWord, shared, pvars
  <2> QED
    BY <2>1, <2>2, <2>3, <2>4 DEF Pop
<1>b. cursor[c] \in Nat /\ Slot(cursor[c]) \in Slots
  BY SlotInRange DEF IInv, TypeOK
<1>1. SeqBounded' /\ ProducerInv' /\ ReadySlots' /\ WindowInv'
  BY <1>a DEF IInv, SeqBounded, ProducerInv, ReadySlots, WindowInv, Pushing
<1> DEFINE Copying == cstate[c] = "copy" =>
             /\ sequence[Slot(cursor[c])] >= 2 * cursor[c] + 1
             /\ sequence[Slot(cursor[c])] = 2 * cursor[c] + 1 =>
                  \A w \in Words \ unread[c] : out[c][w] = cursor[c]
           Verified == cstate[c] = "verified" => \A w \in Words : out[c][w] = cursor[c]
<1>2. Copying /\ Verified
  BY DEF IInv, CopyInv, VerifiedInv
<1>3. SUFFICES Copying' /\ Verified'
  BY <1>1, <1>a DEF IInv, CopyInv, VerifiedInv
<1>4. CASE MakeCursor(c) \/ MakeCursorFromStart(c) \/ PopBegin(c) \/ PopReturn(c)
  <2>1. cstate'[c] \in {"idle", "check"}
    BY <1>4 DEF MakeCursor, MakeCursorFromStart, PopBegin, PopReturn, IInv, TypeOK
  <2>2. QED
    BY <2>1
<1>5. CASE PopEmpty(c)
  BY <1>2, <1>5 DEF PopEmpty, vars, shared, cvars
<1>6. CASE CheckSeq(c)
  <2>1. /\ cstate'[c] \in {"idle", "copy"} /\ cursor'[c] = cursor[c]
        /\ cstate'[c] = "copy" => /\ unread'[c] = Words
                                  /\ sequence[Slot(cursor[c])] = 2 * cursor[c] + 1
    BY <1>6 DEF CheckSeq, Ready, IInv, TypeOK
  <2>2. CASE cstate'[c] = "idle"
    BY <2>2
  <2>3. CASE cstate'[c] = "copy"
    <3>1. sequence'[Slot(cursor'[c])] = 2 * cursor'[c] + 1 /\ unread'[c] = Words
      BY <1>a, <2>1, <2>3
    <3>2. 2 * cursor'[c] + 1 \in Int
      BY <1>b, <2>1
    <3> QED
      BY <2>3, <3>1, <3>2
  <2>4. QED
    BY <2>1, <2>2, <2>3
<1>7. CASE \E w \in Words : LoadWord(c, w)
  <2> PICK w \in Words : LoadWord(c, w)
    BY <1>7
  <2>1. /\ cstate[c] = "copy" /\ cstate'[c] = "copy" /\ cursor'[c] = cursor[c]
        /\ unread'[c] = unread[c] \ {w}
        /\ \A v \in Words : out'[c][v] = IF v = w THEN data[Slot(cursor[c])][w] ELSE out[c][v]
    BY DEF LoadWord, IInv, TypeOK
  <2>2. sequence[Slot(cursor[c])] = 2 * cursor[c] + 1 => data[Slot(cursor[c])][w] = cursor[c]
    BY <1>b DEF IInv, ReadySlots
  <2>3. QED
    BY <1>2, <1>a, <2>1, <2>2
<1>8. CASE Recheck(c)
  <2>1. /\ cstate[c] = "copy" /\ unread[c] = {} /\ cursor'[c] = cursor[c] /\ out'[c] = out[c]
        /\ cstate'[c] \in {"idle", "verified"}
        /\ cstate'[c] = "verified" => sequence[Slot(cursor[c])] = 2 * cursor[c] + 1
    BY <1>8 DEF Recheck, Ready, IInv, TypeOK
  <2>2. QED
    BY <1>2, <2>1
<1>9. QED
  BY <1>4, <1>5, <1>6, <1>7, <1>8 DEF Pop

\* With one producer and program order, the invariant is inductive.
LEMMA IInvInductive ==
  ASSUME InOrder, SingleProducer
  PROVE  Spec => []IInv
<1>1. Init => IInv
  <2> SUFFICES ASSUME Init PROVE IInv
    OBVIOUS
  <2>1. TypeOK
    BY RingAssumption DEF Init, TypeOK, Blank, Never, Slots
  <2>2. SeqBounded /\ ProducerInv /\ ReadySlots /\ CopyInv /\ VerifiedInv
    BY EvenOdd DEF Init, SeqBounded, ProducerInv, ReadySlots, CopyInv, VerifiedInv
  <2>3. WindowInv
    BY RingAssumption DEF Init, WindowInv
  <2>4. QED
    BY <2>1, <2>2, <2>3 DEF IInv
<1>2. IInv /\ TypeOK' /\ [Next]_vars => IInv'
  <2> SUFFICES ASSUME IInv, TypeOK', [Next]_vars PROVE IInv'
    OBVIOUS
  <2>1. ASSUME NEW p \in Producers, Push(p) PROVE IInv'
    BY <2>1, PushPreserves
  <2>2. ASSUME NEW c \in Consumers, MakeCursor(c) \/ MakeCursorFromStart(c) \/ Pop(c)
        PROVE  IInv'
    BY <2>2, PopPreserves
  <2>3. ASSUME Tick \/ UNCHANGED vars PROVE IInv'
    <3>1. UNCHANGED <<write_pos, sequence, data, pvars, cvars>>
      BY <2>3 DEF Tick, vars, shared
    <3>2. SeqBounded' /\ ProducerInv' /\ ReadySlots' /\ WindowInv'
      BY <3>1 DEF IInv, SeqBounded, ProducerInv, ReadySlots, WindowInv, Pushing, pvars
    <3>3. CopyInv' /\ VerifiedInv'
      BY <3>1 DEF IInv, CopyInv, VerifiedInv, cvars
    <3>4. QED
      BY <3>2, <3>3 DEF IInv
  <2>4. QED
    BY <2>1, <2>2, <2>3 DEF Next
<1>3. QED
  BY <1>1, <1>2, TypeCorrect, PTL DEF Spec

\* pop() never delivers a torn, unfinished or wrong message: what it returns
\* is the message pushed at the cursor's position.
THEOREM DeliveryIsIntact ==
  ASSUME InOrder, SingleProducer
  PROVE  Spec => []IntactDelivery
<1>1. IInv => IntactDelivery
  BY DEF IInv, VerifiedInv, IntactDelivery
<1>2. QED
  BY <1>1, IInvInductive, PTL

\* The last Capacity messages, all but the one being replaced, can be read:
\* the position that pop() moves a lagging cursor to holds a message.
THEOREM WindowIsReadable ==
  ASSUME InOrder, SingleProducer
  PROVE  Spec => []WindowReadable
<1>1. IInv => WindowReadable
  <2> SUFFICES ASSUME IInv, NEW k \in write_pos - Capacity .. write_pos - 1, k >= 0,
                      \A p \in Producers : Pushing(p) => k # pos[p]
               PROVE  sequence[Slot(k)] = 2 * k + 1 /\ \A w \in Words : data[Slot(k)][w] = k
    BY DEF WindowReadable, Ready
  <2>1. k \in Nat
    BY RingAssumption DEF IInv, TypeOK
  <2>2. sequence[Slot(k)] = 2 * k + 1
    BY DEF IInv, WindowInv
  <2>3. QED
    BY <2>1, <2>2, SlotInRange DEF IInv, ReadySlots
<1>2. QED
  BY <1>1, IInvInductive, PTL
-----------------------------------------------------------------------------
(***************************************************************************)
(* The channel: what Publisher and Subscriber add to the ring.             *)
(***************************************************************************)

\* Inside try_receive() the cursor is not behind pre_pos, and it is behind
\* write_pos, which counts what was published.
Call(c) ==
  /\ start[c] <= cursor[c] /\ cursor[c] <= write_pos
  /\ cstate[c] = "none" => cursor[c] = start[c] /\ rstate[c] = "pop"
  /\ rstate[c] # "pop" => cstate[c] = "idle"
  /\ rstate[c] = "drop" => start[c] <= pre_pos[c] /\ cursor[c] > pre_pos[c] + 1
  /\ rstate[c] = "count" => start[c] < cursor[c]
  /\ cstate[c] \notin {"none", "idle"} =>
       start[c] <= pre_pos[c] /\ pre_pos[c] <= cursor[c] /\ cursor[c] < write_pos

CallInv == sequence_ = write_pos /\ \A c \in Consumers : Call(c)

ChannelIInv == ChannelTypeOK /\ CallInv

\* The positions that a consumer has passed and accounted for, and the
\* positions that the counters hold.
Settled(c) == cursor[c] - start[c] - Pending(c)
Counted    == received + dropped + uncounted

\* A step adds to the counters what one consumer settles.
CountsWhatIsSettled ==
  \/ Counted' = Counted /\ \A c \in Consumers : Settled(c)' = Settled(c)
  \/ \E c \in Consumers : /\ Counted' - Counted = Settled(c)' - Settled(c)
                          /\ \A d \in Consumers \ {c} : Settled(d)' = Settled(d)

\* A consumer accounts for no position twice, and for none that was not
\* published since its cursor was made.
SettledWithinPublished == \A c \in Consumers : Settled(c) \in 0 .. sequence_ - start[c]

LEMMA ChannelStep == ASSUME [ChannelNext]_chvars PROVE [Next]_vars
<1>1. ASSUME NEW p \in Producers, Publish(p)
      PROVE  Next
  BY <1>1 DEF Publish, Next
<1>2. ASSUME NEW c \in Consumers,
             Subscribe(c) \/ TryReceive(c) \/ NothingNew(c) \/ Popping(c) \/ Popped(c)
      PROVE  Next
  BY <1>2 DEF Subscribe, TryReceive, NothingNew, Popping, Popped, Pop, Next
<1>3. ASSUME NEW c \in Consumers, CountDropped(c) \/ CountReceived(c)
      PROVE  UNCHANGED vars
  BY <1>3 DEF CountDropped, CountReceived
<1>4. CASE Age
  BY <1>4 DEF Age, Next
<1>5. CASE UNCHANGED chvars
  BY <1>5 DEF chvars
<1> QED
  BY <1>1, <1>2, <1>3, <1>4, <1>5 DEF ChannelNext

\* publish() and try_receive() use the ring only through push(), pop() and
\* make_cursor(): the counters around them change nothing of it, so the
\* channel implements the ring.
THEOREM ChannelImplementsRing == ChannelSpec => Spec
<1>1. ChannelInit => Init
  BY DEF ChannelInit
<1> QED
  BY <1>1, ChannelStep, PTL DEF ChannelSpec, Spec

\* What try_receive() copies out is the message that publish() put there.
THEOREM ChannelDeliversIntact ==
  ASSUME InOrder, SingleProducer
  PROVE  ChannelSpec => []IntactDelivery
BY ChannelImplementsRing, DeliveryIsIntact, PTL

\* What the other consumers keep while c takes a step.
Others(c) ==
  \A d \in Consumers \ {c} : /\ cursor'[d] = cursor[d] /\ cstate'[d] = cstate[d]
                            /\ pre_pos'[d] = pre_pos[d] /\ rstate'[d] = rstate[d]
                            /\ start'[d] = start[d]

\* What each step does to the counters and to its consumer.
LEMMA PublishEffect ==
  ASSUME ChannelIInv, (\E p \in Producers : Publish(p)) \/ Age
  PROVE  /\ UNCHANGED <<received, dropped, uncounted, pre_pos, rstate, start, cursor, cstate>>
         /\ \E n \in {0, 1} : sequence_' = sequence_ + n /\ write_pos' = write_pos + n
<1>a. sequence_ \in Nat /\ write_pos \in Nat
  BY RingAssumption DEF ChannelIInv, ChannelTypeOK, TypeOK
<1>1. CASE Age
  BY <1>1, <1>a DEF Age, Tick, stats, cvars2, aux, cvars
<1>2. ASSUME NEW p \in Producers, Publish(p)
      PROVE  /\ UNCHANGED <<received, dropped, uncounted, pre_pos, rstate, start, cursor, cstate>>
             /\ \E n \in {0, 1} : sequence_' = sequence_ + n /\ write_pos' = write_pos + n
  <2>1. /\ UNCHANGED <<received, dropped, uncounted, pre_pos, rstate, start>> /\ Push(p)
        /\ sequence_' = IF pstate[p] = "idle" THEN sequence_ + 1 ELSE sequence_
    BY <1>2 DEF Publish, cvars2, aux
  <2>2. UNCHANGED <<cursor, cstate>>
    BY <2>1 DEF Push, Claim, MarkBusy, MarkReady, Beat, StoreWord, cvars
  <2>3. write_pos' = IF pstate[p] = "idle" THEN write_pos + 1 ELSE write_pos
    BY <2>1 DEF Push, Claim, MarkBusy, MarkReady, Beat, StoreWord
  <2> QED
    BY <1>a, <2>1, <2>2, <2>3
<1> QED
  BY <1>1, <1>2

ConsumerStep(c) ==
  \/ Subscribe(c) \/ TryReceive(c) \/ NothingNew(c) \/ Popping(c)
  \/ Popped(c) \/ CountDropped(c) \/ CountReceived(c)

LEMMA OthersKept ==
  ASSUME ChannelTypeOK, NEW c \in Consumers, ConsumerStep(c)
  PROVE  Others(c) /\ UNCHANGED <<sequence_, write_pos>>
<1> USE DEF Others, stats, cvars2, aux, shared, vars, cvars
<1>1. CASE Subscribe(c) \/ TryReceive(c) \/ NothingNew(c)
  BY <1>1 DEF ChannelTypeOK, TypeOK, Subscribe, MakeCursor, TryReceive, PopBegin, NothingNew, PopEmpty
<1>2. CASE Popping(c)
  BY <1>2 DEF ChannelTypeOK, TypeOK, Popping, CheckSeq, Recheck, LoadWord
<1>3. CASE Popped(c) \/ CountDropped(c) \/ CountReceived(c)
  BY <1>3 DEF ChannelTypeOK, TypeOK, Popped, PopReturn, CountDropped, CountReceived
<1> QED
  BY <1>1, <1>2, <1>3 DEF ConsumerStep

\* The same of its own locals and of the counters.
LEMMA SubscribeEffect ==
  ASSUME ChannelTypeOK, NEW c \in Consumers, Subscribe(c)
  PROVE  /\ cstate[c] = "none" /\ cstate'[c] = "idle"
         /\ cursor'[c] = write_pos /\ start'[c] = write_pos
         /\ UNCHANGED <<received, dropped, uncounted, pre_pos, rstate>>
BY DEF ChannelTypeOK, TypeOK, Subscribe, MakeCursor, stats, cvars2

LEMMA TryReceiveEffect ==
  ASSUME ChannelTypeOK, NEW c \in Consumers, TryReceive(c)
  PROVE  /\ cstate[c] = "idle" /\ cstate'[c] = "check" /\ rstate[c] = "pop"
         /\ cursor'[c] \in Nat /\ cursor[c] <= cursor'[c] /\ cursor'[c] < write_pos
         /\ pre_pos'[c] = cursor[c]
         /\ UNCHANGED <<received, dropped, uncounted, rstate, start>>
<1>1. /\ cstate[c] = "idle" /\ cstate'[c] = "check" /\ rstate[c] = "pop"
      /\ cursor'[c] = FastForward(cursor[c], write_pos) /\ cursor[c] < write_pos
      /\ pre_pos'[c] = cursor[c]
      /\ UNCHANGED <<received, dropped, uncounted, rstate, start>>
  BY DEF ChannelTypeOK, TypeOK, TryReceive, PopBegin, stats, aux
<1>2. cursor[c] \in Nat /\ write_pos \in Nat /\ Capacity \in Nat /\ Capacity >= 2
  BY RingAssumption DEF ChannelTypeOK, TypeOK
<1>3. cursor'[c] \in Nat /\ cursor[c] <= cursor'[c] /\ cursor'[c] < write_pos
  BY <1>1, <1>2 DEF FastForward
<1> QED
  BY <1>1, <1>3

LEMMA PoppingEffect ==
  ASSUME ChannelTypeOK, NEW c \in Consumers, Popping(c)
  PROVE  /\ cstate[c] \notin {"none", "idle"} /\ cstate'[c] # "none"
         /\ uncounted' = IF cstate'[c] = "idle" THEN uncounted + (cursor[c] - pre_pos[c])
                         ELSE uncounted
         /\ UNCHANGED <<received, dropped, pre_pos, rstate, start, cursor>>
BY DEF ChannelTypeOK, TypeOK, Popping, CheckSeq, Recheck, LoadWord, stats, cvars2

LEMMA PoppedEffect ==
  ASSUME ChannelTypeOK, NEW c \in Consumers, Popped(c)
  PROVE  /\ cstate[c] = "verified" /\ cstate'[c] = "idle" /\ cursor'[c] = cursor[c] + 1
         /\ rstate'[c] = IF cursor'[c] > pre_pos[c] + 1 THEN "drop" ELSE "count"
         /\ UNCHANGED <<received, dropped, uncounted, pre_pos, start>>
BY DEF ChannelTypeOK, TypeOK, Popped, PopReturn, stats, aux

LEMMA CountEffect ==
  ASSUME ChannelTypeOK, NEW c \in Consumers, CountDropped(c) \/ CountReceived(c)
  PROVE  /\ \/ /\ rstate[c] = "drop" /\ rstate'[c] = "count" /\ received' = received
               /\ dropped' = dropped + (cursor[c] - pre_pos[c] - 1)
            \/ /\ rstate[c] = "count" /\ rstate'[c] = "pop" /\ dropped' = dropped
               /\ received' = received + 1
         /\ UNCHANGED <<uncounted, pre_pos, start, cursor, cstate>>
BY DEF ChannelTypeOK, CountDropped, CountReceived, vars, cvars, aux

LEMMA NothingNewEffect ==
  ASSUME NEW c \in Consumers, NothingNew(c)
  PROVE  UNCHANGED <<received, dropped, uncounted, pre_pos, rstate, start, cursor, cstate>>
BY DEF NothingNew, PopEmpty, stats, cvars2, aux, vars, cvars

LEMMA ChannelTypesNext ==
  ASSUME ChannelIInv, TypeOK', [ChannelNext]_chvars
  PROVE  ChannelTypeOK'
<1> USE DEF ChannelIInv, stats, cvars2, aux
<1>a. \A c \in Consumers : cursor[c] \in Nat /\ pre_pos[c] \in Nat /\ write_pos \in Nat
  BY RingAssumption DEF ChannelTypeOK, TypeOK
<1>1. CASE (\E p \in Producers : Publish(p)) \/ Age
  BY <1>1, PublishEffect DEF ChannelTypeOK
<1>2. ASSUME NEW c \in Consumers, Subscribe(c) \/ TryReceive(c) \/ NothingNew(c)
      PROVE  ChannelTypeOK'
  BY <1>a, <1>2 DEF ChannelTypeOK, Subscribe, TryReceive, NothingNew
<1>3. ASSUME NEW c \in Consumers, Popping(c)
      PROVE  ChannelTypeOK'
  <2>1. pre_pos[c] <= cursor[c]
    BY <1>3, PoppingEffect DEF CallInv, Call
  <2>2. uncounted' \in Nat
    BY <1>a, <1>3, <2>1, PoppingEffect DEF ChannelTypeOK
  <2> QED
    BY <1>3, <2>2 DEF ChannelTypeOK, Popping
<1>4. ASSUME NEW c \in Consumers, Popped(c) \/ CountReceived(c)
      PROVE  ChannelTypeOK'
  BY <1>4 DEF ChannelTypeOK, Popped, CountReceived
<1>5. ASSUME NEW c \in Consumers, CountDropped(c)
      PROVE  ChannelTypeOK'
  <2>1. cursor[c] > pre_pos[c] + 1
    BY <1>5 DEF CountDropped, CallInv, Call
  <2>2. dropped' \in Nat
    BY <1>a, <1>5, <2>1 DEF ChannelTypeOK, CountDropped
  <2> QED
    BY <1>5, <2>2 DEF ChannelTypeOK, CountDropped
<1>6. CASE UNCHANGED chvars
  BY <1>6 DEF ChannelTypeOK, chvars
<1> QED
  BY <1>1, <1>2, <1>3, <1>4, <1>5, <1>6 DEF ChannelNext

LEMMA CallInvNext ==
  ASSUME ChannelIInv, [ChannelNext]_chvars
  PROVE  CallInv'
<1> USE DEF ChannelIInv
<1>a. /\ write_pos \in Nat
      /\ \A c \in Consumers : cursor[c] \in Nat /\ pre_pos[c] \in Nat /\ start[c] \in Nat
  BY RingAssumption DEF ChannelTypeOK, TypeOK
<1>1. CASE (\E p \in Producers : Publish(p)) \/ Age
  <2>1. UNCHANGED <<pre_pos, rstate, start, cursor, cstate>>
    BY <1>1, PublishEffect
  <2>2. PICK n \in {0, 1} : sequence_' = sequence_ + n /\ write_pos' = write_pos + n
    BY <1>1, PublishEffect
  <2>3. ASSUME NEW c \in Consumers
        PROVE  Call(c)'
    <3>1. Call(c)
      BY DEF CallInv
    <3>2. \A k \in Nat : (k <= write_pos => k <= write_pos') /\ (k < write_pos => k < write_pos')
      BY <1>a, <2>2
    <3> QED
      BY <1>a, <2>1, <3>1, <3>2 DEF Call
  <2> QED
    BY <2>2, <2>3 DEF CallInv
<1>2. ASSUME NEW c \in Consumers, ConsumerStep(c)
      PROVE  CallInv'
  <2>1. Others(c) /\ write_pos' = write_pos /\ sequence_' = sequence_
    BY <1>2, OthersKept
  <2>2. ASSUME NEW d \in Consumers \ {c}
        PROVE  Call(d)'
    BY <2>1 DEF Others, CallInv, Call
  <2>a. /\ write_pos' = write_pos /\ Call(c) /\ ChannelTypeOK
        /\ cursor[c] \in Nat /\ pre_pos[c] \in Nat /\ start[c] \in Nat /\ write_pos \in Nat
    BY <1>a, <2>1 DEF CallInv
  <2>3. Call(c)'
    <3> HIDE DEF ChannelIInv
    <3>1. CASE Subscribe(c)
      <4>1. /\ cstate[c] = "none" /\ cstate'[c] = "idle" /\ rstate' = rstate
            /\ cursor'[c] = write_pos /\ start'[c] = write_pos
        BY <2>a, <3>1, SubscribeEffect
      <4>2. rstate'[c] = "pop"
        BY <2>a, <4>1 DEF Call
      <4> QED
        BY <2>a, <4>1, <4>2 DEF Call
    <3>2. CASE TryReceive(c)
      <4>1. /\ cstate'[c] = "check" /\ rstate[c] = "pop" /\ rstate' = rstate /\ start' = start
            /\ cursor'[c] \in Nat /\ cursor[c] <= cursor'[c] /\ cursor'[c] < write_pos
            /\ pre_pos'[c] = cursor[c]
        BY <2>a, <3>2, TryReceiveEffect
      <4> QED
        BY <2>a, <4>1 DEF Call
    <3>3. CASE NothingNew(c)
      BY <2>a, <3>3, NothingNewEffect DEF Call
    <3>4. CASE Popping(c)
      BY <2>a, <3>4, PoppingEffect DEF Call
    <3>5. CASE Popped(c)
      <4>1. /\ cstate[c] = "verified" /\ cstate'[c] = "idle" /\ cursor'[c] = cursor[c] + 1
            /\ rstate'[c] = IF cursor'[c] > pre_pos[c] + 1 THEN "drop" ELSE "count"
            /\ pre_pos' = pre_pos /\ start' = start
        BY <2>a, <3>5, PoppedEffect
      <4>2. start[c] <= cursor[c] /\ start[c] <= pre_pos[c] /\ cursor[c] < write_pos
        BY <2>a, <4>1 DEF Call
      <4>3. /\ start'[c] <= cursor'[c] /\ cursor'[c] <= write_pos' /\ start'[c] < cursor'[c]
            /\ start'[c] <= pre_pos'[c]
        BY <2>a, <4>1, <4>2, SMTT(30)
      <4>4. rstate'[c] = "drop" => cursor'[c] > pre_pos'[c] + 1
        BY <4>1
      <4> QED
        BY <4>1, <4>3, <4>4 DEF Call
    <3>6. CASE CountDropped(c) \/ CountReceived(c)
      <4>1. /\ \/ rstate[c] = "drop" /\ rstate'[c] = "count"
               \/ rstate[c] = "count" /\ rstate'[c] = "pop"
            /\ UNCHANGED <<pre_pos, start, cursor, cstate>>
        BY <2>a, <3>6, CountEffect
      <4>2. rstate[c] # "pop" /\ start[c] <= cursor[c] /\ cursor[c] <= write_pos /\ cstate[c] = "idle"
        BY <2>a, <4>1 DEF Call
      <4>3. start[c] < cursor[c]
        BY <2>a, <4>1 DEF Call
      <4> QED
        BY <2>a, <4>1, <4>2, <4>3 DEF Call
    <3> QED
      BY <1>2, <3>1, <3>2, <3>3, <3>4, <3>5, <3>6 DEF ConsumerStep
  <2> QED
    BY <2>1, <2>2, <2>3 DEF CallInv
<1>3. CASE UNCHANGED chvars
  BY <1>3 DEF CallInv, Call, chvars, stats, cvars2, aux, vars, shared, cvars
<1> QED
  BY <1>1, <1>2, <1>3 DEF ChannelNext, ConsumerStep

LEMMA ChannelInvariance == ChannelSpec => []ChannelIInv
<1>1. ChannelInit => ChannelIInv
  <2>1. ChannelInit /\ TypeOK => ChannelTypeOK
    BY DEF ChannelInit, ChannelTypeOK
  <2>2. Init => TypeOK
    BY RingAssumption DEF Init, TypeOK, Blank, Never, Slots
  <2>3. ChannelInit => CallInv
    BY DEF ChannelInit, Init, CallInv, Call
  <2> QED
    BY <2>1, <2>2, <2>3 DEF ChannelInit, ChannelIInv
<1>2. ChannelIInv /\ TypeOK' /\ [ChannelNext]_chvars => ChannelIInv'
  BY ChannelTypesNext, CallInvNext DEF ChannelIInv
<1>3. ChannelSpec => []TypeOK
  BY ChannelImplementsRing, TypeCorrect, PTL
<1> QED
  BY <1>1, <1>2, <1>3, PTL DEF ChannelSpec

\* The counters and positions of the channel are never negative: the
\* unsigned differences that try_receive() takes (subscriber.hpp:106) do not
\* wrap.
THEOREM ChannelTypeCorrect == ChannelSpec => []ChannelTypeOK
<1>1. ChannelIInv => ChannelTypeOK
  BY DEF ChannelIInv
<1> QED
  BY <1>1, ChannelInvariance, PTL

\* No consumer is reported to have received or dropped a position twice, nor
\* one that was not published since its cursor was made.
THEOREM SettledIsPublished == ChannelSpec => []SettledWithinPublished
<1>1. ASSUME ChannelIInv, NEW c \in Consumers
      PROVE  Settled(c) \in 0 .. sequence_ - start[c]
  <2>1. /\ write_pos \in Nat /\ sequence_ = write_pos
        /\ cursor[c] \in Nat /\ pre_pos[c] \in Nat /\ start[c] \in Nat
    BY <1>1, RingAssumption DEF ChannelIInv, ChannelTypeOK, TypeOK, CallInv
  <2> QED
    BY <1>1, <2>1 DEF ChannelIInv, CallInv, Call, Settled, Pending
<1>2. ChannelIInv => SettledWithinPublished
  BY <1>1 DEF SettledWithinPublished
<1> QED
  BY <1>2, ChannelInvariance, PTL

LEMMA StepSettles ==
  ASSUME ChannelIInv, ChannelNext
  PROVE  CountsWhatIsSettled
<1>a. received \in Nat /\ dropped \in Nat /\ uncounted \in Nat
  BY DEF ChannelIInv, ChannelTypeOK
<1>1. CASE (\E p \in Producers : Publish(p)) \/ Age
  BY <1>1, PublishEffect DEF CountsWhatIsSettled, Counted, Settled, Pending
<1>2. ASSUME NEW c \in Consumers, ConsumerStep(c)
      PROVE  /\ Counted' - Counted = Settled(c)' - Settled(c)
             /\ \A d \in Consumers \ {c} : Settled(d)' = Settled(d)
  <2>1. \A d \in Consumers \ {c} : Settled(d)' = Settled(d)
    BY <1>2, OthersKept DEF ChannelIInv, Others, Settled, Pending
  <2>2. /\ write_pos \in Nat /\ cursor[c] \in Nat /\ pre_pos[c] \in Nat /\ start[c] \in Nat
        /\ ChannelTypeOK /\ Call(c) /\ rstate[c] \in {"pop", "drop", "count"}
    BY RingAssumption DEF ChannelIInv, ChannelTypeOK, TypeOK, CallInv
  <2>3. Counted' - Counted = Settled(c)' - Settled(c)
    <3> USE DEF Counted, Settled, Pending, Call
    <3>1. CASE Subscribe(c)
      BY <1>a, <2>2, <3>1, SubscribeEffect
    <3>2. CASE TryReceive(c)
      BY <1>a, <2>2, <3>2, TryReceiveEffect
    <3>3. CASE NothingNew(c)
      BY <1>a, <2>2, <3>3, NothingNewEffect
    <3>4. CASE Popping(c)
      BY <1>a, <2>2, <3>4, PoppingEffect
    <3>5. CASE Popped(c)
      BY <1>a, <2>2, <3>5, PoppedEffect
    <3>6. CASE CountDropped(c) \/ CountReceived(c)
      BY <1>a, <2>2, <3>6, CountEffect
    <3> QED
      BY <1>2, <3>1, <3>2, <3>3, <3>4, <3>5, <3>6 DEF ConsumerStep
  <2> QED
    BY <2>1, <2>3
<1> QED
  BY <1>1, <1>2 DEF ChannelNext, ConsumerStep, CountsWhatIsSettled

\* Each step of try_receive() adds to stats_received_, stats_dropped_ and the
\* skipped positions exactly what its consumer settles, whatever the other
\* consumers and the publisher do between the load of pre_pos and the two
\* fetch_adds.
THEOREM CountersFollowCursors == ChannelSpec => [][CountsWhatIsSettled]_chvars
<1>1. ChannelIInv /\ [ChannelNext]_chvars => [CountsWhatIsSettled]_chvars
  BY StepSettles
<1> QED
  BY <1>1, ChannelInvariance, PTL DEF ChannelSpec

-----------------------------------------------------------------------------
(* Sums over the consumers *)

\* A non-empty set of naturals has a least element.
LEMMA LeastNatural ==
  ASSUME NEW T \in SUBSET Nat, T # {}
  PROVE  \E n \in T : \A m \in T : n <= m
<1>1. PICK n \in T : \A m \in T : ~(<<m, n>> \in OpToRel(<, Nat))
  BY NatLessThanWellFounded, WFMin, Zenon
<1>2. \A m \in T : ~(m < n)
  BY <1>1 DEF OpToRel
<1> QED
  BY <1>2

First(s) == CHOOSE x \in s : TRUE

\* The recursion of SumFunction, of a function it defines on the sets D.
Sums(f, D, sum) ==
  sum = [s \in D |-> IF s = {} THEN 0 ELSE f[First(s)] + sum[s \ {First(s)}]]

LEMMA SumFunctionDef ==
  ASSUME NEW f
  PROVE  SumFunction(f) = (CHOOSE sum : Sums(f, SUBSET DOMAIN f, sum))[DOMAIN f]
BY DEF SumFunction, SumFunctionOnSet, FoldFunctionOnSet, MapThenFoldSet, Sums, First

LEMMA FirstIsIn == ASSUME NEW s, s # {} PROVE First(s) \in s
BY DEF First

\* The recursion has a solution on the subsets of S that have at most n
\* elements, for every n, and so on all of them.
LEMMA SumsExist ==
  ASSUME NEW S, IsFiniteSet(S), NEW f
  PROVE  \E sum : Sums(f, SUBSET S, sum)
<1> DEFINE Upto(n)  == {s \in SUBSET S : Cardinality(s) <= n}
           Fails == {n \in Nat : ~ \E sum : Sums(f, Upto(n), sum)}
<1>1. \A s \in SUBSET S : IsFiniteSet(s) /\ Cardinality(s) \in Nat
  BY FS_Subset, FS_CardinalityType
<1>2. ~ 0 \in Fails
  <2>1. \A s \in Upto(0) : s = {}
    BY <1>1, FS_EmptySet
  <2>2. Sums(f, Upto(0), [s \in Upto(0) |-> 0])
    BY <2>1 DEF Sums
  <2> QED
    BY <2>2
<1>3. ASSUME NEW n \in Nat, ~ n \in Fails
      PROVE  ~ n + 1 \in Fails
  <2>1. PICK sum : Sums(f, Upto(n), sum)
    BY <1>3
  <2> DEFINE next == [s \in Upto(n + 1) |-> IF s = {} THEN 0
                                            ELSE f[First(s)] + sum[s \ {First(s)}]]
  <2>2. Upto(n) \subseteq Upto(n + 1)
    BY <1>1
  <2>3. \A s \in Upto(n) : next[s] = sum[s]
    BY <2>1, <2>2 DEF Sums
  <2>4. ASSUME NEW s \in Upto(n + 1), s # {}
        PROVE  s \ {First(s)} \in Upto(n)
    <3>1. Cardinality(s \ {First(s)}) = Cardinality(s) - 1
      BY <1>1, <2>4, FirstIsIn, FS_RemoveElement
    <3> QED
      BY <1>1, <3>1
  <2>5. \A s \in Upto(n + 1) :
          next[s] = IF s = {} THEN 0 ELSE f[First(s)] + next[s \ {First(s)}]
    BY <2>3, <2>4
  <2>6. Sums(f, Upto(n + 1), next)
    <3> HIDE DEF Upto
    <3> QED
      BY <2>5 DEF Sums
  <2> QED
    BY <2>6
<1>4. Fails = {}
  <2> SUFFICES ASSUME Fails # {} PROVE FALSE
    OBVIOUS
  <2>1. PICK n \in Fails : \A m \in Fails : n <= m
    BY LeastNatural
  <2>2. n # 0 /\ n \in Nat
    BY <1>2
  <2> HIDE DEF Fails
  <2>3. n - 1 \in Nat /\ ~ n - 1 \in Fails
    BY <2>1, <2>2
  <2>4. ~ (n - 1) + 1 \in Fails
    BY <1>3, <2>3
  <2> QED
    BY <2>1, <2>2, <2>4
<1>5. Upto(Cardinality(S)) = SUBSET S
  BY FS_Subset
<1>6. Cardinality(S) \in Nat
  BY FS_CardinalityType
<1>7. \E sum : Sums(f, Upto(Cardinality(S)), sum)
  BY <1>4, <1>6
<1> QED
  BY <1>5, <1>7

\* SumFunction adds the values of f one by one.
SumUpto(f) == CHOOSE sum : Sums(f, SUBSET DOMAIN f, sum)

\* The sum of f over the subset s of its domain, and s without its first element.
SumOf(f, s) == SumUpto(f)[s]

Rest(s) == s \ {First(s)}

LEMMA SumUptoSums ==
  ASSUME NEW S, IsFiniteSet(S), NEW f \in [S -> Int]
  PROVE  Sums(f, SUBSET S, SumUpto(f)) /\ SumFunction(f) = SumOf(f, S)
<1>1. DOMAIN f = S
  OBVIOUS
<1>2. Sums(f, SUBSET S, SumUpto(f))
  BY <1>1, SumsExist DEF SumUpto
<1>3. SumFunction(f) = SumOf(f, S)
  BY <1>1, SumFunctionDef DEF SumUpto, SumOf
<1> QED
  BY <1>2, <1>3

Adds(f, S) ==
  /\ SumOf(f, {}) = 0
  /\ \A s \in SUBSET S : s # {} => SumOf(f, s) = f[First(s)] + SumOf(f, Rest(s))

LEMMA SumAdds ==
  ASSUME NEW S, IsFiniteSet(S), NEW f \in [S -> Int]
  PROVE  Adds(f, S)
<1>1. Sums(f, SUBSET S, SumUpto(f))
  BY SumUptoSums
<1> QED
  BY <1>1 DEF Sums, Adds, SumOf, Rest

\* A set of subsets of S that has the empty set, and every set that it has
\* without its first element, has S.
LEMMA SetInduction ==
  ASSUME NEW S, IsFiniteSet(S), NEW Good, {} \in Good,
         \A s \in SUBSET S : s # {} /\ Rest(s) \in Good => s \in Good
  PROVE  S \in Good
<1> DEFINE Bad == {n \in Nat : \E s \in SUBSET S : Cardinality(s) = n /\ ~ s \in Good}
<1>1. \A s \in SUBSET S : IsFiniteSet(s) /\ Cardinality(s) \in Nat
  BY FS_Subset, FS_CardinalityType
<1>2. Bad = {}
  <2> SUFFICES ASSUME Bad # {} PROVE FALSE
    OBVIOUS
  <2>1. PICK n \in Bad : \A m \in Bad : n <= m
    BY LeastNatural
  <2>2. PICK s \in SUBSET S : Cardinality(s) = n /\ ~ s \in Good
    OBVIOUS
  <2>3. s # {} /\ ~ Rest(s) \in Good /\ Rest(s) \in SUBSET S
    BY <2>2 DEF Rest
  <2>4. Cardinality(Rest(s)) = n - 1
    BY <1>1, <2>2, <2>3, FirstIsIn, FS_RemoveElement DEF Rest
  <2>5. n - 1 \in Bad
    BY <1>1, <2>2, <2>3, <2>4
  <2> QED
    BY <2>1, <2>5
<1> QED
  BY <1>1, <1>2

LEMMA TwoSums ==
  ASSUME NEW a \in Int, NEW b \in Int, NEW m \in Int, NEW n \in Int
  PROVE  /\ a + m \in Int /\ b + n \in Int
         /\ (a + m) - (b + n) = (a - b) + (m - n)
OBVIOUS

\* The sum of a function that differs at one point differs by as much.
LEMMA SumChangesAt ==
  ASSUME NEW S, IsFiniteSet(S), NEW f \in [S -> Int], NEW g \in [S -> Int],
         NEW c \in S, \A x \in S \ {c} : f[x] = g[x]
  PROVE  /\ SumFunction(f) \in Int /\ SumFunction(g) \in Int
         /\ SumFunction(g) - SumFunction(f) = g[c] - f[c]
<1> DEFINE Good == {s \in SUBSET S : /\ SumOf(f, s) \in Int /\ SumOf(g, s) \in Int
                                     /\ SumOf(g, s) - SumOf(f, s) =
                                          IF c \in s THEN g[c] - f[c] ELSE 0}
<1>a. Adds(f, S) /\ Adds(g, S)
  BY SumAdds
<1>1. {} \in Good
  <2>1. SumOf(f, {}) = 0 /\ SumOf(g, {}) = 0
    BY <1>a DEF Adds
  <2> QED
    BY <2>1
<1>2. ASSUME NEW s \in SUBSET S, s # {}, Rest(s) \in Good
      PROVE  s \in Good
  <2> DEFINE x == First(s)  r == Rest(s)
  <2>1. x \in s /\ x \in S
    BY <1>2, FirstIsIn
  <2>2. /\ SumOf(f, s) = f[x] + SumOf(f, r)
        /\ SumOf(g, s) = g[x] + SumOf(g, r)
    BY <1>2, <1>a DEF Adds
  <2>3. (c \in r <=> c \in s /\ c # x) /\ x \in s
    BY <2>1 DEF Rest
  <2>4. /\ SumOf(f, r) \in Int /\ SumOf(g, r) \in Int
        /\ SumOf(g, r) - SumOf(f, r) =
             IF c \in r THEN g[c] - f[c] ELSE 0
    BY <1>2
  <2>5. /\ f[x] \in Int /\ g[x] \in Int /\ f[c] \in Int /\ g[c] \in Int
        /\ x # c => f[x] = g[x]
    BY <2>1
  <2> HIDE DEF x, r, Good
  <2>6. /\ SumOf(f, s) \in Int /\ SumOf(g, s) \in Int
        /\ SumOf(g, s) - SumOf(f, s) = IF c \in s THEN g[c] - f[c] ELSE 0
    <3>1. /\ SumOf(f, s) \in Int /\ SumOf(g, s) \in Int
          /\ SumOf(g, s) - SumOf(f, s) = (g[x] - f[x]) + (SumOf(g, r) - SumOf(f, r))
      BY <2>2, <2>4, <2>5, TwoSums
    <3>2. CASE x = c
      <4>1. SumOf(g, r) - SumOf(f, r) = 0 /\ c \in s
        BY <2>3, <2>4, <3>2
      <4> QED
        BY <2>5, <3>1, <3>2, <4>1
    <3>3. CASE x # c
      <4>1. g[x] - f[x] = 0 /\ (c \in s <=> c \in r)
        BY <2>3, <2>5, <3>3
      <4>2. SumOf(g, r) - SumOf(f, r) \in Int
        BY <2>4
      <4>3. SumOf(g, s) - SumOf(f, s) = SumOf(g, r) - SumOf(f, r)
        BY <3>1, <4>1, <4>2
      <4> QED
        BY <2>4, <3>1, <4>1, <4>3
    <3> QED
      BY <3>2, <3>3
  <2> QED
    BY <2>6 DEF Good
<1>3. S \in Good
  <2> HIDE DEF Good
  <2> QED
    BY <1>1, <1>2, SetInduction
<1> QED
  BY <1>3, SumUptoSums

\* A function nowhere above another has no larger sum.
LEMMA SumMonotone ==
  ASSUME NEW S, IsFiniteSet(S), NEW f \in [S -> Int], NEW g \in [S -> Int],
         \A x \in S : f[x] <= g[x]
  PROVE  /\ SumFunction(f) \in Int /\ SumFunction(g) \in Int
         /\ SumFunction(f) <= SumFunction(g)
<1> DEFINE Good == {s \in SUBSET S : /\ SumOf(f, s) \in Int /\ SumOf(g, s) \in Int
                                     /\ SumOf(f, s) <= SumOf(g, s)}
<1>a. Adds(f, S) /\ Adds(g, S)
  BY SumAdds
<1>1. {} \in Good
  <2>1. SumOf(f, {}) = 0 /\ SumOf(g, {}) = 0
    BY <1>a DEF Adds
  <2> QED
    BY <2>1
<1>2. ASSUME NEW s \in SUBSET S, s # {}, Rest(s) \in Good
      PROVE  s \in Good
  <2> DEFINE x == First(s)  r == Rest(s)
  <2>1. x \in S
    BY <1>2, FirstIsIn
  <2>2. /\ SumOf(f, s) = f[x] + SumOf(f, r)
        /\ SumOf(g, s) = g[x] + SumOf(g, r)
    BY <1>2, <1>a DEF Adds
  <2>3. /\ SumOf(f, r) \in Int /\ SumOf(g, r) \in Int
        /\ SumOf(f, r) <= SumOf(g, r)
    BY <1>2
  <2>4. f[x] \in Int /\ g[x] \in Int /\ f[x] <= g[x]
    BY <2>1
  <2> HIDE DEF x, r, Good
  <2>5. /\ SumOf(f, s) \in Int /\ SumOf(g, s) \in Int
        /\ SumOf(f, s) <= SumOf(g, s)
    BY <2>2, <2>3, <2>4, SMTT(30)
  <2> QED
    BY <2>5 DEF Good
<1>3. S \in Good
  <2> HIDE DEF Good
  <2> QED
    BY <1>1, <1>2, SetInduction
<1> QED
  BY <1>3, SumUptoSums

\* No values, or only zeros, sum to 0.
LEMMA SumOfZeros ==
  ASSUME NEW S, IsFiniteSet(S), NEW f \in [S -> Int], \A x \in S : f[x] = 0
  PROVE  SumFunction(f) = 0
<1> DEFINE Good == {s \in SUBSET S : SumOf(f, s) = 0}
<1>a. Adds(f, S)
  BY SumAdds
<1>1. {} \in Good
  <2>1. SumOf(f, {}) = 0
    BY <1>a DEF Adds
  <2> QED
    BY <2>1
<1>2. ASSUME NEW s \in SUBSET S, s # {}, Rest(s) \in Good
      PROVE  s \in Good
  <2> DEFINE x == First(s)  r == Rest(s)
  <2>1. x \in S
    BY <1>2, FirstIsIn
  <2>2. SumOf(f, s) = f[x] + SumOf(f, r)
    BY <1>2, <1>a DEF Adds
  <2>3. SumOf(f, r) = 0
    BY <1>2
  <2>4. f[x] = 0
    BY <2>1
  <2> HIDE DEF x, r, Good
  <2>5. SumOf(f, s) = 0
    BY <2>2, <2>3, <2>4, SMTT(30)
  <2> QED
    BY <2>5 DEF Good
<1>3. S \in Good
  <2> HIDE DEF Good
  <2> QED
    BY <1>1, <1>2, SetInduction
<1> QED
  BY <1>3, SumUptoSums

\* The sum of a difference is the difference of the sums.
LEMMA SumOfDifference ==
  ASSUME NEW S, IsFiniteSet(S), NEW f \in [S -> Int], NEW g \in [S -> Int],
         NEW h \in [S -> Int], \A x \in S : h[x] = f[x] - g[x]
  PROVE  /\ SumFunction(f) \in Int /\ SumFunction(g) \in Int
         /\ SumFunction(h) = SumFunction(f) - SumFunction(g)
<1> DEFINE Good == {s \in SUBSET S : /\ SumOf(f, s) \in Int /\ SumOf(g, s) \in Int
                                     /\ SumOf(h, s) = SumOf(f, s) - SumOf(g, s)}
<1>a. Adds(f, S) /\ Adds(g, S) /\ Adds(h, S)
  BY SumAdds
<1>1. {} \in Good
  <2>1. SumOf(f, {}) = 0 /\ SumOf(g, {}) = 0 /\ SumOf(h, {}) = 0
    BY <1>a DEF Adds
  <2> QED
    BY <2>1
<1>2. ASSUME NEW s \in SUBSET S, s # {}, Rest(s) \in Good
      PROVE  s \in Good
  <2> DEFINE x == First(s)  r == Rest(s)
  <2>1. x \in S
    BY <1>2, FirstIsIn
  <2>2. /\ SumOf(f, s) = f[x] + SumOf(f, r)
        /\ SumOf(g, s) = g[x] + SumOf(g, r)
        /\ SumOf(h, s) = h[x] + SumOf(h, r)
    BY <1>2, <1>a DEF Adds
  <2>3. /\ SumOf(f, r) \in Int /\ SumOf(g, r) \in Int
        /\ SumOf(h, r) = SumOf(f, r) - SumOf(g, r)
    BY <1>2
  <2>4. /\ f[x] \in Int /\ g[x] \in Int
        /\ h[x] = f[x] - g[x]
    BY <2>1
  <2> HIDE DEF x, r, Good
  <2>5. /\ SumOf(f, s) \in Int /\ SumOf(g, s) \in Int
        /\ SumOf(h, s) = SumOf(f, s) - SumOf(g, s)
    <3>1. /\ SumOf(f, s) \in Int /\ SumOf(g, s) \in Int
          /\ SumOf(f, s) - SumOf(g, s) = (f[x] - g[x]) + (SumOf(f, r) - SumOf(g, r))
      BY <2>2, <2>3, <2>4, TwoSums
    <3>2. SumOf(h, s) = (f[x] - g[x]) + (SumOf(f, r) - SumOf(g, r))
      BY <2>2, <2>3, <2>4
    <3> QED
      BY <3>1, <3>2
  <2> QED
    BY <2>5 DEF Good
<1>3. S \in Good
  <2> HIDE DEF Good
  <2> QED
    BY <1>1, <1>2, SetInduction
<1> QED
  BY <1>3, SumUptoSums

-----------------------------------------------------------------------------
(* The counters, over all the consumers *)

\* What all the consumers have settled.
SettledBy == [c \in Consumers |-> Settled(c)]

Accounted == Counted = SumFunction(SettledBy)

Integral == Counted \in Int /\ SettledBy \in [Consumers -> Int]

LEMMA SettledTypes ==
  ASSUME ChannelIInv
  PROVE  /\ Integral
         /\ [c \in Consumers |-> Pending(c)] \in [Consumers -> Int]
         /\ [c \in Consumers |-> cursor[c] - start[c]] \in [Consumers -> Int]
<1>1. ASSUME NEW c \in Consumers
      PROVE  cursor[c] - start[c] \in Int /\ Pending(c) \in Int
  <2>1. cursor[c] \in Nat /\ pre_pos[c] \in Nat /\ start[c] \in Nat
    BY DEF ChannelIInv, ChannelTypeOK, TypeOK
  <2> QED
    BY <2>1 DEF Pending
<1>2. Counted \in Int
  BY DEF ChannelIInv, ChannelTypeOK, Counted
<1> QED
  BY <1>1, <1>2 DEF Integral, SettledBy, Settled

LEMMA AccountedNext ==
  ASSUME ChannelIInv, Integral, Integral', [ChannelNext]_chvars, Accounted
  PROVE  Accounted'
<1> USE DEF Accounted
<1>1. CASE Counted' = Counted /\ \A c \in Consumers : Settled(c)' = Settled(c)
  <2>1. SettledBy' = SettledBy
    BY <1>1 DEF SettledBy
  <2> QED
    BY <1>1, <2>1
<1>2. ASSUME NEW c \in Consumers, Counted' - Counted = Settled(c)' - Settled(c),
             \A d \in Consumers \ {c} : Settled(d)' = Settled(d)
      PROVE  Accounted'
  <2>1. /\ Counted \in Int /\ Counted' \in Int
        /\ SettledBy \in [Consumers -> Int] /\ SettledBy' \in [Consumers -> Int]
    BY DEF Integral
  <2>2. /\ \A d \in Consumers \ {c} : SettledBy[d] = SettledBy'[d]
        /\ Counted' - Counted = SettledBy'[c] - SettledBy[c]
    BY <1>2 DEF SettledBy
  <2>3. /\ SumFunction(SettledBy) \in Int /\ SumFunction(SettledBy') \in Int
        /\ SumFunction(SettledBy') - SumFunction(SettledBy) = SettledBy'[c] - SettledBy[c]
    BY <2>1, <2>2, SumChangesAt, ChannelAssumption
  <2> QED
    BY <2>1, <2>2, <2>3
<1>3. CASE UNCHANGED chvars
  BY <1>1, <1>3 DEF chvars, stats, cvars2, aux, vars, cvars, Counted, Settled, Pending
<1> QED
  BY <1>1, <1>2, <1>3, StepSettles DEF CountsWhatIsSettled

LEMMA AllAccounted == ChannelSpec => []Accounted
<1>1. ChannelInit /\ ChannelIInv => Accounted
  <2> SUFFICES ASSUME ChannelInit, ChannelIInv
               PROVE  Accounted
    OBVIOUS
  <2>1. Counted = 0
    BY DEF ChannelInit, Counted
  <2>2. \A c \in Consumers : SettledBy[c] = 0
    BY DEF ChannelInit, Init, SettledBy, Settled, Pending
  <2> QED
    BY <2>1, <2>2, SettledTypes, SumOfZeros, ChannelAssumption DEF Accounted, Integral
<1>2. ChannelIInv => Integral
  BY SettledTypes
<1> QED
  BY <1>1, <1>2, AccountedNext, ChannelInvariance, PTL DEF ChannelSpec

\* Every position that a cursor passed is counted once, as received or as
\* dropped, or is skipped by a try_receive() that returned false, or is still
\* to be counted by a call in progress; for any number of threads in
\* try_receive().
THEOREM PositionsAreAccounted == ChannelSpec => []EveryPositionAccounted
<1>1. ASSUME ChannelIInv, Accounted
      PROVE  EveryPositionAccounted
  <2> DEFINE moved == [c \in Consumers |-> cursor[c] - start[c]]
             pending == [c \in Consumers |-> Pending(c)]
  <2>1. /\ SettledBy \in [Consumers -> Int]
        /\ moved \in [Consumers -> Int] /\ pending \in [Consumers -> Int]
    BY <1>1, SettledTypes DEF Integral
  <2>2. \A c \in Consumers : SettledBy[c] = moved[c] - pending[c]
    BY DEF SettledBy, Settled
  <2> HIDE DEF moved, pending
  <2>3. /\ SumFunction(moved) \in Int /\ SumFunction(pending) \in Int
        /\ SumFunction(SettledBy) = SumFunction(moved) - SumFunction(pending)
    BY <2>1, <2>2, SumOfDifference, ChannelAssumption
  <2>4. Counted + SumFunction(pending) = SumFunction(moved)
    BY <1>1, <2>3 DEF Accounted
  <2> QED
    BY <2>4 DEF Counted, EveryPositionAccounted, Advanced, moved, pending
<1> QED
  BY <1>1, ChannelInvariance, AllAccounted, PTL

\* stats() of the two sides agree: received and dropped together never exceed
\* what was published since the cursors were made, and no counter wraps.
THEOREM ChannelInvariant == ChannelSpec => []ChannelInv
<1>1. ASSUME ChannelIInv, SettledWithinPublished, Accounted
      PROVE  StatsWithinPublished
  <2> DEFINE published == [c \in Consumers |-> IF cstate[c] = "none" THEN 0
                                               ELSE sequence_ - start[c]]
  <2>1. ASSUME NEW c \in Consumers
        PROVE  published[c] \in Int /\ SettledBy[c] <= published[c]
    <3>1. sequence_ \in Nat /\ start[c] \in Nat /\ cursor[c] \in Nat
      BY <1>1 DEF ChannelIInv, ChannelTypeOK, TypeOK
    <3>2. CASE cstate[c] = "none"
      BY <1>1, <3>1, <3>2 DEF ChannelIInv, CallInv, Call, SettledBy, Settled, Pending
    <3>3. CASE cstate[c] # "none"
      BY <1>1, <3>1, <3>3 DEF SettledWithinPublished, SettledBy
    <3> QED
      BY <3>2, <3>3
  <2>2. published \in [Consumers -> Int] /\ SettledBy \in [Consumers -> Int]
    BY <1>1, <2>1, SettledTypes DEF Integral
  <2>3. \A c \in Consumers : SettledBy[c] <= published[c]
    BY <2>1
  <2> HIDE DEF published
  <2>4. /\ SumFunction(SettledBy) \in Int /\ SumFunction(published) \in Int
        /\ SumFunction(SettledBy) <= SumFunction(published)
    BY <2>2, <2>3, SumMonotone, ChannelAssumption
  <2>5. received + dropped <= Counted
    BY <1>1 DEF ChannelIInv, ChannelTypeOK, Counted
  <2>6. received + dropped <= SumFunction(published)
    BY <1>1, <2>4, <2>5 DEF Accounted, ChannelIInv, ChannelTypeOK
  <2> QED
    BY <2>6 DEF StatsWithinPublished, published
<1>2. ChannelIInv => ChannelTypeOK
  BY DEF ChannelIInv
<1>3. ChannelIInv /\ SettledWithinPublished /\ Accounted => ChannelInv
  BY <1>1, <1>2 DEF ChannelInv
<1> QED
  BY <1>3, ChannelInvariance, SettledIsPublished, AllAccounted, PTL
=============================================================================
