--------------------------- MODULE MpmcRingProofs ---------------------------
(***************************************************************************)
(* Proofs about MpmcRing, for every capacity of at least two, any threads, *)
(* any items and any number of operations, with or without spurious        *)
(* failures of the CAS.                                                    *)
(***************************************************************************)
EXTENDS MpmcRing, TLAPS
-----------------------------------------------------------------------------
(* What pos & kMask, the remainder modulo the capacity, tells of a position *)

\* No multiple of n lies strictly between 0 and n.
LEMMA NoMultipleBetween ==
  ASSUME NEW n \in Nat, NEW d \in Int, 0 < n * d, n * d < n
  PROVE  FALSE
<1>1. CASE d <= 0
  <2>1. n * (-d) >= 0
    BY <1>1
  <2>2. QED
    BY <2>1
<1>2. CASE d >= 1
  <2>1. n * (d - 1) >= 0
    BY <1>2
  <2>2. QED
    BY <2>1
<1>3. QED
  BY <1>1, <1>2

\* Two positions less than n apart have different indices (slots_[pos & kMask]).
LEMMA IndexInjective ==
  ASSUME NEW n \in Nat \ {0}, NEW j \in Int, NEW k \in Int, j < k, k - j < n
  PROVE  j % n # k % n
<1> DEFINE qj == j \div n  qk == k \div n
<1>1. /\ qj \in Int /\ qk \in Int /\ j % n \in Int /\ k % n \in Int
      /\ j = n * qj + (j % n) /\ k = n * qk + (k % n)
  OBVIOUS
<1> HIDE DEF qj, qk
<1>2. SUFFICES ASSUME j % n = k % n PROVE FALSE
  OBVIOUS
<1>3. k - j = n * (qk - qj)
  BY <1>1, <1>2
<1>4. 0 < n * (qk - qj) /\ n * (qk - qj) < n
  BY <1>3
<1>5. QED
  BY <1>1, <1>4, NoMultipleBetween

\* Positions one round apart have the same index (the round that pop() makes
\* a slot ready for, mpmc_ring_buffer.hpp:122).
LEMMA IndexOfNextRound ==
  ASSUME NEW n \in Nat \ {0}, NEW k \in Int
  PROVE  (k + n) % n = k % n
<1> DEFINE r == k % n  s == (k + n) % n  p == k \div n  q == (k + n) \div n
<1>1. /\ p \in Int /\ q \in Int /\ r \in 0 .. n - 1 /\ s \in 0 .. n - 1
      /\ k = n * p + r /\ k + n = n * q + s
  OBVIOUS
<1> HIDE DEF p, q, r, s
<1>2. r - s = n * (q - p - 1) /\ s - r = n * (p + 1 - q)
  BY <1>1
<1>3. ~(r > s)
  BY <1>1, <1>2, NoMultipleBetween
<1>4. ~(s > r)
  BY <1>1, <1>2, NoMultipleBetween
<1>5. r = s
  BY <1>1, <1>3, <1>4
<1>6. QED
  BY <1>5 DEF r, s

\* In the first round the index is the position (the constructor seeds each
\* slot's sequence with its index, mpmc_ring_buffer.hpp:58).
LEMMA IndexOfFirstRound ==
  ASSUME NEW n \in Nat \ {0}, NEW k \in 0 .. n - 1
  PROVE  k % n = k
<1> DEFINE r == k % n  q == k \div n
<1>1. q \in Int /\ r \in 0 .. n - 1 /\ k = n * q + r
  OBVIOUS
<1> HIDE DEF q, r
<1>2. k - r = n * q /\ r - k = n * (-q)
  BY <1>1
<1>3. ~(k > r)
  BY <1>1, <1>2, NoMultipleBetween
<1>4. ~(r > k)
  BY <1>1, <1>2, NoMultipleBetween
<1>5. r = k
  BY <1>1, <1>3, <1>4
<1>6. QED
  BY <1>5 DEF r
-----------------------------------------------------------------------------
(***************************************************************************)
(* The inductive invariant.  The Capacity positions from read_pos on have  *)
(* a slot each: those below write_pos hold an item, or wait for the thread *)
(* that claimed them; the others are free, or wait for the thread that     *)
(* reads the item of the round before.                                     *)
(***************************************************************************)
Ready(k) == sequence[Slot(k)] = k + 1 /\ data[Slot(k)] = pushed[k + 1]

SlotsInv ==
  /\ \A k \in read_pos .. write_pos - 1 :
       Ready(k) \/ \E t \in Threads : Writing(t) /\ pos[t] = k
  /\ \A k \in write_pos .. read_pos + Capacity - 1 :
       sequence[Slot(k)] = k \/ \E t \in Threads : Reading(t) /\ pos[t] = k - Capacity

\* A thread between its CAS in push() and its sequence store.
WriterInv ==
  \A t \in Threads : Writing(t) =>
    /\ pos[t] \in read_pos .. write_pos - 1
    /\ sequence[Slot(pos[t])] = pos[t]
    /\ item[t] = pushed[pos[t] + 1]
    /\ pc[t] = "push_ready" => data[Slot(pos[t])] = pushed[pos[t] + 1]

\* A thread between its CAS in pop() and its sequence store.
ReaderInv ==
  \A t \in Threads : Reading(t) =>
    /\ pos[t] + Capacity \in write_pos .. read_pos + Capacity - 1
    /\ sequence[Slot(pos[t])] = pos[t] + 1
    /\ data[Slot(pos[t])] = pushed[pos[t] + 1]
    /\ pc[t] = "pop_free" => out[t] = pushed[pos[t] + 1]

\* No position is claimed twice on the same side.
ClaimedOnce ==
  \A t, u \in Threads : t # u =>
    /\ Writing(t) /\ Writing(u) => pos[t] # pos[u]
    /\ Reading(t) /\ Reading(u) => pos[t] # pos[u]

\* What a thread found is still so when its CAS will succeed.
CasInv ==
  \A t \in Threads :
    /\ pc[t] \in PushPC => item[t] \in Items /\ pos[t] <= write_pos
    /\ pc[t] \in PopPC => pos[t] <= read_pos
    /\ pc[t] = "push_cas" /\ pos[t] = write_pos => sequence[Slot(pos[t])] = pos[t]
    /\ pc[t] = "pop_cas" /\ pos[t] = read_pos => sequence[Slot(pos[t])] = pos[t] + 1

\* Sequences never fall behind the positions that were claimed.
PastInv ==
  /\ \A k \in 0 .. write_pos - 1 : sequence[Slot(k)] >= k
  /\ \A k \in 0 .. read_pos - 1 : sequence[Slot(k)] >= k + 1

SizeInv ==
  \A t \in Threads : (pc[t] = "size" => pos[t] <= write_pos) /\ size[t] <= Capacity

IInv ==
  /\ TypeOK /\ Len(pushed) = write_pos
  /\ SlotsInv /\ WriterInv /\ ReaderInv /\ ClaimedOnce
  /\ CasInv /\ PastInv /\ SizeInv
-----------------------------------------------------------------------------
(* Sequences *)

LEMMA SeqIsFunction ==
  ASSUME NEW S, NEW q \in Seq(S)
  PROVE  q = [i \in 1 .. Len(q) |-> q[i]] /\ \A i \in 1 .. Len(q) : q[i] \in S
<1>1. q = [i \in 1 .. Len(q) |-> q[i]]
  OBVIOUS
<1>2. \A i \in 1 .. Len(q) : q[i] \in S
  OBVIOUS
<1>3. QED
  BY <1>1, <1>2

LEMMA AppendAt ==
  ASSUME NEW S, NEW q \in Seq(S), NEW e \in S
  PROVE  /\ Append(q, e) \in Seq(S) /\ Len(Append(q, e)) = Len(q) + 1
         /\ \A i \in 1 .. Len(q) : Append(q, e)[i] = q[i]
         /\ Append(q, e)[Len(q) + 1] = e
<1>1. Append(q, e) \in Seq(S) /\ Len(Append(q, e)) = Len(q) + 1
  OBVIOUS
<1>2. \A i \in 1 .. Len(q) : Append(q, e)[i] = q[i]
  OBVIOUS
<1>3. Append(q, e)[Len(q) + 1] = e
  OBVIOUS
<1>4. QED
  BY <1>1, <1>2, <1>3

LEMMA TailAt ==
  ASSUME NEW S, NEW q \in Seq(S), q # <<>>
  PROVE  /\ Tail(q) \in Seq(S) /\ Len(Tail(q)) = Len(q) - 1
         /\ \A i \in 1 .. Len(q) - 1 : Tail(q)[i] = q[i + 1]
<1>1. Tail(q) \in Seq(S) /\ Len(Tail(q)) = Len(q) - 1
  OBVIOUS
<1>2. \A i \in 1 .. Len(q) - 1 : Tail(q)[i] = q[i + 1]
  OBVIOUS
<1>3. QED
  BY <1>1, <1>2

-----------------------------------------------------------------------------
(* Positions and slots *)

\* pos & kMask is always the index of a slot.
LEMMA SlotInRange == \A k \in Int : Slot(k) \in Slots
  BY MpmcAssumption DEF Slot, Slots

\* A slot serves one position of a round at a time.
LEMMA SlotNextRound == \A k \in Int : Slot(k + Capacity) = Slot(k)
<1>1. Capacity \in Nat \ {0}
  BY MpmcAssumption
<1>2. \A k \in Int : (k + Capacity) % Capacity = k % Capacity
  BY <1>1, IndexOfNextRound, Zenon
<1>3. QED
  BY <1>2, Zenon DEF Slot

\* The Capacity positions from read_pos on have a slot each.
LEMMA WindowInjective ==
  ASSUME TypeOK, NEW j \in read_pos .. read_pos + Capacity - 1,
         NEW k \in read_pos .. read_pos + Capacity - 1, j # k
  PROVE  Slot(j) # Slot(k)
<1>1. j \in Int /\ k \in Int /\ Capacity \in Nat \ {0}
  BY MpmcAssumption DEF TypeOK
<1>2. CASE j < k
  <2>1. k - j < Capacity
    BY MpmcAssumption DEF TypeOK
  <2>2. QED
    BY <1>1, <1>2, <2>1, IndexInjective, Zenon DEF Slot
<1>3. CASE k < j
  <2>1. j - k < Capacity
    BY MpmcAssumption DEF TypeOK
  <2>2. QED
    BY <1>1, <1>3, <2>1, IndexInjective DEF Slot
<1>4. QED
  BY <1>1, <1>2, <1>3

\* Where in that window the slot is that a thread works on.
Place(t) == IF Writing(t) THEN pos[t] ELSE pos[t] + Capacity

LEMMA Places ==
  ASSUME IInv, NEW t \in Threads, Writing(t) \/ Reading(t)
  PROVE  /\ Place(t) \in read_pos .. read_pos + Capacity - 1
         /\ Slot(Place(t)) = Slot(pos[t])
<1>1. pos[t] \in Nat /\ Capacity \in Nat
  BY MpmcAssumption DEF IInv, TypeOK
<1>2. CASE Writing(t)
  BY <1>1, <1>2 DEF IInv, TypeOK, WriterInv, Place
<1>3. CASE Reading(t)
  <2>1. ~Writing(t)
    BY <1>3 DEF Reading, Writing
  <2>2. pos[t] + Capacity \in write_pos .. read_pos + Capacity - 1
    BY <1>3 DEF IInv, ReaderInv
  <2>3. Place(t) = pos[t] + Capacity
    BY <2>1 DEF Place
  <2>4. Slot(pos[t] + Capacity) = Slot(pos[t])
    BY <1>1, SlotNextRound
  <2>5. write_pos \in Nat /\ read_pos \in Nat /\ read_pos <= write_pos
    BY DEF IInv, TypeOK
  <2>6. QED
    BY <1>1, <2>2, <2>3, <2>4, <2>5
<1>4. QED
  BY <1>2, <1>3

\* Threads that have claimed a position work on different slots.
LEMMA Exclusive == IInv => SlotExclusive
<1> SUFFICES ASSUME IInv, NEW t \in Threads, NEW u \in Threads, t # u,
                    Writing(t) \/ Reading(t), Writing(u) \/ Reading(u)
             PROVE  Slot(pos[t]) # Slot(pos[u])
  BY DEF SlotExclusive
<1>1. Place(t) # Place(u)
  <2>1. /\ pos[t] \in Nat /\ pos[u] \in Nat /\ Capacity \in Nat
        /\ write_pos \in Nat /\ read_pos \in Nat
    BY MpmcAssumption DEF IInv, TypeOK
  <2>2. \A v \in {t, u} : Writing(v) => pos[v] < write_pos
    BY <2>1 DEF IInv, WriterInv
  <2>3. \A v \in {t, u} : Reading(v) => pos[v] + Capacity >= write_pos
    BY <2>1 DEF IInv, ReaderInv
  <2>4. \A v \in {t, u} : ~(Writing(v) /\ Reading(v))
    BY DEF Writing, Reading
  <2>5. /\ Writing(t) /\ Writing(u) => pos[t] # pos[u]
        /\ Reading(t) /\ Reading(u) => pos[t] # pos[u]
    BY DEF IInv, ClaimedOnce
  <2>6. QED
    BY <2>1, <2>2, <2>3, <2>4, <2>5 DEF Place
<1>2. QED
  BY <1>1, Places, WindowInjective DEF IInv

\* A push() whose CAS is about to succeed has a slot to itself.
LEMMA FreeForPush ==
  ASSUME IInv, NEW t \in Threads, pc[t] = "push_cas", pos[t] = write_pos
  PROVE  /\ write_pos < read_pos + Capacity
         /\ sequence[Slot(write_pos)] = write_pos
         /\ \A u \in Threads : Reading(u) => pos[u] # write_pos - Capacity
<1>1. /\ write_pos \in Nat /\ read_pos \in Nat /\ Capacity \in Nat /\ Capacity >= 2
      /\ write_pos - read_pos \in 0 .. Capacity
  BY MpmcAssumption DEF IInv, TypeOK
<1>2. sequence[Slot(write_pos)] = write_pos
  BY DEF IInv, CasInv
<1>3. write_pos # read_pos + Capacity
  <2>1. SUFFICES ASSUME write_pos = read_pos + Capacity PROVE FALSE
    OBVIOUS
  <2>2. Slot(write_pos) = Slot(read_pos)
    BY <1>1, <2>1, SlotNextRound
  <2>3. read_pos \in read_pos .. write_pos - 1
    BY <1>1, <2>1
  <2>4. CASE Ready(read_pos)
    BY <1>1, <1>2, <2>1, <2>2, <2>4 DEF Ready
  <2>5. ASSUME NEW u \in Threads, Writing(u), pos[u] = read_pos PROVE FALSE
    <3>1. sequence[Slot(read_pos)] = read_pos
      BY <2>5 DEF IInv, WriterInv
    <3>2. QED
      BY <1>1, <1>2, <2>1, <2>2, <3>1
  <2>6. QED
    BY <2>3, <2>4, <2>5 DEF IInv, SlotsInv
<1>4. ASSUME NEW u \in Threads, Reading(u), pos[u] = write_pos - Capacity PROVE FALSE
  <2>1. pos[u] \in Nat /\ sequence[Slot(pos[u])] = pos[u] + 1
    BY <1>4 DEF IInv, TypeOK, ReaderInv
  <2>2. Slot(pos[u]) = Slot(write_pos)
    <3>1. pos[u] + Capacity = write_pos
      BY <1>1, <1>4
    <3>2. QED
      BY <2>1, <3>1, SlotNextRound
  <2>3. QED
    BY <1>1, <1>2, <1>4, <2>1, <2>2
<1>5. QED
  BY <1>1, <1>2, <1>3, <1>4

\* A pop() whose CAS is about to succeed has an item that is complete.
LEMMA ReadyForPop ==
  ASSUME IInv, NEW t \in Threads, pc[t] = "pop_cas", pos[t] = read_pos
  PROVE  /\ read_pos < write_pos
         /\ Ready(read_pos)
         /\ \A u \in Threads : Writing(u) => pos[u] # read_pos
<1>1. /\ write_pos \in Nat /\ read_pos \in Nat /\ Capacity \in Nat /\ Capacity >= 2
      /\ write_pos - read_pos \in 0 .. Capacity
  BY MpmcAssumption DEF IInv, TypeOK
<1>2. sequence[Slot(read_pos)] = read_pos + 1
  BY DEF IInv, CasInv
<1>3. read_pos # write_pos
  <2>1. SUFFICES ASSUME read_pos = write_pos PROVE FALSE
    OBVIOUS
  <2>2. read_pos \in write_pos .. read_pos + Capacity - 1
    BY <1>1, <2>1
  <2>3. CASE sequence[Slot(read_pos)] = read_pos
    BY <1>1, <1>2, <2>3
  <2>4. ASSUME NEW u \in Threads, Reading(u), pos[u] = read_pos - Capacity PROVE FALSE
    <3>1. pos[u] \in Nat /\ sequence[Slot(pos[u])] = pos[u] + 1
      BY <2>4 DEF IInv, TypeOK, ReaderInv
    <3>2. Slot(pos[u]) = Slot(read_pos)
      <4>1. pos[u] + Capacity = read_pos
        BY <1>1, <2>4
      <4>2. QED
        BY <3>1, <4>1, SlotNextRound
    <3>3. QED
      BY <1>1, <1>2, <2>4, <3>1, <3>2
  <2>5. QED
    BY <2>2, <2>3, <2>4 DEF IInv, SlotsInv
<1>4. ASSUME NEW u \in Threads, Writing(u), pos[u] = read_pos PROVE FALSE
  <2>1. sequence[Slot(read_pos)] = read_pos
    BY <1>4 DEF IInv, WriterInv
  <2>2. QED
    BY <1>1, <1>2, <2>1
<1>5. Ready(read_pos)
  BY <1>1, <1>3, <1>4 DEF IInv, SlotsInv
<1>6. QED
  BY <1>1, <1>3, <1>4, <1>5

-----------------------------------------------------------------------------
(* The invariant is inductive *)

\* The constructor makes every slot free for the first round.
LEMMA InitIInv == Init => IInv
<1> SUFFICES ASSUME Init PROVE IInv
  OBVIOUS
<1>1. Capacity \in Nat /\ Capacity >= 2
  BY MpmcAssumption
<1>2. TypeOK /\ Len(pushed) = write_pos
  <2>1. pushed \in Seq(Items) /\ Len(pushed) = 0
    BY DEF Init
  <2>2. \A s \in Slots : s \in Nat
    BY <1>1 DEF Slots
  <2>3. QED
    BY <1>1, <2>1, <2>2 DEF Init, TypeOK
<1>3. \A k \in 0 .. Capacity - 1 : sequence[Slot(k)] = k
  <2>1. Capacity \in Nat \ {0}
    BY <1>1
  <2>2. \A k \in 0 .. Capacity - 1 : Slot(k) = k
    BY <2>1, IndexOfFirstRound DEF Slot
  <2>3. QED
    BY <2>2 DEF Init, Slots
<1>4. SlotsInv
  <2>1. write_pos = 0 /\ read_pos = 0
    BY DEF Init
  <2>2. QED
    BY <1>1, <1>3, <2>1 DEF SlotsInv
<1>5. WriterInv /\ ReaderInv /\ ClaimedOnce /\ CasInv
  BY DEF Init, WriterInv, ReaderInv, ClaimedOnce, CasInv, Writing, Reading, PushPC, PopPC
<1>6. PastInv /\ SizeInv
  BY <1>1 DEF Init, PastInv, SizeInv
<1>7. QED
  BY <1>2, <1>4, <1>5, <1>6 DEF IInv

\* Steps of a thread that has claimed nothing, and claims nothing, leave what
\* is known of the slots and of those who have as it is.
LEMMA Quiet ==
  ASSUME IInv, NEW t \in Threads, UNCHANGED <<shared, out, pushed>>,
         ~Writing(t), ~Reading(t), ~Writing(t)', ~Reading(t)',
         \A u \in Threads : u # t => pc'[u] = pc[u] /\ pos'[u] = pos[u] /\ item'[u] = item[u]
  PROVE  /\ SlotsInv' /\ WriterInv' /\ ReaderInv' /\ ClaimedOnce' /\ PastInv'
         /\ Len(pushed)' = write_pos'
<1>1. /\ write_pos' = write_pos /\ read_pos' = read_pos /\ sequence' = sequence
      /\ data' = data /\ pushed' = pushed /\ out' = out
  BY DEF shared
<1>2. \A u \in Threads :
        /\ (Writing(u)' <=> Writing(u)) /\ (Reading(u)' <=> Reading(u))
        /\ Writing(u) \/ Reading(u) =>
             pc'[u] = pc[u] /\ pos'[u] = pos[u] /\ item'[u] = item[u]
  BY DEF Writing, Reading
<1>3. SlotsInv'
  BY <1>1, <1>2 DEF IInv, SlotsInv, Ready, Slot
<1>4. WriterInv'
  BY <1>1, <1>2 DEF IInv, WriterInv, Slot
<1>5. ReaderInv'
  BY <1>1, <1>2 DEF IInv, ReaderInv, Slot
<1>6. ClaimedOnce'
  BY <1>2 DEF IInv, ClaimedOnce
<1>7. PastInv' /\ Len(pushed)' = write_pos'
  BY <1>1 DEF IInv, PastInv, Slot
<1>8. QED
  BY <1>3, <1>4, <1>5, <1>6, <1>7

\* A thread begins an operation: it loads a position.
LEMMA BeginPreserves ==
  ASSUME IInv, NEW t \in Threads,
         (\E v \in Items : PushBegin(t, v)) \/ PopBegin(t) \/ SizeBegin(t)
  PROVE  IInv'
<1>1. /\ pc[t] = "idle" /\ pc' = [pc EXCEPT ![t] = pc'[t]]
      /\ pc'[t] \in {"push_seq", "pop_seq", "size"}
      /\ pc'[t] = "push_seq" => item'[t] \in Items
      /\ pos' = [pos EXCEPT ![t] = IF pc'[t] = "pop_seq" THEN read_pos ELSE write_pos]
      /\ item' = [item EXCEPT ![t] = item'[t]] /\ item'[t] \in Items \cup {None}
      /\ UNCHANGED <<shared, out, size, pushed>>
  BY DEF PushBegin, PopBegin, SizeBegin, Goto, IInv, TypeOK
<1>2. /\ \A u \in Threads : u # t => pc'[u] = pc[u] /\ pos'[u] = pos[u] /\ item'[u] = item[u]
      /\ pos'[t] = IF pc'[t] = "pop_seq" THEN read_pos ELSE write_pos
  BY <1>1 DEF IInv, TypeOK
<1>3. /\ ~Writing(t) /\ ~Reading(t) /\ ~Writing(t)' /\ ~Reading(t)'
  BY <1>1 DEF Writing, Reading
<1>4. /\ SlotsInv' /\ WriterInv' /\ ReaderInv' /\ ClaimedOnce' /\ PastInv'
      /\ Len(pushed)' = write_pos'
  BY <1>1, <1>2, <1>3, Quiet
<1>5. TypeOK'
  BY <1>1, Zenon DEF IInv, TypeOK, shared, PushPC, PopPC
<1>6. CasInv'
  <2>1. write_pos \in Nat /\ read_pos \in Nat
    BY DEF IInv, TypeOK
  <2>2. QED
    BY <1>1, <1>2, <2>1 DEF IInv, CasInv, shared, PushPC, PopPC, Slot
<1>7. SizeInv'
  <2>1. write_pos \in Nat
    BY DEF IInv, TypeOK
  <2>2. QED
    BY <1>1, <1>2, <2>1 DEF IInv, SizeInv, shared
<1>8. QED
  BY <1>4, <1>5, <1>6, <1>7 DEF IInv

\* A thread looks at the sequence: what it finds there is what CasInv keeps.
LEMMA LookPreserves ==
  ASSUME IInv, NEW t \in Threads, PushSeq(t) \/ PopSeq(t)
  PROVE  IInv'
<1>1. /\ pc' = [pc EXCEPT ![t] = pc'[t]]
      /\ UNCHANGED <<shared, pos, item, out, size, pushed>>
      /\ \/ pc[t] = "push_seq" /\ pc'[t] \in {"push_cas", "idle", "push_reload"}
         \/ pc[t] = "pop_seq" /\ pc'[t] \in {"pop_cas", "idle", "pop_reload"}
  BY DEF PushSeq, PopSeq, Goto, IInv, TypeOK
<1>2. \A u \in Threads : u # t => pc'[u] = pc[u] /\ pos'[u] = pos[u] /\ item'[u] = item[u]
  BY <1>1 DEF IInv, TypeOK
<1>3. ~Writing(t) /\ ~Reading(t) /\ ~Writing(t)' /\ ~Reading(t)'
  BY <1>1 DEF Writing, Reading
<1>4. /\ SlotsInv' /\ WriterInv' /\ ReaderInv' /\ ClaimedOnce' /\ PastInv'
      /\ Len(pushed)' = write_pos'
  BY <1>1, <1>2, <1>3, Quiet
<1>5. TypeOK'
  BY <1>1 DEF IInv, TypeOK, shared, PushPC, PopPC
<1>6. CasInv'
  <2>1. sequence[Slot(pos[t])] \in Nat /\ pos[t] \in Nat
    BY SlotInRange DEF IInv, TypeOK
  <2>2. /\ pc'[t] = "push_cas" => sequence[Slot(pos[t])] = pos[t]
        /\ pc'[t] = "pop_cas" => sequence[Slot(pos[t])] = pos[t] + 1
    BY <2>1 DEF PushSeq, PopSeq, Goto, Diff, IInv, TypeOK
  <2>3. /\ write_pos' = write_pos /\ read_pos' = read_pos /\ sequence' = sequence
        /\ pos' = pos /\ item' = item
    BY <1>1 DEF shared
  <2>4. QED
    BY <1>1, <1>2, <2>2, <2>3 DEF IInv, CasInv, PushPC, PopPC, Slot
<1>7. SizeInv'
  BY <1>1, <1>2 DEF IInv, SizeInv, shared
<1>8. QED
  BY <1>4, <1>5, <1>6, <1>7 DEF IInv

\* A thread that came too late, or whose weak CAS failed, loads the position again.
LEMMA ReloadPreserves ==
  ASSUME IInv, NEW t \in Threads,
         PushReload(t) \/ PushCasFails(t) \/ PopReload(t) \/ PopCasFails(t)
  PROVE  IInv'
<1>1. /\ pc' = [pc EXCEPT ![t] = pc'[t]]
      /\ \/ /\ pc[t] \in {"push_reload", "push_cas"} /\ pc'[t] = "push_seq"
            /\ pos' = [pos EXCEPT ![t] = write_pos]
         \/ /\ pc[t] \in {"pop_reload", "pop_cas"} /\ pc'[t] = "pop_seq"
            /\ pos' = [pos EXCEPT ![t] = read_pos]
      /\ UNCHANGED <<shared, item, out, size, pushed>>
  BY DEF PushReload, PushCasFails, PopReload, PopCasFails, Goto, IInv, TypeOK
<1>2. /\ \A u \in Threads : u # t => pc'[u] = pc[u] /\ pos'[u] = pos[u] /\ item'[u] = item[u]
      /\ pos'[t] = IF pc'[t] = "pop_seq" THEN read_pos ELSE write_pos
  BY <1>1 DEF IInv, TypeOK
<1>3. ~Writing(t) /\ ~Reading(t) /\ ~Writing(t)' /\ ~Reading(t)'
  BY <1>1 DEF Writing, Reading
<1>4. /\ SlotsInv' /\ WriterInv' /\ ReaderInv' /\ ClaimedOnce' /\ PastInv'
      /\ Len(pushed)' = write_pos'
  BY <1>1, <1>2, <1>3, Quiet
<1>5. TypeOK'
  <2>1. pos' \in [Threads -> Nat]
    BY <1>1 DEF IInv, TypeOK
  <2>2. pc' \in [Threads -> {"idle", "size"} \cup PushPC \cup PopPC]
    <3>1. pc'[t] \in {"idle", "size"} \cup PushPC \cup PopPC
      BY <1>1 DEF PushPC, PopPC
    <3>2. QED
      BY <1>1, <3>1 DEF IInv, TypeOK
  <2>3. QED
    BY <1>1, <2>1, <2>2 DEF IInv, TypeOK, shared
<1>6. CasInv'
  <2>1. write_pos \in Nat /\ read_pos \in Nat
    BY DEF IInv, TypeOK
  <2>2. (pc[t] \in PushPC /\ pc'[t] = "push_seq") \/ pc'[t] = "pop_seq"
    BY <1>1 DEF PushPC
  <2>3. QED
    BY <1>1, <1>2, <2>1, <2>2, SMTT(30) DEF IInv, CasInv, shared, PushPC, PopPC, Slot
<1>7. SizeInv'
  BY <1>1, <1>2 DEF IInv, SizeInv, shared
<1>8. QED
  BY <1>4, <1>5, <1>6, <1>7 DEF IInv

\* approx_size() subtracts a read_pos that is loaded after write_pos.
LEMMA SizeEndPreserves ==
  ASSUME IInv, NEW t \in Threads, SizeEnd(t)
  PROVE  IInv'
<1>1. /\ pc[t] = "size" /\ pc' = [pc EXCEPT ![t] = "idle"]
      /\ size' = [size EXCEPT ![t] = IF pos[t] >= read_pos THEN pos[t] - read_pos ELSE 0]
      /\ UNCHANGED <<shared, pos, item, out, pushed>>
  BY DEF SizeEnd, Goto
<1>2. \A u \in Threads : pc'[u] = IF u = t THEN "idle" ELSE pc[u]
  BY <1>1 DEF IInv, TypeOK
<1>3. ~Writing(t) /\ ~Reading(t) /\ ~Writing(t)' /\ ~Reading(t)'
  BY <1>1, <1>2 DEF Writing, Reading
<1>4. /\ SlotsInv' /\ WriterInv' /\ ReaderInv' /\ ClaimedOnce' /\ PastInv'
      /\ Len(pushed)' = write_pos'
  BY <1>1, <1>2, <1>3, Quiet
<1>5. TypeOK'
  BY <1>1 DEF IInv, TypeOK, shared
<1>6. CasInv'
  BY <1>1, <1>2, SMTT(30) DEF IInv, CasInv, shared, PushPC, PopPC, Slot
<1>7. SizeInv'
  <2>1. /\ pos[t] \in Nat /\ read_pos \in Nat /\ write_pos \in Nat
        /\ write_pos - read_pos <= Capacity /\ pos[t] <= write_pos /\ Capacity \in Nat
    BY <1>1, MpmcAssumption DEF IInv, TypeOK, SizeInv
  <2>2. size'[t] <= Capacity /\ \A u \in Threads : u # t => size'[u] = size[u]
    BY <1>1, <2>1 DEF IInv, TypeOK
  <2>3. QED
    BY <1>1, <1>2, <2>2 DEF IInv, SizeInv, shared
<1>8. QED
  BY <1>4, <1>5, <1>6, <1>7 DEF IInv

\* The position is claimed: it leaves the free part of the window and is the
\* thread's own.
LEMMA PushCasPreserves ==
  ASSUME IInv, NEW t \in Threads, PushCas(t)
  PROVE  IInv'
<1>1. /\ pc[t] = "push_cas" /\ pos[t] = write_pos /\ write_pos' = write_pos + 1
      /\ pushed' = Append(pushed, item[t]) /\ pc' = [pc EXCEPT ![t] = "push_copy"]
      /\ read_pos' = read_pos /\ sequence' = sequence /\ data' = data
      /\ pos' = pos /\ item' = item /\ out' = out /\ size' = size
  BY DEF PushCas, Goto
<1>2. /\ write_pos \in Nat /\ read_pos \in Nat /\ Capacity \in Nat /\ read_pos <= write_pos
      /\ \A u \in Threads : pos[u] \in Nat
      /\ write_pos' - 1 = write_pos
  BY <1>1, MpmcAssumption DEF IInv, TypeOK
<1>3. \A u \in Threads : pc'[u] = IF u = t THEN "push_copy" ELSE pc[u]
  BY <1>1 DEF IInv, TypeOK
<1>4. /\ write_pos < read_pos + Capacity /\ sequence[Slot(write_pos)] = write_pos
      /\ \A u \in Threads : Reading(u) => pos[u] # write_pos - Capacity
  BY <1>1, FreeForPush
<1>5. /\ pushed' \in Seq(Items) /\ Len(pushed') = write_pos + 1
      /\ \A i \in 1 .. write_pos : pushed'[i] = pushed[i]
      /\ pushed'[write_pos + 1] = item[t]
  <2>1. item[t] \in Items /\ pushed \in Seq(Items) /\ Len(pushed) = write_pos
    BY <1>1 DEF IInv, TypeOK, CasInv, PushPC
  <2>2. QED
    BY <1>1, <2>1, AppendAt
<1>6. /\ ~Writing(t) /\ ~Reading(t) /\ Writing(t)' /\ ~Reading(t)'
      /\ \A u \in Threads : u # t => (Writing(u)' <=> Writing(u)) /\ (Reading(u)' <=> Reading(u))
  BY <1>1, <1>3 DEF Writing, Reading
<1>7. TypeOK'
  BY <1>1, <1>2, <1>4, <1>5 DEF IInv, TypeOK, PushPC
<1>8. SlotsInv'
  <2>1. ASSUME NEW k \in read_pos .. write_pos
        PROVE  Ready(k)' \/ \E u \in Threads : Writing(u)' /\ pos'[u] = k
    <3>1. CASE k = write_pos
      BY <1>1, <1>6, <3>1
    <3>2. CASE k # write_pos
      <4>1. k \in read_pos .. write_pos - 1 /\ k + 1 \in 1 .. write_pos
        BY <1>2, <3>2
      <4>2. CASE Ready(k)
        BY <1>1, <1>5, <4>1, <4>2, Zenon DEF Ready, Slot
      <4>3. ASSUME NEW u \in Threads, Writing(u), pos[u] = k
            PROVE  \E v \in Threads : Writing(v)' /\ pos'[v] = k
        BY <1>1, <1>6, <4>3
      <4>4. QED
        BY <4>1, <4>2, <4>3 DEF IInv, SlotsInv
    <3>3. QED
      BY <3>1, <3>2
  <2>2. ASSUME NEW k \in write_pos + 1 .. read_pos + Capacity - 1
        PROVE  sequence'[Slot(k)] = k \/ \E u \in Threads : Reading(u)' /\ pos'[u] = k - Capacity
    <3>1. k \in write_pos .. read_pos + Capacity - 1
      BY <1>2
    <3>2. QED
      BY <1>1, <1>6, <3>1 DEF IInv, SlotsInv
  <2>3. QED
    BY <1>1, <1>2, <2>1, <2>2 DEF SlotsInv
<1>9. WriterInv'
  <2>1. SUFFICES ASSUME NEW u \in Threads, Writing(u)'
                 PROVE  /\ pos[u] \in read_pos .. write_pos
                        /\ sequence[Slot(pos[u])] = pos[u]
                        /\ item[u] = pushed'[pos[u] + 1]
                        /\ pc'[u] = "push_ready" => data[Slot(pos[u])] = pushed'[pos[u] + 1]
    BY <1>1, <1>2 DEF WriterInv
  <2>2. CASE u = t
    BY <1>1, <1>2, <1>3, <1>4, <1>5, <2>2
  <2>3. CASE u # t
    <3>1. /\ pos[u] \in read_pos .. write_pos - 1 /\ sequence[Slot(pos[u])] = pos[u]
          /\ item[u] = pushed[pos[u] + 1] /\ pc'[u] = pc[u]
          /\ pc[u] = "push_ready" => data[Slot(pos[u])] = pushed[pos[u] + 1]
      BY <1>3, <1>6, <2>1, <2>3 DEF IInv, WriterInv
    <3>2. pos[u] + 1 \in 1 .. write_pos
      BY <1>2, <3>1
    <3>3. QED
      BY <1>2, <1>5, <3>1, <3>2
  <2>4. QED
    BY <2>2, <2>3
<1>10. ReaderInv'
  <2>1. SUFFICES ASSUME NEW u \in Threads, Reading(u)'
                 PROVE  /\ pos[u] + Capacity \in write_pos + 1 .. read_pos + Capacity - 1
                        /\ sequence[Slot(pos[u])] = pos[u] + 1
                        /\ data[Slot(pos[u])] = pushed'[pos[u] + 1]
                        /\ pc'[u] = "pop_free" => out[u] = pushed'[pos[u] + 1]
    BY <1>1 DEF ReaderInv, Slot
  <2>2. u # t /\ Reading(u) /\ pc'[u] = pc[u]
    BY <1>3, <1>6, <2>1
  <2>3. /\ pos[u] + Capacity \in write_pos .. read_pos + Capacity - 1
        /\ sequence[Slot(pos[u])] = pos[u] + 1
        /\ data[Slot(pos[u])] = pushed[pos[u] + 1]
        /\ pc[u] = "pop_free" => out[u] = pushed[pos[u] + 1]
    BY <2>2 DEF IInv, ReaderInv
  <2>4. pos[u] + 1 \in 1 .. write_pos
    BY <1>2, <2>3
  <2>5. pos[u] + Capacity # write_pos
    BY <1>2, <1>4, <2>2
  <2>6. QED
    BY <1>2, <1>5, <2>2, <2>3, <2>4, <2>5
<1>11. ClaimedOnce'
  <2>1. \A u \in Threads : Writing(u) => pos[u] # pos[t]
    BY <1>1, <1>2 DEF IInv, WriterInv
  <2>2. QED
    BY <1>1, <1>6, <2>1 DEF IInv, ClaimedOnce
<1>12. CasInv'
  BY <1>1, <1>2, <1>3 DEF IInv, CasInv, PushPC, PopPC, Slot
<1>13. PastInv'
  <2>1. \A k \in 0 .. write_pos : k \in 0 .. write_pos - 1 \/ k = write_pos
    BY <1>2
  <2>2. \A k \in 0 .. write_pos : sequence[Slot(k)] >= k
    BY <1>2, <1>4, <2>1 DEF IInv, PastInv
  <2>3. (write_pos + 1) - 1 = write_pos
    BY <1>2
  <2>4. QED
    BY <1>1, <2>2, <2>3 DEF IInv, PastInv, Slot
<1>14. SizeInv'
  BY <1>1, <1>2, <1>3 DEF IInv, SizeInv
<1>15. QED
  BY <1>1, <1>5, <1>7, <1>8, <1>9, <1>10, <1>11, <1>12, <1>13, <1>14 DEF IInv

\* The slots of the other positions of the window are not the thread's own.
LEMMA OtherSlots ==
  ASSUME IInv, NEW t \in Threads, Writing(t) \/ Reading(t),
         NEW k \in read_pos .. read_pos + Capacity - 1, k # Place(t)
  PROVE  Slot(k) # Slot(pos[t])
BY Places, WindowInjective DEF IInv

\* The item is copied into the slot that the thread has to itself.
LEMMA PushCopyPreserves ==
  ASSUME IInv, NEW t \in Threads, PushCopy(t)
  PROVE  IInv'
<1>1. /\ pc[t] = "push_copy" /\ pc' = [pc EXCEPT ![t] = "push_ready"]
      /\ data' = [data EXCEPT ![Slot(pos[t])] = item[t]]
      /\ write_pos' = write_pos /\ read_pos' = read_pos /\ sequence' = sequence
      /\ pos' = pos /\ item' = item /\ out' = out /\ size' = size /\ pushed' = pushed
  BY DEF PushCopy, Goto
<1>2. /\ write_pos \in Nat /\ read_pos \in Nat /\ Capacity \in Nat
      /\ write_pos - read_pos \in 0 .. Capacity /\ \A u \in Threads : pos[u] \in Nat
  BY MpmcAssumption DEF IInv, TypeOK
<1>3. \A u \in Threads : pc'[u] = IF u = t THEN "push_ready" ELSE pc[u]
  BY <1>1 DEF IInv, TypeOK
<1>4. /\ Writing(t) /\ ~Reading(t) /\ Place(t) = pos[t]
      /\ \A u \in Threads : (Writing(u)' <=> Writing(u)) /\ (Reading(u)' <=> Reading(u))
  BY <1>1, <1>3 DEF Writing, Reading, Place
<1>5. \A s \in Slots : data'[s] = IF s = Slot(pos[t]) THEN item[t] ELSE data[s]
  BY <1>1 DEF IInv, TypeOK
<1>6. \A k \in Int : Slot(k) \in Slots
  BY SlotInRange
<1>7. \A u \in Threads : u # t /\ (Writing(u) \/ Reading(u)) =>
        data'[Slot(pos[u])] = data[Slot(pos[u])]
  <2>1. \A u \in Threads : u # t /\ (Writing(u) \/ Reading(u)) => Slot(pos[u]) # Slot(pos[t])
    BY <1>4, Exclusive DEF SlotExclusive
  <2>2. QED
    BY <1>2, <1>5, <1>6, <2>1
<1>8. TypeOK'
  <2>1. item[t] \in Items /\ Slot(pos[t]) \in Slots
    BY <1>1, <1>2, <1>6 DEF IInv, CasInv, PushPC
  <2>2. QED
    BY <1>1, <2>1 DEF IInv, TypeOK, PushPC
<1>9. SlotsInv'
  <2>1. ASSUME NEW k \in read_pos .. write_pos - 1
        PROVE  Ready(k)' \/ \E u \in Threads : Writing(u)' /\ pos'[u] = k
    <3>1. CASE k = pos[t]
      BY <1>1, <1>4, <3>1
    <3>2. CASE k # pos[t] /\ Ready(k)
      <4>1. k \in read_pos .. read_pos + Capacity - 1 /\ k \in Int
        BY <1>2
      <4>2. data'[Slot(k)] = data[Slot(k)]
        BY <1>4, <1>5, <1>6, <3>2, <4>1, OtherSlots
      <4>3. QED
        BY <1>1, <3>2, <4>2 DEF Ready
    <3>3. ASSUME NEW u \in Threads, Writing(u), pos[u] = k
          PROVE  \E v \in Threads : Writing(v)' /\ pos'[v] = k
      BY <1>1, <1>4, <3>3
    <3>4. QED
      BY <3>1, <3>2, <3>3 DEF IInv, SlotsInv
  <2>2. QED
    BY <1>1, <1>4, <2>1 DEF IInv, SlotsInv
<1>10. WriterInv'
  <2>1. SUFFICES ASSUME NEW u \in Threads, Writing(u)
                 PROVE  /\ pos[u] \in read_pos .. write_pos - 1
                        /\ sequence[Slot(pos[u])] = pos[u]
                        /\ item[u] = pushed[pos[u] + 1]
                        /\ pc'[u] = "push_ready" => data'[Slot(pos[u])] = pushed[pos[u] + 1]
    BY <1>1, <1>4 DEF WriterInv
  <2>2. CASE u = t
    BY <1>2, <1>4, <1>5, <1>6, <2>2 DEF IInv, WriterInv
  <2>3. CASE u # t
    BY <1>3, <1>7, <2>1, <2>3 DEF IInv, WriterInv
  <2>4. QED
    BY <2>2, <2>3
<1>11. ReaderInv'
  <2>1. \A u \in Threads : Reading(u) => u # t /\ pc'[u] = pc[u]
    BY <1>3, <1>4
  <2>2. QED
    BY <1>1, <1>4, <1>7, <2>1 DEF IInv, ReaderInv
<1>12. ClaimedOnce'
  BY <1>1, <1>4 DEF IInv, ClaimedOnce
<1>13. CasInv'
  BY <1>1, <1>3 DEF IInv, CasInv, PushPC, PopPC
<1>14. PastInv' /\ SizeInv'
  BY <1>1, <1>3 DEF IInv, PastInv, SizeInv
<1>15. QED
  BY <1>1, <1>8, <1>9, <1>10, <1>11, <1>12, <1>13, <1>14 DEF IInv

\* A slot's sequence only grows, when its thread is done with it.
LEMMA SequenceGrows ==
  ASSUME IInv, NEW t \in Threads, Writing(t) \/ Reading(t),
         NEW n \in Nat, n > sequence[Slot(pos[t])],
         sequence' = [sequence EXCEPT ![Slot(pos[t])] = n],
         write_pos' = write_pos, read_pos' = read_pos
  PROVE  /\ sequence' \in [Slots -> Nat]
         /\ sequence'[Slot(pos[t])] = n
         /\ \A k \in Int : Slot(k) # Slot(pos[t]) => sequence'[Slot(k)] = sequence[Slot(k)]
         /\ PastInv'
<1>1. sequence \in [Slots -> Nat] /\ pos[t] \in Nat /\ Slot(pos[t]) \in Slots
  BY SlotInRange DEF IInv, TypeOK
<1>2. \A s \in Slots : sequence'[s] = IF s = Slot(pos[t]) THEN n ELSE sequence[s]
  BY <1>1
<1>3. \A k \in Int : sequence'[Slot(k)] \in Nat /\ sequence[Slot(k)] \in Nat
                     /\ sequence'[Slot(k)] >= sequence[Slot(k)]
  BY <1>1, <1>2, SlotInRange
<1>4. PastInv'
  <2>1. \A k \in 0 .. write_pos - 1 : sequence'[Slot(k)] >= k
    BY <1>3 DEF IInv, PastInv
  <2>2. \A k \in 0 .. read_pos - 1 : sequence'[Slot(k)] >= k + 1
    BY <1>3 DEF IInv, PastInv
  <2>3. QED
    BY <2>1, <2>2 DEF PastInv
<1>5. QED
  BY <1>1, <1>2, <1>4, SlotInRange

\* The sequence store of push() makes the item ready.
LEMMA PushReadyPreserves ==
  ASSUME IInv, NEW t \in Threads, PushReady(t)
  PROVE  IInv'
<1>1. /\ pc[t] = "push_ready" /\ pc' = [pc EXCEPT ![t] = "idle"]
      /\ sequence' = [sequence EXCEPT ![Slot(pos[t])] = pos[t] + 1]
      /\ write_pos' = write_pos /\ read_pos' = read_pos /\ data' = data
      /\ pos' = pos /\ item' = item /\ out' = out /\ size' = size /\ pushed' = pushed
  BY DEF PushReady, Goto
<1>2. /\ write_pos \in Nat /\ read_pos \in Nat /\ Capacity \in Nat
      /\ write_pos - read_pos \in 0 .. Capacity /\ \A u \in Threads : pos[u] \in Nat
  BY MpmcAssumption DEF IInv, TypeOK
<1>3. \A u \in Threads : pc'[u] = IF u = t THEN "idle" ELSE pc[u]
  BY <1>1 DEF IInv, TypeOK
<1>4. /\ Writing(t) /\ ~Reading(t) /\ Place(t) = pos[t] /\ ~Writing(t)' /\ ~Reading(t)'
      /\ \A u \in Threads : u # t => (Writing(u)' <=> Writing(u)) /\ (Reading(u)' <=> Reading(u))
  BY <1>1, <1>3 DEF Writing, Reading, Place
<1>5. /\ pos[t] \in read_pos .. write_pos - 1 /\ sequence[Slot(pos[t])] = pos[t]
      /\ data[Slot(pos[t])] = pushed[pos[t] + 1]
  BY <1>1, <1>4 DEF IInv, WriterInv
<1>6. /\ sequence' \in [Slots -> Nat] /\ sequence'[Slot(pos[t])] = pos[t] + 1
      /\ \A k \in Int : Slot(k) # Slot(pos[t]) => sequence'[Slot(k)] = sequence[Slot(k)]
      /\ PastInv'
  <2>1. pos[t] + 1 \in Nat /\ pos[t] + 1 > sequence[Slot(pos[t])]
    BY <1>2, <1>5
  <2>2. QED
    BY <1>1, <1>4, <2>1, SequenceGrows
<1>7. \A u \in Threads : u # t /\ (Writing(u) \/ Reading(u)) =>
        sequence'[Slot(pos[u])] = sequence[Slot(pos[u])]
  <2>1. \A u \in Threads : u # t /\ (Writing(u) \/ Reading(u)) => Slot(pos[u]) # Slot(pos[t])
    BY <1>4, Exclusive DEF SlotExclusive
  <2>2. QED
    BY <1>2, <1>6, <2>1
<1>8. ASSUME NEW k \in read_pos .. read_pos + Capacity - 1, k # pos[t]
      PROVE  sequence'[Slot(k)] = sequence[Slot(k)]
  <2>1. k \in Int
    BY <1>2
  <2>2. QED
    BY <1>4, <1>6, <1>8, <2>1, OtherSlots
<1>9. TypeOK'
  BY <1>1, <1>6 DEF IInv, TypeOK
<1>10. SlotsInv'
  <2>1. ASSUME NEW k \in read_pos .. write_pos - 1
        PROVE  Ready(k)' \/ \E u \in Threads : Writing(u)' /\ pos'[u] = k
    <3>1. CASE k = pos[t]
      BY <1>1, <1>5, <1>6, <3>1 DEF Ready
    <3>2. CASE k # pos[t] /\ Ready(k)
      <4>1. k \in read_pos .. read_pos + Capacity - 1
        BY <1>2
      <4>2. QED
        BY <1>1, <1>8, <3>2, <4>1 DEF Ready
    <3>3. ASSUME NEW u \in Threads, Writing(u), pos[u] = k, k # pos[t]
          PROVE  \E v \in Threads : Writing(v)' /\ pos'[v] = k
      BY <1>1, <1>4, <3>3
    <3>4. QED
      BY <3>1, <3>2, <3>3 DEF IInv, SlotsInv
  <2>2. ASSUME NEW k \in write_pos .. read_pos + Capacity - 1
        PROVE  sequence'[Slot(k)] = k \/ \E u \in Threads : Reading(u)' /\ pos'[u] = k - Capacity
    <3>1. k \in read_pos .. read_pos + Capacity - 1 /\ k # pos[t]
      BY <1>2, <1>5
    <3>2. sequence'[Slot(k)] = sequence[Slot(k)]
      BY <1>8, <3>1
    <3>3. \A u \in Threads : Reading(u) => Reading(u)' /\ pos'[u] = pos[u]
      BY <1>1, <1>4
    <3>4. QED
      BY <3>2, <3>3 DEF IInv, SlotsInv
  <2>3. QED
    BY <1>1, <2>1, <2>2 DEF SlotsInv
<1>11. WriterInv'
  <2>1. \A u \in Threads : Writing(u)' => u # t /\ Writing(u) /\ pc'[u] = pc[u]
    BY <1>3, <1>4
  <2>2. QED
    BY <1>1, <1>7, <2>1 DEF IInv, WriterInv
<1>12. ReaderInv'
  <2>1. \A u \in Threads : Reading(u)' => u # t /\ Reading(u) /\ pc'[u] = pc[u]
    BY <1>3, <1>4
  <2>2. QED
    BY <1>1, <1>7, <2>1 DEF IInv, ReaderInv
<1>13. ClaimedOnce'
  BY <1>1, <1>4 DEF IInv, ClaimedOnce
<1>14. CasInv'
  <2>1. ASSUME NEW u \in Threads, pc[u] = "push_cas", pos[u] = write_pos
        PROVE  sequence'[Slot(pos[u])] = pos[u]
    <3>1. write_pos \in read_pos .. read_pos + Capacity - 1 /\ write_pos # pos[t]
      BY <1>2, <1>5, <2>1, FreeForPush, SMTT(30)
    <3>2. QED
      BY <1>8, <2>1, <3>1 DEF IInv, CasInv
  <2>2. ASSUME NEW u \in Threads, pc[u] = "pop_cas", pos[u] = read_pos
        PROVE  sequence'[Slot(pos[u])] = pos[u] + 1
    <3>1. read_pos # pos[t]
      BY <1>4, <2>2, ReadyForPop
    <3>2. read_pos \in read_pos .. read_pos + Capacity - 1
      BY <1>2, MpmcAssumption
    <3>3. QED
      BY <1>8, <2>2, <3>1, <3>2 DEF IInv, CasInv
  <2>3. QED
    BY <1>1, <1>3, <2>1, <2>2, SMTT(30) DEF IInv, CasInv, PushPC, PopPC
<1>15. SizeInv'
  BY <1>1, <1>3 DEF IInv, SizeInv
<1>16. QED
  BY <1>1, <1>6, <1>9, <1>10, <1>11, <1>12, <1>13, <1>14, <1>15 DEF IInv

\* The position is taken: its slot is the thread's own until the next round.
LEMMA PopCasPreserves ==
  ASSUME IInv, NEW t \in Threads, PopCas(t)
  PROVE  IInv'
<1>1. /\ pc[t] = "pop_cas" /\ pos[t] = read_pos /\ read_pos' = read_pos + 1
      /\ pc' = [pc EXCEPT ![t] = "pop_copy"]
      /\ write_pos' = write_pos /\ sequence' = sequence /\ data' = data
      /\ pos' = pos /\ item' = item /\ out' = out /\ size' = size /\ pushed' = pushed
  BY DEF PopCas, Goto
<1>2. /\ write_pos \in Nat /\ read_pos \in Nat /\ Capacity \in Nat /\ Capacity >= 2
      /\ write_pos - read_pos \in 0 .. Capacity /\ \A u \in Threads : pos[u] \in Nat
      /\ read_pos' - 1 = read_pos /\ read_pos' + Capacity - 1 = read_pos + Capacity
  BY <1>1, MpmcAssumption DEF IInv, TypeOK
<1>3. \A u \in Threads : pc'[u] = IF u = t THEN "pop_copy" ELSE pc[u]
  BY <1>1 DEF IInv, TypeOK
<1>4. /\ read_pos < write_pos /\ Ready(read_pos)
      /\ \A u \in Threads : Writing(u) => pos[u] # read_pos
  BY <1>1, ReadyForPop
<1>5. /\ ~Writing(t) /\ ~Reading(t) /\ ~Writing(t)' /\ Reading(t)'
      /\ \A u \in Threads : u # t => (Writing(u)' <=> Writing(u)) /\ (Reading(u)' <=> Reading(u))
  BY <1>1, <1>3 DEF Writing, Reading
<1>6. TypeOK'
  <2>1. write_pos - (read_pos + 1) \in 0 .. Capacity
    BY <1>2, <1>4
  <2>2. QED
    BY <1>1, <1>2, <2>1 DEF IInv, TypeOK, PopPC
<1>7. SlotsInv'
  <2>1. ASSUME NEW k \in read_pos + 1 .. write_pos - 1
        PROVE  Ready(k)' \/ \E u \in Threads : Writing(u)' /\ pos'[u] = k
    <3>1. k \in read_pos .. write_pos - 1
      BY <1>2
    <3>2. CASE Ready(k)
      BY <1>1, <3>2 DEF Ready
    <3>3. ASSUME NEW u \in Threads, Writing(u), pos[u] = k
          PROVE  \E v \in Threads : Writing(v)' /\ pos'[v] = k
      BY <1>1, <1>5, <3>3
    <3>4. QED
      BY <3>1, <3>2, <3>3 DEF IInv, SlotsInv
  <2>2. ASSUME NEW k \in write_pos .. read_pos + Capacity
        PROVE  sequence[Slot(k)] = k \/ \E u \in Threads : Reading(u)' /\ pos[u] = k - Capacity
    <3>1. CASE k = read_pos + Capacity
      <4>1. pos[t] = k - Capacity
        BY <1>1, <1>2, <3>1
      <4>2. QED
        BY <1>5, <4>1
    <3>2. CASE k # read_pos + Capacity
      <4>1. k \in write_pos .. read_pos + Capacity - 1
        BY <1>2, <3>2
      <4>2. \A u \in Threads : Reading(u) => Reading(u)'
        BY <1>5
      <4>3. QED
        BY <4>1, <4>2 DEF IInv, SlotsInv
    <3>3. QED
      BY <3>1, <3>2
  <2>3. QED
    BY <1>1, <1>2, <2>1, <2>2 DEF SlotsInv
<1>8. WriterInv'
  <2>1. ASSUME NEW u \in Threads, Writing(u)'
        PROVE  /\ pos[u] \in read_pos + 1 .. write_pos - 1 /\ Writing(u) /\ pc'[u] = pc[u]
    <3>1. Writing(u) /\ pc'[u] = pc[u]
      BY <1>3, <1>5, <2>1
    <3>2. pos[u] \in read_pos .. write_pos - 1 /\ sequence[Slot(pos[u])] = pos[u]
      BY <3>1, Zenon DEF IInv, WriterInv
    <3>3. pos[u] # read_pos
      BY <1>2, <1>4, <3>2, SMTT(30) DEF Ready
    <3>4. pos[u] \in Int /\ read_pos \in Int /\ write_pos \in Int
      BY <1>2
    <3>5. pos[u] \in read_pos + 1 .. write_pos - 1
      BY <3>2, <3>3, <3>4
    <3>6. QED
      BY <3>1, <3>5, Zenon
  <2>2. QED
    BY <1>1, <2>1 DEF IInv, WriterInv
<1>9. ReaderInv'
  <2>1. SUFFICES ASSUME NEW u \in Threads, Reading(u)'
                 PROVE  /\ pos[u] + Capacity \in write_pos .. read_pos + Capacity
                        /\ sequence[Slot(pos[u])] = pos[u] + 1
                        /\ data[Slot(pos[u])] = pushed[pos[u] + 1]
                        /\ pc'[u] = "pop_free" => out[u] = pushed[pos[u] + 1]
    BY <1>1, <1>2 DEF ReaderInv
  <2>2. CASE u = t
    BY <1>1, <1>2, <1>3, <1>4, <2>2, SMTT(30) DEF Ready
  <2>3. CASE u # t
    <3>1. Reading(u) /\ pc'[u] = pc[u]
      BY <1>3, <1>5, <2>1, <2>3
    <3>2. /\ pos[u] + Capacity \in write_pos .. read_pos + Capacity - 1
          /\ sequence[Slot(pos[u])] = pos[u] + 1
          /\ data[Slot(pos[u])] = pushed[pos[u] + 1]
          /\ pc'[u] = "pop_free" => out[u] = pushed[pos[u] + 1]
      BY <3>1, Zenon DEF IInv, ReaderInv
    <3>3. pos[u] + Capacity \in write_pos .. read_pos + Capacity
      BY <1>2, <3>2
    <3>4. QED
      BY <3>2, <3>3, Zenon
  <2>4. QED
    BY <2>2, <2>3
<1>10. ClaimedOnce'
  <2>1. ASSUME NEW u \in Threads, Reading(u) PROVE pos[u] # pos[t]
    <3>1. pos[u] + Capacity \in write_pos .. read_pos + Capacity - 1
      BY <2>1, Zenon DEF IInv, ReaderInv
    <3>2. pos[u] \in Int /\ read_pos \in Int /\ Capacity \in Int /\ pos[t] = read_pos
      BY <1>1, <1>2
    <3>3. QED
      BY <3>1, <3>2
  <2>2. QED
    BY <1>1, <1>5, <2>1 DEF IInv, ClaimedOnce
<1>11. CasInv'
  BY <1>1, <1>2, <1>3, SMTT(30) DEF IInv, CasInv, PushPC, PopPC
<1>12. PastInv'
  <2>1. \A k \in 0 .. read_pos : k \in 0 .. read_pos - 1 \/ k = read_pos
    BY <1>2
  <2>2. \A k \in 0 .. read_pos : sequence[Slot(k)] >= k + 1
    BY <1>2, <1>4, <2>1 DEF IInv, PastInv, Ready
  <2>3. QED
    BY <1>1, <1>2, <2>2 DEF IInv, PastInv
<1>13. SizeInv'
  BY <1>1, <1>3 DEF IInv, SizeInv
<1>14. QED
  BY <1>1, <1>6, <1>7, <1>8, <1>9, <1>10, <1>11, <1>12, <1>13 DEF IInv

\* The item is copied out of the slot.
LEMMA PopCopyPreserves ==
  ASSUME IInv, NEW t \in Threads, PopCopy(t)
  PROVE  IInv'
<1>1. /\ pc[t] = "pop_copy" /\ pc' = [pc EXCEPT ![t] = "pop_free"]
      /\ out' = [out EXCEPT ![t] = data[Slot(pos[t])]]
      /\ write_pos' = write_pos /\ read_pos' = read_pos /\ sequence' = sequence /\ data' = data
      /\ pos' = pos /\ item' = item /\ size' = size /\ pushed' = pushed
  BY DEF PopCopy, Goto, shared
<1>2. /\ \A u \in Threads : pc'[u] = IF u = t THEN "pop_free" ELSE pc[u]
      /\ \A u \in Threads : out'[u] = IF u = t THEN data[Slot(pos[t])] ELSE out[u]
  BY <1>1 DEF IInv, TypeOK
<1>3. /\ Reading(t)
      /\ \A u \in Threads : (Writing(u)' <=> Writing(u)) /\ (Reading(u)' <=> Reading(u))
  BY <1>1, <1>2 DEF Writing, Reading
<1>4. TypeOK'
  <2>1. data[Slot(pos[t])] \in Items \cup {None}
    BY SlotInRange DEF IInv, TypeOK
  <2>2. QED
    BY <1>1, <2>1 DEF IInv, TypeOK, PopPC
<1>5. SlotsInv'
  BY <1>1, <1>3 DEF IInv, SlotsInv, Ready
<1>6. WriterInv'
  <2>1. \A u \in Threads : Writing(u) => pc'[u] = pc[u]
    BY <1>1, <1>2 DEF Writing
  <2>2. QED
    BY <1>1, <1>3, <2>1 DEF IInv, WriterInv
<1>7. ReaderInv'
  <2>1. SUFFICES ASSUME NEW u \in Threads, Reading(u), pc'[u] = "pop_free"
                 PROVE  out'[u] = pushed[pos[u] + 1]
    BY <1>1, <1>3 DEF IInv, ReaderInv, Slot
  <2>2. data[Slot(pos[u])] = pushed[pos[u] + 1] /\ (pc[u] = "pop_free" => out[u] = pushed[pos[u] + 1])
    BY <2>1, Zenon DEF IInv, ReaderInv
  <2>3. CASE u = t
    BY <1>2, <2>2, <2>3
  <2>4. CASE u # t
    BY <1>2, <2>1, <2>2, <2>4
  <2>5. QED
    BY <2>3, <2>4
<1>8. ClaimedOnce'
  BY <1>1, <1>3 DEF IInv, ClaimedOnce
<1>9. CasInv'
  <2>1. \A u \in Threads : /\ pc'[u] \in PushPC => pc[u] \in PushPC
                           /\ pc'[u] \in PopPC => pc[u] \in PopPC
                           /\ pc'[u] \in {"push_cas", "pop_cas"} => pc'[u] = pc[u]
    BY <1>1, <1>2 DEF PushPC, PopPC
  <2>2. QED
    BY <1>1, <2>1 DEF IInv, CasInv, Slot
<1>10. PastInv'
  BY <1>1 DEF IInv, PastInv, Slot
<1>11. SizeInv'
  BY <1>1, <1>2, SMTT(30) DEF IInv, SizeInv
<1>12. QED
  BY <1>1, <1>4, <1>5, <1>6, <1>7, <1>8, <1>9, <1>10, <1>11 DEF IInv

\* The sequence store of pop() frees the slot for the next round.
LEMMA PopFreePreserves ==
  ASSUME IInv, NEW t \in Threads, PopFree(t)
  PROVE  IInv'
<1>1. /\ pc[t] = "pop_free" /\ pc' = [pc EXCEPT ![t] = "idle"]
      /\ sequence' = [sequence EXCEPT ![Slot(pos[t])] = pos[t] + Capacity]
      /\ write_pos' = write_pos /\ read_pos' = read_pos /\ data' = data
      /\ pos' = pos /\ item' = item /\ out' = out /\ size' = size /\ pushed' = pushed
  BY DEF PopFree, Goto
<1>2. /\ write_pos \in Nat /\ read_pos \in Nat /\ Capacity \in Nat /\ Capacity >= 2
      /\ write_pos - read_pos \in 0 .. Capacity /\ \A u \in Threads : pos[u] \in Nat
  BY MpmcAssumption DEF IInv, TypeOK
<1>3. \A u \in Threads : pc'[u] = IF u = t THEN "idle" ELSE pc[u]
  BY <1>1 DEF IInv, TypeOK
<1>4. /\ ~Writing(t) /\ Reading(t) /\ Place(t) = pos[t] + Capacity /\ ~Writing(t)' /\ ~Reading(t)'
      /\ \A u \in Threads : u # t => (Writing(u)' <=> Writing(u)) /\ (Reading(u)' <=> Reading(u))
  BY <1>1, <1>3 DEF Writing, Reading, Place
<1>5. /\ pos[t] + Capacity \in write_pos .. read_pos + Capacity - 1
      /\ sequence[Slot(pos[t])] = pos[t] + 1 /\ Slot(pos[t] + Capacity) = Slot(pos[t])
  <2>1. Slot(pos[t] + Capacity) = Slot(pos[t])
    BY <1>2, SlotNextRound
  <2>2. QED
    BY <1>4, <2>1 DEF IInv, ReaderInv
<1>6. /\ sequence' \in [Slots -> Nat] /\ sequence'[Slot(pos[t])] = pos[t] + Capacity
      /\ \A k \in Int : Slot(k) # Slot(pos[t]) => sequence'[Slot(k)] = sequence[Slot(k)]
      /\ PastInv'
  <2>1. pos[t] + Capacity \in Nat /\ pos[t] + Capacity > sequence[Slot(pos[t])]
    BY <1>2, <1>5
  <2>2. QED
    BY <1>1, <1>4, <2>1, SequenceGrows
<1>7. \A u \in Threads : u # t /\ (Writing(u) \/ Reading(u)) =>
        sequence'[Slot(pos[u])] = sequence[Slot(pos[u])]
  <2>1. \A u \in Threads : u # t /\ (Writing(u) \/ Reading(u)) => Slot(pos[u]) # Slot(pos[t])
    BY <1>4, Exclusive DEF SlotExclusive
  <2>2. QED
    BY <1>2, <1>6, <2>1
<1>8. ASSUME NEW k \in read_pos .. read_pos + Capacity - 1, k # pos[t] + Capacity
      PROVE  sequence'[Slot(k)] = sequence[Slot(k)]
  <2>1. k \in Int
    BY <1>2
  <2>2. QED
    BY <1>4, <1>6, <1>8, <2>1, OtherSlots
<1>9. TypeOK'
  BY <1>1, <1>6 DEF IInv, TypeOK
<1>10. SlotsInv'
  <2>1. ASSUME NEW k \in read_pos .. write_pos - 1
        PROVE  Ready(k)' \/ \E u \in Threads : Writing(u)' /\ pos'[u] = k
    <3>1. k \in read_pos .. read_pos + Capacity - 1 /\ k # pos[t] + Capacity
      BY <1>2, <1>5
    <3>2. CASE Ready(k)
      BY <1>1, <1>8, <3>1, <3>2 DEF Ready
    <3>3. ASSUME NEW u \in Threads, Writing(u), pos[u] = k
          PROVE  \E v \in Threads : Writing(v)' /\ pos'[v] = k
      BY <1>1, <1>4, <3>3
    <3>4. QED
      BY <3>2, <3>3 DEF IInv, SlotsInv
  <2>2. ASSUME NEW k \in write_pos .. read_pos + Capacity - 1
        PROVE  sequence'[Slot(k)] = k \/ \E u \in Threads : Reading(u)' /\ pos'[u] = k - Capacity
    <3>1. CASE k = pos[t] + Capacity
      BY <1>5, <1>6, <3>1
    <3>2. CASE k # pos[t] + Capacity
      <4>1. k \in read_pos .. read_pos + Capacity - 1 /\ pos[t] # k - Capacity
        BY <1>2, <3>2
      <4>2. sequence'[Slot(k)] = sequence[Slot(k)]
        BY <1>8, <3>2, <4>1
      <4>3. \A u \in Threads : Reading(u) /\ pos[u] = k - Capacity =>
              Reading(u)' /\ pos'[u] = k - Capacity
        BY <1>1, <1>4, <4>1
      <4>4. QED
        BY <4>2, <4>3 DEF IInv, SlotsInv
    <3>3. QED
      BY <3>1, <3>2
  <2>3. QED
    BY <1>1, <2>1, <2>2 DEF SlotsInv
<1>11. WriterInv'
  <2>1. \A u \in Threads : Writing(u)' => u # t /\ Writing(u) /\ pc'[u] = pc[u]
    BY <1>3, <1>4
  <2>2. QED
    BY <1>1, <1>7, <2>1 DEF IInv, WriterInv
<1>12. ReaderInv'
  <2>1. \A u \in Threads : Reading(u)' => u # t /\ Reading(u) /\ pc'[u] = pc[u]
    BY <1>3, <1>4
  <2>2. QED
    BY <1>1, <1>7, <2>1 DEF IInv, ReaderInv
<1>13. ClaimedOnce'
  BY <1>1, <1>4 DEF IInv, ClaimedOnce
<1>14. CasInv'
  <2>1. ASSUME NEW u \in Threads, pc[u] = "push_cas", pos[u] = write_pos
        PROVE  sequence'[Slot(pos[u])] = pos[u]
    <3>1. /\ write_pos < read_pos + Capacity /\ pos[t] # write_pos - Capacity
      BY <1>4, <2>1, FreeForPush
    <3>2. write_pos \in read_pos .. read_pos + Capacity - 1 /\ write_pos # pos[t] + Capacity
      BY <1>2, <3>1
    <3>3. QED
      BY <1>8, <2>1, <3>2 DEF IInv, CasInv
  <2>2. ASSUME NEW u \in Threads, pc[u] = "pop_cas", pos[u] = read_pos
        PROVE  sequence'[Slot(pos[u])] = pos[u] + 1
    <3>1. read_pos < write_pos
      BY <2>2, ReadyForPop
    <3>2. read_pos \in read_pos .. read_pos + Capacity - 1 /\ read_pos # pos[t] + Capacity
      BY <1>2, <1>5, <3>1
    <3>3. QED
      BY <1>8, <2>2, <3>2 DEF IInv, CasInv
  <2>3. QED
    BY <1>1, <1>3, <2>1, <2>2, SMTT(30) DEF IInv, CasInv, PushPC, PopPC
<1>15. SizeInv'
  BY <1>1, <1>3 DEF IInv, SizeInv
<1>16. QED
  BY <1>1, <1>6, <1>9, <1>10, <1>11, <1>12, <1>13, <1>14, <1>15 DEF IInv

\* Every step of every thread keeps the invariant.
LEMMA NextIInv == IInv /\ [Next]_vars => IInv'
<1> SUFFICES ASSUME IInv, [Next]_vars PROVE IInv'
  OBVIOUS
<1>1. CASE UNCHANGED vars
  <2>1. /\ write_pos' = write_pos /\ read_pos' = read_pos /\ sequence' = sequence /\ data' = data
        /\ pc' = pc /\ pos' = pos /\ item' = item /\ out' = out /\ size' = size /\ pushed' = pushed
    BY <1>1 DEF vars, shared
  <2>2. \A u \in Threads : (Writing(u)' <=> Writing(u)) /\ (Reading(u)' <=> Reading(u))
    BY <2>1 DEF Writing, Reading
  <2>3. TypeOK' /\ CasInv' /\ PastInv' /\ SizeInv'
    BY <2>1 DEF IInv, TypeOK, CasInv, PastInv, SizeInv
  <2>4. SlotsInv'
    BY <2>1, <2>2 DEF IInv, SlotsInv, Ready
  <2>5. WriterInv' /\ ReaderInv' /\ ClaimedOnce'
    BY <2>1, <2>2, Zenon DEF IInv, WriterInv, ReaderInv, ClaimedOnce
  <2>6. QED
    BY <2>1, <2>3, <2>4, <2>5 DEF IInv
<1>2. ASSUME NEW t \in Producers, Push(t) \/ \E v \in Items : PushBegin(t, v) PROVE IInv'
  <2>1. t \in Threads
    BY DEF Threads
  <2>2. QED
    BY <1>2, <2>1, BeginPreserves, LookPreserves, ReloadPreserves, PushCasPreserves,
       PushCopyPreserves, PushReadyPreserves DEF Push
<1>3. ASSUME NEW t \in Consumers, Pop(t) \/ PopBegin(t) PROVE IInv'
  <2>1. t \in Threads
    BY DEF Threads
  <2>2. QED
    BY <1>3, <2>1, BeginPreserves, LookPreserves, ReloadPreserves, PopCasPreserves,
       PopCopyPreserves, PopFreePreserves DEF Pop
<1>4. ASSUME NEW t \in Observers, SizeEnd(t) \/ SizeBegin(t) PROVE IInv'
  <2>1. t \in Threads
    BY DEF Threads
  <2>2. QED
    BY <1>4, <2>1, BeginPreserves, SizeEndPreserves
<1>5. QED
  BY <1>1, <1>2, <1>3, <1>4 DEF Next

\* IInv holds throughout.
LEMMA Invariance == Spec => []IInv
BY InitIInv, NextIInv, PTL DEF Spec
-----------------------------------------------------------------------------
(* Theorems *)

\* The variables keep their types and two threads never copy into or out of
\* the same slot at once (the memcpys of mpmc_ring_buffer.hpp:88 and :120).
THEOREM RingIsSound == Spec => []RingInv
<1>1. IInv => RingInv
  BY Exclusive DEF IInv, RingInv
<1>2. QED
  BY <1>1, Invariance, PTL

\* pop() hands out, at each position, the item that push() claimed it for.
THEOREM PopsAreRight == Spec => []PopsWhatWasPushed
<1>1. IInv => PopsWhatWasPushed
  BY DEF IInv, ReaderInv, Reading, PopsWhatWasPushed
<1>2. QED
  BY <1>1, Invariance, PTL

\* approx_size() never exceeds the capacity.
THEOREM SizeIsBounded == Spec => []SizeBounded
<1>1. IInv => SizeBounded
  BY DEF IInv, SizeInv, SizeBounded
<1>2. QED
  BY <1>1, Invariance, PTL

\* A thread that gives up does so in the step that looks at the sequence.
LEMMA GivesUpInLook ==
  ASSUME IInv, Next, NEW t \in Threads
  PROVE  /\ pc[t] = "push_seq" /\ pc'[t] = "idle" => PushSeq(t)
         /\ pc[t] = "pop_seq" /\ pc'[t] = "idle" => PopSeq(t)
<1>1. ASSUME NEW u \in Threads, u # t, pc' = [pc EXCEPT ![u] = pc'[u]] PROVE pc'[t] = pc[t]
  BY <1>1 DEF IInv, TypeOK
<1>2. ASSUME NEW u \in Threads, Push(u) \/ (\E v \in Items : PushBegin(u, v))
                                \/ Pop(u) \/ PopBegin(u) \/ SizeEnd(u) \/ SizeBegin(u)
      PROVE  pc' = [pc EXCEPT ![u] = pc'[u]]
  BY <1>2 DEF IInv, TypeOK, Goto, Push, PushBegin, PushSeq, PushReload, PushCas, PushCasFails,
     PushCopy, PushReady, Pop, PopBegin, PopSeq, PopReload, PopCas, PopCasFails, PopCopy,
     PopFree, SizeBegin, SizeEnd
<1>3. PICK u \in Threads : Push(u) \/ (\E v \in Items : PushBegin(u, v))
                           \/ Pop(u) \/ PopBegin(u) \/ SizeEnd(u) \/ SizeBegin(u)
  BY DEF Next, Threads
<1>4. CASE u # t
  BY <1>1, <1>2, <1>3, <1>4
<1>5. CASE u = t
  BY <1>3, <1>5, Zenon DEF Goto, Push, PushBegin, PushSeq, PushReload, PushCas, PushCasFails,
     PushCopy, PushReady, Pop, PopBegin, PopSeq, PopReload, PopCas, PopCasFails, PopCopy,
     PopFree, SizeBegin, SizeEnd
<1>6. QED
  BY <1>4, <1>5

\* push() returns false only when the ring is full or a late consumer has the
\* slot needed next, pop() only when the ring is empty or a late producer has
\* the oldest item (mpmc_ring_buffer.hpp:94, :126).
THEOREM FailuresHaveCause == Spec => FailsForCause
<1> DEFINE PushCause == \/ write_pos - read_pos = Capacity
                        \/ \E u \in Threads : Reading(u) /\ pos[u] = write_pos - Capacity
           PopCause  == \/ write_pos = read_pos
                        \/ \E u \in Threads : Writing(u) /\ pos[u] = read_pos
<1>1. ASSUME IInv, NEW t \in Threads, PushSeq(t), pc'[t] = "idle" PROVE PushCause
  <2>1. /\ pc[t] = "push_seq" /\ sequence[Slot(pos[t])] - pos[t] < 0
    BY <1>1 DEF PushSeq, Goto, Diff, IInv, TypeOK
  <2>2. /\ pos[t] \in Nat /\ write_pos \in Nat /\ read_pos \in Nat /\ Capacity \in Nat
        /\ write_pos - read_pos \in 0 .. Capacity /\ sequence[Slot(pos[t])] \in Nat
        /\ pos[t] <= write_pos
    BY <1>1, <2>1, SlotInRange, MpmcAssumption, SMTT(30) DEF IInv, TypeOK, CasInv, PushPC
  <2>3. pos[t] = write_pos
    <3>1. pos[t] \in 0 .. write_pos - 1 => sequence[Slot(pos[t])] >= pos[t]
      BY <1>1 DEF IInv, PastInv
    <3>2. QED
      BY <2>1, <2>2, <3>1
  <2>4. SUFFICES ASSUME write_pos - read_pos # Capacity PROVE PushCause
    OBVIOUS
  <2>5. write_pos \in write_pos .. read_pos + Capacity - 1 /\ sequence[Slot(write_pos)] # write_pos
    BY <2>1, <2>2, <2>3, <2>4
  <2>6. QED
    BY <1>1, <2>5, Zenon DEF IInv, SlotsInv
<1>2. ASSUME IInv, NEW t \in Threads, PopSeq(t), pc'[t] = "idle" PROVE PopCause
  <2>1. /\ pc[t] = "pop_seq" /\ sequence[Slot(pos[t])] - (pos[t] + 1) < 0
    BY <1>2 DEF PopSeq, Goto, Diff, IInv, TypeOK
  <2>2. /\ pos[t] \in Nat /\ write_pos \in Nat /\ read_pos \in Nat
        /\ read_pos <= write_pos /\ sequence[Slot(pos[t])] \in Nat /\ pos[t] <= read_pos
    BY <1>2, <2>1, SlotInRange, MpmcAssumption, SMTT(30) DEF IInv, TypeOK, CasInv, PopPC
  <2>3. pos[t] = read_pos
    <3>1. pos[t] \in 0 .. read_pos - 1 => sequence[Slot(pos[t])] >= pos[t] + 1
      BY <1>2 DEF IInv, PastInv
    <3>2. QED
      BY <2>1, <2>2, <3>1
  <2>4. SUFFICES ASSUME write_pos # read_pos PROVE PopCause
    OBVIOUS
  <2>5. read_pos \in read_pos .. write_pos - 1 /\ sequence[Slot(read_pos)] # read_pos + 1
    BY <2>1, <2>2, <2>3, <2>4
  <2>6. QED
    BY <1>2, <2>5 DEF IInv, SlotsInv, Ready
<1>3. ASSUME IInv, [Next]_vars
      PROVE  /\ [\A t \in Producers : pc[t] = "push_seq" /\ pc'[t] = "idle" => PushCause]_vars
             /\ [\A t \in Consumers : pc[t] = "pop_seq" /\ pc'[t] = "idle" => PopCause]_vars
  <2>1. CASE UNCHANGED vars
    BY <2>1
  <2>2. CASE Next
    <3>1. \A t \in Producers \cup Consumers : t \in Threads
      BY DEF Threads
    <3>2. ASSUME NEW t \in Producers, pc[t] = "push_seq", pc'[t] = "idle" PROVE PushCause
      BY <1>1, <1>3, <2>2, <3>1, <3>2, GivesUpInLook
    <3>3. ASSUME NEW t \in Consumers, pc[t] = "pop_seq", pc'[t] = "idle" PROVE PopCause
      BY <1>2, <1>3, <2>2, <3>1, <3>3, GivesUpInLook
    <3>4. QED
      BY <3>2, <3>3
  <2>3. QED
    BY <1>3, <2>1, <2>2
<1>4. QED
  BY <1>3, Invariance, PTL DEF Spec, FailsForCause, PushFailsOnlyWhenFull, PopFailsOnlyWhenEmpty

-----------------------------------------------------------------------------
(* The ring is a bounded FIFO queue *)

Queue == [i \in 1 .. write_pos - read_pos |-> pushed[read_pos + i]]
Taken == [t \in Threads |-> IF pc[t] = "pop_copy" THEN data[Slot(pos[t])] ELSE out[t]]

\* The items between the two positions, as a sequence.
LEMMA QueueIsSeq ==
  ASSUME IInv
  PROVE  /\ Queue \in Seq(Items) /\ Len(Queue) = write_pos - read_pos
         /\ \A i \in 1 .. write_pos - read_pos : Queue[i] = pushed[read_pos + i]
<1>1. /\ write_pos - read_pos \in Nat /\ write_pos \in Nat /\ read_pos \in Nat
      /\ pushed \in Seq(Items) /\ Len(pushed) = write_pos
  BY MpmcAssumption DEF IInv, TypeOK
<1>2. \A i \in 1 .. write_pos - read_pos : pushed[read_pos + i] \in Items
  <2>1. \A i \in 1 .. write_pos - read_pos : read_pos + i \in 1 .. Len(pushed)
    BY <1>1
  <2>2. QED
    BY <1>1, <2>1, SeqIsFunction, Zenon
<1>3. Queue \in [1 .. write_pos - read_pos -> Items]
  BY <1>2 DEF Queue
<1>4. QED
  BY <1>1, <1>3 DEF Queue

\* The CAS of push() is the moment at which the item enters the queue.
LEMMA PushCasEnqueues ==
  ASSUME IInv, IInv', NEW t \in Threads, PushCas(t)
  PROVE  /\ item[t] \in Items /\ Len(Queue) < Capacity
         /\ Queue' = Append(Queue, item[t]) /\ Taken' = Taken
<1>1. /\ pc[t] = "push_cas" /\ pos[t] = write_pos /\ write_pos' = write_pos + 1
      /\ pushed' = Append(pushed, item[t]) /\ pc' = [pc EXCEPT ![t] = "push_copy"]
      /\ read_pos' = read_pos /\ data' = data /\ pos' = pos /\ out' = out
  BY DEF PushCas, Goto
<1>2. /\ write_pos \in Nat /\ read_pos \in Nat /\ Capacity \in Nat /\ read_pos <= write_pos
      /\ write_pos' - read_pos' = (write_pos - read_pos) + 1 /\ write_pos - read_pos \in Nat
  BY <1>1, MpmcAssumption, SMTT(30) DEF IInv, TypeOK
<1>3. /\ item[t] \in Items /\ pushed \in Seq(Items) /\ Len(pushed) = write_pos
  BY <1>1 DEF IInv, TypeOK, CasInv, PushPC
<1>4. write_pos - read_pos < Capacity
  BY <1>1, <1>2, FreeForPush
<1>5. Queue' = Append(Queue, item[t])
  <2>1. /\ Queue \in Seq(Items) /\ Len(Queue) = write_pos - read_pos
        /\ \A i \in 1 .. write_pos - read_pos : Queue[i] = pushed[read_pos + i]
    BY QueueIsSeq
  <2> DEFINE Q == Append(Queue, item[t])
  <2> HIDE DEF Q
  <2>2. /\ Q \in Seq(Items) /\ Len(Q) = write_pos - read_pos + 1
        /\ \A i \in 1 .. write_pos - read_pos : Q[i] = Queue[i]
        /\ Q[write_pos - read_pos + 1] = item[t]
    <3>1. /\ Q \in Seq(Items) /\ Len(Q) = Len(Queue) + 1
          /\ \A i \in 1 .. Len(Queue) : Q[i] = Queue[i]
          /\ Q[Len(Queue) + 1] = item[t]
      BY <1>3, <2>1, AppendAt, Zenon DEF Q
    <3>2. QED
      BY <2>1, <3>1, Zenon
  <2>3. /\ \A i \in 1 .. write_pos : pushed'[i] = pushed[i]
        /\ pushed'[write_pos + 1] = item[t]
    <3> DEFINE P == Append(pushed, item[t])
    <3> HIDE DEF P
    <3>1. (\A i \in 1 .. Len(pushed) : P[i] = pushed[i]) /\ P[Len(pushed) + 1] = item[t]
      BY <1>3, AppendAt, SMTT(30) DEF P
    <3>2. pushed' = P /\ Len(pushed) = write_pos
      BY <1>1, <1>3, Zenon DEF P
    <3>3. QED
      BY <3>1, <3>2, Zenon
  <2>4. Queue' = [i \in 1 .. write_pos - read_pos + 1 |-> pushed'[read_pos + i]]
    BY <1>1, <1>2 DEF Queue
  <2>5. ASSUME NEW i \in 1 .. write_pos - read_pos + 1
        PROVE  Q[i] = pushed'[read_pos + i]
    <3>1. CASE i = write_pos - read_pos + 1
      <4>1. read_pos + i = write_pos + 1
        BY <1>2, <3>1
      <4>2. QED
        BY <2>2, <2>3, <3>1, <4>1
    <3>2. CASE i # write_pos - read_pos + 1
      <4>1. i \in 1 .. write_pos - read_pos /\ read_pos + i \in 1 .. write_pos
        BY <1>2, <3>2
      <4>2. QED
        BY <2>1, <2>2, <2>3, <4>1
    <3>3. QED
      BY <3>1, <3>2
  <2>6. Q = [i \in 1 .. write_pos - read_pos + 1 |-> Q[i]]
    <3>1. Q = [i \in 1 .. Len(Q) |-> Q[i]]
      BY <2>2, SeqIsFunction, Zenon
    <3>2. QED
      BY <2>2, <3>1, Zenon
  <2>7. QED
    BY <2>4, <2>5, <2>6 DEF Q
<1>6. Taken' = Taken
  <2>1. \A u \in Threads : pc'[u] = IF u = t THEN "push_copy" ELSE pc[u]
    BY <1>1 DEF IInv, TypeOK
  <2>2. QED
    BY <1>1, <2>1, SMTT(30) DEF Taken
<1>7. Len(Queue) = write_pos - read_pos
  BY QueueIsSeq
<1>8. QED
  BY <1>3, <1>4, <1>5, <1>6, <1>7

\* The CAS of pop() is the moment at which the oldest item leaves it.
LEMMA PopCasDequeues ==
  ASSUME IInv, IInv', NEW t \in Threads, PopCas(t)
  PROVE  /\ Queue # <<>> /\ Queue' = Tail(Queue)
         /\ Taken' = [Taken EXCEPT ![t] = Head(Queue)]
<1>1. /\ pc[t] = "pop_cas" /\ pos[t] = read_pos /\ read_pos' = read_pos + 1
      /\ pc' = [pc EXCEPT ![t] = "pop_copy"] /\ write_pos' = write_pos
      /\ data' = data /\ pos' = pos /\ out' = out /\ pushed' = pushed
  BY DEF PopCas, Goto
<1>2. read_pos < write_pos /\ data[Slot(read_pos)] = pushed[read_pos + 1]
  BY <1>1, ReadyForPop DEF Ready
<1>3. write_pos \in Nat /\ read_pos \in Nat
  BY DEF IInv, TypeOK
<1>4. /\ Queue \in Seq(Items) /\ Len(Queue) = write_pos - read_pos
      /\ \A i \in 1 .. write_pos - read_pos : Queue[i] = pushed[read_pos + i]
  BY QueueIsSeq
<1>5. Queue # <<>> /\ Head(Queue) = pushed[read_pos + 1]
  BY <1>2, <1>3, <1>4
<1>6. Queue' = Tail(Queue)
  <2>1. /\ Tail(Queue) \in Seq(Items) /\ Len(Tail(Queue)) = Len(Queue) - 1
        /\ \A i \in 1 .. Len(Tail(Queue)) : Tail(Queue)[i] = Queue[i + 1]
    <3>1. /\ Tail(Queue) \in Seq(Items) /\ Len(Tail(Queue)) = Len(Queue) - 1
          /\ \A i \in 1 .. Len(Queue) - 1 : Tail(Queue)[i] = Queue[i + 1]
      BY <1>4, <1>5, TailAt, Zenon
    <3>2. QED
      BY <3>1, Zenon
  <2>2. Queue' = [i \in 1 .. Len(Tail(Queue)) |-> pushed[(read_pos + 1) + i]]
    <3>1. write_pos' - read_pos' = Len(Tail(Queue))
      BY <1>1, <1>3, <1>4, <2>1
    <3>2. QED
      BY <1>1, <3>1, Zenon DEF Queue
  <2>3. ASSUME NEW i \in 1 .. Len(Tail(Queue)) PROVE Tail(Queue)[i] = pushed[(read_pos + 1) + i]
    <3>1. i + 1 \in 1 .. write_pos - read_pos /\ read_pos + (i + 1) = (read_pos + 1) + i
      BY <1>2, <1>3, <1>4, <2>1
    <3>2. QED
      BY <1>4, <2>1, <3>1
  <2>4. Tail(Queue) = [i \in 1 .. Len(Tail(Queue)) |-> Tail(Queue)[i]]
    BY <2>1, SeqIsFunction, Zenon
  <2>5. QED
    BY <2>2, <2>3, <2>4
<1>7. Taken' = [Taken EXCEPT ![t] = Head(Queue)]
  <2>1. \A u \in Threads : pc'[u] = IF u = t THEN "pop_copy" ELSE pc[u]
    BY <1>1 DEF IInv, TypeOK
  <2>2. QED
    BY <1>1, <1>2, <1>5, <2>1 DEF Taken
<1>8. QED
  BY <1>5, <1>6, <1>7

\* All other steps leave the queue and what was taken from it as they are:
\* push() copies into a slot that no pop() is reading, and a pop() has the
\* item in hand from its CAS on.
LEMMA OthersStutter ==
  ASSUME IInv, NEW t \in Threads,
         \/ Push(t) /\ ~PushCas(t)
         \/ Pop(t) /\ ~PopCas(t)
         \/ (\E v \in Items : PushBegin(t, v)) \/ PopBegin(t) \/ SizeBegin(t) \/ SizeEnd(t)
  PROVE  Queue' = Queue /\ Taken' = Taken
<1>1. write_pos' = write_pos /\ read_pos' = read_pos /\ pushed' = pushed
  BY Zenon DEF Push, PushBegin, PushSeq, PushReload, PushCasFails, PushCopy, PushReady, Pop, PopBegin,
     PopSeq, PopReload, PopCasFails, PopCopy, PopFree, SizeBegin, SizeEnd, shared
<1>2. Queue' = Queue
  BY <1>1 DEF Queue
<1>3. CASE PushCopy(t)
  <2>1. /\ pc[t] = "push_copy" /\ pc' = [pc EXCEPT ![t] = "push_ready"]
        /\ data' = [data EXCEPT ![Slot(pos[t])] = item[t]] /\ pos' = pos /\ out' = out
    BY <1>3, Zenon DEF PushCopy, Goto
  <2>2. \A u \in Threads : pc'[u] = IF u = t THEN "push_ready" ELSE pc[u]
    BY <2>1 DEF IInv, TypeOK
  <2>3. \A u \in Threads : pc[u] = "pop_copy" => u # t /\ Slot(pos[u]) # Slot(pos[t])
    BY <2>1, Exclusive, Zenon DEF SlotExclusive, Writing, Reading
  <2>4. \A u \in Threads : Slot(pos[u]) \in Slots
    BY SlotInRange DEF IInv, TypeOK
  <2>5. \A u \in Threads : pc[u] = "pop_copy" => data'[Slot(pos[u])] = data[Slot(pos[u])]
    BY <2>1, <2>3, <2>4 DEF IInv, TypeOK
  <2>6. ASSUME NEW u \in Threads PROVE pc'[u] = "pop_copy" <=> pc[u] = "pop_copy"
    <3>1. CASE u = t
      <4>1. pc[u] = "push_copy" /\ pc'[u] = "push_ready"
        BY <2>1, <2>2, <3>1, Zenon
      <4>2. QED
        BY <4>1
    <3>2. CASE u # t
      BY <2>2, <3>2, Zenon
    <3>3. QED
      BY <3>1, <3>2, Zenon
  <2>7. Taken' = Taken
    BY <2>1, <2>5, <2>6, Zenon DEF Taken, Slot
  <2>8. QED
    BY <1>2, <2>7, Zenon
<1>4. CASE PopCopy(t)
  <2>1. /\ pc[t] = "pop_copy" /\ pc' = [pc EXCEPT ![t] = "pop_free"]
        /\ out' = [out EXCEPT ![t] = data[Slot(pos[t])]] /\ pos' = pos /\ data' = data
    BY <1>4 DEF PopCopy, Goto, shared
  <2>2. \A u \in Threads : pc'[u] = IF u = t THEN "pop_free" ELSE pc[u]
    BY <2>1 DEF IInv, TypeOK
  <2>3. \A u \in Threads : out'[u] = IF u = t THEN data[Slot(pos[t])] ELSE out[u]
    BY <2>1 DEF IInv, TypeOK
  <2>4. QED
    BY <1>2, <2>1, <2>2, <2>3 DEF Taken
<1>5. CASE ~PushCopy(t) /\ ~PopCopy(t)
  <2>1. /\ data' = data /\ out' = out /\ pc[t] # "pop_copy" /\ pc'[t] # "pop_copy"
        /\ pc' = [pc EXCEPT ![t] = pc'[t]]
        /\ pos' = [pos EXCEPT ![t] = pos'[t]]
    BY <1>5 DEF Push, PushBegin, PushSeq, PushReload, PushCasFails, PushReady, Pop, PopBegin,
       PopSeq, PopReload, PopCasFails, PopFree, SizeBegin, SizeEnd, shared, Goto, IInv, TypeOK
  <2>2. \A u \in Threads : u # t => pc'[u] = pc[u] /\ pos'[u] = pos[u]
    BY <2>1 DEF IInv, TypeOK
  <2>3. \A u \in Threads : /\ pc'[u] = "pop_copy" <=> pc[u] = "pop_copy"
                           /\ pc[u] = "pop_copy" => pos'[u] = pos[u]
    BY <2>1, <2>2, Zenon
  <2>4. Taken' = Taken
    BY <2>1, <2>3, Zenon DEF Taken, Slot
  <2>5. QED
    BY <1>2, <2>4, Zenon
<1>6. QED
  BY <1>3, <1>4, <1>5, Zenon

\* The ring is a bounded FIFO queue, whatever its threads do: nothing is lost,
\* duplicated, reordered or invented by push() and pop().
THEOREM RefinesFifo == Spec => ImplementsFifo
<1>1. Init => Fifo!FifoInit
  <2> SUFFICES ASSUME Init PROVE Queue = <<>> /\ Taken = [t \in Threads |-> None]
    BY Zenon DEF Fifo!FifoInit, Queue, Taken
  <2>1. 1 .. write_pos - read_pos = {}
    BY DEF Init
  <2>2. Queue = <<>>
    BY <2>1 DEF Queue
  <2>3. Taken = [t \in Threads |-> None]
    BY DEF Init, Taken
  <2>4. QED
    BY <2>2, <2>3
<1>2. ASSUME IInv, IInv', [Next]_vars PROVE [Fifo!FifoNext]_Fifo!fvars
  <2>1. SUFFICES \/ Queue' = Queue /\ Taken' = Taken
                 \/ \E v \in Items : /\ Len(Queue) < Capacity
                                     /\ Queue' = Append(Queue, v) /\ Taken' = Taken
                 \/ \E t \in Threads : /\ Queue # <<>> /\ Queue' = Tail(Queue)
                                       /\ Taken' = [Taken EXCEPT ![t] = Head(Queue)]
    BY DEF Fifo!FifoNext, Fifo!fvars, Fifo!Enqueue, Fifo!Dequeue, Queue, Taken
  <2>2. CASE UNCHANGED vars
    BY <2>2, Zenon DEF vars, shared, Queue, Taken
  <2>3. ASSUME NEW t \in Threads, Push(t) \/ Pop(t) \/ (\E v \in Items : PushBegin(t, v))
                                  \/ PopBegin(t) \/ SizeBegin(t) \/ SizeEnd(t)
        PROVE  \/ Queue' = Queue /\ Taken' = Taken
               \/ \E v \in Items : /\ Len(Queue) < Capacity
                                   /\ Queue' = Append(Queue, v) /\ Taken' = Taken
               \/ Queue # <<>> /\ Queue' = Tail(Queue) /\ Taken' = [Taken EXCEPT ![t] = Head(Queue)]
    <3>1. CASE PushCas(t)
      BY <1>2, <3>1, PushCasEnqueues
    <3>2. CASE PopCas(t)
      BY <1>2, <3>2, PopCasDequeues
    <3>3. CASE ~PushCas(t) /\ ~PopCas(t)
      BY <1>2, <2>3, <3>3, OthersStutter
    <3>4. QED
      BY <3>1, <3>2, <3>3
  <2>4. CASE Next
    <3>1. PICK t \in Threads : Push(t) \/ Pop(t) \/ (\E v \in Items : PushBegin(t, v))
                               \/ PopBegin(t) \/ SizeBegin(t) \/ SizeEnd(t)
      BY <2>4 DEF Next, Threads
    <3>2. QED
      BY <2>3, <3>1
  <2>5. QED
    BY <1>2, <2>2, <2>4, Zenon
<1>3. QED
  BY <1>1, <1>2, Invariance, PTL DEF Spec, ImplementsFifo, Fifo!FifoSpec
=============================================================================
