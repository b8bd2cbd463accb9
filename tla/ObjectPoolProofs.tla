-------------------------- MODULE ObjectPoolProofs --------------------------
(***************************************************************************)
(* Proofs about ObjectPool, for every capacity, number of threads and      *)
(* number of operations, with or without spurious failures of the CAS.     *)
(***************************************************************************)
EXTENDS ObjectPool, SequenceTheorems, FiniteSetTheorems, WellFoundedInduction, TLAPS

(***************************************************************************)
(* The inductive invariant.  Its heart is what the tag is for: a thread    *)
(* whose old_head bears the tag of the head has the head itself, so that   *)
(* what it read or wrote since is still right when its CAS succeeds.       *)
(***************************************************************************)
TagInv ==
  \A t \in Threads : pc[t] # "idle" =>
    /\ old_head[t].tag <= head.tag
    /\ old_head[t].tag = head.tag => old_head[t] = head

\* acquire() has a slot in hand, and the link it read is that slot's.
AcquireInv ==
  \A t \in Threads :
    /\ pc[t] \in {"acq_next", "acq_cas"} => old_head[t].idx # Null
    /\ pc[t] = "acq_cas" /\ old_head[t] = head => new_idx[t] = next[head.idx]

\* release() has linked its slot to the head it saw.
ReleaseInv ==
  \A t \in Threads : pc[t] = "rel_cas" => next[mine[t]] = old_head[t].idx

\* A walk during which no operation succeeded is on the list.
WalkInv ==
  \A t \in Threads : pc[t] = "walk" /\ old_head[t].tag = head.tag =>
    /\ count[t] <= Len(free)
    /\ new_idx[t] = IF count[t] = Len(free) THEN Null ELSE free[count[t] + 1]

\* EachSlotOnce, place by place.
NoRepeats == \A i, j \in DOMAIN free : free[i] = free[j] => i = j

PlaceInv ==
  /\ \A s \in Slots : loans[s] <= 1
  /\ \A i \in DOMAIN free : loans[free[i]] = 0
  /\ \A t \in Threads : Returning(t) =>
       /\ loans[mine[t]] = 0
       /\ \A i \in DOMAIN free : free[i] # mine[t]
  /\ \A t, u \in Threads : Returning(t) /\ Returning(u) /\ mine[t] = mine[u] => t = u
  /\ \A s \in Slots :
       \/ \E i \in DOMAIN free : free[i] = s
       \/ loans[s] = 1
       \/ \E t \in Threads : Returning(t) /\ mine[t] = s

IInv ==
  /\ TypeOK /\ ListIntact /\ NoRepeats /\ PlaceInv
  /\ TagInv /\ AcquireInv /\ ReleaseInv /\ WalkInv
-----------------------------------------------------------------------------
\* Taking the first element off a list.
LEMMA PopFront ==
  ASSUME NEW S, NEW q \in Seq(S), q # <<>>, NEW r, r = SubSeq(q, 2, Len(q))
  PROVE  /\ r \in Seq(S)
         /\ Len(r) = Len(q) - 1
         /\ \A i \in 1 .. Len(r) : r[i] = q[i + 1]
<1>1. Len(q) \in Nat \ {0} /\ \A i \in 1 .. Len(q) : q[i] \in S
  BY EmptySeq, LenProperties, ElementOfSeq
<1>2. \A i \in 2 .. Len(q) : q[i] \in S
  BY <1>1
<1>3. /\ r \in Seq(S)
      /\ Len(r) = IF 2 <= Len(q) THEN Len(q) - 2 + 1 ELSE 0
      /\ \A i \in 1 .. Len(q) - 2 + 1 : r[i] = q[2 + i - 1]
  BY <1>1, <1>2, SubSeqProperties
<1>4. Len(r) = Len(q) - 1
  BY <1>1, <1>3
<1>5. ASSUME NEW i \in 1 .. Len(r) PROVE r[i] = q[i + 1]
  <2>1. i \in 1 .. Len(q) - 2 + 1 /\ 2 + i - 1 = i + 1
    BY <1>1, <1>4
  <2>2. QED
    BY <1>3, <2>1
<1>6. QED
  BY <1>3, <1>4, <1>5

\* Putting an element in front of a list.
LEMMA PushFront ==
  ASSUME NEW S, NEW q \in Seq(S), NEW e \in S, NEW r, r = <<e>> \o q
  PROVE  /\ r \in Seq(S)
         /\ Len(r) = Len(q) + 1
         /\ r[1] = e
         /\ \A i \in 2 .. Len(r) : r[i] = q[i - 1]
<1>1. <<e>> \in Seq(S) /\ Len(<<e>>) = 1 /\ <<e>>[1] = e
  OBVIOUS
<1>2. Len(q) \in Nat
  BY LenProperties
<1>3. /\ r \in Seq(S)
      /\ Len(r) = 1 + Len(q)
      /\ \A i \in 1 .. 1 + Len(q) : r[i] = IF i <= 1 THEN <<e>>[i] ELSE q[i - 1]
  BY <1>1, ConcatProperties
<1>4. QED
  BY <1>1, <1>2, <1>3

\* The free list is no longer than the pool.
LEMMA ListFits ==
  ASSUME TypeOK, NoRepeats
  PROVE  Len(free) \in 0 .. Capacity
<1>1. Len(free) \in Nat /\ free \in [1 .. Len(free) -> Slots] /\ DOMAIN free = 1 .. Len(free)
  BY LenProperties DEF TypeOK
<1>2. free \in Injection(1 .. Len(free), Slots)
  BY <1>1 DEF NoRepeats, Injection, IsInjective
<1>3. IsFiniteSet(Slots) /\ Cardinality(Slots) = Capacity
  BY FS_Interval, PoolAssumption DEF Slots
<1>4. Cardinality(1 .. Len(free)) <= Cardinality(Slots)
  BY <1>2, <1>3, FS_Injection
<1>5. Cardinality(1 .. Len(free)) = Len(free)
  <2>1. Cardinality(1 .. Len(free)) = IF 1 > Len(free) THEN 0 ELSE Len(free) - 1 + 1
    BY <1>1, FS_Interval
  <2> QED
    BY <1>1, <2>1
<1>6. QED
  BY <1>1, <1>3, <1>4, <1>5
-----------------------------------------------------------------------------
\* The constructor establishes the invariant.
LEMMA InitIInv == Init => IInv
<1> SUFFICES ASSUME Init PROVE IInv
  OBVIOUS
<1> USE PoolAssumption
<1>1. free \in Seq(Slots) /\ Len(free) = Capacity /\ DOMAIN free = 1 .. Capacity
  BY DEF Init, Slots
<1>2. TypeOK
  BY <1>1 DEF Init, TypeOK, Slots, Links, Heads, Null
<1>3. ListIntact
  <2>1. free # <<>>
    BY <1>1
  <2>2. \A i \in 1 .. Capacity : free[i] = i - 1 /\ i - 1 \in Slots
    BY DEF Init, Slots
  <2>3. head.idx = free[1]
    BY DEF Init
  <2>4. \A s \in Slots : next[s] = IF s + 1 < Capacity THEN s + 1 ELSE Null
    BY DEF Init
  <2>5. QED
    BY <1>1, <2>1, <2>2, <2>3, <2>4 DEF ListIntact
<1>4. NoRepeats
  BY <1>1 DEF Init, NoRepeats
<1>5. PlaceInv
  <2>1. \A s \in Slots : s + 1 \in DOMAIN free /\ free[s + 1] = s
    BY <1>1 DEF Init, Slots
  <2>2. \A t \in Threads : ~Returning(t)
    BY DEF Init, Returning
  <2>3. \A s \in Slots : loans[s] = 0
    BY DEF Init
  <2>4. \A i \in DOMAIN free : free[i] \in Slots
    BY <1>1, ElementOfSeq
  <2>5. QED
    BY <2>1, <2>2, <2>3, <2>4 DEF PlaceInv
<1>6. TagInv /\ AcquireInv /\ ReleaseInv /\ WalkInv
  BY DEF Init, TagInv, AcquireInv, ReleaseInv, WalkInv
<1>7. QED
  BY <1>2, <1>3, <1>4, <1>5, <1>6 DEF IInv
-----------------------------------------------------------------------------
\* Steps that leave the shared state and the places of the slots alone.
LEMMA QuietPlaces ==
  ASSUME IInv, UNCHANGED <<head, next, mine, loans, free>>,
         \A u \in Threads : Returning(u)' <=> Returning(u)
  PROVE  ListIntact' /\ NoRepeats' /\ PlaceInv'
<1>1. ListIntact'
  BY DEF IInv, ListIntact
<1>2. NoRepeats'
  BY DEF IInv, NoRepeats
<1>3. PlaceInv'
  BY DEF IInv, PlaceInv
<1>4. QED
  BY <1>1, <1>2, <1>3

LEMMA AcquireBeginPreserves ==
  ASSUME IInv, NEW t \in Threads, AcquireBegin(t)
  PROVE  IInv'
<1> USE PoolAssumption DEF IInv
<1>1. TypeOK'
  BY DEF AcquireBegin, AcquireTest, Goto, TypeOK, AcquireInv, Links, Heads
<1>2. \A u \in Threads : Returning(u)' <=> Returning(u)
  BY DEF AcquireBegin, AcquireTest, Goto, TypeOK, Returning
<1>3. ListIntact' /\ NoRepeats' /\ PlaceInv'
  BY <1>2, QuietPlaces DEF AcquireBegin, AcquireTest, Goto
<1>4. TagInv'
  BY DEF AcquireBegin, AcquireTest, Goto, TypeOK, TagInv, Heads
<1>5. AcquireInv'
  BY DEF AcquireBegin, AcquireTest, Goto, TypeOK, AcquireInv
<1>6. ReleaseInv'
  BY DEF AcquireBegin, AcquireTest, Goto, TypeOK, ReleaseInv
<1>7. WalkInv'
  BY DEF AcquireBegin, AcquireTest, Goto, TypeOK, WalkInv
<1>8. QED
  BY <1>1, <1>3, <1>4, <1>5, <1>6, <1>7

LEMMA AcquireNextPreserves ==
  ASSUME IInv, NEW t \in Threads, AcquireNext(t)
  PROVE  IInv'
<1> USE PoolAssumption DEF IInv
<1>1. TypeOK'
  BY DEF AcquireNext, Goto, TypeOK, AcquireInv, Links, Heads
<1>2. \A u \in Threads : Returning(u)' <=> Returning(u)
  BY DEF AcquireNext, Goto, TypeOK, Returning
<1>3. ListIntact' /\ NoRepeats' /\ PlaceInv'
  BY <1>2, QuietPlaces DEF AcquireNext, Goto
<1>4. TagInv'
  BY DEF AcquireNext, Goto, TypeOK, TagInv, Heads
<1>5. AcquireInv'
  BY DEF AcquireNext, Goto, TypeOK, AcquireInv
<1>6. ReleaseInv'
  BY DEF AcquireNext, Goto, TypeOK, ReleaseInv
<1>7. WalkInv'
  BY DEF AcquireNext, Goto, TypeOK, WalkInv
<1>8. QED
  BY <1>1, <1>3, <1>4, <1>5, <1>6, <1>7

LEMMA AcquireCasFailsPreserves ==
  ASSUME IInv, NEW t \in Threads, AcquireCasFails(t)
  PROVE  IInv'
<1> USE PoolAssumption DEF IInv
<1>1. TypeOK'
  BY DEF AcquireCasFails, AcquireTest, Goto, TypeOK, AcquireInv, Links, Heads
<1>2. \A u \in Threads : Returning(u)' <=> Returning(u)
  BY DEF AcquireCasFails, AcquireTest, Goto, TypeOK, Returning
<1>3. ListIntact' /\ NoRepeats' /\ PlaceInv'
  BY <1>2, QuietPlaces DEF AcquireCasFails, AcquireTest, Goto
<1>4. TagInv'
  BY DEF AcquireCasFails, AcquireTest, Goto, TypeOK, TagInv, Heads
<1>5. AcquireInv'
  BY DEF AcquireCasFails, AcquireTest, Goto, TypeOK, AcquireInv
<1>6. ReleaseInv'
  BY DEF AcquireCasFails, AcquireTest, Goto, TypeOK, ReleaseInv
<1>7. WalkInv'
  BY DEF AcquireCasFails, AcquireTest, Goto, TypeOK, WalkInv
<1>8. QED
  BY <1>1, <1>3, <1>4, <1>5, <1>6, <1>7

LEMMA ReleaseCasFailsPreserves ==
  ASSUME IInv, NEW t \in Threads, ReleaseCasFails(t)
  PROVE  IInv'
<1> USE PoolAssumption DEF IInv
<1>1. TypeOK'
  BY DEF ReleaseCasFails, Goto, TypeOK, AcquireInv, Links, Heads
<1>2. \A u \in Threads : Returning(u)' <=> Returning(u)
  BY DEF ReleaseCasFails, Goto, TypeOK, Returning
<1>3. ListIntact' /\ NoRepeats' /\ PlaceInv'
  BY <1>2, QuietPlaces DEF ReleaseCasFails, Goto
<1>4. TagInv'
  BY DEF ReleaseCasFails, Goto, TypeOK, TagInv, Heads
<1>5. AcquireInv'
  BY DEF ReleaseCasFails, Goto, TypeOK, AcquireInv
<1>6. ReleaseInv'
  BY DEF ReleaseCasFails, Goto, TypeOK, ReleaseInv
<1>7. WalkInv'
  BY DEF ReleaseCasFails, Goto, TypeOK, WalkInv
<1>8. QED
  BY <1>1, <1>3, <1>4, <1>5, <1>6, <1>7

LEMMA WalkBeginPreserves ==
  ASSUME IInv, NEW t \in Threads, WalkBegin(t)
  PROVE  IInv'
<1> USE PoolAssumption DEF IInv
<1>1. TypeOK'
  BY DEF WalkBegin, Goto, TypeOK, AcquireInv, Links, Heads
<1>2. \A u \in Threads : Returning(u)' <=> Returning(u)
  BY DEF WalkBegin, Goto, TypeOK, Returning
<1>3. ListIntact' /\ NoRepeats' /\ PlaceInv'
  BY <1>2, QuietPlaces DEF WalkBegin, Goto
<1>4. TagInv'
  BY DEF WalkBegin, Goto, TypeOK, TagInv, Heads
<1>5. AcquireInv'
  BY DEF WalkBegin, Goto, TypeOK, AcquireInv
<1>6. ReleaseInv'
  BY DEF WalkBegin, Goto, TypeOK, ReleaseInv
<1>7. WalkInv'
  <2>1. Len(free) \in Nat /\ (Len(free) = 0 <=> free = <<>>)
    BY LenProperties, EmptySeq DEF TypeOK
  <2>2. head.idx = IF 0 = Len(free) THEN Null ELSE free[0 + 1]
    BY <2>1 DEF ListIntact
  <2>3. QED
    BY <2>1, <2>2 DEF WalkBegin, Goto, TypeOK, WalkInv
<1>8. QED
  BY <1>1, <1>3, <1>4, <1>5, <1>6, <1>7

LEMMA WalkStepPreserves ==
  ASSUME IInv, NEW t \in Threads, WalkStep(t)
  PROVE  IInv'
<1> USE PoolAssumption DEF IInv
<1>1. TypeOK'
  BY DEF WalkStep, WalkGoesOn, TypeOK, AcquireInv, Links, Heads
<1>2. \A u \in Threads : Returning(u)' <=> Returning(u)
  BY DEF WalkStep, WalkGoesOn, TypeOK, Returning
<1>3. ListIntact' /\ NoRepeats' /\ PlaceInv'
  BY <1>2, QuietPlaces DEF WalkStep, WalkGoesOn
<1>4. TagInv'
  BY DEF WalkStep, WalkGoesOn, TypeOK, TagInv, Heads
<1>5. AcquireInv'
  BY DEF WalkStep, WalkGoesOn, TypeOK, AcquireInv
<1>6. ReleaseInv'
  BY DEF WalkStep, WalkGoesOn, TypeOK, ReleaseInv
<1>7. WalkInv'
  <2>1. ASSUME old_head[t].tag = head.tag
        PROVE  /\ count[t] + 1 <= Len(free)
               /\ next[new_idx[t]] =
                    IF count[t] + 1 = Len(free) THEN Null ELSE free[(count[t] + 1) + 1]
    <3>1. Len(free) \in Nat /\ DOMAIN free = 1 .. Len(free) /\ count[t] \in Nat
      BY LenProperties DEF TypeOK
    <3>2. /\ count[t] <= Len(free)
          /\ new_idx[t] = IF count[t] = Len(free) THEN Null ELSE free[count[t] + 1]
      BY <2>1 DEF WalkStep, WalkInv
    <3>3. count[t] # Len(free)
      BY <3>2 DEF WalkStep, WalkGoesOn
    <3>4. count[t] + 1 \in DOMAIN free /\ new_idx[t] = free[count[t] + 1]
      BY <3>1, <3>2, <3>3
    <3>5. QED
      BY <3>1, <3>4 DEF ListIntact
  <2>2. QED
    BY <2>1 DEF WalkStep, WalkGoesOn, TypeOK, WalkInv
<1>8. QED
  BY <1>1, <1>3, <1>4, <1>5, <1>6, <1>7

LEMMA WalkEndPreserves ==
  ASSUME IInv, NEW t \in Threads, WalkEnd(t)
  PROVE  IInv'
<1> USE PoolAssumption DEF IInv
<1>1. TypeOK'
  BY DEF WalkEnd, Goto, TypeOK, AcquireInv, Links, Heads
<1>2. \A u \in Threads : Returning(u)' <=> Returning(u)
  BY DEF WalkEnd, Goto, TypeOK, Returning
<1>3. ListIntact' /\ NoRepeats' /\ PlaceInv'
  BY <1>2, QuietPlaces DEF WalkEnd, Goto
<1>4. TagInv'
  BY DEF WalkEnd, Goto, TypeOK, TagInv, Heads
<1>5. AcquireInv'
  BY DEF WalkEnd, Goto, TypeOK, AcquireInv
<1>6. ReleaseInv'
  BY DEF WalkEnd, Goto, TypeOK, ReleaseInv
<1>7. WalkInv'
  BY DEF WalkEnd, Goto, TypeOK, WalkInv
<1>8. QED
  BY <1>1, <1>3, <1>4, <1>5, <1>6, <1>7

LEMMA ReleaseBeginPreserves ==
  ASSUME IInv, NEW t \in Threads, NEW s \in Slots, ReleaseBegin(t, s)
  PROVE  IInv'
<1> USE PoolAssumption DEF IInv
<1>1. TypeOK'
  BY DEF ReleaseBegin, Goto, TypeOK, Links, Heads
<1>2. ListIntact' /\ NoRepeats'
  BY DEF ReleaseBegin, ListIntact, NoRepeats
<1>3. PlaceInv'
  <2>1. loans[s] = 1 /\ loans'[s] = 0 /\ \A r \in Slots \ {s} : loans'[r] = loans[r]
    BY DEF ReleaseBegin, TypeOK, PlaceInv
  <2>2. /\ Returning(t)' /\ mine'[t] = s /\ ~Returning(t)
        /\ \A u \in Threads \ {t} : (Returning(u)' <=> Returning(u)) /\ mine'[u] = mine[u]
    BY DEF ReleaseBegin, Goto, TypeOK, Returning
  <2>3. \A i \in DOMAIN free : free[i] \in Slots /\ free[i] # s
    BY <2>1, ElementOfSeq, LenProperties DEF TypeOK, PlaceInv
  <2>4. \A u \in Threads : Returning(u) => mine[u] \in Slots /\ mine[u] # s
    BY <2>1 DEF TypeOK, PlaceInv
  <2>5. free' = free
    BY DEF ReleaseBegin
  <2>6. QED
    BY <2>1, <2>2, <2>3, <2>4, <2>5 DEF PlaceInv
<1>4. TagInv'
  BY DEF ReleaseBegin, Goto, TypeOK, TagInv, Heads
<1>5. AcquireInv'
  BY DEF ReleaseBegin, Goto, TypeOK, AcquireInv
<1>6. ReleaseInv'
  BY DEF ReleaseBegin, Goto, TypeOK, ReleaseInv
<1>7. WalkInv'
  BY DEF ReleaseBegin, Goto, TypeOK, WalkInv
<1>8. QED
  BY <1>1, <1>2, <1>3, <1>4, <1>5, <1>6, <1>7

\* The link that release() stores is in no list and in no other release().
LEMMA ReleaseNextPreserves ==
  ASSUME IInv, NEW t \in Threads, ReleaseNext(t)
  PROVE  IInv'
<1> USE PoolAssumption DEF IInv
<1>1. TypeOK'
  BY DEF ReleaseNext, Goto, TypeOK, Links, Heads
<1>2. \A u \in Threads : Returning(u)' <=> Returning(u)
  BY DEF ReleaseNext, Goto, TypeOK, Returning
<1>3. \A i \in DOMAIN free : free[i] \in Slots /\ next'[free[i]] = next[free[i]]
  BY ElementOfSeq, LenProperties DEF ReleaseNext, TypeOK, PlaceInv, Returning
<1>4. ListIntact'
  BY <1>3 DEF ReleaseNext, ListIntact
<1>5. NoRepeats' /\ PlaceInv'
  BY <1>2 DEF ReleaseNext, NoRepeats, PlaceInv
<1>6. TagInv'
  BY DEF ReleaseNext, Goto, TypeOK, TagInv
<1>7. AcquireInv'
  <2>1. head.idx # Null => next'[head.idx] = next[head.idx]
    <3>1. head.idx # Null => free # <<>> /\ head.idx = free[1]
      BY DEF ListIntact
    <3>2. free # <<>> => 1 \in DOMAIN free
      BY LenProperties, EmptySeq DEF TypeOK
    <3>3. QED
      BY <1>3, <3>1, <3>2
  <2>2. QED
    BY <2>1 DEF ReleaseNext, Goto, TypeOK, AcquireInv
<1>8. ReleaseInv'
  BY DEF ReleaseNext, Goto, TypeOK, ReleaseInv, PlaceInv, Returning
<1>9. WalkInv'
  BY DEF ReleaseNext, Goto, TypeOK, WalkInv
<1>10. QED
  BY <1>1, <1>4, <1>5, <1>6, <1>7, <1>8, <1>9

\* A successful acquire() takes the first slot, as its link was right.
LEMMA AcquireCasPreserves ==
  ASSUME IInv, NEW t \in Threads, AcquireCas(t)
  PROVE  /\ IInv'
         /\ free # <<>> /\ head.idx = free[1]
         /\ free' = SubSeq(free, 2, Len(free))
<1> USE PoolAssumption DEF IInv
<1>1. /\ head = old_head[t] /\ head.idx \in Slots /\ new_idx[t] = next[head.idx]
      /\ free # <<>> /\ head.idx = free[1]
  BY DEF AcquireCas, AcquireInv, ListIntact, TypeOK, Heads, Links
<1>2. Len(free) \in Nat \ {0} /\ DOMAIN free = 1 .. Len(free) /\ free \in Seq(Slots)
  BY <1>1, EmptySeq, LenProperties DEF TypeOK
<1>3. /\ free' \in Seq(Slots) /\ Len(free') = Len(free) - 1
      /\ \A i \in 1 .. Len(free') : free'[i] = free[i + 1]
  <2>1. free' = SubSeq(free, 2, Len(free))
    BY DEF AcquireCas
  <2>2. QED
    BY <1>1, <1>2, <2>1, PopFront
<1>4. DOMAIN free' = 1 .. Len(free') /\ (free' = <<>> <=> Len(free') = 0)
  BY <1>3, LenProperties, EmptySeq
<1>5. \A i \in DOMAIN free' : i + 1 \in DOMAIN free /\ free'[i] = free[i + 1] /\ i + 1 # 1
  BY <1>2, <1>3, <1>4
<1>6. TypeOK'
  <2>1. head' \in Heads
    BY DEF AcquireCas, TypeOK, Heads
  <2>2. loans' \in [Slots -> Nat]
    BY <1>1 DEF AcquireCas, TypeOK
  <2>3. pc' \in [Threads -> {"idle", "acq_next", "acq_cas", "rel_next", "rel_cas", "walk"}]
    BY DEF AcquireCas, Goto, TypeOK
  <2>4. QED
    BY <1>3, <2>1, <2>2, <2>3 DEF AcquireCas, TypeOK
<1>7. ListIntact'
  <2>1. \A i \in DOMAIN free : next[free[i]] = IF i = Len(free) THEN Null ELSE free[i + 1]
    BY DEF ListIntact
  <2>2. next' = next /\ head'.idx = next[free[1]]
    BY <1>1 DEF AcquireCas
  <2>3. head'.idx = IF free' = <<>> THEN Null ELSE free'[1]
    <3>1. head'.idx = IF 1 = Len(free) THEN Null ELSE free[1 + 1]
      BY <1>2, <2>1, <2>2
    <3>2. 1 = Len(free) <=> free' = <<>>
      BY <1>2, <1>3, <1>4
    <3>3. free' # <<>> => free'[1] = free[1 + 1]
      BY <1>2, <1>3, <1>4
    <3>4. QED
      BY <3>1, <3>2, <3>3
  <2>4. ASSUME NEW i \in DOMAIN free'
        PROVE  next'[free'[i]] = IF i = Len(free') THEN Null ELSE free'[i + 1]
    <3>1. next'[free'[i]] = IF i + 1 = Len(free) THEN Null ELSE free[(i + 1) + 1]
      BY <1>5, <2>1, <2>2
    <3>2. i + 1 = Len(free) <=> i = Len(free')
      BY <1>2, <1>3, <1>4
    <3>3. i # Len(free') => free'[i + 1] = free[(i + 1) + 1]
      BY <1>2, <1>3, <1>4
    <3>4. QED
      BY <3>1, <3>2, <3>3
  <2>5. QED
    BY <2>3, <2>4 DEF ListIntact
<1>8. NoRepeats'
  <2>1. \A i, j \in DOMAIN free' : free'[i] = free'[j] => i + 1 = j + 1
    BY <1>5 DEF NoRepeats
  <2>2. QED
    BY <1>4, <2>1 DEF NoRepeats
<1>9. PlaceInv'
  <2>1. loans[free[1]] = 0
    BY <1>2 DEF PlaceInv
  <2>2. loans'[free[1]] = 1 /\ \A s \in Slots \ {free[1]} : loans'[s] = loans[s]
    BY <1>1, <2>1 DEF AcquireCas, TypeOK
  <2>3. ASSUME NEW i \in DOMAIN free' PROVE free'[i] # free[1] /\ free'[i] \in Slots
    <3>1. free'[i] \in Slots
      BY <1>3, <1>4, ElementOfSeq
    <3>2. free[i + 1] # free[1]
      BY <1>2, <1>5 DEF NoRepeats
    <3>3. QED
      BY <1>5, <3>1, <3>2
  <2>4. \A u \in Threads : Returning(u) => mine[u] # free[1] /\ mine[u] \in Slots
    BY <1>2 DEF PlaceInv, TypeOK
  <2>5. mine' = mine /\ \A u \in Threads : Returning(u)' <=> Returning(u)
    BY DEF AcquireCas, Goto, TypeOK, Returning
  <2>6. \A s \in Slots \ {free[1]} :
          (\E i \in DOMAIN free : free[i] = s) => \E i \in DOMAIN free' : free'[i] = s
    <3>1. SUFFICES ASSUME NEW i \in DOMAIN free, free[i] # free[1]
                   PROVE  \E j \in DOMAIN free' : free'[j] = free[i]
      OBVIOUS
    <3>2. i - 1 \in DOMAIN free' /\ free'[i - 1] = free[(i - 1) + 1] /\ (i - 1) + 1 = i
      BY <1>2, <1>3, <1>4, <3>1
    <3>3. QED
      BY <3>2
  <2>7. QED
    BY <1>5, <2>1, <2>2, <2>3, <2>4, <2>5, <2>6 DEF PlaceInv
<1>10. head'.tag = head.tag + 1 /\ head.tag \in Nat
  BY DEF AcquireCas, TypeOK, Heads
<1>11. \A u \in Threads : pc'[u] # "idle" => pc[u] = pc'[u] /\ old_head'[u].tag # head'.tag
  BY <1>10 DEF AcquireCas, Goto, TypeOK, Heads, TagInv
<1>12. TagInv'
  BY <1>10, <1>11 DEF AcquireCas, TypeOK, Heads, TagInv
<1>13. AcquireInv' /\ ReleaseInv' /\ WalkInv'
  BY <1>11 DEF AcquireCas, AcquireInv, ReleaseInv, WalkInv
<1>14. QED
  BY <1>1, <1>6, <1>7, <1>8, <1>9, <1>12, <1>13 DEF AcquireCas

\* A successful release() puts its slot in front of the list.
LEMMA ReleaseCasPreserves ==
  ASSUME IInv, NEW t \in Threads, ReleaseCas(t)
  PROVE  IInv'
<1> USE PoolAssumption DEF IInv
<1>1. head = old_head[t] /\ mine[t] \in Slots /\ next[mine[t]] = head.idx /\ Returning(t)
  BY DEF ReleaseCas, ReleaseInv, TypeOK, Returning
<1>2. Len(free) \in Nat /\ DOMAIN free = 1 .. Len(free) /\ free \in Seq(Slots)
  BY LenProperties DEF TypeOK
<1>3. /\ free' \in Seq(Slots) /\ Len(free') = Len(free) + 1
      /\ free'[1] = mine[t]
      /\ \A i \in 2 .. Len(free') : free'[i] = free[i - 1]
  <2>1. free' = <<mine[t]>> \o free
    BY DEF ReleaseCas
  <2>2. QED
    BY <1>1, <1>2, <2>1, PushFront
<1>4. DOMAIN free' = 1 .. Len(free') /\ free' # <<>>
  BY <1>2, <1>3, LenProperties, EmptySeq
<1>5. \A i \in DOMAIN free' : i = 1 \/ (i - 1 \in DOMAIN free /\ free'[i] = free[i - 1])
  BY <1>2, <1>3, <1>4
<1>6. TypeOK'
  BY <1>1, <1>3, SMTT(30) DEF ReleaseCas, Goto, TypeOK, Heads, Links
<1>7. ListIntact'
  <2>1. head'.idx = mine[t] /\ next' = next
    BY DEF ReleaseCas
  <2>2. next[mine[t]] = IF 1 = Len(free') THEN Null ELSE free'[1 + 1]
    <3>1. free = <<>> <=> 1 = Len(free')
      BY <1>2, <1>3, EmptySeq
    <3>2. 1 # Len(free') => free'[1 + 1] = free[1]
      BY <1>2, <1>3
    <3>3. QED
      BY <1>1, <3>1, <3>2 DEF ListIntact
  <2>3. ASSUME NEW i \in DOMAIN free', i # 1
        PROVE  next[free'[i]] = IF i = Len(free') THEN Null ELSE free'[i + 1]
    <3>1. next[free'[i]] = IF i - 1 = Len(free) THEN Null ELSE free[(i - 1) + 1]
      BY <1>5, <2>3 DEF ListIntact
    <3>2. i - 1 = Len(free) <=> i = Len(free')
      BY <1>2, <1>3, <1>4
    <3>3. i # Len(free') => free'[i + 1] = free[(i - 1) + 1]
      <4>1. i # Len(free') => i + 1 \in 2 .. Len(free') /\ (i + 1) - 1 = (i - 1) + 1
        BY <1>2, <1>3, <1>4
      <4>2. QED
        BY <1>3, <4>1
    <3>4. QED
      BY <3>1, <3>2, <3>3
  <2>4. QED
    BY <1>3, <1>4, <2>1, <2>2, <2>3 DEF ListIntact
<1>8. \A i \in DOMAIN free : free[i] # mine[t]
  BY <1>1 DEF PlaceInv
<1>9. NoRepeats'
  <2>1. \A i, j \in DOMAIN free' : i # 1 /\ j # 1 /\ free'[i] = free'[j] => i - 1 = j - 1
    BY <1>5 DEF NoRepeats
  <2>2. \A i \in DOMAIN free' : i # 1 => free'[i] # free'[1]
    BY <1>3, <1>5, <1>8
  <2>3. QED
    BY <1>4, <2>1, <2>2 DEF NoRepeats
<1>10. PlaceInv'
  <2>1. loans' = loans /\ mine' = mine
    BY DEF ReleaseCas
  <2>2. /\ ~Returning(t)'
        /\ \A u \in Threads \ {t} : Returning(u)' <=> Returning(u)
    BY DEF ReleaseCas, Goto, TypeOK, Returning
  <2>3. \A u \in Threads \ {t} : Returning(u) => mine[u] # mine[t]
    BY <1>1 DEF PlaceInv
  <2>4. \A i \in DOMAIN free' : free'[i] = mine[t] \/ \E j \in DOMAIN free : free'[i] = free[j]
    BY <1>3, <1>5
  <2>5. /\ \E i \in DOMAIN free' : free'[i] = mine[t]
        /\ \A j \in DOMAIN free : \E i \in DOMAIN free' : free'[i] = free[j]
    <3>1. 1 \in DOMAIN free'
      BY <1>2, <1>3, <1>4
    <3>2. ASSUME NEW j \in DOMAIN free PROVE \E i \in DOMAIN free' : free'[i] = free[j]
      <4>1. j + 1 \in DOMAIN free' /\ free'[j + 1] = free[(j + 1) - 1] /\ (j + 1) - 1 = j
        BY <1>2, <1>3, <1>4
      <4>2. QED
        BY <4>1
    <3>3. QED
      BY <1>3, <3>1, <3>2
  <2>6. QED
    BY <1>1, <2>1, <2>2, <2>3, <2>4, <2>5 DEF PlaceInv
<1>11. head'.tag = head.tag + 1 /\ head.tag \in Nat
  BY DEF ReleaseCas, TypeOK, Heads
<1>12. \A u \in Threads : pc'[u] # "idle" => pc[u] = pc'[u] /\ old_head'[u].tag # head'.tag
  BY <1>11 DEF ReleaseCas, Goto, TypeOK, Heads, TagInv
<1>13. TagInv'
  BY <1>11, <1>12, SMTT(30) DEF ReleaseCas, TypeOK, Heads, TagInv
<1>14. AcquireInv' /\ ReleaseInv' /\ WalkInv'
  BY <1>12 DEF ReleaseCas, AcquireInv, ReleaseInv, WalkInv
<1>15. QED
  BY <1>6, <1>7, <1>9, <1>10, <1>13, <1>14
-----------------------------------------------------------------------------
\* Every step preserves the invariant.
LEMMA NextIInv == IInv /\ [Next]_vars => IInv'
<1> SUFFICES ASSUME IInv, [Next]_vars PROVE IInv'
  OBVIOUS
<1>1. ASSUME NEW t \in Threads, Step(t) PROVE IInv'
  BY <1>1, AcquireNextPreserves, AcquireCasPreserves, AcquireCasFailsPreserves,
     ReleaseNextPreserves, ReleaseCasPreserves, ReleaseCasFailsPreserves,
     WalkStepPreserves, WalkEndPreserves DEF Step
<1>2. ASSUME UNCHANGED vars PROVE IInv'
  <2>1. UNCHANGED <<head, next, pc, old_head, new_idx, mine, count, loans, free>>
    BY <1>2 DEF vars
  <2>2. TypeOK' /\ ListIntact' /\ NoRepeats'
    BY <2>1 DEF IInv, TypeOK, ListIntact, NoRepeats
  <2>3. PlaceInv'
    BY <2>1 DEF IInv, PlaceInv, Returning
  <2>4. TagInv' /\ AcquireInv' /\ ReleaseInv' /\ WalkInv'
    BY <2>1 DEF IInv, TagInv, AcquireInv, ReleaseInv, WalkInv
  <2> QED
    BY <2>2, <2>3, <2>4 DEF IInv
<1>3. QED
  BY <1>1, <1>2, AcquireBeginPreserves, WalkBeginPreserves, ReleaseBeginPreserves DEF Next

LEMMA Invariance == Spec => []IInv
  BY InitIInv, NextIInv, PTL DEF Spec

\* Every variable keeps its type; in particular acquire() and available()
\* never follow the null index, and a walk is bounded.
THEOREM TypeCorrect == Spec => []TypeOK
<1>1. IInv => TypeOK
  BY DEF IInv
<1>2. QED
  BY <1>1, Invariance, PTL

\* The links in memory are the free list, whatever acquire() and release()
\* of other threads did between a load of the head and its CAS.
THEOREM ListStaysIntact == Spec => []ListIntact
<1>1. IInv => ListIntact
  BY DEF IInv
<1>2. QED
  BY <1>1, Invariance, PTL

\* acquire() never hands out a slot that is in use, and none is lost.
THEOREM SlotsStayApart == Spec => []EachSlotOnce
<1>1. ASSUME IInv PROVE EachSlotOnce
  <2>1. ASSUME NEW s \in Slots
        PROVE  LET returning == {t \in Threads : Returning(t) /\ mine[t] = s}
               IN  \/ s \in Listed /\ loans[s] = 0 /\ returning = {}
                   \/ s \notin Listed /\ loans[s] = 1 /\ returning = {}
                   \/ s \notin Listed /\ loans[s] = 0 /\ \E t \in Threads : returning = {t}
    <3>1. CASE s \in Listed
      BY <1>1, <3>1 DEF IInv, PlaceInv, Listed
    <3>2. CASE s \notin Listed /\ loans[s] = 1
      BY <1>1, <3>2 DEF IInv, PlaceInv
    <3>3. CASE s \notin Listed /\ loans[s] # 1
      <4>1. loans[s] = 0
        <5>1. loans[s] \in Nat /\ loans[s] <= 1
          BY <1>1 DEF IInv, PlaceInv, TypeOK
        <5>2. QED
          BY <3>3, <5>1
      <4>2. PICK t \in Threads : Returning(t) /\ mine[t] = s
        BY <1>1, <3>3 DEF IInv, PlaceInv, Listed
      <4>3. {u \in Threads : Returning(u) /\ mine[u] = s} = {t}
        BY <1>1, <4>2 DEF IInv, PlaceInv
      <4>4. QED
        BY <3>3, <4>1, <4>3
    <3>4. QED
      BY <3>1, <3>2, <3>3
  <2>2. QED
    BY <1>1, <2>1 DEF EachSlotOnce, IInv, NoRepeats
<1>2. QED
  BY <1>1, Invariance, PTL

\* available() is exact when no operation succeeded during the walk.
THEOREM WalkIsExact == Spec => []WalkExactWhenQuiet
<1>1. ASSUME IInv PROVE WalkExactWhenQuiet
  <2>1. SUFFICES ASSUME NEW t \in Threads, pc[t] = "walk", ~WalkGoesOn(t),
                        head.tag = old_head[t].tag
                 PROVE  count[t] = Len(free)
    BY DEF WalkExactWhenQuiet
  <2>2. Len(free) \in 0 .. Capacity /\ DOMAIN free = 1 .. Len(free) /\ free \in Seq(Slots)
    BY <1>1, ListFits, LenProperties DEF IInv, TypeOK
  <2>3. /\ count[t] \in Nat /\ count[t] <= Len(free)
        /\ new_idx[t] = IF count[t] = Len(free) THEN Null ELSE free[count[t] + 1]
    BY <1>1, <2>1 DEF IInv, WalkInv, TypeOK
  <2>4. new_idx[t] = Null
    BY <2>1, <2>2, <2>3, PoolAssumption DEF WalkGoesOn
  <2>5. count[t] # Len(free) => free[count[t] + 1] \in Slots
    BY <2>2, <2>3, ElementOfSeq
  <2>6. Null \notin Slots
    BY PoolAssumption DEF Null, Slots
  <2>7. QED
    BY <2>3, <2>4, <2>5, <2>6
<1>2. QED
  BY <1>1, Invariance, PTL
-----------------------------------------------------------------------------
(***************************************************************************)
(* The refinement of SlotPool, first with the slots listed as the free     *)
(* ones, and then with those that the links in memory lead to.             *)
(***************************************************************************)
Lent == {s \in Slots : loans[s] > 0 \/ \E t \in Threads : Returning(t) /\ mine[t] = s}

ListPool == INSTANCE SlotPool WITH free <- Listed, lent <- Lent

\* No slot is taken or put back by a step that is not a successful CAS.
LEMMA OthersStutter ==
  ASSUME IInv, NEW t \in Threads,
         \/ AcquireBegin(t) \/ AcquireNext(t) \/ AcquireCasFails(t)
         \/ ReleaseNext(t) \/ ReleaseCasFails(t)
         \/ WalkBegin(t) \/ WalkStep(t) \/ WalkEnd(t)
  PROVE  Listed' = Listed /\ Lent' = Lent
<1>1. free' = free /\ loans' = loans /\ mine' = mine
  BY DEF AcquireBegin, AcquireNext, AcquireCasFails, ReleaseNext, ReleaseCasFails,
         WalkBegin, WalkStep, WalkEnd
<1>2. \A u \in Threads : Returning(u)' <=> Returning(u)
  BY DEF IInv, TypeOK, Returning, Goto, AcquireTest, AcquireBegin, AcquireNext,
         AcquireCasFails, ReleaseNext, ReleaseCasFails, WalkBegin, WalkStep, WalkEnd
<1>3. QED
  BY <1>1, <1>2 DEF Listed, Lent

\* A release() that begins leaves its slot with the callers.
LEMMA ReleaseBeginStutters ==
  ASSUME IInv, NEW t \in Threads, NEW s \in Slots, ReleaseBegin(t, s)
  PROVE  Listed' = Listed /\ Lent' = Lent
<1>1. loans[s] = 1 /\ \A r \in Slots \ {s} : loans'[r] = loans[r]
  BY DEF IInv, ReleaseBegin, TypeOK, PlaceInv
<1>2. /\ Returning(t)' /\ mine'[t] = s /\ ~Returning(t)
      /\ \A u \in Threads \ {t} : (Returning(u)' <=> Returning(u)) /\ mine'[u] = mine[u]
  BY DEF IInv, ReleaseBegin, Goto, TypeOK, Returning
<1>3. s \in Lent /\ s \in Lent'
  <2>1. s \in Lent
    BY <1>1 DEF Lent
  <2>2. s \in Lent'
    BY <1>2 DEF Lent
  <2> QED
    BY <2>1, <2>2
<1>4. \A r \in Slots \ {s} : r \in Lent' <=> r \in Lent
  BY <1>1, <1>2 DEF Lent
<1>5. Lent \subseteq Slots /\ Lent' \subseteq Slots
  BY DEF Lent
<1>6. Listed' = Listed
  BY DEF ReleaseBegin, Listed
<1>7. QED
  BY <1>3, <1>4, <1>5, <1>6

\* A successful acquire() takes one slot from the pool.
LEMMA AcquireCasAcquires ==
  ASSUME IInv, NEW t \in Threads, AcquireCas(t)
  PROVE  \E s \in Slots : ListPool!Acquire(s)
<1> DEFINE s == free[1]
<1>1. free # <<>> /\ head.idx = s /\ free' = SubSeq(free, 2, Len(free)) /\ IInv'
  BY AcquireCasPreserves
<1>2. Len(free) \in Nat \ {0} /\ DOMAIN free = 1 .. Len(free) /\ free \in Seq(Slots)
  BY <1>1, EmptySeq, LenProperties DEF IInv, TypeOK
<1>3. Len(free') = Len(free) - 1 /\ \A i \in 1 .. Len(free') : free'[i] = free[i + 1]
  BY <1>1, <1>2, PopFront
<1>4. DOMAIN free' = 1 .. Len(free')
  BY <1>1, LenProperties DEF IInv, TypeOK
<1>5. s \in Slots /\ s \in Listed
  BY <1>2, ElementOfSeq DEF Listed
<1>6. Listed' = Listed \ {s}
  <2>1. ASSUME NEW i \in DOMAIN free' PROVE free'[i] \in Listed \ {s}
    <3>1. i + 1 \in DOMAIN free /\ 1 \in DOMAIN free /\ i + 1 # 1 /\ free'[i] = free[i + 1]
      BY <1>2, <1>3, <1>4
    <3>2. QED
      BY <3>1 DEF Listed, IInv, NoRepeats
  <2>2. ASSUME NEW i \in DOMAIN free, free[i] # s PROVE free[i] \in Listed'
    <3>1. i - 1 \in DOMAIN free' /\ free'[i - 1] = free[(i - 1) + 1] /\ (i - 1) + 1 = i
      BY <1>2, <1>3, <1>4, <2>2
    <3>2. QED
      BY <3>1 DEF Listed
  <2>3. QED
    BY <2>1, <2>2 DEF Listed
<1>7. Lent' = Lent \cup {s}
  <2>1. old_head[t].idx = s
    BY <1>1 DEF AcquireCas
  <2>2. loans'[s] = loans[s] + 1 /\ \A r \in Slots \ {s} : loans'[r] = loans[r]
    BY <1>5, <2>1 DEF AcquireCas, IInv, TypeOK
  <2>3. mine' = mine /\ \A u \in Threads : Returning(u)' <=> Returning(u)
    BY DEF AcquireCas, Goto, IInv, TypeOK, Returning
  <2>4. s \in Lent'
    BY <1>5, <2>2 DEF Lent, IInv, TypeOK
  <2>5. \A r \in Slots \ {s} : r \in Lent' <=> r \in Lent
    BY <2>2, <2>3 DEF Lent
  <2>6. Lent \subseteq Slots /\ Lent' \subseteq Slots
    BY DEF Lent
  <2>7. QED
    BY <1>5, <2>4, <2>5, <2>6
<1>8. QED
  BY <1>5, <1>6, <1>7 DEF ListPool!Acquire

\* A successful release() gives one slot back to the pool.
LEMMA ReleaseCasReleases ==
  ASSUME IInv, NEW t \in Threads, ReleaseCas(t)
  PROVE  \E s \in Slots : ListPool!Release(s)
<1> DEFINE s == mine[t]
<1>1. s \in Slots /\ Returning(t) /\ free' = <<s>> \o free /\ loans[s] = 0
  BY DEF ReleaseCas, IInv, TypeOK, Returning, PlaceInv
<1>2. Len(free) \in Nat /\ DOMAIN free = 1 .. Len(free) /\ free \in Seq(Slots)
  BY LenProperties DEF IInv, TypeOK
<1>3. /\ free' \in Seq(Slots) /\ Len(free') = Len(free) + 1 /\ free'[1] = s
      /\ \A i \in 2 .. Len(free') : free'[i] = free[i - 1]
  BY <1>1, <1>2, PushFront
<1>4. DOMAIN free' = 1 .. Len(free')
  BY <1>3, LenProperties
<1>5. Listed' = Listed \cup {s}
  <2>1. ASSUME NEW i \in DOMAIN free' PROVE free'[i] \in Listed \cup {s}
    <3>1. i = 1 \/ (i - 1 \in DOMAIN free /\ free'[i] = free[i - 1])
      BY <1>2, <1>3, <1>4
    <3>2. QED
      BY <1>3, <3>1 DEF Listed
  <2>2. ASSUME NEW i \in DOMAIN free PROVE free[i] \in Listed'
    <3>1. i + 1 \in DOMAIN free' /\ free'[i + 1] = free[(i + 1) - 1] /\ (i + 1) - 1 = i
      BY <1>2, <1>3, <1>4
    <3>2. QED
      BY <3>1 DEF Listed
  <2>3. s \in Listed'
    <3>1. 1 \in DOMAIN free'
      BY <1>2, <1>3, <1>4
    <3>2. QED
      BY <1>3, <3>1 DEF Listed
  <2>4. QED
    BY <2>1, <2>2, <2>3 DEF Listed
<1>6. s \in Lent /\ Lent' = Lent \ {s}
  <2>1. loans' = loans /\ mine' = mine
    BY DEF ReleaseCas
  <2>2. ~Returning(t)' /\ \A u \in Threads \ {t} : Returning(u)' <=> Returning(u)
    BY DEF ReleaseCas, Goto, IInv, TypeOK, Returning
  <2>3. \A u \in Threads \ {t} : Returning(u) => mine[u] # s
    BY <1>1 DEF IInv, PlaceInv
  <2>4. s \in Lent /\ s \notin Lent'
    BY <1>1, <2>1, <2>2, <2>3 DEF Lent
  <2>5. \A r \in Slots \ {s} : r \in Lent' <=> r \in Lent
    BY <2>1, <2>2 DEF Lent
  <2>6. Lent \subseteq Slots /\ Lent' \subseteq Slots
    BY DEF Lent
  <2>7. QED
    BY <2>4, <2>5, <2>6
<1>7. QED
  BY <1>1, <1>5, <1>6 DEF ListPool!Release

LEMMA RefinesListPool == Spec => ListPool!PoolSpec
<1>1. Init => ListPool!PoolInit
  <2> SUFFICES ASSUME Init PROVE ListPool!PoolInit
    OBVIOUS
  <2>1. Lent = {}
    BY DEF Init, Lent, Returning
  <2>2. DOMAIN free = 1 .. Capacity /\ \A i \in 1 .. Capacity : free[i] = i - 1
    BY DEF Init
  <2>3. \A s \in Slots : s + 1 \in 1 .. Capacity /\ (s + 1) - 1 = s
    BY PoolAssumption DEF Slots
  <2>4. \A i \in 1 .. Capacity : i - 1 \in Slots
    BY PoolAssumption DEF Slots
  <2>5. Listed = Slots
    BY <2>2, <2>3, <2>4 DEF Listed
  <2>6. QED
    BY <2>1, <2>5 DEF ListPool!PoolInit
<1>2. IInv /\ [Next]_vars => [ListPool!PoolNext]_(ListPool!pvars)
  <2> SUFFICES ASSUME IInv, [Next]_vars PROVE [ListPool!PoolNext]_(ListPool!pvars)
    OBVIOUS
  <2>1. CASE UNCHANGED vars
    BY <2>1 DEF vars, Listed, Lent, Returning, ListPool!pvars
  <2>2. ASSUME NEW t \in Threads, AcquireCas(t) PROVE ListPool!PoolNext
    BY <2>2, AcquireCasAcquires DEF ListPool!PoolNext
  <2>3. ASSUME NEW t \in Threads, ReleaseCas(t) PROVE ListPool!PoolNext
    BY <2>3, ReleaseCasReleases DEF ListPool!PoolNext
  <2>4. QED
    BY <2>1, <2>2, <2>3, OthersStutter, ReleaseBeginStutters
       DEF Next, Step, ListPool!pvars
<1>3. QED
  BY <1>1, <1>2, Invariance, PTL DEF Spec, ListPool!PoolSpec

\* The slots of the list, in order, and then the null index.
ListedAt == [n \in 0 .. Capacity |-> IF n < Len(free) THEN free[n + 1] ELSE Null]

FollowsLinks(link) ==
  link = [n \in 0 .. Capacity |->
            IF n = 0 THEN head.idx
            ELSE IF link[n - 1] = Null THEN Null ELSE next[link[n - 1]]]

LEMMA ListFollowsLinks ==
  ASSUME IInv
  PROVE  FollowsLinks(ListedAt)
<1>1. /\ Len(free) \in 0 .. Capacity /\ DOMAIN free = 1 .. Len(free)
      /\ \A i \in 1 .. Len(free) : free[i] \in Slots
      /\ Len(free) = 0 <=> free = <<>>
  BY ListFits, LenProperties, ElementOfSeq, EmptySeq DEF IInv, TypeOK
<1>2. Capacity \in Nat /\ Null \notin Slots
  BY PoolAssumption DEF Null, Slots
<1>3. /\ head.idx = IF free = <<>> THEN Null ELSE free[1]
      /\ \A i \in 1 .. Len(free) : next[free[i]] = IF i = Len(free) THEN Null ELSE free[i + 1]
  BY <1>1 DEF IInv, ListIntact
<1>4. ASSUME NEW n \in 0 .. Capacity
      PROVE  ListedAt[n] = IF n = 0 THEN head.idx
                           ELSE IF ListedAt[n - 1] = Null THEN Null ELSE next[ListedAt[n - 1]]
  <2>1. CASE n = 0
    <3>1. ListedAt[0] = IF 0 < Len(free) THEN free[1] ELSE Null
      BY <1>2 DEF ListedAt
    <3>2. 0 < Len(free) <=> free # <<>>
      BY <1>1
    <3> QED
      BY <1>3, <2>1, <3>1, <3>2
  <2>2. CASE n # 0 /\ n - 1 < Len(free)
    <3>1. n \in 1 .. Len(free) /\ n - 1 \in 0 .. Capacity /\ (n - 1) + 1 = n
      BY <1>1, <1>2, <2>2
    <3>2. ListedAt[n - 1] = free[n]
      BY <2>2, <3>1 DEF ListedAt
    <3>3. ListedAt[n] = IF n = Len(free) THEN Null ELSE free[n + 1]
      <4>1. n < Len(free) <=> n # Len(free)
        <5>1. Len(free) \in Nat
          BY <1>1, <1>2
        <5> QED
          BY <3>1, <5>1
      <4> QED
        BY <4>1 DEF ListedAt
    <3>4. free[n] # Null /\ next[free[n]] = IF n = Len(free) THEN Null ELSE free[n + 1]
      BY <1>1, <1>2, <1>3, <3>1
    <3> QED
      BY <2>2, <3>2, <3>3, <3>4
  <2>3. CASE n # 0 /\ ~(n - 1 < Len(free))
    <3>1. n - 1 \in 0 .. Capacity /\ ~(n < Len(free))
      BY <1>1, <1>2, <2>3
    <3> QED
      BY <2>3, <3>1 DEF ListedAt
  <2> QED
    BY <2>1, <2>2, <2>3
<1> QED
  BY <1>4 DEF FollowsLinks, ListedAt

\* A non-empty set of naturals has a least element.
LEMMA Least ==
  ASSUME NEW T, T \subseteq Nat, T # {}
  PROVE  \E n \in T : \A m \in T : n <= m
<1>1. PICK n \in T : \A m \in T : ~(<<m, n>> \in OpToRel(<, Nat))
  BY NatLessThanWellFounded, WFMin, Zenon
<1>2. \A m \in T : ~(m < n)
  BY <1>1 DEF OpToRel
<1> QED
  BY <1>2

\* Following the links from the head gives the list: any two that follow the
\* links agree at 0, and at n + 1 if they agree at n.
LEMMA LinkIsListed ==
  ASSUME IInv
  PROVE  Link = ListedAt
<1>1. Link = CHOOSE link : FollowsLinks(link)
  BY DEF Link, FollowsLinks
<1>2. FollowsLinks(Link) /\ FollowsLinks(ListedAt)
  BY <1>1, ListFollowsLinks
<1> DEFINE Differ == {n \in 0 .. Capacity : Link[n] # ListedAt[n]}
<1>3. ASSUME Differ # {} PROVE FALSE
  <2>1. Differ \subseteq Nat
    BY PoolAssumption
  <2>2. PICK n \in Differ : \A m \in Differ : n <= m
    BY <1>3, <2>1, Least
  <2>3. n # 0
    BY <1>2 DEF FollowsLinks
  <2>4. n - 1 \in 0 .. Capacity /\ ~(n - 1 \in Differ)
    BY <2>2, <2>3, PoolAssumption
  <2>5. Link[n - 1] = ListedAt[n - 1]
    BY <2>4
  <2>6. Link[n] = IF Link[n - 1] = Null THEN Null ELSE next[Link[n - 1]]
    BY <1>2, <2>3 DEF FollowsLinks
  <2>7. ListedAt[n] = IF ListedAt[n - 1] = Null THEN Null ELSE next[ListedAt[n - 1]]
    BY <1>2, <2>3 DEF FollowsLinks
  <2> QED
    BY <2>5, <2>6, <2>7
<1>4. Link = [n \in 0 .. Capacity |-> Link[n]]
  BY <1>2 DEF FollowsLinks
<1>5. ListedAt = [n \in 0 .. Capacity |-> ListedAt[n]]
  BY DEF ListedAt
<1>6. \A n \in 0 .. Capacity : Link[n] = ListedAt[n]
  BY <1>3
<1> QED
  BY <1>4, <1>5, <1>6, Zenon

Linked == {Link[n] : n \in 0 .. Capacity} \ {Null}

LEMMA LinkedAreListed ==
  ASSUME IInv
  PROVE  Linked = Listed
<1>1. /\ Len(free) \in 0 .. Capacity /\ DOMAIN free = 1 .. Len(free)
      /\ \A i \in 1 .. Len(free) : free[i] \in Slots
  BY ListFits, LenProperties, ElementOfSeq DEF IInv, TypeOK
<1>2. Capacity \in Nat /\ Null \notin Slots
  BY PoolAssumption DEF Null, Slots
<1>3. ASSUME NEW n \in 0 .. Capacity, Link[n] # Null
      PROVE  Link[n] \in Listed
  <2>1. n < Len(free) /\ Link[n] = free[n + 1]
    BY <1>3, LinkIsListed DEF ListedAt
  <2>2. n + 1 \in DOMAIN free
    BY <1>1, <2>1
  <2> QED
    BY <2>1, <2>2 DEF Listed
<1>4. ASSUME NEW i \in DOMAIN free
      PROVE  free[i] \in Linked
  <2>1. i - 1 \in 0 .. Capacity /\ i - 1 < Len(free) /\ (i - 1) + 1 = i
    BY <1>1, <1>2
  <2>2. Link[i - 1] = free[i]
    BY <2>1, LinkIsListed DEF ListedAt
  <2>3. free[i] # Null
    BY <1>1, <1>2
  <2> QED
    BY <2>1, <2>2, <2>3 DEF Linked
<1> QED
  BY <1>3, <1>4 DEF Linked, Listed

LEMMA ListPoolIsPool ==
  ASSUME Linked = Listed, Linked' = Listed', [ListPool!PoolNext]_(ListPool!pvars)
  PROVE  [Pool!PoolNext]_(Pool!pvars)
BY DEF Linked, Lent, ListPool!PoolNext, ListPool!Acquire, ListPool!Release, ListPool!pvars,
       Pool!PoolNext, Pool!Acquire, Pool!Release, Pool!pvars


\* The Treiber stack behaves as a set of slots, each free or lent to one
\* caller: acquire() takes some free slot, release() gives back a lent one.
\* The free slots are those that the links in memory lead to.
THEOREM RefinesSlotPool == Spec => ImplementsPool
<1>1. Linked = Listed /\ ListPool!PoolInit => Pool!PoolInit
  BY DEF Linked, Lent, ListPool!PoolInit, Pool!PoolInit
<1>2. IInv => Linked = Listed
  BY LinkedAreListed
<1>3. Linked = Listed /\ (Linked = Listed)' /\ [ListPool!PoolNext]_(ListPool!pvars)
        => [Pool!PoolNext]_(Pool!pvars)
  BY ListPoolIsPool
<1> QED
  BY <1>1, <1>2, <1>3, RefinesListPool, Invariance, PTL
     DEF ImplementsPool, ListPool!PoolSpec, Pool!PoolSpec
=============================================================================
