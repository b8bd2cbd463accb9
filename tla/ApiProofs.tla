----------------------------- MODULE ApiProofs ------------------------------
(***************************************************************************)
(* Proofs about the two objects that a user of the library holds and that  *)
(* own something: LoanedSample, which owns a slot of the publisher's pool, *)
(* and Subscriber with its callback API, which owns a thread.  For any     *)
(* number of handles, slots, payloads, threads and calls.                  *)
(***************************************************************************)
EXTENDS LoanedSample, AsyncSubscriber, TLAPS

-----------------------------------------------------------------------------
(* LoanedSample *)

\* A handle that does not exist holds nothing: without it, constructing one
\* could overwrite a loan.
UnbornIsEmpty == \A h \in Handles : hstate[h] = "unborn" => ptr[h] = Nil

\* The inductive invariant.
LoanIInv == LoanTypeOK /\ OneOwner /\ SlotStableOnLoan /\ UnbornIsEmpty

\* Giving back what a handle holds, if anything, takes exactly its slot out
\* of the lent ones.
LEMMA Releases ==
  ASSUME LoanIInv, NEW h \in Handles, DoRelease(h)
  PROVE  /\ lent' = lent \ {ptr[h]}
         /\ free' = Slots \ lent'
         /\ free' \subseteq Slots /\ lent' \subseteq Slots
<1>1. CASE ptr[h] = Nil
  BY <1>1, LoanAssumption DEF LoanIInv, LoanTypeOK, OneOwner, DoRelease, pvars
<1>2. CASE ptr[h] # Nil
  BY <1>2 DEF LoanIInv, LoanTypeOK, OneOwner, DoRelease, PoolTakes
<1>3. QED
  BY <1>1, <1>2

\* The owners that are left when handle h becomes empty.
LEMMA Empties ==
  ASSUME LoanIInv, NEW h \in Handles, UNCHANGED raw,
         ptr' = [ptr EXCEPT ![h] = Nil],
         lent' = lent \ {ptr[h]}, free' = Slots \ lent'
  PROVE  OneOwner'
<1>1. \A g \in Handles : ptr'[g] = IF g = h THEN Nil ELSE ptr[g]
  BY DEF LoanIInv, LoanTypeOK
<1>2. \A g \in Handles : Held(g)' <=> g # h /\ Held(g)
  BY <1>1 DEF Held
<1>3. {ptr'[g] : g \in {k \in Handles : Held(k)'}} = {ptr[g] : g \in {k \in Handles : Held(k)}} \ {ptr[h]}
  <2>1. \A g \in Handles : g # h /\ Held(g) => ptr[g] # ptr[h]
    BY DEF LoanIInv, OneOwner
  <2>2. QED
    BY <1>1, <1>2, <2>1 DEF Held
<1>4. ptr[h] \notin raw
  BY LoanAssumption DEF LoanIInv, OneOwner, LoanTypeOK, Held
<1>5. QED
  BY <1>1, <1>2, <1>3, <1>4 DEF LoanIInv, OneOwner, Held

LEMMA LoanInitIInv == LoanInit => LoanIInv
BY LoanAssumption DEF LoanInit, PoolInit, LoanIInv, LoanTypeOK, OneOwner, SlotStableOnLoan, UnbornIsEmpty, Held

\* Every step keeps the inductive invariant.  The moves hand a loan from one
\* handle to another; what empties a handle gives its slot back or to the
\* caller of release_raw().
LEMMA LoanNextIInv ==
  LoanIInv /\ [LoanNext]_lvars => LoanIInv'
<1> SUFFICES ASSUME LoanIInv, [LoanNext]_lvars PROVE LoanIInv'
  OBVIOUS
<1> USE LoanAssumption
<1>1. ASSUME NEW h \in Handles, NEW s \in Slots, Loan(h, s) PROVE LoanIInv'
  <2>1. LoanTypeOK' /\ UnbornIsEmpty'
    BY <1>1 DEF LoanIInv, LoanTypeOK, UnbornIsEmpty, Loan, Acquire
  <2>2. /\ ptr[h] = Nil /\ s \notin lent /\ s \notin raw
        /\ \A g \in Handles : Held(g) => ptr[g] # s
    BY <1>1 DEF LoanIInv, OneOwner, UnbornIsEmpty, Loan, Acquire
  <2>3. \A g \in Handles : ptr'[g] = IF g = h THEN s ELSE ptr[g]
    BY <1>1 DEF LoanIInv, LoanTypeOK, Loan
  <2>4. \A g \in Handles : Held(g)' <=> g = h \/ Held(g)
    BY <2>3 DEF Held
  <2>5. {ptr'[g] : g \in {k \in Handles : Held(k)'}} = {ptr[g] : g \in {k \in Handles : Held(k)}} \cup {s}
    BY <2>2, <2>3, <2>4 DEF Held
  <2>6. OneOwner'
    BY <1>1, <2>2, <2>3, <2>4, <2>5 DEF LoanIInv, OneOwner, Loan, Acquire, Held
  <2>7. SlotStableOnLoan'
    BY <1>1, <2>2, <2>3, <2>4 DEF LoanIInv, LoanTypeOK, SlotStableOnLoan, Loan, Held
  <2>8. QED
    BY <2>1, <2>6, <2>7 DEF LoanIInv
<1>2. ASSUME NEW h \in Handles, LoanFails(h) PROVE LoanIInv'
  <2>1. LoanTypeOK' /\ UnbornIsEmpty'
    BY <1>2 DEF LoanIInv, LoanTypeOK, UnbornIsEmpty, LoanFails, pvars
  <2>2. OneOwner' /\ SlotStableOnLoan'
    BY <1>2 DEF LoanIInv, OneOwner, SlotStableOnLoan, LoanFails, pvars, Held
  <2>3. QED
    BY <2>1, <2>2 DEF LoanIInv
<1>3. ASSUME NEW h \in Handles, NEW v \in Payloads, Fill(h, v) PROVE LoanIInv'
  <2>1. LoanTypeOK' /\ UnbornIsEmpty'
    BY <1>3 DEF LoanIInv, LoanTypeOK, UnbornIsEmpty, Fill, pvars
  <2>2. OneOwner'
    BY <1>3 DEF LoanIInv, OneOwner, Fill, pvars, Held
  <2>3. SlotStableOnLoan'
    BY <1>3 DEF LoanIInv, LoanTypeOK, OneOwner, SlotStableOnLoan, Fill, Held
  <2>4. QED
    BY <2>1, <2>2, <2>3 DEF LoanIInv
<1>4. ASSUME NEW g \in Handles, NEW h \in Handles, MoveConstruct(g, h) PROVE LoanIInv'
  <2>1. g # h /\ ptr[g] = Nil
    BY <1>4 DEF LoanIInv, UnbornIsEmpty, MoveConstruct
  <2>2. \A k \in Handles : ptr'[k] = IF k = g THEN ptr[h] ELSE IF k = h THEN Nil ELSE ptr[k]
    BY <1>4, <2>1 DEF LoanIInv, LoanTypeOK, MoveConstruct
  <2>3. LoanTypeOK' /\ UnbornIsEmpty'
    BY <1>4, <2>1, <2>2 DEF LoanIInv, LoanTypeOK, UnbornIsEmpty, MoveConstruct, pvars
  <2>4. {ptr'[k] : k \in {j \in Handles : Held(j)'}} = {ptr[k] : k \in {j \in Handles : Held(j)}}
    BY <2>1, <2>2 DEF Held
  <2>5. OneOwner'
    <3>1. \A j, k \in Handles : Held(k)' /\ ptr'[j] = ptr'[k] => j = k
      BY <2>1, <2>2 DEF LoanIInv, OneOwner, Held
    <3>2. \A k \in Handles : Held(k)' => ptr'[k] \notin raw'
      <4>1. raw' = raw
        BY <1>4 DEF MoveConstruct
      <4>2. \A k \in Handles : Held(k) => ptr[k] \notin raw
        BY DEF LoanIInv, OneOwner
      <4>3. QED
        BY <2>2, <4>1, <4>2 DEF Held
    <3>3. QED
      BY <1>4, <2>4, <3>1, <3>2 DEF LoanIInv, OneOwner, MoveConstruct, pvars
  <2>6. SlotStableOnLoan'
    BY <1>4, <2>1, <2>2 DEF LoanIInv, LoanTypeOK, SlotStableOnLoan, MoveConstruct, Held
  <2>7. QED
    BY <2>3, <2>5, <2>6 DEF LoanIInv
<1>5. ASSUME NEW g \in Handles, NEW h \in Handles, MoveAssign(g, h) PROVE LoanIInv'
  <2>1. /\ lent' = lent \ {ptr[g]} /\ free' = Slots \ lent'
        /\ free' \subseteq Slots /\ lent' \subseteq Slots
    BY <1>5, Releases DEF MoveAssign
  <2>2. \A k \in Handles : ptr'[k] = IF k = g THEN ptr[h] ELSE IF k = h THEN Nil ELSE ptr[k]
    BY <1>5 DEF LoanIInv, LoanTypeOK, MoveAssign
  <2>3. LoanTypeOK' /\ UnbornIsEmpty'
    BY <1>5, <2>1, <2>2 DEF LoanIInv, LoanTypeOK, UnbornIsEmpty, MoveAssign
  <2>4. \A k \in Handles : k # g /\ Held(k) => ptr[k] # ptr[g]
    BY DEF LoanIInv, OneOwner
  <2>5. {ptr'[k] : k \in {j \in Handles : Held(j)'}} = {ptr[k] : k \in {j \in Handles : Held(j)}} \ {ptr[g]}
    <3>1. g # h
      BY <1>5 DEF MoveAssign
    <3>2. ASSUME NEW k \in Handles, Held(k)'
          PROVE  \E j \in Handles : Held(j) /\ j # g /\ ptr[j] = ptr'[k]
      BY <2>2, <3>1, <3>2 DEF Held
    <3>3. ASSUME NEW k \in Handles, Held(k), k # g
          PROVE  \E j \in Handles : Held(j)' /\ ptr'[j] = ptr[k]
      BY <2>2, <3>1, <3>3 DEF Held
    <3>4. QED
      BY <2>4, <3>2, <3>3
  <2>6. ptr[g] \notin raw
    BY DEF LoanIInv, OneOwner, LoanTypeOK, Held
  <2>7. OneOwner'
    <3>1. \A j, k \in Handles : Held(k)' /\ ptr'[j] = ptr'[k] => j = k
      BY <1>5, <2>2 DEF LoanIInv, OneOwner, MoveAssign, Held
    <3>2. \A k \in Handles : Held(k)' => ptr'[k] \notin raw'
      <4>1. raw' = raw
        BY <1>5 DEF MoveAssign
      <4>2. \A k \in Handles : Held(k) => ptr[k] \notin raw
        BY DEF LoanIInv, OneOwner
      <4>3. QED
        BY <2>2, <4>1, <4>2 DEF Held
    <3>3. lent' = raw' \cup {ptr'[k] : k \in {j \in Handles : Held(j)'}}
      BY <1>5, <2>1, <2>5, <2>6 DEF LoanIInv, OneOwner, MoveAssign
    <3>4. QED
      BY <2>1, <3>1, <3>2, <3>3 DEF OneOwner
  <2>8. SlotStableOnLoan'
    BY <1>5, <2>2 DEF LoanIInv, LoanTypeOK, SlotStableOnLoan, MoveAssign, Held
  <2>9. QED
    BY <2>3, <2>7, <2>8 DEF LoanIInv
<1>6. ASSUME NEW h \in Handles, Reset(h) \/ Destroy(h) \/ PublishEnd(h) PROVE LoanIInv'
  <2>1. DoRelease(h) /\ ptr' = [ptr EXCEPT ![h] = Nil] /\ UNCHANGED <<raw, payload, exhaustions, filled>>
    BY <1>6 DEF Reset, Destroy, PublishEnd
  <2>2. OneOwner'
    BY <2>1, Releases, Empties
  <2>3. LoanTypeOK' /\ UnbornIsEmpty'
    BY <1>6, <2>1, Releases DEF LoanIInv, LoanTypeOK, UnbornIsEmpty, Reset, Destroy, PublishEnd
  <2>4. SlotStableOnLoan'
    BY <2>1 DEF LoanIInv, LoanTypeOK, SlotStableOnLoan, Held
  <2>5. QED
    BY <2>2, <2>3, <2>4 DEF LoanIInv
<1>7. ASSUME NEW h \in Handles, ReleaseRaw(h) PROVE LoanIInv'
  <2>1. \A k \in Handles : ptr'[k] = IF k = h THEN Nil ELSE ptr[k]
    BY <1>7 DEF LoanIInv, LoanTypeOK, ReleaseRaw
  <2>2. LoanTypeOK' /\ UnbornIsEmpty'
    BY <1>7 DEF LoanIInv, LoanTypeOK, UnbornIsEmpty, ReleaseRaw, pvars
  <2>3. {ptr'[k] : k \in {j \in Handles : Held(j)'}} \cup raw' = {ptr[k] : k \in {j \in Handles : Held(j)}} \cup raw
    BY <1>7, <2>1 DEF Held, ReleaseRaw
  <2>4. OneOwner'
    BY <1>7, <2>1, <2>3 DEF LoanIInv, OneOwner, ReleaseRaw, pvars, Held
  <2>5. SlotStableOnLoan'
    BY <1>7, <2>1 DEF LoanIInv, SlotStableOnLoan, ReleaseRaw, Held
  <2>6. QED
    BY <2>2, <2>4, <2>5 DEF LoanIInv
<1>8. ASSUME NEW s \in Slots, CallerReleases(s) PROVE LoanIInv'
  <2>1. LoanTypeOK' /\ UnbornIsEmpty' /\ SlotStableOnLoan'
    BY <1>8 DEF LoanIInv, LoanTypeOK, UnbornIsEmpty, SlotStableOnLoan, CallerReleases, PoolTakes, Held
  <2>2. OneOwner'
    BY <1>8 DEF LoanIInv, LoanTypeOK, OneOwner, CallerReleases, PoolTakes, Held
  <2>3. QED
    BY <2>1, <2>2 DEF LoanIInv
<1>9. ASSUME NEW h \in Handles, PublishBegin(h) PROVE LoanIInv'
  BY <1>9 DEF LoanIInv, LoanTypeOK, OneOwner, SlotStableOnLoan, UnbornIsEmpty, PublishBegin, pvars, Held
<1>10. CASE UNCHANGED lvars
  BY <1>10 DEF LoanIInv, LoanTypeOK, OneOwner, SlotStableOnLoan, UnbornIsEmpty, lvars, hvars, pvars, Held
<1>11. QED
  BY <1>1, <1>2, <1>3, <1>4, <1>5, <1>6, <1>7, <1>8, <1>9, <1>10 DEF LoanNext

\* LoanIInv holds throughout.
LEMMA LoanInvariance == LoanSpec => []LoanIInv
BY LoanInitIInv, LoanNextIInv, PTL DEF LoanSpec

\* The handles, the pool and the counter keep their types.
THEOREM LoanTypeCorrect == LoanSpec => []LoanTypeOK
<1>1. LoanIInv => LoanTypeOK
  BY DEF LoanIInv
<1>2. QED
  BY <1>1, LoanInvariance, PTL

\* No path through moves, resets, destructors, release_raw() and publish()
\* releases a slot twice or leaks it (loaned_sample.hpp:85).
THEOREM SlotsHaveOneOwner == LoanSpec => []OneOwner
<1>1. LoanIInv => OneOwner
  BY DEF LoanIInv
<1>2. QED
  BY <1>1, LoanInvariance, PTL

\* While a slot is on loan, and so all through publish() (publisher.hpp:103),
\* it holds what its owner wrote.
THEOREM LoansAreStable == LoanSpec => []SlotStableOnLoan
<1>1. LoanIInv => SlotStableOnLoan
  BY DEF LoanIInv
<1>2. QED
  BY <1>1, LoanInvariance, PTL
-----------------------------------------------------------------------------
(* The callback API *)

\* The flag is down from start_async() to the next stop(), and the thread that
\* start_async() makes next is a new one.
FlagDown ==
  /\ owner = "start" => ~stop_flag /\ starts < MaxStarts
  /\ Running /\ owner = "idle" /\ worker # None => ~stop_flag
  /\ \A w \in Workers : w > starts => pc[w] = "none"
  /\ worker <= starts

WorkerIInv == TypeOK /\ OnlyWorkerSpins /\ WorkerKeepsPolling /\ FlagDown

LEMMA WorkerInit == Init => WorkerIInv
<1> SUFFICES ASSUME Init PROVE WorkerIInv
  OBVIOUS
<1>1. MaxStarts \in Nat /\ Capacity \in Nat /\ Workers \subseteq Threads
  BY AsyncAssumption DEF Threads
<1>2. TypeOK
  <2>1. 0 \in 0 .. MaxStarts /\ 0 \in 0 .. Capacity + 1
    BY <1>1
  <2>2. /\ starts \in 0 .. MaxStarts /\ worker \in Workers \cup {None}
        /\ behind \in [Threads -> 0 .. Capacity + 1]
    BY <2>1 DEF Init
  <2>3. pc \in [Threads -> {"none", "begin", "loop", "receive", "callback", "done"}]
    BY DEF Init
  <2> QED
    BY <2>2, <2>3 DEF Init, TypeOK
<1>3. \A w \in Workers : pc[w] = "none"
  BY <1>1 DEF Init
<1> QED
  BY <1>2, <1>3 DEF Init, WorkerIInv, OnlyWorkerSpins, InSpin, WorkerKeepsPolling, FlagDown, None

\* A step of a thread t that is inside spin(), or of a caller that enters it.
LEMMA SpinStep ==
  ASSUME WorkerIInv, NEW t \in Threads, NEW l \in {"begin", "loop", "receive", "callback", "done"},
         Goto(t, l), UNCHANGED <<stop_flag, worker, starts, owner, state>>,
         behind' \in [Threads -> 0 .. Capacity + 1],
         InSpin(t) \/ t \in Spinners, l = "done" => stop_flag, Running
  PROVE  WorkerIInv'
<1>1. pc \in [Threads -> {"none", "begin", "loop", "receive", "callback", "done"}]
  BY DEF WorkerIInv, TypeOK
<1>2. pc'[t] = l /\ \A u \in Threads : u # t => pc'[u] = pc[u]
  BY <1>1 DEF Goto
<1>3. t \in Workers => t \notin Spinners
  BY AsyncAssumption DEF Workers
<1>4. Workers \subseteq Threads /\ Running'
  BY DEF Threads, Running
<1>5. TypeOK'
  BY <1>1 DEF WorkerIInv, TypeOK, Goto
<1>6. OnlyWorkerSpins'
  BY <1>2, <1>3, <1>4 DEF WorkerIInv, OnlyWorkerSpins, InSpin
<1>7. WorkerKeepsPolling'
  <2>1. worker # None => worker \in Threads
    BY <1>4 DEF WorkerIInv, TypeOK
  <2>2. worker # None /\ owner \in {"idle", "start"} => pc[worker] # "done" /\ ~stop_flag
    BY DEF WorkerIInv, WorkerKeepsPolling, FlagDown
  <2> QED
    BY <1>2, <2>1, <2>2 DEF WorkerKeepsPolling
<1>8. FlagDown'
  <2>1. ASSUME NEW w \in Workers, w > starts
        PROVE  pc'[w] = "none"
    <3>1. pc[w] = "none"
      BY <2>1 DEF WorkerIInv, FlagDown
    <3> QED
      BY <1>2, <1>3, <1>4, <3>1 DEF InSpin
  <2> QED
    BY <2>1 DEF WorkerIInv, FlagDown, Running
<1> QED
  BY <1>5, <1>6, <1>7, <1>8 DEF WorkerIInv

LEMMA WorkerNext == WorkerIInv /\ [Next]_vars => WorkerIInv'
<1> SUFFICES ASSUME WorkerIInv, [Next]_vars PROVE WorkerIInv'
  OBVIOUS
<1> USE DEF WorkerIInv
<1>a. /\ behind \in [Threads -> 0 .. Capacity + 1] /\ Capacity \in Nat \ {0} /\ MaxStarts \in Nat
      /\ starts \in 0 .. MaxStarts /\ worker \in Workers \cup {None} /\ Workers \subseteq Threads
  BY AsyncAssumption DEF TypeOK, Threads
<1>1. CASE Publish
  <2>1. behind' \in [Threads -> 0 .. Capacity + 1]
    BY <1>1, <1>a DEF Publish
  <2> QED
    BY <1>1, <2>1 DEF Publish, TypeOK, OnlyWorkerSpins, InSpin, Running, WorkerKeepsPolling, FlagDown
<1>2. ASSUME NEW t \in Threads, SpinCall(t) \/ MakeCursor(t) \/ CallbackReturns(t)
      PROVE  WorkerIInv'
  <2> HIDE DEF WorkerIInv
  <2>1. CASE SpinCall(t)
    BY <1>a, <2>1, SpinStep DEF SpinCall, Running
  <2>2. CASE MakeCursor(t)
    BY <1>a, <2>2, SpinStep DEF MakeCursor, InSpin
  <2>3. CASE CallbackReturns(t)
    BY <1>a, <2>3, SpinStep DEF CallbackReturns, InSpin
  <2> QED
    BY <1>2, <2>1, <2>2, <2>3
<1>3. ASSUME NEW t \in Threads, LoopTest(t) \/ Receive(t) \/ Sleep(t)
      PROVE  WorkerIInv'
  <2> HIDE DEF WorkerIInv
  <2>1. behind' \in [Threads -> 0 .. Capacity + 1]
    BY <1>3, <1>a DEF LoopTest, Receive, Sleep, FastForward
  <2>2. CASE LoopTest(t)
    BY <2>1, <2>2, SpinStep DEF LoopTest, InSpin
  <2>3. CASE Receive(t)
    BY <2>1, <2>3, SpinStep DEF Receive, InSpin
  <2>4. CASE Sleep(t)
    BY <2>1, <2>4, SpinStep DEF Sleep, InSpin
  <2> QED
    BY <1>3, <2>2, <2>3, <2>4
<1>4. ASSUME NEW t \in Threads, CallbackStops(t)
      PROVE  WorkerIInv'
  BY <1>4 DEF CallbackStops, TypeOK, OnlyWorkerSpins, Running, WorkerKeepsPolling, FlagDown
<1>5. CASE StartStore
  BY <1>5 DEF StartStore, TypeOK, OnlyWorkerSpins, InSpin, Running, WorkerKeepsPolling, FlagDown
<1>6. CASE StartThread
  <2> DEFINE w == starts + 1
  <2>1. w \in Workers /\ w \in Threads /\ starts < MaxStarts /\ ~stop_flag /\ w # None
    BY <1>6, <1>a DEF StartThread, FlagDown, Workers, None
  <2>2. pc'[w] = "begin" /\ \A u \in Threads : u # w => pc'[u] = pc[u]
    BY <1>6, <2>1 DEF StartThread, Goto, TypeOK
  <2>3. TypeOK'
    BY <1>6, <1>a, <2>1 DEF StartThread, Goto, TypeOK
  <2>4. OnlyWorkerSpins' /\ WorkerKeepsPolling'
    <3>1. CASE worker = None
      <4>1. worker' = w /\ \A u \in Workers : InSpin(u)' => u = w
        BY <1>6, <1>a, <2>2, <3>1 DEF StartThread, OnlyWorkerSpins, InSpin, Workers, None
      <4> QED
        BY <2>1, <2>2, <4>1 DEF OnlyWorkerSpins, WorkerKeepsPolling
    <3>2. CASE worker # None
      BY <1>6, <3>2 DEF StartThread, OnlyWorkerSpins, WorkerKeepsPolling, Running
    <3> QED
      BY <3>1, <3>2
  <2>5. FlagDown'
    <3>1. ASSUME NEW u \in Workers, u > w
          PROVE  pc'[u] = "none"
      BY <1>a, <2>2, <3>1 DEF FlagDown, Workers
    <3>2. worker' <= w
      BY <1>6, <1>a DEF StartThread, FlagDown, Workers, None
    <3> QED
      BY <1>6, <2>1, <3>1, <3>2 DEF StartThread, FlagDown
  <2> QED
    BY <2>3, <2>4, <2>5
<1>7. CASE Stop \/ Destructor
  BY <1>7 DEF Stop, Destructor, StopStore, TypeOK, OnlyWorkerSpins, InSpin, Running,
              WorkerKeepsPolling, FlagDown
<1>8. CASE Join
  <2>1. \A u \in Workers : ~InSpin(u)
    BY <1>8, <1>a DEF Join, OnlyWorkerSpins, InSpin, None, Workers
  <2>2. TypeOK' /\ OnlyWorkerSpins' /\ WorkerKeepsPolling'
    BY <1>8, <2>1 DEF Join, TypeOK, OnlyWorkerSpins, InSpin, WorkerKeepsPolling
  <2>3. FlagDown'
    BY <1>8, <1>a DEF Join, FlagDown, None
  <2> QED
    BY <2>2, <2>3
<1>9. CASE UNCHANGED vars
  BY <1>9 DEF vars, TypeOK, OnlyWorkerSpins, InSpin, Running, WorkerKeepsPolling, FlagDown
<1> QED
  BY <1>1, <1>2, <1>3, <1>4, <1>5, <1>6, <1>7, <1>8, <1>9 DEF Next, Spin

LEMMA WorkerInvariance == Spec => []WorkerIInv
BY WorkerInit, WorkerNext, PTL DEF Spec

\* Once stop() or the destructor has returned no callback runs in a thread
\* that start_async() made, for any number of starts and of messages, and
\* wherever the worker was when stop() was called.
THEOREM NoWorkerOutlivesStop == Spec => []OnlyWorkerSpins
<1>1. WorkerIInv => OnlyWorkerSpins
  BY DEF WorkerIInv
<1> QED
  BY <1>1, WorkerInvariance, PTL

\* The worker does not leave spin() before stop() is called: start_async()
\* has cleared the flag of an earlier stop() before the thread looks at it.
THEOREM WorkerInvariant == Spec => []WorkerInv
<1>1. WorkerIInv => WorkerInv
  BY DEF WorkerIInv, WorkerInv
<1> QED
  BY <1>1, WorkerInvariance, PTL
=============================================================================
