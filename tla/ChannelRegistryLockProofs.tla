--------------------- MODULE ChannelRegistryLockProofs ----------------------
(***************************************************************************)
(* ChannelRegistry, for any processes, names and table size: the variables *)
(* keep their types, the spin lock excludes, and the locals of a process   *)
(* are those of the code it is in.  Then what is known of the entries, and *)
(* the steps that leave them alone; those that store into one, and the     *)
(* unlocked walks, are in ChannelRegistryEntryProofs.                      *)
(***************************************************************************)
EXTENDS ChannelRegistry, FiniteSetTheorems, WellFoundedInduction, TLAPS

\* The lock is 1 exactly while some process is in the locked part, and no
\* two are.  A process that died there counts.
Exclusive ==
  /\ lock = 1 <=> \E p \in Procs : pc[p] \in Locked
  /\ \A p, q \in Procs : pc[p] \in Locked /\ pc[q] \in Locked => p = q

\* Processes that work on the one name they were called with.
Serving == {"lock_reg", "lock_unreg", "register", "unregister", "insert", "clear", "touch", "beat"}

\* What the locals of a process are, by where the process is.
Placed(p) ==
  /\ pc[p] \in {"insert", "clear", "beat", "copy"} => at[p] \in Index
  /\ pc[p] # "copy" => copy[p] = Cleared
  /\ pc[p] \notin {"list", "copy"} => result[p] = {}
  /\ alive[p] /\ pc[p] \in Serving => \E u \in Uses : u[1] = p /\ u[2] = arg[p]

Frame == TypeOK /\ Exclusive /\ \A p \in Procs : Placed(p)

-----------------------------------------------------------------------------
(* Entries and the table *)

\* Min of a set of indices is one of them.
LEMMA MinIn == ASSUME NEW S, S \subseteq Index, S # {}
               PROVE  Min(S) \in S
<1>1. MaxChannels \in Nat
  BY RegistryAssumption
<1>2. S \subseteq Nat
  BY <1>1 DEF Index
<1>3. PICK x \in S : \A y \in S : ~(<<y, x>> \in OpToRel(<, Nat))
  BY <1>2, NatLessThanWellFounded, WFMin, Zenon
<1>4. ASSUME NEW y \in S
      PROVE  x =< y
  <2>1. x \in Nat /\ y \in Nat
    BY <1>2
  <2>2. y < x => <<y, x>> \in OpToRel(<, Nat)
    BY <2>1 DEF OpToRel
  <2>3. ~(y < x)
    BY <1>3, <2>2, Zenon
  <2> QED
    BY <2>1, <2>3
<1> QED
  BY <1>4, Zenon DEF Min

\* Field f of entry i becomes v, and nothing else changes.
Stores(i, f, v) ==
  /\ table' \in [Index -> Entry]
  /\ \A j \in Index : j # i => table'[j] = table[j]
  /\ table'[i].name = IF f = "name" THEN v ELSE table[i].name
  /\ table'[i].info = IF f = "info" THEN v ELSE table[i].info
  /\ table'[i].beat = IF f = "beat" THEN v ELSE table[i].beat

LEMMA TableStored ==
  ASSUME table \in [Index -> Entry], NEW i \in Index, NEW f \in Fields,
         NEW v \in Names \cup {Nil}, table' = [table EXCEPT ![i][f] = v]
  PROVE  Stores(i, f, v)
<1>1. PICK e : e = [table[i] EXCEPT ![f] = v]
  OBVIOUS
<1>2. table[i] \in Entry
  OBVIOUS
<1>3. /\ e \in Entry
      /\ e.name = IF f = "name" THEN v ELSE table[i].name
      /\ e.info = IF f = "info" THEN v ELSE table[i].info
      /\ e.beat = IF f = "beat" THEN v ELSE table[i].beat
  BY <1>1, <1>2 DEF Entry, Fields
<1>4. table' = [table EXCEPT ![i] = e]
  BY <1>1
<1>5. table'[i] = e /\ table' \in [Index -> Entry] /\ \A j \in Index : j # i => table'[j] = table[j]
  BY <1>3, <1>4
<1> QED
  BY <1>3, <1>5 DEF Stores

\* strncpy() in the middle of a name.
LEMMA PartStored ==
  ASSUME table \in [Index -> Entry], NEW i \in Index, table' = [table EXCEPT ![i].name = Partial]
  PROVE  /\ table' \in [Index -> Entry]
         /\ \A j \in Index : j # i => table'[j] = table[j]
         /\ table'[i].name = Partial
         /\ table'[i].info = table[i].info
         /\ table'[i].beat = table[i].beat
<1> DEFINE e == [table[i] EXCEPT !.name = Partial]
<1>1. table' = [table EXCEPT ![i] = e]
  OBVIOUS
<1>2. e \in Entry /\ e.name = Partial /\ e.info = table[i].info /\ e.beat = table[i].beat
  BY DEF Entry
<1> HIDE DEF e
<1>3. table'[i] = e /\ table' \in [Index -> Entry] /\ \A j \in Index : j # i => table'[j] = table[j]
  BY <1>1, <1>2
<1> QED
  BY <1>2, <1>3
-----------------------------------------------------------------------------
(* The frame: types, the lock, and the locals *)

\* A step of p that takes no lock and gives none up.
LEMMA SameLock ==
  ASSUME TypeOK, Exclusive, NEW p \in Procs, NEW l, Goto(p, l), lock' = lock,
         pc[p] \in Locked <=> l \in Locked
  PROVE  Exclusive'
BY DEF TypeOK, Exclusive, Goto

\* The other processes keep their locals.
LEMMA OthersPlaced ==
  ASSUME TypeOK, \A q \in Procs : Placed(q), NEW p \in Procs,
         \A q \in Procs \ {p} : /\ pc'[q] = pc[q] /\ at'[q] = at[q] /\ arg'[q] = arg[q]
                                /\ copy'[q] = copy[q] /\ result'[q] = result[q]
                                /\ alive'[q] = alive[q],
         Placed(p)'
  PROVE  \A q \in Procs : Placed(q)'
<1> SUFFICES ASSUME NEW q \in Procs, q # p
             PROVE  Placed(q)'
  OBVIOUS
<1>1. Placed(q)
  OBVIOUS
<1> QED
  BY <1>1 DEF Placed

LEMMA OpenFrame == ASSUME Frame, NEW p \in Procs, Open(p) PROVE Frame'
<1> USE DEF Frame
<1>1. TypeOK'
  BY DEF TypeOK, Open, At, Goto, shared
<1>2. Exclusive'
  BY SameLock DEF Open, At, Locked, shared
<1>3. Placed(p)'
  BY DEF TypeOK, Placed, Open, At, Goto, shared, Serving
<1> QED
  BY <1>1, <1>2, <1>3, OthersPlaced DEF TypeOK, Open, Goto, shared

LEMMA CrashFrame == ASSUME Frame, NEW p \in Procs, Crash(p) PROVE Frame'
<1> USE DEF Frame
<1>1. TypeOK'
  <2>1. Cleared \in Entry /\ 0 \in 0 .. MaxChannels
    BY RegistryAssumption DEF Cleared, Entry
  <2> QED
    BY <2>1, SMTT(30) DEF TypeOK, Crash
<1>2. Exclusive'
  BY SameLock DEF Crash, Goto, Locked
<1>3. Placed(p)'
  BY DEF TypeOK, Placed, Crash, Locked
<1> QED
  BY <1>1, <1>2, <1>3, OthersPlaced DEF TypeOK, Crash

LEMMA AcquireFrame == ASSUME Frame, NEW p \in Procs, Acquire(p) PROVE Frame'
<1> USE DEF Frame
<1>1. TypeOK'
  BY DEF TypeOK, Acquire, At, Goto, Locked
<1>2. Exclusive'
  BY DEF TypeOK, Exclusive, Acquire, At, Goto, Locked
<1>3. Placed(p)'
  BY DEF TypeOK, Placed, Acquire, At, Goto, Serving
<1> QED
  BY <1>1, <1>2, <1>3, OthersPlaced DEF TypeOK, Acquire, Goto

LEMMA UnlockFrame == ASSUME Frame, NEW p \in Procs, Unlock(p) PROVE Frame'
<1> USE DEF Frame
<1>1. TypeOK'
  BY RegistryAssumption DEF TypeOK, Unlock, Return, Goto
<1>2. Exclusive'
  BY DEF TypeOK, Exclusive, Unlock, Return, At, Goto, Locked
<1>3. Placed(p)'
  BY DEF TypeOK, Placed, Unlock, Return, At, Goto, Serving
<1> QED
  BY <1>1, <1>2, <1>3, OthersPlaced DEF TypeOK, Unlock, Return, Goto

\* The other steps under the lock.
LEMMA LockedFrame ==
  ASSUME Frame, NEW p \in Procs,
         \/ RegisterAgain(p) \/ RegisterNew(p) \/ Unregister(p) \/ NothingToDo(p) \/ StorePart(p)
         \/ \E f \in Fields : StoreField(p, f)
  PROVE  Frame'
<1> USE DEF Frame
<1>n. arg[p] \in Names \cup {Nil}
  BY DEF TypeOK
<1>1. CASE RegisterAgain(p)
  <2>1. Min(Matches(arg[p])) \in Index
    BY <1>1, MinIn DEF RegisterAgain, Matches
  <2>2. table' \in [Index -> Entry]
    BY <1>1, <1>n, <2>1, TableStored DEF Stores, TypeOK, RegisterAgain, Fields
  <2>3. TypeOK'
    BY <1>1, <2>2 DEF TypeOK, RegisterAgain, Goto, Locked
  <2>4. Exclusive'
    BY <1>1, SameLock DEF RegisterAgain, At, Locked
  <2>5. Placed(p)'
    BY <1>1 DEF TypeOK, Placed, RegisterAgain, At, Goto, Serving
  <2> QED
    BY <1>1, <2>3, <2>4, <2>5, OthersPlaced DEF TypeOK, RegisterAgain, Goto
<1>2. CASE RegisterNew(p)
  <2>1. Min(Vacant) \in Index
    BY <1>2, MinIn DEF RegisterNew, Vacant
  <2>2. Min(Vacant) \in 0 .. MaxChannels
    BY <2>1, RegistryAssumption DEF Index
  <2>3. TypeOK'
    BY <1>2, <2>2 DEF TypeOK, RegisterNew, Goto, Locked, Inserted, Fields, shared
  <2>4. Exclusive'
    BY <1>2, SameLock DEF RegisterNew, At, Locked, shared
  <2>5. Placed(p)'
    BY <1>2, <2>1 DEF TypeOK, Placed, RegisterNew, At, Goto, Serving, shared
  <2> QED
    BY <1>2, <2>3, <2>4, <2>5, OthersPlaced DEF TypeOK, RegisterNew, Goto, shared
<1>3. CASE Unregister(p)
  <2>1. Min(Matches(arg[p])) \in Index
    BY <1>3, MinIn DEF Unregister, Matches
  <2>2. Min(Matches(arg[p])) \in 0 .. MaxChannels
    BY <2>1, RegistryAssumption DEF Index
  <2>3. TypeOK'
    BY <1>3, <2>2 DEF TypeOK, Unregister, Goto, Locked, shared
  <2>4. Exclusive'
    BY <1>3, SameLock DEF Unregister, At, Locked, shared
  <2>5. Placed(p)'
    BY <1>3, <2>1 DEF TypeOK, Placed, Unregister, At, Goto, Serving, shared
  <2> QED
    BY <1>3, <2>3, <2>4, <2>5, OthersPlaced DEF TypeOK, Unregister, Goto, shared
<1>4. CASE NothingToDo(p)
  <2>1. TypeOK'
    BY <1>4 DEF TypeOK, NothingToDo, Goto, Locked, shared
  <2>2. Exclusive'
    BY <1>4, SameLock DEF NothingToDo, At, Locked, shared
  <2>3. Placed(p)'
    BY <1>4 DEF TypeOK, Placed, NothingToDo, At, Goto, Serving, shared
  <2> QED
    BY <1>4, <2>1, <2>2, <2>3, OthersPlaced DEF TypeOK, NothingToDo, Goto, shared
<1>5. CASE StorePart(p)
  <2>1. at[p] \in Index
    BY <1>5 DEF Placed, StorePart, At
  <2>2. table' \in [Index -> Entry]
    BY <1>5, <2>1, PartStored DEF TypeOK, StorePart
  <2>3. TypeOK' /\ Exclusive' /\ \A q \in Procs : Placed(q)'
    BY <1>5, <2>2 DEF TypeOK, Exclusive, Placed, StorePart, locals
  <2> QED
    BY <2>3
<1>6. ASSUME NEW f \in Fields, StoreField(p, f)
      PROVE  Frame'
  <2>1. at[p] \in Index
    BY <1>6 DEF Placed, StoreField, At
  <2>2. table' \in [Index -> Entry]
    <3>1. CASE pc[p] = "insert"
      BY <1>6, <1>n, <2>1, <3>1, TableStored DEF Stores, TypeOK, StoreField
    <3>2. CASE pc[p] # "insert"
      BY <1>6, <2>1, <3>2, TableStored DEF Stores, TypeOK, StoreField
    <3> QED
      BY <3>1, <3>2
  <2>3. TypeOK'
    BY <1>6, <2>2 DEF TypeOK, StoreField, Goto, Locked
  <2>4. Exclusive'
    BY <1>6, SameLock DEF StoreField, At, Locked
  <2>5. Placed(p)'
    BY <1>6 DEF TypeOK, Placed, StoreField, At, Goto, Serving
  <2> QED
    BY <1>6, <2>3, <2>4, <2>5, OthersPlaced DEF TypeOK, StoreField, Goto
<1> QED
  BY <1>1, <1>2, <1>3, <1>4, <1>5, <1>6

\* The steps of touch(), contains() and list().
LEMMA WalkFrame ==
  ASSUME Frame, NEW p \in Procs,
         \/ FindNext(p) \/ TouchHit(p) \/ ContainsHit(p) \/ Beat(p)
         \/ ListSkip(p) \/ ListTake(p) \/ PushBack(p) \/ WalkEnd(p)
         \/ \E f \in Fields : LoadField(p, f)
  PROVE  Frame'
<1> USE DEF Frame
<1>m. MaxChannels \in Nat
  BY RegistryAssumption
<1>1. CASE FindNext(p)
  <2>1. TypeOK'
    BY <1>1, <1>m DEF TypeOK, FindNext, shared
  <2>2. Exclusive'
    BY <1>1 DEF Exclusive, FindNext, shared
  <2>3. Placed(p)'
    BY <1>1 DEF TypeOK, Placed, FindNext, At, Serving, shared
  <2> QED
    BY <1>1, <2>1, <2>2, <2>3, OthersPlaced DEF TypeOK, FindNext, shared
<1>2. CASE TouchHit(p)
  <2>1. TypeOK'
    BY <1>2 DEF TypeOK, TouchHit, Goto, shared
  <2>2. Exclusive'
    BY <1>2, SameLock DEF TouchHit, At, Locked, shared
  <2>3. at[p] \in Index
    BY <1>2, <1>m DEF TypeOK, TouchHit, Index
  <2>4. Placed(p)'
    BY <1>2, <2>3 DEF TypeOK, Placed, TouchHit, At, Goto, Serving, shared
  <2> QED
    BY <1>2, <2>1, <2>2, <2>4, OthersPlaced DEF TypeOK, TouchHit, Goto, shared
<1>3. CASE ContainsHit(p) \/ WalkEnd(p)
  <2>1. /\ Return(p) /\ pc[p] \in {"touch", "contains", "list"}
        /\ lock' = lock /\ table' = table /\ alive' = alive
    BY <1>3 DEF ContainsHit, WalkEnd, At, shared
  <2>2. TypeOK'
    BY <1>m, <2>1, SMTT(30) DEF TypeOK, Return, Goto
  <2>3. Exclusive'
    BY <2>1, SameLock DEF Return, Locked
  <2>4. Placed(p)'
    BY <2>1 DEF TypeOK, Placed, Return, Goto, Serving
  <2> QED
    BY <2>1, <2>2, <2>3, <2>4, OthersPlaced DEF TypeOK, Return, Goto
<1>4. CASE Beat(p)
  <2>1. at[p] \in Index /\ arg[p] \in Names \cup {Nil}
    BY <1>4 DEF TypeOK, Placed, Beat, At
  <2>2. table' \in [Index -> Entry]
    BY <1>4, <2>1, TableStored DEF Stores, TypeOK, Beat, Fields
  <2>3. TypeOK'
    BY <1>4, <1>m, <2>2 DEF TypeOK, Beat, Return, Goto
  <2>4. Exclusive'
    BY <1>4, SameLock DEF Beat, Return, At, Locked
  <2>5. Placed(p)'
    BY <1>4 DEF TypeOK, Placed, Beat, Return, At, Goto, Serving
  <2> QED
    BY <1>4, <2>3, <2>4, <2>5, OthersPlaced DEF TypeOK, Beat, Return, Goto
<1>5. CASE ListSkip(p)
  <2>1. TypeOK'
    BY <1>5, <1>m, SMTT(30) DEF TypeOK, ListSkip, AfterInactive, shared
  <2>2. Exclusive'
    BY <1>5 DEF Exclusive, ListSkip, shared
  <2>3. Placed(p)'
    BY <1>5 DEF TypeOK, Placed, ListSkip, At, Serving, shared
  <2> QED
    BY <1>5, <2>1, <2>2, <2>3, OthersPlaced DEF TypeOK, ListSkip, shared
<1>6. CASE ListTake(p)
  <2>1. TypeOK'
    BY <1>6 DEF TypeOK, ListTake, Goto, Walking, Fields, shared
  <2>2. Exclusive'
    BY <1>6, SameLock DEF ListTake, At, Locked, shared
  <2>3. at[p] \in Index
    BY <1>6, <1>m DEF TypeOK, ListTake, Index
  <2>4. Placed(p)'
    BY <1>6, <2>3 DEF TypeOK, Placed, ListTake, At, Goto, Serving, shared
  <2> QED
    BY <1>6, <2>1, <2>2, <2>4, OthersPlaced DEF TypeOK, ListTake, Goto, shared
<1>7. CASE PushBack(p)
  <2>1. at[p] \in Index /\ at[p] + 1 \in 0 .. MaxChannels
    <3>1. at[p] \in Index
      BY <1>7 DEF Placed, PushBack, At
    <3> QED
      BY <1>m, <3>1 DEF Index
  <2>2. Cleared \in Entry
    BY DEF Cleared, Entry
  <2>3. TypeOK'
    <3>1. result'[p] \in SUBSET (Index \X Entry) /\ result' \in [Procs -> SUBSET (Index \X Entry)]
      BY <1>7, <2>1 DEF TypeOK, PushBack
    <3>2. at' \in [Procs -> 0 .. MaxChannels] /\ copy' \in [Procs -> Entry]
      BY <1>7, <2>1, <2>2 DEF TypeOK, PushBack
    <3> QED
      BY <1>7, <3>1, <3>2 DEF TypeOK, PushBack, Goto, Walking, shared
  <2>4. Exclusive'
    BY <1>7, SameLock DEF PushBack, At, Locked, shared
  <2>5. Placed(p)'
    BY <1>7 DEF TypeOK, Placed, PushBack, At, Goto, Serving, shared
  <2> QED
    BY <1>7, <2>3, <2>4, <2>5, OthersPlaced DEF TypeOK, PushBack, Goto, shared
<1>8. ASSUME NEW f \in Fields, LoadField(p, f)
      PROVE  Frame'
  <2>1. at[p] \in Index
    BY <1>8 DEF Placed, LoadField, At
  <2>2. table[at[p]] \in Entry /\ copy[p] \in Entry
    BY <2>1 DEF TypeOK
  <2>3. [copy[p] EXCEPT ![f] = table[at[p]][f]] \in Entry
    BY <2>2 DEF Entry, Fields
  <2>4. TypeOK'
    BY <1>8, <2>3 DEF TypeOK, LoadField, shared
  <2>5. Exclusive'
    BY <1>8 DEF Exclusive, LoadField, shared
  <2>6. Placed(p)'
    BY <1>8 DEF TypeOK, Placed, LoadField, At, Serving, shared
  <2> QED
    BY <1>8, <2>4, <2>5, <2>6, OthersPlaced DEF TypeOK, LoadField, shared
<1> QED
  BY <1>1, <1>2, <1>3, <1>4, <1>5, <1>6, <1>7, <1>8

\* The calls; only listers, and processes that use the name, make them.
LEMMA CallFrame ==
  ASSUME Frame, NEW p \in Procs, NEW n \in Names \cup {Nil},
         \/ Call(p, n) /\ \E u \in Uses : u[1] = p /\ u[2] = n
         \/ Walk(p, "touch", n) /\ \E u \in Uses : u[1] = p /\ u[2] = n
         \/ Walk(p, "contains", n)
         \/ Walk(p, "list", n)
  PROVE  Frame'
<1> USE DEF Frame
<1>1. CASE Call(p, n) /\ \E u \in Uses : u[1] = p /\ u[2] = n
  <2>1. TypeOK'
    BY <1>1 DEF TypeOK, Call, Goto, shared
  <2>2. Exclusive'
    BY <1>1, SameLock DEF Call, At, Locked, shared
  <2>3. /\ pc[p] = "idle" /\ pc'[p] \in {"lock_reg", "lock_unreg"} /\ arg'[p] = n
        /\ copy'[p] = copy[p] /\ result'[p] = result[p]
    BY <1>1, SMTT(30) DEF TypeOK, Call, At, Goto
  <2>4. Placed(p)'
    BY <1>1, <2>3 DEF Placed
  <2> QED
    BY <1>1, <2>1, <2>2, <2>4, OthersPlaced DEF TypeOK, Call, Goto, shared
<1>2. ASSUME NEW l \in {"touch", "contains", "list"}, Walk(p, l, n),
             l = "touch" => \E u \in Uses : u[1] = p /\ u[2] = n
      PROVE  Frame'
  <2>1. 0 \in 0 .. MaxChannels /\ Registered \subseteq Names
    <3>1. Registered \subseteq Names
      BY DEF Registered
    <3>2. 0 \in 0 .. MaxChannels
      BY RegistryAssumption
    <3> QED
      BY <3>1, <3>2
  <2>2. TypeOK'
    BY <1>2, <2>1 DEF TypeOK, Walk, Goto, Walking, Finding, shared
  <2>3. Exclusive'
    BY <1>2, SameLock DEF Walk, At, Locked, shared
  <2>4. Placed(p)'
    BY <1>2 DEF TypeOK, Placed, Walk, At, Goto, Serving, shared
  <2> QED
    BY <1>2, <2>2, <2>3, <2>4, OthersPlaced DEF TypeOK, Walk, Goto, shared
<1> QED
  BY <1>1, <1>2

LEMMA FrameInit == ASSUME Init PROVE Frame
<1>1. Cleared \in Entry /\ 0 \in 0 .. MaxChannels
  BY RegistryAssumption DEF Cleared, Entry
<1>2. TypeOK
  BY <1>1 DEF Init, TypeOK
<1>3. Exclusive
  BY DEF Init, Exclusive, Locked
<1>4. \A p \in Procs : Placed(p)
  BY DEF Init, Placed, Serving
<1> QED
  BY <1>2, <1>3, <1>4 DEF Frame

LEMMA FrameStutter == ASSUME Frame, UNCHANGED vars PROVE Frame'
BY DEF Frame, TypeOK, Exclusive, Placed, vars, shared, locals

LEMMA FrameNext == ASSUME Frame, [Next]_vars PROVE Frame'
<1>1. ASSUME NEW p \in Procs,
             Open(p) \/ NoTable(p) \/ Crash(p) \/ Acquire(p) \/ StorePart(p) \/ Step(p)
      PROVE  Frame'
  BY <1>1, OpenFrame, CrashFrame, AcquireFrame, UnlockFrame, LockedFrame, WalkFrame, FrameStutter
     DEF NoTable, Step
<1>2. ASSUME NEW u \in Uses, Call(u[1], u[2]) \/ Walk(u[1], "touch", u[2])
      PROVE  Frame'
  <2>1. u[1] \in Procs /\ u[2] \in Names
    BY RegistryAssumption DEF Procs
  <2> QED
    BY <1>2, <2>1, CallFrame
<1>3. ASSUME NEW p \in Listers, Walk(p, "list", Nil) \/ \E n \in Names : Walk(p, "contains", n)
      PROVE  Frame'
  <2>1. p \in Procs
    BY DEF Procs
  <2> QED
    BY <1>3, <2>1, CallFrame
<1> QED
  BY <1>1, <1>2, <1>3, FrameStutter DEF Next

\* In every reachable state, for any processes, names and table size, the
\* variables have their types, the spin lock excludes, and the locals of
\* every process are those of the code it is in.
THEOREM FrameInvariant == Spec => []Frame
BY FrameInit, FrameNext, PTL DEF Spec

\* The lock word is 1 exactly while one process is inside register_channel()
\* or unregister_channel() with its SpinLockGuard, dead or alive.
THEOREM TableInvariant == Spec => []TableInv
<1>1. ASSUME Frame
      PROVE  TableInv
  <2> DEFINE Holders == {p \in Procs : pc[p] \in Locked}
  <2>1. CASE lock = 0
    <3>1. Holders = {}
      BY <1>1, <2>1 DEF Frame, Exclusive
    <3> QED
      BY <1>1, <2>1, <3>1, FS_EmptySet DEF Frame, TableInv, LockHeld
  <2>2. CASE lock = 1
    <3>1. PICK p \in Procs : Holders = {p}
      BY <1>1, <2>2 DEF Frame, Exclusive
    <3> QED
      BY <1>1, <2>2, <3>1, FS_Singleton DEF Frame, TableInv, LockHeld
  <2> QED
    BY <1>1, <2>1, <2>2 DEF Frame, TypeOK
<1> QED
  BY <1>1, FrameInvariant, PTL

-----------------------------------------------------------------------------

OwnBeat(h, n) == h = n \/ (h \in Names /\ Shared(h))

\* How far the holder of the lock has come with the entry that it stores.
Storing(p) ==
  alive[p] =>
    /\ pc[p] = "insert" =>
         /\ "name" \in todo[p] => Matches(arg[p]) = {} /\ table[at[p]].name \notin Names
         /\ "name" \notin todo[p] => table[at[p]].name = arg[p]
         /\ "info" \notin todo[p] => table[at[p]].info = arg[p]
         /\ "beat" \notin todo[p] => OwnBeat(table[at[p]].beat, arg[p])
    /\ pc[p] = "clear" =>
         table[at[p]].name = IF "name" \in todo[p] THEN arg[p] ELSE Nil

\* touch() stores into the entry of its name, or shares that name.
Touching(p) ==
  alive[p] /\ pc[p] = "beat" => table[at[p]].name = arg[p] \/ Shared(arg[p])

\* An entry that nobody is storing describes one channel.
Whole ==
  \A i \in Index : table[i].name \in Names /\ Settled(i) => table[i].info = table[i].name

Entries ==
  /\ OneEntryPerName
  /\ Whole
  /\ BeatIsOwn
  /\ \A p \in Procs : Storing(p) /\ Touching(p)

-----------------------------------------------------------------------------
(* The entries *)

\* What a step leaves alone of a process, as far as entries go.
Still(q) ==
  /\ pc'[q] \in {"insert", "clear"} <=> pc[q] \in {"insert", "clear"}
  /\ pc[q] \in {"insert", "clear"} => at'[q] = at[q]
  /\ alive'[q] /\ pc'[q] \in {"insert", "clear", "beat"} =>
       alive[q] /\ pc'[q] = pc[q] /\ at'[q] = at[q] /\ arg'[q] = arg[q] /\ todo'[q] = todo[q]

LEMMA StillSettled == ASSUME NEW i, \A q \in Procs : Still(q) PROVE Settled(i)' <=> Settled(i)
BY DEF Still, Settled

LEMMA QuietEntries ==
  ASSUME Entries, table' = table, \A q \in Procs : Still(q)
  PROVE  Entries'
<1>1. OneEntryPerName'
  BY DEF Entries, OneEntryPerName
<1>2. Whole'
  BY StillSettled DEF Entries, Whole
<1>3. BeatIsOwn'
  BY StillSettled DEF Entries, BeatIsOwn
<1>4. ASSUME NEW p \in Procs
      PROVE  Storing(p)' /\ Touching(p)'
  <2>1. Storing(p) /\ Touching(p) /\ Still(p)
    BY DEF Entries
  <2>2. \A n : Matches(n)' = Matches(n)
    BY DEF Matches
  <2>3. Storing(p)'
    BY <2>1, <2>2 DEF Storing, Still
  <2>4. Touching(p)'
    BY <2>1 DEF Touching, Still
  <2> QED
    BY <2>3, <2>4
<1> QED
  BY <1>1, <1>2, <1>3, <1>4 DEF Entries

\* The steps of a process that neither store nor find an entry, and the others.
Quiet(p) ==
  \/ Open(p) \/ Crash(p) \/ Acquire(p) \/ NothingToDo(p) \/ Unlock(p) \/ FindNext(p)
  \/ ContainsHit(p) \/ ListSkip(p) \/ ListTake(p) \/ PushBack(p) \/ WalkEnd(p)
  \/ \E f \in Fields : LoadField(p, f)
  \/ \E n \in Names \cup {Nil} : Call(p, n)
  \/ \E n \in Names \cup {Nil}, l \in {"touch", "contains", "list"} : Walk(p, l, n)

Busy(p) ==
  \/ RegisterAgain(p) \/ RegisterNew(p) \/ Unregister(p) \/ TouchHit(p) \/ Beat(p) \/ StorePart(p)
  \/ \E f \in Fields : StoreField(p, f)

LEMMA QuietSteps ==
  ASSUME Frame, NEW p \in Procs, Quiet(p)
  PROVE  table' = table /\ \A q \in Procs : Still(q)
<1> USE DEF Frame, TypeOK, Still, At, Goto, shared
<1>1. CASE Open(p)
  BY <1>1 DEF Open
<1>2. CASE Crash(p)
  BY <1>2 DEF Crash, Locked
<1>3. CASE Acquire(p)
  BY <1>3 DEF Acquire
<1>4. CASE NothingToDo(p)
  BY <1>4 DEF NothingToDo
<1>5. CASE Unlock(p)
  BY <1>5 DEF Unlock, Return
<1>6. CASE FindNext(p)
  BY <1>6 DEF FindNext
<1>7. CASE ContainsHit(p)
  BY <1>7 DEF ContainsHit, Return
<1>8. CASE ListSkip(p)
  BY <1>8 DEF ListSkip
<1>9. CASE ListTake(p)
  BY <1>9 DEF ListTake
<1>10. CASE PushBack(p)
  BY <1>10 DEF PushBack
<1>11. CASE WalkEnd(p)
  BY <1>11 DEF WalkEnd, Return
<1>12. CASE \E f \in Fields : LoadField(p, f)
  BY <1>12 DEF LoadField
<1>13. CASE \E n \in Names \cup {Nil} : Call(p, n)
  BY <1>13, SMTT(30) DEF Call
<1>14. CASE \E n \in Names \cup {Nil}, l \in {"touch", "contains", "list"} : Walk(p, l, n)
  BY <1>14, SMTT(30) DEF Walk
<1> QED
  BY <1>1, <1>2, <1>3, <1>4, <1>5, <1>6, <1>7, <1>8, <1>9, <1>10, <1>11, <1>12, <1>13, <1>14
     DEF Quiet

\* A live process that serves a name serves one of its own.
LEMMA ServesName ==
  ASSUME Frame, NEW p \in Procs, alive[p], pc[p] \in Serving
  PROVE  arg[p] \in Names /\ \E u \in Uses : u[1] = p /\ u[2] = arg[p]
BY RegistryAssumption DEF Frame, Placed

\* Two live processes that serve one name share it.
LEMMA ServeShared ==
  ASSUME Frame, NEW p \in Procs, NEW q \in Procs, p # q, alive[p], alive[q],
         pc[p] \in Serving, pc[q] \in Serving, arg[p] = arg[q]
  PROVE  Shared(arg[q])
BY ServesName DEF Shared

\* The holder of the lock is the only process that can be storing an entry.
LEMMA HolderAlone ==
  ASSUME Frame, NEW p \in Procs, pc[p] \in Locked, NEW q \in Procs, q # p
  PROVE  pc[q] \notin {"insert", "clear"}
BY DEF Frame, Exclusive, Locked

LEMMA RegisterAgainEntries == ASSUME Frame, Entries, NEW p \in Procs, RegisterAgain(p) PROVE Entries'
<1> DEFINE k == Min(Matches(arg[p]))
<1>1. k \in Index /\ table[k].name = arg[p]
  BY MinIn DEF RegisterAgain, Matches
<1>2. arg[p] \in Names /\ pc[p] \in Locked
  BY ServesName DEF RegisterAgain, At, Serving, Locked
<1>3. table' = [table EXCEPT ![k].beat = arg[p]]
  BY DEF RegisterAgain
<1> HIDE DEF k
<1>4. /\ \A j \in Index : j # k => table'[j] = table[j]
      /\ table'[k].name = table[k].name /\ table'[k].info = table[k].info /\ table'[k].beat = arg[p]
  BY <1>1, <1>2, <1>3, TableStored DEF Stores, Frame, TypeOK, Fields
<1>5. \A j \in Index : table'[j].name = table[j].name /\ table'[j].info = table[j].info
  BY <1>4
<1>6. \A q \in Procs : Still(q) /\ pc'[q] \notin {"insert", "clear"}
  BY <1>2, HolderAlone DEF Frame, TypeOK, Still, RegisterAgain, At, Goto
<1>7. OneEntryPerName'
  BY <1>5 DEF Entries, OneEntryPerName
<1>8. Whole'
  BY <1>5, <1>6, StillSettled DEF Entries, Whole
<1>9. BeatIsOwn'
  BY <1>1, <1>4, <1>5, <1>6, StillSettled DEF Entries, BeatIsOwn
<1>10. ASSUME NEW q \in Procs
       PROVE  Storing(q)' /\ Touching(q)'
  <2>1. Storing(q)'
    BY <1>6 DEF Storing
  <2>2. Touching(q)'
    <3>1. pc[q] = "beat" => at[q] \in Index
      BY DEF Frame, Placed
    <3>2. Touching(q) /\ Still(q)
      BY <1>6 DEF Entries
    <3>3. SUFFICES ASSUME alive'[q], pc'[q] = "beat"
                   PROVE  table'[at'[q]].name = arg'[q] \/ Shared(arg'[q])
      BY DEF Touching, Shared
    <3>4. alive[q] /\ pc[q] = "beat" /\ at'[q] = at[q] /\ arg'[q] = arg[q]
      BY <3>2, <3>3 DEF Still
    <3> QED
      BY <1>5, <3>1, <3>2, <3>4 DEF Touching
  <2> QED
    BY <2>1, <2>2
<1> QED
  BY <1>7, <1>8, <1>9, <1>10 DEF Entries

\* The holder of the lock turns to the entry that it will store.
LEMMA TurnEntries ==
  ASSUME Frame, Entries, NEW p \in Procs, RegisterNew(p) \/ Unregister(p)
  PROVE  Entries'
<1>1. pc[p] \in Locked /\ alive[p] /\ table' = table
  BY DEF RegisterNew, Unregister, At, Locked, shared
<1>2. \A q \in Procs \ {p} : /\ pc[q] \notin {"insert", "clear"}
                             /\ pc'[q] = pc[q] /\ at'[q] = at[q] /\ arg'[q] = arg[q]
                             /\ alive'[q] = alive[q]
  BY <1>1, HolderAlone DEF Frame, TypeOK, RegisterNew, Unregister, Goto, shared
<1>3. \A i : Settled(i)
  BY <1>2 DEF Settled, RegisterNew, Unregister, At
<1>4. OneEntryPerName' /\ Whole' /\ BeatIsOwn'
  BY <1>1, <1>3 DEF Entries, OneEntryPerName, Whole, BeatIsOwn
<1>5. ASSUME NEW q \in Procs, q # p
      PROVE  Storing(q)' /\ Touching(q)'
  <2>1. Touching(q)
    BY DEF Entries
  <2> QED
    BY <1>1, <1>2, <1>5, <2>1 DEF Storing, Touching
<1>6. CASE RegisterNew(p)
  <2>1. Min(Vacant) \in Vacant
    BY <1>6, MinIn DEF RegisterNew, Vacant
  <2>2. /\ pc'[p] = "insert" /\ at'[p] = Min(Vacant) /\ arg'[p] = arg[p]
        /\ todo'[p] = Fields /\ Matches(arg[p]) = {}
    BY <1>6 DEF Frame, TypeOK, RegisterNew, Goto, Inserted, Fields
  <2>3. table[at'[p]].name \notin Names
    BY <2>1, <2>2, RegistryAssumption DEF Vacant, Active
  <2>4. Matches(arg[p])' = {}
    BY <1>1, <2>2 DEF Matches
  <2>5. Storing(p)' /\ Touching(p)'
    BY <1>1, <2>2, <2>3, <2>4 DEF Storing, Touching, Fields
  <2> QED
    BY <1>4, <1>5, <2>5 DEF Entries
<1>7. CASE Unregister(p)
  <2>1. Min(Matches(arg[p])) \in Matches(arg[p])
    BY <1>7, MinIn DEF Unregister, Matches
  <2>2. /\ pc'[p] = "clear" /\ at'[p] = Min(Matches(arg[p])) /\ arg'[p] = arg[p]
        /\ todo'[p] = Fields
    BY <1>7 DEF Frame, TypeOK, Unregister, Goto
  <2>3. Storing(p)' /\ Touching(p)'
    BY <1>1, <2>1, <2>2 DEF Storing, Touching, Fields, Matches
  <2> QED
    BY <1>4, <1>5, <2>3 DEF Entries
<1> QED
  BY <1>6, <1>7

LEMMA TouchHitEntries == ASSUME Frame, Entries, NEW p \in Procs, TouchHit(p) PROVE Entries'
<1>1. table' = table /\ alive' = alive /\ arg' = arg /\ at' = at /\ todo' = todo
  BY DEF TouchHit, shared
<1>2. pc'[p] = "beat" /\ pc[p] = "touch" /\ \A q \in Procs \ {p} : pc'[q] = pc[q]
  BY DEF Frame, TypeOK, TouchHit, At, Goto
<1>3. \A i : Settled(i)' <=> Settled(i)
  BY <1>1, <1>2 DEF Settled
<1>4. OneEntryPerName' /\ Whole' /\ BeatIsOwn'
  BY <1>1, <1>3 DEF Entries, OneEntryPerName, Whole, BeatIsOwn
<1>5. ASSUME NEW q \in Procs
      PROVE  Storing(q)' /\ Touching(q)'
  <2>1. Storing(q) /\ Touching(q)
    BY DEF Entries
  <2>2. \A n : Matches(n)' = Matches(n)
    BY <1>1 DEF Matches
  <2>3. Storing(q)'
    BY <1>1, <1>2, <2>1, <2>2 DEF Storing
  <2>4. Touching(q)'
    BY <1>1, <1>2, <2>1 DEF Touching, TouchHit
  <2> QED
    BY <2>3, <2>4
<1> QED
  BY <1>4, <1>5 DEF Entries

LEMMA BeatEntries == ASSUME Frame, Entries, NEW p \in Procs, Beat(p) PROVE Entries'
<1>1. at[p] \in Index /\ arg[p] \in Names /\ alive[p] /\ pc[p] = "beat"
  BY ServesName DEF Frame, Placed, Beat, At, Serving
<1>2. table' = [table EXCEPT ![at[p]].beat = arg[p]]
  BY DEF Beat
<1>3. /\ \A j \in Index : j # at[p] => table'[j] = table[j]
      /\ table'[at[p]].name = table[at[p]].name /\ table'[at[p]].info = table[at[p]].info
      /\ table'[at[p]].beat = arg[p]
  BY <1>1, <1>2, TableStored, SMTT(30) DEF Stores, Frame, TypeOK, Fields
<1>4. \A j \in Index : table'[j].name = table[j].name /\ table'[j].info = table[j].info
  BY <1>3
<1>5. \A q \in Procs : Still(q)
  BY DEF Frame, TypeOK, Still, Beat, Return, At, Goto
<1>6. table[at[p]].name = arg[p] \/ Shared(arg[p])
  BY <1>1 DEF Entries, Touching
<1>7. OneEntryPerName'
  BY <1>4 DEF Entries, OneEntryPerName
<1>8. Whole'
  BY <1>4, <1>5, StillSettled DEF Entries, Whole
<1>9. BeatIsOwn'
  BY <1>1, <1>3, <1>4, <1>5, <1>6, StillSettled DEF Entries, BeatIsOwn
<1>10. ASSUME NEW q \in Procs
       PROVE  Storing(q)' /\ Touching(q)'
  <2>1. Storing(q) /\ Touching(q) /\ Still(q)
    BY <1>5 DEF Entries
  <2>2. pc[q] \in {"insert", "clear", "beat"} => at[q] \in Index
    BY DEF Frame, Placed
  <2>3. \A n : Matches(n)' = Matches(n)
    BY <1>4 DEF Matches
  <2>4. Touching(q)'
    BY <1>4, <2>1, <2>2 DEF Touching, Still
  <2>5. CASE at[q] = at[p]
    <3>1. alive[q] /\ pc[q] = "insert" /\ "beat" \notin todo[q] => OwnBeat(arg[p], arg[q])
      BY <1>1, <1>6, <2>1, <2>5 DEF Storing, OwnBeat
    <3>2. /\ table'[at[q]].name = table[at[q]].name /\ table'[at[q]].info = table[at[q]].info
          /\ table'[at[q]].beat = arg[p]
      BY <1>3, <2>5
    <3>3. Storing(q)'
      BY <2>1, <2>3, <3>1, <3>2 DEF Storing, Still
    <3> QED
      BY <2>4, <3>3
  <2>6. CASE at[q] # at[p]
    <3>1. pc[q] \in {"insert", "clear"} => table'[at[q]] = table[at[q]]
      BY <1>3, <2>2, <2>6
    <3>2. Storing(q)'
      BY <2>1, <2>3, <3>1 DEF Storing, Still
    <3> QED
      BY <2>4, <3>2
  <2> QED
    BY <2>5, <2>6
<1> QED
  BY <1>7, <1>8, <1>9, <1>10 DEF Entries

LEMMA StorePartEntries == ASSUME Frame, Entries, NEW p \in Procs, StorePart(p) PROVE Entries'
<1>1. /\ alive[p] /\ pc[p] = "insert" /\ at[p] \in Index /\ arg[p] \in Names
      /\ "name" \in todo[p] /\ table[at[p]].name = Nil
  BY ServesName DEF Frame, Placed, StorePart, At, Serving
<1>2. /\ \A j \in Index : j # at[p] => table'[j] = table[j]
      /\ table'[at[p]].name = Partial
      /\ table'[at[p]].info = table[at[p]].info /\ table'[at[p]].beat = table[at[p]].beat
  BY <1>1, PartStored DEF Frame, TypeOK, StorePart
<1>3. pc' = pc /\ at' = at /\ alive' = alive /\ arg' = arg /\ todo' = todo
  BY DEF StorePart, locals
<1>4. ~Settled(at[p]) /\ \A i : Settled(i)' <=> Settled(i)
  BY <1>1, <1>3 DEF Settled
<1>5. OneEntryPerName'
  <2>1. table'[at[p]].name \notin Names
    BY <1>2, RegistryAssumption
  <2> QED
    BY <1>2, <2>1 DEF Entries, OneEntryPerName
<1>6. Whole' /\ BeatIsOwn'
  BY <1>2, <1>4 DEF Entries, Whole, BeatIsOwn
<1>7. ASSUME NEW q \in Procs, q # p
      PROVE  Storing(q)' /\ Touching(q)'
  <2>1. pc[q] \notin {"insert", "clear"}
    BY <1>1, <1>7, HolderAlone DEF Locked
  <2>2. alive[q] /\ pc[q] = "beat" => at[q] \in Index /\ arg[q] \in Names
    BY ServesName DEF Frame, Placed, Serving
  <2>3. Touching(q)
    BY DEF Entries
  <2>4. Storing(q)'
    BY <1>3, <2>1 DEF Storing
  <2>5. Touching(q)'
    BY <1>1, <1>2, <1>3, <2>2, <2>3, RegistryAssumption DEF Touching
  <2> QED
    BY <2>4, <2>5
<1>8. Storing(p)' /\ Touching(p)'
  <2>1. Storing(p)
    BY DEF Entries
  <2>2. Matches(arg[p])' = {}
    <3>1. \A j \in Index : table[j].name # arg[p]
      BY <1>1, <2>1 DEF Storing, Matches
    <3>2. \A j \in Index : table'[j].name # arg[p]
      BY <1>1, <1>2, <3>1, RegistryAssumption
    <3> QED
      BY <1>3, <3>2 DEF Matches
  <2> QED
    BY <1>1, <1>2, <1>3, <2>1, <2>2, RegistryAssumption DEF Storing, Touching
<1> QED
  BY <1>5, <1>6, <1>7, <1>8 DEF Entries
=============================================================================
