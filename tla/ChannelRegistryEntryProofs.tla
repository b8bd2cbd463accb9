--------------------- MODULE ChannelRegistryEntryProofs ---------------------
(***************************************************************************)
(* ChannelRegistry, continued: the steps that store into entries, and the  *)
(* walks that read them without the lock.  One entry for a name,           *)
(* heartbeats of one's own, and that a walk finds what was registered all  *)
(* along follow.                                                           *)
(***************************************************************************)
EXTENDS ChannelRegistryLockProofs

\* One field of a new entry.  The entry is settled with its last field.
LEMMA InsertEntries ==
  ASSUME Frame, Entries, NEW p \in Procs, NEW f \in Fields, StoreField(p, f), pc[p] = "insert"
  PROVE  Entries'
<1>k. PICK k \in Index, n \in Names : k = at[p] /\ n = arg[p]
  BY ServesName DEF Frame, Placed, StoreField, At, Serving
<1>1. alive[p] /\ f \in todo[p]
  BY DEF StoreField, At
<1>2. table \in [Index -> Entry] /\ table' = [table EXCEPT ![k][f] = n]
  BY <1>k DEF Frame, TypeOK, StoreField
<1>3. /\ \A j \in Index : j # k => table'[j] = table[j]
      /\ table'[k].name = IF f = "name" THEN n ELSE table[k].name
      /\ table'[k].info = IF f = "info" THEN n ELSE table[k].info
      /\ table'[k].beat = IF f = "beat" THEN n ELSE table[k].beat
  <2>1. Stores(k, f, n)
    BY <1>2, TableStored
  <2> QED
    BY <2>1 DEF Stores
<1>4. /\ at' = at /\ alive' = alive /\ arg' = arg
      /\ todo'[p] = todo[p] \ {f} /\ pc'[p] = IF todo[p] = {f} THEN "unlock" ELSE "insert"
      /\ \A q \in Procs \ {p} : pc'[q] = pc[q] /\ todo'[q] = todo[q]
  BY DEF Frame, TypeOK, StoreField, Goto
<1>5. \A q \in Procs \ {p} : pc[q] \notin {"insert", "clear"}
  BY HolderAlone DEF Locked
<1>6. \A j \in Index : j # k => Settled(j)
  BY <1>k, <1>5 DEF Settled
<1>7. ~Settled(k)
  BY <1>k DEF Settled
<1>8. Storing(p)
  BY DEF Entries
<1>9. OneEntryPerName'
  <2>1. f = "name" => \A j \in Index : table[j].name # n
    BY <1>k, <1>1, <1>8 DEF Storing, Matches
  <2>2. CASE f = "name"
    BY <1>3, <2>1, <2>2 DEF Entries, OneEntryPerName
  <2>3. CASE f # "name"
    <3>1. \A j \in Index : table'[j].name = table[j].name
      BY <1>3, <2>3
    <3> QED
      BY <3>1 DEF Entries, OneEntryPerName
  <2> QED
    BY <2>2, <2>3
<1>10. Settled(k)' => todo[p] = {f}
  BY <1>k, <1>4 DEF Settled
<1>11. todo[p] = {f} => /\ table'[k].name = n /\ table'[k].info = n
                        /\ OwnBeat(table'[k].beat, n)
  BY <1>k, <1>1, <1>3, <1>8 DEF Storing, OwnBeat
<1>12. Whole'
  BY <1>3, <1>6, <1>10, <1>11 DEF Entries, Whole
<1>13. BeatIsOwn'
  BY <1>3, <1>6, <1>10, <1>11 DEF Entries, BeatIsOwn, OwnBeat
<1>14. Storing(p)' /\ Touching(p)'
  <2>1. Touching(p)'
    BY <1>4 DEF Touching
  <2>2. "name" \in todo'[p] => Matches(n)' = {} /\ table'[k].name \notin Names
    <3>1. "name" \in todo'[p] => f # "name" /\ "name" \in todo[p]
      BY <1>4
    <3>2. "name" \in todo[p] => /\ \A j \in Index : table[j].name # n
                               /\ table[k].name \notin Names
      BY <1>k, <1>1, <1>8 DEF Storing, Matches
    <3>3. f # "name" => \A j \in Index : table'[j].name = table[j].name
      BY <1>3
    <3> QED
      BY <1>k, <3>1, <3>2, <3>3 DEF Matches
  <2>3. /\ "name" \notin todo'[p] => table'[k].name = n
        /\ "info" \notin todo'[p] => table'[k].info = n
        /\ "beat" \notin todo'[p] => OwnBeat(table'[k].beat, n)
    BY <1>k, <1>1, <1>3, <1>4, <1>8 DEF Storing, OwnBeat
  <2> QED
    BY <1>k, <1>4, <2>1, <2>2, <2>3 DEF Storing
<1>15. ASSUME NEW q \in Procs, q # p
       PROVE  Storing(q)' /\ Touching(q)'
  <2>1. alive[q] /\ pc[q] = "beat" => at[q] \in Index /\ arg[q] \in Names
    BY ServesName DEF Frame, Placed, Serving
  <2>2. Touching(q)
    BY DEF Entries
  <2>3. Storing(q)'
    BY <1>4, <1>5, <1>15 DEF Storing
  <2>4. Touching(q)'
    BY <1>k, <1>1, <1>3, <1>4, <1>8, <1>15, <2>1, <2>2 DEF Storing, Touching
  <2> QED
    BY <2>3, <2>4
<1> QED
  BY <1>9, <1>12, <1>13, <1>14, <1>15 DEF Entries

\* One field of an entry that is cleared.  Its name goes, and a touch() that
\* has found it shares the name with the one who clears it.
LEMMA ClearEntries ==
  ASSUME Frame, Entries, NEW p \in Procs, NEW f \in Fields, StoreField(p, f), pc[p] = "clear"
  PROVE  Entries'
<1>k. PICK k \in Index, n \in Names : k = at[p] /\ n = arg[p]
  BY ServesName DEF Frame, Placed, StoreField, At, Serving
<1>1. alive[p] /\ f \in todo[p]
  BY DEF StoreField, At
<1>2. table \in [Index -> Entry] /\ table' = [table EXCEPT ![k][f] = Nil]
  BY <1>k DEF Frame, TypeOK, StoreField
<1>3. /\ \A j \in Index : j # k => table'[j] = table[j]
      /\ table'[k].name = IF f = "name" THEN Nil ELSE table[k].name
  <2>1. Stores(k, f, Nil)
    BY <1>2, TableStored
  <2> QED
    BY <2>1 DEF Stores
<1>4. /\ at' = at /\ alive' = alive /\ arg' = arg
      /\ todo'[p] = todo[p] \ {f} /\ pc'[p] = IF todo[p] = {f} THEN "unlock" ELSE "clear"
      /\ \A q \in Procs \ {p} : pc'[q] = pc[q] /\ todo'[q] = todo[q]
  BY DEF Frame, TypeOK, StoreField, Goto
<1>5. \A q \in Procs \ {p} : pc[q] \notin {"insert", "clear"}
  BY HolderAlone DEF Locked
<1>6. \A j \in Index : j # k => Settled(j)
  BY <1>k, <1>5 DEF Settled
<1>7. Storing(p)
  BY DEF Entries
<1>8. OneEntryPerName'
  BY <1>k, <1>1, <1>3, RegistryAssumption DEF Entries, OneEntryPerName
<1>9. Settled(k)' => table'[k].name \notin Names
  <2>1. Settled(k)' => todo[p] = {f}
    BY <1>k, <1>4 DEF Settled
  <2> QED
    BY <1>k, <1>1, <1>3, <1>7, <2>1, RegistryAssumption DEF Storing
<1>10. Whole' /\ BeatIsOwn'
  BY <1>3, <1>6, <1>9 DEF Entries, Whole, BeatIsOwn
<1>11. Storing(p)' /\ Touching(p)'
  BY <1>k, <1>1, <1>3, <1>4, <1>7 DEF Storing, Touching
<1>12. ASSUME NEW q \in Procs, q # p
       PROVE  Storing(q)' /\ Touching(q)'
  <2>1. alive[q] /\ pc[q] = "beat" => at[q] \in Index
    BY DEF Frame, Placed
  <2>2. alive[q] /\ pc[q] = "beat" /\ arg[q] = n => Shared(arg[q])
    BY <1>k, <1>1, <1>12, ServeShared DEF Serving
  <2>3. Touching(q)
    BY DEF Entries
  <2>4. Storing(q)'
    BY <1>4, <1>5, <1>12 DEF Storing
  <2>5. Touching(q)'
    BY <1>k, <1>1, <1>3, <1>4, <1>7, <1>12, <2>1, <2>2, <2>3 DEF Storing, Touching
  <2> QED
    BY <2>4, <2>5
<1> QED
  BY <1>8, <1>10, <1>11, <1>12 DEF Entries

\* Every step is the step of one process.
LEMMA SomeActor == ASSUME Next PROVE UNCHANGED vars \/ \E p \in Procs : Quiet(p) \/ Busy(p)
<1>1. ASSUME NEW p \in Procs,
             Open(p) \/ NoTable(p) \/ Crash(p) \/ Acquire(p) \/ StorePart(p) \/ Step(p)
      PROVE  UNCHANGED vars \/ Quiet(p) \/ Busy(p)
  BY <1>1, Zenon DEF NoTable, Step, Quiet, Busy
<1>2. ASSUME NEW u \in Uses, Call(u[1], u[2]) \/ Walk(u[1], "touch", u[2])
      PROVE  \E p \in Procs : Quiet(p)
  <2>1. u[1] \in Procs /\ u[2] \in Names
    BY RegistryAssumption DEF Procs
  <2>2. Quiet(u[1])
    BY <1>2, <2>1 DEF Quiet
  <2> QED
    BY <2>1, <2>2
<1>3. ASSUME NEW p \in Listers, Walk(p, "list", Nil) \/ \E n \in Names : Walk(p, "contains", n)
      PROVE  p \in Procs /\ Quiet(p)
  BY <1>3 DEF Procs, Quiet
<1> QED
  BY <1>1, <1>2, <1>3, Zenon DEF Next

LEMMA EntriesInit == ASSUME Init PROVE Entries
<1>1. /\ \A i \in Index : table[i].name \notin Names
      /\ \A p \in Procs : pc[p] = "closed"
  BY RegistryAssumption DEF Init, Cleared
<1> QED
  BY <1>1 DEF Entries, OneEntryPerName, Whole, BeatIsOwn, Storing, Touching

LEMMA EntriesNext == ASSUME Frame, Entries, [Next]_vars PROVE Entries'
<1>1. CASE UNCHANGED vars
  <2>1. table' = table /\ \A q \in Procs : Still(q)
    BY <1>1 DEF vars, shared, locals, Still
  <2> QED
    BY <2>1, QuietEntries
<1>2. ASSUME NEW p \in Procs, Quiet(p)
      PROVE  Entries'
  <2>1. table' = table /\ \A q \in Procs : Still(q)
    BY <1>2, QuietSteps
  <2> QED
    BY <2>1, QuietEntries
<1>3. ASSUME NEW p \in Procs, Busy(p)
      PROVE  Entries'
  <2>1. ASSUME NEW f \in Fields, StoreField(p, f)
        PROVE  Entries'
    BY <2>1, InsertEntries, ClearEntries DEF StoreField, At
  <2> QED
    BY <1>3, <2>1, RegisterAgainEntries, TurnEntries, TouchHitEntries, BeatEntries, StorePartEntries
       DEF Busy
<1> QED
  BY <1>1, <1>2, <1>3, SomeActor, Zenon DEF vars

\* The entries of the table agree with themselves and with what the holder
\* of the lock has stored, wherever processes interleave or die.
THEOREM EntriesInvariant == Spec => []Entries
BY EntriesInit, EntriesNext, FrameInvariant, PTL DEF Spec

\* register_channel() never makes a second entry for a name.
THEOREM OneEntryPerNameInvariant == Spec => []OneEntryPerName
<1>1. Entries => OneEntryPerName
  BY DEF Entries
<1> QED
  BY <1>1, EntriesInvariant, PTL

\* touch(), which stores without the lock, renews no other channel's
\* heartbeat, unless several processes use the name that it touches.
THEOREM BeatIsOwnInvariant == Spec => []BeatIsOwn
<1>1. Entries => BeatIsOwn
  BY DEF Entries
<1> QED
  BY <1>1, EntriesInvariant, PTL

-----------------------------------------------------------------------------

\* The entries of list()'s result that have name n.
Named(p, n) == {s \in result[p] : s[2].name = n}

\* How far a walk has come, as to channel n in entry i.
Passed(p, n, i) ==
  /\ pc[p] \in Finding /\ arg[p] = n => at[p] <= i
  /\ pc[p] \in {"list", "copy"} =>
       /\ at[p] <= i => Named(p, n) = {}
       /\ at[p] > i => \E r \in result[p] : r[2].info = n /\ Named(p, n) = {r}
  /\ pc[p] = "copy" =>
       /\ at[p] = i => /\ "name" \notin todo[p] => copy[p].name = n
                       /\ "info" \notin todo[p] => copy[p].info = n
       /\ at[p] # i => copy[p].name # n

\* A stable name has a settled entry, and no walk has gone past it in vain.
Walks ==
  \A p \in Procs : \A n \in stable[p] :
    \E i \in Index : table[i].name = n /\ Settled(i) /\ Passed(p, n, i)
-----------------------------------------------------------------------------
(* The unlocked walks *)

\* Channel n is in entry i, and nobody is storing that entry.
Home(n, i) == table[i].name = n /\ Settled(i)

\* A channel stays where it is until it is unregistered.
LEMMA HomeKept ==
  ASSUME Frame, Entries, NEW p \in Procs, Quiet(p) \/ Busy(p), NEW n \in Names, NEW i \in Index,
         Home(n, i), ~(Unregister(p) /\ arg[p] = n)
  PROVE  Home(n, i)'
<1>1. CASE Quiet(p)
  BY <1>1, QuietSteps, StillSettled DEF Home
<1>2. CASE RegisterAgain(p) \/ Beat(p)
  <2>1. PICK k \in Index, m \in Names \cup {Nil} : table' = [table EXCEPT ![k].beat = m]
    <3>1. CASE RegisterAgain(p)
      <4>1. Min(Matches(arg[p])) \in Index
        BY <3>1, MinIn DEF RegisterAgain, Matches
      <4> QED
        BY <3>1, <4>1 DEF Frame, TypeOK, RegisterAgain
    <3>2. CASE Beat(p)
      BY <3>2 DEF Frame, TypeOK, Placed, Beat, At
    <3> QED
      BY <1>2, <3>1, <3>2
  <2>2. table'[i].name = table[i].name
    BY <2>1, TableStored, SMTT(30) DEF Frame, TypeOK, Stores, Fields
  <2>3. \A q \in Procs : Still(q)
    BY <1>2 DEF Frame, TypeOK, Still, RegisterAgain, Beat, Return, At, Goto
  <2> QED
    BY <2>2, <2>3, StillSettled DEF Home
<1>3. CASE RegisterNew(p)
  <2>1. Min(Vacant) \in Vacant
    BY <1>3, MinIn DEF RegisterNew, Vacant
  <2>2. Min(Vacant) # i
    BY <2>1, RegistryAssumption DEF Home, Vacant, Active
  <2> QED
    BY <1>3, <2>2 DEF Frame, TypeOK, Home, Settled, RegisterNew, Goto, shared
<1>4. CASE Unregister(p)
  <2>1. Min(Matches(arg[p])) \in Matches(arg[p])
    BY <1>4, MinIn DEF Unregister, Matches
  <2>2. Min(Matches(arg[p])) # i
    BY <1>4, <2>1 DEF Home, Matches
  <2> QED
    BY <1>4, <2>2 DEF Frame, TypeOK, Home, Settled, Unregister, Goto, shared
<1>5. CASE TouchHit(p)
  BY <1>5 DEF Frame, TypeOK, Home, Settled, TouchHit, Goto, shared
<1>6. CASE StorePart(p)
  <2>1. at[p] # i /\ at[p] \in Index
    BY <1>6 DEF Frame, Placed, Home, Settled, StorePart, At
  <2>2. table'[i] = table[i]
    BY <1>6, <2>1, PartStored DEF Frame, TypeOK, StorePart
  <2> QED
    BY <1>6, <2>2 DEF Home, Settled, StorePart, locals
<1>7. ASSUME NEW f \in Fields, StoreField(p, f)
      PROVE  Home(n, i)'
  <2>1. at[p] # i /\ at[p] \in Index
    BY <1>7 DEF Frame, Placed, Home, Settled, StoreField, At
  <2>2. table'[i] = table[i]
    BY <1>7, <2>1 DEF Frame, TypeOK, StoreField
  <2> QED
    BY <1>7, <2>1, <2>2 DEF Frame, TypeOK, Home, Settled, StoreField, Goto
<1> QED
  BY <1>1, <1>2, <1>3, <1>4, <1>5, <1>6, <1>7 DEF Busy

\* A step of another process leaves a walk where it is; only unregistering
\* a channel takes it from the stable ones.
LEMMA OthersWalk ==
  ASSUME Frame, NEW p \in Procs, Quiet(p) \/ Busy(p), NEW q \in Procs, q # p
  PROVE  /\ pc'[q] = pc[q] /\ arg'[q] = arg[q] /\ at'[q] = at[q] /\ todo'[q] = todo[q]
         /\ copy'[q] = copy[q] /\ result'[q] = result[q]
         /\ stable'[q] \subseteq stable[q]
         /\ Unregister(p) => arg[p] \notin stable'[q]
<1> USE DEF Frame, TypeOK, Goto, shared
<1>1. CASE Open(p) \/ Acquire(p) \/ NothingToDo(p) \/ FindNext(p) \/ ListSkip(p)
  BY <1>1 DEF Open, Acquire, NothingToDo, FindNext, ListSkip, Unregister, At
<1>2. CASE Crash(p)
  BY <1>2 DEF Crash, Unregister
<1>3. CASE ListTake(p) \/ PushBack(p) \/ \E f \in Fields : LoadField(p, f)
  <2>1. CASE ListTake(p) \/ PushBack(p)
    BY <2>1, SMTT(30) DEF ListTake, PushBack, Unregister, At
  <2>2. CASE \E f \in Fields : LoadField(p, f)
    BY <2>2, SMTT(30) DEF LoadField, Unregister, At
  <2> QED
    BY <1>3, <2>1, <2>2
<1>4. CASE Unlock(p) \/ ContainsHit(p) \/ WalkEnd(p) \/ Beat(p)
  BY <1>4 DEF Unlock, ContainsHit, WalkEnd, Beat, Return, Unregister, At
<1>5. CASE (\E n \in Names \cup {Nil} : Call(p, n))
           \/ \E n \in Names \cup {Nil}, l \in {"touch", "contains", "list"} : Walk(p, l, n)
  <2>1. CASE \E n \in Names \cup {Nil} : Call(p, n)
    BY <2>1, SMTT(30) DEF Call, Unregister, At
  <2>2. CASE \E n \in Names \cup {Nil}, l \in {"touch", "contains", "list"} : Walk(p, l, n)
    BY <2>2, SMTT(30) DEF Walk, Unregister, At
  <2> QED
    BY <1>5, <2>1, <2>2
<1>6. CASE RegisterAgain(p) \/ RegisterNew(p) \/ TouchHit(p) \/ StorePart(p)
           \/ \E f \in Fields : StoreField(p, f)
  BY <1>6 DEF RegisterAgain, RegisterNew, TouchHit, StorePart, StoreField, locals, Unregister, At
<1>7. CASE Unregister(p)
  BY <1>7 DEF Unregister
<1> QED
  BY <1>1, <1>2, <1>3, <1>4, <1>5, <1>6, <1>7 DEF Quiet, Busy

\* Outside a walk nothing is asked of the locals.
LEMMA NoWalk == ASSUME NEW p \in Procs, NEW n, NEW i, pc'[p] \notin Walking PROVE Passed(p, n, i)'
BY DEF Passed, Walking, Finding

\* One field is loaded into list()'s copy.
LEMMA LoadPassed ==
  ASSUME Frame, Entries, NEW p \in Procs, NEW f \in Fields, LoadField(p, f),
         NEW n \in Names, NEW i \in Index, Home(n, i), Passed(p, n, i)
  PROVE  Passed(p, n, i)'
<1>1. at[p] \in Index /\ pc[p] = "copy" /\ pc'[p] = "copy" /\ at'[p] = at[p]
      /\ result'[p] = result[p] /\ arg'[p] = arg[p]
  BY DEF Frame, Placed, LoadField, At
<1>2. todo'[p] = todo[p] \ {f}
  BY DEF Frame, TypeOK, LoadField
<1>3. PICK c \in Entry, e \in Entry : c = copy[p] /\ e = table[at[p]]
  BY <1>1 DEF Frame, TypeOK
<1>4. copy'[p] = [c EXCEPT ![f] = e[f]]
  BY <1>3 DEF Frame, TypeOK, LoadField
<1>5. /\ copy'[p].name = IF f = "name" THEN e.name ELSE c.name
      /\ copy'[p].info = IF f = "info" THEN e.info ELSE c.info
  BY <1>3, <1>4 DEF Entry, Fields
<1>6. /\ at[p] = i => e.name = n /\ e.info = n
      /\ at[p] # i => e.name # n
  BY <1>1, <1>3 DEF Home, Entries, OneEntryPerName, Whole
<1>7. /\ at[p] <= i => Named(p, n)' = {}
      /\ at[p] > i => \E r \in result'[p] : r[2].info = n /\ Named(p, n)' = {r}
  BY <1>1 DEF Passed, Named
<1>8. /\ at[p] = i => /\ "name" \notin todo'[p] => copy'[p].name = n
                      /\ "info" \notin todo'[p] => copy'[p].info = n
      /\ at[p] # i => copy'[p].name # n
  BY <1>1, <1>2, <1>3, <1>5, <1>6 DEF Passed
<1> QED
  BY <1>1, <1>7, <1>8 DEF Passed, Finding

\* The copy joins the result.
LEMMA PushPassed ==
  ASSUME Frame, NEW p \in Procs, PushBack(p),
         NEW n \in Names, NEW i \in Index, Passed(p, n, i)
  PROVE  Passed(p, n, i)'
<1>1. /\ at[p] \in Index /\ i \in Int /\ at[p] \in Int
      /\ pc[p] = "copy" /\ todo[p] = {} /\ pc'[p] = "list" /\ at'[p] = at[p] + 1
  <2>1. pc[p] = "copy" /\ todo[p] = {} /\ pc'[p] = "list" /\ at'[p] = at[p] + 1
    BY DEF Frame, TypeOK, PushBack, At, Goto
  <2> QED
    BY <2>1, RegistryAssumption DEF Frame, TypeOK, Placed, Index
<1>2. PICK c : c = <<at[p], copy[p]>>
  OBVIOUS
<1>3. result'[p] = result[p] \cup {c} /\ c[2] = copy[p]
  BY <1>2 DEF Frame, TypeOK, PushBack
<1>4. Named(p, n)' = IF copy[p].name = n THEN Named(p, n) \cup {c} ELSE Named(p, n)
  BY <1>3 DEF Named
<1>5. CASE at[p] < i
  <2>1. Named(p, n)' = {}
    BY <1>1, <1>4, <1>5, SMTT(30) DEF Passed
  <2>2. ~(at'[p] > i)
    BY <1>1, <1>5
  <2> QED
    BY <1>1, <2>1, <2>2 DEF Passed, Finding
<1>6. CASE at[p] = i
  <2>1. Named(p, n)' = {c} /\ c[2].info = n
    <3>1. copy[p].name = n /\ copy[p].info = n /\ Named(p, n) = {}
      BY <1>1, <1>6, SMTT(30) DEF Passed
    <3> QED
      BY <1>3, <1>4, <3>1
  <2>2. ~(at'[p] <= i)
    BY <1>1, <1>6
  <2> QED
    BY <1>1, <1>3, <2>1, <2>2 DEF Passed, Finding
<1>7. CASE at[p] > i
  <2>1. PICK r \in result[p] : r[2].info = n /\ Named(p, n) = {r}
    BY <1>1, <1>7 DEF Passed
  <2>2. Named(p, n)' = {r} /\ r \in result'[p]
    <3>1. copy[p].name # n
      BY <1>1, <1>7, SMTT(30) DEF Passed
    <3> QED
      BY <1>3, <1>4, <2>1, <3>1
  <2>3. ~(at'[p] <= i)
    BY <1>1, <1>7
  <2> QED
    BY <1>1, <2>1, <2>2, <2>3, SMTT(30) DEF Passed, Finding
<1> QED
  BY <1>1, <1>5, <1>6, <1>7

\* A step inside a walk.
LEMMA WalkPassed ==
  ASSUME Frame, Entries, NEW p \in Procs, FindNext(p) \/ ListSkip(p) \/ ListTake(p),
         NEW n \in Names, NEW i \in Index, Home(n, i), Passed(p, n, i)
  PROVE  Passed(p, n, i)'
<1>1. /\ i \in Int /\ at[p] \in Int /\ copy'[p] = copy[p]
      /\ result'[p] = result[p] /\ arg'[p] = arg[p]
  <2>1. i \in Int /\ at[p] \in Int
    BY RegistryAssumption DEF Frame, TypeOK, Index
  <2> QED
    BY <2>1 DEF FindNext, ListSkip, ListTake
<1>2. Named(p, n)' = Named(p, n)
  BY <1>1 DEF Named
<1>3. CASE FindNext(p)
  <2>1. /\ pc[p] \in Finding /\ pc'[p] = pc[p] /\ at'[p] = at[p] + 1
        /\ table[at[p]].name # arg[p]
    BY <1>3 DEF Frame, TypeOK, FindNext, At, Finding
  <2>2. arg[p] = n => at[p] <= i /\ at[p] # i
    BY <2>1 DEF Passed, Home
  <2>3. \A k \in Int : k <= i /\ k # i => k + 1 <= i
    BY <1>1
  <2>4. arg[p] = n => at'[p] <= i
    BY <1>1, <2>1, <2>2, <2>3, Zenon
  <2> QED
    BY <1>1, <2>1, <2>4 DEF Passed, Finding
<1>4. CASE ListSkip(p)
  <2>1. pc[p] = "list" /\ pc'[p] = pc[p] /\ at'[p] = at[p] + 1 /\ table[at[p]].name = Nil
    BY <1>4 DEF Frame, TypeOK, ListSkip, At, AfterInactive, Active
  <2>2. at[p] # i
    BY <2>1, RegistryAssumption DEF Home
  <2>3. (at'[p] <= i => at[p] <= i) /\ (at'[p] > i => at[p] > i)
    BY <1>1, <2>1, <2>2
  <2>4. /\ at'[p] <= i => Named(p, n)' = {}
        /\ at'[p] > i => \E r \in result[p] : r[2].info = n /\ Named(p, n)' = {r}
    BY <1>2, <2>1, <2>3 DEF Passed
  <2> QED
    BY <1>1, <2>1, <2>4 DEF Passed, Finding
<1>5. CASE ListTake(p)
  <2>1. pc[p] = "list" /\ pc'[p] = "copy" /\ at'[p] = at[p] /\ todo'[p] = {"name", "info"}
    BY <1>5 DEF Frame, TypeOK, ListTake, At, Goto, Fields
  <2>2. copy'[p].name # n
    <3>1. copy[p] = Cleared
      BY <2>1 DEF Frame, Placed
    <3> QED
      BY <1>1, <3>1, RegistryAssumption DEF Cleared
  <2> QED
    BY <1>1, <1>2, <2>1, <2>2 DEF Passed, Finding
<1> QED
  BY <1>3, <1>4, <1>5

\* The stable names of a process after a step of its own.
LEMMA OwnWalk ==
  ASSUME Frame, Entries, Walks, NEW p \in Procs, Quiet(p) \/ Busy(p), NEW n \in stable'[p]
  PROVE  \E i \in Index : Home(n, i)' /\ Passed(p, n, i)'
<1>1. ASSUME NEW m \in Names \cup {Nil}, NEW l \in {"touch", "contains", "list"}, Walk(p, l, m)
      PROVE  \E i \in Index : Home(n, i)' /\ Passed(p, n, i)'
  <2>1. PICK i \in Index : Home(n, i) /\ n \in Names
    BY <1>1 DEF Frame, TypeOK, Walk, Registered, Home
  <2>2. pc[p] = "idle" /\ pc'[p] = l /\ at'[p] = 0 /\ result'[p] = {}
    BY <1>1 DEF Frame, TypeOK, Placed, Walk, At, Goto
  <2>3. Home(n, i)'
    BY <1>1, <2>1, <2>2, HomeKept DEF Quiet, Unregister, At
  <2>4. at'[p] <= i /\ ~(at'[p] > i)
    BY <2>2, RegistryAssumption DEF Index
  <2>5. Passed(p, n, i)'
    BY <2>2, <2>4 DEF Passed, Named
  <2> QED
    BY <2>3, <2>5
<1>2. ASSUME n \in stable[p], n \in Names, ~(Unregister(p) /\ arg[p] = n),
             \/ pc'[p] \notin Walking
             \/ FindNext(p) \/ ListSkip(p) \/ ListTake(p) \/ PushBack(p)
             \/ \E f \in Fields : LoadField(p, f)
      PROVE  \E i \in Index : Home(n, i)' /\ Passed(p, n, i)'
  <2>1. PICK i \in Index : Home(n, i) /\ Passed(p, n, i)
    BY <1>2 DEF Walks, Home
  <2>2. Home(n, i)'
    BY <1>2, <2>1, HomeKept
  <2>3. Passed(p, n, i)'
    BY <1>2, <2>1, NoWalk, WalkPassed, PushPassed, LoadPassed
  <2> QED
    BY <2>2, <2>3
<1>3. CASE \/ Unlock(p) \/ ContainsHit(p) \/ WalkEnd(p) \/ Beat(p) \/ Crash(p)
  BY <1>3 DEF Frame, TypeOK, Unlock, ContainsHit, WalkEnd, Beat, Return, Crash
<1>4. CASE FindNext(p) \/ ListSkip(p) \/ ListTake(p) \/ PushBack(p)
           \/ \E f \in Fields : LoadField(p, f)
  <2>1. stable' = stable /\ n \in Names /\ ~Unregister(p)
    BY <1>4 DEF Frame, TypeOK, FindNext, ListSkip, ListTake, PushBack, LoadField, Unregister, At
  <2> QED
    BY <1>2, <1>4, <2>1
<1>5. CASE \/ Open(p) \/ Acquire(p) \/ NothingToDo(p) \/ \E m \in Names \cup {Nil} : Call(p, m)
  <2>1. stable' = stable /\ n \in Names /\ ~Unregister(p) /\ pc'[p] \notin Walking
    <3>1. stable' = stable /\ n \in Names
      BY <1>5 DEF Frame, TypeOK, Open, Acquire, NothingToDo, Call
    <3>2. PICK l : pc' = [pc EXCEPT ![p] = l] /\ l \notin Walking /\ l # "clear"
      BY <1>5 DEF Open, Acquire, NothingToDo, Call, Goto, Walking, Finding
    <3>3. pc'[p] = l
      BY <3>2 DEF Frame, TypeOK
    <3>4. Unregister(p) => pc'[p] = "clear"
      BY DEF Frame, TypeOK, Unregister, Goto
    <3> QED
      BY <3>1, <3>2, <3>3, <3>4
  <2> QED
    BY <1>2, <2>1
<1>6. CASE RegisterAgain(p) \/ RegisterNew(p) \/ TouchHit(p) \/ StorePart(p)
           \/ \E f \in Fields : StoreField(p, f)
  <2>1. stable' = stable /\ n \in Names /\ ~Unregister(p) /\ pc'[p] \notin Walking
    BY <1>6 DEF Frame, TypeOK, RegisterAgain, RegisterNew, TouchHit, StorePart, StoreField, locals,
                Unregister, At, Goto, Walking, Finding
  <2> QED
    BY <1>2, <2>1
<1>7. CASE Unregister(p)
  <2>1. n \in stable[p] /\ n \in Names /\ n # arg[p] /\ pc'[p] \notin Walking
    BY <1>7 DEF Frame, TypeOK, Unregister, Goto, Walking, Finding
  <2> QED
    BY <1>2, <2>1
<1> QED
  BY <1>1, <1>3, <1>4, <1>5, <1>6, <1>7 DEF Quiet, Busy

LEMMA WalksNext == ASSUME Frame, Entries, Walks, [Next]_vars PROVE Walks'
<1>1. CASE UNCHANGED vars
  <2>1. /\ table' = table /\ pc' = pc /\ arg' = arg /\ at' = at /\ todo' = todo
        /\ copy' = copy /\ result' = result /\ stable' = stable
    BY <1>1 DEF vars, shared, locals
  <2>2. \A i : Settled(i)' <=> Settled(i)
    BY <2>1 DEF Settled
  <2>3. \A p, n : Named(p, n)' = Named(p, n)
    BY <2>1 DEF Named
  <2>4. \A p, n, i : Passed(p, n, i)' <=> Passed(p, n, i)
    BY <2>1, <2>3, SMTT(30) DEF Passed
  <2> QED
    BY <2>1, <2>2, <2>4 DEF Walks
<1>2. ASSUME NEW p \in Procs, Quiet(p) \/ Busy(p)
      PROVE  Walks'
  <2>1. ASSUME NEW q \in Procs, NEW n \in stable'[q]
        PROVE  \E i \in Index : Home(n, i)' /\ Passed(q, n, i)'
    <3>1. CASE q = p
      BY <1>2, <2>1, <3>1, OwnWalk
    <3>2. CASE q # p
      <4>1. n \in stable[q] /\ n \in Names /\ ~(Unregister(p) /\ arg[p] = n)
        BY <1>2, <3>2, OthersWalk DEF Frame, TypeOK
      <4>2. PICK i \in Index : Home(n, i) /\ Passed(q, n, i)
        BY <4>1 DEF Walks, Home
      <4>3. Home(n, i)'
        BY <1>2, <4>1, <4>2, HomeKept
      <4>4. /\ pc'[q] = pc[q] /\ arg'[q] = arg[q] /\ at'[q] = at[q] /\ todo'[q] = todo[q]
            /\ copy'[q] = copy[q] /\ result'[q] = result[q]
        BY <1>2, <3>2, OthersWalk
      <4>5. Passed(q, n, i)'
        BY <4>2, <4>4 DEF Passed, Named
      <4> QED
        BY <4>3, <4>5
    <3> QED
      BY <3>1, <3>2
  <2> QED
    BY <2>1 DEF Walks, Home
<1> QED
  BY <1>1, <1>2, SomeActor, Zenon DEF vars

\* touch(), contains() and list(), which take no lock, find every channel
\* that is registered all through their walk, and list() finds it once.
THEOREM StableIsFoundInvariant == Spec => []StableIsFound
<1>1. Init => Walks
  BY DEF Init, Walks
<1>2. ASSUME Frame, Walks
      PROVE  StableIsFound
  <2> SUFFICES ASSUME NEW p \in Procs, at[p] = MaxChannels
               PROVE  /\ pc[p] \in Finding => arg[p] \notin stable[p]
                      /\ pc[p] = "list" => \A n \in stable[p] :
                           \E r \in result[p] : r[2].info = n /\ Named(p, n) = {r}
    BY DEF StableIsFound, Named
  <2>1. ASSUME NEW n \in stable[p]
        PROVE  \E i \in Index : Passed(p, n, i) /\ at[p] > i /\ ~(at[p] <= i)
    BY <1>2, <2>1, RegistryAssumption DEF Walks, Index
  <2> QED
    BY <2>1 DEF Passed
<1> QED
  BY <1>1, <1>2, WalksNext, FrameInvariant, EntriesInvariant, PTL DEF Spec
=============================================================================
