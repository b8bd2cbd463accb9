-------------------------- MODULE ChannelRegistry ---------------------------
(***************************************************************************)
(* ChannelRegistry (channel_registry.hpp): a table in shared memory that   *)
(* publishers enter their channels in.  register_channel() and             *)
(* unregister_channel() hold a spin lock; touch(), contains() and list()   *)
(* do not, so they read and write entries that are being changed.  The     *)
(* fields of an entry are plain memory: they are stored and loaded one at  *)
(* a time, in any order.  A process may die at any point.                  *)
(*                                                                         *)
(* The scans under the lock are one step, as only the holder of the lock   *)
(* writes names.  A name stands for its first 63 characters; one that is   *)
(* partly copied is taken to be the name of no channel, and clearing a     *)
(* name, which makes the entry inactive with its first byte, is one store. *)
(***************************************************************************)
EXTENDS Integers, FiniteSets, FiniteSetsExt

CONSTANTS
  MaxChannels,   \* kMaxChannels
  Names,         \* channel names
  Nil, Partial,  \* no name; a name of which a part has been stored
  Uses,          \* <<p, n>>: process p registers, touches, unregisters n
  Listers        \* processes that call list() and contains()

ASSUME RegistryAssumption ==
  /\ MaxChannels \in Nat
  /\ Nil \notin Names /\ Partial \notin Names /\ Nil # Partial
  /\ \A u \in Uses : u[2] \in Names

VARIABLES
  lock,      \* RegistryHeader::lock
  table,     \* the entries
  alive,     \* has the process not died?
  pc,        \* where each process is
  arg,       \* the channel_name it was called with
  at,        \* its index i into the table
  todo,      \* fields of entry i still to be stored, or loaded by list()
  copy,      \* list(): the entry being copied
  result,    \* list(): the entries copied so far, with their index
  stable     \* auxiliary: names registered all through a walk

shared == <<lock, table, alive>>
locals == <<pc, arg, at, todo, copy, result>>
vars   == <<shared, locals, stable>>

Procs   == {u[1] : u \in Uses} \cup Listers
Index   == 0 .. MaxChannels - 1
\* info: msg_type, sensor_id, producer_pid and created_ns, told apart by the
\* channel they describe.  beat: heartbeat_ns, by the channel it was for.
Entry   == [name : Names \cup {Nil, Partial}, info : Names \cup {Nil}, beat : Names \cup {Nil}]
Fields  == {"name", "info", "beat"}
Cleared == [name |-> Nil, info |-> Nil, beat |-> Nil]

Locked  == {"register", "unregister", "insert", "clear", "unlock"}
Finding == {"touch", "contains"}
Walking == Finding \cup {"list", "copy"}

TypeOK ==
  /\ lock \in {0, 1}
  /\ table \in [Index -> Entry]
  /\ alive \in [Procs -> BOOLEAN]
  /\ pc \in [Procs -> {"closed", "unmapped", "idle", "lock_reg", "lock_unreg", "beat"}
                       \cup Locked \cup Walking]
  /\ arg \in [Procs -> Names \cup {Nil}]
  /\ at \in [Procs -> 0 .. MaxChannels]
  /\ todo \in [Procs -> SUBSET Fields]
  /\ copy \in [Procs -> Entry]
  /\ result \in [Procs -> SUBSET (Index \X Entry)]
  /\ stable \in [Procs -> SUBSET Names]

\* A new segment is filled with zeros: no lock, no active entry.
Init ==
  /\ lock = 0
  /\ table = [i \in Index |-> Cleared]
  /\ alive = [p \in Procs |-> TRUE]
  /\ pc = [p \in Procs |-> "closed"]
  /\ arg = [p \in Procs |-> Nil]
  /\ at = [p \in Procs |-> 0]
  /\ todo = [p \in Procs |-> {}]
  /\ copy = [p \in Procs |-> Cleared]
  /\ result = [p \in Procs |-> {}]
  /\ stable = [p \in Procs |-> {}]

Active(i) == table[i].name # Nil
At(p, l) == alive[p] /\ pc[p] = l
Goto(p, l) == pc' = [pc EXCEPT ![p] = l]

\* The call returns, and its locals are gone.
Return(p) ==
  /\ Goto(p, "idle")
  /\ arg' = [arg EXCEPT ![p] = Nil]
  /\ at' = [at EXCEPT ![p] = 0]
  /\ result' = [result EXCEPT ![p] = {}]
  /\ stable' = [stable EXCEPT ![p] = {}]
  /\ UNCHANGED <<todo, copy>>

\* open_or_create(): whoever comes first, the contents are the same.
Open(p) ==
  /\ At(p, "closed")
  /\ Goto(p, "idle") \/ Goto(p, "unmapped")
  /\ UNCHANGED <<shared, arg, at, todo, copy, result, stable>>

\* Without the mapping every operation returns at once.
NoTable(p) == At(p, "unmapped") /\ UNCHANGED vars

\* Of a process that died only a lock, and the entry it left half stored,
\* remain.
Crash(p) ==
  /\ alive[p]
  /\ alive' = [alive EXCEPT ![p] = FALSE]
  /\ pc' = [pc EXCEPT ![p] = IF @ \in Locked THEN @ ELSE "closed"]
  /\ at' = [at EXCEPT ![p] = IF pc[p] \in {"insert", "clear"} THEN @ ELSE 0]
  /\ arg' = [arg EXCEPT ![p] = Nil]
  /\ todo' = [todo EXCEPT ![p] = {}]
  /\ copy' = [copy EXCEPT ![p] = Cleared]
  /\ result' = [result EXCEPT ![p] = {}]
  /\ stable' = [stable EXCEPT ![p] = {}]
  /\ UNCHANGED <<lock, table>>
-----------------------------------------------------------------------------
(* register_channel() and unregister_channel() *)

Call(p, n) ==
  /\ At(p, "idle")
  /\ Goto(p, "lock_reg") \/ Goto(p, "lock_unreg")
  /\ arg' = [arg EXCEPT ![p] = n]
  /\ UNCHANGED <<shared, at, todo, copy, result, stable>>

\* Mutant: the lock is counted up whether or not it is free.
Acquire_Adds(p) ==
  /\ At(p, "lock_reg") \/ At(p, "lock_unreg")
  /\ lock' = lock + 1
  /\ Goto(p, IF pc[p] = "lock_reg" THEN "register" ELSE "unregister")
  /\ UNCHANGED <<table, alive, arg, at, todo, copy, result, stable>>

\* SpinLockGuard: a compare-and-swap that fails is tried again.
Acquire(p) ==
  /\ At(p, "lock_reg") \/ At(p, "lock_unreg")
  /\ lock = 0
  /\ lock' = 1
  /\ Goto(p, IF pc[p] = "lock_reg" THEN "register" ELSE "unregister")
  /\ UNCHANGED <<table, alive, arg, at, todo, copy, result, stable>>

Matches(n) == {i \in Index : table[i].name = n}
Vacant == {i \in Index : ~Active(i)}

\* The name is there: only its heartbeat is renewed.
RegisterAgain(p) ==
  /\ At(p, "register")
  /\ Matches(arg[p]) # {}
  /\ table' = [table EXCEPT ![Min(Matches(arg[p]))].beat = arg[p]]
  /\ Goto(p, "unlock")
  /\ UNCHANGED <<lock, alive, arg, at, todo, copy, result, stable>>

\* Mutant: the entry keeps the heartbeat that was there.
Inserted_NoBeat == {"name", "info"}

\* The fields that the insertion assigns.
Inserted == {"name", "info", "beat"}

\* The first free entry is taken, and is then filled in.
RegisterNew(p) ==
  /\ At(p, "register")
  /\ Matches(arg[p]) = {} /\ Vacant # {}
  /\ at' = [at EXCEPT ![p] = Min(Vacant)]
  /\ todo' = [todo EXCEPT ![p] = Inserted]
  /\ Goto(p, "insert")
  /\ UNCHANGED <<shared, arg, copy, result, stable>>

\* The entry is about to be cleared.
Unregister(p) ==
  /\ At(p, "unregister")
  /\ Matches(arg[p]) # {}
  /\ at' = [at EXCEPT ![p] = Min(Matches(arg[p]))]
  /\ todo' = [todo EXCEPT ![p] = Fields]
  /\ stable' = [q \in Procs |-> stable[q] \ {arg[p]}]
  /\ Goto(p, "clear")
  /\ UNCHANGED <<shared, arg, copy, result>>

\* A full table, or no such entry: return.
NothingToDo(p) ==
  /\ \/ At(p, "register") /\ Vacant = {}
     \/ At(p, "unregister")
  /\ Matches(arg[p]) = {}
  /\ Goto(p, "unlock")
  /\ UNCHANGED <<shared, arg, at, todo, copy, result, stable>>

\* strncpy() has stored a part of the name.
StorePart(p) ==
  /\ At(p, "insert")
  /\ "name" \in todo[p]
  /\ table[at[p]].name = Nil
  /\ table' = [table EXCEPT ![at[p]].name = Partial]
  /\ UNCHANGED <<lock, alive, locals, stable>>

\* One field of the new entry, or of ChannelEntry{}.
StoreField(p, f) ==
  /\ At(p, "insert") \/ At(p, "clear")
  /\ f \in todo[p]
  /\ table' = [table EXCEPT ![at[p]][f] = IF pc[p] = "insert" THEN arg[p] ELSE Nil]
  /\ todo' = [todo EXCEPT ![p] = @ \ {f}]
  /\ Goto(p, IF todo[p] = {f} THEN "unlock" ELSE pc[p])
  /\ UNCHANGED <<lock, alive, arg, at, copy, result, stable>>

\* ~SpinLockGuard and return.
Unlock(p) ==
  /\ At(p, "unlock")
  /\ lock' = 0
  /\ Return(p)
  /\ UNCHANGED <<table, alive>>
-----------------------------------------------------------------------------
(* touch(), contains() and list(), which take no lock *)

\* No process, alive or dead, is or was storing fields of entry i.
Settled(i) == \A q \in Procs : ~(pc[q] \in {"insert", "clear"} /\ at[q] = i)
Registered == {n \in Names : \E i \in Index : table[i].name = n /\ Settled(i)}

Walk(p, l, n) ==
  /\ At(p, "idle")
  /\ Goto(p, l)
  /\ arg' = [arg EXCEPT ![p] = n]
  /\ at' = [at EXCEPT ![p] = 0]
  /\ stable' = [stable EXCEPT ![p] = Registered]
  /\ UNCHANGED <<shared, todo, copy, result>>

\* Another name: go on to the next entry.
FindNext(p) ==
  /\ At(p, "touch") \/ At(p, "contains")
  /\ at[p] < MaxChannels
  /\ table[at[p]].name # arg[p]
  /\ at' = [at EXCEPT ![p] = @ + 1]
  /\ UNCHANGED <<shared, pc, arg, todo, copy, result, stable>>

\* touch() has found the entry and goes on to store the heartbeat.
TouchHit(p) ==
  /\ At(p, "touch")
  /\ at[p] < MaxChannels
  /\ table[at[p]].name = arg[p]
  /\ Goto(p, "beat")
  /\ UNCHANGED <<shared, arg, at, todo, copy, result, stable>>

\* contains() returns true.
ContainsHit(p) ==
  /\ At(p, "contains")
  /\ at[p] < MaxChannels
  /\ table[at[p]].name = arg[p]
  /\ Return(p)
  /\ UNCHANGED shared

\* heartbeat_ns = now_ns(), whatever the entry holds by now.
Beat(p) ==
  /\ At(p, "beat")
  /\ table' = [table EXCEPT ![at[p]].beat = arg[p]]
  /\ Return(p)
  /\ UNCHANGED <<lock, alive>>

\* Mutant: the first inactive entry ends the table.
AfterInactive_Stops(i) == MaxChannels

AfterInactive(i) == i + 1

ListSkip(p) ==
  /\ At(p, "list")
  /\ at[p] < MaxChannels
  /\ ~Active(at[p])
  /\ at' = [at EXCEPT ![p] = AfterInactive(@)]
  /\ UNCHANGED <<shared, pc, arg, todo, copy, result, stable>>

\* active() was true; the entry is copied after that.
ListTake(p) ==
  /\ At(p, "list")
  /\ at[p] < MaxChannels
  /\ Active(at[p])
  /\ todo' = [todo EXCEPT ![p] = Fields \ {"beat"}]
  /\ Goto(p, "copy")
  /\ UNCHANGED <<shared, arg, at, copy, result, stable>>

\* One field of the copy (what becomes of the heartbeat is left out).
LoadField(p, f) ==
  /\ At(p, "copy")
  /\ f \in todo[p]
  /\ copy' = [copy EXCEPT ![p][f] = table[at[p]][f]]
  /\ todo' = [todo EXCEPT ![p] = @ \ {f}]
  /\ UNCHANGED <<shared, pc, arg, at, result, stable>>

\* result.push_back()
PushBack(p) ==
  /\ At(p, "copy")
  /\ todo[p] = {}
  /\ result' = [result EXCEPT ![p] = @ \cup {<<at[p], copy[p]>>}]
  /\ copy' = [copy EXCEPT ![p] = Cleared]
  /\ at' = [at EXCEPT ![p] = @ + 1]
  /\ Goto(p, "list")
  /\ UNCHANGED <<shared, arg, todo, stable>>

\* The end of the table; list() hands over its result.
WalkEnd(p) ==
  /\ At(p, "touch") \/ At(p, "contains") \/ At(p, "list")
  /\ at[p] = MaxChannels
  /\ Return(p)
  /\ UNCHANGED shared
-----------------------------------------------------------------------------
Step(p) ==
  \/ RegisterAgain(p) \/ RegisterNew(p) \/ Unregister(p) \/ NothingToDo(p) \/ Unlock(p)
  \/ \E f \in Fields : StoreField(p, f) \/ LoadField(p, f)
  \/ FindNext(p) \/ TouchHit(p) \/ ContainsHit(p) \/ Beat(p)
  \/ ListSkip(p) \/ ListTake(p) \/ PushBack(p) \/ WalkEnd(p)

Next ==
  \/ \E p \in Procs : Open(p) \/ NoTable(p) \/ Crash(p) \/ Acquire(p) \/ StorePart(p) \/ Step(p)
  \/ \E u \in Uses : Call(u[1], u[2]) \/ Walk(u[1], "touch", u[2])
  \/ \E p \in Listers : Walk(p, "list", Nil) \/ \E n \in Names : Walk(p, "contains", n)

Spec == Init /\ [][Next]_vars
-----------------------------------------------------------------------------
(* Properties *)

\* However many processes register the same name at once, and wherever they
\* die, no channel has two entries (channel_registry.hpp:99).
OneEntryPerName ==
  \A i, j \in Index :
    table[i].name = table[j].name /\ table[i].name \in Names => i = j

\* A channel that is registered before an unlocked walk begins, and is not
\* unregistered before it ends, is found by touch() and contains(), and is
\* listed by list() exactly once, with its own fields: changes to other
\* entries meanwhile do not disturb it.
StableIsFound ==
  \A p \in Procs : at[p] = MaxChannels =>
    /\ pc[p] \in Finding => arg[p] \notin stable[p]
    /\ pc[p] = "list" => \A n \in stable[p] :
         \E r \in result[p] : /\ r[2].info = n
                              /\ {s \in result[p] : s[2].name = n} = {r}

Shared(n) == \E u, v \in Uses : u[1] # v[1] /\ u[2] = n /\ v[2] = n

\* The heartbeat of a channel is that of its own publisher: touch(), which
\* stores without the lock into an entry that it found earlier, does not
\* renew another channel's - unless several processes use the touched name,
\* so that one can unregister it while another is inside touch().
BeatIsOwn ==
  \A i \in Index : table[i].name \in Names /\ Settled(i) =>
    table[i].beat = table[i].name \/ (table[i].beat \in Names /\ Shared(table[i].beat))

\* The lock is taken exactly while one process is between SpinLockGuard's
\* constructor and destructor, on every path out of the two functions; a
\* process that died there holds it for ever (channel_registry.hpp:221).
LockHeld == lock = Cardinality({p \in Procs : pc[p] \in Locked})

\* The registry's variables keep their types, and the lock is held by those
\* who are in the locked part, and by one at most.
TableInv == TypeOK /\ LockHeld
=============================================================================
