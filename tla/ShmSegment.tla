----------------------------- MODULE ShmSegment -----------------------------
(***************************************************************************)
(* The life of a channel's shared-memory segment: creation and destruction *)
(* by publishers, attachment by subscribers (shm_ring_buffer.hpp, and      *)
(* Subscriber::try_attach).  One channel name; one action per system call, *)
(* as these processes share nothing else.  A publisher that is started     *)
(* again is another publisher.  The kernel is modelled by what the code    *)
(* uses: a name is linked to at most one segment, an unlinked segment      *)
(* lives on under its mappings, a new one has size 0 and reads as zeroes   *)
(* once it has its size, and touching one without size is a bus error.     *)
(***************************************************************************)
EXTENDS Integers

CONSTANTS
  Publishers,   \* processes that construct a Publisher on the name, once
  Subscribers,  \* processes that construct Subscribers on it
  None,         \* no segment
  MaxPush       \* messages pushed into one segment

ASSUME SegmentAssumption == MaxPush \in Nat /\ None \notin Publishers

VARIABLES
  name,         \* the segment that the name is linked to, or None
  sized,        \* the segments that have their size
  write_pos,    \* of each segment's control block
  ppc, pseg,    \* where each publisher is, and its segment
  spc, sseg,    \* where each subscriber is, and its segment
  retry,        \* is it inside try_attach(), or in the constructor alone?
  cursor,       \* its cursor
  undisturbed,  \* auxiliary: publishers that no other one lived beside
  excused       \* auxiliary: subscribers in try_attach() that met no name,
                \* or a failed mmap(), or did not look
vars == <<name, sized, write_pos, ppc, pseg, spc, sseg, retry, cursor, undisturbed, excused>>

Segments == Publishers      \* a segment is named after the one that made it

TypeOK ==
  /\ name \in Segments \cup {None}
  /\ sized \subseteq Segments
  /\ write_pos \in [Segments -> 0 .. MaxPush]
  /\ ppc \in [Publishers -> {"new", "unlinked", "opened", "sized", "mapped", "up",
                             "unmapped", "gone", "threw", "dead"}]
  /\ pseg \in [Publishers -> Segments \cup {None}]
  /\ spc \in [Subscribers -> {"out", "test", "open", "map", "in", "bus_error"}]
  /\ sseg \in [Subscribers -> Segments \cup {None}]
  /\ retry \subseteq Subscribers
  /\ cursor \in [Subscribers -> 0 .. MaxPush]
  /\ undisturbed \subseteq Publishers
  /\ excused \subseteq Subscribers

Init ==
  /\ name = None
  /\ sized = {}
  /\ write_pos = [g \in Segments |-> 0]
  /\ ppc = [p \in Publishers |-> "new"]
  /\ pseg = [p \in Publishers |-> None]
  /\ spc = [s \in Subscribers |-> "out"]
  /\ sseg = [s \in Subscribers |-> None]
  /\ retry = {}
  /\ cursor = [s \in Subscribers |-> 0]
  /\ undisturbed = {}
  /\ excused = {}

svars == <<spc, sseg, retry, cursor>>
PGoto(p, label) == ppc' = [ppc EXCEPT ![p] = label]
SGoto(s, label) == spc' = [spc EXCEPT ![s] = label]

Alive(p) == ppc[p] \notin {"new", "gone", "threw", "dead"}

\* shm_unlink() by name, whatever segment that now is.
Unlink ==
  /\ name' = None
  /\ excused' = excused \cup retry
-----------------------------------------------------------------------------
(* Publishers *)

\* Mutant: a segment left by an earlier publisher is taken over.
UnlinkStale_Skipped(p) ==
  /\ ppc[p] = "new"
  /\ undisturbed' = IF \E q \in Publishers : Alive(q)
                    THEN {q \in undisturbed : ~Alive(q)} ELSE undisturbed \cup {p}
  /\ PGoto(p, "unlinked")
  /\ UNCHANGED <<name, excused, sized, write_pos, pseg, svars>>

\* open_shm(true) begins: remove any stale segment.
UnlinkStale(p) ==
  /\ ppc[p] = "new"
  /\ Unlink
  /\ undisturbed' = IF \E q \in Publishers : Alive(q)
                    THEN {q \in undisturbed : ~Alive(q)} ELSE undisturbed \cup {p}
  /\ PGoto(p, "unlinked")
  /\ UNCHANGED <<sized, write_pos, pseg, svars>>

\* O_CREAT without O_EXCL: a rival's new segment is opened, not replaced.
OpenCreate(p) ==
  /\ ppc[p] = "unlinked"
  /\ name' = IF name = None THEN p ELSE name
  /\ pseg' = [pseg EXCEPT ![p] = name']
  /\ PGoto(p, "opened")
  /\ UNCHANGED <<sized, write_pos, undisturbed, excused, svars>>

Truncate(p) ==
  /\ ppc[p] = "opened"
  /\ sized' = sized \cup {pseg[p]}
  /\ PGoto(p, "sized")
  /\ UNCHANGED <<name, write_pos, pseg, undisturbed, excused, svars>>

\* shm_open(), ftruncate() or mmap() fails: the constructor throws, so no
\* destructor runs, and the name stays if there was one by then.
CreateThrows(p) ==
  /\ ppc[p] \in {"unlinked", "opened", "sized"}
  /\ PGoto(p, "threw")
  /\ UNCHANGED <<name, sized, write_pos, pseg, undisturbed, excused, svars>>

MapCreated(p) ==
  /\ ppc[p] = "sized"
  /\ PGoto(p, "mapped")
  /\ UNCHANGED <<name, sized, write_pos, pseg, undisturbed, excused, svars>>

\* The control block and the slots are zeroed.
Initialise(p) ==
  /\ ppc[p] = "mapped"
  /\ write_pos' = [write_pos EXCEPT ![pseg[p]] = 0]
  /\ PGoto(p, "up")
  /\ UNCHANGED <<name, sized, pseg, undisturbed, excused, svars>>

Push(p) ==
  /\ ppc[p] = "up" /\ write_pos[pseg[p]] < MaxPush
  /\ write_pos' = [write_pos EXCEPT ![pseg[p]] = @ + 1]
  /\ UNCHANGED <<name, sized, ppc, pseg, undisturbed, excused, svars>>

\* ~ShmRingBuffer() of the owner: unmap and close, then unlink.
Unmap(p) ==
  /\ ppc[p] = "up"
  /\ PGoto(p, "unmapped")
  /\ UNCHANGED <<name, sized, write_pos, pseg, undisturbed, excused, svars>>

\* Mutant: the name is left to the next publisher.
UnlinkOwn_Skipped(p) ==
  /\ ppc[p] = "unmapped"
  /\ PGoto(p, "gone")
  /\ UNCHANGED <<name, excused, sized, write_pos, pseg, undisturbed, svars>>

UnlinkOwn(p) ==
  /\ ppc[p] = "unmapped"
  /\ Unlink
  /\ PGoto(p, "gone")
  /\ UNCHANGED <<sized, write_pos, pseg, undisturbed, svars>>

\* The process dies: its mapping goes, the name stays.
Die(p) ==
  /\ Alive(p)
  /\ PGoto(p, "dead")
  /\ UNCHANGED <<name, sized, write_pos, pseg, undisturbed, excused, svars>>
-----------------------------------------------------------------------------
(* Subscribers *)

\* The Subscriber's constructor, called directly.
Construct(s) ==
  /\ spc[s] = "out"
  /\ SGoto(s, "open")
  /\ UNCHANGED <<name, sized, write_pos, ppc, pseg, sseg, retry, cursor, undisturbed, excused>>

TryAttach(s) ==
  /\ spc[s] = "out"
  /\ SGoto(s, "test")
  /\ retry' = retry \cup {s}
  /\ excused' = excused \cup {s}
  /\ UNCHANGED <<name, sized, write_pos, ppc, pseg, sseg, cursor, undisturbed>>

\* Mutant: a segment without its size is not taken to exist.
Probe_NeedsSize(s) ==
  /\ spc[s] = "test"
  /\ SGoto(s, IF name \in sized THEN "open" ELSE "test")
  /\ excused' = IF name = None THEN excused \cup {s} ELSE excused \ {s}
  /\ UNCHANGED <<name, sized, write_pos, ppc, pseg, sseg, retry, cursor, undisturbed>>

\* Before the deadline: shm_exists().  A look that finds the name ends the
\* excuse of not having looked.
Probe(s) ==
  /\ spc[s] = "test"
  /\ SGoto(s, IF name # None THEN "open" ELSE "test")
  /\ excused' = IF name = None THEN excused \cup {s} ELSE excused \ {s}
  /\ UNCHANGED <<name, sized, write_pos, ppc, pseg, sseg, retry, cursor, undisturbed>>

\* The deadline has passed: nullptr.
TimeOut(s) ==
  /\ spc[s] = "test"
  /\ SGoto(s, "out")
  /\ retry' = retry \ {s}
  /\ UNCHANGED <<name, sized, write_pos, ppc, pseg, sseg, cursor, undisturbed, excused>>

\* open_shm(false) throws: the name is gone, or mmap() fails.  try_attach()
\* catches it and goes on; the constructor alone passes it to the caller.
Throw(s) ==
  /\ SGoto(s, IF s \in retry THEN "test" ELSE "out")
  /\ excused' = excused \cup {s}
  /\ sseg' = [sseg EXCEPT ![s] = None]

OpenAttach(s) ==
  /\ spc[s] = "open"
  /\ \/ name = None /\ Throw(s)
     \/ name # None /\ SGoto(s, "map") /\ sseg' = [sseg EXCEPT ![s] = name] /\ UNCHANGED excused
  /\ UNCHANGED <<name, sized, write_pos, ppc, pseg, retry, cursor, undisturbed>>

\* mmap() takes a segment of any size.
MapAttached(s) ==
  /\ spc[s] = "map"
  /\ \/ Throw(s) /\ UNCHANGED retry
     \/ SGoto(s, "in") /\ retry' = retry \ {s} /\ UNCHANGED <<sseg, excused>>
  /\ UNCHANGED <<name, sized, write_pos, ppc, pseg, cursor, undisturbed>>

\* make_cursor(), or a pop() that succeeds, maybe after a fast-forward.
Read(s) ==
  /\ spc[s] = "in" /\ sseg[s] \in sized
  /\ cursor' = [cursor EXCEPT ![s] = write_pos[sseg[s]]]
  /\ UNCHANGED <<name, sized, write_pos, ppc, pseg, spc, sseg, retry, undisturbed, excused>>

ReadUnsized(s) ==
  /\ spc[s] = "in" /\ sseg[s] \notin sized
  /\ SGoto(s, "bus_error")
  /\ UNCHANGED <<name, sized, write_pos, ppc, pseg, sseg, retry, cursor, undisturbed, excused>>

\* Mutant: the destructor does not look at is_owner_.
Detach_Unlinks(s) ==
  /\ spc[s] = "in"
  /\ Unlink
  /\ SGoto(s, "out")
  /\ sseg' = [sseg EXCEPT ![s] = None]
  /\ cursor' = [cursor EXCEPT ![s] = 0]
  /\ UNCHANGED <<sized, write_pos, ppc, pseg, retry, undisturbed>>

\* ~ShmRingBuffer() of a subscriber, which does not unlink.
Detach(s) ==
  /\ spc[s] = "in"
  /\ SGoto(s, "out")
  /\ sseg' = [sseg EXCEPT ![s] = None]
  /\ cursor' = [cursor EXCEPT ![s] = 0]
  /\ UNCHANGED <<name, sized, write_pos, ppc, pseg, retry, undisturbed, excused>>
-----------------------------------------------------------------------------
Next ==
  \/ \E p \in Publishers :
       \/ UnlinkStale(p) \/ OpenCreate(p) \/ Truncate(p) \/ CreateThrows(p) \/ MapCreated(p)
       \/ Initialise(p) \/ Push(p) \/ Unmap(p) \/ UnlinkOwn(p) \/ Die(p)
  \/ \E s \in Subscribers :
       \/ Construct(s) \/ TryAttach(s) \/ Probe(s) \/ TimeOut(s) \/ OpenAttach(s)
       \/ MapAttached(s) \/ Read(s) \/ ReadUnsized(s) \/ Detach(s)

Spec == Init /\ [][Next]_vars
-----------------------------------------------------------------------------
(* Properties *)

\* A publisher that no other one lived beside can be found under the name for
\* as long as it is up, whatever earlier publishers left behind and whatever
\* subscribers do.
PublisherReachable == \A p \in undisturbed : ppc[p] = "up" => name = pseg[p]

\* A cursor is never ahead of the ring, also when the subscriber attached
\* while the segment was being made or kept it over a restart of the
\* publisher: it would receive nothing until the ring caught up.  Segments
\* that two rival publishers opened are excepted.
CursorNotAhead ==
  \A s \in Subscribers :
    /\ spc[s] = "in"
    /\ \A p, q \in Publishers :
         pseg[p] = sseg[s] /\ pseg[q] = sseg[s] => p = q \/ {p, q} \subseteq undisturbed
    => cursor[s] <= write_pos[sseg[s]]

\* When every publisher has been destroyed, none having died or failed to
\* construct, the name is gone.
NothingLeftBehind ==
  (\A p \in Publishers : ppc[p] \in {"new", "gone"}) => name = None

\* try_attach() returns nullptr only if it met no name while it ran, or a
\* failed mmap(), or had no time to look: a channel that is there all along
\* is not missed (subscriber.hpp:73, "Returns nullptr on timeout").
MissedOnlyIfAbsent == [][\A s \in Subscribers : TimeOut(s) => s \in excused]_vars

\* The variables keep their types, and an orderly end leaves no name behind.
SegmentInv == TypeOK /\ NothingLeftBehind
=============================================================================
