------------------------- MODULE ShmSegmentProofs --------------------------
(***************************************************************************)
(* Proofs about ShmSegment, for any number of publishers, subscribers and  *)
(* messages, with any crash, failed system call or restart.                *)
(***************************************************************************)
EXTENDS ShmSegment, TLAPS

\* A publisher has a segment once it has opened one, and a subscriber while
\* it maps or uses one.
Opened == {"opened", "sized", "mapped", "up", "unmapped"}

HasSegment ==
  /\ \A p \in Publishers : ppc[p] \in {"new", "unlinked"} => pseg[p] = None
  /\ \A p \in Publishers : ppc[p] \in Opened => pseg[p] # None
  /\ \A s \in Subscribers : spc[s] \in {"map", "in"} => sseg[s] # None

\* A segment that the name or a publisher refers to was made by the publisher
\* it is named after, and one that nobody has opened was never written.
MadeByItsMaker ==
  /\ name # None => pseg[name] = name
  /\ \A p \in Publishers : pseg[p] # None => pseg[pseg[p]] = pseg[p]
  /\ \A g \in Segments : pseg[g] # g => write_pos[g] = 0

\* A publisher that no other one lived beside is alone while it lives, found
\* no segment when it opened its own, and the name has been its since.
Alone ==
  \A p \in undisturbed :
    /\ ppc[p] # "new"
    /\ pseg[p] \in {p, None}
    /\ Alive(p) => \A q \in Publishers : Alive(q) => q = p
    /\ ppc[p] = "unlinked" => name = None
    /\ ppc[p] \in Opened => name = p

\* At most one publisher has opened the segment.
Sole(g) == \A p, q \in Publishers : pseg[p] = g /\ pseg[q] = g => p = q

\* Its write position is still 0 when that publisher zeroes it.
FreshUntilUp ==
  \A p \in Publishers :
    ppc[p] \in {"opened", "sized", "mapped"} /\ Sole(pseg[p]) => write_pos[pseg[p]] = 0

CursorsBehind ==
  \A s \in Subscribers :
    /\ spc[s] \in {"out", "test", "open", "map"} => cursor[s] = 0
    /\ spc[s] = "in" /\ Sole(sseg[s]) => cursor[s] <= write_pos[sseg[s]]

\* Whoever may time out has an excuse.
TestingExcused == \A s \in Subscribers : spc[s] = "test" => s \in excused

Typed == TypeOK /\ HasSegment

IInv ==
  /\ Typed /\ NothingLeftBehind /\ MadeByItsMaker /\ Alone
  /\ FreshUntilUp /\ CursorsBehind /\ TestingExcused

-----------------------------------------------------------------------------
(* The steps, by who takes them *)

PublisherStep(p) ==
  \/ UnlinkStale(p) \/ OpenCreate(p) \/ Truncate(p) \/ CreateThrows(p) \/ MapCreated(p)
  \/ Initialise(p) \/ Push(p) \/ Unmap(p) \/ UnlinkOwn(p) \/ Die(p)

SubscriberStep(s) ==
  \/ Construct(s) \/ TryAttach(s) \/ Probe(s) \/ TimeOut(s) \/ OpenAttach(s)
  \/ MapAttached(s) \/ Read(s) \/ ReadUnsized(s) \/ Detach(s)

LEMMA Steps ==
  Next <=> (\E p \in Publishers : PublisherStep(p)) \/ \E s \in Subscribers : SubscriberStep(s)
BY DEF Next, PublisherStep, SubscriberStep

LEMMA PublisherTyped == ASSUME Typed, NEW p \in Publishers, PublisherStep(p) PROVE Typed'
<1> USE SegmentAssumption DEF Typed, TypeOK, HasSegment, Segments, Opened, PGoto, svars
<1>1. CASE UnlinkStale(p)
  BY <1>1 DEF UnlinkStale, Unlink
<1>2. CASE OpenCreate(p)
  <2>1. name' \in Publishers
    BY <1>2 DEF OpenCreate
  <2> QED
    BY <1>2, <2>1 DEF OpenCreate
<1>3. CASE Truncate(p)
  BY <1>3 DEF Truncate
<1>4. CASE CreateThrows(p)
  BY <1>4 DEF CreateThrows
<1>5. CASE MapCreated(p)
  BY <1>5 DEF MapCreated
<1>6. CASE Initialise(p)
  BY <1>6 DEF Initialise
<1>7. CASE Push(p)
  <2>1. pseg[p] \in Publishers /\ write_pos[pseg[p]] + 1 \in 0 .. MaxPush
    BY <1>7 DEF Push
  <2> QED
    BY <1>7, <2>1 DEF Push
<1>8. CASE Unmap(p)
  BY <1>8 DEF Unmap
<1>9. CASE UnlinkOwn(p)
  BY <1>9 DEF UnlinkOwn, Unlink
<1>10. CASE Die(p)
  BY <1>10 DEF Die
<1> QED
  BY <1>1, <1>2, <1>3, <1>4, <1>5, <1>6, <1>7, <1>8, <1>9, <1>10 DEF PublisherStep

LEMMA SubscriberTyped == ASSUME Typed, NEW s \in Subscribers, SubscriberStep(s) PROVE Typed'
<1> USE SegmentAssumption DEF Typed, TypeOK, HasSegment, Segments, SGoto
<1>1. CASE Construct(s)
  BY <1>1 DEF Construct
<1>2. CASE TryAttach(s)
  BY <1>2 DEF TryAttach
<1>3. CASE Probe(s)
  BY <1>3 DEF Probe
<1>4. CASE TimeOut(s)
  BY <1>4 DEF TimeOut
<1>5. CASE OpenAttach(s)
  BY <1>5 DEF OpenAttach, Throw
<1>6. CASE MapAttached(s)
  BY <1>6 DEF MapAttached, Throw
<1>7. CASE Read(s)
  BY <1>7 DEF Read
<1>8. CASE ReadUnsized(s)
  BY <1>8 DEF ReadUnsized
<1>9. CASE Detach(s)
  BY <1>9 DEF Detach
<1> QED
  BY <1>1, <1>2, <1>3, <1>4, <1>5, <1>6, <1>7, <1>8, <1>9 DEF SubscriberStep
-----------------------------------------------------------------------------
(* Publishers *)

\* What a publisher's step leaves of the others.
LEMMA PublisherFrame ==
  ASSUME Typed, NEW p \in Publishers, PublisherStep(p)
  PROVE  /\ \A q \in Publishers \ {p} : ppc'[q] = ppc[q] /\ pseg'[q] = pseg[q]
         /\ ppc[p] = "unlinked" \/ pseg'[p] = pseg[p]
         /\ spc' = spc /\ sseg' = sseg /\ cursor' = cursor /\ excused \subseteq excused'
BY DEF Typed, TypeOK, PublisherStep, UnlinkStale, OpenCreate, Truncate, CreateThrows, MapCreated,
       Initialise, Push, Unmap, UnlinkOwn, Die, Unlink, PGoto, svars

LEMMA LeavesNothing ==
  ASSUME Typed, NothingLeftBehind, NEW p \in Publishers, PublisherStep(p)
  PROVE  NothingLeftBehind'
<1>1. CASE name' = None
  BY <1>1 DEF NothingLeftBehind
<1>2. CASE name' # None
  <2>1. ppc'[p] \notin {"new", "gone"}
    BY <1>2 DEF Typed, TypeOK, PublisherStep, UnlinkStale, OpenCreate, Truncate, CreateThrows,
          MapCreated, Initialise, Push, Unmap, UnlinkOwn, Die, Alive, Unlink, PGoto
  <2> QED
    BY <2>1 DEF NothingLeftBehind
<1> QED
  BY <1>1, <1>2

\* O_CREAT: the segment is new, or one that its maker has open.
LEMMA OpenedSegment ==
  ASSUME Typed, MadeByItsMaker, NEW p \in Publishers, OpenCreate(p)
  PROVE  /\ pseg[p] = None /\ pseg'[p] = name' /\ name' \in Publishers
         /\ name = None => name' = p
         /\ name # None => name' = name /\ name # p /\ pseg[name] = name
         /\ \A q \in Publishers : pseg[q] # p
BY SegmentAssumption DEF Typed, TypeOK, HasSegment, MadeByItsMaker, OpenCreate, PGoto, Segments

LEMMA PublisherMade ==
  ASSUME Typed, MadeByItsMaker, NEW p \in Publishers, PublisherStep(p)
  PROVE  MadeByItsMaker'
<1>1. CASE OpenCreate(p)
  <2>1. write_pos' = write_pos /\ pseg' = [pseg EXCEPT ![p] = name']
    BY <1>1 DEF OpenCreate
  <2>2. \A q \in Publishers \ {p} : pseg'[q] = pseg[q]
    BY <2>1 DEF Typed, TypeOK
  <2>3. pseg'[name'] = name'
    BY <1>1, <2>2, OpenedSegment
  <2> QED
    BY <1>1, <2>1, <2>2, <2>3, OpenedSegment DEF MadeByItsMaker, Typed, TypeOK, Segments
<1>2. CASE Initialise(p) \/ Push(p)
  <2>1. /\ name' = name /\ pseg' = pseg /\ pseg[p] \in Segments
        /\ \A g \in Segments \ {pseg[p]} : write_pos'[g] = write_pos[g]
    BY <1>2 DEF Initialise, Push, Typed, TypeOK, HasSegment, Opened
  <2> QED
    BY <2>1, SegmentAssumption DEF MadeByItsMaker, Segments
<1>3. CASE name' \in {name, None} /\ pseg' = pseg /\ write_pos' = write_pos
  BY <1>3 DEF MadeByItsMaker
<1> QED
  BY <1>1, <1>2, <1>3 DEF PublisherStep, UnlinkStale, Truncate, CreateThrows, MapCreated, Unmap,
                          UnlinkOwn, Die, Unlink

\* open_shm(true) begins, alone or beside others.
LEMMA StartAlone ==
  ASSUME Typed, Alone, NEW p \in Publishers, UnlinkStale(p)
  PROVE  Alone'
<1>1. /\ name' = None /\ pseg' = pseg /\ pseg[p] = None /\ ppc'[p] = "unlinked"
      /\ p \notin undisturbed /\ ~Alive(p)
      /\ \A q \in Publishers \ {p} : ppc'[q] = ppc[q]
  BY DEF Typed, TypeOK, HasSegment, Alone, UnlinkStale, Unlink, PGoto, Alive
<1>2. \A q \in Publishers \ {p} : Alive(q)' <=> Alive(q)
  BY <1>1 DEF Alive
<1>3. CASE \E q \in Publishers : Alive(q)
  <2>1. undisturbed' = {q \in undisturbed : ~Alive(q)}
    BY <1>3 DEF UnlinkStale
  <2>2. SUFFICES ASSUME NEW q \in undisturbed, ~Alive(q), q # p, q \in Publishers
                 PROVE  /\ ppc'[q] # "new" /\ pseg'[q] \in {q, None}
                        /\ ~Alive(q)' /\ ppc'[q] \notin {"unlinked"} \cup Opened
    BY <1>1, <2>1 DEF Alone, Typed, TypeOK
  <2> QED
    BY <1>1, <1>2, <2>2 DEF Alone, Alive, Opened
<1>4. CASE ~\E q \in Publishers : Alive(q)
  <2>1. undisturbed' = undisturbed \cup {p} /\ \A q \in Publishers \ {p} : ~Alive(q)'
    BY <1>2, <1>4 DEF UnlinkStale
  <2>2. /\ ppc'[p] # "new" /\ pseg'[p] \in {p, None}
        /\ ppc'[p] = "unlinked" => name' = None
        /\ ppc'[p] \notin Opened
    BY <1>1 DEF Opened
  <2>3. \A q \in undisturbed :
           /\ q \in Publishers \ {p} /\ ppc'[q] # "new" /\ pseg'[q] \in {q, None}
           /\ ppc'[q] \notin {"unlinked"} \cup Opened
    BY <1>1, <1>4 DEF Alone, Alive, Opened, Typed, TypeOK
  <2> QED
    BY <2>1, <2>2, <2>3 DEF Alone
<1> QED
  BY <1>3, <1>4

\* The other steps of p: they do not bring p to life, so a publisher that is
\* alone stays alone, and is p if it lives.
LEMMA PublisherAlone ==
  ASSUME Typed, Alone, MadeByItsMaker, NEW p \in Publishers, PublisherStep(p)
  PROVE  Alone'
<1>1. CASE UnlinkStale(p)
  BY <1>1, StartAlone
<1>2. CASE ~UnlinkStale(p)
  <2>1. /\ undisturbed' = undisturbed /\ Alive(p) /\ ppc'[p] # "new"
        /\ ppc'[p] = "unlinked" => ppc[p] = "unlinked" /\ name' = name
        /\ name' = name \/ ppc'[p] = "gone" \/ OpenCreate(p)
        /\ ppc'[p] \in Opened => (ppc[p] \in Opened /\ pseg'[p] = pseg[p]) \/ OpenCreate(p)
        /\ pseg'[p] = pseg[p] \/ OpenCreate(p)
    BY <1>2 DEF Typed, TypeOK, PublisherStep, OpenCreate, Truncate, CreateThrows,
          MapCreated, Initialise, Push, Unmap, UnlinkOwn, Die, Alive, Unlink, PGoto, Opened
  <2>2. ASSUME NEW q \in undisturbed, q # p
        PROVE  /\ ppc'[q] # "new" /\ pseg'[q] \in {q, None}
               /\ ~Alive(q)' /\ ppc'[q] \notin {"unlinked"} \cup Opened
    <3>1. q \in Publishers /\ ppc'[q] = ppc[q] /\ pseg'[q] = pseg[q]
      BY <2>2, PublisherFrame DEF Typed, TypeOK
    <3>2. ~Alive(q) /\ ppc[q] # "new" /\ pseg[q] \in {q, None}
      BY <2>1, <2>2, <3>1 DEF Alone
    <3> QED
      BY <3>1, <3>2 DEF Alive, Opened
  <2>3. ASSUME p \in undisturbed
        PROVE  /\ ppc'[p] # "new" /\ pseg'[p] \in {p, None}
               /\ \A q \in Publishers \ {p} : ~Alive(q)'
               /\ ppc'[p] = "unlinked" => name' = None
               /\ ppc'[p] \in Opened => name' = p
    <3>1. \A q \in Publishers \ {p} : ~Alive(q)'
      BY <2>1, <2>3, PublisherFrame DEF Alone, Alive
    <3>2. CASE OpenCreate(p)
      <4>1. name = None
        BY <2>3, <3>2 DEF Alone, OpenCreate
      <4> QED
        BY <2>1, <3>1, <3>2, <4>1, OpenedSegment, SegmentAssumption
    <3>3. CASE ~OpenCreate(p)
      BY <2>1, <2>3, <3>1, <3>3 DEF Alone, Opened
    <3> QED
      BY <3>2, <3>3
  <2> QED
    BY <2>1, <2>2, <2>3 DEF Alone
<1> QED
  BY <1>1, <1>2

\* Being the only one to have opened a segment does not come back.
LEMMA SoleBefore ==
  ASSUME Typed, NEW p \in Publishers, PublisherStep(p), NEW g \in Segments, Sole(g)'
  PROVE  Sole(g)
BY PublisherFrame, SegmentAssumption DEF Sole, Typed, TypeOK, HasSegment, Segments

\* Only the publisher that zeroes it makes a write position smaller, and
\* then it was 0, unless a rival has the segment too.
LEMMA WritePosGrows ==
  ASSUME Typed, MadeByItsMaker, FreshUntilUp, NEW p \in Publishers, PublisherStep(p),
         NEW g \in Segments, Sole(g)
  PROVE  write_pos[g] <= write_pos'[g]
<1>1. write_pos[g] \in Int
  BY DEF Typed, TypeOK
<1>2. CASE Initialise(p)
  <2>1. pseg[p] = g => write_pos[g] = 0
    BY <1>2 DEF FreshUntilUp, Initialise
  <2> QED
    BY <1>1, <1>2, <2>1 DEF Initialise, Typed, TypeOK
<1>3. CASE Push(p)
  BY <1>1, <1>3 DEF Push, Typed, TypeOK
<1>4. CASE write_pos' = write_pos
  BY <1>1, <1>4
<1> QED
  BY <1>2, <1>3, <1>4 DEF PublisherStep, UnlinkStale, OpenCreate, Truncate, CreateThrows,
                          MapCreated, Unmap, UnlinkOwn, Die

LEMMA PublisherFresh ==
  ASSUME Typed, MadeByItsMaker, FreshUntilUp, NEW p \in Publishers, PublisherStep(p)
  PROVE  FreshUntilUp'
<1>1. SUFFICES ASSUME NEW q \in Publishers, ppc'[q] \in {"opened", "sized", "mapped"},
                      Sole(pseg[q])'
               PROVE  write_pos'[pseg'[q]] = 0
  BY DEF FreshUntilUp
<1>2. CASE q = p
  <2>1. CASE OpenCreate(p)
    <3>1. name = None
      <4>1. SUFFICES ASSUME name # None PROVE FALSE
        OBVIOUS
      <4>2. name \in Publishers \ {p} /\ pseg[name] = name /\ pseg'[p] = name
        BY <2>1, <4>1, OpenedSegment DEF Typed, TypeOK, Segments
      <4>3. pseg'[name] = name
        BY <4>2, PublisherFrame
      <4> QED
        BY <1>1, <1>2, <4>2, <4>3 DEF Sole
    <3>2. pseg'[p] = p /\ pseg[p] # p
      BY <2>1, <3>1, OpenedSegment
    <3>3. write_pos[p] = 0 /\ write_pos' = write_pos
      BY <2>1, <3>2 DEF MadeByItsMaker, OpenCreate, Segments
    <3> QED
      BY <1>2, <3>2, <3>3
  <2>2. CASE ~OpenCreate(p)
    <3>1. /\ ppc[p] \in {"opened", "sized", "mapped"} /\ pseg'[p] = pseg[p]
          /\ write_pos' = write_pos /\ pseg[p] \in Segments
      BY <1>1, <1>2, <2>2 DEF Typed, TypeOK, HasSegment, Opened, PublisherStep, UnlinkStale,
            Truncate, CreateThrows, MapCreated, Initialise, Push, Unmap, UnlinkOwn, Die, PGoto
    <3>2. Sole(pseg[p])
      <4>1. PICK g \in Segments : g = pseg[p]
        BY <3>1
      <4>2. Sole(g)'
        BY <1>1, <1>2, <3>1, <4>1 DEF Sole
      <4> QED
        BY <4>1, <4>2, SoleBefore
    <3> QED
      BY <1>2, <3>1, <3>2 DEF FreshUntilUp
  <2> QED
    BY <2>1, <2>2
<1>3. CASE q # p
  <2>1. ppc'[q] = ppc[q] /\ pseg'[q] = pseg[q] /\ pseg[q] \in Segments
    BY <1>1, <1>3, PublisherFrame DEF Typed, TypeOK, HasSegment, Opened
  <2>2. PICK g \in Segments : g = pseg[q]
    BY <2>1
  <2>3. Sole(g)' /\ Sole(g)
    <3>1. Sole(g)'
      BY <1>1, <2>1, <2>2 DEF Sole
    <3> QED
      BY <3>1, SoleBefore
  <2>4. write_pos[g] = 0 /\ pseg[p] # g
    BY <1>1, <1>3, <2>1, <2>2, <2>3 DEF FreshUntilUp, Sole
  <2>5. write_pos'[g] = 0
    BY <2>4 DEF Typed, TypeOK, PublisherStep, UnlinkStale, OpenCreate, Truncate, CreateThrows,
          MapCreated, Initialise, Push, Unmap, UnlinkOwn, Die
  <2> QED
    BY <2>1, <2>2, <2>5
<1> QED
  BY <1>2, <1>3

LEMMA PublisherBehind ==
  ASSUME Typed, MadeByItsMaker, FreshUntilUp, CursorsBehind, NEW p \in Publishers, PublisherStep(p)
  PROVE  CursorsBehind'
<1>1. spc' = spc /\ sseg' = sseg /\ cursor' = cursor
  BY PublisherFrame
<1>2. ASSUME NEW s \in Subscribers, spc[s] = "in", Sole(sseg[s])'
      PROVE  cursor[s] <= write_pos'[sseg[s]]
  <2>1. PICK g \in Segments : g = sseg[s]
    BY <1>2 DEF Typed, TypeOK, HasSegment
  <2>2. Sole(g)'
    BY <1>1, <1>2, <2>1 DEF Sole
  <2>3. Sole(g) /\ write_pos[g] <= write_pos'[g]
    BY <2>2, SoleBefore, WritePosGrows
  <2>4. cursor[s] <= write_pos[g]
    BY <1>2, <2>1, <2>3 DEF CursorsBehind
  <2>5. cursor[s] \in Int /\ write_pos[g] \in Int /\ write_pos'[g] \in Int
    BY PublisherTyped DEF Typed, TypeOK
  <2> QED
    BY <2>1, <2>3, <2>4, <2>5
<1> QED
  BY <1>1, <1>2 DEF CursorsBehind
-----------------------------------------------------------------------------
(* Subscribers *)

\* What a subscriber's step leaves of the segment, the publishers and the
\* other subscribers.
LEMMA SubscriberFrame ==
  ASSUME Typed, NEW s \in Subscribers, SubscriberStep(s)
  PROVE  /\ UNCHANGED <<name, write_pos, ppc, pseg, undisturbed>>
         /\ \A t \in Subscribers \ {s} :
              /\ spc'[t] = spc[t] /\ sseg'[t] = sseg[t] /\ cursor'[t] = cursor[t]
              /\ t \in excused => t \in excused'
BY DEF Typed, TypeOK, SubscriberStep, Construct, TryAttach, Probe, TimeOut, OpenAttach, MapAttached,
       Read, ReadUnsized, Detach, Throw, SGoto

\* A cursor is 0 until the subscriber is in, and then what Read() saw.
LEMMA OwnCursor ==
  ASSUME Typed, CursorsBehind, NEW s \in Subscribers, SubscriberStep(s)
  PROVE  /\ spc'[s] \in {"out", "test", "open", "map"} => cursor'[s] = 0
         /\ spc'[s] = "in" => \/ cursor'[s] = 0
                              \/ cursor'[s] = write_pos[sseg'[s]]
                              \/ spc[s] = "in" /\ cursor'[s] = cursor[s] /\ sseg'[s] = sseg[s]
BY DEF Typed, TypeOK, CursorsBehind, SubscriberStep, Construct, TryAttach, Probe, TimeOut, OpenAttach,
       MapAttached, Read, ReadUnsized, Detach, Throw, SGoto

LEMMA SubscriberBehind ==
  ASSUME Typed, CursorsBehind, NEW s \in Subscribers, SubscriberStep(s)
  PROVE  CursorsBehind'
<1>1. write_pos' = write_pos /\ \A g : Sole(g)' <=> Sole(g)
  BY SubscriberFrame DEF Sole
<1>2. ASSUME NEW t \in Subscribers
      PROVE  /\ spc'[t] \in {"out", "test", "open", "map"} => cursor'[t] = 0
             /\ spc'[t] = "in" /\ Sole(sseg'[t]) => cursor'[t] <= write_pos[sseg'[t]]
  <2>1. CASE t # s
    BY <2>1, SubscriberFrame DEF CursorsBehind
  <2>2. CASE t = s
    <3>1. spc'[s] = "in" => write_pos[sseg'[s]] \in 0 .. MaxPush
      BY <1>1, SubscriberTyped DEF Typed, TypeOK, HasSegment
    <3>2. \A n \in 0 .. MaxPush : 0 <= n /\ n <= n
      BY SegmentAssumption
    <3>3. ASSUME spc'[s] = "in", Sole(sseg'[s])
          PROVE  cursor'[s] <= write_pos[sseg'[s]]
      <4>1. CASE spc[s] = "in" /\ cursor'[s] = cursor[s] /\ sseg'[s] = sseg[s]
        BY <3>3, <4>1 DEF CursorsBehind
      <4>2. CASE cursor'[s] = 0 \/ cursor'[s] = write_pos[sseg'[s]]
        BY <3>1, <3>2, <3>3, <4>2
      <4> QED
        BY <3>3, <4>1, <4>2, OwnCursor
    <3> QED
      BY <2>2, <3>3, OwnCursor
  <2> QED
    BY <2>1, <2>2
<1>3. \A t \in Subscribers : Sole(sseg[t])' <=> Sole(sseg'[t])
  BY SubscriberFrame DEF Sole
<1> QED
  BY <1>1, <1>2, <1>3 DEF CursorsBehind

LEMMA SubscriberExcused ==
  ASSUME Typed, TestingExcused, NEW s \in Subscribers, SubscriberStep(s)
  PROVE  TestingExcused'
<1>1. spc'[s] = "test" => s \in excused'
  BY DEF Typed, TypeOK, TestingExcused, SubscriberStep, Construct, TryAttach, Probe, TimeOut,
         OpenAttach, MapAttached, Read, ReadUnsized, Detach, Throw, SGoto
<1> QED
  BY <1>1, SubscriberFrame DEF TestingExcused
-----------------------------------------------------------------------------
(* The invariant *)

LEMMA InvInit == ASSUME Init PROVE IInv
BY SegmentAssumption DEF Init, IInv, Typed, TypeOK, HasSegment, NothingLeftBehind, MadeByItsMaker,
   Alone, FreshUntilUp, CursorsBehind, TestingExcused, Segments, Opened

LEMMA InvNext == ASSUME IInv, [Next]_vars PROVE IInv'
<1> USE DEF IInv
<1>1. ASSUME NEW p \in Publishers, PublisherStep(p)
      PROVE  IInv'
  <2>1. TestingExcused'
    BY <1>1, PublisherFrame DEF TestingExcused
  <2> QED
    BY <1>1, <2>1, PublisherTyped, LeavesNothing, PublisherMade, PublisherAlone, PublisherFresh,
       PublisherBehind
<1>2. ASSUME NEW s \in Subscribers, SubscriberStep(s)
      PROVE  IInv'
  <2>1. NothingLeftBehind' /\ MadeByItsMaker' /\ Alone' /\ FreshUntilUp'
    BY <1>2, SubscriberFrame
       DEF NothingLeftBehind, MadeByItsMaker, Alone, Alive, FreshUntilUp, Sole
  <2> QED
    BY <1>2, <2>1, SubscriberTyped, SubscriberBehind, SubscriberExcused
<1>3. CASE UNCHANGED vars
  BY <1>3 DEF vars, Typed, TypeOK, HasSegment, NothingLeftBehind, MadeByItsMaker,
     Alone, Alive, FreshUntilUp, Sole, CursorsBehind, TestingExcused
<1> QED
  BY <1>1, <1>2, <1>3, Steps

LEMMA Invariance == Spec => []IInv
BY InvInit, InvNext, PTL DEF Spec

\* Whatever earlier publishers left, and whatever subscribers do, a publisher
\* that no other one lived beside is found under the channel's name while it
\* is up: its shm_unlink() and O_CREAT gave it a segment of its own.
THEOREM PublisherIsReachable == Spec => []PublisherReachable
<1>1. IInv => PublisherReachable
  <2>1. SUFFICES ASSUME IInv, NEW p \in undisturbed, ppc[p] = "up"
                 PROVE  name = pseg[p]
    BY DEF PublisherReachable
  <2>2. p \in Publishers
    BY <2>1 DEF IInv, Typed, TypeOK
  <2>3. name = p /\ pseg[p] \in {p, None} /\ pseg[p] # None
    BY <2>1, <2>2 DEF IInv, Alone, Typed, HasSegment, Opened
  <2> QED
    BY <2>3
<1> QED
  BY <1>1, Invariance, PTL

\* A subscriber's cursor is never ahead of the ring it is mapped to, also if
\* it attached before the control block was zeroed, unless two publishers
\* opened that segment.
THEOREM CursorIsNotAhead == Spec => []CursorNotAhead
<1>1. IInv => CursorNotAhead
  <2>1. SUFFICES ASSUME IInv, NEW s \in Subscribers, spc[s] = "in",
                        \A p, q \in Publishers :
                          pseg[p] = sseg[s] /\ pseg[q] = sseg[s] => p = q \/ {p, q} \subseteq undisturbed
                 PROVE  cursor[s] <= write_pos[sseg[s]]
    BY DEF CursorNotAhead
  <2>2. sseg[s] # None
    BY <2>1 DEF IInv, Typed, HasSegment
  <2>3. Sole(sseg[s])
    BY <2>1, <2>2 DEF Sole, IInv, Alone
  <2> QED
    BY <2>1, <2>3 DEF IInv, CursorsBehind
<1> QED
  BY <1>1, Invariance, PTL

\* The variables keep their types, and when every publisher has been destroyed
\* in order the name is gone.
THEOREM SegmentInvariant == Spec => []SegmentInv
<1>1. IInv => SegmentInv
  BY DEF IInv, Typed, SegmentInv
<1> QED
  BY <1>1, Invariance, PTL

\* try_attach() gives up on a channel only if, since it began, it met no name
\* or a failed mmap(), or never looked.
THEOREM MissesOnlyIfAbsent == Spec => MissedOnlyIfAbsent
<1>1. IInv => \A s \in Subscribers : TimeOut(s) => s \in excused
  BY DEF IInv, TestingExcused, TimeOut
<1> QED
  BY <1>1, Invariance, PTL DEF MissedOnlyIfAbsent
=============================================================================
