----------------------------- MODULE ShmChannel -----------------------------
(***************************************************************************)
(* A channel: a Publisher (publisher.hpp) and one Subscriber object        *)
(* (subscriber.hpp) whose try_receive() is called by the Consumers, a      *)
(* thread and a cursor each, over the ring of SpmcRing.  It adds to the    *)
(* ring the counters that stats() reports.                                 *)
(***************************************************************************)
EXTENDS SpmcRing, FiniteSets, Functions

\* The threads that call try_receive() are finitely many.
ASSUME ChannelAssumption == IsFiniteSet(Consumers)

VARIABLES
  sequence_,   \* Publisher::sequence_, what stats().published reports
  received,    \* Subscriber::stats_received_
  dropped,     \* Subscriber::stats_dropped_
  pre_pos,     \* try_receive(): the local pre_pos
  rstate,      \* where each consumer is in try_receive()
  start,       \* auxiliary: where each cursor was made
  uncounted    \* auxiliary: skipped by calls that then returned false

stats == <<sequence_, received, dropped>>
aux   == <<start, uncounted>>
cvars2 == <<pre_pos, rstate>>
chvars == <<vars, stats, cvars2, aux>>

ChannelTypeOK ==
  /\ TypeOK
  /\ sequence_ \in Nat /\ received \in Nat /\ dropped \in Nat
  /\ pre_pos \in [Consumers -> Nat]
  /\ rstate \in [Consumers -> {"pop", "drop", "count"}]
  /\ start \in [Consumers -> Nat]
  /\ uncounted \in Nat

ChannelInit ==
  /\ Init
  /\ sequence_ = 0 /\ received = 0 /\ dropped = 0
  /\ pre_pos = [c \in Consumers |-> 0]
  /\ rstate = [c \in Consumers |-> "pop"]
  /\ start = [c \in Consumers |-> 0]
  /\ uncounted = 0
-----------------------------------------------------------------------------
\* publish(): ++sequence_ goes into the header, then the ring's push().
Publish(p) ==
  /\ Push(p)
  /\ sequence_' = IF pstate[p] = "idle" THEN sequence_ + 1 ELSE sequence_
  /\ UNCHANGED <<received, dropped, cvars2, aux>>

\* make_cursor(); a Subscriber offers no cursor from the start.
Subscribe(c) ==
  /\ MakeCursor(c)
  /\ start' = [start EXCEPT ![c] = write_pos]
  /\ UNCHANGED <<stats, cvars2, uncounted>>

\* Mutant: pre_pos is taken once and not on every call.
TryReceive_StalePrePos(c) ==
  /\ rstate[c] = "pop"
  /\ PopBegin(c)
  /\ UNCHANGED <<stats, cvars2, aux>>

\* const pre_pos = cursor.pos; and pop() begins.
TryReceive(c) ==
  /\ rstate[c] = "pop"
  /\ PopBegin(c)
  /\ pre_pos' = [pre_pos EXCEPT ![c] = cursor[c]]
  /\ UNCHANGED <<stats, rstate, aux>>

\* pop() returned false at once: the cursor has not moved.
NothingNew(c) ==
  /\ rstate[c] = "pop"
  /\ PopEmpty(c)
  /\ UNCHANGED <<stats, cvars2, aux>>

\* pop() compares and copies.  When it gives up after a fast-forward,
\* try_receive() returns false before the lines that count.
Popping(c) ==
  /\ CheckSeq(c) \/ Recheck(c) \/ \E w \in Words : LoadWord(c, w)
  /\ uncounted' = IF cstate'[c] = "idle" THEN uncounted + (cursor[c] - pre_pos[c])
                                         ELSE uncounted
  /\ UNCHANGED <<stats, cvars2, start>>

\* pop() returned true; was the cursor moved by more than one?
Popped(c) ==
  /\ PopReturn(c)
  /\ rstate' = [rstate EXCEPT ![c] = IF cursor'[c] > pre_pos[c] + 1 THEN "drop" ELSE "count"]
  /\ UNCHANGED <<stats, pre_pos, aux>>

\* Mutant: the received message is counted as dropped too.
CountDropped_OffByOne(c) ==
  /\ rstate[c] = "drop"
  /\ dropped' = dropped + (cursor[c] - pre_pos[c])
  /\ rstate' = [rstate EXCEPT ![c] = "count"]
  /\ UNCHANGED <<vars, sequence_, received, pre_pos, aux>>

\* stats_dropped_.fetch_add(cursor.pos - pre_pos - 1)
CountDropped(c) ==
  /\ rstate[c] = "drop"
  /\ dropped' = dropped + (cursor[c] - pre_pos[c] - 1)
  /\ rstate' = [rstate EXCEPT ![c] = "count"]
  /\ UNCHANGED <<vars, sequence_, received, pre_pos, aux>>

\* stats_received_.fetch_add(1); return true.  The latency average is a
\* float that nothing else depends on and is left out.
CountReceived(c) ==
  /\ rstate[c] = "count"
  /\ received' = received + 1
  /\ rstate' = [rstate EXCEPT ![c] = "pop"]
  /\ UNCHANGED <<vars, sequence_, dropped, pre_pos, aux>>

Age == Tick /\ UNCHANGED <<stats, cvars2, aux>>

ChannelNext ==
  \/ \E p \in Producers : Publish(p)
  \/ \E c \in Consumers : \/ Subscribe(c) \/ TryReceive(c) \/ NothingNew(c) \/ Popping(c)
                          \/ Popped(c) \/ CountDropped(c) \/ CountReceived(c)
  \/ Age

ChannelSpec == ChannelInit /\ [][ChannelNext]_chvars
-----------------------------------------------------------------------------
\* How far the cursors have moved since they were made.
Advanced == SumFunction([c \in Consumers |-> cursor[c] - start[c]])

\* Messages that a try_receive() in progress has yet to account for.
Pending(c) ==
  CASE rstate[c] = "drop" -> cursor[c] - pre_pos[c]
    [] rstate[c] = "count" -> 1
    [] rstate[c] = "pop" /\ cstate[c] \notin {"none", "idle"} -> cursor[c] - pre_pos[c]
    [] OTHER -> 0

\* Every position that the cursors passed is counted exactly once, as
\* received or as dropped, but for those skipped by a try_receive() that
\* returned false after the fast-forward (subscriber.hpp:106).
EveryPositionAccounted ==
  received + dropped + uncounted + SumFunction([c \in Consumers |-> Pending(c)]) = Advanced

\* The counters of the two sides agree: what the Subscriber reports never
\* exceeds what stats().published has announced since the cursors were made.
StatsWithinPublished ==
  received + dropped <=
    SumFunction([c \in Consumers |-> IF cstate[c] = "none" THEN 0 ELSE sequence_ - start[c]])

\* The channel's variables keep their types (pre_pos and the counters never
\* become negative, which the unsigned differences of subscriber.hpp:106 need),
\* and the two sides' counters agree.
ChannelInv == ChannelTypeOK /\ StatsWithinPublished
=============================================================================
