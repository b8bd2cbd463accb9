--------------------------- MODULE AsyncSubscriber ---------------------------
(***************************************************************************)
(* The callback API of Subscriber and IntraSubscriber (subscriber.hpp):    *)
(* spin(), start_async(), stop() and the destructor.  The two classes have *)
(* the same text here, but for what the callback is given.                 *)
(*                                                                         *)
(* One thread, the owner, calls start_async(), stop() and the destructor,  *)
(* in any order; other threads call spin().  std::thread is modelled by    *)
(* what the code uses of it: assigning to a joinable one, or joining one's *)
(* own, ends the program.  Of the ring only the number of messages that    *)
(* each cursor is behind is kept, so that publishing need not be bounded.  *)
(***************************************************************************)
EXTENDS Integers

CONSTANTS
  Spinners,    \* threads that call spin() themselves
  MaxStarts,   \* start_async() calls, each of which makes a thread
  Capacity     \* of the ring

ASSUME AsyncAssumption ==
  /\ MaxStarts \in Nat /\ Capacity \in Nat \ {0}
  /\ Spinners \cap (1 .. MaxStarts) = {}

VARIABLES
  stop_flag,   \* stop_flag_
  worker,      \* worker_: the thread it holds, None when not joinable
  starts,      \* threads that start_async() has made
  owner,       \* where the owner is
  pc,          \* where each thread inside spin() is
  behind,      \* messages between its cursor and the ring's write position;
               \* Capacity + 1 stands for all larger numbers
  state        \* "up", "destroyed", or "terminated" by std::terminate

vars == <<stop_flag, worker, starts, owner, pc, behind, state>>

Workers == 1 .. MaxStarts
Threads == Workers \cup Spinners
None    == 0

TypeOK ==
  /\ stop_flag \in BOOLEAN
  /\ worker \in Workers \cup {None}
  /\ starts \in 0 .. MaxStarts
  /\ owner \in {"idle", "start", "join", "destroy"}
  /\ pc \in [Threads -> {"none", "begin", "loop", "receive", "callback", "done"}]
  /\ behind \in [Threads -> 0 .. Capacity + 1]
  /\ state \in {"up", "destroyed", "terminated"}

Init ==
  /\ stop_flag = FALSE
  /\ worker = None
  /\ starts = 0
  /\ owner = "idle"
  /\ pc = [t \in Threads |-> "none"]
  /\ behind = [t \in Threads |-> 0]
  /\ state = "up"

Running == state # "terminated"

\* A cursor that nobody uses is left at 0.
Publish ==
  /\ Running
  /\ behind' = [t \in Threads |->
                  IF pc[t] \in {"loop", "receive", "callback"} /\ behind[t] <= Capacity
                  THEN behind[t] + 1 ELSE behind[t]]
  /\ UNCHANGED <<stop_flag, worker, starts, owner, pc, state>>
-----------------------------------------------------------------------------
(* spin(), in a thread of the caller's or in the worker *)

Goto(t, label) == pc' = [pc EXCEPT ![t] = label]

\* A caller of its own; the object must still be there.
SpinCall(t) ==
  /\ t \in Spinners /\ pc[t] \in {"none", "done"} /\ state = "up" /\ owner # "destroy"
  /\ Goto(t, "begin")
  /\ UNCHANGED <<stop_flag, worker, starts, owner, behind, state>>

\* Mutant: spin() itself clears the flag.
MakeCursor_ClearsFlag(t) ==
  /\ Running /\ pc[t] = "begin"
  /\ stop_flag' = FALSE
  /\ Goto(t, "loop")
  /\ UNCHANGED <<worker, starts, owner, behind, state>>

\* The cursor starts at the messages to come, as of now.
MakeCursor(t) ==
  /\ Running /\ pc[t] = "begin"
  /\ Goto(t, "loop")
  /\ UNCHANGED <<stop_flag, worker, starts, owner, behind, state>>

\* Mutant: the flag is not looked at while there are messages to deliver.
LoopTest_DrainsFirst(t) ==
  /\ Running /\ pc[t] = "loop"
  /\ Goto(t, IF stop_flag /\ behind[t] = 0 THEN "done" ELSE "receive")
  /\ UNCHANGED <<stop_flag, worker, starts, owner, behind, state>>

LoopTest(t) ==
  /\ Running /\ pc[t] = "loop"
  /\ Goto(t, IF stop_flag THEN "done" ELSE "receive")
  /\ behind' = [behind EXCEPT ![t] = IF stop_flag THEN 0 ELSE @]
  /\ UNCHANGED <<stop_flag, worker, starts, owner, state>>

\* The oldest message still held: pop() moves an overtaken cursor there.
FastForward(n) == IF n > Capacity THEN Capacity ELSE n

\* try_receive() is true.
Receive(t) ==
  /\ Running /\ pc[t] = "receive" /\ behind[t] > 0
  /\ behind' = [behind EXCEPT ![t] = FastForward(@) - 1]
  /\ Goto(t, "callback")
  /\ UNCHANGED <<stop_flag, worker, starts, owner, state>>

\* try_receive() is false, as there was nothing or the slot is being
\* rewritten: sleep, then look at the flag again.
Sleep(t) ==
  /\ Running /\ pc[t] = "receive"
  /\ \E n \in {behind[t], FastForward(behind[t])} : behind' = [behind EXCEPT ![t] = n]
  /\ Goto(t, "loop")
  /\ UNCHANGED <<stop_flag, worker, starts, owner, state>>

CallbackReturns(t) ==
  /\ Running /\ pc[t] = "callback"
  /\ Goto(t, "loop")
  /\ UNCHANGED <<stop_flag, worker, starts, owner, behind, state>>

\* stop() from the worker's callback: joining oneself throws, and nothing
\* in the thread catches it.
CallbackStops(t) ==
  /\ Running /\ pc[t] = "callback" /\ t = worker /\ owner = "idle"
  /\ stop_flag' = TRUE
  /\ state' = "terminated"
  /\ UNCHANGED <<worker, starts, owner, pc, behind>>
-----------------------------------------------------------------------------
(* start_async() *)

\* Mutant: the flag is left as the last stop() set it.
StartStore_KeepsFlag ==
  /\ state = "up" /\ owner = "idle" /\ starts < MaxStarts
  /\ owner' = "start"
  /\ UNCHANGED <<stop_flag, worker, starts, pc, behind, state>>

StartStore ==
  /\ state = "up" /\ owner = "idle" /\ starts < MaxStarts
  /\ stop_flag' = FALSE
  /\ owner' = "start"
  /\ UNCHANGED <<worker, starts, pc, behind, state>>

\* worker_ = std::thread(...): the new thread runs at once, and assigning
\* it to a worker_ that was never joined ends the program.
StartThread ==
  /\ Running /\ owner = "start"
  /\ starts' = starts + 1
  /\ Goto(starts + 1, "begin")
  /\ state' = IF worker = None THEN state ELSE "terminated"
  /\ worker' = IF worker = None THEN starts + 1 ELSE worker
  /\ owner' = "idle"
  /\ UNCHANGED <<stop_flag, behind>>
-----------------------------------------------------------------------------
(* stop(), also from the destructor *)

StopStore(next) ==
  /\ state = "up" /\ owner = "idle"
  /\ stop_flag' = TRUE
  /\ owner' = next
  /\ UNCHANGED <<worker, starts, pc, behind, state>>

Stop == StopStore("join")

\* ~Subscriber(), once the threads that call spin() are out of it.
Destructor == (\A t \in Spinners : pc[t] \in {"none", "done"}) /\ StopStore("destroy")

\* Mutant: the thread is let go instead of joined.
Join_Detaches ==
  /\ Running /\ owner \in {"join", "destroy"}
  /\ worker' = None
  /\ state' = IF owner = "destroy" THEN "destroyed" ELSE state
  /\ owner' = "idle"
  /\ UNCHANGED <<stop_flag, starts, pc, behind>>

Join ==
  /\ Running /\ owner \in {"join", "destroy"}
  /\ worker # None => pc[worker] = "done"
  /\ worker' = None
  /\ state' = IF owner = "destroy" THEN "destroyed" ELSE state
  /\ owner' = "idle"
  /\ UNCHANGED <<stop_flag, starts, pc, behind>>
-----------------------------------------------------------------------------
Spin(t) == MakeCursor(t) \/ LoopTest(t) \/ Receive(t) \/ Sleep(t) \/ CallbackReturns(t)

Next ==
  \/ Publish \/ StartStore \/ StartThread \/ Stop \/ Destructor \/ Join
  \/ \E t \in Threads : SpinCall(t) \/ Spin(t) \/ CallbackStops(t)

Spec == Init /\ [][Next]_vars

\* Threads that are inside spin() or start_async() keep running, callbacks
\* return, and the owner leaves stop() once it may.
LiveSpec ==
  /\ Spec
  /\ WF_vars(StartThread) /\ WF_vars(Join)
  /\ \A t \in Threads : WF_vars(Spin(t))
-----------------------------------------------------------------------------
(* Properties *)

InSpin(t) == pc[t] \notin {"none", "done"}

\* Unless the program was ended, a thread that start_async() made is the one
\* worker_ holds or has left spin(): once stop() has returned no callback of
\* it runs, and none touches the object after the destructor
\* (subscriber.hpp:165, "Signal the background thread to stop and join it").
OnlyWorkerSpins == Running => \A w \in Workers : InSpin(w) => worker = w

\* stop() returns, wherever the worker was when it was called and however
\* many messages are waiting.
StopReturns == owner \in {"join", "destroy"} ~> owner = "idle" \/ ~Running

\* The worker polls until the next stop(): it has not left spin() while
\* none has been called since start_async().
WorkerKeepsPolling ==
  Running /\ worker # None /\ owner \in {"idle", "start"} => pc[worker] # "done"

\* spin() returns if the flag set by stop() stays set.  It need not return
\* otherwise: start_async() clears the flag (line 159), perhaps before the
\* spinning thread has looked at it.
SpinReturnsOnceStopped ==
  \A t \in Threads : (InSpin(t) /\ [](stop_flag /\ Running)) ~> ~InSpin(t)

\* The subscriber's variables keep their types, and the worker does not leave
\* before stop() is called.
WorkerInv == TypeOK /\ WorkerKeepsPolling
=============================================================================
