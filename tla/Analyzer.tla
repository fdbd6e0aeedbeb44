------------------------------- MODULE Analyzer -------------------------------
(***************************************************************************)
(* The analyzer's lock, filter and callbacks: class NetworkAnalyzer of     *)
(* analyzer.py.  analyze holds the analyzer's lock from the packet's       *)
(* number to its last callback; the filter and the list of callbacks are   *)
(* changed by other threads without it.                                    *)
(*                                                                         *)
(* A frame stands for what parsing makes of it: whether some layer raises, *)
(* and which filter expressions its context matches.                       *)
(***************************************************************************)
EXTENDS Integers, Sequences, SequencesExt

CONSTANTS Threads,        \* threads that call analyze
          Frames,         \* [raises, matches]: BOOLEAN, and a set of Filters
          Filters,        \* filter expressions
          NoFilter, NoThread,
          Callbacks,      \* functions that may be registered
          Initially,      \* those registered when the capture starts, in order
          OneShot,        \* callbacks that remove themselves when called
          MaxPackets,     \* bound: calls of analyze between two resets
          MaxRegistered,  \* bound: length of the list of callbacks
          MaxRemovals     \* bound: callbacks removed during one loop

ASSUME AnalyzerAssumption ==
  /\ NoFilter \notin Filters /\ NoThread \notin Threads
  /\ \A f \in Frames : f.raises \in BOOLEAN /\ f.matches \subseteq Filters
  /\ Initially \in Seq(Callbacks)
  /\ OneShot \subseteq Callbacks
  /\ {MaxPackets, MaxRegistered, MaxRemovals} \subseteq Nat

VARIABLES lock,           \* the thread that holds _lock, or NoThread
          filter,         \* _filter
          callbacks,      \* _callbacks["packet"]
          packet_count,
          recorded,       \* packets in the statistics
          filtered,       \* packets for which analyze returned None
          errors,         \* packets returned with a "Fatal error"
          spurious,       \* those whose layers raised nothing
          pc,             \* where each thread is in analyze
          frame,          \* the frame it analyzes
          index,          \* position of the loop of _trigger_callbacks
          in_force,       \* filters in force since it looked at the filter first
          called,         \* callbacks it has called for this packet
          expected,       \* callbacks registered ever since its loop started
          removals        \* callbacks removed since its loop started

control == <<filter, callbacks>>
counters == <<packet_count, recorded, filtered, errors, spurious>>
locals == <<pc, frame, index, in_force, called, expected, removals>>
vars == <<lock, control, counters, locals>>

Idle == [t \in Threads |-> "idle"]

Init ==
  /\ lock = NoThread
  /\ filter = NoFilter
  /\ callbacks = Initially
  /\ packet_count = 0 /\ recorded = 0 /\ filtered = 0 /\ errors = 0 /\ spurious = 0
  /\ pc = Idle
  /\ frame = [t \in Threads |-> CHOOSE f \in Frames : TRUE]
  /\ index = [t \in Threads |-> 1]
  /\ in_force = [t \in Threads |-> {}]
  /\ called = [t \in Threads |-> <<>>]
  /\ expected = [t \in Threads |-> {}]
  /\ removals = [t \in Threads |-> 0]

Goto(t, label) == pc' = [pc EXCEPT ![t] = label]

-----------------------------------------------------------------------------
(* analyze                                                                 *)

\* Mutant: without the lock.
EnterUnlocked(t, f) ==
  /\ pc[t] = "idle"
  /\ packet_count < MaxPackets
  /\ lock' = t
  /\ packet_count' = packet_count + 1
  /\ frame' = [frame EXCEPT ![t] = f]
  /\ Goto(t, "parse")
  /\ UNCHANGED <<control, recorded, filtered, errors, spurious,
                 index, in_force, called, expected, removals>>

\* Takes the lock and numbers the packet.
Enter(t, f) ==
  /\ pc[t] = "idle" /\ lock = NoThread
  /\ packet_count < MaxPackets
  /\ lock' = t
  /\ packet_count' = packet_count + 1
  /\ frame' = [frame EXCEPT ![t] = f]
  /\ Goto(t, "parse")
  /\ UNCHANGED <<control, recorded, filtered, errors, spurious,
                 index, in_force, called, expected, removals>>

\* Leaves analyze and forgets the packet; the with statement releases the lock.
Leave(t) ==
  /\ lock' = NoThread
  /\ pc' = [pc EXCEPT ![t] = "idle"]
  /\ index' = [index EXCEPT ![t] = 1]
  /\ in_force' = [in_force EXCEPT ![t] = {}]
  /\ called' = [called EXCEPT ![t] = <<>>]
  /\ expected' = [expected EXCEPT ![t] = {}]
  /\ removals' = [removals EXCEPT ![t] = 0]
  /\ UNCHANGED <<control, frame, packet_count>>

Fail(t) ==
  /\ Leave(t)
  /\ errors' = errors + 1
  /\ spurious' = IF frame[t].raises THEN spurious ELSE spurious + 1
  /\ UNCHANGED <<recorded, filtered>>

\* Layers 2 to 7, reassembly and identification, the five tuple and the filter
\* context: what they do to other components is in those components' modules.
Parse(t) ==
  /\ pc[t] = "parse"
  /\ \/ /\ frame[t].raises
        /\ Fail(t)
     \/ /\ ~frame[t].raises
        /\ Goto(t, "check")
        /\ in_force' = [in_force EXCEPT ![t] = {filter}]
        /\ UNCHANGED <<lock, control, counters, frame, index, called, expected, removals>>

\* Mutant: the test is the wrong way round.
CheckFilterInverted(t) ==
  /\ pc[t] = "check"
  /\ Goto(t, IF filter = NoFilter THEN "match" ELSE "record")
  /\ UNCHANGED <<lock, control, counters, frame, index, in_force, called, expected, removals>>

\* The first read of _filter: is there one?
CheckFilter(t) ==
  /\ pc[t] = "check"
  /\ Goto(t, IF filter = NoFilter THEN "record" ELSE "match")
  /\ UNCHANGED <<lock, control, counters, frame, index, in_force, called, expected, removals>>

\* The second read of _filter: None by now has no match method.
MatchFilter(t) ==
  /\ pc[t] = "match"
  /\ \/ /\ filter = NoFilter
        /\ Fail(t)
     \/ /\ filter \in frame[t].matches
        /\ Goto(t, "record")
        /\ UNCHANGED <<lock, control, counters, frame, index, in_force, called, expected, removals>>
     \/ /\ filter \in Filters \ frame[t].matches
        /\ Leave(t)
        /\ filtered' = filtered + 1
        /\ UNCHANGED <<recorded, errors, spurious>>

\* Statistics, then the loop over the live list of callbacks starts.
Record(t) ==
  /\ pc[t] = "record"
  /\ recorded' = recorded + 1
  /\ expected' = [expected EXCEPT ![t] = ToSet(callbacks)]
  /\ Goto(t, "dispatch")
  /\ UNCHANGED <<lock, control, packet_count, filtered, errors, spurious,
                 frame, index, in_force, called, removals>>

\* list.remove drops the first occurrence.  What is no longer in the list is no longer
\* expected by a thread in the loop.
Unregister(cb) ==
  /\ callbacks' = RemoveFirst(callbacks, cb)
  /\ expected' = [t \in Threads |-> expected[t] \cap ToSet(callbacks')]
  /\ removals' = [t \in Threads |-> IF pc[t] = "dispatch" THEN removals[t] + 1 ELSE 0]

\* Mutant: what a callback raises ends the loop.
CallOneRaising(t) ==
  LET cb == callbacks[index[t]]
  IN  /\ pc[t] = "dispatch"
      /\ index[t] <= Len(callbacks)
      /\ called' = [called EXCEPT ![t] = Append(@, cb)]
      /\ \E raises \in BOOLEAN :
           index' = [index EXCEPT ![t] = IF raises THEN Len(callbacks) + 1 ELSE @ + 1]
      /\ UNCHANGED <<lock, control, counters, pc, frame, in_force, expected, removals>>

\* One turn of the loop: the callback at the index is called, and a callback that
\* removes itself shifts its successors under the index.  What it raises is swallowed.
\* A callback that calls a method which takes the lock, get_stream or reset, waits for
\* its own thread forever; there is none here.
CallOne(t) ==
  LET cb == callbacks[index[t]]
  IN  /\ pc[t] = "dispatch"
      /\ index[t] <= Len(callbacks)
      /\ called' = [called EXCEPT ![t] = Append(@, cb)]
      /\ index' = [index EXCEPT ![t] = @ + 1]
      /\ \/ cb \in OneShot /\ Unregister(cb)
         \/ cb \notin OneShot /\ UNCHANGED <<callbacks, expected, removals>>
      /\ UNCHANGED <<lock, filter, counters, pc, frame, in_force>>

\* Mutant: the loop is left only right behind the last callback.
ReturnAtEnd(t) ==
  /\ pc[t] = "dispatch"
  /\ index[t] = Len(callbacks) + 1
  /\ Leave(t)
  /\ UNCHANGED <<recorded, filtered, errors, spurious>>

Return(t) ==
  /\ pc[t] = "dispatch"
  /\ index[t] > Len(callbacks)
  /\ Leave(t)
  /\ UNCHANGED <<recorded, filtered, errors, spurious>>

Analyze(t) ==
  \/ Parse(t) \/ CheckFilter(t) \/ MatchFilter(t) \/ Record(t)
  \/ CallOne(t) \/ Return(t)

-----------------------------------------------------------------------------
(* Other calls, from any thread.                                           *)

\* set_filter and clear_filter, without the lock.
SetFilter(f) ==
  /\ f # filter
  /\ filter' = f
  /\ in_force' = [t \in Threads |-> IF in_force[t] = {} THEN {} ELSE in_force[t] \cup {f}]
  /\ UNCHANGED <<lock, callbacks, counters, pc, frame, index, called, expected, removals>>

AddCallback(cb) ==
  /\ Len(callbacks) < MaxRegistered
  /\ callbacks' = Append(callbacks, cb)
  /\ UNCHANGED <<lock, filter, counters, locals>>

RemoveCallback(cb) ==
  /\ cb \in ToSet(callbacks)
  /\ \A t \in Threads : removals[t] < MaxRemovals
  /\ Unregister(cb)
  /\ UNCHANGED <<lock, filter, counters, pc, frame, index, in_force, called>>

\* reset, under the lock; it keeps the filter and the callbacks.
Reset ==
  /\ lock = NoThread
  /\ packet_count' = 0 /\ recorded' = 0 /\ filtered' = 0 /\ errors' = 0 /\ spurious' = 0
  /\ UNCHANGED <<lock, control, locals>>

Next ==
  \/ \E t \in Threads : Analyze(t) \/ \E f \in Frames : Enter(t, f)
  \/ \E f \in Filters \cup {NoFilter} : SetFilter(f)
  \/ \E cb \in Callbacks : AddCallback(cb)
  \/ \E cb \in Callbacks : RemoveCallback(cb)
  \/ Reset

Spec == Init /\ [][Next]_vars

\* A thread inside analyze is scheduled again and again.
FairSpec == Spec /\ \A t \in Threads : WF_vars(Analyze(t))

-----------------------------------------------------------------------------
Undecided == {t \in Threads : pc[t] \in {"parse", "check", "match", "record"}}

\* Every numbered packet is in the statistics, was filtered out, failed, or is still
\* being analyzed, exactly once, whatever happens to the filter meanwhile.
EveryPacketAccounted ==
  packet_count = recorded + filtered + errors + Cardinality(Undecided)

\* A packet reaches the statistics only if, at some moment of its analysis, no filter
\* was set or the one that was set matches it: switching filters under a packet never
\* lets through what both the old and the new filter reject.
AcceptedBySomeFilter ==
  \A t \in Threads : pc[t] \in {"record", "dispatch"} =>
    NoFilter \in in_force[t] \/ in_force[t] \cap frame[t].matches # {}

\* Every removal during the loop over the live list makes it skip at most one of the
\* callbacks that stay registered; without removals all of them are called, also when
\* others are added (analyzer.py:605).
SkipsAtMostRemovals ==
  \A t \in Threads : pc[t] = "dispatch" /\ index[t] > Len(callbacks) =>
    Cardinality(expected[t] \ ToSet(called[t])) <= removals[t]

\* Only a packet whose own layers raise is returned as a fatal error; the others are
\* returned parsed or, if filtered out, as None (analyzer.py:180-181).
OnlyBadFramesFail == spurious = 0

\* analyze returns.
AnalyzeReturns == \A t \in Threads : pc[t] # "idle" ~> pc[t] = "idle"
=============================================================================
