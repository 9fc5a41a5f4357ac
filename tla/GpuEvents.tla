------------------------------ MODULE GpuEvents ------------------------------
(***************************************************************************)
(* What is submitted to the command queues of a GPU: waits for fences,     *)
(* signals of fences and executions of command lists                       *)
(* (GpuExecutionTracker::WaitEvent, SignalEvent and Executable).           *)
(***************************************************************************)
EXTENDS Integers, Sequences, FiniteSets

CONSTANTS Queues,       \* the command queues
          Fences,       \* the fences
          MaxValue,     \* fences take the values up to this bound
          Works         \* what an execution may execute

ASSUME QueuesAssumption == IsFiniteSet(Queues)
ASSUME MaxValueAssumption == MaxValue \in Nat

Values == 0 .. MaxValue

Wait(f, v) == [kind |-> "wait", fence |-> f, value |-> v]
Signal(f, v) == [kind |-> "signal", fence |-> f, value |-> v]
Execute(w) == [kind |-> "execute", work |-> w]

FenceEvent == [kind : {"wait", "signal"}, fence : Fences, value : Values]
Event == FenceEvent \cup [kind : {"execute"}, work : Works]

IsWait(e) == e.kind = "wait"
Satisfied(e, value) == IsWait(e) /\ value[e.fence] >= e.value
AfterSignal(e, value) ==
  IF e.kind = "signal" THEN [value EXCEPT ![e.fence] = e.value] ELSE value

\* The events of a queue that are left once its first waits have been passed.
Passed(events, value) ==
  LET passed == {i \in DOMAIN events : \A j \in 1..i : Satisfied(events[j], value)}
  IN  SubSeq(events, Cardinality(passed) + 1, Len(events))

\* The events left when the first one that is not a wait has been performed.
Performed(events) ==
  LET waits == {i \in DOMAIN events : \A j \in 1..i : IsWait(events[j])}
  IN  SubSeq(events, Cardinality(waits) + 2, Len(events))
=============================================================================
