------------------------------ MODULE GpuQueues ------------------------------
(***************************************************************************)
(* The command queues of a GPU, as the application sees them: each queue   *)
(* performs what it was given in the order it was given it, and does not   *)
(* go past a wait before the fence has reached the value.                  *)
(***************************************************************************)
EXTENDS GpuEvents

VARIABLES todo,       \* what each queue has still to perform
          value,      \* the values of the fences
          executed    \* the works executed, each with its queue

vars == <<todo, value, executed>>

Settle(events) == todo' = [q \in Queues |-> Passed(events[q], value')]

Effect(q, e) ==
  /\ value' = AfterSignal(e, value)
  /\ executed' = IF e.kind = "execute"
                 THEN Append(executed, [queue |-> q, work |-> e.work]) ELSE executed

Init ==
  /\ todo = [q \in Queues |-> <<>>]
  /\ value = [f \in Fences |-> 0]
  /\ executed = <<>>

Submit(q, e) ==
  /\ UNCHANGED <<value, executed>>
  /\ Settle([todo EXCEPT ![q] = Append(@, e)])

\* An idle queue may perform what it is given at once.
SubmitAndPerform(q, e) ==
  /\ todo[q] = <<>> /\ ~IsWait(e)
  /\ Effect(q, e)
  /\ Settle(todo)

Perform(q) ==
  /\ todo[q] # <<>> /\ ~IsWait(Head(todo[q]))
  /\ Effect(q, Head(todo[q]))
  /\ Settle([todo EXCEPT ![q] = Tail(@)])

\* A fence is also signalled by the CPU, or by the paging of residency calls.
SignalFence(f, v) ==
  /\ value' = [value EXCEPT ![f] = v]
  /\ Settle(todo)
  /\ UNCHANGED executed

Next ==
  \/ \E q \in Queues, e \in Event : Submit(q, e) \/ SubmitAndPerform(q, e)
  \/ \E q \in Queues : Perform(q)
  \/ \E f \in Fences, v \in Values : SignalFence(f, v)

Spec == Init /\ [][Next]_vars
=============================================================================
