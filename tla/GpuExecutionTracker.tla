------------------------- MODULE GpuExecutionTracker -------------------------
(***************************************************************************)
(* GpuExecutionTracker (DirectX/common/utils/gpuExecutionTracker.cpp): it  *)
(* follows, on the CPU and call by call, what the queues of the GPU will   *)
(* have done when they have settled.                                       *)
(*                                                                         *)
(* A call is one action, except that FenceSignal goes on in steps: its     *)
(* loop takes one event from a queue, or leaves a queue, in one action.    *)
(* The queues are in a hash map, whose order is arbitrary.  The tracker is *)
(* used by one thread: no call begins before the loop has ended.           *)
(***************************************************************************)
EXTENDS GpuEvents

VARIABLES
  queueEvents,        \* m_QueueEvents
  signaledFences,     \* m_SignaledFences, of fences that have been created
  readyExecutables,   \* m_ReadyExecutables
  signaled,           \* FenceSignal: the signals to apply, the first being applied
  unscanned,          \* FenceSignal: the queues still to scan for the first one
  scanning,           \* FenceSignal: the queue being scanned, if it has been begun
  issued              \* history: what the calls have given each queue, unless performed

loopVars == <<signaled, unscanned, scanning>>
trackerVars == <<queueEvents, signaledFences, readyExecutables, loopVars, issued>>

Signals == [fence : Fences, value : Values]
Executable == [queue : Queues, work : Works]

TypeOK ==
  /\ queueEvents \in [Queues -> Seq(Event)]
  /\ signaledFences \in [Fences -> Values]
  /\ readyExecutables \in Seq(Executable)
  /\ signaled \in Seq(Signals)
  /\ unscanned \in SUBSET Queues
  /\ scanning \in SUBSET Queues

Init ==
  /\ queueEvents = [q \in Queues |-> <<>>]
  /\ signaledFences = [f \in Fences |-> 0]
  /\ readyExecutables = <<>>
  /\ signaled = <<>> /\ unscanned = {} /\ scanning = {}
  /\ issued = [q \in Queues |-> <<>>]

Busy == signaled # <<>>

IsCommandQueueWaiting(q) == queueEvents[q] # <<>>

\* History: the fences as they will be once the pending signals are applied.
SettledFences ==
  [f \in Fences |->
     LET pending == {i \in DOMAIN signaled : signaled[i].fence = f}
     IN  IF pending = {} THEN signaledFences[f]
         ELSE signaled[CHOOSE i \in pending : \A j \in pending : j <= i].value]
Settle(events) == issued' = [q \in Queues |-> Passed(events[q], SettledFences')]
-----------------------------------------------------------------------------
(***************************************************************************)
(* The calls.                                                              *)
(***************************************************************************)
\* FenceSignal up to its first scan.
BeginFenceSignal(f, v) ==
  /\ signaledFences' = [signaledFences EXCEPT ![f] = v]
  /\ signaled' = <<[fence |-> f, value |-> v]>>
  /\ unscanned' = Queues
  /\ UNCHANGED scanning

FenceSignal(f, v) ==
  /\ ~Busy
  /\ BeginFenceSignal(f, v)
  /\ UNCHANGED <<queueEvents, readyExecutables>>
  /\ Settle(issued)

\* Fault: a wait is dropped as soon as its fence has been signalled at all.
FaultCommandQueueWait(q, f, v) ==
  /\ ~Busy
  /\ queueEvents' = IF signaledFences[f] > 0 THEN queueEvents
                    ELSE [queueEvents EXCEPT ![q] = Append(@, Wait(f, v))]
  /\ UNCHANGED <<signaledFences, readyExecutables, loopVars>>
  /\ Settle([issued EXCEPT ![q] = Append(@, Wait(f, v))])
CommandQueueWait(q, f, v) ==
  /\ ~Busy
  /\ queueEvents' = IF signaledFences[f] >= v THEN queueEvents
                    ELSE [queueEvents EXCEPT ![q] = Append(@, Wait(f, v))]
  /\ UNCHANGED <<signaledFences, readyExecutables, loopVars>>
  /\ Settle([issued EXCEPT ![q] = Append(@, Wait(f, v))])

\* Fault: a signal takes effect at once, although its queue is waiting.
FaultCommandQueueSignal(q, f, v) ==
  /\ ~Busy
  /\ BeginFenceSignal(f, v)
  /\ UNCHANGED <<queueEvents, readyExecutables>>
  /\ Settle([issued EXCEPT ![q] = Append(@, Signal(f, v))])
CommandQueueSignal(q, f, v) ==
  /\ ~Busy
  /\ IF IsCommandQueueWaiting(q)
     THEN /\ queueEvents' = [queueEvents EXCEPT ![q] = Append(@, Signal(f, v))]
          /\ UNCHANGED <<signaledFences, loopVars>>
          /\ Settle([issued EXCEPT ![q] = Append(@, Signal(f, v))])
     ELSE /\ BeginFenceSignal(f, v)
          /\ UNCHANGED queueEvents
          /\ Settle(issued)
  /\ UNCHANGED readyExecutables

\* What the application executes is recorded in the history; it is what the tracker is
\* handed unless the client has lost a part of it.
ExecuteOn(q, work, asked) ==
  /\ ~Busy
  /\ UNCHANGED <<signaledFences, loopVars>>
  /\ IF IsCommandQueueWaiting(q)
     THEN /\ queueEvents' = [queueEvents EXCEPT ![q] = Append(@, Execute(work))]
          /\ UNCHANGED readyExecutables
          /\ Settle([issued EXCEPT ![q] = Append(@, Execute(asked))])
     ELSE /\ readyExecutables' = Append(readyExecutables, [queue |-> q, work |-> work])
          /\ UNCHANGED <<queueEvents, issued>>

\* The client has handled the executables that are ready, and clears the list.
ClearReadyExecutables ==
  /\ ~Busy
  /\ readyExecutables # <<>>
  /\ readyExecutables' = <<>>
  /\ UNCHANGED <<queueEvents, signaledFences, loopVars, issued>>
-----------------------------------------------------------------------------
(***************************************************************************)
(* The loop of FenceSignal.                                                *)
(***************************************************************************)
\* A queue that is empty, or that has come to a wait whose fence is not there yet.
IsHeld(q) ==
  queueEvents[q] # <<>> => /\ IsWait(Head(queueEvents[q]))
                           /\ ~Satisfied(Head(queueEvents[q]), signaledFences)

InScan(q) == q \in unscanned /\ scanning \subseteq {q}

TakeEvent(q) ==
  /\ InScan(q) /\ ~IsHeld(q)
  /\ scanning' = {q}
  /\ queueEvents' = [queueEvents EXCEPT ![q] = Tail(@)]
  /\ LET e == Head(queueEvents[q]) IN
     /\ readyExecutables' = IF e.kind = "execute"
                            THEN Append(readyExecutables, [queue |-> q, work |-> e.work])
                            ELSE readyExecutables
     /\ signaled' = IF e.kind = "signal"
                    THEN Append(signaled, [fence |-> e.fence, value |-> e.value])
                    ELSE signaled
     /\ UNCHANGED <<signaledFences, unscanned>>
     /\ Settle(IF IsWait(e) THEN issued ELSE [issued EXCEPT ![q] = Performed(@)])

LeaveQueue(q) ==
  /\ InScan(q) /\ IsHeld(q)
  /\ unscanned' = unscanned \ {q}
  /\ scanning' = {}
  /\ UNCHANGED <<queueEvents, signaledFences, readyExecutables, signaled, issued>>

\* Fault: a signal taken from a queue is applied without a new scan of the queues.
FaultNextSignal ==
  /\ Busy /\ unscanned = {}
  /\ signaled' = Tail(signaled)
  /\ signaledFences' = IF Len(signaled) = 1 THEN signaledFences
                       ELSE [signaledFences EXCEPT ![signaled[2].fence] = signaled[2].value]
  /\ UNCHANGED <<queueEvents, readyExecutables, unscanned, scanning, issued>>
NextSignal ==
  /\ Busy /\ unscanned = {}
  /\ signaled' = Tail(signaled)
  /\ IF Len(signaled) = 1 THEN UNCHANGED <<signaledFences, unscanned>>
     ELSE /\ signaledFences' = [signaledFences EXCEPT ![signaled[2].fence] = signaled[2].value]
          /\ unscanned' = Queues
  /\ UNCHANGED <<queueEvents, readyExecutables, scanning, issued>>

FenceSignalLoop == (\E q \in Queues : TakeEvent(q) \/ LeaveQueue(q)) \/ NextSignal

TrackerNext ==
  \/ \E f \in Fences, v \in Values : FenceSignal(f, v)
  \/ \E q \in Queues, f \in Fences, v \in Values :
        CommandQueueWait(q, f, v) \/ CommandQueueSignal(q, f, v)
  \/ \E q \in Queues, w \in Works : ExecuteOn(q, w, w)
  \/ ClearReadyExecutables
  \/ FenceSignalLoop

TrackerSpec == Init /\ [][TrackerNext]_trackerVars
-----------------------------------------------------------------------------
\* Between two calls nothing that could be done is held back: every queue is empty or
\* at a wait whose fence has not reached the value (GpuExecutionTracker::FenceSignal
\* scans all queues again for every signal that it finds).
NothingHeldBack == ~Busy => \A q \in Queues : IsHeld(q)
=============================================================================
