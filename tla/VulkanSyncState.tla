--------------------------- MODULE VulkanSyncState ---------------------------
(***************************************************************************)
(* SyncStateService (Vulkan/subcapture/syncStateService.cpp) with the      *)
(* handlers of SubcaptureLayer that feed it: while the player plays the    *)
(* frames before the range of a subcapture, it tracks, call by call, which *)
(* fences, binary semaphores and events will be signaled, and how far the  *)
(* timeline semaphore will have come.  What is tracked is a value; a       *)
(* handler is a function from the value before the call to the one after.  *)
(* The sets hold what is signaled.                                         *)
(***************************************************************************)
EXTENDS Integers, FiniteSets

CONSTANTS Semaphores,   \* the binary semaphores
          Fences,       \* the fences
          NoFence,      \* VK_NULL_HANDLE
          Events,       \* the events
          MaxValue      \* bound on the value of the timeline semaphore

ASSUME NoFenceAssumption == NoFence \notin Fences
ASSUME MaxValueAssumption == MaxValue \in Nat

Values == 0 .. MaxValue

Larger(v, w) == IF v >= w THEN v ELSE w

SyncState == [fences : SUBSET Fences, semaphores : SUBSET Semaphores,
              counter : Values, events : SUBSET Events]

NothingSignaled == [fences |-> {}, semaphores |-> {}, counter |-> 0, events |-> {}]

\* The events that command buffers leave set or reset: EventStatesAfterSubmit.
Effect == [sets : SUBSET Events, resets : SUBSET Events]
NoEffect == [sets |-> {}, resets |-> {}]
After(events, effect) == (events \ effect.resets) \cup effect.sets

\* What a submit waits for and what it signals: binary semaphores, the value that the
\* timeline semaphore has to reach and the value it gets (0 stands for none), and the
\* fence.  Its effect on events is that of the commands recorded in its primary command
\* buffers; what the secondary ones do to an event after these is inner, and not merged.
Submit == [waits : SUBSET Semaphores, reach : Values, signals : SUBSET Semaphores,
           counter : Values, effect : Effect, inner : Effect, fence : Fences \cup {NoFence}]
-----------------------------------------------------------------------------
SignalFence(state, f) == [state EXCEPT !.fences = @ \cup ({f} \ {NoFence})]
UpdateTimelineSemaphoreValue(state, v) == [state EXCEPT !.counter = Larger(@, v)]

\* Fault: the semaphores that a submit waits for are thought to stay signaled.
FaultOnQueueSubmit(state, x) ==
  UpdateTimelineSemaphoreValue(
    [SignalFence(state, x.fence) EXCEPT !.semaphores = @ \cup x.signals,
                                        !.events = After(@, x.effect)], x.counter)
\* The events are as they will be, ahead of the GPU.
OnQueueSubmit(state, x) ==
  UpdateTimelineSemaphoreValue(
    [SignalFence(state, x.fence) EXCEPT !.semaphores = (@ \ x.waits) \cup x.signals,
                                        !.events = After(@, x.effect)], x.counter)

OnQueuePresent(state, waits) == [state EXCEPT !.semaphores = @ \ waits]

\* Fault: the fence of an acquire is not tracked.
FaultOnAcquire(state, s, f) == [state EXCEPT !.semaphores = @ \cup {s}]
\* OnImageAcquired and OnFenceSignaled.
OnAcquire(state, s, f) == SignalFence([state EXCEPT !.semaphores = @ \cup {s}], f)

\* The semaphores of a sparse bind are not tracked, on purpose.
OnQueueBindSparse(state, f) == SignalFence(state, f)
OnResetFences(state, fs) == [state EXCEPT !.fences = @ \ fs]

\* Fault: signals of the host are not tracked.
FaultOnSignalSemaphore(state, v) == state
OnSignalSemaphore(state, v) == UpdateTimelineSemaphoreValue(state, v)

OnSetEvent(state, e) == [state EXCEPT !.events = @ \cup {e}]
OnResetEvent(state, e) == [state EXCEPT !.events = @ \ {e}]
=============================================================================
