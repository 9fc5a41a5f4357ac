---------------------------- MODULE VulkanReplay ----------------------------
(***************************************************************************)
(* A subcapture of a Vulkan stream and its replay                          *)
(* (Vulkan/subcapture, Vulkan/player/replayCustomizationLayer.cpp).  The   *)
(* player plays the original stream on a GPU.  At the present before the   *)
(* range it writes commands that restore the tracked state, and from then  *)
(* on the commands as they come.  The replay of that stream makes the same *)
(* calls on a GPU of its own, and where the original call saw something    *)
(* signaled that is not signaled yet, it waits for it: the catch-up waits. *)
(*                                                                         *)
(* Nothing goes from the replay to the original, so the two can be run     *)
(* side by side: an action is a call in the original and, in the range,    *)
(* its replay; the GPUs are as slow or fast as they like.  The restore     *)
(* ends with vkDeviceWaitIdle, so it is one action.                        *)
(*                                                                         *)
(* The GPUs and the application are external.  The application uses the    *)
(* objects as Vulkan demands, whatever the speed of the GPU.  Calls that   *)
(* fail change nothing and are left out.  In the replay an acquire finds   *)
(* the recorded image at once.                                             *)
(***************************************************************************)
EXTENDS VulkanSyncState, Sequences

CONSTANTS Queues,      \* the queues of the device
          Submits,     \* what is submitted to them
          MaxBefore,   \* bound on the calls before the range
          MaxInRange   \* bound on the calls in the range

ASSUME SubmitsAssumption == Submits \subseteq Submit
ASSUME BoundsAssumption == MaxBefore \in Nat /\ MaxInRange \in Nat

VARIABLES
  inRange,         \* SubcaptureRange::InRange
  calls,           \* the calls made before the range, or in it
  tracked,         \* the FenceState, SemaphoreState and EventState objects
  gpu,             \* the GPU of the original and the GPU of the replay
  used,            \* the fences that are signaled or going to be
  stage,           \* what the application has done with each semaphore
  known,           \* what the application knows to be signaled
  pendingFences,   \* FencePendingSignalService::m_PendingFences, in the replay
  catchUp,         \* what the replay waits for, if anything
  invalid          \* whether the replay has made a call that Vulkan forbids

appVars == <<used, stage, known>>
replayVars == <<pendingFences, catchUp, invalid>>
vars == <<inRange, calls, tracked, gpu, appVars, replayVars>>

\* The presentation engine, which signals what an acquire gives it.
Display == "display"
Timelines == Queues \cup {Display}
Sides == {"original", "replay"}

Gpu == [fences : SUBSET Fences, semaphores : SUBSET Semaphores, counter : Values,
        events : SUBSET Events, queues : [Timelines -> Seq(Submit)]]
IdleGpu ==
  [fences |-> {}, semaphores |-> {}, counter |-> 0, events |-> {},
   queues |-> [q \in Timelines |-> <<>>]]

NoWait == [fences |-> {}, any |-> FALSE, ofAny |-> FALSE, counter |-> 0, events |-> {}]
CatchUp == [fences : SUBSET Fences, any : BOOLEAN, ofAny : BOOLEAN,
            counter : Values, events : SUBSET Events]
\* A semaphore is unsignaled and idle, or owed to somebody who will wait for it, or waited
\* for by a submit with that fence.
Stages == {"idle", "owed"} \cup Fences \cup {NoFence}
\* No fence is one of the two marks.
ASSUME StagesAssumption == {"idle", "owed"} \cap (Fences \cup {NoFence}) = {}
Knowledge == [fences : SUBSET Fences, counter : Values, events : SUBSET Events]

TypeOK ==
  /\ inRange \in BOOLEAN
  /\ calls \in 0 .. Larger(MaxBefore, MaxInRange)
  /\ tracked \in SyncState
  /\ gpu \in [Sides -> Gpu]
  /\ used \subseteq Fences /\ stage \in [Semaphores -> Stages]
  /\ known \in Knowledge
  /\ pendingFences \subseteq Fences
  /\ catchUp \in CatchUp /\ invalid \in BOOLEAN

Init ==
  /\ inRange = FALSE /\ calls = 0
  /\ tracked = NothingSignaled
  /\ gpu = [side \in Sides |-> IdleGpu]
  /\ used = {} /\ stage = [s \in Semaphores |-> "idle"]
  /\ known = [fences |-> {}, counter |-> 0, events |-> {}]
  /\ pendingFences = {} /\ catchUp = NoWait /\ invalid = FALSE
-----------------------------------------------------------------------------
(***************************************************************************)
(* The GPU: a queue performs what it was given in order, each submit when  *)
(* what it waits for is signaled and what it signals has been consumed.    *)
(***************************************************************************)
MayPerform(side, q) ==
  LET g == gpu[side]  x == Head(g.queues[q]) IN
  /\ g.queues[q] # <<>>
  /\ x.waits \subseteq g.semaphores
  /\ x.signals \cap (g.semaphores \ x.waits) = {}
  /\ g.counter >= x.reach

AtRest(side) == \A q \in Timelines : ~MayPerform(side, q)

Perform(side, q) ==
  /\ MayPerform(side, q)
  /\ LET g == gpu[side]  x == Head(g.queues[q]) IN
     gpu' = [gpu EXCEPT ![side] =
               [fences |-> g.fences \cup ({x.fence} \ {NoFence}),
                semaphores |-> (g.semaphores \ x.waits) \cup x.signals,
                counter |-> Larger(g.counter, x.counter),
                events |-> After(After(g.events, x.effect), x.inner),
                queues |-> [g.queues EXCEPT ![q] = Tail(@)]]]
  /\ UNCHANGED <<inRange, calls, tracked, appVars, replayVars>>

PendingOf(side) ==
  UNION {{gpu[side].queues[q][i] : i \in DOMAIN gpu[side].queues[q]} : q \in Timelines}

\* Where a call takes effect.
Active == IF inRange THEN Sides ELSE {"original"}

Enqueue(q, x) ==
  gpu' = [side \in Sides |->
            IF side \in Active THEN [gpu[side] EXCEPT !.queues[q] = Append(@, x)] ELSE gpu[side]]
-----------------------------------------------------------------------------
(***************************************************************************)
(* Every call.  Only the original is tracked, up to the range.             *)
(***************************************************************************)
Call ==
  /\ catchUp = NoWait
  /\ calls < IF inRange THEN MaxInRange ELSE MaxBefore
  /\ calls' = calls + 1
  /\ UNCHANGED inRange

Track(state) == tracked' = IF inRange THEN tracked ELSE state

\* Fault: the null handle is not looked at.
FaultMarkPending(f) ==
  pendingFences' = IF inRange THEN pendingFences \cup {f} ELSE pendingFences
MarkPending(f) ==
  pendingFences' = IF inRange THEN pendingFences \cup ({f} \ {NoFence}) ELSE pendingFences

(***************************************************************************)
(* The application: a fence is reset before it is used again, a binary     *)
(* semaphore is signaled once for every wait and after the wait is known   *)
(* to be over, and the timeline only grows.                                *)
(***************************************************************************)
MayUse(x) ==
  /\ x.fence \notin used
  /\ \A s \in x.waits : stage[s] = "owed"
  /\ \A s \in x.signals : stage[s] = "idle"
  /\ x.counter > 0 => \A y \in PendingOf("original") \cup {gpu["original"]} : x.counter > y.counter

Use(x) ==
  /\ MayUse(x)
  /\ used' = used \cup ({x.fence} \ {NoFence})
  /\ stage' = [s \in Semaphores |-> CASE s \in x.waits -> x.fence
                                      [] s \in x.signals -> "owed"
                                      [] OTHER -> stage[s]]
-----------------------------------------------------------------------------
(***************************************************************************)
(* Calls that are given to a queue or to the presentation engine.          *)
(***************************************************************************)
QueueSubmit(q, x) ==
  /\ Call /\ Use(x)
  /\ Enqueue(q, x)
  /\ Track(OnQueueSubmit(tracked, x))
  /\ MarkPending(x.fence)
  /\ UNCHANGED <<known, catchUp, invalid>>

EmptySubmit(f) == [waits |-> {}, reach |-> 0, signals |-> {}, counter |-> 0,
                   effect |-> NoEffect, inner |-> NoEffect, fence |-> f]

QueueBindSparse(q, f) ==
  /\ Call /\ Use(EmptySubmit(f))
  /\ Enqueue(q, EmptySubmit(f))
  /\ Track(OnQueueBindSparse(tracked, f))
  /\ MarkPending(f)
  /\ UNCHANGED <<known, catchUp, invalid>>

AcquireNextImage(s, f) ==
  LET x == [EmptySubmit(f) EXCEPT !.signals = {s}] IN
  /\ Call /\ Use(x)
  /\ Enqueue(Display, x)
  /\ Track(OnAcquire(tracked, s, f))
  /\ MarkPending(f)
  /\ UNCHANGED <<known, catchUp, invalid>>

\* One that waits for nothing is left out: it changes nothing.
QueuePresent(q, waits) ==
  /\ waits # {}
  /\ LET x == [EmptySubmit(NoFence) EXCEPT !.waits = waits] IN Call /\ Use(x) /\ Enqueue(q, x)
  /\ Track(OnQueuePresent(tracked, waits))
  /\ UNCHANGED <<known, replayVars>>

\* A fence is created signaled, a timeline semaphore gets its value on creation.
EmitCreationCommand(state) ==
  [IdleGpu EXCEPT !.fences = state.fences, !.counter = state.counter]

\* Then the semaphores are signaled by a submit of their own and the events set, and
\* vkDeviceWaitIdle ends the restore.
RestoreState(state) ==
  [EmitCreationCommand(state) EXCEPT !.semaphores = state.semaphores, !.events = state.events]

\* The present before the range.  A fence that is created signaled has a pending signal.
QueuePresentAndRestoreState(q, waits) ==
  /\ ~inRange /\ inRange' = TRUE /\ calls' = 0
  /\ LET x == [EmptySubmit(NoFence) EXCEPT !.waits = waits] IN
     /\ Use(x)
     /\ tracked' = OnQueuePresent(tracked, waits)
     /\ gpu' = [original |-> [gpu["original"] EXCEPT !.queues[q] = Append(@, x)],
                replay |-> RestoreState(tracked')]
     /\ pendingFences' = tracked'.fences
  /\ UNCHANGED <<known, catchUp, invalid>>
-----------------------------------------------------------------------------
(***************************************************************************)
(* Calls that signal or reset at once.                                     *)
(***************************************************************************)
ResetFences(fs) ==
  /\ fs \subseteq known.fences /\ Call
  /\ gpu' = [side \in Sides |->
               IF side \in Active THEN [gpu[side] EXCEPT !.fences = @ \ fs] ELSE gpu[side]]
  /\ Track(OnResetFences(tracked, fs))
  /\ pendingFences' = IF inRange THEN pendingFences \ fs ELSE pendingFences
  /\ used' = used \ fs /\ known' = [known EXCEPT !.fences = @ \ fs]
  /\ UNCHANGED <<stage, catchUp, invalid>>

\* Above the value of the semaphore, as the application knows it, and below every value
\* that is going to be signaled, by submits that wait for this one.
MaySignal(v) ==
  /\ known.counter = gpu["original"].counter /\ v > gpu["original"].counter
  /\ \A x \in PendingOf("original") : x.counter > 0 => v < x.counter /\ v <= x.reach

\* The replay makes the call without a look at the value its semaphore has.  If that is
\* too high, Vulkan does not say what becomes of it.
SignalSemaphore(v) ==
  /\ MaySignal(v) /\ Call
  /\ LET passed == inRange /\ v <= gpu["replay"].counter IN
     /\ invalid' = (invalid \/ passed)
     /\ \E reached \in {v} \cup (IF passed THEN {gpu["replay"].counter} ELSE {}) :
          gpu' = [gpu EXCEPT !["original"].counter = v,
                             !["replay"].counter = IF inRange THEN reached ELSE @]
  /\ Track(OnSignalSemaphore(tracked, v))
  /\ known' = [known EXCEPT !.counter = v]
  /\ UNCHANGED <<used, stage, pendingFences, catchUp>>

\* An event is set or reset only if no submit is going to do the opposite.
SetEvent(e) ==
  /\ \A x \in PendingOf("original") : e \notin x.effect.resets \cup x.inner.resets
  /\ Call
  /\ gpu' = [side \in Sides |->
               IF side \in Active THEN [gpu[side] EXCEPT !.events = @ \cup {e}] ELSE gpu[side]]
  /\ Track(OnSetEvent(tracked, e))
  /\ known' = [known EXCEPT !.events = @ \cup {e}]
  /\ UNCHANGED <<used, stage, replayVars>>

ResetEvent(e) ==
  /\ e \in known.events
  /\ \A x \in PendingOf("original") : e \notin x.effect.sets \cup x.inner.sets
  /\ Call
  /\ gpu' = [side \in Sides |->
               IF side \in Active THEN [gpu[side] EXCEPT !.events = @ \ {e}] ELSE gpu[side]]
  /\ Track(OnResetEvent(tracked, e))
  /\ known' = [known EXCEPT !.events = @ \ {e}]
  /\ UNCHANGED <<used, stage, replayVars>>
-----------------------------------------------------------------------------
(***************************************************************************)
(* Calls that ask what is signaled, with the catch-up waits of the replay. *)
(***************************************************************************)
Holds(wait, side) ==
  /\ IF wait.any THEN wait.fences \cap gpu[side].fences # {} ELSE wait.fences \subseteq gpu[side].fences
  /\ gpu[side].counter >= wait.counter
  /\ wait.events \subseteq gpu[side].events

Asking == Call /\ UNCHANGED <<tracked, gpu, used, pendingFences, invalid>>

\* The replay waits if the original has seen what it does not see.
CatchUpWith(asked, wait) ==
  catchUp' = IF inRange /\ Holds(asked, "original") /\ ~Holds(asked, "replay") THEN wait ELSE NoWait

AllFences(fs) == [NoWait EXCEPT !.fences = fs]
AnyFence(fs) == [NoWait EXCEPT !.fences = fs, !.any = TRUE]

Learn(fs) ==
  IF fs \subseteq gpu["original"].fences
  THEN /\ known' = [known EXCEPT !.fences = @ \cup fs]
       /\ stage' = [s \in Semaphores |-> IF stage[s] \in fs THEN "idle" ELSE stage[s]]
  ELSE UNCHANGED <<known, stage>>

GetFenceStatus(f) ==
  /\ Asking
  /\ CatchUpWith(AllFences({f}), AllFences({f} \cap pendingFences))
  /\ Learn({f})

\* vkWaitForFences with a timeout: the fences without a pending signal are dropped, the
\* others are waited for until all are signaled.
PollFences(fs) ==
  /\ Asking
  /\ CatchUpWith(AllFences(fs), AllFences(fs \cap pendingFences))
  /\ Learn(fs)

PollAnyFence(fs) ==
  /\ Asking
  /\ CatchUpWith(AnyFence(fs), [AllFences(fs \cap pendingFences) EXCEPT !.ofAny = TRUE])
  /\ UNCHANGED <<known, stage>>

\* vkWaitForFences without one, which has returned in the original: the call itself waits.
WaitForFences(fs) ==
  /\ Asking /\ Holds(AllFences(fs), "original")
  /\ CatchUpWith(AllFences(fs), AllFences(fs))
  /\ Learn(fs)

WaitForAnyFence(fs) ==
  /\ Asking /\ Holds(AnyFence(fs), "original")
  /\ CatchUpWith(AnyFence(fs), AnyFence(fs))
  /\ UNCHANGED <<known, stage>>

\* A call that has returned v.
GetSemaphoreCounterValue(v) ==
  LET wait == [NoWait EXCEPT !.counter = v] IN
  /\ Asking /\ Holds(wait, "original")
  /\ CatchUpWith(wait, wait)
  /\ known' = [known EXCEPT !.counter = Larger(@, v)]
  /\ UNCHANGED stage

\* With a timeout or without one: the replay repeats the call.
WaitSemaphores(v) ==
  LET wait == [NoWait EXCEPT !.counter = v] IN
  /\ Asking
  /\ CatchUpWith(wait, wait)
  /\ known' = IF Holds(wait, "original") THEN [known EXCEPT !.counter = Larger(@, v)] ELSE known
  /\ UNCHANGED stage

GetEventStatus(e) ==
  LET wait == [NoWait EXCEPT !.events = {e}] IN
  /\ Asking
  /\ CatchUpWith(wait, wait)
  /\ known' = IF Holds(wait, "original") THEN [known EXCEPT !.events = @ \cup {e}] ELSE known
  /\ UNCHANGED stage

CatchUpEnds ==
  /\ catchUp # NoWait /\ Holds(catchUp, "replay")
  /\ catchUp' = NoWait
  /\ UNCHANGED <<inRange, calls, tracked, gpu, appVars, pendingFences, invalid>>
-----------------------------------------------------------------------------
Next ==
  \/ \E q \in Queues, x \in Submits : QueueSubmit(q, x)
  \/ \E q \in Queues, f \in Fences : QueueBindSparse(q, f)
  \/ \E s \in Semaphores, f \in Fences \cup {NoFence} : AcquireNextImage(s, f)
  \/ \E q \in Queues, waits \in SUBSET Semaphores :
        QueuePresent(q, waits) \/ QueuePresentAndRestoreState(q, waits)
  \/ \E fs \in SUBSET Fences \ {{}} :
        \/ ResetFences(fs)
        \/ PollFences(fs) \/ PollAnyFence(fs) \/ WaitForFences(fs) \/ WaitForAnyFence(fs)
  \/ \E f \in Fences : GetFenceStatus(f)
  \/ \E v \in Values \ {0} :
        SignalSemaphore(v) \/ GetSemaphoreCounterValue(v) \/ WaitSemaphores(v)
  \/ \E e \in Events : SetEvent(e) \/ ResetEvent(e) \/ GetEventStatus(e)
  \/ CatchUpEnds
  \/ \E side \in Sides, q \in Timelines : Perform(side, q)

Spec == Init /\ [][Next]_vars

\* The GPU of the replay performs what it can, and a wait that is over returns.
FairSpec ==
  Spec /\ WF_vars(CatchUpEnds) /\ \A q \in Timelines : WF_vars(Perform("replay", q))
-----------------------------------------------------------------------------
(***************************************************************************)
(* Properties.                                                             *)
(***************************************************************************)
\* The events that the command buffers of some submit reset, and those that secondary
\* command buffers set.
ResetBySubmits == UNION {x.effect.resets \cup x.inner.resets : x \in Submits}
SetInside == UNION {x.inner.sets : x \in Submits}
\* The events that are followed: set and reset by the host, set by primary command buffers.
FollowedEvents == Events \ (ResetBySubmits \cup SetInside)

\* Whatever the application has seen signaled, before the range or in it, is signaled
\* in the replay when it goes on (stateTrackingService.cpp:2043,
\* replayCustomizationLayer.cpp:206): fences, the timeline, and the events that are
\* followed.
SeenIsReproduced ==
  inRange /\ catchUp = NoWait =>
    /\ known.fences \subseteq gpu["replay"].fences
    /\ known.events \cap FollowedEvents \subseteq gpu["replay"].events
    /\ known.counter <= gpu["replay"].counter

\* A submit that waits for a semaphore which was signaled before the range gets it, and
\* one that signals finds it unsignaled: when both GPUs have come to rest, nothing is
\* stuck in the replay that is not stuck in the original (syncStateService.cpp:115),
\* as long as the replay has made no call that Vulkan forbids.
ReplayDoesNotStarve ==
  inRange /\ ~invalid /\ AtRest("original") /\ AtRest("replay") =>
    \A q \in Timelines : Len(gpu["replay"].queues[q]) <= Len(gpu["original"].queues[q])

\* A wait for one of several fences has become one for all that have a pending signal,
\* and one of these needs a call that comes later in the stream.
HangsOnAny ==
  catchUp.ofAny /\ AtRest("replay") /\ catchUp.fences \cap gpu["replay"].fences # {}

\* A wait for an event that the original has seen set, and that is not followed: it was
\* tracked as reset ahead of the GPU, or set untracked, or the GPU of the replay has reset
\* it already (replayCustomizationLayer.cpp:235).
HangsOnEvent ==
  /\ AtRest("replay") /\ ~(catchUp.events \subseteq gpu["replay"].events)
  /\ catchUp.events \cap FollowedEvents = {}

\* Unless the replay has made an invalid call, these are the only ways to hang: every
\* other catch-up wait returns (fencePendingSignalService.h:19), for fences, for the
\* timeline and for the events that are followed.
CatchUpReturnsOrHangs ==
  catchUp # NoWait ~> catchUp = NoWait \/ HangsOnAny \/ HangsOnEvent \/ invalid

\* The fences that have a pending signal become signaled, and the wait returns
\* (replayCustomizationLayer.cpp:336).
CatchUpReturns == catchUp # NoWait ~> catchUp = NoWait
=============================================================================
