-------------------------- MODULE VulkanReplayProofs --------------------------
(***************************************************************************)
(* Proofs about VulkanReplay, for any queues, objects and submits, and for *)
(* a range that begins after any number of calls: types, that whatever the *)
(* application has seen signaled is signaled in the replay when it goes    *)
(* on, except for events that command buffers reset or that secondary ones *)
(* set, and that nothing is stuck in the replay that is not stuck in the    *)
(* original.                                                               *)
(*                                                                         *)
(* What was seen before the range is restored, since what is tracked is    *)
(* never behind the GPU of the original nor behind what its queues have    *)
(* still to do.  What is seen in the range is waited for, since a fence    *)
(* that is signaled in the original has a pending signal in the replay.    *)
(* And what the original has performed the replay can perform in the same  *)
(* order.                                                                  *)
(***************************************************************************)
EXTENDS VulkanReplay, SequenceTheorems, WellFoundedInduction, TLAPS

Original == gpu["original"]
Replay == gpu["replay"]

\* A fence that is signaled, or that a queue is going to signal, is in use.
FencesInUse ==
  /\ Original.fences \subseteq used
  /\ \A q \in Timelines : \A i \in 1 .. Len(Original.queues[q]) :
       Original.queues[q][i].fence \in used \cup {NoFence}

\* A fence that a queue is going to signal is not signaled yet, and no other submit will
\* signal it.
FencesOnce ==
  \A q \in Timelines : \A i \in 1 .. Len(Original.queues[q]) :
    Original.queues[q][i].fence # NoFence =>
      /\ Original.queues[q][i].fence \notin Original.fences
      /\ \A r \in Timelines : \A j \in 1 .. Len(Original.queues[r]) :
           Original.queues[r][j].fence = Original.queues[q][i].fence => r = q /\ j = i

\* A fence that is in use is tracked, and has a pending signal in the range.
FencesFollowed == used \subseteq (IF inRange THEN pendingFences ELSE tracked.fences)

\* What is tracked is not behind what the GPU has done and has still to do, as for the
\* events that are followed.
TrackedAhead ==
  ~inRange =>
    /\ Original.counter <= tracked.counter
    /\ Original.events \cap FollowedEvents \subseteq tracked.events
    /\ \A q \in Timelines : \A i \in 1 .. Len(Original.queues[q]) :
         /\ Original.queues[q][i].counter <= tracked.counter
         /\ Original.queues[q][i].effect.sets \cap FollowedEvents \subseteq tracked.events

\* The application has seen only what is the case, as long as no command buffer resets it.
KnownIsSo ==
  /\ known.fences \subseteq Original.fences
  /\ known.events \cap FollowedEvents \subseteq Original.events
  /\ known.counter <= Original.counter

\* What is not signaled in the replay yet is being waited for.
SeenOrAwaited ==
  inRange =>
    /\ known.fences \subseteq Replay.fences \cup (IF catchUp.any THEN {} ELSE catchUp.fences)
    /\ known.events \cap FollowedEvents \subseteq Replay.events \cup catchUp.events
    /\ known.counter <= Replay.counter \/ known.counter <= catchUp.counter

ReplayInv ==
  /\ TypeOK
  /\ FencesInUse /\ FencesOnce /\ FencesFollowed
  /\ TrackedAhead /\ KnownIsSo /\ SeenOrAwaited

\* A submit in a queue leaves the events that are followed as they are, or sets them.
Harmless ==
  {x \in Submit : (x.effect.resets \cup x.inner.resets \cup x.inner.sets) \cap FollowedEvents = {}}
QueuesHarmless ==
  \A side \in Sides : \A q \in Timelines : gpu[side].queues[q] \in Seq(Harmless)
-----------------------------------------------------------------------------
(***************************************************************************)
(* Values of the model.                                                    *)
(***************************************************************************)
LEMMA LargerProperties ==
  ASSUME NEW v \in Values, NEW w \in Values
  PROVE  /\ Larger(v, w) \in Values
         /\ Larger(v, w) >= v /\ Larger(v, w) >= w
         /\ \A u \in Values : u >= v /\ u >= w => u >= Larger(v, w)
BY MaxValueAssumption DEF Values, Larger

LEMMA ValuesAreNumbers == Values \subseteq Nat /\ 0 \in Values
BY MaxValueAssumption DEF Values

LEMMA EmptySubmitType ==
  ASSUME NEW f \in Fences \cup {NoFence}
  PROVE  /\ EmptySubmit(f) \in Submit
         /\ EmptySubmit(f).fence = f /\ EmptySubmit(f).counter = 0
         /\ EmptySubmit(f).effect = NoEffect /\ EmptySubmit(f).inner = NoEffect
BY ValuesAreNumbers DEF EmptySubmit, Submit, Effect, NoEffect

LEMMA SignalingSubmitType ==
  ASSUME NEW f \in Fences \cup {NoFence}, NEW ss \in SUBSET Semaphores,
         NEW x, x = [EmptySubmit(f) EXCEPT !.signals = ss]
  PROVE  x \in Submit /\ x.fence = f /\ x.counter = 0 /\ x.effect = NoEffect /\ x.inner = NoEffect
BY ValuesAreNumbers DEF EmptySubmit, Submit, Effect, NoEffect

LEMMA WaitingSubmitType ==
  ASSUME NEW ss \in SUBSET Semaphores, NEW x, x = [EmptySubmit(NoFence) EXCEPT !.waits = ss]
  PROVE  /\ x \in Submit /\ x.fence = NoFence /\ x.counter = 0
         /\ x.effect = NoEffect /\ x.inner = NoEffect
BY ValuesAreNumbers DEF EmptySubmit, Submit, Effect, NoEffect

LEMMA NoEffectSetsNothing == NoEffect.sets = {} /\ NoEffect.resets = {}
BY DEF NoEffect

\* A submit is harmless, by the definition of what is followed, and so is one without effect.
LEMMA SubmitsAreHarmless == Submits \subseteq Harmless
<1>1. ASSUME NEW x \in Submits
      PROVE  (x.effect.resets \cup x.inner.resets \cup x.inner.sets) \cap FollowedEvents = {}
  BY DEF FollowedEvents, ResetBySubmits, SetInside
<1>. QED
  BY <1>1, SubmitsAssumption DEF Harmless

LEMMA NoEffectIsHarmless ==
  ASSUME NEW x \in Submit, x.effect = NoEffect, x.inner = NoEffect
  PROVE  x \in Harmless
BY DEF Harmless, NoEffect

LEMMA WaitTypes ==
  ASSUME NEW fs \in SUBSET Fences, NEW v \in Values, NEW es \in SUBSET Events
  PROVE  /\ NoWait \in CatchUp /\ AllFences(fs) \in CatchUp /\ AnyFence(fs) \in CatchUp
         /\ [AllFences(fs) EXCEPT !.ofAny = TRUE] \in CatchUp
         /\ [NoWait EXCEPT !.counter = v] \in CatchUp
         /\ [NoWait EXCEPT !.events = es] \in CatchUp
BY ValuesAreNumbers DEF NoWait, CatchUp, AllFences, AnyFence
-----------------------------------------------------------------------------
(***************************************************************************)
(* What the calls do to the GPUs.                                          *)
(***************************************************************************)
\* A GPU h after g was given a submit.
GivenTo(h, g, q, x) ==
  /\ h \in Gpu
  /\ h.fences = g.fences /\ h.counter = g.counter /\ h.events = g.events
  /\ h.queues[q] = Append(g.queues[q], x)
  /\ \A r \in Timelines \ {q} : h.queues[r] = g.queues[r]

LEMMA GiveIt ==
  ASSUME NEW g \in Gpu, NEW q \in Timelines, NEW x \in Submit
  PROVE  GivenTo([g EXCEPT !.queues[q] = Append(@, x)], g, q, x)
<1>. DEFINE h == [g EXCEPT !.queues[q] = Append(@, x)]
<1>1. g.queues \in [Timelines -> Seq(Submit)]
  BY DEF Gpu
<1>2. Append(g.queues[q], x) \in Seq(Submit)
  BY <1>1, AppendProperties
<1>3. h.queues = [g.queues EXCEPT ![q] = Append(@, x)]
  BY DEF Gpu
<1>4. h.queues \in [Timelines -> Seq(Submit)]
  BY <1>1, <1>2, <1>3
<1>5. /\ h.fences = g.fences /\ h.counter = g.counter /\ h.events = g.events
      /\ h.semaphores = g.semaphores
  BY DEF Gpu
<1>6. h \in Gpu
  BY <1>4 DEF Gpu
<1>7. /\ h.queues[q] = Append(g.queues[q], x)
      /\ \A r \in Timelines \ {q} : h.queues[r] = g.queues[r]
  BY <1>1, <1>3
<1>. QED
  BY <1>5, <1>6, <1>7 DEF GivenTo

LEMMA EnqueueEffect ==
  ASSUME gpu \in [Sides -> Gpu], NEW q \in Timelines, NEW x \in Submit, Enqueue(q, x)
  PROVE  /\ gpu' \in [Sides -> Gpu]
         /\ GivenTo(Original', Original, q, x)
         /\ Replay'.fences = Replay.fences /\ Replay'.counter = Replay.counter
         /\ Replay'.events = Replay.events
<1>. DEFINE given(side) == [gpu[side] EXCEPT !.queues[q] = Append(@, x)]
<1>1. \A side \in Sides : GivenTo(given(side), gpu[side], q, x)
  BY GiveIt
<1>2. \A side \in Sides : gpu'[side] = IF side \in Active THEN given(side) ELSE gpu[side]
  BY DEF Enqueue
<1>3. \A side \in Sides : given(side) \in Gpu
  BY <1>1 DEF GivenTo
<1>4. gpu' \in [Sides -> Gpu]
  BY <1>3 DEF Enqueue
<1>5. Original' = given("original")
  BY <1>2 DEF Original, Active, Sides
<1>6. GivenTo(Original', Original, q, x)
  BY <1>1, <1>5 DEF Original, Sides
<1>7. \A side \in Sides : /\ gpu'[side].fences = gpu[side].fences
                          /\ gpu'[side].counter = gpu[side].counter
                          /\ gpu'[side].events = gpu[side].events
  BY <1>1, <1>2 DEF GivenTo
<1>. QED
  BY <1>4, <1>6, <1>7 DEF Replay, Sides

\* What a queue holds after it was given a submit.
LEMMA HeldAfterGiving ==
  ASSUME NEW g \in Gpu, NEW h, NEW q \in Timelines, NEW x \in Submit, GivenTo(h, g, q, x),
         NEW r \in Timelines, NEW i \in 1 .. Len(h.queues[r])
  PROVE  \/ i \in 1 .. Len(g.queues[r]) /\ h.queues[r][i] = g.queues[r][i]
         \/ r = q /\ i = Len(g.queues[q]) + 1 /\ h.queues[r][i] = x
<1>1. g.queues[q] \in Seq(Submit)
  BY DEF Gpu
<1>2. CASE r = q
  <2>1. h.queues[r] = Append(g.queues[q], x)
    BY <1>2 DEF GivenTo
  <2>2. Len(g.queues[q]) \in Nat /\ Len(h.queues[r]) = Len(g.queues[q]) + 1
    BY <1>1, <2>1, AppendProperties, LenProperties
  <2>3. i \in 1 .. Len(g.queues[q]) \/ i = Len(g.queues[q]) + 1
    BY <2>2
  <2>. QED
    BY <1>1, <1>2, <2>1, <2>3, AppendProperties
<1>3. CASE r # q
  BY <1>3 DEF GivenTo
<1>. QED
  BY <1>2, <1>3

\* The GPUs after the first submit of a queue was performed.
LEMMA PerformEffect ==
  ASSUME gpu \in [Sides -> Gpu], NEW side \in Sides, NEW q \in Timelines, Perform(side, q),
         NEW x, x = Head(gpu[side].queues[q])
  PROVE  /\ gpu' \in [Sides -> Gpu]
         /\ x \in Submit /\ gpu[side].queues[q] # <<>>
         /\ gpu'[side].fences = gpu[side].fences \cup ({x.fence} \ {NoFence})
         /\ gpu'[side].counter = Larger(gpu[side].counter, x.counter)
         /\ gpu'[side].events = After(After(gpu[side].events, x.effect), x.inner)
         /\ gpu'[side].queues[q] = Tail(gpu[side].queues[q])
         /\ \A r \in Timelines \ {q} : gpu'[side].queues[r] = gpu[side].queues[r]
         /\ \A other \in Sides \ {side} : gpu'[other] = gpu[other]
<1>. DEFINE g == gpu[side]
            h == [fences |-> g.fences \cup ({x.fence} \ {NoFence}),
                  semaphores |-> (g.semaphores \ x.waits) \cup x.signals,
                  counter |-> Larger(g.counter, x.counter),
                  events |-> After(After(g.events, x.effect), x.inner),
                  queues |-> [g.queues EXCEPT ![q] = Tail(@)]]
<1>1. g \in Gpu /\ g.queues \in [Timelines -> Seq(Submit)] /\ g.queues[q] # <<>>
  BY DEF Perform, MayPerform, Gpu
<1>2. x \in Submit /\ Tail(g.queues[q]) \in Seq(Submit)
  BY <1>1, HeadTailProperties
<1>3. gpu' = [gpu EXCEPT ![side] = h]
  BY DEF Perform
<1>4. h.counter \in Values
  BY <1>1, <1>2, LargerProperties DEF Gpu, Submit
<1>5. [g.queues EXCEPT ![q] = Tail(@)] \in [Timelines -> Seq(Submit)]
  BY <1>1, <1>2
<1>6. h \in Gpu
  <2>1. After(After(g.events, x.effect), x.inner) \subseteq Events
    BY <1>1, <1>2 DEF Gpu, Submit, Effect, After
  <2>. QED
    BY <1>1, <1>2, <1>4, <1>5, <2>1 DEF Gpu, Submit
<1>7. /\ gpu' \in [Sides -> Gpu] /\ gpu'[side] = h
      /\ \A other \in Sides \ {side} : gpu'[other] = gpu[other]
  BY <1>3, <1>6
<1>. QED
  BY <1>1, <1>2, <1>7

\* What a queue holds after the first submit of one was performed.
LEMMA HeldAfterPerforming ==
  ASSUME gpu \in [Sides -> Gpu], NEW side \in Sides, NEW q \in Timelines, Perform(side, q),
         NEW r \in Timelines, NEW i \in 1 .. Len(gpu'[side].queues[r])
  PROVE  \/ /\ r = q /\ i + 1 \in 1 .. Len(gpu[side].queues[r])
            /\ gpu'[side].queues[r][i] = gpu[side].queues[r][i + 1]
         \/ /\ r # q /\ i \in 1 .. Len(gpu[side].queues[r])
            /\ gpu'[side].queues[r][i] = gpu[side].queues[r][i]
<1>1. gpu[side].queues[q] \in Seq(Submit) /\ gpu[side].queues[q] # <<>>
  BY DEF Gpu, Perform, MayPerform
<1>2. CASE r = q
  <2>1. gpu'[side].queues[r] = Tail(gpu[side].queues[q])
    BY <1>2, PerformEffect
  <2>2. /\ Len(gpu[side].queues[q]) \in Nat
        /\ Len(gpu'[side].queues[r]) = Len(gpu[side].queues[q]) - 1
        /\ gpu'[side].queues[r][i] = gpu[side].queues[q][i + 1]
    BY <1>1, <2>1, HeadTailProperties, LenProperties
  <2>. QED
    BY <1>2, <2>2
<1>3. CASE r # q
  BY <1>3, PerformEffect
<1>. QED
  BY <1>2, <1>3

\* What this does to the events that are followed.
LEMMA PerformFollowed ==
  ASSUME gpu \in [Sides -> Gpu], QueuesHarmless, NEW side \in Sides, NEW q \in Timelines,
         Perform(side, q), NEW x, x = Head(gpu[side].queues[q])
  PROVE  /\ gpu'[side].events \cap FollowedEvents
              = (gpu[side].events \cup x.effect.sets) \cap FollowedEvents
         /\ \A r \in Timelines : gpu'[side].queues[r] \in Seq(Harmless)
<1>1. /\ gpu[side].queues[q] # <<>>
      /\ gpu'[side].events = After(After(gpu[side].events, x.effect), x.inner)
      /\ gpu'[side].queues[q] = Tail(gpu[side].queues[q])
      /\ \A r \in Timelines \ {q} : gpu'[side].queues[r] = gpu[side].queues[r]
  BY PerformEffect
<1>2. \A r \in Timelines : gpu[side].queues[r] \in Seq(Harmless)
  BY DEF QueuesHarmless
<1>3. x \in Harmless /\ gpu'[side].queues[q] \in Seq(Harmless)
  BY <1>1, <1>2, HeadTailProperties
<1>. QED
  BY <1>1, <1>2, <1>3 DEF After, Harmless

\* The first submit of a queue.
LEMMA FirstIsHead ==
  ASSUME gpu \in [Sides -> Gpu], NEW side \in Sides, NEW q \in Timelines,
         gpu[side].queues[q] # <<>>
  PROVE  1 \in 1 .. Len(gpu[side].queues[q]) /\ Head(gpu[side].queues[q]) = gpu[side].queues[q][1]
<1>1. gpu[side].queues[q] \in Seq(Submit)
  BY DEF Gpu
<1>. QED
  BY <1>1, EmptySeq
-----------------------------------------------------------------------------
(***************************************************************************)
(* What is tracked.                                                        *)
(***************************************************************************)
\* State t after state s, when a submit will signal fence f, a value v and events es.
Follows(t, s, f, v, es) ==
  /\ t \in SyncState
  /\ s.fences \cup ({f} \ {NoFence}) \subseteq t.fences
  /\ s.counter <= t.counter /\ v <= t.counter
  /\ (s.events \cup es) \cap FollowedEvents \subseteq t.events

LEMMA SubmitFollows ==
  ASSUME NEW s \in SyncState, NEW x \in Harmless
  PROVE  Follows(OnQueueSubmit(s, x), s, x.fence, x.counter, x.effect.sets)
<1>. x \in Submit
  BY DEF Harmless
<1>1. s.counter \in Values /\ x.counter \in Values
  BY DEF SyncState, Submit
<1>2. /\ OnQueueSubmit(s, x).fences = s.fences \cup ({x.fence} \ {NoFence})
      /\ OnQueueSubmit(s, x).counter = Larger(s.counter, x.counter)
      /\ OnQueueSubmit(s, x).events = After(s.events, x.effect)
      /\ OnQueueSubmit(s, x) \in [fences : SUBSET Fences, semaphores : SUBSET Semaphores,
                                  counter : {Larger(s.counter, x.counter)}, events : SUBSET Events]
  BY DEF SyncState, Submit, Effect, After, OnQueueSubmit, UpdateTimelineSemaphoreValue, SignalFence
<1>3. OnQueueSubmit(s, x) \in SyncState
  BY <1>1, <1>2, LargerProperties DEF SyncState
<1>4. (s.events \cup x.effect.sets) \cap FollowedEvents \subseteq OnQueueSubmit(s, x).events
  BY <1>2 DEF After, Harmless
<1>. QED
  BY <1>1, <1>2, <1>3, <1>4, LargerProperties, ValuesAreNumbers DEF Follows

LEMMA BindFollows ==
  ASSUME NEW s \in SyncState, NEW f \in Fences \cup {NoFence}
  PROVE  Follows(OnQueueBindSparse(s, f), s, f, 0, {})
<1>1. s.counter \in Nat
  BY ValuesAreNumbers DEF SyncState
<1>. QED
  BY <1>1 DEF SyncState, OnQueueBindSparse, SignalFence, Follows

LEMMA AcquireFollows ==
  ASSUME NEW s \in SyncState, NEW sem \in Semaphores, NEW f \in Fences \cup {NoFence}
  PROVE  Follows(OnAcquire(s, sem, f), s, f, 0, {})
<1>1. s.counter \in Nat
  BY ValuesAreNumbers DEF SyncState
<1>2. OnAcquire(s, sem, f) \in SyncState
  BY DEF SyncState, OnAcquire, SignalFence
<1>3. /\ OnAcquire(s, sem, f).fences = s.fences \cup ({f} \ {NoFence})
      /\ OnAcquire(s, sem, f).counter = s.counter /\ OnAcquire(s, sem, f).events = s.events
  BY DEF SyncState, OnAcquire, SignalFence
<1>. QED
  BY <1>1, <1>2, <1>3 DEF Follows

LEMMA PresentFollows ==
  ASSUME NEW s \in SyncState, NEW ss \in SUBSET Semaphores
  PROVE  /\ Follows(OnQueuePresent(s, ss), s, NoFence, 0, {})
         /\ OnQueuePresent(s, ss).fences = s.fences
<1>1. s.counter \in Nat
  BY ValuesAreNumbers DEF SyncState
<1>. QED
  BY <1>1 DEF SyncState, OnQueuePresent, Follows
-----------------------------------------------------------------------------
(***************************************************************************)
(* Types that several steps need.                                          *)
(***************************************************************************)
LEMMA CallType ==
  ASSUME TypeOK, Call
  PROVE  calls' \in 0 .. Larger(MaxBefore, MaxInRange) /\ inRange' \in BOOLEAN
BY BoundsAssumption DEF TypeOK, Call, Larger

LEMMA SidesTyped ==
  ASSUME TypeOK
  PROVE  /\ Original \in Gpu /\ Replay \in Gpu
         /\ Original.fences \subseteq Fences /\ Replay.fences \subseteq Fences
         /\ Original.counter \in Nat /\ Replay.counter \in Nat
         /\ Original.counter \in Values /\ Replay.counter \in Values
         /\ tracked.counter \in Nat /\ known.counter \in Nat
         /\ Original.queues \in [Timelines -> Seq(Submit)]
<1>1. Original \in Gpu /\ Replay \in Gpu
  BY DEF TypeOK, Original, Replay, Sides
<1>2. tracked.counter \in Nat /\ known.counter \in Nat
  BY ValuesAreNumbers DEF TypeOK, SyncState, Knowledge
<1>. QED
  BY <1>1, <1>2, ValuesAreNumbers DEF Gpu

\* What the application has seen is signaled in the replay between two calls.
LEMMA UpToDate ==
  ASSUME TypeOK, SeenOrAwaited, inRange, catchUp = NoWait
  PROVE  /\ known.fences \subseteq Replay.fences
         /\ known.events \cap FollowedEvents \subseteq Replay.events
         /\ known.counter <= Replay.counter
BY SidesTyped DEF SeenOrAwaited, NoWait
-----------------------------------------------------------------------------
(***************************************************************************)
(* Init establishes the invariant.                                         *)
(***************************************************************************)
LEMMA InvInit == Init => ReplayInv
<1>. SUFFICES ASSUME Init
              PROVE  ReplayInv
  OBVIOUS
<1>1. IdleGpu \in Gpu
  BY ValuesAreNumbers, EmptySeq DEF IdleGpu, Gpu
<1>2. Original = IdleGpu /\ Replay = IdleGpu
  BY DEF Init, Original, Replay, Sides
<1>3. \A q \in Timelines : Len(Original.queues[q]) = 0
  BY <1>2, EmptySeq DEF IdleGpu
<1>4. TypeOK
  <2>1. calls \in 0 .. Larger(MaxBefore, MaxInRange)
    BY BoundsAssumption DEF Init, Larger
  <2>2. tracked \in SyncState /\ known \in Knowledge
    BY ValuesAreNumbers DEF Init, SyncState, NothingSignaled, Knowledge
  <2>3. catchUp \in CatchUp
    BY ValuesAreNumbers DEF Init, CatchUp, NoWait
  <2>. QED
    BY <1>1, <2>1, <2>2, <2>3 DEF Init, TypeOK, Stages
<1>5. FencesInUse /\ FencesOnce
  BY <1>2, <1>3 DEF FencesInUse, FencesOnce, IdleGpu
<1>6. FencesFollowed
  BY DEF FencesFollowed, Init
<1>7. TrackedAhead
  BY <1>2, <1>3 DEF TrackedAhead, IdleGpu, Init, NothingSignaled
<1>8. KnownIsSo
  BY <1>2 DEF KnownIsSo, IdleGpu, Init
<1>9. SeenOrAwaited
  BY DEF SeenOrAwaited, Init
<1>. QED
  BY <1>4, <1>5, <1>6, <1>7, <1>8, <1>9 DEF ReplayInv
-----------------------------------------------------------------------------
(***************************************************************************)
(* A call that gives submit x to queue q.                                  *)
(***************************************************************************)
\* What such a call does to the fences that are used, and where they are followed.
Given(q, x) ==
  /\ GivenTo(Original', Original, q, x)
  /\ x.fence \notin used
  /\ used' = used \cup ({x.fence} \ {NoFence})

LEMMA GivenFences ==
  ASSUME ReplayInv, NEW q \in Timelines, NEW x \in Submit, Given(q, x)
  PROVE  FencesInUse' /\ FencesOnce'
<1>1. Original \in Gpu
  BY SidesTyped DEF ReplayInv
<1>2. Original'.fences = Original.fences
  BY DEF Given, GivenTo
<1>3. ASSUME NEW r \in Timelines, NEW i \in 1 .. Len(Original'.queues[r])
      PROVE  \/ i \in 1 .. Len(Original.queues[r]) /\ Original'.queues[r][i] = Original.queues[r][i]
             \/ r = q /\ i = Len(Original.queues[q]) + 1 /\ Original'.queues[r][i] = x
  BY <1>1, <1>3, HeldAfterGiving DEF Given
<1>4. x.fence \in Fences \cup {NoFence}
  BY DEF Submit
<1>5. FencesInUse'
  <2>1. Original'.fences \subseteq used'
    BY <1>2 DEF Given, ReplayInv, FencesInUse
  <2>2. ASSUME NEW r \in Timelines, NEW i \in 1 .. Len(Original'.queues[r])
        PROVE  Original'.queues[r][i].fence \in used' \cup {NoFence}
    BY <2>2, <1>3 DEF Given, ReplayInv, FencesInUse
  <2>. QED
    BY <2>1, <2>2 DEF FencesInUse
<1>6. FencesOnce'
  <2>. SUFFICES ASSUME NEW r1 \in Timelines, NEW i1 \in 1 .. Len(Original'.queues[r1]),
                       Original'.queues[r1][i1].fence # NoFence
                PROVE  /\ Original'.queues[r1][i1].fence \notin Original'.fences
                       /\ \A r2 \in Timelines : \A i2 \in 1 .. Len(Original'.queues[r2]) :
                            Original'.queues[r2][i2].fence = Original'.queues[r1][i1].fence
                              => r2 = r1 /\ i2 = i1
    BY DEF FencesOnce
  <2>1. Original'.queues[r1][i1].fence \notin Original'.fences
    BY <1>2, <1>3 DEF Given, ReplayInv, FencesInUse, FencesOnce
  <2>2. ASSUME NEW r2 \in Timelines, NEW i2 \in 1 .. Len(Original'.queues[r2]),
               Original'.queues[r2][i2].fence = Original'.queues[r1][i1].fence
        PROVE  r2 = r1 /\ i2 = i1
    <3>1. CASE /\ i1 \in 1 .. Len(Original.queues[r1])
               /\ Original'.queues[r1][i1] = Original.queues[r1][i1]
               /\ i2 \in 1 .. Len(Original.queues[r2])
               /\ Original'.queues[r2][i2] = Original.queues[r2][i2]
      BY <2>2, <3>1 DEF ReplayInv, FencesOnce
    <3>2. CASE /\ i1 \in 1 .. Len(Original.queues[r1])
               /\ Original'.queues[r1][i1] = Original.queues[r1][i1]
               /\ Original'.queues[r2][i2] = x
      <4>1. Original.queues[r1][i1].fence \in used
        BY <3>2 DEF ReplayInv, FencesInUse
      <4>. QED
        BY <2>2, <3>2, <4>1 DEF Given
    <3>3. CASE /\ i2 \in 1 .. Len(Original.queues[r2])
               /\ Original'.queues[r2][i2] = Original.queues[r2][i2]
               /\ Original'.queues[r1][i1] = x
      <4>1. Original.queues[r2][i2].fence \in used
        BY <2>2, <3>3 DEF ReplayInv, FencesInUse
      <4>. QED
        BY <2>2, <3>3, <4>1 DEF Given
    <3>4. CASE /\ r1 = q /\ i1 = Len(Original.queues[q]) + 1
               /\ r2 = q /\ i2 = Len(Original.queues[q]) + 1
      BY <3>4
    <3>. QED
      BY <1>3, <2>2, <3>1, <3>2, <3>3, <3>4
  <2>. QED
    BY <2>1, <2>2
<1>. QED
  BY <1>5, <1>6

LEMMA GivenStages ==
  ASSUME TypeOK, NEW x \in Submit, Use(x)
  PROVE  /\ x.fence \notin used
         /\ used' = used \cup ({x.fence} \ {NoFence}) /\ used' \subseteq Fences
         /\ stage' \in [Semaphores -> Stages]
<1>1. x.fence \in Fences \cup {NoFence}
  BY DEF Submit
<1>2. x.fence \in Stages
  BY <1>1 DEF Stages
<1>3. stage' = [s \in Semaphores |-> CASE s \in x.waits -> x.fence
                                       [] s \in x.signals -> "owed"
                                       [] OTHER -> stage[s]]
  BY DEF Use
<1>4. \A s \in Semaphores : stage[s] \in Stages /\ "owed" \in Stages
  BY DEF TypeOK, Stages
<1>5. stage' \in [Semaphores -> Stages]
  BY <1>2, <1>3, <1>4
<1>. QED
  BY <1>1, <1>5 DEF Use, MayUse, TypeOK

LEMMA SubmitStep ==
  ASSUME ReplayInv, NEW q \in Timelines, NEW x \in Submit,
         Call, Use(x), Enqueue(q, x), NEW t,
         Track(t), Follows(t, tracked, x.fence, x.counter, x.effect.sets), MarkPending(x.fence),
         UNCHANGED <<known, catchUp, invalid>>
  PROVE  ReplayInv'
<1>1. /\ gpu' \in [Sides -> Gpu]
      /\ GivenTo(Original', Original, q, x)
      /\ Replay'.fences = Replay.fences /\ Replay'.counter = Replay.counter
      /\ Replay'.events = Replay.events
  BY EnqueueEffect DEF ReplayInv, TypeOK
<1>2. /\ Original'.fences = Original.fences
      /\ Original'.counter = Original.counter
      /\ Original'.events = Original.events
  BY <1>1 DEF GivenTo
<1>3. Given(q, x)
  BY <1>1, GivenStages DEF Given, ReplayInv
<1>4. Original \in Gpu /\ x.fence \in Fences \cup {NoFence}
  BY SidesTyped DEF ReplayInv, Submit
<1>5. inRange' = inRange /\ catchUp = NoWait
  BY DEF Call
<1>6. TypeOK'
  <2>1. tracked' \in SyncState
    BY DEF Track, Follows, ReplayInv, TypeOK
  <2>2. pendingFences' \subseteq Fences
    BY <1>4 DEF MarkPending, ReplayInv, TypeOK
  <2>3. used' \subseteq Fences /\ stage' \in [Semaphores -> Stages]
    BY GivenStages DEF ReplayInv
  <2>4. known' \in Knowledge /\ catchUp' \in CatchUp
    BY DEF ReplayInv, TypeOK
  <2>. QED
    BY <1>1, <2>1, <2>2, <2>3, <2>4, CallType DEF ReplayInv, TypeOK
<1>7. FencesInUse' /\ FencesOnce'
  BY <1>3, GivenFences
<1>8. FencesFollowed'
  BY <1>3, <1>5 DEF Given, Follows, Track, MarkPending, ReplayInv, FencesFollowed
<1>9. TrackedAhead'
  <2>. SUFFICES ASSUME ~inRange
                PROVE  /\ Original'.counter <= tracked'.counter
                       /\ Original'.events \cap FollowedEvents \subseteq tracked'.events
                       /\ \A r \in Timelines : \A i \in 1 .. Len(Original'.queues[r]) :
                            /\ Original'.queues[r][i].counter <= tracked'.counter
                            /\ Original'.queues[r][i].effect.sets \cap FollowedEvents \subseteq tracked'.events
    BY <1>5 DEF TrackedAhead
  <2>1. tracked' = t
    BY DEF Track
  <2>2. t.counter \in Nat /\ tracked.counter \in Nat /\ Original.counter \in Nat
    BY SidesTyped, ValuesAreNumbers DEF Follows, SyncState, ReplayInv
  <2>3. /\ tracked.counter <= tracked'.counter /\ x.counter <= tracked'.counter
        /\ (tracked.events \cup x.effect.sets) \cap FollowedEvents \subseteq tracked'.events
    BY <2>1 DEF Follows
  <2>4. /\ Original'.counter <= tracked'.counter
        /\ Original'.events \cap FollowedEvents \subseteq tracked'.events
    BY <1>2, <2>1, <2>2, <2>3 DEF ReplayInv, TrackedAhead
  <2>5. ASSUME NEW r \in Timelines, NEW i \in 1 .. Len(Original'.queues[r])
        PROVE  /\ Original'.queues[r][i].counter <= tracked'.counter
               /\ Original'.queues[r][i].effect.sets \cap FollowedEvents \subseteq tracked'.events
    <3>1. CASE i \in 1 .. Len(Original.queues[r]) /\ Original'.queues[r][i] = Original.queues[r][i]
      <4>1. /\ Original.queues[r][i].counter <= tracked.counter
            /\ Original.queues[r][i].effect.sets \cap FollowedEvents \subseteq tracked.events
        BY <3>1 DEF ReplayInv, TrackedAhead
      <4>2. Original.queues[r] \in Seq(Submit)
        BY SidesTyped DEF ReplayInv
      <4>3. Original.queues[r][i] \in Submit
        BY <3>1, <4>2, ElementOfSeq
      <4>4. Original.queues[r][i].counter \in Nat
        BY <4>3, ValuesAreNumbers DEF Submit
      <4>. QED
        BY <3>1, <4>1, <4>4, <2>1, <2>2, <2>3
    <3>2. CASE Original'.queues[r][i] = x
      BY <3>2, <2>3
    <3>3. \/ i \in 1 .. Len(Original.queues[r]) /\ Original'.queues[r][i] = Original.queues[r][i]
          \/ Original'.queues[r][i] = x
      BY <1>1, <1>4, <2>5, HeldAfterGiving
    <3>. QED
      BY <3>1, <3>2, <3>3
  <2>. QED
    BY <2>4, <2>5
<1>10. KnownIsSo'
  BY <1>2 DEF ReplayInv, KnownIsSo
<1>11. SeenOrAwaited'
  BY <1>1, <1>5 DEF ReplayInv, SeenOrAwaited
<1>. QED
  BY <1>6, <1>7, <1>8, <1>9, <1>10, <1>11 DEF ReplayInv

LEMMA QueueSubmitStep ==
  ASSUME ReplayInv, NEW q \in Queues, NEW x \in Submits, QueueSubmit(q, x)
  PROVE  ReplayInv'
<1>1. /\ x \in Submit /\ x \in Harmless /\ q \in Timelines /\ tracked \in SyncState
  BY SubmitsAssumption, SubmitsAreHarmless DEF Timelines, ReplayInv, TypeOK
<1>. QED
  BY <1>1, SubmitStep, SubmitFollows DEF QueueSubmit

LEMMA QueueBindSparseStep ==
  ASSUME ReplayInv, NEW q \in Queues, NEW f \in Fences, QueueBindSparse(q, f)
  PROVE  ReplayInv'
<1>. DEFINE x == EmptySubmit(f)
<1>1. q \in Timelines /\ tracked \in SyncState
  BY DEF Timelines, ReplayInv, TypeOK
<1>2. x \in Submit /\ x.fence = f /\ x.counter = 0 /\ x.effect.sets = {}
  BY EmptySubmitType, NoEffectSetsNothing
<1>3. Follows(OnQueueBindSparse(tracked, f), tracked, f, 0, {})
  BY <1>1, BindFollows
<1>4. /\ Call /\ Use(x) /\ Enqueue(q, x) /\ Track(OnQueueBindSparse(tracked, f)) /\ MarkPending(f)
      /\ UNCHANGED <<known, catchUp, invalid>>
  BY DEF QueueBindSparse
<1>. HIDE DEF x
<1>. QED
  BY <1>1, <1>2, <1>3, <1>4, SubmitStep

LEMMA AcquireNextImageStep ==
  ASSUME ReplayInv, NEW s \in Semaphores, NEW f \in Fences \cup {NoFence}, AcquireNextImage(s, f)
  PROVE  ReplayInv'
<1>. DEFINE x == [EmptySubmit(f) EXCEPT !.signals = {s}]
<1>1. Display \in Timelines /\ tracked \in SyncState
  BY DEF Timelines, ReplayInv, TypeOK
<1>2. x \in Submit /\ x.fence = f /\ x.counter = 0 /\ x.effect.sets = {}
  BY ValuesAreNumbers DEF EmptySubmit, Submit, Effect, NoEffect
<1>3. Follows(OnAcquire(tracked, s, f), tracked, f, 0, {})
  BY <1>1, AcquireFollows
<1>4. /\ Call /\ Use(x) /\ Enqueue(Display, x) /\ Track(OnAcquire(tracked, s, f)) /\ MarkPending(f)
      /\ UNCHANGED <<known, catchUp, invalid>>
  BY DEF AcquireNextImage
<1>. HIDE DEF x
<1>. QED
  BY <1>1, <1>2, <1>3, <1>4, SubmitStep

LEMMA QueuePresentStep ==
  ASSUME ReplayInv, NEW q \in Queues, NEW waits \in SUBSET Semaphores, QueuePresent(q, waits)
  PROVE  ReplayInv'
<1>. DEFINE x == [EmptySubmit(NoFence) EXCEPT !.waits = waits]
<1>1. q \in Timelines /\ tracked \in SyncState
  BY DEF Timelines, ReplayInv, TypeOK
<1>2. x \in Submit /\ x.fence = NoFence /\ x.counter = 0 /\ x.effect.sets = {}
  BY WaitingSubmitType, NoEffectSetsNothing
<1>3. Follows(OnQueuePresent(tracked, waits), tracked, NoFence, 0, {})
  BY <1>1, PresentFollows
<1>4. /\ Call /\ Use(x) /\ Enqueue(q, x) /\ Track(OnQueuePresent(tracked, waits))
      /\ UNCHANGED <<known, pendingFences, catchUp, invalid>>
  BY DEF QueuePresent, replayVars
<1>5. MarkPending(NoFence)
  BY <1>4 DEF MarkPending
<1>. HIDE DEF x
<1>. QED
  BY <1>1, <1>2, <1>3, <1>4, <1>5, SubmitStep

(***************************************************************************)
(* The present before the range.                                           *)
(***************************************************************************)
LEMMA RestoredState ==
  ASSUME NEW s \in SyncState
  PROVE  /\ RestoreState(s) \in Gpu
         /\ RestoreState(s).fences = s.fences /\ RestoreState(s).counter = s.counter
         /\ RestoreState(s).events = s.events
<1>1. IdleGpu \in Gpu
  BY ValuesAreNumbers, EmptySeq DEF IdleGpu, Gpu
<1>2. EmitCreationCommand(s) \in Gpu
  BY <1>1 DEF Gpu, EmitCreationCommand, SyncState
<1>3. EmitCreationCommand(s).fences = s.fences /\ EmitCreationCommand(s).counter = s.counter
  BY <1>1 DEF Gpu, EmitCreationCommand
<1>. QED
  BY <1>2, <1>3 DEF Gpu, RestoreState, SyncState

LEMMA RestoreStep ==
  ASSUME ReplayInv, NEW q \in Queues, NEW waits \in SUBSET Semaphores,
         QueuePresentAndRestoreState(q, waits)
  PROVE  ReplayInv'
<1>. DEFINE x == [EmptySubmit(NoFence) EXCEPT !.waits = waits]
            g == [gpu["original"] EXCEPT !.queues[q] = Append(@, x)]
<1>1. x \in Submit /\ x.fence = NoFence /\ q \in Timelines
  BY WaitingSubmitType DEF Timelines
<1>2. /\ Use(x) /\ gpu' = [original |-> g, replay |-> RestoreState(tracked')]
      /\ ~inRange /\ inRange' /\ calls' = 0
      /\ tracked' = OnQueuePresent(tracked, waits) /\ pendingFences' = tracked'.fences
      /\ known' = known /\ catchUp' = catchUp /\ invalid' = invalid
  BY DEF QueuePresentAndRestoreState
<1>3. Follows(tracked', tracked, NoFence, 0, {}) /\ tracked'.fences = tracked.fences
  BY <1>2, PresentFollows DEF ReplayInv, TypeOK
<1>4. Original \in Gpu
  BY SidesTyped DEF ReplayInv
<1>5. GivenTo(g, Original, q, x)
  BY <1>1, <1>4, GiveIt DEF Original
<1>. HIDE DEF x, g
<1>6. /\ tracked' \in SyncState /\ tracked.counter <= tracked'.counter
      /\ tracked.events \cap FollowedEvents \subseteq tracked'.events
  BY <1>3 DEF Follows
<1>7. /\ RestoreState(tracked') \in Gpu
      /\ RestoreState(tracked').fences = tracked.fences
      /\ RestoreState(tracked').counter = tracked'.counter
      /\ RestoreState(tracked').events = tracked'.events
  BY <1>3, <1>6, RestoredState
<1>8. /\ gpu' \in [Sides -> Gpu] /\ Original' = g /\ Replay' = RestoreState(tracked')
  BY <1>2, <1>5, <1>7 DEF Sides, Original, Replay, GivenTo
<1>9. Given(q, x)
  BY <1>1, <1>2, <1>5, <1>8, GivenStages DEF Given, ReplayInv
<1>10. Original'.fences = Original.fences /\ Original'.counter = Original.counter
       /\ Original'.events = Original.events
  BY <1>9 DEF Given, GivenTo
<1>11. TypeOK'
  <2>1. used' \subseteq Fences /\ stage' \in [Semaphores -> Stages]
    BY <1>1, <1>2, GivenStages DEF ReplayInv
  <2>2. calls' \in 0 .. Larger(MaxBefore, MaxInRange)
    BY <1>2, BoundsAssumption DEF Larger
  <2>3. pendingFences' \subseteq Fences
    BY <1>2, <1>6 DEF SyncState
  <2>. QED
    BY <1>2, <1>6, <1>8, <2>1, <2>2, <2>3 DEF ReplayInv, TypeOK
<1>12. FencesInUse' /\ FencesOnce'
  BY <1>1, <1>9, GivenFences
<1>13. FencesFollowed'
  BY <1>1, <1>2, <1>3, <1>9 DEF Given, ReplayInv, FencesFollowed
<1>14. TrackedAhead'
  BY <1>2 DEF TrackedAhead
<1>15. KnownIsSo'
  BY <1>2, <1>10 DEF ReplayInv, KnownIsSo
<1>16. SeenOrAwaited'
  <2>1. known'.fences \subseteq Replay'.fences
    BY <1>2, <1>7, <1>8 DEF ReplayInv, KnownIsSo, FencesInUse, FencesFollowed
  <2>2. known'.events \cap FollowedEvents \subseteq Replay'.events
    BY <1>2, <1>6, <1>7, <1>8 DEF ReplayInv, KnownIsSo, TrackedAhead
  <2>3. known'.counter <= Replay'.counter
    <3>1. known.counter <= Original.counter /\ Original.counter <= tracked.counter
      BY <1>2 DEF ReplayInv, KnownIsSo, TrackedAhead
    <3>2. known.counter \in Nat /\ Original.counter \in Nat /\ tracked.counter \in Nat
          /\ tracked'.counter \in Nat
      BY <1>6, SidesTyped, ValuesAreNumbers DEF ReplayInv, SyncState
    <3>. QED
      BY <1>2, <1>6, <1>7, <1>8, <3>1, <3>2
  <2>. QED
    BY <2>1, <2>2, <2>3 DEF SeenOrAwaited
<1>. QED
  BY <1>11, <1>12, <1>13, <1>14, <1>15, <1>16 DEF ReplayInv
-----------------------------------------------------------------------------
(***************************************************************************)
(* A GPU performs a submit.                                                *)
(***************************************************************************)
LEMMA PerformReplayStep ==
  ASSUME ReplayInv, QueuesHarmless, NEW q \in Timelines, Perform("replay", q)
  PROVE  ReplayInv'
<1>. DEFINE x == Head(Replay.queues[q])
<1>1. gpu \in [Sides -> Gpu] /\ "replay" \in Sides /\ "original" \in Sides
  BY DEF ReplayInv, TypeOK, Sides
<1>2. /\ gpu' \in [Sides -> Gpu] /\ Original' = Original
      /\ Replay'.fences = Replay.fences \cup ({x.fence} \ {NoFence})
      /\ Replay'.counter = Larger(Replay.counter, x.counter)
      /\ Replay'.events \cap FollowedEvents = (Replay.events \cup x.effect.sets) \cap FollowedEvents
      /\ x \in Submit
  BY <1>1, PerformEffect, PerformFollowed DEF Original, Replay
<1>. HIDE DEF x
<1>3. UNCHANGED <<inRange, calls, tracked, appVars, pendingFences, catchUp, invalid>>
  BY DEF Perform, replayVars
<1>4. TypeOK'
  BY <1>2, <1>3 DEF ReplayInv, TypeOK, appVars
<1>5. FencesInUse' /\ FencesOnce' /\ FencesFollowed'
  BY <1>2, <1>3 DEF ReplayInv, FencesInUse, FencesOnce, FencesFollowed, appVars
<1>6. TrackedAhead' /\ KnownIsSo'
  BY <1>2, <1>3 DEF ReplayInv, TrackedAhead, KnownIsSo, appVars
<1>7. SeenOrAwaited'
  <2>. SUFFICES ASSUME inRange
                PROVE  SeenOrAwaited'
    BY <1>3 DEF SeenOrAwaited
  <2>1. Replay.counter \in Values /\ x.counter \in Values
    BY <1>2, SidesTyped DEF ReplayInv, Submit
  <2>2. Replay'.counter >= Replay.counter
    BY <1>2, <2>1, LargerProperties
  <2>3. Replay'.counter \in Nat /\ Replay.counter \in Nat /\ known.counter \in Nat
    BY <1>2, <2>1, LargerProperties, SidesTyped, ValuesAreNumbers DEF ReplayInv
  <2>4. known'.counter <= Replay'.counter \/ known'.counter <= catchUp'.counter
    BY <1>3, <2>2, <2>3 DEF ReplayInv, SeenOrAwaited, appVars
  <2>5. /\ known'.fences
             \subseteq Replay'.fences \cup (IF catchUp'.any THEN {} ELSE catchUp'.fences)
        /\ known'.events \cap FollowedEvents \subseteq Replay'.events \cup catchUp'.events
    BY <1>2, <1>3 DEF ReplayInv, SeenOrAwaited, appVars
  <2>. QED
    BY <2>4, <2>5 DEF SeenOrAwaited
<1>. QED
  BY <1>4, <1>5, <1>6, <1>7 DEF ReplayInv

LEMMA PerformOriginalStep ==
  ASSUME ReplayInv, QueuesHarmless, NEW q \in Timelines, Perform("original", q)
  PROVE  ReplayInv'
<1>. DEFINE x == Head(Original.queues[q])
<1>1. gpu \in [Sides -> Gpu] /\ "replay" \in Sides /\ "original" \in Sides
  BY DEF ReplayInv, TypeOK, Sides
<1>2. /\ gpu' \in [Sides -> Gpu] /\ Replay' = Replay
      /\ Original'.fences = Original.fences \cup ({x.fence} \ {NoFence})
      /\ Original'.counter = Larger(Original.counter, x.counter)
      /\ Original'.events \cap FollowedEvents
           = (Original.events \cup x.effect.sets) \cap FollowedEvents
      /\ x \in Submit /\ Original.queues[q] # <<>>
  BY <1>1, PerformEffect, PerformFollowed DEF Original, Replay
<1>3. 1 \in 1 .. Len(Original.queues[q]) /\ x = Original.queues[q][1]
  BY <1>1, <1>2, FirstIsHead DEF Original
<1>. HIDE DEF x
<1>4. UNCHANGED <<inRange, calls, tracked, appVars, pendingFences, catchUp, invalid>>
  BY DEF Perform, replayVars
<1>5. ASSUME NEW r \in Timelines, NEW i \in 1 .. Len(Original'.queues[r])
      PROVE  \/ /\ r = q /\ i + 1 \in 1 .. Len(Original.queues[r])
                /\ Original'.queues[r][i] = Original.queues[r][i + 1]
             \/ /\ r # q /\ i \in 1 .. Len(Original.queues[r])
                /\ Original'.queues[r][i] = Original.queues[r][i]
  BY <1>1, <1>5, HeldAfterPerforming DEF Original
<1>6. TypeOK'
  BY <1>2, <1>4 DEF ReplayInv, TypeOK, appVars
<1>7. FencesInUse'
  <2>1. x.fence \in used \cup {NoFence}
    BY <1>3 DEF ReplayInv, FencesInUse
  <2>2. Original'.fences \subseteq used'
    BY <1>2, <1>4, <2>1 DEF ReplayInv, FencesInUse, appVars
  <2>3. ASSUME NEW r \in Timelines, NEW i \in 1 .. Len(Original'.queues[r])
        PROVE  Original'.queues[r][i].fence \in used' \cup {NoFence}
    BY <1>4, <1>5, <2>3 DEF ReplayInv, FencesInUse, appVars
  <2>. QED
    BY <2>2, <2>3 DEF FencesInUse
<1>8. FencesOnce'
  <2>. SUFFICES ASSUME NEW r1 \in Timelines, NEW i1 \in 1 .. Len(Original'.queues[r1]),
                       Original'.queues[r1][i1].fence # NoFence
                PROVE  /\ Original'.queues[r1][i1].fence \notin Original'.fences
                       /\ \A r2 \in Timelines : \A i2 \in 1 .. Len(Original'.queues[r2]) :
                            Original'.queues[r2][i2].fence = Original'.queues[r1][i1].fence
                              => r2 = r1 /\ i2 = i1
    BY DEF FencesOnce
  \* Where a submit was before.
  <2>. DEFINE was(r, i) == IF r = q THEN i + 1 ELSE i
  <2>1. ASSUME NEW r \in Timelines, NEW i \in 1 .. Len(Original'.queues[r])
        PROVE  /\ was(r, i) \in 1 .. Len(Original.queues[r])
               /\ Original'.queues[r][i] = Original.queues[r][was(r, i)]
    BY <1>5, <2>1
  <2>2. \A r \in Timelines : \A i \in 1 .. Len(Original'.queues[r]) : was(r, i) # 1 \/ r # q
    OBVIOUS
  <2>3. Original'.queues[r1][i1].fence \notin Original'.fences
    <3>1. Original'.queues[r1][i1].fence \notin Original.fences
      <4>. DEFINE j == was(r1, i1)
      <4>1. /\ j \in 1 .. Len(Original.queues[r1])
            /\ Original'.queues[r1][i1] = Original.queues[r1][j]
        BY <2>1
      <4>. HIDE DEF j
      <4>2. Original.queues[r1][j].fence # NoFence
        BY <4>1
      <4>3. Original.queues[r1][j].fence \notin Original.fences
        BY <4>1, <4>2 DEF ReplayInv, FencesOnce
      <4>. QED
        BY <4>1, <4>3
    <3>2. x.fence # Original'.queues[r1][i1].fence
      <4>. SUFFICES ASSUME x.fence = Original'.queues[r1][i1].fence
                    PROVE  FALSE
        OBVIOUS
      <4>. DEFINE j == was(r1, i1)
      <4>1. /\ j \in 1 .. Len(Original.queues[r1])
            /\ Original.queues[q][1].fence = Original.queues[r1][j].fence
            /\ Original.queues[r1][j].fence # NoFence
        BY <1>3, <2>1
      <4>2. j # 1 \/ r1 # q
        BY <2>2
      <4>. HIDE DEF j
      <4>. QED
        BY <1>3, <4>1, <4>2 DEF ReplayInv, FencesOnce
    <3>. QED
      BY <1>2, <3>1, <3>2
  <2>4. ASSUME NEW r2 \in Timelines, NEW i2 \in 1 .. Len(Original'.queues[r2]),
               Original'.queues[r2][i2].fence = Original'.queues[r1][i1].fence
        PROVE  r2 = r1 /\ i2 = i1
    <3>. DEFINE j1 == was(r1, i1)
                j2 == was(r2, i2)
    <3>1. /\ j1 \in 1 .. Len(Original.queues[r1]) /\ j2 \in 1 .. Len(Original.queues[r2])
          /\ Original'.queues[r1][i1] = Original.queues[r1][j1]
          /\ Original'.queues[r2][i2] = Original.queues[r2][j2]
      BY <2>1
    <3>2. r2 = r1 /\ j2 = j1 => i2 = i1
      OBVIOUS
    <3>. HIDE DEF j1, j2
    <3>3. r2 = r1 /\ j2 = j1
      BY <2>4, <3>1 DEF ReplayInv, FencesOnce
    <3>. QED
      BY <3>2, <3>3
  <2>. QED
    BY <2>3, <2>4
<1>9. FencesFollowed'
  BY <1>4 DEF ReplayInv, FencesFollowed, appVars
<1>10. Original.counter \in Values /\ x.counter \in Values
  BY <1>2, SidesTyped DEF ReplayInv, Submit
<1>11. TrackedAhead'
  <2>. SUFFICES ASSUME ~inRange
                PROVE  TrackedAhead'
    BY <1>4 DEF TrackedAhead
  <2>1. x.counter <= tracked.counter /\ x.effect.sets \cap FollowedEvents \subseteq tracked.events
    BY <1>3 DEF ReplayInv, TrackedAhead
  <2>2. Original'.counter <= tracked'.counter
    <3>1. Original.counter <= tracked.counter /\ tracked.counter \in Values
      BY DEF ReplayInv, TrackedAhead, TypeOK, SyncState
    <3>2. tracked.counter >= x.counter /\ tracked.counter >= Original.counter
      BY <1>10, <2>1, <3>1, ValuesAreNumbers
    <3>3. tracked.counter >= Larger(Original.counter, x.counter)
      BY <1>10, <3>1, <3>2, LargerProperties
    <3>4. Larger(Original.counter, x.counter) \in Nat /\ tracked.counter \in Nat
      BY <1>10, <3>1, LargerProperties, ValuesAreNumbers
    <3>. QED
      BY <1>2, <1>4, <3>3, <3>4
  <2>3. Original'.events \cap FollowedEvents \subseteq tracked'.events
    BY <1>2, <1>4, <2>1 DEF ReplayInv, TrackedAhead
  <2>4. ASSUME NEW r \in Timelines, NEW i \in 1 .. Len(Original'.queues[r])
        PROVE  /\ Original'.queues[r][i].counter <= tracked'.counter
               /\ Original'.queues[r][i].effect.sets \cap FollowedEvents \subseteq tracked'.events
    BY <1>4, <1>5, <2>4 DEF ReplayInv, TrackedAhead
  <2>. QED
    BY <2>2, <2>3, <2>4 DEF TrackedAhead
<1>12. KnownIsSo'
  <2>1. Original'.counter >= Original.counter
    BY <1>2, <1>10, LargerProperties
  <2>2. Original'.counter \in Nat /\ Original.counter \in Nat /\ known.counter \in Nat
    BY <1>2, <1>10, LargerProperties, SidesTyped, ValuesAreNumbers DEF ReplayInv
  <2>3. known'.counter <= Original'.counter
    BY <1>4, <2>1, <2>2 DEF ReplayInv, KnownIsSo, appVars
  <2>. QED
    BY <1>2, <1>4, <2>3 DEF ReplayInv, KnownIsSo, appVars
<1>13. SeenOrAwaited'
  BY <1>2, <1>4 DEF ReplayInv, SeenOrAwaited, appVars
<1>. QED
  BY <1>6, <1>7, <1>8, <1>9, <1>11, <1>12, <1>13 DEF ReplayInv
-----------------------------------------------------------------------------
(***************************************************************************)
(* Calls that signal or reset at once.                                     *)
(***************************************************************************)
LEMMA ResetFencesStep ==
  ASSUME ReplayInv, NEW fs \in SUBSET Fences, ResetFences(fs)
  PROVE  ReplayInv'
<1>1. fs \subseteq known.fences /\ Call /\ UNCHANGED <<stage, catchUp, invalid>>
  BY DEF ResetFences
<1>2. inRange' = inRange /\ catchUp = NoWait
  BY <1>1 DEF Call
<1>. DEFINE lowered(side) == [gpu[side] EXCEPT !.fences = @ \ fs]
<1>3. ASSUME NEW side \in Sides
      PROVE  /\ lowered(side) \in Gpu
             /\ lowered(side).fences = gpu[side].fences \ fs
             /\ lowered(side).counter = gpu[side].counter
             /\ lowered(side).events = gpu[side].events
             /\ lowered(side).queues = gpu[side].queues
  BY DEF ReplayInv, TypeOK, Gpu
<1>4. gpu' = [side \in Sides |-> IF side \in Active THEN lowered(side) ELSE gpu[side]]
  BY DEF ResetFences
<1>. HIDE DEF lowered
<1>5. gpu' \in [Sides -> Gpu]
  BY <1>3, <1>4 DEF ReplayInv, TypeOK
<1>6. /\ Original'.fences = Original.fences \ fs
      /\ Original'.counter = Original.counter /\ Original'.events = Original.events
      /\ Original'.queues = Original.queues
  BY <1>3, <1>4 DEF Original, Active, Sides
<1>7. /\ Replay.fences \ fs \subseteq Replay'.fences
      /\ Replay'.counter = Replay.counter /\ Replay'.events = Replay.events
  BY <1>3, <1>4 DEF Replay, Active, Sides
<1>8. /\ used' = used \ fs
      /\ known' = [known EXCEPT !.fences = @ \ fs]
      /\ pendingFences' = IF inRange THEN pendingFences \ fs ELSE pendingFences
      /\ tracked' = IF inRange THEN tracked ELSE OnResetFences(tracked, fs)
  BY DEF ResetFences, Track
<1>9. /\ OnResetFences(tracked, fs) \in SyncState
      /\ OnResetFences(tracked, fs).fences = tracked.fences \ fs
      /\ OnResetFences(tracked, fs).counter = tracked.counter
      /\ OnResetFences(tracked, fs).events = tracked.events
  BY DEF ReplayInv, TypeOK, SyncState, OnResetFences
<1>10. /\ known' \in Knowledge /\ known'.fences = known.fences \ fs
       /\ known'.counter = known.counter /\ known'.events = known.events
  BY <1>8 DEF ReplayInv, TypeOK, Knowledge
<1>11. TypeOK'
  BY <1>1, <1>5, <1>8, <1>9, <1>10, CallType DEF ReplayInv, TypeOK
<1>12. FencesInUse'
  <2>1. Original'.fences \subseteq used'
    BY <1>6, <1>8 DEF ReplayInv, FencesInUse
  <2>2. ASSUME NEW q \in Timelines, NEW i \in 1 .. Len(Original'.queues[q])
        PROVE  Original'.queues[q][i].fence \in used' \cup {NoFence}
    <3>1. /\ Original.queues[q][i].fence \in used \cup {NoFence}
          /\ Original.queues[q][i].fence # NoFence
               => Original.queues[q][i].fence \notin Original.fences
      BY <1>6, <2>2 DEF ReplayInv, FencesInUse, FencesOnce
    <3>. QED
      BY <1>1, <1>6, <1>8, <3>1 DEF ReplayInv, KnownIsSo
  <2>. QED
    BY <2>1, <2>2 DEF FencesInUse
<1>13. FencesOnce'
  BY <1>6 DEF ReplayInv, FencesOnce
<1>14. FencesFollowed'
  BY <1>2, <1>8, <1>9 DEF ReplayInv, FencesFollowed
<1>15. TrackedAhead'
  BY <1>2, <1>6, <1>8, <1>9 DEF ReplayInv, TrackedAhead
<1>16. KnownIsSo'
  BY <1>6, <1>10 DEF ReplayInv, KnownIsSo
<1>17. SeenOrAwaited'
  <2>1. inRange' => /\ known'.fences \subseteq Replay'.fences
                    /\ known'.events \cap FollowedEvents \subseteq Replay'.events
                    /\ known'.counter <= Replay'.counter
    BY <1>2, <1>7, <1>10, UpToDate DEF ReplayInv
  <2>. QED
    BY <2>1 DEF SeenOrAwaited
<1>. QED
  BY <1>11, <1>12, <1>13, <1>14, <1>15, <1>16, <1>17 DEF ReplayInv

\* What a signal of the host does to the GPUs: the replay comes to the same value, unless it
\* was past it.
LEMMA SignalEffect ==
  ASSUME TypeOK, NEW v \in Values, SignalSemaphore(v)
  PROVE  /\ gpu' \in [Sides -> Gpu]
         /\ Original' = [Original EXCEPT !.counter = v] /\ v > Original.counter
         /\ Replay' = [Replay EXCEPT !.counter = Replay'.counter]
         /\ inRange => v <= Replay'.counter
         /\ inRange /\ ~invalid' => Replay'.counter = Larger(Replay.counter, v)
         /\ ~inRange => Replay'.counter = Replay.counter
         /\ invalid' \in BOOLEAN
<1>. DEFINE passed == inRange /\ v <= gpu["replay"].counter
            result(reached) == IF inRange THEN reached ELSE gpu["replay"].counter
<1>1. /\ v > gpu["original"].counter /\ invalid' = (invalid \/ passed)
      /\ \E reached \in {v} \cup (IF passed THEN {gpu["replay"].counter} ELSE {}) :
           gpu' = [gpu EXCEPT !["original"].counter = v, !["replay"].counter = result(reached)]
  BY DEF SignalSemaphore, MaySignal
<1>2. PICK reached \in {v} \cup (IF passed THEN {gpu["replay"].counter} ELSE {}) :
        gpu' = [gpu EXCEPT !["original"].counter = v, !["replay"].counter = result(reached)]
  BY <1>1
<1>3. /\ gpu \in [Sides -> Gpu] /\ "original" \in Sides /\ "replay" \in Sides
      /\ gpu["replay"].counter \in Values /\ gpu["original"].counter \in Values
      /\ gpu["replay"] \in Gpu /\ gpu["original"] \in Gpu
  BY DEF TypeOK, Sides, Gpu
<1>4. /\ result(reached) \in Values
      /\ inRange => v <= result(reached)
      /\ inRange /\ ~passed => result(reached) = Larger(gpu["replay"].counter, v)
      /\ ~inRange => result(reached) = gpu["replay"].counter
  <2>1. PICK c : c = gpu["replay"].counter
    OBVIOUS
  <2>2. /\ v \in Nat /\ c \in Nat /\ v \in Values /\ c \in Values
        /\ reached = v \/ (passed /\ reached = c)
        /\ passed <=> inRange /\ v <= c
        /\ result(reached) = IF inRange THEN reached ELSE c
    BY <1>2, <1>3, <2>1, ValuesAreNumbers
  <2>. HIDE DEF passed, result
  <2>3. /\ result(reached) \in Values
        /\ inRange => v <= result(reached)
        /\ ~inRange => result(reached) = c
    BY <2>2
  <2>4. inRange /\ ~passed => result(reached) = Larger(c, v)
    BY <2>2 DEF Larger
  <2>. QED
    BY <2>1, <2>3, <2>4
<1>. HIDE DEF result
<1>5. /\ gpu'["original"] = [gpu["original"] EXCEPT !.counter = v]
      /\ gpu'["replay"] = [gpu["replay"] EXCEPT !.counter = result(reached)]
  BY <1>2, <1>3
<1>6. \A side \in Sides : gpu'[side] \in Gpu
  <2>1. \A g \in Gpu : \A c \in Values : [g EXCEPT !.counter = c] \in Gpu
    BY DEF Gpu
  <2>2. gpu'["original"] \in Gpu /\ gpu'["replay"] \in Gpu
    BY <1>3, <1>4, <1>5, <2>1
  <2>. QED
    BY <2>2 DEF Sides
<1>7. gpu' \in [Sides -> Gpu]
  BY <1>2, <1>3, <1>6
<1>8. gpu'["replay"].counter = result(reached)
  BY <1>3, <1>5 DEF Gpu
<1>. QED
  BY <1>1, <1>4, <1>5, <1>7, <1>8 DEF Original, Replay, TypeOK

LEMMA SignalSemaphoreStep ==
  ASSUME ReplayInv, NEW v \in Values, SignalSemaphore(v)
  PROVE  ReplayInv'
<1>1. /\ Call
      /\ UNCHANGED <<used, stage, pendingFences, catchUp>>
  BY DEF SignalSemaphore
<1>2. inRange' = inRange /\ catchUp = NoWait
  BY <1>1 DEF Call
<1>3. /\ gpu' \in [Sides -> Gpu]
      /\ Original' = [Original EXCEPT !.counter = v] /\ v > Original.counter
      /\ Replay' = [Replay EXCEPT !.counter = Replay'.counter]
      /\ inRange => v <= Replay'.counter
      /\ invalid' \in BOOLEAN
  BY SignalEffect DEF ReplayInv
<1>4. Original \in Gpu /\ Replay \in Gpu /\ Original.counter \in Nat /\ v \in Nat
  BY SidesTyped, ValuesAreNumbers DEF ReplayInv
<1>5. Original'.counter = Larger(Original.counter, v)
  BY <1>3, <1>4 DEF Gpu, Larger
<1>6. /\ Original'.fences = Original.fences /\ Original'.events = Original.events
      /\ Original'.queues = Original.queues
  BY <1>3, <1>4 DEF Gpu
<1>7. Replay'.fences = Replay.fences /\ Replay'.events = Replay.events
  BY <1>3, <1>4 DEF Gpu
<1>8. /\ known' = [known EXCEPT !.counter = v]
      /\ tracked' = IF inRange THEN tracked ELSE OnSignalSemaphore(tracked, v)
  BY DEF SignalSemaphore, Track
<1>9. tracked.counter \in Values
  BY DEF ReplayInv, TypeOK, SyncState
<1>10. Larger(tracked.counter, v) \in Values
  BY <1>9, LargerProperties
<1>11. /\ OnSignalSemaphore(tracked, v) \in SyncState
       /\ OnSignalSemaphore(tracked, v).fences = tracked.fences
       /\ OnSignalSemaphore(tracked, v).counter = Larger(tracked.counter, v)
       /\ OnSignalSemaphore(tracked, v).events = tracked.events
  BY <1>10 DEF ReplayInv, TypeOK, SyncState, OnSignalSemaphore, UpdateTimelineSemaphoreValue
<1>12. /\ known' \in Knowledge /\ known'.fences = known.fences
       /\ known'.counter = v /\ known'.events = known.events
  BY <1>8 DEF ReplayInv, TypeOK, Knowledge
<1>13. TypeOK'
  BY <1>1, <1>3, <1>8, <1>11, <1>12, CallType DEF ReplayInv, TypeOK
<1>14. FencesInUse' /\ FencesOnce'
  BY <1>1, <1>6 DEF ReplayInv, FencesInUse, FencesOnce
<1>15. FencesFollowed'
  BY <1>1, <1>2, <1>8, <1>11 DEF ReplayInv, FencesFollowed
<1>16. TrackedAhead'
  <2>. SUFFICES ASSUME ~inRange
                PROVE  TrackedAhead'
    BY <1>2 DEF TrackedAhead
  <2>1. /\ tracked'.counter = Larger(tracked.counter, v) /\ tracked'.events = tracked.events
        /\ tracked.counter \in Nat /\ Original.counter \in Nat /\ v \in Nat
    BY <1>8, <1>11, SidesTyped, ValuesAreNumbers DEF ReplayInv
  <2>2. Original'.counter <= tracked'.counter
    BY <1>5, <2>1 DEF ReplayInv, TrackedAhead, Larger
  <2>3. tracked.counter <= tracked'.counter /\ tracked'.counter \in Nat
    BY <2>1 DEF Larger
  <2>4. ASSUME NEW q \in Timelines, NEW i \in 1 .. Len(Original'.queues[q])
        PROVE  /\ Original'.queues[q][i].counter <= tracked'.counter
               /\ Original'.queues[q][i].effect.sets \cap FollowedEvents \subseteq tracked'.events
    <3>1. Original.queues[q] \in Seq(Submit)
      BY SidesTyped DEF ReplayInv
    <3>2. Original.queues[q][i] \in Submit
      BY <1>6, <2>4, <3>1, ElementOfSeq
    <3>3. Original.queues[q][i].counter \in Nat
      BY <3>2, ValuesAreNumbers DEF Submit
    <3>4. /\ Original.queues[q][i].counter <= tracked.counter
          /\ Original.queues[q][i].effect.sets \cap FollowedEvents \subseteq tracked.events
      BY <1>6, <2>4 DEF ReplayInv, TrackedAhead
    <3>. QED
      BY <1>6, <2>1, <2>3, <3>3, <3>4
  <2>5. Original'.events \cap FollowedEvents \subseteq tracked'.events
    BY <1>6, <2>1 DEF ReplayInv, TrackedAhead
  <2>. QED
    BY <2>2, <2>4, <2>5 DEF TrackedAhead
<1>17. KnownIsSo'
  <2>1. v <= Larger(Original.counter, v)
    BY SidesTyped, ValuesAreNumbers DEF ReplayInv, Larger
  <2>. QED
    BY <1>5, <1>6, <1>12, <2>1 DEF ReplayInv, KnownIsSo
<1>18. SeenOrAwaited'
  <2>. SUFFICES ASSUME inRange
                PROVE  SeenOrAwaited'
    BY <1>2 DEF SeenOrAwaited
  <2>1. /\ known'.fences \subseteq Replay'.fences
        /\ known'.events \cap FollowedEvents \subseteq Replay'.events
        /\ known'.counter <= Replay'.counter
    BY <1>2, <1>3, <1>7, <1>12, UpToDate DEF ReplayInv
  <2>. QED
    BY <2>1 DEF SeenOrAwaited
<1>. QED
  BY <1>13, <1>14, <1>15, <1>16, <1>17, <1>18 DEF ReplayInv

LEMMA SetEventStep ==
  ASSUME ReplayInv, NEW e \in Events, SetEvent(e)
  PROVE  ReplayInv'
<1>1. Call /\ UNCHANGED <<used, stage, pendingFences, catchUp, invalid>>
  BY DEF SetEvent, replayVars
<1>2. inRange' = inRange /\ catchUp = NoWait
  BY <1>1 DEF Call
<1>. DEFINE raised(side) == [gpu[side] EXCEPT !.events = @ \cup {e}]
<1>3. ASSUME NEW side \in Sides
      PROVE  /\ raised(side) \in Gpu
             /\ raised(side).fences = gpu[side].fences
             /\ raised(side).counter = gpu[side].counter
             /\ raised(side).events = gpu[side].events \cup {e}
             /\ raised(side).queues = gpu[side].queues
  BY DEF ReplayInv, TypeOK, Gpu
<1>4. gpu' = [side \in Sides |-> IF side \in Active THEN raised(side) ELSE gpu[side]]
  BY DEF SetEvent
<1>. HIDE DEF raised
<1>5. gpu' \in [Sides -> Gpu]
  BY <1>3, <1>4 DEF ReplayInv, TypeOK
<1>6. /\ Original'.fences = Original.fences
      /\ Original'.counter = Original.counter /\ Original'.events = Original.events \cup {e}
      /\ Original'.queues = Original.queues
  BY <1>3, <1>4 DEF Original, Active, Sides
<1>7. /\ Replay'.fences = Replay.fences /\ Replay'.counter = Replay.counter
      /\ inRange => Replay'.events = Replay.events \cup {e}
  BY <1>3, <1>4 DEF Replay, Active, Sides
<1>8. /\ known' = [known EXCEPT !.events = @ \cup {e}]
      /\ tracked' = IF inRange THEN tracked ELSE OnSetEvent(tracked, e)
  BY DEF SetEvent, Track
<1>9. /\ OnSetEvent(tracked, e) \in SyncState
      /\ OnSetEvent(tracked, e).fences = tracked.fences
      /\ OnSetEvent(tracked, e).counter = tracked.counter
      /\ OnSetEvent(tracked, e).events = tracked.events \cup {e}
  BY DEF ReplayInv, TypeOK, SyncState, OnSetEvent
<1>10. /\ known' \in Knowledge /\ known'.fences = known.fences
       /\ known'.counter = known.counter /\ known'.events = known.events \cup {e}
  BY <1>8 DEF ReplayInv, TypeOK, Knowledge
<1>11. TypeOK'
  BY <1>1, <1>5, <1>8, <1>9, <1>10, CallType DEF ReplayInv, TypeOK
<1>12. FencesInUse' /\ FencesOnce'
  BY <1>1, <1>6 DEF ReplayInv, FencesInUse, FencesOnce
<1>13. FencesFollowed'
  BY <1>1, <1>2, <1>8, <1>9 DEF ReplayInv, FencesFollowed
<1>14. TrackedAhead'
  BY <1>2, <1>6, <1>8, <1>9 DEF ReplayInv, TrackedAhead
<1>15. KnownIsSo'
  BY <1>6, <1>10 DEF ReplayInv, KnownIsSo
<1>16. SeenOrAwaited'
  <2>1. inRange' => /\ known'.fences \subseteq Replay'.fences
                    /\ known'.events \cap FollowedEvents \subseteq Replay'.events
                    /\ known'.counter <= Replay'.counter
    BY <1>2, <1>7, <1>10, UpToDate DEF ReplayInv
  <2>. QED
    BY <2>1 DEF SeenOrAwaited
<1>. QED
  BY <1>11, <1>12, <1>13, <1>14, <1>15, <1>16 DEF ReplayInv

LEMMA ResetEventStep ==
  ASSUME ReplayInv, NEW e \in Events, ResetEvent(e)
  PROVE  ReplayInv'
<1>1. Call /\ UNCHANGED <<used, stage, pendingFences, catchUp, invalid>>
  BY DEF ResetEvent, replayVars
<1>2. inRange' = inRange /\ catchUp = NoWait
  BY <1>1 DEF Call
<1>. DEFINE lowered(side) == [gpu[side] EXCEPT !.events = @ \ {e}]
<1>3. ASSUME NEW side \in Sides
      PROVE  /\ lowered(side) \in Gpu
             /\ lowered(side).fences = gpu[side].fences
             /\ lowered(side).counter = gpu[side].counter
             /\ lowered(side).events = gpu[side].events \ {e}
             /\ lowered(side).queues = gpu[side].queues
  BY DEF ReplayInv, TypeOK, Gpu
<1>4. gpu' = [side \in Sides |-> IF side \in Active THEN lowered(side) ELSE gpu[side]]
  BY DEF ResetEvent
<1>. HIDE DEF lowered
<1>5. gpu' \in [Sides -> Gpu]
  BY <1>3, <1>4 DEF ReplayInv, TypeOK
<1>6. /\ Original'.fences = Original.fences
      /\ Original'.counter = Original.counter /\ Original'.events = Original.events \ {e}
      /\ Original'.queues = Original.queues
  BY <1>3, <1>4 DEF Original, Active, Sides
<1>7. /\ Replay'.fences = Replay.fences /\ Replay'.counter = Replay.counter
      /\ inRange => Replay'.events = Replay.events \ {e}
  BY <1>3, <1>4 DEF Replay, Active, Sides
<1>8. /\ known' = [known EXCEPT !.events = @ \ {e}]
      /\ tracked' = IF inRange THEN tracked ELSE OnResetEvent(tracked, e)
  BY DEF ResetEvent, Track
<1>9. /\ OnResetEvent(tracked, e) \in SyncState
      /\ OnResetEvent(tracked, e).fences = tracked.fences
      /\ OnResetEvent(tracked, e).counter = tracked.counter
      /\ OnResetEvent(tracked, e).events = tracked.events \ {e}
  BY DEF ReplayInv, TypeOK, SyncState, OnResetEvent
<1>10. /\ known' \in Knowledge /\ known'.fences = known.fences
       /\ known'.counter = known.counter /\ known'.events = known.events \ {e}
  BY <1>8 DEF ReplayInv, TypeOK, Knowledge
<1>11. TypeOK'
  BY <1>1, <1>5, <1>8, <1>9, <1>10, CallType DEF ReplayInv, TypeOK
<1>12. FencesInUse' /\ FencesOnce'
  BY <1>1, <1>6 DEF ReplayInv, FencesInUse, FencesOnce
<1>13. FencesFollowed'
  BY <1>1, <1>2, <1>8, <1>9 DEF ReplayInv, FencesFollowed
<1>14. TrackedAhead'
  <2>1. ASSUME NEW q \in Timelines, NEW i \in 1 .. Len(Original.queues[q])
        PROVE  e \notin Original.queues[q][i].effect.sets
    <3>1. Original.queues[q] \in Seq(Submit)
      BY SidesTyped DEF ReplayInv
    <3>2. i \in DOMAIN Original.queues[q]
      BY <2>1, <3>1, LenProperties
    <3>3. Original.queues[q][i] \in PendingOf("original")
      BY <3>2 DEF PendingOf, Original
    <3>. QED
      BY <3>3 DEF ResetEvent
  <2>. QED
    BY <1>2, <1>6, <1>8, <1>9, <2>1 DEF ReplayInv, TrackedAhead
<1>15. KnownIsSo'
  BY <1>6, <1>10 DEF ReplayInv, KnownIsSo
<1>16. SeenOrAwaited'
  <2>1. inRange' => /\ known'.fences \subseteq Replay'.fences
                    /\ known'.events \cap FollowedEvents \subseteq Replay'.events
                    /\ known'.counter <= Replay'.counter
    BY <1>2, <1>7, <1>10, UpToDate DEF ReplayInv
  <2>. QED
    BY <2>1 DEF SeenOrAwaited
<1>. QED
  BY <1>11, <1>12, <1>13, <1>14, <1>15, <1>16 DEF ReplayInv
-----------------------------------------------------------------------------
(***************************************************************************)
(* Calls that ask what is signaled.                                        *)
(***************************************************************************)
\* The catch-up wait of a call, and what the application has seen when it returns.
Asked(asked, wait, seen) ==
  /\ Asking /\ CatchUpWith(asked, wait) /\ wait \in CatchUp
  /\ known' \in Knowledge /\ seen \in Knowledge
  /\ stage' \in [Semaphores -> Stages]
  /\ known'.fences \subseteq known.fences \cup seen.fences
  /\ known'.events \subseteq known.events \cup seen.events
  /\ known'.counter <= known.counter \/ known'.counter <= seen.counter

LEMMA AskedStep ==
  ASSUME ReplayInv, NEW asked \in CatchUp, NEW wait, NEW seen,
         Asked(asked, wait, seen),
         KnownIsSo',
         inRange /\ seen # [fences |-> {}, counter |-> 0, events |-> {}] =>
           /\ Holds(asked, "original")
           /\ Holds(asked, "replay") => /\ seen.fences \subseteq Replay.fences
                                        /\ seen.events \subseteq Replay.events
                                        /\ seen.counter <= Replay.counter
           /\ ~wait.any /\ seen.fences \subseteq wait.fences
           /\ seen.events \subseteq wait.events /\ seen.counter <= wait.counter
  PROVE  ReplayInv'
<1>1. /\ Call /\ UNCHANGED <<tracked, gpu, used, pendingFences, invalid>>
      /\ inRange' = inRange /\ catchUp = NoWait
  BY DEF Asked, Asking, Call
<1>2. Original' = Original /\ Replay' = Replay
  BY <1>1 DEF Original, Replay
<1>3. catchUp' \in CatchUp /\ (catchUp' = wait \/ catchUp' = NoWait)
  BY WaitTypes, ValuesAreNumbers DEF Asked, CatchUpWith, NoWait, CatchUp
<1>4. TypeOK'
  BY <1>1, <1>3, CallType DEF ReplayInv, TypeOK, Asked
<1>5. FencesInUse' /\ FencesOnce' /\ FencesFollowed'
  BY <1>1, <1>2 DEF ReplayInv, FencesInUse, FencesOnce, FencesFollowed
<1>6. TrackedAhead'
  BY <1>1, <1>2 DEF ReplayInv, TrackedAhead
<1>7. SeenOrAwaited'
  <2>. SUFFICES ASSUME inRange
                PROVE  SeenOrAwaited'
    BY <1>1 DEF SeenOrAwaited
  <2>1. /\ known.fences \subseteq Replay.fences /\ known.events \cap FollowedEvents \subseteq Replay.events
        /\ known.counter <= Replay.counter
    BY <1>1, UpToDate DEF ReplayInv
  <2>2. /\ known.counter \in Nat /\ Replay.counter \in Nat /\ known'.counter \in Nat
        /\ seen.counter \in Nat /\ catchUp'.counter \in Nat /\ wait.counter \in Nat
    BY <1>3, SidesTyped, ValuesAreNumbers DEF ReplayInv, Asked, Knowledge, CatchUp
  <2>3. CASE seen = [fences |-> {}, counter |-> 0, events |-> {}]
    <3>1. /\ known'.fences \subseteq Replay'.fences
          /\ known'.events \cap FollowedEvents \subseteq Replay'.events
          /\ known'.counter <= Replay'.counter
      BY <1>2, <2>1, <2>2, <2>3 DEF Asked
    <3>. QED
      BY <3>1 DEF SeenOrAwaited
  <2>4. CASE seen # [fences |-> {}, counter |-> 0, events |-> {}] /\ Holds(asked, "replay")
    <3>1. /\ known'.fences \subseteq Replay'.fences
          /\ known'.events \cap FollowedEvents \subseteq Replay'.events
          /\ known'.counter <= Replay'.counter
      BY <1>2, <2>1, <2>2, <2>4 DEF Asked
    <3>. QED
      BY <3>1 DEF SeenOrAwaited
  <2>5. CASE seen # [fences |-> {}, counter |-> 0, events |-> {}] /\ ~Holds(asked, "replay")
    <3>1. catchUp' = wait
      BY <2>5 DEF Asked, CatchUpWith
    <3>2. /\ ~wait.any /\ seen.fences \subseteq wait.fences
          /\ seen.events \subseteq wait.events /\ seen.counter <= wait.counter
      BY <2>5
    <3>3. /\ known'.fences \subseteq Replay'.fences \cup catchUp'.fences
          /\ known'.events \cap FollowedEvents \subseteq Replay'.events \cup catchUp'.events
      BY <1>2, <2>1, <3>1, <3>2 DEF Asked
    <3>4. known'.counter <= Replay'.counter \/ known'.counter <= catchUp'.counter
      BY <1>2, <2>1, <2>2, <3>1, <3>2 DEF Asked
    <3>. QED
      BY <3>1, <3>2, <3>3, <3>4 DEF SeenOrAwaited
  <2>. QED
    BY <2>3, <2>4, <2>5
<1>. QED
  BY <1>4, <1>5, <1>6, <1>7 DEF ReplayInv

\* The fences that a call has seen signaled.
SeenFences(fs) ==
  [fences |-> IF fs \subseteq Original.fences THEN fs ELSE {}, counter |-> 0, events |-> {}]

LEMMA LearnEffect ==
  ASSUME ReplayInv, NEW fs \in SUBSET Fences, Learn(fs), gpu' = gpu
  PROVE  /\ known' \in Knowledge /\ SeenFences(fs) \in Knowledge
         /\ stage' \in [Semaphores -> Stages]
         /\ known'.fences = known.fences \cup SeenFences(fs).fences
         /\ known'.events = known.events /\ known'.counter = known.counter
         /\ KnownIsSo'
<1>1. known \in Knowledge /\ stage \in [Semaphores -> Stages] /\ "idle" \in Stages
  BY DEF ReplayInv, TypeOK, Stages
<1>2. SeenFences(fs) \in Knowledge
  BY ValuesAreNumbers DEF SeenFences, Knowledge
<1>3. CASE fs \subseteq gpu["original"].fences
  <2>1. /\ known' = [known EXCEPT !.fences = @ \cup fs]
        /\ stage' = [s \in Semaphores |-> IF stage[s] \in fs THEN "idle" ELSE stage[s]]
    BY <1>3 DEF Learn
  <2>2. known' \in Knowledge /\ known'.fences = known.fences \cup fs
        /\ known'.events = known.events /\ known'.counter = known.counter
    BY <1>1, <2>1 DEF Knowledge
  <2>3. SeenFences(fs).fences = fs
    BY <1>3 DEF SeenFences, Original
  <2>4. KnownIsSo'
    BY <1>3, <2>2 DEF ReplayInv, KnownIsSo, Original
  <2>. QED
    BY <1>1, <1>2, <2>1, <2>2, <2>3, <2>4
<1>4. CASE ~(fs \subseteq gpu["original"].fences)
  <2>1. UNCHANGED <<known, stage>>
    BY <1>4 DEF Learn
  <2>2. SeenFences(fs).fences = {}
    BY <1>4 DEF SeenFences, Original
  <2>3. KnownIsSo'
    BY <2>1 DEF ReplayInv, KnownIsSo, Original
  <2>. QED
    BY <1>1, <1>2, <2>1, <2>2, <2>3
<1>. QED
  BY <1>3, <1>4

LEMMA AllFencesHold ==
  ASSUME ReplayInv, NEW fs \in SUBSET Fences
  PROVE  /\ AllFences(fs).fences = fs /\ ~AllFences(fs).any
         /\ AllFences(fs).counter = 0 /\ AllFences(fs).events = {}
         /\ Holds(AllFences(fs), "original") <=> fs \subseteq Original.fences
         /\ Holds(AllFences(fs), "replay") <=> fs \subseteq Replay.fences
<1>1. /\ AllFences(fs).fences = fs /\ ~AllFences(fs).any
      /\ AllFences(fs).counter = 0 /\ AllFences(fs).events = {}
  BY DEF AllFences, NoWait
<1>2. gpu["original"].counter >= 0 /\ gpu["replay"].counter >= 0
  BY SidesTyped DEF ReplayInv, Original, Replay
<1>. QED
  BY <1>1, <1>2 DEF Holds, Original, Replay

\* A call about fences of which the replay waits for those with a pending signal, or for all.
LEMMA FencesAsked ==
  ASSUME ReplayInv, NEW fs \in SUBSET Fences, NEW ws \in SUBSET Fences,
         fs \cap pendingFences \subseteq ws,
         Asking, CatchUpWith(AllFences(fs), AllFences(ws)), Learn(fs)
  PROVE  ReplayInv'
<1>. DEFINE seen == SeenFences(fs)
<1>1. gpu' = gpu /\ AllFences(ws) \in CatchUp /\ AllFences(fs) \in CatchUp
  BY WaitTypes, ValuesAreNumbers DEF Asking, AllFences, NoWait, CatchUp
<1>2. KnownIsSo' /\ known.counter \in Nat
  BY <1>1, LearnEffect, SidesTyped DEF ReplayInv
<1>3. Asked(AllFences(fs), AllFences(ws), seen)
  <2>1. /\ known' \in Knowledge /\ seen \in Knowledge /\ stage' \in [Semaphores -> Stages]
        /\ known'.fences = known.fences \cup seen.fences
        /\ known'.events = known.events /\ known'.counter = known.counter
    BY <1>1, LearnEffect
  <2>. HIDE DEF seen
  <2>. QED
    BY <1>1, <1>2, <2>1 DEF Asked
<1>4. ASSUME inRange, seen # [fences |-> {}, counter |-> 0, events |-> {}]
      PROVE  /\ fs \subseteq Original.fences /\ fs \subseteq ws
             /\ seen.fences = fs /\ seen.events = {} /\ seen.counter = 0
  <2>1. fs \subseteq Original.fences
    BY <1>4 DEF SeenFences
  <2>2. fs \subseteq pendingFences
    BY <1>4, <2>1 DEF ReplayInv, FencesInUse, FencesFollowed
  <2>. QED
    BY <2>1, <2>2 DEF SeenFences
<1>5. ASSUME inRange, seen # [fences |-> {}, counter |-> 0, events |-> {}]
      PROVE  /\ Holds(AllFences(fs), "original")
             /\ Holds(AllFences(fs), "replay") =>
                  /\ seen.fences \subseteq Replay.fences /\ seen.events \subseteq Replay.events
                  /\ seen.counter <= Replay.counter
             /\ ~AllFences(ws).any /\ seen.fences \subseteq AllFences(ws).fences
             /\ seen.events \subseteq AllFences(ws).events
             /\ seen.counter <= AllFences(ws).counter
  <2>1. Replay.counter >= 0
    BY SidesTyped DEF ReplayInv
  <2>. HIDE DEF seen
  <2>. QED
    BY <1>4, <1>5, <2>1, AllFencesHold
<1>. HIDE DEF seen
<1>. QED
  BY <1>1, <1>2, <1>3, <1>5, AskedStep

LEMMA GetFenceStatusStep ==
  ASSUME ReplayInv, NEW f \in Fences, GetFenceStatus(f)
  PROVE  ReplayInv'
<1>1. {f} \in SUBSET Fences /\ {f} \cap pendingFences \in SUBSET Fences
  OBVIOUS
<1>. QED
  BY <1>1, FencesAsked DEF GetFenceStatus

LEMMA PollFencesStep ==
  ASSUME ReplayInv, NEW fs \in SUBSET Fences, PollFences(fs)
  PROVE  ReplayInv'
<1>1. fs \cap pendingFences \in SUBSET Fences
  OBVIOUS
<1>. QED
  BY <1>1, FencesAsked DEF PollFences

LEMMA WaitForFencesStep ==
  ASSUME ReplayInv, NEW fs \in SUBSET Fences, WaitForFences(fs)
  PROVE  ReplayInv'
BY FencesAsked DEF WaitForFences

\* A call about any of several fences teaches the application nothing of one of them.
LEMMA AnyAsked ==
  ASSUME ReplayInv, NEW asked \in CatchUp, NEW wait \in CatchUp,
         Asking, CatchUpWith(asked, wait), UNCHANGED <<known, stage>>
  PROVE  ReplayInv'
<1>. DEFINE nothing == [fences |-> {}, counter |-> 0, events |-> {}]
<1>1. nothing \in Knowledge /\ known \in Knowledge /\ stage \in [Semaphores -> Stages]
  BY ValuesAreNumbers DEF Knowledge, ReplayInv, TypeOK
<1>2. KnownIsSo'
  BY DEF Asking, ReplayInv, KnownIsSo, Original
<1>3. known.counter <= known.counter
  BY SidesTyped DEF ReplayInv
<1>4. Asked(asked, wait, nothing)
  BY <1>1, <1>3 DEF Asked
<1>. QED
  BY <1>2, <1>4, AskedStep

LEMMA AnyFenceStep ==
  ASSUME ReplayInv, NEW fs \in SUBSET Fences, PollAnyFence(fs) \/ WaitForAnyFence(fs)
  PROVE  ReplayInv'
<1>1. /\ AnyFence(fs) \in CatchUp
      /\ [AllFences(fs \cap pendingFences) EXCEPT !.ofAny = TRUE] \in CatchUp
  BY ValuesAreNumbers DEF AnyFence, AllFences, NoWait, CatchUp
<1>. QED
  BY <1>1, AnyAsked DEF PollAnyFence, WaitForAnyFence

\* A call about the timeline semaphore.
LEMMA CounterAsked ==
  ASSUME ReplayInv, NEW v \in Values, NEW wait, wait = [NoWait EXCEPT !.counter = v],
         Asking, CatchUpWith(wait, wait), stage' = stage,
         known' = IF Holds(wait, "original") THEN [known EXCEPT !.counter = Larger(@, v)] ELSE known
  PROVE  ReplayInv'
<1>1. /\ wait \in CatchUp /\ wait.fences = {} /\ wait.events = {} /\ wait.counter = v /\ ~wait.any
  BY DEF NoWait, CatchUp
<1>2. \A side \in Sides : Holds(wait, side) <=> gpu[side].counter >= v
  BY <1>1 DEF Holds
<1>3. CASE Holds(wait, "original")
  <2>. DEFINE seen == [fences |-> {}, counter |-> v, events |-> {}]
  <2>1. known.counter \in Values /\ Larger(known.counter, v) \in Values
    BY LargerProperties DEF ReplayInv, TypeOK, Knowledge
  <2>2. /\ known' \in Knowledge /\ known'.fences = known.fences
        /\ known'.events = known.events /\ known'.counter = Larger(known.counter, v)
    BY <1>3, <2>1 DEF ReplayInv, TypeOK, Knowledge
  <2>3. known'.counter <= known.counter \/ known'.counter <= v
    BY <2>1, <2>2, ValuesAreNumbers DEF Larger
  <2>4. seen \in Knowledge /\ stage' \in [Semaphores -> Stages]
    BY DEF Knowledge, ReplayInv, TypeOK
  <2>5. Asked(wait, wait, seen)
    BY <1>1, <2>2, <2>3, <2>4 DEF Asked
  <2>6. KnownIsSo'
    <3>1. Original.counter >= v /\ Original' = Original
      BY <1>2, <1>3 DEF Original, Sides, Asking
    <3>2. known.counter <= Original.counter
      BY DEF ReplayInv, KnownIsSo
    <3>3. known'.counter <= Original.counter
      BY <2>2, <3>1, <3>2 DEF Larger
    <3>. QED
      BY <2>2, <3>1, <3>3 DEF ReplayInv, KnownIsSo
  <2>7. Holds(wait, "replay") => v <= Replay.counter
    BY <1>2, SidesTyped, ValuesAreNumbers DEF Replay, Sides, ReplayInv
  <2>8. v <= v
    BY ValuesAreNumbers
  <2>. QED
    BY <1>1, <1>3, <2>5, <2>6, <2>7, <2>8, AskedStep
<1>4. CASE ~Holds(wait, "original")
  <2>1. UNCHANGED <<known, stage>>
    BY <1>4
  <2>. QED
    BY <1>1, <2>1, AnyAsked
<1>. QED
  BY <1>3, <1>4

LEMMA CounterStep ==
  ASSUME ReplayInv, NEW v \in Values, GetSemaphoreCounterValue(v) \/ WaitSemaphores(v)
  PROVE  ReplayInv'
<1>. DEFINE wait == [NoWait EXCEPT !.counter = v]
<1>1. /\ Asking /\ CatchUpWith(wait, wait) /\ stage' = stage
      /\ known' = IF Holds(wait, "original") THEN [known EXCEPT !.counter = Larger(@, v)] ELSE known
  BY DEF GetSemaphoreCounterValue, WaitSemaphores
<1>. QED
  BY <1>1, CounterAsked

LEMMA GetEventStatusStep ==
  ASSUME ReplayInv, NEW e \in Events, GetEventStatus(e)
  PROVE  ReplayInv'
<1>. DEFINE wait == [NoWait EXCEPT !.events = {e}]
<1>1. /\ wait \in CatchUp /\ wait.fences = {} /\ wait.events = {e} /\ wait.counter = 0 /\ ~wait.any
  BY ValuesAreNumbers DEF NoWait, CatchUp
<1>2. /\ Asking /\ CatchUpWith(wait, wait) /\ stage' = stage
      /\ known' = IF Holds(wait, "original") THEN [known EXCEPT !.events = @ \cup {e}] ELSE known
  BY DEF GetEventStatus
<1>. HIDE DEF wait
<1>3. \A side \in Sides : Holds(wait, side) => e \in gpu[side].events
  BY <1>1 DEF Holds
<1>4. CASE Holds(wait, "original")
  <2>. DEFINE seen == [fences |-> {}, counter |-> 0, events |-> {e}]
  <2>1. /\ known' \in Knowledge /\ known'.fences = known.fences
        /\ known'.events = known.events \cup {e} /\ known'.counter = known.counter
    BY <1>2, <1>4 DEF ReplayInv, TypeOK, Knowledge
  <2>2. seen \in Knowledge /\ stage' \in [Semaphores -> Stages]
    BY <1>2, ValuesAreNumbers DEF Knowledge, ReplayInv, TypeOK
  <2>3. known.counter <= known.counter /\ 0 <= Replay.counter
    BY SidesTyped DEF ReplayInv
  <2>4. Asked(wait, wait, seen)
    BY <1>1, <1>2, <2>1, <2>2, <2>3 DEF Asked
  <2>5. KnownIsSo'
    <3>1. e \in Original.events /\ Original' = Original
      BY <1>2, <1>3, <1>4 DEF Original, Sides, Asking
    <3>. QED
      BY <2>1, <3>1 DEF ReplayInv, KnownIsSo
  <2>6. Holds(wait, "replay") => {e} \subseteq Replay.events
    BY <1>3 DEF Replay, Sides
  <2>. QED
    BY <1>1, <1>4, <2>3, <2>4, <2>5, <2>6, AskedStep
<1>5. CASE ~Holds(wait, "original")
  <2>1. UNCHANGED <<known, stage>>
    BY <1>2, <1>5
  <2>. QED
    BY <1>1, <1>2, <2>1, AnyAsked
<1>. QED
  BY <1>4, <1>5

LEMMA CatchUpEndsStep == ASSUME ReplayInv, CatchUpEnds PROVE ReplayInv'
<1>1. /\ Holds(catchUp, "replay") /\ catchUp' = NoWait
      /\ UNCHANGED <<inRange, calls, tracked, gpu, used, stage, known, pendingFences, invalid>>
  BY DEF CatchUpEnds, appVars
<1>2. Original' = Original /\ Replay' = Replay
  BY <1>1 DEF Original, Replay
<1>3. NoWait \in CatchUp
  BY ValuesAreNumbers DEF NoWait, CatchUp
<1>4. TypeOK'
  BY <1>1, <1>3 DEF ReplayInv, TypeOK
<1>5. FencesInUse' /\ FencesOnce' /\ FencesFollowed' /\ TrackedAhead' /\ KnownIsSo'
  BY <1>1, <1>2 DEF ReplayInv, FencesInUse, FencesOnce, FencesFollowed, TrackedAhead, KnownIsSo
<1>6. SeenOrAwaited'
  <2>. SUFFICES ASSUME inRange
                PROVE  SeenOrAwaited'
    BY <1>1 DEF SeenOrAwaited
  <2>1. known.fences \subseteq Replay.fences /\ known.events \cap FollowedEvents \subseteq Replay.events
    BY <1>1 DEF ReplayInv, SeenOrAwaited, Holds, Replay
  <2>2. /\ known.counter \in Nat /\ Replay.counter \in Nat /\ catchUp.counter \in Nat
        /\ Replay.counter >= catchUp.counter
    BY <1>1, SidesTyped, ValuesAreNumbers DEF ReplayInv, TypeOK, CatchUp, Holds, Replay
  <2>3. known.counter <= Replay.counter
    BY <2>2 DEF ReplayInv, SeenOrAwaited
  <2>. QED
    BY <1>1, <1>2, <2>1, <2>3 DEF SeenOrAwaited
<1>. QED
  BY <1>4, <1>5, <1>6 DEF ReplayInv
-----------------------------------------------------------------------------
\* The queues hold only submits, and calls without an effect on events.
LEMMA QueuesHarmlessInit == Init => QueuesHarmless
<1>. SUFFICES ASSUME Init, NEW side \in Sides, NEW q \in Timelines
              PROVE  gpu[side].queues[q] \in Seq(Harmless)
  BY DEF QueuesHarmless
<1>1. gpu[side].queues[q] = <<>>
  BY DEF Init, IdleGpu
<1>. QED
  BY <1>1, EmptySeq

LEMMA EnqueueHarmless ==
  ASSUME TypeOK, QueuesHarmless, NEW q \in Timelines, NEW x \in Harmless, Enqueue(q, x)
  PROVE  QueuesHarmless'
<1>1. ASSUME NEW side \in Sides, NEW r \in Timelines
      PROVE  gpu'[side].queues[r] \in Seq(Harmless)
  <2>1. x \in Submit /\ gpu[side] \in Gpu
    BY DEF TypeOK, Harmless
  <2>2. gpu[side].queues[q] \in Seq(Harmless) /\ gpu[side].queues[r] \in Seq(Harmless)
    BY DEF QueuesHarmless
  <2>3. GivenTo([gpu[side] EXCEPT !.queues[q] = Append(@, x)], gpu[side], q, x)
    BY <2>1, GiveIt
  <2>4. CASE side \in Active
    <3>1. gpu'[side] = [gpu[side] EXCEPT !.queues[q] = Append(@, x)]
      BY <2>4 DEF Enqueue
    <3>2. GivenTo(gpu'[side], gpu[side], q, x)
      BY <2>3, <3>1
    <3>3. Append(gpu[side].queues[q], x) \in Seq(Harmless)
      BY <2>2, AppendProperties
    <3>. QED
      BY <2>2, <3>2, <3>3 DEF GivenTo
  <2>5. CASE side \notin Active
    BY <2>2, <2>5 DEF Enqueue
  <2>. QED
    BY <2>4, <2>5
<1>. QED
  BY <1>1 DEF QueuesHarmless

LEMMA SameQueuesHarmless ==
  ASSUME QueuesHarmless, \A side \in Sides : gpu'[side].queues = gpu[side].queues
  PROVE  QueuesHarmless'
BY DEF QueuesHarmless

LEMMA RestoreHarmless ==
  ASSUME TypeOK, QueuesHarmless, NEW q \in Queues, NEW waits \in SUBSET Semaphores,
         QueuePresentAndRestoreState(q, waits)
  PROVE  QueuesHarmless'
<1>. DEFINE x == [EmptySubmit(NoFence) EXCEPT !.waits = waits]
            g == [gpu["original"] EXCEPT !.queues[q] = Append(@, x)]
<1>1. x \in Harmless /\ x \in Submit /\ q \in Timelines
  BY WaitingSubmitType, NoEffectIsHarmless DEF Timelines
<1>2. gpu["original"] \in Gpu /\ \A r \in Timelines : gpu["original"].queues[r] \in Seq(Harmless)
  BY DEF TypeOK, Sides, QueuesHarmless
<1>3. gpu'["original"] = g /\ gpu'["replay"] = RestoreState(tracked')
  BY DEF QueuePresentAndRestoreState
<1>4. GivenTo(g, gpu["original"], q, x)
  BY <1>1, <1>2, GiveIt
<1>. HIDE DEF x, g
<1>5. Append(gpu["original"].queues[q], x) \in Seq(Harmless)
  BY <1>1, <1>2, AppendProperties
<1>6. \A r \in Timelines : gpu'["original"].queues[r] \in Seq(Harmless)
  BY <1>2, <1>3, <1>4, <1>5 DEF GivenTo
<1>7. \A r \in Timelines : gpu'["replay"].queues[r] = <<>>
  BY <1>3 DEF RestoreState, EmitCreationCommand, IdleGpu
<1>. QED
  BY <1>6, <1>7, EmptySeq DEF QueuesHarmless, Sides

LEMMA QueuesHarmlessStep == ReplayInv /\ QueuesHarmless /\ [Next]_vars => QueuesHarmless'
<1>. SUFFICES ASSUME ReplayInv, QueuesHarmless, [Next]_vars
              PROVE  QueuesHarmless'
  OBVIOUS
<1>1. TypeOK /\ gpu \in [Sides -> Gpu]
  BY DEF ReplayInv, TypeOK
<1>2. CASE \E q \in Queues, x \in Submits : QueueSubmit(q, x)
  BY <1>1, <1>2, SubmitsAreHarmless, EnqueueHarmless DEF QueueSubmit, Timelines
<1>3. CASE \E q \in Queues, f \in Fences : QueueBindSparse(q, f)
  <2>1. PICK q \in Queues, f \in Fences : Enqueue(q, EmptySubmit(f))
    BY <1>3 DEF QueueBindSparse
  <2>2. EmptySubmit(f) \in Harmless /\ q \in Timelines
    BY EmptySubmitType, NoEffectIsHarmless DEF Timelines
  <2>. QED
    BY <1>1, <2>1, <2>2, EnqueueHarmless
<1>4. CASE \E s \in Semaphores, f \in Fences \cup {NoFence} : AcquireNextImage(s, f)
  <2>1. PICK s \in Semaphores, f \in Fences \cup {NoFence} :
          Enqueue(Display, [EmptySubmit(f) EXCEPT !.signals = {s}])
    BY <1>4 DEF AcquireNextImage
  <2>2. [EmptySubmit(f) EXCEPT !.signals = {s}] \in Harmless
    <3>1. {s} \in SUBSET Semaphores
      OBVIOUS
    <3>. QED
      BY <3>1, SignalingSubmitType, NoEffectIsHarmless
  <2>. QED
    BY <1>1, <2>1, <2>2, EnqueueHarmless DEF Timelines
<1>5. CASE \E q \in Queues, waits \in SUBSET Semaphores : QueuePresent(q, waits)
  <2>1. PICK q \in Queues, waits \in SUBSET Semaphores :
          Enqueue(q, [EmptySubmit(NoFence) EXCEPT !.waits = waits])
    BY <1>5 DEF QueuePresent
  <2>2. [EmptySubmit(NoFence) EXCEPT !.waits = waits] \in Harmless /\ q \in Timelines
    BY WaitingSubmitType, NoEffectIsHarmless DEF Timelines
  <2>. QED
    BY <1>1, <2>1, <2>2, EnqueueHarmless
<1>6. CASE \E q \in Queues, waits \in SUBSET Semaphores : QueuePresentAndRestoreState(q, waits)
  BY <1>1, <1>6, RestoreHarmless
<1>7. CASE \E side \in Sides, q \in Timelines : Perform(side, q)
  <2>1. PICK side \in Sides, q \in Timelines : Perform(side, q)
    BY <1>7
  <2>2. \A r \in Timelines : gpu'[side].queues[r] \in Seq(Harmless)
    BY <1>1, <2>1, PerformFollowed
  <2>3. \A other \in Sides \ {side} : gpu'[other] = gpu[other]
    BY <1>1, <2>1, PerformEffect
  <2>. QED
    BY <2>2, <2>3 DEF QueuesHarmless
<1>8. CASE \E fs \in SUBSET Fences : ResetFences(fs)
  <2>1. \A side \in Sides : gpu'[side].queues = gpu[side].queues
    BY <1>1, <1>8 DEF ResetFences, Gpu
  <2>. QED
    BY <2>1, SameQueuesHarmless
<1>9. CASE \E e \in Events : SetEvent(e) \/ ResetEvent(e)
  <2>1. \A side \in Sides : gpu'[side].queues = gpu[side].queues
    BY <1>1, <1>9 DEF SetEvent, ResetEvent, Gpu
  <2>. QED
    BY <2>1, SameQueuesHarmless
<1>10. CASE \E v \in Values : SignalSemaphore(v)
  <2>1. PICK v \in Values : SignalSemaphore(v)
    BY <1>10
  <2>2. /\ Original \in Gpu /\ Replay \in Gpu
        /\ Original' = [Original EXCEPT !.counter = v]
        /\ Replay' = [Replay EXCEPT !.counter = Replay'.counter]
    BY <1>1, <2>1, SignalEffect, SidesTyped
  <2>3. Original'.queues = Original.queues /\ Replay'.queues = Replay.queues
    BY <2>2 DEF Gpu
  <2>. QED
    BY <2>3, SameQueuesHarmless DEF Original, Replay, Sides
<1>11. CASE gpu' = gpu
  BY <1>11, SameQueuesHarmless
<1>. QED
  <2>1. CASE \E fs \in SUBSET Fences :
               PollFences(fs) \/ PollAnyFence(fs) \/ WaitForFences(fs) \/ WaitForAnyFence(fs)
    BY <1>11, <2>1 DEF PollFences, PollAnyFence, WaitForFences, WaitForAnyFence, Asking
  <2>2. CASE \/ \E f \in Fences : GetFenceStatus(f)
             \/ \E v \in Values : GetSemaphoreCounterValue(v) \/ WaitSemaphores(v)
             \/ \E e \in Events : GetEventStatus(e)
    BY <1>11, <2>2 DEF GetFenceStatus, GetSemaphoreCounterValue, WaitSemaphores, GetEventStatus, Asking
  <2>3. CASE CatchUpEnds \/ UNCHANGED vars
    BY <1>11, <2>3 DEF CatchUpEnds, vars
  <2>. QED
    BY <1>2, <1>3, <1>4, <1>5, <1>6, <1>7, <1>8, <1>9, <1>10, <2>1, <2>2, <2>3 DEF Next

LEMMA InvStep == ReplayInv /\ QueuesHarmless /\ [Next]_vars => ReplayInv'
<1>. SUFFICES ASSUME ReplayInv, QueuesHarmless, [Next]_vars
              PROVE  ReplayInv'
  OBVIOUS
<1>1. CASE \E q \in Queues, x \in Submits : QueueSubmit(q, x)
  BY <1>1, QueueSubmitStep
<1>2. CASE \E q \in Queues, f \in Fences : QueueBindSparse(q, f)
  BY <1>2, QueueBindSparseStep
<1>3. CASE \E s \in Semaphores, f \in Fences \cup {NoFence} : AcquireNextImage(s, f)
  BY <1>3, AcquireNextImageStep
<1>4. CASE \E q \in Queues, waits \in SUBSET Semaphores :
             QueuePresent(q, waits) \/ QueuePresentAndRestoreState(q, waits)
  BY <1>4, QueuePresentStep, RestoreStep
<1>5. CASE \E fs \in SUBSET Fences \ {{}} :
             \/ ResetFences(fs)
             \/ PollFences(fs) \/ PollAnyFence(fs) \/ WaitForFences(fs) \/ WaitForAnyFence(fs)
  BY <1>5, ResetFencesStep, PollFencesStep, AnyFenceStep, WaitForFencesStep
<1>6. CASE \E f \in Fences : GetFenceStatus(f)
  BY <1>6, GetFenceStatusStep
<1>7. CASE \E v \in Values \ {0} :
             SignalSemaphore(v) \/ GetSemaphoreCounterValue(v) \/ WaitSemaphores(v)
  BY <1>7, SignalSemaphoreStep, CounterStep
<1>8. CASE \E e \in Events : SetEvent(e) \/ ResetEvent(e) \/ GetEventStatus(e)
  BY <1>8, SetEventStep, ResetEventStep, GetEventStatusStep
<1>9. CASE CatchUpEnds
  BY <1>9, CatchUpEndsStep
<1>10. CASE \E side \in Sides, q \in Timelines : Perform(side, q)
  BY <1>10, PerformOriginalStep, PerformReplayStep DEF Sides
<1>11. CASE UNCHANGED vars
  <2>1. UNCHANGED <<inRange, calls, tracked, gpu, used, stage, known, pendingFences, catchUp,
                    invalid>>
    BY <1>11 DEF vars, appVars, replayVars
  <2>2. Original' = Original /\ Replay' = Replay
    BY <2>1 DEF Original, Replay
  <2>3. TypeOK'
    BY <2>1 DEF ReplayInv, TypeOK
  <2>4. FencesInUse' /\ FencesOnce' /\ FencesFollowed' /\ TrackedAhead' /\ KnownIsSo'
    BY <2>1, <2>2 DEF ReplayInv, FencesInUse, FencesOnce, FencesFollowed, TrackedAhead, KnownIsSo
  <2>5. SeenOrAwaited'
    BY <2>1, <2>2 DEF ReplayInv, SeenOrAwaited
  <2>. QED
    BY <2>3, <2>4, <2>5 DEF ReplayInv
<1>. QED
  BY <1>1, <1>2, <1>3, <1>4, <1>5, <1>6, <1>7, <1>8, <1>9, <1>10, <1>11 DEF Next

LEMMA InvAlways == Spec => []ReplayInv
BY InvInit, InvStep, QueuesHarmlessInit, QueuesHarmlessStep, PTL DEF Spec

(***************************************************************************)
(* The variables keep their types, for any submits that Vulkan allows      *)
(* and any number of calls.                                                *)
(***************************************************************************)
THEOREM ReplayTypeCorrect == Spec => []TypeOK
<1>1. ReplayInv => TypeOK
  BY DEF ReplayInv
<1>. QED
  BY <1>1, InvAlways, PTL

(***************************************************************************)
(* Whatever the application has seen signaled, before the range or in it,  *)
(* is signaled in the replay whenever the replay goes on, as for fences,   *)
(* the timeline semaphore and the events that only the host resets and     *)
(* that no secondary command buffer sets: what the restore creates covers  *)
(* what was seen before, and the catch-up waits, with the fences that have *)
(* no pending signal dropped from them, cover the rest.                    *)
(***************************************************************************)
THEOREM SeenIsAlwaysReproduced == Spec => []SeenIsReproduced
<1>1. ReplayInv => SeenIsReproduced
  BY UpToDate DEF ReplayInv, SeenIsReproduced, Replay
<1>. QED
  BY <1>1, InvAlways, PTL
-----------------------------------------------------------------------------
(***************************************************************************)
(* Nothing is stuck in the replay that is not stuck in the original.       *)
(*                                                                         *)
(* The submits that the original has performed and the replay has not are  *)
(* the first ones of the replay's queues.  The replay could perform them   *)
(* in the order in which the original did: what one of them waits for is   *)
(* there or is signaled by an earlier one, since a semaphore is signaled   *)
(* once for every wait, and nobody else takes it.  So while there are any, *)
(* the replay is not at rest.                                              *)
(***************************************************************************)
Waiting(Q, s) == \E q \in Timelines : \E i \in 1 .. Len(Q[q]) : s \in Q[q][i].waits
Signaling(Q, s) == \E q \in Timelines : \E i \in 1 .. Len(Q[q]) : s \in Q[q][i].signals
Owed(Q, sem, s) == s \in sem \/ Signaling(Q, s)

\* A semaphore is signaled, or going to be, by one submit and for one that waits for it, as
\* the application says in the stage of it.
SemaphoreKept(Q, sem, s, at, excused) ==
  /\ \A q \in Timelines : \A i \in 1 .. Len(Q[q]) : s \in Q[q][i].waits =>
       /\ Owed(Q, sem, s)
       /\ Q[q][i].fence = at \/ (at = "idle" /\ Q[q][i].fence \in excused)
       /\ \A r \in Timelines : \A j \in 1 .. Len(Q[r]) : s \in Q[r][j].waits => r = q /\ j = i
  /\ \A q \in Timelines : \A i \in 1 .. Len(Q[q]) : s \in Q[q][i].signals =>
       /\ s \notin sem
       /\ \A r \in Timelines : \A j \in 1 .. Len(Q[r]) : s \in Q[r][j].signals => r = q /\ j = i
  /\ Owed(Q, sem, s) => at = "owed" \/ Waiting(Q, s)
  /\ at = "owed" => Owed(Q, sem, s)
SemaphoresKept(Q, sem, st, excused) ==
  \A s \in Semaphores : SemaphoreKept(Q, sem, s, st[s], excused)

\* A fence that a queue is going to signal is in use, not signaled yet, and no other submit
\* will signal it.
FencesKept(Q, fences, u) ==
  /\ fences \subseteq u
  /\ \A q \in Timelines : \A i \in 1 .. Len(Q[q]) : Q[q][i].fence # NoFence =>
       /\ Q[q][i].fence \in u /\ Q[q][i].fence \notin fences
       /\ \A r \in Timelines : \A j \in 1 .. Len(Q[r]) : Q[r][j].fence = Q[q][i].fence => r = q /\ j = i

\* The queues O of the original and R of the replay end with the same submits.  As many of the
\* first ones of R have been performed by the original:
Lag(O, R, q) == Len(R[q]) - Len(O[q])
SameStream(O, R) ==
  \A q \in Timelines : \A i \in 1 .. Len(O[q]), j \in 1 .. Len(R[q]) :
    j = i + Lag(O, R, q) => O[q][i] = R[q][j]

\* The timeline semaphore of the replay is ahead of what only the original has to do, and
\* comes to what the original has reached.
LeftCovered(O, R, c) ==
  \A q \in Timelines : \A i \in 1 .. Len(O[q]) : i + Lag(O, R, q) <= 0 => O[q][i].counter <= c
Reached(O, R, c, v) ==
  c >= v \/ \E q \in Timelines : \E i \in 1 .. Lag(O, R, q) : R[q][i].counter >= v

\* The submits that only the original has performed can be performed in the order of ranks.
Ready(O, R, sem, c, rank, q, i) ==
  /\ \A s \in R[q][i].waits :
       s \in sem \/ \E p \in Timelines : \E j \in 1 .. Lag(O, R, p) :
                      s \in R[p][j].signals /\ rank[p][j] < rank[q][i]
  /\ \/ c >= R[q][i].reach
     \/ \E p \in Timelines : \E j \in 1 .. Lag(O, R, p) :
          R[p][j].counter >= R[q][i].reach /\ rank[p][j] < rank[q][i]
Ranked(O, R, sem, c, rank, n) ==
  \A q \in Timelines : \A i \in 1 .. Lag(O, R, q) :
    /\ rank[q][i] \in Nat /\ rank[q][i] < n
    /\ \A j \in 1 .. Lag(O, R, q) : j < i => rank[q][j] < rank[q][i]
    /\ Ready(O, R, sem, c, rank, q, i)

Behind(O, v, R, sem, c) ==
  /\ SameStream(O, R) /\ LeftCovered(O, R, c) /\ Reached(O, R, c, v)
  /\ \E rank, n : n \in Nat /\ Ranked(O, R, sem, c, rank, n)

RestoreComplete ==
  ~inRange => /\ tracked.fences \subseteq used
              /\ tracked.semaphores = {s \in Semaphores : stage[s] = "owed"}
Awaited == IF catchUp.any THEN {} ELSE catchUp.fences

OrderInv ==
  /\ RestoreComplete
  /\ SemaphoresKept(Original.queues, Original.semaphores, stage, {})
  /\ inRange =>
       /\ FencesKept(Replay.queues, Replay.fences, used)
       /\ SemaphoresKept(Replay.queues, Replay.semaphores, stage, Awaited)
       /\ Behind(Original.queues, Original.counter, Replay.queues, Replay.semaphores, Replay.counter)
-----------------------------------------------------------------------------
(***************************************************************************)
(* A queue is given a submit, and performs one.                            *)
(***************************************************************************)
Extended(Q, q, x) == [Q EXCEPT ![q] = Append(@, x)]
Advanced(Q, q) == [Q EXCEPT ![q] = Tail(@)]
Was(q, r, i) == IF r = q THEN i + 1 ELSE i

\* Where the submits of Q, and x, are after queue q was given x.
ExtendsTo(Q, q, x, E) ==
  /\ E \in [Timelines -> Seq(Submit)]
  /\ \A r \in Timelines : Len(Q[r]) \in Nat /\ Len(E[r]) = IF r = q THEN Len(Q[r]) + 1 ELSE Len(Q[r])
  /\ Len(Q[q]) + 1 \in 1 .. Len(E[q]) /\ E[q][Len(Q[q]) + 1] = x
  /\ \A r \in Timelines : \A i \in 1 .. Len(Q[r]) : i \in 1 .. Len(E[r]) /\ E[r][i] = Q[r][i]
  /\ \A r \in Timelines : \A i \in 1 .. Len(E[r]) :
       i \in 1 .. Len(Q[r]) \/ (r = q /\ i = Len(Q[q]) + 1)

LEMMA ExtendedPositions ==
  ASSUME NEW Q \in [Timelines -> Seq(Submit)], NEW q \in Timelines, NEW x \in Submit,
         NEW E, E = Extended(Q, q, x)
  PROVE  ExtendsTo(Q, q, x, E)
<1>1. Q[q] \in Seq(Submit) /\ Len(Q[q]) \in Nat
  OBVIOUS
<1>2. /\ Append(Q[q], x) \in Seq(Submit) /\ Len(Append(Q[q], x)) = Len(Q[q]) + 1
      /\ Append(Q[q], x)[Len(Q[q]) + 1] = x
      /\ \A i \in 1 .. Len(Q[q]) : Append(Q[q], x)[i] = Q[q][i]
  BY <1>1
<1>3. E[q] = Append(Q[q], x) /\ \A r \in Timelines : r # q => E[r] = Q[r]
  BY DEF Extended
<1>4. E \in [Timelines -> Seq(Submit)]
  BY <1>2 DEF Extended
<1>5. \A r \in Timelines : Len(Q[r]) \in Nat
  OBVIOUS
<1>6. Len(E[q]) = Len(Q[q]) + 1 /\ E[q][Len(Q[q]) + 1] = x
      /\ \A i \in 1 .. Len(Q[q]) : E[q][i] = Q[q][i]
  BY <1>2, <1>3
<1>7. ASSUME NEW r \in Timelines
      PROVE  /\ Len(E[r]) = IF r = q THEN Len(Q[r]) + 1 ELSE Len(Q[r])
             /\ \A i \in 1 .. Len(Q[r]) : i \in 1 .. Len(E[r]) /\ E[r][i] = Q[r][i]
             /\ \A i \in 1 .. Len(E[r]) : i \in 1 .. Len(Q[r]) \/ (r = q /\ i = Len(Q[q]) + 1)
  <2>1. CASE r = q
    BY ONLY <1>1, <1>6, <2>1
  <2>2. CASE r # q
    BY ONLY <1>3, <2>2, r \in Timelines
  <2>. QED
    BY <2>1, <2>2
<1>8. Len(Q[q]) + 1 \in 1 .. Len(E[q])
  BY ONLY <1>1, <1>6
<1>. QED
  BY ONLY <1>4, <1>5, <1>6, <1>7, <1>8 DEF ExtendsTo

\* Where the submits of Q are after the first one of queue q was performed.
AdvancesTo(Q, q, A) ==
  /\ A \in [Timelines -> Seq(Submit)]
  /\ 1 \in 1 .. Len(Q[q]) /\ Q[q][1] \in Submit /\ Head(Q[q]) = Q[q][1]
  /\ \A r \in Timelines : /\ Len(Q[r]) \in Nat /\ Len(A[r]) \in Nat
                          /\ Len(A[r]) = IF r = q THEN Len(Q[r]) - 1 ELSE Len(Q[r])
  /\ \A r \in Timelines : \A i \in 1 .. Len(A[r]) :
       /\ Was(q, r, i) \in 1 .. Len(Q[r]) /\ A[r][i] = Q[r][Was(q, r, i)]
       /\ ~(r = q /\ Was(q, r, i) = 1)
  /\ \A r \in Timelines : \A k \in 1 .. Len(Q[r]) :
       (r = q /\ k = 1) \/ \E i \in 1 .. Len(A[r]) : Was(q, r, i) = k

LEMMA AdvancedPositions ==
  ASSUME NEW Q \in [Timelines -> Seq(Submit)], NEW q \in Timelines, Q[q] # <<>>,
         NEW A, A = Advanced(Q, q)
  PROVE  AdvancesTo(Q, q, A)
<1>1. Q[q] \in Seq(Submit) /\ Len(Q[q]) \in Nat /\ Len(Q[q]) >= 1
  OBVIOUS
<1>2. /\ Tail(Q[q]) \in Seq(Submit) /\ Len(Tail(Q[q])) = Len(Q[q]) - 1 /\ Head(Q[q]) = Q[q][1]
      /\ \A i \in 1 .. Len(Q[q]) - 1 : Tail(Q[q])[i] = Q[q][i + 1]
  BY <1>1
<1>3. A[q] = Tail(Q[q]) /\ \A r \in Timelines : r # q => A[r] = Q[r]
  BY DEF Advanced
<1>4. A \in [Timelines -> Seq(Submit)]
  BY <1>2 DEF Advanced
<1>5. \A r \in Timelines : Len(Q[r]) \in Nat
  OBVIOUS
<1>6. Len(A[q]) = Len(Q[q]) - 1 /\ \A i \in 1 .. Len(Q[q]) - 1 : A[q][i] = Q[q][i + 1]
  BY <1>2, <1>3
<1>7. ASSUME NEW r \in Timelines
      PROVE  /\ Len(A[r]) \in Nat /\ Len(A[r]) = IF r = q THEN Len(Q[r]) - 1 ELSE Len(Q[r])
             /\ \A i \in 1 .. Len(A[r]) :
                  /\ Was(q, r, i) \in 1 .. Len(Q[r]) /\ A[r][i] = Q[r][Was(q, r, i)]
                  /\ ~(r = q /\ Was(q, r, i) = 1)
             /\ \A k \in 1 .. Len(Q[r]) :
                  (r = q /\ k = 1) \/ \E i \in 1 .. Len(A[r]) : Was(q, r, i) = k
  <2>1. CASE r = q
    <3>1. Len(A[q]) \in Nat
      BY ONLY <1>1, <1>6
    <3>2. ASSUME NEW i \in 1 .. Len(A[q])
          PROVE  /\ Was(q, q, i) = i + 1 /\ i + 1 \in 1 .. Len(Q[q]) /\ A[q][i] = Q[q][i + 1]
                 /\ i + 1 # 1
      BY ONLY <1>1, <1>6, i \in 1 .. Len(A[q]) DEF Was
    <3>3. ASSUME NEW k \in 1 .. Len(Q[q]), k # 1
          PROVE  \E i \in 1 .. Len(A[q]) : Was(q, q, i) = k
      <4>1. k - 1 \in 1 .. Len(A[q]) /\ Was(q, q, k - 1) = k
        BY ONLY <1>1, <1>6, <3>3, k \in 1 .. Len(Q[q]) DEF Was
      <4>. QED
        BY <4>1
    <3>. QED
      BY <1>6, <2>1, <3>1, <3>2, <3>3
  <2>2. CASE r # q
    BY ONLY <1>3, <1>5, <2>2, r \in Timelines DEF Was
  <2>. QED
    BY <2>1, <2>2
<1>8. 1 \in 1 .. Len(Q[q]) /\ Q[q][1] \in Submit
  BY <1>1
<1>. QED
  BY ONLY <1>2, <1>4, <1>5, <1>7, <1>8 DEF AdvancesTo

LEMMA WasOnce ==
  ASSUME NEW q, NEW r, NEW i \in Int, NEW j \in Int, Was(q, r, i) = Was(q, r, j)
  PROVE  i = j
BY DEF Was

LEMMA FenceIsNoStage ==
  ASSUME NEW x \in Submit PROVE x.fence # "idle" /\ x.fence # "owed" /\ x.fence \in Fences \cup {NoFence}
BY StagesAssumption DEF Submit

LEMMA SubmitAt ==
  ASSUME NEW Q \in [Timelines -> Seq(Submit)], NEW q \in Timelines, NEW i \in 1 .. Len(Q[q])
  PROVE  Q[q][i] \in Submit
OBVIOUS
-----------------------------------------------------------------------------
(***************************************************************************)
(* The semaphores.                                                         *)
(***************************************************************************)
\* A semaphore that is owed has nobody who waits for it, and one that is idle is not even
\* signaled.
LEMMA StageSays ==
  ASSUME NEW Q \in [Timelines -> Seq(Submit)], NEW sem, NEW s, NEW at, SemaphoreKept(Q, sem, s, at, {})
  PROVE  /\ at \in {"idle", "owed"} => ~Waiting(Q, s)
         /\ at = "idle" => ~Owed(Q, sem, s)
<1>1. ASSUME NEW q \in Timelines, NEW i \in 1 .. Len(Q[q]), s \in Q[q][i].waits,
             at \in {"idle", "owed"}
      PROVE  FALSE
  <2>1. Q[q][i].fence = at
    BY <1>1 DEF SemaphoreKept
  <2>2. Q[q][i].fence # "idle" /\ Q[q][i].fence # "owed"
    BY SubmitAt, FenceIsNoStage
  <2>. QED
    BY <1>1, <2>1, <2>2
<1>2. at \in {"idle", "owed"} => ~Waiting(Q, s)
  BY <1>1 DEF Waiting
<1>. QED
  BY <1>2 DEF SemaphoreKept

LEMMA SemaphoreGiven ==
  ASSUME NEW Q \in [Timelines -> Seq(Submit)], NEW q \in Timelines, NEW x \in Submit,
         NEW sem, NEW s, NEW at, SemaphoreKept(Q, sem, s, at, {}),
         s \in x.waits => at = "owed", s \in x.signals => at = "idle",
         NEW E, E = Extended(Q, q, x),
         NEW now, now = IF s \in x.waits THEN x.fence ELSE IF s \in x.signals THEN "owed" ELSE at
  PROVE  SemaphoreKept(E, sem, s, now, {})
<1>1. PICK n :
        /\ n \in 1 .. Len(E[q]) /\ E[q][n] = x
        /\ \A r \in Timelines : \A i \in 1 .. Len(Q[r]) : i \in 1 .. Len(E[r]) /\ E[r][i] = Q[r][i]
        /\ \A r \in Timelines : \A i \in 1 .. Len(E[r]) : i \in 1 .. Len(Q[r]) \/ (r = q /\ i = n)
  <2>1. ExtendsTo(Q, q, x, E)
    BY ExtendedPositions
  <2>. QED
    BY ONLY <2>1 DEF ExtendsTo
<1>2. /\ s \in x.waits => ~Waiting(Q, s) /\ Owed(Q, sem, s) /\ s \notin x.signals
      /\ s \in x.signals => ~Waiting(Q, s) /\ ~Owed(Q, sem, s)
  <2>1. /\ at \in {"idle", "owed"} => ~Waiting(Q, s)
        /\ at = "idle" => ~Owed(Q, sem, s)
    BY StageSays
  <2>2. at = "owed" => Owed(Q, sem, s)
    BY DEF SemaphoreKept
  <2>. QED
    BY <2>1, <2>2
<1>3. ASSUME NEW r \in Timelines, NEW i \in 1 .. Len(E[r])
      PROVE  (i \in 1 .. Len(Q[r]) /\ E[r][i] = Q[r][i]) \/ (r = q /\ i = n /\ E[r][i] = x)
  BY <1>1
<1>4. Waiting(E, s) <=> s \in x.waits \/ Waiting(Q, s)
  <2>1. ASSUME NEW r \in Timelines, NEW i \in 1 .. Len(E[r]), s \in E[r][i].waits
        PROVE  s \in x.waits \/ \E j \in 1 .. Len(Q[r]) : s \in Q[r][j].waits
    BY <1>3, <2>1
  <2>2. ASSUME NEW r \in Timelines, NEW i \in 1 .. Len(Q[r]), s \in Q[r][i].waits
        PROVE  \E j \in 1 .. Len(E[r]) : s \in E[r][j].waits
    BY <1>1, <2>2
  <2>3. s \in x.waits => \E j \in 1 .. Len(E[q]) : s \in E[q][j].waits
    BY <1>1
  <2>. QED
    BY <2>1, <2>2, <2>3 DEF Waiting
<1>5. Signaling(E, s) <=> s \in x.signals \/ Signaling(Q, s)
  <2>1. ASSUME NEW r \in Timelines, NEW i \in 1 .. Len(E[r]), s \in E[r][i].signals
        PROVE  s \in x.signals \/ \E j \in 1 .. Len(Q[r]) : s \in Q[r][j].signals
    BY <1>3, <2>1
  <2>2. ASSUME NEW r \in Timelines, NEW i \in 1 .. Len(Q[r]), s \in Q[r][i].signals
        PROVE  \E j \in 1 .. Len(E[r]) : s \in E[r][j].signals
    BY <1>1, <2>2
  <2>3. s \in x.signals => \E j \in 1 .. Len(E[q]) : s \in E[q][j].signals
    BY <1>1
  <2>. QED
    BY <2>1, <2>2, <2>3 DEF Signaling
<1>6. ASSUME NEW r \in Timelines, NEW i \in 1 .. Len(E[r]), s \in E[r][i].waits
      PROVE  /\ Owed(E, sem, s) /\ E[r][i].fence = now
             /\ \A p \in Timelines : \A j \in 1 .. Len(E[p]) : s \in E[p][j].waits => p = r /\ j = i
  <2>1. CASE s \in x.waits
    <3>1. ASSUME NEW p \in Timelines, NEW j \in 1 .. Len(E[p]), s \in E[p][j].waits
          PROVE  p = q /\ j = n
      <4>1. ~(j \in 1 .. Len(Q[p]) /\ E[p][j] = Q[p][j])
        BY <1>2, <2>1, <3>1 DEF Waiting
      <4>. QED
        BY <1>3, <4>1
    <3>2. r = q /\ i = n /\ E[r][i] = x
      BY <1>1, <1>6, <3>1
    <3>. QED
      BY <1>2, <1>5, <2>1, <3>1, <3>2 DEF Owed
  <2>2. CASE s \notin x.waits
    <3>1. \A p \in Timelines : \A j \in 1 .. Len(E[p]) :
            s \in E[p][j].waits => j \in 1 .. Len(Q[p]) /\ E[p][j] = Q[p][j]
      BY <1>1, <2>2
    <3>2. i \in 1 .. Len(Q[r]) /\ s \in Q[r][i].waits /\ E[r][i] = Q[r][i]
      BY <1>6, <3>1
    <3>3. s \notin x.signals
      BY <1>2, <3>2 DEF Waiting
    <3>4. /\ Owed(Q, sem, s) /\ Q[r][i].fence = at
          /\ \A p \in Timelines : \A j \in 1 .. Len(Q[p]) : s \in Q[p][j].waits => p = r /\ j = i
      BY <3>2 DEF SemaphoreKept
    <3>. QED
      BY <1>5, <2>2, <3>1, <3>2, <3>3, <3>4 DEF Owed
  <2>. QED
    BY <2>1, <2>2
<1>7. ASSUME NEW r \in Timelines, NEW i \in 1 .. Len(E[r]), s \in E[r][i].signals
      PROVE  /\ s \notin sem
             /\ \A p \in Timelines : \A j \in 1 .. Len(E[p]) : s \in E[p][j].signals => p = r /\ j = i
  <2>1. CASE s \in x.signals
    <3>1. ASSUME NEW p \in Timelines, NEW j \in 1 .. Len(E[p]), s \in E[p][j].signals
          PROVE  p = q /\ j = n
      <4>1. ~(j \in 1 .. Len(Q[p]) /\ E[p][j] = Q[p][j])
        BY <1>2, <2>1, <3>1 DEF Owed, Signaling
      <4>. QED
        BY <1>3, <4>1
    <3>. QED
      BY <1>2, <1>7, <2>1, <3>1 DEF Owed
  <2>2. CASE s \notin x.signals
    <3>1. \A p \in Timelines : \A j \in 1 .. Len(E[p]) :
            s \in E[p][j].signals => j \in 1 .. Len(Q[p]) /\ E[p][j] = Q[p][j]
      BY <1>1, <2>2
    <3>2. i \in 1 .. Len(Q[r]) /\ s \in Q[r][i].signals
      BY <1>7, <3>1
    <3>3. /\ s \notin sem
          /\ \A p \in Timelines : \A j \in 1 .. Len(Q[p]) : s \in Q[p][j].signals => p = r /\ j = i
      BY <3>2 DEF SemaphoreKept
    <3>. QED
      BY <3>1, <3>3
  <2>. QED
    BY <2>1, <2>2
<1>8. Owed(E, sem, s) => now = "owed" \/ Waiting(E, s)
  BY <1>2, <1>4, <1>5 DEF Owed, SemaphoreKept
<1>9. now = "owed" => Owed(E, sem, s)
  <2>1. CASE s \in x.waits
    BY <2>1, FenceIsNoStage
  <2>2. CASE s \notin x.waits
    BY <1>5, <2>2 DEF Owed, SemaphoreKept
  <2>. QED
    BY <2>1, <2>2
<1>. QED
  BY <1>6, <1>7, <1>8, <1>9 DEF SemaphoreKept

LEMMA SemaphoreTaken ==
  ASSUME NEW Q \in [Timelines -> Seq(Submit)], NEW q \in Timelines, Q[q] # <<>>,
         NEW x, x = Q[q][1], NEW sem, x.waits \subseteq sem,
         NEW s, NEW at, NEW excused, SemaphoreKept(Q, sem, s, at, excused),
         NEW A, A = Advanced(Q, q), NEW left, left = (sem \ x.waits) \cup x.signals
  PROVE  SemaphoreKept(A, left, s, at, excused)
<1>1. /\ 1 \in 1 .. Len(Q[q]) /\ x \in Submit
      /\ \A r \in Timelines : \A i \in 1 .. Len(A[r]) :
           /\ Was(q, r, i) \in 1 .. Len(Q[r]) /\ A[r][i] = Q[r][Was(q, r, i)]
           /\ ~(r = q /\ Was(q, r, i) = 1)
      /\ \A r \in Timelines : \A k \in 1 .. Len(Q[r]) :
           (r = q /\ k = 1) \/ \E i \in 1 .. Len(A[r]) : Was(q, r, i) = k
  <2>. AdvancesTo(Q, q, A)
    BY AdvancedPositions
  <2>. QED
    BY DEF AdvancesTo
<1>2. \A r \in Timelines : \A i, j \in 1 .. Len(A[r]) : Was(q, r, i) = Was(q, r, j) => i = j
  BY WasOnce
<1>3. s \in x.waits => /\ s \in sem /\ s \notin x.signals /\ at # "owed"
                       /\ ~Waiting(A, s) /\ ~Signaling(A, s)
  <2>. SUFFICES ASSUME s \in x.waits
                PROVE  /\ s \in sem /\ s \notin x.signals /\ at # "owed"
                       /\ ~Waiting(A, s) /\ ~Signaling(A, s)
    OBVIOUS
  <2>1. \A r \in Timelines : \A i \in 1 .. Len(Q[r]) : s \notin Q[r][i].signals
    BY DEF SemaphoreKept
  <2>2. \A r \in Timelines : \A i \in 1 .. Len(Q[r]) : s \in Q[r][i].waits => r = q /\ i = 1
    BY <1>1 DEF SemaphoreKept
  <2>3. at # "owed"
    <3>1. x.fence = at \/ at = "idle"
      BY <1>1 DEF SemaphoreKept
    <3>. QED
      BY <1>1, <3>1, FenceIsNoStage
  <2>4. ~Signaling(A, s)
    <3>1. ASSUME NEW r \in Timelines, NEW i \in 1 .. Len(A[r]), s \in A[r][i].signals
          PROVE  FALSE
      <4>1. Was(q, r, i) \in 1 .. Len(Q[r]) /\ A[r][i] = Q[r][Was(q, r, i)]
        BY <1>1
      <4>. QED
        BY <2>1, <3>1, <4>1
    <3>. QED
      BY <3>1 DEF Signaling
  <2>5. ~Waiting(A, s)
    <3>1. ASSUME NEW r \in Timelines, NEW i \in 1 .. Len(A[r]), s \in A[r][i].waits
          PROVE  FALSE
      <4>1. /\ Was(q, r, i) \in 1 .. Len(Q[r]) /\ A[r][i] = Q[r][Was(q, r, i)]
            /\ ~(r = q /\ Was(q, r, i) = 1)
        BY <1>1
      <4>. QED
        BY <2>2, <3>1, <4>1
    <3>. QED
      BY <3>1 DEF Waiting
  <2>. QED
    BY <1>1, <2>1, <2>3, <2>4, <2>5
<1>4. s \in x.signals => s \notin sem /\ ~Signaling(A, s)
  <2>. SUFFICES ASSUME s \in x.signals
                PROVE  s \notin sem /\ ~Signaling(A, s)
    OBVIOUS
  <2>1. /\ s \notin sem
        /\ \A r \in Timelines : \A i \in 1 .. Len(Q[r]) : s \in Q[r][i].signals => r = q /\ i = 1
    BY <1>1 DEF SemaphoreKept
  <2>2. ASSUME NEW r \in Timelines, NEW i \in 1 .. Len(A[r]), s \in A[r][i].signals
        PROVE  FALSE
    <3>1. /\ Was(q, r, i) \in 1 .. Len(Q[r]) /\ A[r][i] = Q[r][Was(q, r, i)]
          /\ ~(r = q /\ Was(q, r, i) = 1)
      BY <1>1
    <3>. QED
      BY <2>1, <2>2, <3>1
  <2>. QED
    BY <2>1, <2>2 DEF Signaling
<1>5. s \notin x.waits => (Waiting(Q, s) <=> Waiting(A, s))
  <2>. SUFFICES ASSUME s \notin x.waits PROVE Waiting(Q, s) <=> Waiting(A, s)
    OBVIOUS
  <2>1. ASSUME NEW r \in Timelines, NEW k \in 1 .. Len(Q[r]), s \in Q[r][k].waits
        PROVE  \E i \in 1 .. Len(A[r]) : s \in A[r][i].waits
    <3>1. ~(r = q /\ k = 1)
      BY <2>1
    <3>2. PICK i \in 1 .. Len(A[r]) : Was(q, r, i) = k
      BY <1>1, <3>1
    <3>. QED
      BY <1>1, <2>1, <3>2
  <2>2. ASSUME NEW r \in Timelines, NEW i \in 1 .. Len(A[r]), s \in A[r][i].waits
        PROVE  \E k \in 1 .. Len(Q[r]) : s \in Q[r][k].waits
    <3>1. Was(q, r, i) \in 1 .. Len(Q[r]) /\ A[r][i] = Q[r][Was(q, r, i)]
      BY <1>1
    <3>. QED
      BY <2>2, <3>1
  <2>. QED
    BY <2>1, <2>2 DEF Waiting
<1>6. s \notin x.signals => (Signaling(Q, s) <=> Signaling(A, s))
  <2>. SUFFICES ASSUME s \notin x.signals PROVE Signaling(Q, s) <=> Signaling(A, s)
    OBVIOUS
  <2>1. ASSUME NEW r \in Timelines, NEW k \in 1 .. Len(Q[r]), s \in Q[r][k].signals
        PROVE  \E i \in 1 .. Len(A[r]) : s \in A[r][i].signals
    <3>1. ~(r = q /\ k = 1)
      BY <2>1
    <3>2. PICK i \in 1 .. Len(A[r]) : Was(q, r, i) = k
      BY <1>1, <3>1
    <3>. QED
      BY <1>1, <2>1, <3>2
  <2>2. ASSUME NEW r \in Timelines, NEW i \in 1 .. Len(A[r]), s \in A[r][i].signals
        PROVE  \E k \in 1 .. Len(Q[r]) : s \in Q[r][k].signals
    <3>1. Was(q, r, i) \in 1 .. Len(Q[r]) /\ A[r][i] = Q[r][Was(q, r, i)]
      BY <1>1
    <3>. QED
      BY <2>2, <3>1
  <2>. QED
    BY <2>1, <2>2 DEF Signaling
<1>7. s \notin x.waits => (Owed(Q, sem, s) <=> Owed(A, left, s))
  <2>1. CASE s \in x.signals
    BY <1>1, <2>1 DEF Owed, Signaling
  <2>2. CASE s \notin x.signals
    BY <1>6, <2>2 DEF Owed
  <2>. QED
    BY <2>1, <2>2
<1>8. ASSUME NEW r \in Timelines, NEW i \in 1 .. Len(A[r]), s \in A[r][i].waits
      PROVE  /\ Owed(A, left, s)
             /\ A[r][i].fence = at \/ (at = "idle" /\ A[r][i].fence \in excused)
             /\ \A p \in Timelines : \A j \in 1 .. Len(A[p]) : s \in A[p][j].waits => p = r /\ j = i
  <2>1. s \notin x.waits
    BY <1>3, <1>8 DEF Waiting
  <2>2. Was(q, r, i) \in 1 .. Len(Q[r]) /\ s \in Q[r][Was(q, r, i)].waits
    BY <1>1, <1>8
  <2>3. /\ Owed(Q, sem, s)
        /\ A[r][i].fence = at \/ (at = "idle" /\ A[r][i].fence \in excused)
        /\ \A p \in Timelines : \A j \in 1 .. Len(Q[p]) :
             s \in Q[p][j].waits => p = r /\ j = Was(q, r, i)
    BY <1>1, <2>2 DEF SemaphoreKept
  <2>4. ASSUME NEW p \in Timelines, NEW j \in 1 .. Len(A[p]), s \in A[p][j].waits
        PROVE  p = r /\ j = i
    <3>1. Was(q, p, j) \in 1 .. Len(Q[p]) /\ A[p][j] = Q[p][Was(q, p, j)]
      BY <1>1
    <3>2. p = r /\ Was(q, p, j) = Was(q, r, i)
      BY <2>3, <2>4, <3>1
    <3>. QED
      BY <1>2, <3>2
  <2>. QED
    BY <1>7, <2>1, <2>3, <2>4
<1>9. ASSUME NEW r \in Timelines, NEW i \in 1 .. Len(A[r]), s \in A[r][i].signals
      PROVE  /\ s \notin left
             /\ \A p \in Timelines : \A j \in 1 .. Len(A[p]) : s \in A[p][j].signals => p = r /\ j = i
  <2>1. s \notin x.signals
    BY <1>4, <1>9 DEF Signaling
  <2>2. Was(q, r, i) \in 1 .. Len(Q[r]) /\ s \in Q[r][Was(q, r, i)].signals
    BY <1>1, <1>9
  <2>3. /\ s \notin sem
        /\ \A p \in Timelines : \A j \in 1 .. Len(Q[p]) :
             s \in Q[p][j].signals => p = r /\ j = Was(q, r, i)
    BY <2>2 DEF SemaphoreKept
  <2>4. ASSUME NEW p \in Timelines, NEW j \in 1 .. Len(A[p]), s \in A[p][j].signals
        PROVE  p = r /\ j = i
    <3>1. Was(q, p, j) \in 1 .. Len(Q[p]) /\ A[p][j] = Q[p][Was(q, p, j)]
      BY <1>1
    <3>2. p = r /\ Was(q, p, j) = Was(q, r, i)
      BY <2>3, <2>4, <3>1
    <3>. QED
      BY <1>2, <3>2
  <2>. QED
    BY <2>1, <2>3, <2>4
<1>10. Owed(A, left, s) => at = "owed" \/ Waiting(A, s)
  <2>1. CASE s \in x.waits
    BY <1>3, <2>1 DEF Owed
  <2>2. CASE s \notin x.waits
    BY <1>5, <1>7, <2>2 DEF SemaphoreKept
  <2>. QED
    BY <2>1, <2>2
<1>11. at = "owed" => Owed(A, left, s)
  BY <1>3, <1>7 DEF SemaphoreKept
<1>. QED
  BY <1>8, <1>9, <1>10, <1>11 DEF SemaphoreKept

\* What the application learns of a fence makes the semaphores idle for which its submit waits.
LEMMA SemaphoreLearned ==
  ASSUME NEW Q \in [Timelines -> Seq(Submit)], NEW sem, NEW s, NEW at, SemaphoreKept(Q, sem, s, at, {}),
         NEW fs \in SUBSET Fences, NEW excused,
         \A q \in Timelines : \A i \in 1 .. Len(Q[q]) :
           Q[q][i].fence \in fs => Q[q][i].fence \in excused,
         NEW now, now = IF at \in fs THEN "idle" ELSE at
  PROVE  SemaphoreKept(Q, sem, s, now, excused)
<1>1. "owed" \notin fs
  BY StagesAssumption
<1>2. now = "owed" <=> at = "owed"
  BY <1>1
<1>3. ASSUME NEW q \in Timelines, NEW i \in 1 .. Len(Q[q]), s \in Q[q][i].waits
      PROVE  Q[q][i].fence = now \/ (now = "idle" /\ Q[q][i].fence \in excused)
  <2>1. Q[q][i].fence = at
    BY <1>3 DEF SemaphoreKept
  <2>. QED
    BY <2>1
<1>. QED
  BY <1>2, <1>3 DEF SemaphoreKept

\* A wait for fences that is over excuses nobody.
LEMMA SemaphoreReached ==
  ASSUME NEW Q, NEW sem, NEW s, NEW at, NEW excused, SemaphoreKept(Q, sem, s, at, excused),
         \A q \in Timelines : \A i \in 1 .. Len(Q[q]) : Q[q][i].fence \notin excused
  PROVE  SemaphoreKept(Q, sem, s, at, {})
BY DEF SemaphoreKept
-----------------------------------------------------------------------------
(***************************************************************************)
(* The fences of the replay.                                               *)
(***************************************************************************)
LEMMA FencesGivenTo ==
  ASSUME NEW Q \in [Timelines -> Seq(Submit)], NEW q \in Timelines, NEW x \in Submit,
         NEW fences, NEW u, FencesKept(Q, fences, u), x.fence \notin u,
         NEW E, E = Extended(Q, q, x), NEW now, now = u \cup ({x.fence} \ {NoFence})
  PROVE  FencesKept(E, fences, now)
<1>1. PICK n :
        /\ n \in 1 .. Len(E[q]) /\ E[q][n] = x
        /\ \A r \in Timelines : \A i \in 1 .. Len(Q[r]) : i \in 1 .. Len(E[r]) /\ E[r][i] = Q[r][i]
        /\ \A r \in Timelines : \A i \in 1 .. Len(E[r]) : i \in 1 .. Len(Q[r]) \/ (r = q /\ i = n)
  <2>1. ExtendsTo(Q, q, x, E)
    BY ExtendedPositions
  <2>. QED
    BY ONLY <2>1 DEF ExtendsTo
<1>2. fences \subseteq now
  BY DEF FencesKept
<1>3. ASSUME NEW r \in Timelines, NEW i \in 1 .. Len(E[r]), E[r][i].fence # NoFence
      PROVE  /\ E[r][i].fence \in now /\ E[r][i].fence \notin fences
             /\ \A p \in Timelines : \A j \in 1 .. Len(E[p]) :
                  E[p][j].fence = E[r][i].fence => p = r /\ j = i
  <2>1. ASSUME NEW p \in Timelines, NEW j \in 1 .. Len(E[p]), E[p][j].fence # NoFence
        PROVE  \/ /\ p = q /\ j = n /\ E[p][j] = x
                  /\ x.fence \in now /\ x.fence \notin fences /\ x.fence \notin u
               \/ /\ j \in 1 .. Len(Q[p]) /\ E[p][j] = Q[p][j]
                  /\ E[p][j].fence \in u /\ E[p][j].fence \notin fences
    <3>1. CASE p = q /\ j = n
      <4>1. E[p][j] = x
        BY <1>1, <3>1
      <4>. QED
        BY <2>1, <3>1, <4>1 DEF FencesKept
    <3>2. CASE j \in 1 .. Len(Q[p])
      <4>1. E[p][j] = Q[p][j]
        BY <1>1, <3>2
      <4>. QED
        BY <2>1, <3>2, <4>1 DEF FencesKept
    <3>. QED
      BY <1>1, <3>1, <3>2
  <2>2. E[r][i].fence \in now /\ E[r][i].fence \notin fences
    BY <1>3, <2>1
  <2>3. ASSUME NEW p \in Timelines, NEW j \in 1 .. Len(E[p]), E[p][j].fence = E[r][i].fence
        PROVE  p = r /\ j = i
    <3>1. E[p][j].fence # NoFence
      BY <1>3, <2>3
    <3>2. CASE r = q /\ i = n /\ E[r][i] = x /\ x.fence \notin u
      BY <2>1, <2>3, <3>1, <3>2
    <3>3. CASE i \in 1 .. Len(Q[r]) /\ E[r][i] = Q[r][i] /\ E[r][i].fence \in u
      <4>1. j \in 1 .. Len(Q[p]) /\ E[p][j] = Q[p][j]
        BY <2>1, <2>3, <3>1, <3>3
      <4>. QED
        BY <1>3, <2>3, <3>3, <4>1 DEF FencesKept
    <3>. QED
      BY <1>3, <2>1, <3>2, <3>3
  <2>. QED
    BY <2>2, <2>3
<1>. QED
  BY <1>2, <1>3 DEF FencesKept

LEMMA FencesTaken ==
  ASSUME NEW Q \in [Timelines -> Seq(Submit)], NEW q \in Timelines, Q[q] # <<>>,
         NEW x, x = Q[q][1], NEW fences, NEW u, FencesKept(Q, fences, u),
         NEW A, A = Advanced(Q, q), NEW now, now = fences \cup ({x.fence} \ {NoFence})
  PROVE  FencesKept(A, now, u)
<1>1. /\ 1 \in 1 .. Len(Q[q])
      /\ \A r \in Timelines : \A i \in 1 .. Len(A[r]) :
           /\ Was(q, r, i) \in 1 .. Len(Q[r]) /\ A[r][i] = Q[r][Was(q, r, i)]
           /\ ~(r = q /\ Was(q, r, i) = 1)
  <2>. AdvancesTo(Q, q, A)
    BY AdvancedPositions
  <2>. QED
    BY DEF AdvancesTo
<1>2. \A r \in Timelines : \A i, j \in 1 .. Len(A[r]) : Was(q, r, i) = Was(q, r, j) => i = j
  BY WasOnce
<1>3. now \subseteq u
  BY <1>1 DEF FencesKept
<1>4. ASSUME NEW r \in Timelines, NEW i \in 1 .. Len(A[r]), A[r][i].fence # NoFence
      PROVE  /\ A[r][i].fence \in u /\ A[r][i].fence \notin now
             /\ \A p \in Timelines : \A j \in 1 .. Len(A[p]) :
                  A[p][j].fence = A[r][i].fence => p = r /\ j = i
  <2>1. /\ Was(q, r, i) \in 1 .. Len(Q[r]) /\ A[r][i] = Q[r][Was(q, r, i)]
        /\ ~(r = q /\ Was(q, r, i) = 1)
    BY <1>1
  <2>2. /\ A[r][i].fence \in u /\ A[r][i].fence \notin fences
        /\ \A p \in Timelines : \A j \in 1 .. Len(Q[p]) :
             Q[p][j].fence = A[r][i].fence => p = r /\ j = Was(q, r, i)
    BY <1>4, <2>1 DEF FencesKept
  <2>3. A[r][i].fence # x.fence
    BY <1>1, <2>1, <2>2
  <2>4. ASSUME NEW p \in Timelines, NEW j \in 1 .. Len(A[p]), A[p][j].fence = A[r][i].fence
        PROVE  p = r /\ j = i
    <3>1. Was(q, p, j) \in 1 .. Len(Q[p]) /\ A[p][j] = Q[p][Was(q, p, j)]
      BY <1>1
    <3>2. p = r /\ Was(q, p, j) = Was(q, r, i)
      BY <2>2, <2>4, <3>1
    <3>. QED
      BY <1>2, <3>2
  <2>. QED
    BY <2>2, <2>3, <2>4
<1>. QED
  BY <1>3, <1>4 DEF FencesKept

LEMMA FencesReset ==
  ASSUME NEW Q, NEW fences, NEW u, FencesKept(Q, fences, u), NEW fs \in SUBSET fences
  PROVE  FencesKept(Q, fences \ fs, u \ fs)
<1>1. fences \ fs \subseteq u \ fs
  BY DEF FencesKept
<1>2. ASSUME NEW q \in Timelines, NEW i \in 1 .. Len(Q[q]), Q[q][i].fence # NoFence
      PROVE  /\ Q[q][i].fence \in u \ fs /\ Q[q][i].fence \notin fences \ fs
             /\ \A r \in Timelines : \A j \in 1 .. Len(Q[r]) :
                  Q[r][j].fence = Q[q][i].fence => r = q /\ j = i
  BY <1>2 DEF FencesKept
<1>. QED
  BY <1>1, <1>2 DEF FencesKept
-----------------------------------------------------------------------------
(***************************************************************************)
(* How far the replay is behind the original.                              *)
(***************************************************************************)
LEMMA LagType ==
  ASSUME NEW O \in [Timelines -> Seq(Submit)], NEW R \in [Timelines -> Seq(Submit)], NEW q \in Timelines
  PROVE  /\ Len(O[q]) \in Nat /\ Len(R[q]) \in Nat
         /\ Lag(O, R, q) \in Int /\ Lag(O, R, q) = Len(R[q]) - Len(O[q])
         /\ \A i \in 1 .. Lag(O, R, q) : i \in 1 .. Len(R[q])
<1>1. Len(O[q]) \in Nat /\ Len(R[q]) \in Nat
  OBVIOUS
<1>. QED
  BY ONLY <1>1 DEF Lag

\* Both queues are given the same submit.
LEMMA BehindGiven ==
  ASSUME NEW O \in [Timelines -> Seq(Submit)], NEW R \in [Timelines -> Seq(Submit)],
         NEW v, NEW sem, NEW c, Behind(O, v, R, sem, c),
         NEW q \in Timelines, NEW x \in Submit,
         NEW EO, EO = Extended(O, q, x), NEW ER, ER = Extended(R, q, x)
  PROVE  Behind(EO, v, ER, sem, c)
<1>1. ExtendsTo(O, q, x, EO) /\ ExtendsTo(R, q, x, ER)
  BY ExtendedPositions
<1>2. ASSUME NEW r \in Timelines
      PROVE  Lag(EO, ER, r) = Lag(O, R, r)
  <2>1. /\ Len(O[r]) \in Nat /\ Len(EO[r]) = IF r = q THEN Len(O[r]) + 1 ELSE Len(O[r])
        /\ Len(R[r]) \in Nat /\ Len(ER[r]) = IF r = q THEN Len(R[r]) + 1 ELSE Len(R[r])
    BY <1>1 DEF ExtendsTo
  <2>. QED
    BY ONLY <2>1 DEF Lag
<1>3. ASSUME NEW r \in Timelines, NEW i \in 1 .. Lag(O, R, r)
      PROVE  ER[r][i] = R[r][i]
  <2>1. i \in 1 .. Len(R[r])
    BY LagType
  <2>. QED
    BY <1>1, <2>1 DEF ExtendsTo
<1>4. SameStream(EO, ER)
  <2>. SUFFICES ASSUME NEW r \in Timelines, NEW i \in 1 .. Len(EO[r]), NEW j \in 1 .. Len(ER[r]),
                       j = i + Lag(O, R, r)
                PROVE  EO[r][i] = ER[r][j]
    BY <1>2 DEF SameStream
  <2>1. Len(O[r]) \in Nat /\ Len(R[r]) \in Nat /\ Lag(O, R, r) = Len(R[r]) - Len(O[r])
    BY LagType
  <2>2. CASE i \in 1 .. Len(O[r])
    <3>1. j \in 1 .. Len(R[r])
      BY ONLY <2>1, <2>2, j \in 1 .. Len(ER[r]), j = i + Lag(O, R, r)
    <3>2. EO[r][i] = O[r][i] /\ ER[r][j] = R[r][j]
      BY <1>1, <2>2, <3>1 DEF ExtendsTo
    <3>3. O[r][i] = R[r][j]
      BY <2>2, <3>1 DEF Behind, SameStream
    <3>. QED
      BY <3>2, <3>3
  <2>3. CASE r = q /\ i = Len(O[q]) + 1
    <3>1. j = Len(R[q]) + 1
      BY ONLY <2>1, <2>3, j = i + Lag(O, R, r)
    <3>. QED
      BY <1>1, <2>3, <3>1 DEF ExtendsTo
  <2>. QED
    BY <1>1, <2>2, <2>3 DEF ExtendsTo
<1>5. LeftCovered(EO, ER, c)
  <2>. SUFFICES ASSUME NEW r \in Timelines, NEW i \in 1 .. Len(EO[r]), i + Lag(O, R, r) <= 0
                PROVE  EO[r][i].counter <= c
    BY <1>2 DEF LeftCovered
  <2>1. Len(O[r]) \in Nat /\ Len(R[r]) \in Nat /\ Lag(O, R, r) = Len(R[r]) - Len(O[r])
    BY LagType
  <2>2. i # Len(O[r]) + 1
    BY ONLY <2>1, i + Lag(O, R, r) <= 0
  <2>3. i \in 1 .. Len(O[r])
    BY <1>1, <2>2 DEF ExtendsTo
  <2>4. EO[r][i] = O[r][i]
    BY <1>1, <2>3 DEF ExtendsTo
  <2>5. O[r][i].counter <= c
    BY <2>3 DEF Behind, LeftCovered
  <2>. QED
    BY <2>4, <2>5
<1>6. Reached(EO, ER, c, v)
  <2>1. CASE c >= v
    BY <2>1 DEF Reached
  <2>2. CASE \E r \in Timelines : \E i \in 1 .. Lag(O, R, r) : R[r][i].counter >= v
    <3>1. PICK r, i : r \in Timelines /\ i \in 1 .. Lag(O, R, r) /\ R[r][i].counter >= v
      BY <2>2
    <3>2. ER[r][i] = R[r][i] /\ i \in 1 .. Lag(EO, ER, r)
      BY <1>2, <1>3, <3>1
    <3>. QED
      BY <3>1, <3>2 DEF Reached
  <2>. QED
    BY <2>1, <2>2 DEF Behind, Reached
<1>7. ASSUME NEW rank, NEW n \in Nat, Ranked(O, R, sem, c, rank, n)
      PROVE  Ranked(EO, ER, sem, c, rank, n)
  <2>. SUFFICES ASSUME NEW r \in Timelines, NEW i \in 1 .. Lag(O, R, r)
                PROVE  /\ rank[r][i] \in Nat /\ rank[r][i] < n
                       /\ \A j \in 1 .. Lag(O, R, r) : j < i => rank[r][j] < rank[r][i]
                       /\ Ready(EO, ER, sem, c, rank, r, i)
    BY <1>2 DEF Ranked
  <2>1. /\ rank[r][i] \in Nat /\ rank[r][i] < n
        /\ \A j \in 1 .. Lag(O, R, r) : j < i => rank[r][j] < rank[r][i]
        /\ Ready(O, R, sem, c, rank, r, i)
    BY <1>7 DEF Ranked
  <2>2. ER[r][i] = R[r][i]
    BY <1>3
  <2>3. ASSUME NEW s \in ER[r][i].waits
        PROVE  s \in sem \/ \E p \in Timelines : \E j \in 1 .. Lag(EO, ER, p) :
                              s \in ER[p][j].signals /\ rank[p][j] < rank[r][i]
    <3>1. CASE s \in sem
      BY <3>1
    <3>2. CASE \E p \in Timelines : \E j \in 1 .. Lag(O, R, p) :
                 s \in R[p][j].signals /\ rank[p][j] < rank[r][i]
      <4>1. PICK p, j :
              /\ p \in Timelines /\ j \in 1 .. Lag(O, R, p)
              /\ s \in R[p][j].signals /\ rank[p][j] < rank[r][i]
        BY <3>2
      <4>2. ER[p][j] = R[p][j] /\ j \in 1 .. Lag(EO, ER, p)
        BY <1>2, <1>3, <4>1
      <4>. QED
        BY <4>1, <4>2
    <3>. QED
      BY <2>1, <2>2, <3>1, <3>2 DEF Ready
  <2>4. \/ c >= ER[r][i].reach
        \/ \E p \in Timelines : \E j \in 1 .. Lag(EO, ER, p) :
             ER[p][j].counter >= ER[r][i].reach /\ rank[p][j] < rank[r][i]
    <3>1. CASE c >= R[r][i].reach
      BY <2>2, <3>1
    <3>2. CASE \E p \in Timelines : \E j \in 1 .. Lag(O, R, p) :
                 R[p][j].counter >= R[r][i].reach /\ rank[p][j] < rank[r][i]
      <4>1. PICK p, j :
              /\ p \in Timelines /\ j \in 1 .. Lag(O, R, p)
              /\ R[p][j].counter >= R[r][i].reach /\ rank[p][j] < rank[r][i]
        BY <3>2
      <4>2. ER[p][j] = R[p][j] /\ j \in 1 .. Lag(EO, ER, p)
        BY <1>2, <1>3, <4>1
      <4>. QED
        BY <2>2, <4>1, <4>2
    <3>. QED
      BY <2>1, <3>1, <3>2 DEF Ready
  <2>. QED
    BY <2>1, <2>3, <2>4 DEF Ready
<1>. QED
  BY <1>4, <1>5, <1>6, <1>7 DEF Behind

\* The replay performs one.
LagAdvances(O, R, q, A) ==
  \A r \in Timelines :
    /\ Lag(O, A, r) = IF r = q THEN Lag(O, R, r) - 1 ELSE Lag(O, R, r)
    /\ \A i \in 1 .. Lag(O, A, r) : /\ Was(q, r, i) \in 1 .. Lag(O, R, r)
                                    /\ i \in 1 .. Len(A[r]) /\ A[r][i] = R[r][Was(q, r, i)]
    /\ \A k \in 1 .. Lag(O, R, r) :
         (r = q /\ k = 1) \/ \E i \in 1 .. Lag(O, A, r) : Was(q, r, i) = k

LEMMA LagOfReplay ==
  ASSUME NEW O \in [Timelines -> Seq(Submit)], NEW R \in [Timelines -> Seq(Submit)],
         NEW q \in Timelines, R[q] # <<>>, NEW A, A = Advanced(R, q)
  PROVE  LagAdvances(O, R, q, A)
<1>. SUFFICES ASSUME NEW r \in Timelines
              PROVE  /\ Lag(O, A, r) = IF r = q THEN Lag(O, R, r) - 1 ELSE Lag(O, R, r)
                     /\ \A i \in 1 .. Lag(O, A, r) :
                          /\ Was(q, r, i) \in 1 .. Lag(O, R, r)
                          /\ i \in 1 .. Len(A[r]) /\ A[r][i] = R[r][Was(q, r, i)]
                     /\ \A k \in 1 .. Lag(O, R, r) :
                          (r = q /\ k = 1) \/ \E i \in 1 .. Lag(O, A, r) : Was(q, r, i) = k
  BY DEF LagAdvances
<1>1. /\ A \in [Timelines -> Seq(Submit)]
      /\ Len(R[r]) \in Nat /\ Len(A[r]) \in Nat
      /\ Len(A[r]) = IF r = q THEN Len(R[r]) - 1 ELSE Len(R[r])
      /\ \A i \in 1 .. Len(A[r]) : A[r][i] = R[r][Was(q, r, i)]
  <2>. AdvancesTo(R, q, A)
    BY AdvancedPositions
  <2>. QED
    BY DEF AdvancesTo
<1>2. Len(O[r]) \in Nat
  BY LagType
<1>3. /\ Lag(O, A, r) \in Int /\ Lag(O, R, r) \in Int
      /\ Lag(O, A, r) = IF r = q THEN Lag(O, R, r) - 1 ELSE Lag(O, R, r)
      /\ Lag(O, A, r) <= Len(A[r])
  BY ONLY <1>1, <1>2 DEF Lag
<1>4. ASSUME NEW i \in 1 .. Lag(O, A, r)
      PROVE  Was(q, r, i) \in 1 .. Lag(O, R, r) /\ i \in 1 .. Len(A[r])
  BY ONLY <1>1, <1>3, i \in 1 .. Lag(O, A, r) DEF Was
<1>5. ASSUME NEW k \in 1 .. Lag(O, R, r), ~(r = q /\ k = 1)
      PROVE  \E i \in 1 .. Lag(O, A, r) : Was(q, r, i) = k
  <2>1. CASE r = q
    <3>1. k - 1 \in 1 .. Lag(O, A, r) /\ Was(q, r, k - 1) = k
      BY ONLY <1>3, <1>5, <2>1, k \in 1 .. Lag(O, R, r) DEF Was
    <3>. QED
      BY <3>1
  <2>2. CASE r # q
    <3>1. k \in 1 .. Lag(O, A, r) /\ Was(q, r, k) = k
      BY ONLY <1>3, <2>2, k \in 1 .. Lag(O, R, r) DEF Was
    <3>. QED
      BY <3>1
  <2>. QED
    BY <2>1, <2>2
<1>. QED
  BY <1>1, <1>3, <1>4, <1>5

LEMMA BehindReplay ==
  ASSUME NEW O \in [Timelines -> Seq(Submit)], NEW R \in [Timelines -> Seq(Submit)],
         NEW v \in Values, NEW sem, NEW c \in Values, Behind(O, v, R, sem, c),
         NEW st, NEW excused, SemaphoresKept(R, sem, st, excused),
         NEW q \in Timelines, R[q] # <<>>, NEW x, x = R[q][1], x.waits \subseteq sem,
         NEW A, A = Advanced(R, q), NEW left, left = (sem \ x.waits) \cup x.signals,
         NEW now, now = Larger(c, x.counter)
  PROVE  Behind(O, v, A, left, now)
<1>1. \A r \in Timelines :
        /\ Lag(O, A, r) = IF r = q THEN Lag(O, R, r) - 1 ELSE Lag(O, R, r)
        /\ \A i \in 1 .. Lag(O, A, r) : /\ Was(q, r, i) \in 1 .. Lag(O, R, r)
                                        /\ i \in 1 .. Len(A[r]) /\ A[r][i] = R[r][Was(q, r, i)]
        /\ \A k \in 1 .. Lag(O, R, r) :
             (r = q /\ k = 1) \/ \E i \in 1 .. Lag(O, A, r) : Was(q, r, i) = k
  <2>. LagAdvances(O, R, q, A)
    BY LagOfReplay
  <2>. QED
    BY DEF LagAdvances
<1>2. /\ 1 \in 1 .. Len(R[q]) /\ x \in Submit
      /\ \A r \in Timelines : \A i \in 1 .. Len(A[r]) :
           /\ Was(q, r, i) \in 1 .. Len(R[r]) /\ A[r][i] = R[r][Was(q, r, i)]
           /\ ~(r = q /\ Was(q, r, i) = 1)
  <2>. AdvancesTo(R, q, A)
    BY AdvancedPositions
  <2>. QED
    BY DEF AdvancesTo
<1>3. \A r \in Timelines : Lag(O, R, r) \in Int /\ \A i \in 1 .. Lag(O, R, r) : i \in 1 .. Len(R[r])
  BY LagType
<1>4. x.counter \in Values
  BY <1>2 DEF Submit
<1>5. /\ c \in Nat /\ v \in Nat /\ x.counter \in Nat /\ now \in Nat
      /\ now >= c /\ now >= x.counter
  BY <1>4, LargerProperties, ValuesAreNumbers
<1>6. \A r \in Timelines : \A i \in 1 .. Len(R[r]) :
        /\ R[r][i].counter \in Nat /\ R[r][i].reach \in Nat /\ R[r][i].waits \subseteq Semaphores
  BY SubmitAt, ValuesAreNumbers DEF Submit
<1>7. SameStream(O, A)
  <2>. SUFFICES ASSUME NEW r \in Timelines, NEW i \in 1 .. Len(O[r]), NEW j \in 1 .. Len(A[r]),
                       j = i + Lag(O, A, r)
                PROVE  O[r][i] = A[r][j]
    BY DEF SameStream
  <2>1. Was(q, r, j) \in 1 .. Len(R[r]) /\ A[r][j] = R[r][Was(q, r, j)]
    BY <1>2
  <2>2. Lag(O, R, r) \in Int /\ Lag(O, A, r) = IF r = q THEN Lag(O, R, r) - 1 ELSE Lag(O, R, r)
    BY <1>1, <1>3
  <2>3. Was(q, r, j) = i + Lag(O, R, r)
    BY ONLY <2>2, j = i + Lag(O, A, r), i \in 1 .. Len(O[r]) DEF Was
  <2>. QED
    BY <2>1, <2>3 DEF Behind, SameStream
<1>8. LeftCovered(O, A, now)
  <2>. SUFFICES ASSUME NEW r \in Timelines, NEW i \in 1 .. Len(O[r]), i + Lag(O, A, r) <= 0
                PROVE  O[r][i].counter <= now
    BY DEF LeftCovered
  <2>1. Lag(O, R, r) \in Int /\ Lag(O, A, r) = IF r = q THEN Lag(O, R, r) - 1 ELSE Lag(O, R, r)
    BY <1>1, <1>3
  <2>2. O[r][i].counter \in Nat
    BY SubmitAt, ValuesAreNumbers DEF Submit
  <2>3. i + Lag(O, R, r) <= 0 \/ (r = q /\ 1 = i + Lag(O, R, r))
    BY ONLY <2>1, i + Lag(O, A, r) <= 0, i \in 1 .. Len(O[r])
  <2>4. CASE i + Lag(O, R, r) <= 0
    <3>1. O[r][i].counter <= c
      BY <2>4 DEF Behind, LeftCovered
    <3>. QED
      BY ONLY <1>5, <2>2, <3>1
  <2>5. CASE r = q /\ 1 = i + Lag(O, R, r)
    <3>1. O[r][i] = x
      BY <1>2, <2>5 DEF Behind, SameStream
    <3>. QED
      BY ONLY <1>5, <3>1
  <2>. QED
    BY <2>3, <2>4, <2>5
<1>9. Reached(O, A, now, v)
  <2>1. CASE c >= v
    <3>1. now >= v
      BY ONLY <1>5, <2>1
    <3>. QED
      BY <3>1 DEF Reached
  <2>2. CASE \E p \in Timelines : \E j \in 1 .. Lag(O, R, p) : R[p][j].counter >= v
    <3>1. PICK p, j : p \in Timelines /\ j \in 1 .. Lag(O, R, p) /\ R[p][j].counter >= v
      BY <2>2
    <3>2. CASE p = q /\ j = 1
      <4>1. now >= v
        BY ONLY <1>5, <3>1, <3>2, x = R[q][1]
      <4>. QED
        BY <4>1 DEF Reached
    <3>3. CASE ~(p = q /\ j = 1)
      <4>1. PICK i \in 1 .. Lag(O, A, p) : Was(q, p, i) = j
        BY <1>1, <3>1, <3>3
      <4>2. A[p][i] = R[p][j]
        BY <1>1, <3>1, <4>1
      <4>. QED
        BY <3>1, <4>2 DEF Reached
    <3>. QED
      BY <3>2, <3>3
  <2>. QED
    BY <2>1, <2>2 DEF Behind, Reached
<1>10. ASSUME NEW rank, NEW n \in Nat, Ranked(O, R, sem, c, rank, n)
       PROVE  \E next : Ranked(O, A, left, now, next, n)
  <2>. DEFINE next == [r \in Timelines |-> [i \in Nat |-> rank[r][Was(q, r, i)]]]
  <2>1. ASSUME NEW r \in Timelines, NEW i \in 1 .. Lag(O, A, r)
        PROVE  /\ Was(q, r, i) \in 1 .. Lag(O, R, r) /\ A[r][i] = R[r][Was(q, r, i)]
               /\ next[r][i] = rank[r][Was(q, r, i)]
    BY <1>1
  <2>. HIDE DEF next
  <2>2. ASSUME NEW p \in Timelines, NEW k \in 1 .. Lag(O, R, p), ~(p = q /\ k = 1)
        PROVE  \E j \in 1 .. Lag(O, A, p) : A[p][j] = R[p][k] /\ next[p][j] = rank[p][k]
    <3>1. PICK j \in 1 .. Lag(O, A, p) : Was(q, p, j) = k
      BY <1>1, <2>2
    <3>. QED
      BY <2>1, <3>1
  <2>3. ASSUME NEW r \in Timelines, NEW i \in 1 .. Lag(O, A, r)
        PROVE  /\ next[r][i] \in Nat /\ next[r][i] < n
               /\ \A j \in 1 .. Lag(O, A, r) : j < i => next[r][j] < next[r][i]
               /\ Ready(O, A, left, now, next, r, i)
    <3>. DEFINE k == Was(q, r, i)
    <3>1. k \in 1 .. Lag(O, R, r) /\ A[r][i] = R[r][k] /\ next[r][i] = rank[r][k]
      BY <2>1
    <3>2. k \in 1 .. Len(R[r]) /\ ~(r = q /\ k = 1)
      <4>1. i \in 1 .. Len(A[r])
        BY <1>1
      <4>. QED
        BY <1>2, <4>1
    <3>3. ASSUME NEW j \in 1 .. Lag(O, A, r), j < i
          PROVE  Was(q, r, j) < k
      BY ONLY <3>3, j \in 1 .. Lag(O, A, r), i \in 1 .. Lag(O, A, r) DEF Was
    <3>. HIDE DEF k
    <3>4. /\ rank[r][k] \in Nat /\ rank[r][k] < n
          /\ \A j \in 1 .. Lag(O, R, r) : j < k => rank[r][j] < rank[r][k]
          /\ Ready(O, R, sem, c, rank, r, k)
      BY <1>10, <3>1 DEF Ranked
    <3>5. ASSUME NEW j \in 1 .. Lag(O, A, r), j < i
          PROVE  next[r][j] < next[r][i]
      BY <2>1, <3>1, <3>3, <3>4, <3>5
    <3>6. ASSUME NEW s \in A[r][i].waits
          PROVE  s \in left \/ \E p \in Timelines : \E j \in 1 .. Lag(O, A, p) :
                                 s \in A[p][j].signals /\ next[p][j] < next[r][i]
      <4>1. s \in R[r][k].waits /\ s \in Semaphores
        BY <1>6, <3>1, <3>2
      <4>2. s \notin x.waits
        <5>1. SemaphoreKept(R, sem, s, st[s], excused)
          BY <4>1 DEF SemaphoresKept
        <5>2. \A p \in Timelines : \A j \in 1 .. Len(R[p]) : s \in R[p][j].waits => p = r /\ j = k
          BY <3>2, <4>1, <5>1 DEF SemaphoreKept
        <5>. QED
          BY <1>2, <3>2, <5>2
      <4>3. CASE s \in sem
        BY <4>2, <4>3
      <4>4. CASE \E p \in Timelines : \E j \in 1 .. Lag(O, R, p) :
                   s \in R[p][j].signals /\ rank[p][j] < rank[r][k]
        <5>1. PICK p, j :
                /\ p \in Timelines /\ j \in 1 .. Lag(O, R, p)
                /\ s \in R[p][j].signals /\ rank[p][j] < rank[r][k]
          BY <4>4
        <5>2. CASE p = q /\ j = 1
          BY <5>1, <5>2
        <5>3. CASE ~(p = q /\ j = 1)
          <6>1. PICK h \in 1 .. Lag(O, A, p) : A[p][h] = R[p][j] /\ next[p][h] = rank[p][j]
            BY <2>2, <5>1, <5>3
          <6>. QED
            BY <3>1, <5>1, <6>1
        <5>. QED
          BY <5>2, <5>3
      <4>. QED
        BY <3>4, <4>1, <4>3, <4>4 DEF Ready
    <3>7. \/ now >= A[r][i].reach
          \/ \E p \in Timelines : \E j \in 1 .. Lag(O, A, p) :
               A[p][j].counter >= A[r][i].reach /\ next[p][j] < next[r][i]
      <4>1. A[r][i].reach \in Nat /\ A[r][i].reach = R[r][k].reach
        BY <1>6, <3>1, <3>2
      <4>2. CASE c >= R[r][k].reach
        BY ONLY <1>5, <4>1, <4>2
      <4>3. CASE \E p \in Timelines : \E j \in 1 .. Lag(O, R, p) :
                   R[p][j].counter >= R[r][k].reach /\ rank[p][j] < rank[r][k]
        <5>1. PICK p, j :
                /\ p \in Timelines /\ j \in 1 .. Lag(O, R, p)
                /\ R[p][j].counter >= R[r][k].reach /\ rank[p][j] < rank[r][k]
          BY <4>3
        <5>2. CASE p = q /\ j = 1
          BY ONLY <1>5, <4>1, <5>1, <5>2, x = R[q][1]
        <5>3. CASE ~(p = q /\ j = 1)
          <6>1. PICK h \in 1 .. Lag(O, A, p) : A[p][h] = R[p][j] /\ next[p][h] = rank[p][j]
            BY <2>2, <5>1, <5>3
          <6>. QED
            BY <3>1, <5>1, <6>1
        <5>. QED
          BY <5>2, <5>3
      <4>. QED
        BY <3>4, <4>2, <4>3 DEF Ready
    <3>. QED
      BY <3>1, <3>4, <3>5, <3>6, <3>7 DEF Ready
  <2>4. Ranked(O, A, left, now, next, n)
    BY <2>3 DEF Ranked
  <2>. QED
    BY <2>4
<1>11. \E next, n : n \in Nat /\ Ranked(O, A, left, now, next, n)
  BY <1>10 DEF Behind
<1>. QED
  BY <1>7, <1>8, <1>9, <1>11 DEF Behind

\* The original performs one.
LagGrows(O, R, q, A) ==
  \A r \in Timelines :
    /\ Lag(O, R, r) \in Int
    /\ Lag(A, R, r) = IF r = q THEN Lag(O, R, r) + 1 ELSE Lag(O, R, r)
    /\ \A i \in 1 .. Len(A[r]) : /\ Was(q, r, i) \in 1 .. Len(O[r]) /\ A[r][i] = O[r][Was(q, r, i)]
                                 /\ Was(q, r, i) + Lag(O, R, r) = i + Lag(A, R, r)
    /\ \A i \in 1 .. Lag(O, R, r) : i \in 1 .. Lag(A, R, r)
    /\ \A i \in 1 .. Lag(A, R, r) : i \in 1 .. Lag(O, R, r) \/ (r = q /\ i = Lag(O, R, q) + 1)

LEMMA LagOfOriginal ==
  ASSUME NEW O \in [Timelines -> Seq(Submit)], NEW R \in [Timelines -> Seq(Submit)],
         NEW q \in Timelines, O[q] # <<>>, NEW A, A = Advanced(O, q)
  PROVE  LagGrows(O, R, q, A)
<1>1. AdvancesTo(O, q, A)
  BY AdvancedPositions
<1>. SUFFICES ASSUME NEW r \in Timelines
              PROVE  /\ Lag(O, R, r) \in Int
                     /\ Lag(A, R, r) = IF r = q THEN Lag(O, R, r) + 1 ELSE Lag(O, R, r)
                     /\ \A i \in 1 .. Len(A[r]) :
                          /\ Was(q, r, i) \in 1 .. Len(O[r]) /\ A[r][i] = O[r][Was(q, r, i)]
                          /\ Was(q, r, i) + Lag(O, R, r) = i + Lag(A, R, r)
                     /\ \A i \in 1 .. Lag(O, R, r) : i \in 1 .. Lag(A, R, r)
                     /\ \A i \in 1 .. Lag(A, R, r) :
                          i \in 1 .. Lag(O, R, r) \/ (r = q /\ i = Lag(O, R, q) + 1)
  BY DEF LagGrows
<1>2. /\ Len(O[r]) \in Nat /\ Len(A[r]) \in Nat
      /\ Len(A[r]) = IF r = q THEN Len(O[r]) - 1 ELSE Len(O[r])
      /\ \A i \in 1 .. Len(A[r]) : Was(q, r, i) \in 1 .. Len(O[r]) /\ A[r][i] = O[r][Was(q, r, i)]
  BY <1>1 DEF AdvancesTo
<1>3. Len(R[r]) \in Nat
  BY LagType
<1>4. /\ Lag(O, R, r) \in Int
      /\ Lag(A, R, r) = IF r = q THEN Lag(O, R, r) + 1 ELSE Lag(O, R, r)
  BY ONLY <1>2, <1>3 DEF Lag
<1>5. ASSUME NEW i \in 1 .. Len(A[r])
      PROVE  Was(q, r, i) + Lag(O, R, r) = i + Lag(A, R, r)
  BY ONLY <1>4, i \in 1 .. Len(A[r]) DEF Was
<1>6. ASSUME NEW i \in 1 .. Lag(O, R, r)
      PROVE  i \in 1 .. Lag(A, R, r)
  BY ONLY <1>4, i \in 1 .. Lag(O, R, r)
<1>7. ASSUME NEW i \in 1 .. Lag(A, R, r)
      PROVE  i \in 1 .. Lag(O, R, r) \/ (r = q /\ i = Lag(O, R, q) + 1)
  <2>1. CASE r = q
    <3>1. Lag(A, R, r) = Lag(O, R, r) + 1
      BY <1>4, <2>1
    <3>2. i \in 1 .. Lag(O, R, r) \/ i = Lag(O, R, r) + 1
      BY ONLY <1>4, <3>1, i \in 1 .. Lag(A, R, r)
    <3>. QED
      BY <2>1, <3>2
  <2>2. CASE r # q
    BY <1>4, <2>2
  <2>. QED
    BY <2>1, <2>2
<1>. QED
  BY <1>2, <1>4, <1>5, <1>6, <1>7

LEMMA BehindOriginal ==
  ASSUME NEW O \in [Timelines -> Seq(Submit)], NEW R \in [Timelines -> Seq(Submit)],
         NEW v \in Values, NEW sem, NEW c \in Values, Behind(O, v, R, sem, c),
         NEW st, NEW excused, SemaphoresKept(R, sem, st, excused),
         NEW signaled, SemaphoresKept(O, signaled, st, {}),
         NEW q \in Timelines, O[q] # <<>>, NEW x, x = O[q][1], x.waits \subseteq signaled, v >= x.reach,
         NEW A, A = Advanced(O, q), NEW now, now = Larger(v, x.counter)
  PROVE  Behind(A, now, R, sem, c)
<1>1. LagGrows(O, R, q, A)
  BY LagOfOriginal
<1>2. 1 \in 1 .. Len(O[q]) /\ x \in Submit
  <2>. AdvancesTo(O, q, A)
    BY AdvancedPositions
  <2>. QED
    BY DEF AdvancesTo
<1>3. /\ c \in Nat /\ v \in Nat /\ x.counter \in Nat /\ x.reach \in Nat
      /\ now = v \/ now = x.counter
  BY <1>2, ValuesAreNumbers DEF Submit, Larger
<1>4. \A r \in Timelines : \A i \in 1 .. Len(R[r]) : R[r][i].counter \in Nat
  BY SubmitAt, ValuesAreNumbers DEF Submit
<1>5. SameStream(A, R)
  <2>. SUFFICES ASSUME NEW r \in Timelines, NEW i \in 1 .. Len(A[r]), NEW j \in 1 .. Len(R[r]),
                       j = i + Lag(A, R, r)
                PROVE  A[r][i] = R[r][j]
    BY DEF SameStream
  <2>1. /\ Was(q, r, i) \in 1 .. Len(O[r]) /\ A[r][i] = O[r][Was(q, r, i)]
        /\ j = Was(q, r, i) + Lag(O, R, r)
    BY <1>1 DEF LagGrows
  <2>. QED
    BY <2>1 DEF Behind, SameStream
<1>6. LeftCovered(A, R, c)
  <2>. SUFFICES ASSUME NEW r \in Timelines, NEW i \in 1 .. Len(A[r]), i + Lag(A, R, r) <= 0
                PROVE  A[r][i].counter <= c
    BY DEF LeftCovered
  <2>1. /\ Was(q, r, i) \in 1 .. Len(O[r]) /\ A[r][i] = O[r][Was(q, r, i)]
        /\ Was(q, r, i) + Lag(O, R, r) <= 0
    BY <1>1 DEF LagGrows
  <2>. QED
    BY <2>1 DEF Behind, LeftCovered
<1>7. CASE Lag(O, R, q) < 0
  <2>1. \A r \in Timelines : \A i \in 1 .. Lag(A, R, r) : i \in 1 .. Lag(O, R, r)
    <3>1. Lag(O, R, q) \in Int
      BY <1>1 DEF LagGrows
    <3>2. ASSUME NEW i \in 1 .. Lag(A, R, q)
          PROVE  i # Lag(O, R, q) + 1
      BY ONLY <1>7, <3>1, i \in 1 .. Lag(A, R, q)
    <3>. QED
      BY <1>1, <3>2 DEF LagGrows
  <2>2. \A r \in Timelines : \A i \in 1 .. Lag(O, R, r) : i \in 1 .. Lag(A, R, r)
    BY <1>1 DEF LagGrows
  <2>3. x.counter <= c
    <3>1. Lag(O, R, q) \in Int
      BY <1>1 DEF LagGrows
    <3>2. 1 + Lag(O, R, q) <= 0
      BY ONLY <1>7, <3>1
    <3>. QED
      BY <1>2, <3>2 DEF Behind, LeftCovered
  <2>4. Reached(A, R, c, now)
    <3>1. CASE now = v
      BY <2>2, <3>1 DEF Behind, Reached
    <3>2. CASE now = x.counter
      <4>1. c >= now
        BY ONLY <1>3, <2>3, <3>2
      <4>. QED
        BY <4>1 DEF Reached
    <3>. QED
      BY <1>3, <3>1, <3>2
  <2>5. ASSUME NEW rank, NEW n \in Nat, Ranked(O, R, sem, c, rank, n)
        PROVE  Ranked(A, R, sem, c, rank, n)
    <3>. SUFFICES ASSUME NEW r \in Timelines, NEW i \in 1 .. Lag(A, R, r)
                  PROVE  /\ rank[r][i] \in Nat /\ rank[r][i] < n
                         /\ \A j \in 1 .. Lag(A, R, r) : j < i => rank[r][j] < rank[r][i]
                         /\ Ready(A, R, sem, c, rank, r, i)
      BY DEF Ranked
    <3>1. i \in 1 .. Lag(O, R, r)
      BY <2>1
    <3>2. /\ rank[r][i] \in Nat /\ rank[r][i] < n
          /\ \A j \in 1 .. Lag(O, R, r) : j < i => rank[r][j] < rank[r][i]
          /\ Ready(O, R, sem, c, rank, r, i)
      BY <2>5, <3>1 DEF Ranked
    <3>3. Ready(A, R, sem, c, rank, r, i)
      BY <2>2, <3>2 DEF Ready
    <3>. QED
      BY <2>1, <3>2, <3>3
  <2>. QED
    BY <1>5, <1>6, <2>4, <2>5 DEF Behind
<1>8. CASE Lag(O, R, q) >= 0
  <2>1. PICK k : k = Lag(O, R, q) + 1
    OBVIOUS
  <2>2. /\ k \in 1 .. Lag(A, R, q) /\ k \notin 1 .. Lag(O, R, q) /\ k \in 1 .. Len(R[q])
        /\ \A j \in 1 .. Lag(A, R, q) : j < k => j \in 1 .. Lag(O, R, q)
        /\ \A j \in 1 .. Lag(O, R, q) : ~(k < j)
    <3>1. /\ Lag(O, R, q) \in Int /\ Lag(A, R, q) = Lag(O, R, q) + 1
          /\ Len(O[q]) \in Nat /\ Len(R[q]) \in Nat /\ Lag(O, R, q) = Len(R[q]) - Len(O[q])
      BY <1>1, LagType DEF LagGrows
    <3>. QED
      BY ONLY <1>2, <1>8, <2>1, <3>1
  <2>3. R[q][k] = x
    <3>1. k = 1 + Lag(O, R, q)
      BY <1>1, <2>1 DEF LagGrows
    <3>. QED
      BY <1>2, <2>2, <3>1 DEF Behind, SameStream
  <2>4. \A r \in Timelines : \A i \in 1 .. Lag(O, R, r) : i \in 1 .. Lag(A, R, r) /\ i \in 1 .. Len(R[r])
    BY <1>1, LagType DEF LagGrows
  <2>5. \A r \in Timelines : \A i \in 1 .. Lag(A, R, r) : i \in 1 .. Lag(O, R, r) \/ (r = q /\ i = k)
    BY <1>1, <2>1 DEF LagGrows
  <2>6. Reached(A, R, c, now)
    <3>1. CASE now = v
      BY <2>4, <3>1 DEF Behind, Reached
    <3>2. CASE now = x.counter
      <4>1. R[q][k].counter >= now
        BY ONLY <1>3, <2>3, <3>2
      <4>. QED
        BY <2>2, <4>1 DEF Reached
    <3>. QED
      BY <1>3, <3>1, <3>2
  \* What the submit waits for is there in the replay, or comes before it.
  <2>7. ASSUME NEW s \in x.waits
        PROVE  s \in sem \/ \E p \in Timelines : \E j \in 1 .. Lag(O, R, p) : s \in R[p][j].signals
    <3>1. s \in Semaphores /\ s \in signaled
      BY <1>2 DEF Submit
    <3>2. SemaphoreKept(R, sem, s, st[s], excused) /\ SemaphoreKept(O, signaled, s, st[s], {})
      BY <3>1 DEF SemaphoresKept
    <3>3. Owed(R, sem, s)
      BY <2>2, <2>3, <3>2 DEF SemaphoreKept
    <3>4. CASE Signaling(R, s)
      <4>1. PICK p, j : p \in Timelines /\ j \in 1 .. Len(R[p]) /\ s \in R[p][j].signals
        BY <3>4 DEF Signaling
      <4>2. j \in 1 .. Lag(O, R, p)
        <5>. SUFFICES ASSUME j \notin 1 .. Lag(O, R, p)
                      PROVE  FALSE
          OBVIOUS
        <5>1. PICK i : i = j - Lag(O, R, p)
          OBVIOUS
        <5>2. /\ Len(O[p]) \in Nat /\ Len(R[p]) \in Nat
              /\ Lag(O, R, p) \in Int /\ Lag(O, R, p) = Len(R[p]) - Len(O[p])
          BY <4>1, LagType
        <5>3. i \in Int /\ i <= Len(O[p]) /\ j = i + Lag(O, R, p)
          BY ONLY <4>1, <5>1, <5>2
        <5>4. i \in 1 .. Len(O[p])
          BY ONLY <4>1, <5>1, <5>2, j \notin 1 .. Lag(O, R, p)
        <5>5. O[p][i] = R[p][j]
          BY <4>1, <5>3, <5>4 DEF Behind, SameStream
        <5>6. s \notin signaled
          BY <3>2, <4>1, <5>4, <5>5 DEF SemaphoreKept
        <5>. QED
          BY <3>1, <5>6
      <4>. QED
        BY <4>1, <4>2
    <3>. QED
      BY <3>3, <3>4 DEF Owed
  <2>8. \/ c >= x.reach
        \/ \E p \in Timelines : \E j \in 1 .. Lag(O, R, p) : R[p][j].counter >= x.reach
    <3>1. CASE c >= v
      BY ONLY <1>3, <3>1, v >= x.reach
    <3>2. CASE \E p \in Timelines : \E j \in 1 .. Lag(O, R, p) : R[p][j].counter >= v
      <4>1. PICK p, j : p \in Timelines /\ j \in 1 .. Lag(O, R, p) /\ R[p][j].counter >= v
        BY <3>2
      <4>2. R[p][j].counter \in Nat
        BY <1>4, <2>4, <4>1
      <4>3. R[p][j].counter >= x.reach
        BY ONLY <1>3, <4>1, <4>2, v >= x.reach
      <4>. QED
        BY <4>1, <4>3
    <3>. QED
      BY <3>1, <3>2 DEF Behind, Reached
  <2>9. ASSUME NEW rank, NEW n \in Nat, Ranked(O, R, sem, c, rank, n)
        PROVE  \E next : Ranked(A, R, sem, c, next, n + 1)
    <3>. DEFINE next == [r \in Timelines |-> [i \in Nat |-> IF r = q /\ i = k THEN n ELSE rank[r][i]]]
    <3>1. /\ next[q][k] = n
          /\ \A r \in Timelines : \A i \in 1 .. Lag(O, R, r) : next[r][i] = rank[r][i]
      <4>1. k \in Nat
        BY <2>2
      <4>2. ASSUME NEW r \in Timelines, NEW i \in 1 .. Lag(O, R, r)
            PROVE  i \in Nat /\ ~(r = q /\ i = k)
        BY <2>2
      <4>. QED
        BY <4>1, <4>2
    <3>. HIDE DEF next
    <3>2. ASSUME NEW r \in Timelines, NEW i \in 1 .. Lag(O, R, r)
          PROVE  /\ next[r][i] \in Nat /\ next[r][i] < n
                 /\ \A j \in 1 .. Lag(O, R, r) : j < i => next[r][j] < next[r][i]
                 /\ Ready(O, R, sem, c, rank, r, i)
      BY <2>9, <3>1 DEF Ranked
    <3>3. ASSUME NEW r \in Timelines, NEW i \in 1 .. Lag(O, R, r)
          PROVE  Ready(A, R, sem, c, next, r, i)
      <4>1. ASSUME NEW s \in R[r][i].waits
            PROVE  s \in sem \/ \E p \in Timelines : \E j \in 1 .. Lag(A, R, p) :
                                  s \in R[p][j].signals /\ next[p][j] < next[r][i]
        <5>1. CASE s \in sem
          BY <5>1
        <5>2. CASE \E p \in Timelines : \E j \in 1 .. Lag(O, R, p) :
                     s \in R[p][j].signals /\ rank[p][j] < rank[r][i]
          <6>1. PICK p, j : /\ p \in Timelines /\ j \in 1 .. Lag(O, R, p)
                            /\ s \in R[p][j].signals /\ rank[p][j] < rank[r][i]
            BY <5>2
          <6>2. next[p][j] = rank[p][j] /\ next[r][i] = rank[r][i] /\ j \in 1 .. Lag(A, R, p)
            BY <2>4, <3>1, <6>1
          <6>. QED
            BY <6>1, <6>2
        <5>. QED
          BY <3>2, <5>1, <5>2 DEF Ready
      <4>2. \/ c >= R[r][i].reach
            \/ \E p \in Timelines : \E j \in 1 .. Lag(A, R, p) :
                 R[p][j].counter >= R[r][i].reach /\ next[p][j] < next[r][i]
        BY <2>4, <3>1, <3>2 DEF Ready
      <4>. QED
        BY <4>1, <4>2 DEF Ready
    <3>4. Ready(A, R, sem, c, next, q, k)
      <4>1. ASSUME NEW s \in R[q][k].waits
            PROVE  s \in sem \/ \E p \in Timelines : \E j \in 1 .. Lag(A, R, p) :
                                  s \in R[p][j].signals /\ next[p][j] < next[q][k]
        <5>1. CASE s \in sem
          BY <5>1
        <5>2. CASE \E p \in Timelines : \E j \in 1 .. Lag(O, R, p) : s \in R[p][j].signals
          <6>1. PICK p, j : p \in Timelines /\ j \in 1 .. Lag(O, R, p) /\ s \in R[p][j].signals
            BY <5>2
          <6>2. next[p][j] < next[q][k] /\ j \in 1 .. Lag(A, R, p)
            BY <2>4, <3>1, <3>2, <6>1
          <6>. QED
            BY <6>1, <6>2
        <5>. QED
          BY <2>3, <2>7, <5>1, <5>2
      <4>2. \/ c >= R[q][k].reach
            \/ \E p \in Timelines : \E j \in 1 .. Lag(A, R, p) :
                 R[p][j].counter >= R[q][k].reach /\ next[p][j] < next[q][k]
        BY <2>3, <2>4, <2>8, <3>1, <3>2
      <4>. QED
        BY <4>1, <4>2 DEF Ready
    <3>5. ASSUME NEW r \in Timelines, NEW i \in 1 .. Lag(A, R, r)
          PROVE  /\ next[r][i] \in Nat /\ next[r][i] < n + 1
                 /\ \A j \in 1 .. Lag(A, R, r) : j < i => next[r][j] < next[r][i]
                 /\ Ready(A, R, sem, c, next, r, i)
      <4>1. CASE i \in 1 .. Lag(O, R, r)
        <5>1. next[r][i] \in Nat /\ next[r][i] < n
          BY <3>2, <4>1
        <5>2. next[r][i] < n + 1
          BY ONLY <5>1, n \in Nat
        <5>3. ASSUME NEW j \in 1 .. Lag(A, R, r), j < i
              PROVE  j \in 1 .. Lag(O, R, r)
          BY <2>2, <2>5, <4>1, <5>3
        <5>. QED
          BY <3>2, <3>3, <4>1, <5>1, <5>2, <5>3
      <4>2. CASE r = q /\ i = k
        <5>1. next[r][i] \in Nat /\ next[r][i] < n + 1
          BY <3>1, <4>2
        <5>2. ASSUME NEW j \in 1 .. Lag(A, R, r), j < i
              PROVE  next[r][j] < next[r][i]
          BY <2>2, <3>1, <3>2, <4>2, <5>2
        <5>. QED
          BY <3>4, <4>2, <5>1, <5>2
      <4>. QED
        BY <2>5, <4>1, <4>2
    <3>6. Ranked(A, R, sem, c, next, n + 1)
      BY <3>5 DEF Ranked
    <3>. QED
      BY <3>6
  <2>10. \E next, n : n \in Nat /\ Ranked(A, R, sem, c, next, n)
    <3>1. PICK rank, n : n \in Nat /\ Ranked(O, R, sem, c, rank, n)
      BY DEF Behind
    <3>2. PICK next : Ranked(A, R, sem, c, next, n + 1)
      BY <2>9, <3>1
    <3>3. n + 1 \in Nat
      BY ONLY <3>1
    <3>. QED
      BY <3>2, <3>3
  <2>. QED
    BY <1>5, <1>6, <2>6, <2>10 DEF Behind
<1>9. Lag(O, R, q) \in Int
  BY <1>1 DEF LagGrows
<1>. QED
  BY <1>7, <1>8, <1>9

\* The host raises the timeline semaphore.
LEMMA BehindRaised ==
  ASSUME NEW O \in [Timelines -> Seq(Submit)], NEW R \in [Timelines -> Seq(Submit)],
         NEW v \in Values, NEW sem, NEW c \in Values, Behind(O, v, R, sem, c), NEW w \in Values
  PROVE  Behind(O, Larger(v, w), R, sem, Larger(c, w))
<1>. DEFINE to == Larger(v, w)  now == Larger(c, w)
<1>1. /\ c \in Nat /\ v \in Nat /\ w \in Nat /\ now \in Nat /\ now >= c /\ now >= w
      /\ to = v \/ to = w
  BY LargerProperties, ValuesAreNumbers DEF Larger
<1>. HIDE DEF to, now
<1>2. LeftCovered(O, R, now)
  <2>1. ASSUME NEW q \in Timelines, NEW i \in 1 .. Len(O[q]), i + Lag(O, R, q) <= 0
        PROVE  O[q][i].counter <= now
    <3>1. O[q][i].counter \in Nat
      BY SubmitAt, ValuesAreNumbers DEF Submit
    <3>2. O[q][i].counter <= c
      BY <2>1 DEF Behind, LeftCovered
    <3>. QED
      BY ONLY <1>1, <3>1, <3>2
  <2>. QED
    BY <2>1 DEF LeftCovered
<1>3. Reached(O, R, now, to)
  <2>1. CASE to = w
    BY <1>1, <2>1 DEF Reached
  <2>2. CASE to = v
    <3>1. c >= v => now >= v
      BY ONLY <1>1
    <3>. QED
      BY <2>2, <3>1 DEF Behind, Reached
  <2>. QED
    BY <1>1, <2>1, <2>2
<1>4. ASSUME NEW rank, NEW n \in Nat, Ranked(O, R, sem, c, rank, n)
      PROVE  Ranked(O, R, sem, now, rank, n)
  <2>1. ASSUME NEW q \in Timelines, NEW i \in 1 .. Lag(O, R, q)
        PROVE  /\ rank[q][i] \in Nat /\ rank[q][i] < n
               /\ \A j \in 1 .. Lag(O, R, q) : j < i => rank[q][j] < rank[q][i]
               /\ Ready(O, R, sem, now, rank, q, i)
    <3>1. /\ rank[q][i] \in Nat /\ rank[q][i] < n
          /\ \A j \in 1 .. Lag(O, R, q) : j < i => rank[q][j] < rank[q][i]
          /\ Ready(O, R, sem, c, rank, q, i)
      BY <1>4 DEF Ranked
    <3>2. i \in 1 .. Len(R[q])
      BY LagType
    <3>3. R[q][i].reach \in Nat
      BY <3>2, SubmitAt, ValuesAreNumbers DEF Submit
    <3>4. c >= R[q][i].reach => now >= R[q][i].reach
      BY ONLY <1>1, <3>3
    <3>. QED
      BY <3>1, <3>4 DEF Ready
  <2>. QED
    BY <2>1 DEF Ranked
<1>5. Behind(O, to, R, sem, now)
  BY <1>2, <1>3, <1>4 DEF Behind
<1>. QED
  BY <1>5 DEF to, now

\* The replay begins, with all that the original has still to do covered.
LEMMA BehindRestored ==
  ASSUME NEW O \in [Timelines -> Seq(Submit)], NEW R, R = [q \in Timelines |-> <<>>],
         NEW v, NEW sem, NEW c, c >= v,
         \A q \in Timelines : \A i \in 1 .. Len(O[q]) : O[q][i].counter <= c
  PROVE  Behind(O, v, R, sem, c)
<1>1. ASSUME NEW q \in Timelines
      PROVE  Len(O[q]) \in Nat /\ Len(R[q]) = 0 /\ Lag(O, R, q) <= 0 /\ Lag(O, R, q) \in Int
  BY EmptySeq DEF Lag
<1>2. ASSUME NEW q \in Timelines
      PROVE  1 .. Lag(O, R, q) = {} /\ 1 .. Len(R[q]) = {}
  <2>1. Lag(O, R, q) <= 0 /\ Lag(O, R, q) \in Int /\ Len(R[q]) = 0
    BY <1>1
  <2>. QED
    BY ONLY <2>1
<1>3. SameStream(O, R) /\ LeftCovered(O, R, c) /\ Reached(O, R, c, v)
  BY <1>2 DEF SameStream, LeftCovered, Reached
<1>4. Ranked(O, R, sem, c, <<>>, 0)
  BY <1>2 DEF Ranked
<1>. QED
  BY <1>3, <1>4 DEF Behind

\* A set of ranks has a least one.
LEMMA Least ==
  ASSUME NEW S, S \subseteq Nat, S # {}
  PROVE  \E m \in S : \A n \in S : m <= n
<1>1. PICK m \in S : \A n \in S : <<n, m>> \notin OpToRel(<, Nat)
  BY NatLessThanWellFounded, WFMin
<1>2. \A n \in S : ~(n < m)
  BY <1>1 DEF OpToRel
<1>. QED
  BY <1>2

\* Of the submits that only the original has performed the replay can perform one.
LEMMA NothingHeldBack ==
  ASSUME NEW O \in [Timelines -> Seq(Submit)], NEW R \in [Timelines -> Seq(Submit)],
         NEW v, NEW sem, NEW c, Behind(O, v, R, sem, c),
         NEW st, NEW excused, SemaphoresKept(R, sem, st, excused),
         NEW p \in Timelines, Lag(O, R, p) > 0
  PROVE  \E q \in Timelines :
           /\ R[q] # <<>>
           /\ Head(R[q]).waits \subseteq sem
           /\ Head(R[q]).signals \cap (sem \ Head(R[q]).waits) = {}
           /\ c >= Head(R[q]).reach
<1>1. PICK rank, n : n \in Nat /\ Ranked(O, R, sem, c, rank, n)
  BY DEF Behind
<1>. DEFINE S == UNION {{rank[q][i] : i \in 1 .. Lag(O, R, q)} : q \in Timelines}
<1>2. \A m : m \in S <=> \E q \in Timelines : \E i \in 1 .. Lag(O, R, q) : m = rank[q][i]
  OBVIOUS
<1>3. S \subseteq Nat
  BY <1>1, <1>2 DEF Ranked
<1>4. S # {}
  <2>1. Lag(O, R, p) \in Int
    BY LagType
  <2>2. 1 \in 1 .. Lag(O, R, p)
    BY ONLY <2>1, Lag(O, R, p) > 0
  <2>. QED
    BY <1>2, <2>2
<1>. HIDE DEF S
<1>5. PICK m \in S : \A k \in S : m <= k
  BY <1>3, <1>4, Least
<1>6. PICK q, i : q \in Timelines /\ i \in 1 .. Lag(O, R, q) /\ m = rank[q][i]
  BY <1>2
<1>7. ASSUME NEW r \in Timelines, NEW j \in 1 .. Lag(O, R, r)
      PROVE  ~(rank[r][j] < rank[q][i])
  <2>1. rank[r][j] \in Nat /\ m \in Nat /\ m <= rank[r][j]
    BY <1>2, <1>3, <1>5
  <2>. QED
    BY ONLY <1>6, <2>1
<1>8. /\ i \in 1 .. Len(R[q]) /\ Len(R[q]) \in Nat /\ Lag(O, R, q) \in Int
      /\ \A j \in 1 .. Lag(O, R, q) : j < i => rank[q][j] < rank[q][i]
      /\ Ready(O, R, sem, c, rank, q, i)
  BY <1>1, <1>6, LagType DEF Ranked
<1>9. i = 1
  <2>1. 1 \in 1 .. Lag(O, R, q)
    BY ONLY <1>6, <1>8
  <2>2. ~(1 < i)
    BY <1>6, <1>7, <1>8, <2>1
  <2>. QED
    BY ONLY <1>6, <2>2
<1>10. R[q] # <<>> /\ Head(R[q]) = R[q][i] /\ R[q][i] \in Submit
  BY <1>6, <1>8, <1>9
<1>11. R[q][i].waits \subseteq sem /\ c >= R[q][i].reach
  BY <1>7, <1>8 DEF Ready
<1>12. ASSUME NEW s \in R[q][i].signals
       PROVE  s \notin sem
  <2>1. SemaphoreKept(R, sem, s, st[s], excused)
    BY <1>10 DEF SemaphoresKept, Submit
  <2>. QED
    BY <1>6, <1>8, <2>1 DEF SemaphoreKept
<1>. QED
  BY <1>6, <1>10, <1>11, <1>12
-----------------------------------------------------------------------------
(***************************************************************************)
(* What the calls do to the queues and the semaphores.                     *)
(***************************************************************************)
LEMMA QueuesTyped ==
  ASSUME TypeOK
  PROVE  /\ gpu \in [Sides -> Gpu] /\ "original" \in Sides /\ "replay" \in Sides
         /\ Original.queues \in [Timelines -> Seq(Submit)]
         /\ Replay.queues \in [Timelines -> Seq(Submit)]
         /\ Original.counter \in Values /\ Replay.counter \in Values
         /\ Original.semaphores \subseteq Semaphores /\ Replay.semaphores \subseteq Semaphores
BY DEF TypeOK, Original, Replay, Sides, Gpu

\* A GPU h is GPU g after it was given a submit.
GivenInOrder(h, g, q, x) ==
  /\ h.queues = Extended(g.queues, q, x)
  /\ h.fences = g.fences /\ h.semaphores = g.semaphores /\ h.counter = g.counter

LEMMA GiveInOrder ==
  ASSUME NEW g \in Gpu, NEW q, NEW x
  PROVE  GivenInOrder([g EXCEPT !.queues[q] = Append(@, x)], g, q, x)
BY DEF Gpu, Extended, GivenInOrder

LEMMA EnqueueInOrder ==
  ASSUME TypeOK, NEW q, NEW x, Enqueue(q, x)
  PROVE  /\ GivenInOrder(Original', Original, q, x)
         /\ inRange => GivenInOrder(Replay', Replay, q, x)
<1>. DEFINE given(side) == [gpu[side] EXCEPT !.queues[q] = Append(@, x)]
<1>1. \A side \in Sides : GivenInOrder(given(side), gpu[side], q, x)
  BY GiveInOrder, QueuesTyped
<1>2. \A side \in Sides : gpu'[side] = IF side \in Active THEN given(side) ELSE gpu[side]
  BY DEF Enqueue
<1>. HIDE DEF given
<1>. QED
  BY <1>1, <1>2 DEF Original, Replay, Sides, Active

\* A GPU h is GPU g after the first submit of a queue was performed.
TakenInOrder(h, g, q) ==
  /\ g.queues[q] # <<>>
  /\ h.queues = Advanced(g.queues, q)
  /\ h.fences = g.fences \cup ({g.queues[q][1].fence} \ {NoFence})
  /\ g.queues[q][1].waits \subseteq g.semaphores
  /\ h.semaphores = (g.semaphores \ g.queues[q][1].waits) \cup g.queues[q][1].signals
  /\ g.counter >= g.queues[q][1].reach
  /\ h.counter = Larger(g.counter, g.queues[q][1].counter)

LEMMA PerformInOrder ==
  ASSUME TypeOK, NEW side \in Sides, NEW q \in Timelines, Perform(side, q)
  PROVE  /\ TakenInOrder(gpu'[side], gpu[side], q)
         /\ \A other \in Sides \ {side} : gpu'[other] = gpu[other]
<1>1. gpu \in [Sides -> Gpu] /\ gpu[side].queues[q] # <<>>
  BY QueuesTyped DEF Perform, MayPerform
<1>2. Head(gpu[side].queues[q]) = gpu[side].queues[q][1]
  BY <1>1, FirstIsHead
<1>. DEFINE g == gpu[side]
            x == Head(g.queues[q])
            h == [fences |-> g.fences \cup ({x.fence} \ {NoFence}),
                  semaphores |-> (g.semaphores \ x.waits) \cup x.signals,
                  counter |-> Larger(g.counter, x.counter),
                  events |-> After(After(g.events, x.effect), x.inner),
                  queues |-> [g.queues EXCEPT ![q] = Tail(@)]]
<1>3. gpu' = [gpu EXCEPT ![side] = h] /\ x.waits \subseteq g.semaphores /\ g.counter >= x.reach
  BY DEF Perform, MayPerform
<1>4. gpu'[side] = h /\ \A other \in Sides \ {side} : gpu'[other] = gpu[other]
  BY <1>1, <1>3
<1>5. TakenInOrder(h, g, q)
  BY <1>1, <1>2, <1>3 DEF TakenInOrder, Advanced
<1>. QED
  BY <1>4, <1>5

-----------------------------------------------------------------------------
(***************************************************************************)
(* Init and the steps.                                                     *)
(***************************************************************************)
LEMMA EmptyQueues ==
  ASSUME NEW Q, Q = [q \in Timelines |-> <<>>], NEW sem, NEW st, NEW excused,
         \A s \in Semaphores : s \in sem <=> st[s] = "owed"
  PROVE  SemaphoresKept(Q, sem, st, excused)
<1>1. \A q \in Timelines : 1 .. Len(Q[q]) = {}
  BY EmptySeq
<1>. QED
  BY <1>1 DEF SemaphoresKept, SemaphoreKept, Owed, Signaling, Waiting

LEMMA OrderInit == Init => OrderInv
<1>. SUFFICES ASSUME Init
              PROVE  OrderInv
  OBVIOUS
<1>1. Original = IdleGpu
  BY DEF Init, Original, Sides
<1>2. RestoreComplete
  BY DEF RestoreComplete, Init, NothingSignaled
<1>3. SemaphoresKept(Original.queues, Original.semaphores, stage, {})
  BY <1>1, EmptyQueues DEF IdleGpu, Init
<1>. QED
  BY <1>2, <1>3 DEF OrderInv, Init

\* A call that gives submit x to queue q.
LEMMA StageAfterUse ==
  ASSUME NEW x \in Submit, Use(x), NEW s \in Semaphores
  PROVE  /\ s \in x.waits => stage[s] = "owed"
         /\ s \in x.signals => stage[s] = "idle"
         /\ stage'[s] = IF s \in x.waits THEN x.fence ELSE IF s \in x.signals THEN "owed" ELSE stage[s]
<1>1. /\ s \in x.waits => stage[s] = "owed"
      /\ s \in x.signals => stage[s] = "idle"
  BY DEF Use, MayUse
<1>2. stage'[s] = CASE s \in x.waits -> x.fence
                    [] s \in x.signals -> "owed"
                    [] OTHER -> stage[s]
  BY DEF Use
<1>3. ~(s \in x.waits /\ s \in x.signals)
  BY <1>1
<1>. QED
  BY <1>1, <1>2, <1>3

LEMMA SemaphoresGiven ==
  ASSUME NEW Q \in [Timelines -> Seq(Submit)], NEW sem, SemaphoresKept(Q, sem, stage, {}),
         NEW q \in Timelines, NEW x \in Submit, Use(x)
  PROVE  SemaphoresKept(Extended(Q, q, x), sem, stage', {})
<1>1. ASSUME NEW s \in Semaphores
      PROVE  SemaphoreKept(Extended(Q, q, x), sem, s, stage'[s], {})
  <2>1. SemaphoreKept(Q, sem, s, stage[s], {})
    BY DEF SemaphoresKept
  <2>. QED
    BY <2>1, StageAfterUse, SemaphoreGiven
<1>. QED
  BY <1>1 DEF SemaphoresKept

\* What is tracked of the semaphores is what the application is owed.
LEMMA OwedAfterUse ==
  ASSUME NEW x \in Submit, Use(x), NEW sem, sem = {s \in Semaphores : stage[s] = "owed"}
  PROVE  (sem \ x.waits) \cup x.signals = {s \in Semaphores : stage'[s] = "owed"}
<1>1. x.fence # "owed" /\ x.signals \subseteq Semaphores
  BY FenceIsNoStage DEF Submit
<1>2. ASSUME NEW s \in Semaphores
      PROVE  s \in (sem \ x.waits) \cup x.signals <=> stage'[s] = "owed"
  BY <1>1, StageAfterUse
<1>. QED
  BY <1>1, <1>2

LEMMA GiveOrder ==
  ASSUME ReplayInv, OrderInv, NEW q \in Timelines, NEW x \in Submit,
         Call, Use(x), Enqueue(q, x), UNCHANGED catchUp,
         ~inRange => /\ tracked'.fences = tracked.fences \cup ({x.fence} \ {NoFence})
                     /\ tracked'.semaphores = (tracked.semaphores \ x.waits) \cup x.signals
  PROVE  OrderInv'
<1>1. TypeOK
  BY DEF ReplayInv
<1>2. /\ GivenInOrder(Original', Original, q, x)
      /\ inRange => GivenInOrder(Replay', Replay, q, x)
  BY <1>1, EnqueueInOrder
<1>3. /\ inRange' = inRange /\ catchUp = NoWait /\ catchUp' = NoWait
      /\ x.fence \notin used /\ used' = used \cup ({x.fence} \ {NoFence})
  BY DEF Call, Use, MayUse
<1>4. Awaited = {} /\ Awaited' = {}
  BY <1>3 DEF Awaited, NoWait
<1>5. RestoreComplete'
  <2>. SUFFICES ASSUME ~inRange
                PROVE  /\ tracked'.fences \subseteq used'
                       /\ tracked'.semaphores = {s \in Semaphores : stage'[s] = "owed"}
    BY <1>3 DEF RestoreComplete
  <2>1. /\ tracked.fences \subseteq used
        /\ tracked.semaphores = {s \in Semaphores : stage[s] = "owed"}
    BY DEF OrderInv, RestoreComplete
  <2>. QED
    BY <1>3, <2>1, OwedAfterUse
<1>6. SemaphoresKept(Original'.queues, Original'.semaphores, stage', {})
  <2>1. /\ Original.queues \in [Timelines -> Seq(Submit)]
        /\ SemaphoresKept(Original.queues, Original.semaphores, stage, {})
    BY <1>1, QueuesTyped DEF OrderInv
  <2>2. SemaphoresKept(Extended(Original.queues, q, x), Original.semaphores, stage', {})
    BY <2>1, SemaphoresGiven
  <2>. QED
    BY <1>2, <2>2 DEF GivenInOrder
<1>7. ASSUME inRange
      PROVE  /\ FencesKept(Replay'.queues, Replay'.fences, used')
             /\ SemaphoresKept(Replay'.queues, Replay'.semaphores, stage', {})
             /\ Behind(Original'.queues, Original'.counter,
                       Replay'.queues, Replay'.semaphores, Replay'.counter)
  <2>1. /\ FencesKept(Replay.queues, Replay.fences, used)
        /\ SemaphoresKept(Replay.queues, Replay.semaphores, stage, {})
        /\ Behind(Original.queues, Original.counter, Replay.queues, Replay.semaphores, Replay.counter)
    BY <1>4, <1>7 DEF OrderInv
  <2>2. /\ Original.queues \in [Timelines -> Seq(Submit)]
        /\ Replay.queues \in [Timelines -> Seq(Submit)]
    BY <1>1, QueuesTyped
  <2>3. /\ Original'.queues = Extended(Original.queues, q, x) /\ Original'.counter = Original.counter
        /\ Replay'.queues = Extended(Replay.queues, q, x)
        /\ Replay'.fences = Replay.fences /\ Replay'.semaphores = Replay.semaphores
        /\ Replay'.counter = Replay.counter
    BY <1>2, <1>7 DEF GivenInOrder
  <2>4. FencesKept(Replay'.queues, Replay'.fences, used')
    BY <1>3, <2>1, <2>2, <2>3, FencesGivenTo
  <2>5. SemaphoresKept(Replay'.queues, Replay'.semaphores, stage', {})
    BY <2>1, <2>2, <2>3, SemaphoresGiven
  <2>6. Behind(Original'.queues, Original'.counter,
               Replay'.queues, Replay'.semaphores, Replay'.counter)
    <3>1. Behind(Extended(Original.queues, q, x), Original.counter,
                 Extended(Replay.queues, q, x), Replay.semaphores, Replay.counter)
      BY <2>1, <2>2, BehindGiven
    <3>. QED
      BY <2>3, <3>1
  <2>. QED
    BY <2>4, <2>5, <2>6
<1>. QED
  BY <1>3, <1>4, <1>5, <1>6, <1>7 DEF OrderInv

LEMMA QueueSubmitOrder ==
  ASSUME ReplayInv, OrderInv, NEW q \in Queues, NEW x \in Submits, QueueSubmit(q, x)
  PROVE  OrderInv'
<1>1. x \in Submit /\ q \in Timelines /\ tracked \in SyncState
  BY SubmitsAssumption DEF Timelines, ReplayInv, TypeOK
<1>2. /\ OnQueueSubmit(tracked, x).fences = tracked.fences \cup ({x.fence} \ {NoFence})
      /\ OnQueueSubmit(tracked, x).semaphores = (tracked.semaphores \ x.waits) \cup x.signals
  BY <1>1 DEF SyncState, OnQueueSubmit, UpdateTimelineSemaphoreValue, SignalFence
<1>3. /\ Call /\ Use(x) /\ Enqueue(q, x) /\ Track(OnQueueSubmit(tracked, x))
      /\ UNCHANGED catchUp
  BY DEF QueueSubmit
<1>. QED
  BY <1>1, <1>2, <1>3, GiveOrder DEF Track

LEMMA QueueBindSparseOrder ==
  ASSUME ReplayInv, OrderInv, NEW q \in Queues, NEW f \in Fences, QueueBindSparse(q, f)
  PROVE  OrderInv'
<1>. DEFINE x == EmptySubmit(f)
<1>1. x \in Submit /\ q \in Timelines /\ tracked \in SyncState
  BY EmptySubmitType DEF Timelines, ReplayInv, TypeOK
<1>2. x.fence = f /\ x.waits = {} /\ x.signals = {}
  BY DEF EmptySubmit
<1>3. /\ OnQueueBindSparse(tracked, f).fences = tracked.fences \cup ({f} \ {NoFence})
      /\ OnQueueBindSparse(tracked, f).semaphores = tracked.semaphores
  BY <1>1 DEF SyncState, OnQueueBindSparse, SignalFence
<1>4. /\ Call /\ Use(x) /\ Enqueue(q, x) /\ Track(OnQueueBindSparse(tracked, f))
      /\ UNCHANGED catchUp
  BY DEF QueueBindSparse
<1>. HIDE DEF x
<1>5. ~inRange => /\ tracked'.fences = tracked.fences \cup ({x.fence} \ {NoFence})
                  /\ tracked'.semaphores = (tracked.semaphores \ x.waits) \cup x.signals
  BY <1>2, <1>3, <1>4 DEF Track
<1>. QED
  BY <1>1, <1>4, <1>5, GiveOrder

LEMMA AcquireNextImageOrder ==
  ASSUME ReplayInv, OrderInv, NEW s \in Semaphores, NEW f \in Fences \cup {NoFence},
         AcquireNextImage(s, f)
  PROVE  OrderInv'
<1>. DEFINE x == [EmptySubmit(f) EXCEPT !.signals = {s}]
<1>1. Display \in Timelines /\ tracked \in SyncState
  BY DEF Timelines, ReplayInv, TypeOK
<1>2. x \in Submit /\ x.fence = f /\ x.waits = {} /\ x.signals = {s}
  BY ValuesAreNumbers DEF EmptySubmit, Submit, Effect, NoEffect
<1>3. /\ OnAcquire(tracked, s, f).fences = tracked.fences \cup ({f} \ {NoFence})
      /\ OnAcquire(tracked, s, f).semaphores = tracked.semaphores \cup {s}
  BY <1>1 DEF SyncState, OnAcquire, SignalFence
<1>4. /\ Call /\ Use(x) /\ Enqueue(Display, x) /\ Track(OnAcquire(tracked, s, f))
      /\ UNCHANGED catchUp
  BY DEF AcquireNextImage
<1>. HIDE DEF x
<1>5. ~inRange => /\ tracked'.fences = tracked.fences \cup ({x.fence} \ {NoFence})
                  /\ tracked'.semaphores = (tracked.semaphores \ x.waits) \cup x.signals
  BY <1>2, <1>3, <1>4 DEF Track
<1>. QED
  BY <1>1, <1>2, <1>4, <1>5, GiveOrder

LEMMA PresentTracked ==
  ASSUME NEW state \in SyncState, NEW waits
  PROVE  /\ OnQueuePresent(state, waits).fences = state.fences
         /\ OnQueuePresent(state, waits).semaphores = state.semaphores \ waits
         /\ OnQueuePresent(state, waits).counter = state.counter
BY DEF SyncState, OnQueuePresent

LEMMA PresentSubmit ==
  ASSUME NEW waits \in SUBSET Semaphores, NEW x, x = [EmptySubmit(NoFence) EXCEPT !.waits = waits]
  PROVE  x \in Submit /\ x.fence = NoFence /\ x.waits = waits /\ x.signals = {} /\ x.counter = 0
BY ValuesAreNumbers DEF EmptySubmit, Submit, Effect, NoEffect

LEMMA QueuePresentOrder ==
  ASSUME ReplayInv, OrderInv, NEW q \in Queues, NEW waits \in SUBSET Semaphores, QueuePresent(q, waits)
  PROVE  OrderInv'
<1>. DEFINE x == [EmptySubmit(NoFence) EXCEPT !.waits = waits]
<1>1. q \in Timelines /\ tracked \in SyncState
  BY DEF Timelines, ReplayInv, TypeOK
<1>2. x \in Submit /\ x.fence = NoFence /\ x.waits = waits /\ x.signals = {}
  BY PresentSubmit
<1>3. /\ Call /\ Use(x) /\ Enqueue(q, x) /\ Track(OnQueuePresent(tracked, waits))
      /\ UNCHANGED catchUp
  BY DEF QueuePresent, replayVars
<1>. HIDE DEF x
<1>4. ~inRange => /\ tracked'.fences = tracked.fences \cup ({x.fence} \ {NoFence})
                  /\ tracked'.semaphores = (tracked.semaphores \ x.waits) \cup x.signals
  BY <1>1, <1>2, <1>3, PresentTracked DEF Track
<1>. QED
  BY <1>1, <1>2, <1>3, <1>4, GiveOrder

LEMMA RestoredQueues ==
  ASSUME NEW state \in SyncState
  PROVE  /\ RestoreState(state).queues = [q \in Timelines |-> <<>>]
         /\ RestoreState(state).fences = state.fences
         /\ RestoreState(state).semaphores = state.semaphores
         /\ RestoreState(state).counter = state.counter
BY DEF RestoreState, EmitCreationCommand, IdleGpu

LEMMA RestoreOrder ==
  ASSUME ReplayInv, OrderInv, NEW q \in Queues, NEW waits \in SUBSET Semaphores,
         QueuePresentAndRestoreState(q, waits)
  PROVE  OrderInv'
<1>. DEFINE x == [EmptySubmit(NoFence) EXCEPT !.waits = waits]
            g == [gpu["original"] EXCEPT !.queues[q] = Append(@, x)]
<1>1. q \in Timelines /\ tracked \in SyncState /\ TypeOK
  BY DEF Timelines, ReplayInv, TypeOK
<1>2. x \in Submit /\ x.fence = NoFence /\ x.waits = waits /\ x.signals = {} /\ x.counter = 0
  BY PresentSubmit
<1>3. /\ ~inRange /\ inRange' /\ Use(x) /\ tracked' = OnQueuePresent(tracked, waits)
      /\ gpu' = [original |-> g, replay |-> RestoreState(tracked')]
  BY DEF QueuePresentAndRestoreState
<1>4. GivenInOrder(Original', Original, q, x)
  <2>1. Original' = g
    BY <1>3 DEF Original
  <2>2. gpu["original"] \in Gpu
    BY <1>1, QueuesTyped
  <2>. HIDE DEF x
  <2>3. GivenInOrder(g, gpu["original"], q, x)
    BY <2>2, GiveInOrder
  <2>. QED
    BY <2>1, <2>3 DEF Original
<1>. HIDE DEF x, g
<1>5. /\ tracked'.fences = tracked.fences /\ tracked'.semaphores = tracked.semaphores \ waits
      /\ tracked'.counter = tracked.counter
  BY <1>1, <1>3, PresentTracked
<1>6. tracked' \in SyncState
  BY <1>1, <1>3, PresentFollows DEF Follows
<1>7. /\ Replay'.queues = [r \in Timelines |-> <<>>]
      /\ Replay'.fences = tracked.fences
      /\ Replay'.semaphores = tracked.semaphores \ waits
      /\ Replay'.counter = tracked.counter
  <2>1. Replay' = RestoreState(tracked')
    BY <1>3 DEF Replay
  <2>. QED
    BY <1>5, <1>6, <2>1, RestoredQueues
<1>8. /\ tracked.fences \subseteq used
      /\ tracked.semaphores = {s \in Semaphores : stage[s] = "owed"}
  BY <1>3 DEF OrderInv, RestoreComplete
<1>9. tracked.semaphores \ waits = {s \in Semaphores : stage'[s] = "owed"}
  BY <1>2, <1>3, <1>8, OwedAfterUse
<1>10. Original.queues \in [Timelines -> Seq(Submit)]
  BY <1>1, QueuesTyped
<1>11. SemaphoresKept(Original'.queues, Original'.semaphores, stage', {})
  <2>1. SemaphoresKept(Extended(Original.queues, q, x), Original.semaphores, stage', {})
    BY <1>1, <1>2, <1>3, <1>10, SemaphoresGiven DEF OrderInv
  <2>. QED
    BY <1>4, <2>1 DEF GivenInOrder
<1>12. \A r \in Timelines : 1 .. Len(Replay'.queues[r]) = {}
  BY <1>7, EmptySeq
<1>13. FencesKept(Replay'.queues, Replay'.fences, used')
  <2>1. Replay'.fences \subseteq used'
    BY <1>3, <1>7, <1>8 DEF Use
  <2>. QED
    BY <1>12, <2>1 DEF FencesKept
<1>14. SemaphoresKept(Replay'.queues, Replay'.semaphores, stage', Awaited')
  BY <1>7, <1>9, EmptyQueues
<1>15. Behind(Original'.queues, Original'.counter,
              Replay'.queues, Replay'.semaphores, Replay'.counter)
  <2>1. Original'.queues = Extended(Original.queues, q, x) /\ Original'.counter = Original.counter
    BY <1>4 DEF GivenInOrder
  <2>2. ExtendsTo(Original.queues, q, x, Original'.queues)
    BY <1>1, <1>2, <1>10, <2>1, ExtendedPositions
  <2>3. ASSUME NEW r \in Timelines, NEW i \in 1 .. Len(Original'.queues[r])
        PROVE  Original'.queues[r][i].counter <= tracked.counter
    <3>1. CASE i \in 1 .. Len(Original.queues[r])
      <4>1. Original'.queues[r][i] = Original.queues[r][i]
        BY <2>2, <3>1 DEF ExtendsTo
      <4>. QED
        BY <1>3, <3>1, <4>1 DEF ReplayInv, TrackedAhead
    <3>2. CASE r = q /\ i = Len(Original.queues[q]) + 1
      <4>1. Original'.queues[r][i] = x
        BY <2>2, <3>2 DEF ExtendsTo
      <4>2. tracked.counter \in Nat
        BY <1>1, SidesTyped
      <4>. QED
        BY <1>2, <4>1, <4>2
    <3>. QED
      BY <2>2, <3>1, <3>2 DEF ExtendsTo
  <2>4. tracked.counter >= Original.counter
    BY <1>1, <1>3, SidesTyped DEF ReplayInv, TrackedAhead
  <2>5. Original'.queues \in [Timelines -> Seq(Submit)]
    BY <2>2 DEF ExtendsTo
  <2>6. Replay'.counter >= Original'.counter
    BY <1>7, <2>1, <2>4
  <2>7. \A r \in Timelines : \A i \in 1 .. Len(Original'.queues[r]) :
          Original'.queues[r][i].counter <= Replay'.counter
    BY <1>7, <2>3
  <2>. QED
    BY <1>7, <2>5, <2>6, <2>7, BehindRestored
<1>16. RestoreComplete'
  BY <1>3 DEF RestoreComplete
<1>. QED
  BY <1>11, <1>13, <1>14, <1>15, <1>16 DEF OrderInv

\* A GPU performs a submit.
LEMMA SemaphoresTaken ==
  ASSUME NEW g, NEW h, NEW q \in Timelines, g.queues \in [Timelines -> Seq(Submit)],
         TakenInOrder(h, g, q), NEW st, NEW excused, SemaphoresKept(g.queues, g.semaphores, st, excused)
  PROVE  SemaphoresKept(h.queues, h.semaphores, st, excused)
<1>1. PICK Q, x, sem, left, A : /\ Q = g.queues /\ x = Q[q][1] /\ sem = g.semaphores
                                /\ left = h.semaphores /\ A = h.queues
  OBVIOUS
<1>2. /\ Q \in [Timelines -> Seq(Submit)] /\ Q[q] # <<>> /\ x.waits \subseteq sem
      /\ A = Advanced(Q, q) /\ left = (sem \ x.waits) \cup x.signals
  BY <1>1 DEF TakenInOrder
<1>3. ASSUME NEW s \in Semaphores
      PROVE  SemaphoreKept(A, left, s, st[s], excused)
  <2>1. SemaphoreKept(Q, sem, s, st[s], excused)
    BY <1>1 DEF SemaphoresKept
  <2>. QED
    BY <1>1, <1>2, <2>1, SemaphoreTaken
<1>. QED
  BY <1>1, <1>3 DEF SemaphoresKept

LEMMA PerformOriginalOrder ==
  ASSUME ReplayInv, OrderInv, NEW q \in Timelines, Perform("original", q)
  PROVE  OrderInv'
<1>1. TypeOK
  BY DEF ReplayInv
<1>2. TakenInOrder(Original', Original, q) /\ Replay' = Replay
  BY <1>1, PerformInOrder DEF Original, Replay, Sides
<1>3. UNCHANGED <<inRange, tracked, used, stage, catchUp>>
  BY DEF Perform, appVars, replayVars
<1>4. /\ Original.queues \in [Timelines -> Seq(Submit)] /\ Replay.queues \in [Timelines -> Seq(Submit)]
      /\ Original.counter \in Values /\ Replay.counter \in Values
  BY <1>1, QueuesTyped
<1>5. SemaphoresKept(Original'.queues, Original'.semaphores, stage, {})
  BY <1>2, <1>4, SemaphoresTaken DEF OrderInv
<1>6. ASSUME inRange
      PROVE  Behind(Original'.queues, Original'.counter,
                    Replay.queues, Replay.semaphores, Replay.counter)
  <2>1. /\ SemaphoresKept(Original.queues, Original.semaphores, stage, {})
        /\ SemaphoresKept(Replay.queues, Replay.semaphores, stage, Awaited)
        /\ Behind(Original.queues, Original.counter, Replay.queues, Replay.semaphores, Replay.counter)
    BY <1>6 DEF OrderInv
  <2>2. PICK x : x = Original.queues[q][1]
    OBVIOUS
  <2>3. /\ Original.queues[q] # <<>> /\ x.waits \subseteq Original.semaphores
        /\ Original.counter >= x.reach /\ Original'.queues = Advanced(Original.queues, q)
        /\ Original'.counter = Larger(Original.counter, x.counter)
    BY <1>2, <2>2 DEF TakenInOrder
  <2>4. Behind(Advanced(Original.queues, q), Larger(Original.counter, x.counter),
               Replay.queues, Replay.semaphores, Replay.counter)
    BY <1>4, <2>1, <2>2, <2>3, BehindOriginal
  <2>. QED
    BY <2>3, <2>4
<1>7. RestoreComplete'
  BY <1>3 DEF OrderInv, RestoreComplete
<1>8. Awaited' = Awaited
  BY <1>3 DEF Awaited
<1>. QED
  BY <1>2, <1>3, <1>5, <1>6, <1>7, <1>8 DEF OrderInv

LEMMA PerformReplayOrder ==
  ASSUME ReplayInv, OrderInv, NEW q \in Timelines, Perform("replay", q)
  PROVE  OrderInv'
<1>1. TypeOK
  BY DEF ReplayInv
<1>2. TakenInOrder(Replay', Replay, q) /\ Original' = Original
  BY <1>1, PerformInOrder DEF Original, Replay, Sides
<1>3. UNCHANGED <<inRange, tracked, used, stage, catchUp>>
  BY DEF Perform, appVars, replayVars
<1>4. /\ Original.queues \in [Timelines -> Seq(Submit)] /\ Replay.queues \in [Timelines -> Seq(Submit)]
      /\ Original.counter \in Values /\ Replay.counter \in Values
  BY <1>1, QueuesTyped
<1>5. ASSUME inRange
      PROVE  /\ FencesKept(Replay'.queues, Replay'.fences, used)
             /\ SemaphoresKept(Replay'.queues, Replay'.semaphores, stage, Awaited)
             /\ Behind(Original.queues, Original.counter,
                       Replay'.queues, Replay'.semaphores, Replay'.counter)
  <2>1. /\ FencesKept(Replay.queues, Replay.fences, used)
        /\ SemaphoresKept(Replay.queues, Replay.semaphores, stage, Awaited)
        /\ Behind(Original.queues, Original.counter, Replay.queues, Replay.semaphores, Replay.counter)
    BY <1>5 DEF OrderInv
  <2>2. PICK x : x = Replay.queues[q][1]
    OBVIOUS
  <2>3. /\ Replay.queues[q] # <<>> /\ x.waits \subseteq Replay.semaphores
        /\ Replay'.queues = Advanced(Replay.queues, q)
        /\ Replay'.fences = Replay.fences \cup ({x.fence} \ {NoFence})
        /\ Replay'.semaphores = (Replay.semaphores \ x.waits) \cup x.signals
        /\ Replay'.counter = Larger(Replay.counter, x.counter)
    BY <1>2, <2>2 DEF TakenInOrder
  <2>4. FencesKept(Advanced(Replay.queues, q), Replay.fences \cup ({x.fence} \ {NoFence}), used)
    BY <1>4, <2>1, <2>2, <2>3, FencesTaken
  <2>5. SemaphoresKept(Replay'.queues, Replay'.semaphores, stage, Awaited)
    BY <1>2, <1>4, <2>1, SemaphoresTaken
  <2>6. Behind(Original.queues, Original.counter, Advanced(Replay.queues, q),
               (Replay.semaphores \ x.waits) \cup x.signals, Larger(Replay.counter, x.counter))
    BY <1>4, <2>1, <2>2, <2>3, BehindReplay
  <2>. QED
    BY <2>3, <2>4, <2>5, <2>6
<1>6. RestoreComplete'
  BY <1>3 DEF OrderInv, RestoreComplete
<1>7. Awaited' = Awaited
  BY <1>3 DEF Awaited
<1>. QED
  BY <1>2, <1>3, <1>5, <1>6, <1>7 DEF OrderInv

\* A call that signals or resets at once.
\* A call that leaves the queues and the semaphores as they are.
SameQueues ==
  /\ Original'.queues = Original.queues /\ Original'.semaphores = Original.semaphores
  /\ Replay'.queues = Replay.queues /\ Replay'.semaphores = Replay.semaphores
  /\ stage' = stage /\ catchUp = NoWait /\ catchUp' = NoWait /\ inRange' = inRange

LEMMA SameQueuesOrder ==
  ASSUME OrderInv, SameQueues, RestoreComplete',
         inRange => /\ FencesKept(Replay.queues, Replay'.fences, used')
                    /\ Behind(Original.queues, Original'.counter,
                              Replay.queues, Replay.semaphores, Replay'.counter)
  PROVE  OrderInv'
<1>1. Awaited' = Awaited
  BY DEF SameQueues, Awaited
<1>. QED
  BY <1>1 DEF OrderInv, SameQueues

LEMMA ResetFencesOrder ==
  ASSUME ReplayInv, OrderInv, NEW fs \in SUBSET Fences, ResetFences(fs)
  PROVE  OrderInv'
<1>1. TypeOK /\ SeenOrAwaited /\ tracked \in SyncState
  BY DEF ReplayInv, TypeOK
<1>2. /\ fs \subseteq known.fences /\ catchUp = NoWait /\ catchUp' = NoWait /\ inRange' = inRange
      /\ stage' = stage /\ used' = used \ fs /\ Track(OnResetFences(tracked, fs))
      /\ gpu' = [side \in Sides |->
                   IF side \in Active THEN [gpu[side] EXCEPT !.fences = @ \ fs] ELSE gpu[side]]
  BY DEF ResetFences, Call
<1>3. /\ Original' = [Original EXCEPT !.fences = @ \ fs]
      /\ Replay' = IF inRange THEN [Replay EXCEPT !.fences = @ \ fs] ELSE Replay
  BY <1>2 DEF Original, Replay, Active, Sides
<1>4. /\ Original'.queues = Original.queues /\ Original'.semaphores = Original.semaphores
      /\ Original'.counter = Original.counter
      /\ Replay'.queues = Replay.queues /\ Replay'.semaphores = Replay.semaphores
      /\ Replay'.counter = Replay.counter
      /\ inRange => Replay'.fences = Replay.fences \ fs
  BY <1>1, <1>3, SidesTyped DEF Gpu
<1>5. SameQueues
  BY <1>2, <1>4 DEF SameQueues
<1>6. RestoreComplete'
  <2>1. OnResetFences(tracked, fs).fences = tracked.fences \ fs
        /\ OnResetFences(tracked, fs).semaphores = tracked.semaphores
    BY <1>1 DEF SyncState, OnResetFences
  <2>. QED
    BY <1>2, <2>1 DEF Track, OrderInv, RestoreComplete
<1>7. ASSUME inRange
      PROVE  FencesKept(Replay.queues, Replay'.fences, used')
  <2>1. fs \in SUBSET Replay.fences
    BY <1>1, <1>2, <1>7, UpToDate
  <2>2. FencesKept(Replay.queues, Replay.fences \ fs, used \ fs)
    BY <1>7, <2>1, FencesReset DEF OrderInv
  <2>. QED
    BY <1>2, <1>4, <1>7, <2>2
<1>. QED
  BY <1>4, <1>5, <1>6, <1>7, SameQueuesOrder DEF OrderInv

LEMMA SignalSemaphoreOrder ==
  ASSUME ReplayInv, OrderInv, NEW v \in Values, SignalSemaphore(v), ~invalid'
  PROVE  OrderInv'
<1>1. TypeOK /\ tracked \in SyncState
  BY DEF ReplayInv, TypeOK
<1>2. /\ catchUp = NoWait /\ catchUp' = NoWait /\ inRange' = inRange
      /\ stage' = stage /\ used' = used /\ Track(OnSignalSemaphore(tracked, v))
  BY DEF SignalSemaphore, Call
<1>3. /\ Original' = [Original EXCEPT !.counter = v] /\ v > Original.counter
      /\ Replay' = [Replay EXCEPT !.counter = Replay'.counter]
      /\ inRange => Replay'.counter = Larger(Replay.counter, v)
      /\ Original \in Gpu /\ Replay \in Gpu /\ Original.counter \in Nat /\ v \in Nat
  BY <1>1, SignalEffect, SidesTyped, ValuesAreNumbers
<1>4. /\ Original'.queues = Original.queues /\ Original'.semaphores = Original.semaphores
      /\ Original'.counter = Larger(Original.counter, v)
      /\ Replay'.queues = Replay.queues /\ Replay'.semaphores = Replay.semaphores
      /\ Replay'.fences = Replay.fences
      /\ inRange => Replay'.counter = Larger(Replay.counter, v)
  <2>1. Larger(Original.counter, v) = v
    BY <1>3 DEF Larger
  <2>. QED
    BY <1>3, <2>1 DEF Gpu
<1>5. SameQueues
  BY <1>2, <1>4 DEF SameQueues
<1>6. RestoreComplete'
  <2>1. OnSignalSemaphore(tracked, v).fences = tracked.fences
        /\ OnSignalSemaphore(tracked, v).semaphores = tracked.semaphores
    BY <1>1 DEF SyncState, OnSignalSemaphore, UpdateTimelineSemaphoreValue
  <2>. QED
    BY <1>2, <2>1 DEF Track, OrderInv, RestoreComplete
<1>7. ASSUME inRange
      PROVE  Behind(Original.queues, Original'.counter,
                    Replay.queues, Replay.semaphores, Replay'.counter)
  <2>1. Behind(Original.queues, Original.counter, Replay.queues, Replay.semaphores, Replay.counter)
    BY <1>7 DEF OrderInv
  <2>2. Behind(Original.queues, Larger(Original.counter, v),
               Replay.queues, Replay.semaphores, Larger(Replay.counter, v))
    BY <1>1, <2>1, QueuesTyped, BehindRaised
  <2>. QED
    BY <1>4, <1>7, <2>2
<1>. QED
  BY <1>2, <1>4, <1>5, <1>6, <1>7, SameQueuesOrder DEF OrderInv

LEMMA EventOrder ==
  ASSUME ReplayInv, OrderInv, NEW e \in Events, SetEvent(e) \/ ResetEvent(e)
  PROVE  OrderInv'
<1>1. TypeOK /\ tracked \in SyncState
  BY DEF ReplayInv, TypeOK
<1>2. /\ catchUp = NoWait /\ catchUp' = NoWait /\ inRange' = inRange /\ stage' = stage /\ used' = used
      /\ Track(OnSetEvent(tracked, e)) \/ Track(OnResetEvent(tracked, e))
  BY DEF SetEvent, ResetEvent, Call, replayVars
<1>3. \A side \in Sides : /\ gpu'[side].queues = gpu[side].queues
                          /\ gpu'[side].semaphores = gpu[side].semaphores
                          /\ gpu'[side].fences = gpu[side].fences
                          /\ gpu'[side].counter = gpu[side].counter
  <2>1. gpu \in [Sides -> Gpu]
    BY <1>1, QueuesTyped
  <2>2. CASE SetEvent(e)
    BY <2>1, <2>2 DEF SetEvent, Gpu
  <2>3. CASE ResetEvent(e)
    BY <2>1, <2>3 DEF ResetEvent, Gpu
  <2>. QED
    BY <2>2, <2>3
<1>4. /\ Original'.queues = Original.queues /\ Original'.semaphores = Original.semaphores
      /\ Original'.counter = Original.counter
      /\ Replay'.queues = Replay.queues /\ Replay'.semaphores = Replay.semaphores
      /\ Replay'.fences = Replay.fences /\ Replay'.counter = Replay.counter
  BY <1>3 DEF Original, Replay, Sides
<1>5. SameQueues
  BY <1>2, <1>4 DEF SameQueues
<1>6. RestoreComplete'
  <2>1. /\ OnSetEvent(tracked, e).fences = tracked.fences
        /\ OnSetEvent(tracked, e).semaphores = tracked.semaphores
        /\ OnResetEvent(tracked, e).fences = tracked.fences
        /\ OnResetEvent(tracked, e).semaphores = tracked.semaphores
    BY <1>1 DEF SyncState, OnSetEvent, OnResetEvent
  <2>. QED
    BY <1>2, <2>1 DEF Track, OrderInv, RestoreComplete
<1>. QED
  BY <1>2, <1>4, <1>5, <1>6, SameQueuesOrder DEF OrderInv

\* A call that asks what is signaled.
LEMMA AskOrder ==
  ASSUME OrderInv, gpu' = gpu, UNCHANGED <<inRange, tracked, used>>,
         \A s \in Semaphores : stage'[s] = "owed" <=> stage[s] = "owed",
         SemaphoresKept(Original.queues, Original.semaphores, stage', {}),
         inRange => SemaphoresKept(Replay.queues, Replay.semaphores, stage', Awaited')
  PROVE  OrderInv'
<1>1. Original' = Original /\ Replay' = Replay
  BY DEF Original, Replay
<1>2. RestoreComplete'
  BY DEF OrderInv, RestoreComplete
<1>. QED
  BY <1>1, <1>2 DEF OrderInv

LEMMA ExcusedMore ==
  ASSUME NEW Q, NEW sem, NEW st, SemaphoresKept(Q, sem, st, {}), NEW excused
  PROVE  SemaphoresKept(Q, sem, st, excused)
<1>1. ASSUME NEW s \in Semaphores
      PROVE  SemaphoreKept(Q, sem, s, st[s], excused)
  <2>1. SemaphoreKept(Q, sem, s, st[s], {})
    BY DEF SemaphoresKept
  <2>. QED
    BY <2>1 DEF SemaphoreKept
<1>. QED
  BY <1>1 DEF SemaphoresKept

LEMMA NothingLearned ==
  ASSUME OrderInv, Asking, stage' = stage
  PROVE  OrderInv'
<1>1. gpu' = gpu /\ UNCHANGED <<inRange, tracked, used>> /\ catchUp = NoWait
  BY DEF Asking, Call
<1>2. Awaited = {}
  BY <1>1 DEF Awaited, NoWait
<1>3. inRange => SemaphoresKept(Replay.queues, Replay.semaphores, stage', Awaited')
  BY <1>2, ExcusedMore DEF OrderInv
<1>. QED
  BY <1>1, <1>3, AskOrder DEF OrderInv

LEMMA SemaphoresLearned ==
  ASSUME NEW Q \in [Timelines -> Seq(Submit)], NEW sem, SemaphoresKept(Q, sem, stage, {}),
         NEW fs \in SUBSET Fences, NEW excused,
         stage' = [s \in Semaphores |-> IF stage[s] \in fs THEN "idle" ELSE stage[s]],
         \A q \in Timelines : \A i \in 1 .. Len(Q[q]) :
           Q[q][i].fence \in fs => Q[q][i].fence \in excused
  PROVE  SemaphoresKept(Q, sem, stage', excused)
<1>1. ASSUME NEW s \in Semaphores
      PROVE  SemaphoreKept(Q, sem, s, stage'[s], excused)
  <2>1. PICK at, now : at = stage[s] /\ now = stage'[s]
    OBVIOUS
  <2>2. SemaphoreKept(Q, sem, s, at, {}) /\ now = IF at \in fs THEN "idle" ELSE at
    BY <2>1 DEF SemaphoresKept
  <2>3. SemaphoreKept(Q, sem, s, now, excused)
    BY <2>2, SemaphoreLearned
  <2>. QED
    BY <2>1, <2>3
<1>. QED
  BY <1>1 DEF SemaphoresKept

LEMMA LearnOrder ==
  ASSUME ReplayInv, OrderInv, NEW fs \in SUBSET Fences, NEW ws \in SUBSET Fences,
         fs \cap pendingFences \subseteq ws,
         Asking, CatchUpWith(AllFences(fs), AllFences(ws)), Learn(fs)
  PROVE  OrderInv'
<1>1. gpu' = gpu /\ UNCHANGED <<inRange, tracked, used>> /\ catchUp = NoWait
  BY DEF Asking, Call
<1>2. CASE ~(fs \subseteq gpu["original"].fences)
  BY <1>2, NothingLearned DEF Learn
<1>3. CASE fs \subseteq gpu["original"].fences
  <2>1. /\ stage' = [s \in Semaphores |-> IF stage[s] \in fs THEN "idle" ELSE stage[s]]
        /\ fs \subseteq Original.fences
    BY <1>3 DEF Learn, Original
  <2>2. /\ Original.queues \in [Timelines -> Seq(Submit)]
        /\ Replay.queues \in [Timelines -> Seq(Submit)]
    BY QueuesTyped DEF ReplayInv
  <2>3. ASSUME NEW s \in Semaphores
        PROVE  stage'[s] = "owed" <=> stage[s] = "owed"
    BY <2>1, StagesAssumption
  <2>4. SemaphoresKept(Original.queues, Original.semaphores, stage', {})
    <3>1. ASSUME NEW q \in Timelines, NEW i \in 1 .. Len(Original.queues[q]),
                 Original.queues[q][i].fence \in fs
          PROVE  Original.queues[q][i].fence \in {}
      BY <2>1, <3>1, NoFenceAssumption DEF ReplayInv, FencesOnce
    <3>. QED
      BY <2>1, <2>2, <3>1, SemaphoresLearned DEF OrderInv
  <2>5. ASSUME inRange
        PROVE  SemaphoresKept(Replay.queues, Replay.semaphores, stage', Awaited')
    <3>1. FencesKept(Replay.queues, Replay.fences, used)
      BY <2>5 DEF OrderInv
    <3>2. SemaphoresKept(Replay.queues, Replay.semaphores, stage, {})
      <4>1. Awaited = {}
        BY <1>1 DEF Awaited, NoWait
      <4>. QED
        BY <2>5, <4>1 DEF OrderInv
    <3>3. /\ Holds(AllFences(fs), "original")
          /\ Holds(AllFences(fs), "replay") <=> fs \subseteq Replay.fences
      BY <2>1, AllFencesHold
    <3>4. ASSUME NEW q \in Timelines, NEW i \in 1 .. Len(Replay.queues[q]),
                 Replay.queues[q][i].fence \in fs
          PROVE  Replay.queues[q][i].fence \in Awaited'
      <4>1. Replay.queues[q][i].fence \notin Replay.fences
        BY <3>1, <3>4, NoFenceAssumption DEF FencesKept
      <4>2. catchUp' = AllFences(ws)
        BY <2>5, <3>3, <3>4, <4>1 DEF CatchUpWith
      <4>3. Awaited' = ws
        BY <4>2, AllFencesHold DEF Awaited
      <4>4. fs \subseteq pendingFences
        BY <2>1, <2>5 DEF ReplayInv, FencesInUse, FencesFollowed
      <4>. QED
        BY <3>4, <4>3, <4>4
    <3>. QED
      BY <2>1, <2>2, <3>2, <3>4, SemaphoresLearned
  <2>. QED
    BY <1>1, <2>3, <2>4, <2>5, AskOrder
<1>. QED
  BY <1>2, <1>3

LEMMA AskedFencesOrder ==
  ASSUME ReplayInv, OrderInv, NEW fs \in SUBSET Fences,
         PollFences(fs) \/ PollAnyFence(fs) \/ WaitForFences(fs) \/ WaitForAnyFence(fs)
  PROVE  OrderInv'
<1>1. fs \cap pendingFences \in SUBSET Fences
  OBVIOUS
<1>2. CASE PollFences(fs)
  BY <1>1, <1>2, LearnOrder DEF PollFences
<1>3. CASE WaitForFences(fs)
  BY <1>3, LearnOrder DEF WaitForFences
<1>4. CASE PollAnyFence(fs) \/ WaitForAnyFence(fs)
  BY <1>4, NothingLearned DEF PollAnyFence, WaitForAnyFence
<1>. QED
  BY <1>2, <1>3, <1>4

LEMMA GetFenceStatusOrder ==
  ASSUME ReplayInv, OrderInv, NEW f \in Fences, GetFenceStatus(f)
  PROVE  OrderInv'
<1>1. {f} \in SUBSET Fences /\ {f} \cap pendingFences \in SUBSET Fences
  OBVIOUS
<1>. QED
  BY <1>1, LearnOrder DEF GetFenceStatus

LEMMA AskedValueOrder ==
  ASSUME OrderInv,
         \/ \E v \in Values : GetSemaphoreCounterValue(v) \/ WaitSemaphores(v)
         \/ \E e \in Events : GetEventStatus(e)
  PROVE  OrderInv'
<1>1. Asking /\ stage' = stage
  BY DEF GetSemaphoreCounterValue, WaitSemaphores, GetEventStatus
<1>. QED
  BY <1>1, NothingLearned

LEMMA CatchUpEndsOrder == ASSUME ReplayInv, OrderInv, CatchUpEnds PROVE OrderInv'
<1>1. /\ Holds(catchUp, "replay") /\ catchUp' = NoWait
      /\ UNCHANGED <<inRange, tracked, gpu, used, stage>>
  BY DEF CatchUpEnds, appVars
<1>2. Awaited' = {} /\ Awaited \subseteq Replay.fences
  BY <1>1 DEF Awaited, NoWait, Holds, Replay
<1>3. NoFence \notin Awaited
  BY <1>2, SidesTyped, NoFenceAssumption DEF ReplayInv
<1>4. ASSUME inRange
      PROVE  SemaphoresKept(Replay.queues, Replay.semaphores, stage, {})
  <2>1. ASSUME NEW q \in Timelines, NEW i \in 1 .. Len(Replay.queues[q])
        PROVE  Replay.queues[q][i].fence \notin Awaited
    BY <1>2, <1>3, <1>4 DEF OrderInv, FencesKept
  <2>2. ASSUME NEW s \in Semaphores
        PROVE  SemaphoreKept(Replay.queues, Replay.semaphores, s, stage[s], {})
    <3>1. SemaphoreKept(Replay.queues, Replay.semaphores, s, stage[s], Awaited)
      BY <1>4 DEF OrderInv, SemaphoresKept
    <3>. QED
      BY <2>1, <3>1, SemaphoreReached
  <2>. QED
    BY <2>2 DEF SemaphoresKept
<1>. QED
  BY <1>1, <1>2, <1>4, AskOrder DEF OrderInv
-----------------------------------------------------------------------------
\* An invalid call is not forgotten.
LEMMA InvalidStays == invalid /\ [Next]_vars => invalid'
<1>. SUFFICES ASSUME invalid, [Next]_vars
              PROVE  invalid'
  OBVIOUS
<1>1. CASE \E v \in Values \ {0} : SignalSemaphore(v)
  BY <1>1 DEF SignalSemaphore
<1>2. CASE UNCHANGED invalid
  BY <1>2
<1>3. CASE \/ \E q \in Queues, x \in Submits : QueueSubmit(q, x)
           \/ \E q \in Queues, f \in Fences : QueueBindSparse(q, f)
           \/ \E s \in Semaphores, f \in Fences \cup {NoFence} : AcquireNextImage(s, f)
           \/ \E q \in Queues, waits \in SUBSET Semaphores :
                QueuePresent(q, waits) \/ QueuePresentAndRestoreState(q, waits)
           \/ \E fs \in SUBSET Fences : ResetFences(fs)
           \/ \E e \in Events : SetEvent(e) \/ ResetEvent(e)
           \/ CatchUpEnds \/ UNCHANGED vars
           \/ \E side \in Sides, q \in Timelines : Perform(side, q)
  <2>1. UNCHANGED invalid
    BY <1>3 DEF QueueSubmit, QueueBindSparse, AcquireNextImage, QueuePresent,
                QueuePresentAndRestoreState, ResetFences, SetEvent, ResetEvent, CatchUpEnds,
                Perform, vars, replayVars
  <2>. QED
    BY <1>2, <2>1
<1>4. CASE \/ \E fs \in SUBSET Fences :
                PollFences(fs) \/ PollAnyFence(fs) \/ WaitForFences(fs) \/ WaitForAnyFence(fs)
           \/ \E f \in Fences : GetFenceStatus(f)
           \/ \E v \in Values : GetSemaphoreCounterValue(v) \/ WaitSemaphores(v)
           \/ \E e \in Events : GetEventStatus(e)
  <2>1. Asking
    BY <1>4 DEF PollFences, PollAnyFence, WaitForFences, WaitForAnyFence, GetFenceStatus,
                GetSemaphoreCounterValue, WaitSemaphores, GetEventStatus
  <2>. QED
    BY <1>2, <2>1 DEF Asking
<1>. QED
  BY <1>1, <1>3, <1>4 DEF Next

LEMMA OrderStep == ReplayInv /\ OrderInv /\ [Next]_vars /\ ~invalid' => OrderInv'
<1>. SUFFICES ASSUME ReplayInv, OrderInv, [Next]_vars, ~invalid'
              PROVE  OrderInv'
  OBVIOUS
<1>1. CASE \E q \in Queues, x \in Submits : QueueSubmit(q, x)
  BY <1>1, QueueSubmitOrder
<1>2. CASE \E q \in Queues, f \in Fences : QueueBindSparse(q, f)
  BY <1>2, QueueBindSparseOrder
<1>3. CASE \E s \in Semaphores, f \in Fences \cup {NoFence} : AcquireNextImage(s, f)
  BY <1>3, AcquireNextImageOrder
<1>4. CASE \E q \in Queues, waits \in SUBSET Semaphores :
             QueuePresent(q, waits) \/ QueuePresentAndRestoreState(q, waits)
  BY <1>4, QueuePresentOrder, RestoreOrder
<1>5. CASE \E fs \in SUBSET Fences \ {{}} :
             \/ ResetFences(fs)
             \/ PollFences(fs) \/ PollAnyFence(fs) \/ WaitForFences(fs) \/ WaitForAnyFence(fs)
  BY <1>5, ResetFencesOrder, AskedFencesOrder
<1>6. CASE \E f \in Fences : GetFenceStatus(f)
  BY <1>6, GetFenceStatusOrder
<1>7. CASE \E v \in Values \ {0} :
             SignalSemaphore(v) \/ GetSemaphoreCounterValue(v) \/ WaitSemaphores(v)
  BY <1>7, SignalSemaphoreOrder, AskedValueOrder
<1>8. CASE \E e \in Events : SetEvent(e) \/ ResetEvent(e) \/ GetEventStatus(e)
  BY <1>8, EventOrder, AskedValueOrder
<1>9. CASE CatchUpEnds
  BY <1>9, CatchUpEndsOrder
<1>10. CASE \E side \in Sides, q \in Timelines : Perform(side, q)
  BY <1>10, PerformOriginalOrder, PerformReplayOrder DEF Sides
<1>11. CASE UNCHANGED vars
  <2>1. UNCHANGED <<inRange, tracked, gpu, used, stage, catchUp>>
    BY <1>11 DEF vars, appVars, replayVars
  <2>2. Awaited' = Awaited
    BY <2>1 DEF Awaited
  <2>. QED
    BY <2>1, <2>2, AskOrder DEF OrderInv
<1>. QED
  BY <1>1, <1>2, <1>3, <1>4, <1>5, <1>6, <1>7, <1>8, <1>9, <1>10, <1>11 DEF Next

LEMMA OrderAlways == Spec => [](invalid \/ OrderInv)
<1>1. ReplayInv /\ (invalid \/ OrderInv) /\ [Next]_vars => (invalid \/ OrderInv)'
  BY OrderStep, InvalidStays
<1>2. Init => invalid \/ OrderInv
  BY OrderInit
<1>. QED
  BY <1>1, <1>2, InvAlways, PTL DEF Spec

\* The replay is at rest only when it has done all that the original has.
LEMMA RestIsCaughtUp == TypeOK /\ (invalid \/ OrderInv) => ReplayDoesNotStarve
<1>. SUFFICES ASSUME TypeOK, OrderInv, inRange, AtRest("replay"), NEW p \in Timelines,
                     ~(Len(gpu["replay"].queues[p]) <= Len(gpu["original"].queues[p]))
              PROVE  FALSE
  BY DEF ReplayDoesNotStarve
<1>1. /\ Original.queues \in [Timelines -> Seq(Submit)]
      /\ Replay.queues \in [Timelines -> Seq(Submit)]
  BY QueuesTyped
<1>2. Lag(Original.queues, Replay.queues, p) > 0
  <2>1. /\ Len(Original.queues[p]) \in Nat /\ Len(Replay.queues[p]) \in Nat
        /\ Lag(Original.queues, Replay.queues, p) = Len(Replay.queues[p]) - Len(Original.queues[p])
    BY <1>1, LagType
  <2>2. ~(Len(Replay.queues[p]) <= Len(Original.queues[p]))
    BY DEF Original, Replay
  <2>3. PICK m, n : m = Len(Original.queues[p]) /\ n = Len(Replay.queues[p])
    OBVIOUS
  <2>4. m \in Nat /\ n \in Nat /\ ~(n <= m) /\ Lag(Original.queues, Replay.queues, p) = n - m
    BY <2>1, <2>2, <2>3
  <2>5. n - m > 0
    BY ONLY <2>4
  <2>. QED
    BY ONLY <2>4, <2>5
<1>3. PICK q \in Timelines :
        /\ Replay.queues[q] # <<>>
        /\ Head(Replay.queues[q]).waits \subseteq Replay.semaphores
        /\ Head(Replay.queues[q]).signals
             \cap (Replay.semaphores \ Head(Replay.queues[q]).waits) = {}
        /\ Replay.counter >= Head(Replay.queues[q]).reach
  <2>1. /\ SemaphoresKept(Replay.queues, Replay.semaphores, stage, Awaited)
        /\ Behind(Original.queues, Original.counter, Replay.queues, Replay.semaphores, Replay.counter)
    BY DEF OrderInv
  <2>. QED
    BY <1>1, <1>2, <2>1, NothingHeldBack
<1>4. MayPerform("replay", q)
  BY <1>3 DEF MayPerform, Replay
<1>. QED
  BY <1>4 DEF AtRest

(***************************************************************************)
(* Nothing is stuck in the replay that is not stuck in the original: the   *)
(* semaphores and the value of the timeline semaphore that the restore     *)
(* leaves are what the submits in the range still find in the original, so *)
(* the replay can perform, in the order in which the original did, all     *)
(* that the original has performed of the range, as long as the replay has *)
(* made no call that Vulkan forbids.                                       *)
(***************************************************************************)
THEOREM ReplayNeverStarves == Spec => []ReplayDoesNotStarve
<1>1. ReplayInv => TypeOK
  BY DEF ReplayInv
<1>. QED
  BY <1>1, RestIsCaughtUp, InvAlways, OrderAlways, PTL
=============================================================================
