---------------------- MODULE GpuExecutionTrackerProofs ----------------------
(***************************************************************************)
(* Proofs about GpuExecutionTracker, for every number of queues, fences    *)
(* and values: the tracker is well typed, and between two calls it holds   *)
(* back nothing that could be done.                                        *)
(*                                                                         *)
(* The second is not inductive: while FenceSignal is in its loop, queues   *)
(* that have not been scanned for the current signal may start with an     *)
(* event that could be done.  The invariant says where such a queue can    *)
(* be: among the unscanned ones, and there are none when no signal is      *)
(* pending.                                                                *)
(***************************************************************************)
EXTENDS GpuExecutionTracker, SequenceTheorems, TLAPS

ScannedAreHeld == \A q \in Queues : q \notin unscanned => IsHeld(q)
LoopEnds == signaled = <<>> => unscanned = {}

TrackerInv == TypeOK /\ ScannedAreHeld /\ LoopEnds

\* What the loop takes from a queue is a signal of a fence or an execution of a work.
LEMMA TakenTyped ==
  ASSUME NEW e \in Event
  PROVE  /\ e.kind = "signal" => e.fence \in Fences /\ e.value \in Values
         /\ e.kind = "execute" => e.work \in Works
BY DEF Event, FenceEvent

\* Appending to a sequence that is not empty leaves its head in place.
LEMMA HeadStays ==
  ASSUME NEW S, NEW s \in Seq(S), NEW e \in S, s # <<>>
  PROVE  Append(s, e) # <<>> /\ Head(Append(s, e)) = Head(s)
OBVIOUS

\* A sequence with more than one element has a second one, and its tail is not empty.
LEMMA SecondOfMany ==
  ASSUME NEW S, NEW s \in Seq(S), s # <<>>, Len(s) # 1
  PROVE  s[2] \in S /\ Tail(s) \in Seq(S) /\ Tail(s) # <<>>
<1>1. Len(s) \in Nat /\ Len(s) # 0
  BY EmptySeq
<1>2. Tail(s) \in Seq(S)
  BY HeadTailProperties
<1>3. Len(Tail(s)) # 0
  BY <1>1, HeadTailProperties
<1>4. Tail(s) # <<>>
  <2>1. Len(<<>>) = 0
    BY EmptySeq
  <2> QED
    BY <1>3, <2>1, Zenon
<1>5. 2 \in 1 .. Len(s)
  <2>1. \A n \in Nat : n # 0 /\ n # 1 => 2 \in 1 .. n
    OBVIOUS
  <2> QED
    BY <1>1, <2>1, Zenon
<1> QED
  BY <1>2, <1>4, <1>5

LEMMA InitTracker == Init => TrackerInv
<1> SUFFICES ASSUME Init PROVE TrackerInv
  OBVIOUS
<1>1. 0 \in Values
  BY MaxValueAssumption DEF Values
<1>2. TypeOK
  BY <1>1 DEF Init, TypeOK, Event, Executable, Signals
<1>3. ScannedAreHeld
  BY DEF Init, ScannedAreHeld, IsHeld
<1>4. LoopEnds
  BY DEF Init, LoopEnds
<1> QED
  BY <1>2, <1>3, <1>4 DEF TrackerInv

\* A signal starts a scan of all queues.
LEMMA BeginKeeps ==
  ASSUME TrackerInv, NEW f \in Fences, NEW v \in Values, BeginFenceSignal(f, v),
         UNCHANGED <<queueEvents, readyExecutables>>
  PROVE  TrackerInv'
<1> USE DEF BeginFenceSignal
<1>1. [fence |-> f, value |-> v] \in Signals
  BY DEF Signals
<1>2. TypeOK'
  BY <1>1 DEF TrackerInv, TypeOK
<1>3. ScannedAreHeld'
  BY DEF ScannedAreHeld
<1>4. LoopEnds'
  BY DEF LoopEnds
<1> QED
  BY <1>2, <1>3, <1>4 DEF TrackerInv

\* An event is held if it is appended to a queue that is waiting, or is an unsatisfied wait.
LEMMA AppendKeeps ==
  ASSUME TrackerInv, NEW q \in Queues, NEW e \in Event,
         queueEvents' = [queueEvents EXCEPT ![q] = Append(@, e)],
         UNCHANGED <<signaledFences, readyExecutables, loopVars>>,
         queueEvents[q] # <<>> \/ (IsWait(e) /\ ~Satisfied(e, signaledFences))
  PROVE  TrackerInv'
<1> USE DEF loopVars
<1>1. TypeOK'
  BY DEF TrackerInv, TypeOK
<1>2. ASSUME NEW p \in Queues, p \notin unscanned'
      PROVE  IsHeld(p)'
  <2>1. IsHeld(p) /\ queueEvents[p] \in Seq(Event)
    BY <1>2 DEF TrackerInv, ScannedAreHeld, TypeOK
  <2>2. CASE p # q
    BY <2>1, <2>2 DEF IsHeld, TrackerInv, TypeOK, Satisfied
  <2>3. CASE p = q /\ queueEvents[q] # <<>>
    BY <2>1, <2>3, HeadStays DEF IsHeld, TrackerInv, TypeOK, Satisfied
  <2>4. CASE p = q /\ queueEvents[q] = <<>>
    <3>1. queueEvents'[p] = <<e>>
      BY <2>4 DEF TrackerInv, TypeOK
    <3>2. Head(queueEvents'[p]) = e
      BY <3>1
    <3> QED
      BY <2>4, <3>2 DEF IsHeld, Satisfied
  <2> QED
    BY <2>2, <2>3, <2>4
<1>3. LoopEnds'
  BY DEF TrackerInv, LoopEnds
<1> QED
  BY <1>1, <1>2, <1>3 DEF TrackerInv, ScannedAreHeld

LEMMA WaitKeeps ==
  ASSUME TrackerInv, NEW q \in Queues, NEW f \in Fences, NEW v \in Values,
         CommandQueueWait(q, f, v)
  PROVE  TrackerInv'
<1> USE DEF CommandQueueWait
<1>1. CASE signaledFences[f] >= v
  BY <1>1 DEF TrackerInv, TypeOK, ScannedAreHeld, LoopEnds, IsHeld, Satisfied, loopVars
<1>2. CASE ~(signaledFences[f] >= v)
  <2>1. IsWait(Wait(f, v)) /\ ~Satisfied(Wait(f, v), signaledFences)
    BY <1>2 DEF IsWait, Wait, Satisfied
  <2>2. Wait(f, v) \in Event
    BY DEF Wait, Event, FenceEvent
  <2> QED
    BY <1>2, <2>1, <2>2, AppendKeeps
<1> QED
  BY <1>1, <1>2

LEMMA SignalKeeps ==
  ASSUME TrackerInv, NEW q \in Queues, NEW f \in Fences, NEW v \in Values,
         CommandQueueSignal(q, f, v)
  PROVE  TrackerInv'
<1>1. CASE IsCommandQueueWaiting(q)
  <2>1. Signal(f, v) \in Event
    BY DEF Signal, Event, FenceEvent
  <2> QED
    BY <1>1, <2>1, AppendKeeps DEF CommandQueueSignal, IsCommandQueueWaiting
<1>2. CASE ~IsCommandQueueWaiting(q)
  BY <1>2, BeginKeeps DEF CommandQueueSignal
<1> QED
  BY <1>1, <1>2

LEMMA ExecuteKeeps ==
  ASSUME TrackerInv, NEW q \in Queues, NEW w \in Works, ExecuteOn(q, w, w)
  PROVE  TrackerInv'
<1>1. CASE IsCommandQueueWaiting(q)
  <2>1. Execute(w) \in Event
    BY DEF Execute, Event
  <2> QED
    BY <1>1, <2>1, AppendKeeps DEF ExecuteOn, IsCommandQueueWaiting
<1>2. CASE ~IsCommandQueueWaiting(q)
  <2>1. [queue |-> q, work |-> w] \in Executable
    BY DEF Executable
  <2>2. readyExecutables \in Seq(Executable)
    BY DEF TrackerInv, TypeOK
  <2>3. readyExecutables' \in Seq(Executable)
    BY <1>2, <2>1, <2>2 DEF ExecuteOn
  <2>4. UNCHANGED <<queueEvents, signaledFences, signaled, unscanned, scanning>>
    BY <1>2 DEF ExecuteOn, loopVars
  <2>5. TypeOK'
    BY <2>3, <2>4 DEF TrackerInv, TypeOK
  <2> QED
    BY <2>4, <2>5 DEF TrackerInv, ScannedAreHeld, LoopEnds, IsHeld, Satisfied
<1> QED
  BY <1>1, <1>2

\* A queue that loses an event is still to be scanned, and so a signal is still pending.
LEMMA TakeKeeps ==
  ASSUME TrackerInv, NEW q \in Queues, TakeEvent(q)
  PROVE  TrackerInv'
<1> DEFINE e == Head(queueEvents[q])
<1>1. queueEvents[q] # <<>> /\ q \in unscanned
  BY DEF TakeEvent, InScan, IsHeld
<1>2. e \in Event /\ Tail(queueEvents[q]) \in Seq(Event)
  BY <1>1 DEF TrackerInv, TypeOK
<1>3. readyExecutables' \in Seq(Executable)
  <2>1. CASE e.kind = "execute"
    <3>1. [queue |-> q, work |-> e.work] \in Executable
      BY <1>2, <2>1, TakenTyped DEF Executable
    <3> QED
      BY <2>1, <3>1 DEF TakeEvent, TrackerInv, TypeOK
  <2> QED
    BY <2>1 DEF TakeEvent, TrackerInv, TypeOK
<1>4. signaled' \in Seq(Signals) /\ signaled' # <<>>
  <2>1. signaled \in Seq(Signals) /\ signaled # <<>>
    BY <1>1 DEF TrackerInv, TypeOK, LoopEnds
  <2>2. CASE e.kind = "signal"
    <3>1. [fence |-> e.fence, value |-> e.value] \in Signals
      BY <1>2, <2>2, TakenTyped DEF Signals
    <3> QED
      BY <2>1, <2>2, <3>1 DEF TakeEvent
  <2> QED
    BY <2>1, <2>2 DEF TakeEvent
<1>5. TypeOK'
  BY <1>2, <1>3, <1>4 DEF TakeEvent, TrackerInv, TypeOK
<1>6. ASSUME NEW p \in Queues, p \notin unscanned'
      PROVE  IsHeld(p)'
  <2>1. p # q /\ IsHeld(p)
    BY <1>1, <1>6 DEF TakeEvent, TrackerInv, ScannedAreHeld
  <2> QED
    BY <2>1 DEF TakeEvent, IsHeld, Satisfied, TrackerInv, TypeOK
<1>7. LoopEnds'
  BY <1>4 DEF LoopEnds
<1> QED
  BY <1>5, <1>6, <1>7 DEF TrackerInv, ScannedAreHeld

LEMMA LeaveKeeps ==
  ASSUME TrackerInv, NEW q \in Queues, LeaveQueue(q)
  PROVE  TrackerInv'
<1> USE DEF LeaveQueue
<1>1. TypeOK'
  BY DEF TrackerInv, TypeOK
<1>2. ScannedAreHeld'
  BY DEF TrackerInv, ScannedAreHeld, IsHeld, Satisfied
<1>3. LoopEnds'
  BY DEF TrackerInv, LoopEnds
<1> QED
  BY <1>1, <1>2, <1>3 DEF TrackerInv

\* The next signal starts a scan of all queues; the loop ends with every queue scanned.
LEMMA NextSignalKeeps ==
  ASSUME TrackerInv, NextSignal
  PROVE  TrackerInv'
<1>1. signaled \in Seq(Signals) /\ signaled # <<>> /\ unscanned = {}
  BY DEF NextSignal, Busy, TrackerInv, TypeOK
<1>2. CASE Len(signaled) = 1
  <2>1. signaled' \in Seq(Signals)
    BY <1>1 DEF NextSignal
  <2>2. TypeOK'
    BY <1>2, <2>1 DEF NextSignal, TrackerInv, TypeOK
  <2> QED
    BY <1>1, <1>2, <2>2 DEF NextSignal, TrackerInv, ScannedAreHeld, LoopEnds, IsHeld, Satisfied
<1>3. CASE Len(signaled) # 1
  <2>1. signaled' \in Seq(Signals) /\ signaled' # <<>> /\ signaled[2] \in Signals
    BY <1>1, <1>3, SecondOfMany DEF NextSignal
  <2>2. unscanned' = Queues
    BY <1>3 DEF NextSignal
  <2>3. TypeOK'
    BY <1>3, <2>1, <2>2 DEF NextSignal, TrackerInv, TypeOK, Signals
  <2> QED
    BY <2>1, <2>2, <2>3 DEF TrackerInv, ScannedAreHeld, LoopEnds
<1> QED
  BY <1>2, <1>3

LEMMA StepTracker == TrackerInv /\ [TrackerNext]_trackerVars => TrackerInv'
<1> SUFFICES ASSUME TrackerInv, [TrackerNext]_trackerVars PROVE TrackerInv'
  OBVIOUS
<1>1. ASSUME NEW f \in Fences, NEW v \in Values, FenceSignal(f, v) PROVE TrackerInv'
  BY <1>1, BeginKeeps DEF FenceSignal
<1>2. ASSUME NEW q \in Queues, NEW f \in Fences, NEW v \in Values, CommandQueueWait(q, f, v)
      PROVE  TrackerInv'
  BY <1>2, WaitKeeps
<1>3. ASSUME NEW q \in Queues, NEW f \in Fences, NEW v \in Values, CommandQueueSignal(q, f, v)
      PROVE  TrackerInv'
  BY <1>3, SignalKeeps
<1>4. ASSUME NEW q \in Queues, NEW w \in Works, ExecuteOn(q, w, w) PROVE TrackerInv'
  BY <1>4, ExecuteKeeps
<1>5. CASE ClearReadyExecutables
  BY <1>5 DEF ClearReadyExecutables, TrackerInv, TypeOK, ScannedAreHeld, LoopEnds, IsHeld,
              Satisfied, loopVars
<1>6. ASSUME NEW q \in Queues, TakeEvent(q) PROVE TrackerInv'
  BY <1>6, TakeKeeps
<1>7. ASSUME NEW q \in Queues, LeaveQueue(q) PROVE TrackerInv'
  BY <1>7, LeaveKeeps
<1>8. CASE NextSignal
  BY <1>8, NextSignalKeeps
<1>9. CASE UNCHANGED trackerVars
  BY <1>9 DEF trackerVars, loopVars, TrackerInv, TypeOK, ScannedAreHeld, LoopEnds, IsHeld,
              Satisfied
<1> QED
  BY <1>1, <1>2, <1>3, <1>4, <1>5, <1>6, <1>7, <1>8, <1>9 DEF TrackerNext, FenceSignalLoop

\* Queues and ready executions hold events of the fences and works, also while
\* FenceSignal takes them apart (gpuExecutionTracker.cpp:52).
THEOREM TrackerTypeCorrect == TrackerSpec => []TypeOK
<1>1. TrackerInv => TypeOK
  BY DEF TrackerInv
<1> QED
  BY <1>1, InitTracker, StepTracker, PTL DEF TrackerSpec

\* Between two calls every queue is empty or at a wait whose fence has not reached the
\* value, however many signals FenceSignal found on its way and in whatever order it
\* went through the queues.
THEOREM TrackerHoldsNothingBack == TrackerSpec => []NothingHeldBack
<1>1. TrackerInv => NothingHeldBack
  BY DEF TrackerInv, ScannedAreHeld, LoopEnds, NothingHeldBack, Busy
<1> QED
  BY <1>1, InitTracker, StepTracker, PTL DEF TrackerSpec
=============================================================================
