------------------------------ MODULE GpuReplay ------------------------------
(***************************************************************************)
(* The player on a GPU (DirectX/player/replayCustomizationLayer.cpp,       *)
(* DirectX/layers/subcapture/gpuExecutionFlusher.cpp): every call is made  *)
(* on the GPU, which performs it later, and followed by a tracker, which   *)
(* tells the player which fence values it can wait for and which queues it *)
(* can wait for until they are idle.                                       *)
(*                                                                         *)
(* The GPU is external: its queues perform their events one by one, each   *)
(* at its own speed, and passing a wait is a step of its own.  The player  *)
(* layers have a tracker each, which see the same calls; those that are    *)
(* given no executions agree with the others on fences and waits, since an *)
(* execution only ever stands behind a wait.  The loop of a tracker        *)
(* touches nothing of the GPU, so the GPU takes its steps between calls.   *)
(*                                                                         *)
(* The stream is that of an application that has no races on its fences:   *)
(* a fence is not signalled from two places at a time, and is lowered only *)
(* when nobody waits for it.                                               *)
(***************************************************************************)
EXTENDS CommandListExecutionService

CONSTANTS Paging,       \* the work that EnqueueMakeResident leaves to the system
          CPU,          \* the application itself
          Signallings,  \* from where the application signals which fence with which value
          MaxCalls      \* bound on the calls of the stream

ASSUME PagingAssumption == Paging \notin Queues /\ CPU \notin Queues \cup {Paging}
ASSUME SignallingsAssumption ==
  Signallings \subseteq (Queues \cup {Paging, CPU}) \X Fences \X Values
ASSUME MaxCallsAssumption == MaxCalls \in Nat

VARIABLES
  gpuTodo, gpuFences,   \* the GPU
  calls,                \* the number of calls made
  awaited,              \* the fence and the values that WaitForFence polls for, if any
  commandQueues,        \* m_CommandQueues: the queues that have executed command lists
  flushing              \* the queues that FlushCommandQueues has still to wait for

gpuVars == <<gpuTodo, gpuFences>>
playerVars == <<calls, awaited, commandQueues, flushing>>
vars == <<trackerVars, serviceVars, gpuVars, playerVars>>

NoWait == [values |-> {}]
Timelines == Queues \cup {Paging}

ReplayTypeOK ==
  /\ TypeOK /\ ServiceTypeOK
  /\ issued \in [Queues -> Seq(Event)]
  /\ gpuTodo \in [Timelines -> Seq(Event)]
  /\ gpuFences \in [Fences -> Values]
  /\ calls \in 0..MaxCalls
  /\ awaited \in [fence : Fences, values : SUBSET Values] \cup {NoWait}
  /\ commandQueues \subseteq Queues /\ flushing \subseteq commandQueues

ReplayInit ==
  /\ Init /\ ServiceInit
  /\ gpuTodo = [q \in Timelines |-> <<>>]
  /\ gpuFences = [f \in Fences |-> 0]
  /\ calls = 0 /\ awaited = NoWait /\ commandQueues = {} /\ flushing = {}

\* The player is between two calls.
Ready == Idle /\ awaited = NoWait /\ flushing = {}

Call ==
  /\ Ready
  /\ calls < MaxCalls /\ calls' = calls + 1
  /\ UNCHANGED <<awaited, flushing>>
-----------------------------------------------------------------------------
(***************************************************************************)
(* The GPU.                                                                *)
(***************************************************************************)
GpuSubmit(q, e) == gpuTodo' = [gpuTodo EXCEPT ![q] = Append(@, e)] /\ UNCHANGED gpuFences

GpuMayPerform(q) ==
  gpuTodo[q] # <<>> /\ (IsWait(Head(gpuTodo[q])) => Satisfied(Head(gpuTodo[q]), gpuFences))

GpuPerform(q) ==
  /\ Idle
  /\ GpuMayPerform(q)
  /\ gpuFences' = AfterSignal(Head(gpuTodo[q]), gpuFences)
  /\ gpuTodo' = [gpuTodo EXCEPT ![q] = Tail(@)]
  /\ UNCHANGED <<trackerVars, serviceVars, playerVars>>

Pending(kind, f) ==
  {at \in {<<q, i>> : q \in Timelines, i \in 1..MaxCalls} :
      /\ at[2] \in DOMAIN gpuTodo[at[1]]
      /\ gpuTodo[at[1]][at[2]].kind = kind
      /\ gpuTodo[at[1]][at[2]].fence = f}

PendingValues(f) == {gpuTodo[at[1]][at[2]].value : at \in Pending("signal", f)}

\* The application signals a fence from one place at a time, and lowers it only when
\* nothing is left to be done with it.
MaySignal(from, f, v) ==
  /\ <<from, f, v>> \in Signallings
  /\ \A at \in Pending("signal", f) : at[1] = from
  /\ \/ \A u \in PendingValues(f) \cup {gpuFences[f]} : v >= u
     \/ Pending("signal", f) = {} /\ Pending("wait", f) = {}

\* It waits for a value that somebody signals, and not while the fence is being lowered.
MayWait(f, v) ==
  /\ \E from \in Timelines \cup {CPU} : <<from, f, v>> \in Signallings
  /\ \A u \in PendingValues(f) : u >= gpuFences[f]
-----------------------------------------------------------------------------
(***************************************************************************)
(* The calls of the stream.                                                *)
(***************************************************************************)
ReplayWait(q, f, v) ==
  /\ Call /\ MayWait(f, v)
  /\ GpuSubmit(q, Wait(f, v))
  /\ CommandQueueWait(q, f, v)
  /\ UNCHANGED <<serviceVars, commandQueues>>

ReplaySignal(q, f, v) ==
  /\ Call /\ MaySignal(q, f, v)
  /\ GpuSubmit(q, Signal(f, v))
  /\ CommandQueueSignal(q, f, v)
  /\ UNCHANGED <<serviceVars, commandQueues>>

\* ID3D12Fence::Signal takes effect at once.
ReplayFenceSignal(f, v) ==
  /\ Call /\ MaySignal(CPU, f, v)
  /\ gpuFences' = [gpuFences EXCEPT ![f] = v]
  /\ FenceSignal(f, v)
  /\ UNCHANGED <<gpuTodo, serviceVars, commandQueues>>

\* EnqueueMakeResident signals its fence when the memory is there.
ReplayMakeResident(f, v) ==
  /\ Call /\ MaySignal(Paging, f, v)
  /\ GpuSubmit(Paging, Signal(f, v))
  /\ FenceSignal(f, v)
  /\ UNCHANGED <<serviceVars, commandQueues>>

ReplayExecute(q, lists) ==
  /\ Call
  /\ GpuSubmit(q, Execute(WorkOf(lists, recorded)))
  /\ ExecuteCommandLists(q, lists)
  /\ commandQueues' = commandQueues \cup {q}

ReplayRecord(l) ==
  /\ Ready
  /\ RecordCommandList(l)
  /\ UNCHANGED <<gpuVars, playerVars>>

Serialize ==
  /\ ExecuteReadyExecutables
  /\ UNCHANGED <<gpuVars, playerVars>>

ContinueFenceSignal ==
  /\ FenceSignalLoop
  /\ UNCHANGED <<serviceVars, gpuVars, playerVars>>
-----------------------------------------------------------------------------
(***************************************************************************)
(* The waits of the player.                                                *)
(***************************************************************************)
\* Fault: the value must be hit, although the fence is going to have a higher one.
FaultAwaitedValues(f, v) == IF signaledFences[f] >= v THEN {v} ELSE Values
\* The values that end WaitForFenceNonIncremental: at once, if the tracker says that the
\* value is not reached.
AwaitedValues(f, v) ==
  IF signaledFences[f] = v THEN {v}
  ELSE IF signaledFences[f] > v THEN {u \in Values : u >= v}
  ELSE Values

\* Without a deadline, as with infiniteWaitForFence.  A wait that is over when it begins
\* changes nothing.
WaitForFence(f, v) ==
  /\ Ready
  /\ gpuFences[f] \notin AwaitedValues(f, v)
  /\ awaited' = [fence |-> f, values |-> AwaitedValues(f, v)]
  /\ UNCHANGED <<trackerVars, serviceVars, gpuVars, calls, commandQueues, flushing>>

FenceReached ==
  /\ awaited # NoWait
  /\ gpuFences[awaited.fence] \in awaited.values
  /\ awaited' = NoWait
  /\ UNCHANGED <<trackerVars, serviceVars, gpuVars, calls, commandQueues, flushing>>

\* Fault: queues are flushed that have no fence of their own.
FaultFlushCommandQueues ==
  /\ Ready
  /\ flushing' = {q \in Queues : ~IsCommandQueueWaiting(q)}
  /\ UNCHANGED <<trackerVars, serviceVars, gpuVars, calls, awaited, commandQueues>>
\* FlushCommandQueues signals a fence of its own on every queue that has executed command
\* lists and that the tracker does not hold for waiting, and waits for it.
FlushCommandQueues ==
  /\ Ready
  /\ flushing' = {q \in commandQueues : ~IsCommandQueueWaiting(q)}
  /\ UNCHANGED <<trackerVars, serviceVars, gpuVars, calls, awaited, commandQueues>>

QueueFlushed(q) ==
  /\ q \in flushing
  /\ gpuTodo[q] = <<>>
  /\ flushing' = flushing \ {q}
  /\ UNCHANGED <<trackerVars, serviceVars, gpuVars, calls, awaited, commandQueues>>

PlayerGoesOn ==
  \/ ContinueFenceSignal
  \/ Serialize
  \/ FenceReached
  \/ \E q \in Queues : QueueFlushed(q)

Next ==
  \/ \E q \in Queues, f \in Fences, v \in Values \ {0} : ReplayWait(q, f, v)
  \/ \E q \in Queues, f \in Fences, v \in Values : ReplaySignal(q, f, v)
  \/ \E f \in Fences, v \in Values :
        ReplayFenceSignal(f, v) \/ ReplayMakeResident(f, v) \/ WaitForFence(f, v)
  \/ \E q \in Queues, lists \in Submission : ReplayExecute(q, lists)
  \/ \E l \in Lists : ReplayRecord(l)
  \/ FlushCommandQueues
  \/ PlayerGoesOn
  \/ \E q \in Timelines : GpuPerform(q)

Spec == ReplayInit /\ [][Next]_vars

\* The player runs, and the GPU performs what it can.
FairSpec == Spec /\ WF_vars(PlayerGoesOn) /\ \A q \in Timelines : WF_vars(GpuPerform(q))
-----------------------------------------------------------------------------
\* When the GPU has come to rest, it has done what the tracker says: the fences have
\* the values and the queues have the same work left (gpuExecutionTracker.cpp:52).
Work(events) == {i \in DOMAIN events : ~IsWait(events[i])}
SameWork(events, others) ==
  \E at \in [Work(events) -> Work(others)] :
    /\ \A i \in Work(events) : others[at[i]] = events[i]
    /\ \A i, j \in Work(events) : i < j => at[i] < at[j]
    /\ \A k \in Work(others) : \E i \in Work(events) : at[i] = k
GpuSettlesAsTracked ==
  (Idle /\ \A q \in Timelines : ~GpuMayPerform(q)) =>
    /\ gpuFences = signaledFences
    /\ \A q \in Queues : SameWork(queueEvents[q], gpuTodo[q])

\* Every call of the player returns: it waits neither for a fence value that the GPU
\* does not come to, nor for a queue that does not become idle
\* (replayCustomizationLayer.cpp:2098, gpuExecutionFlusher.cpp:43).
CallsReturn == ~Ready ~> Ready
=============================================================================
