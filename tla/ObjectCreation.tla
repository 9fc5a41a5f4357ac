---------------------------- MODULE ObjectCreation ----------------------------
(***************************************************************************)
(* Deferred creation of pipeline states and state objects by the DirectX   *)
(* player: MultithreadedObjectCreationService, with the layers             *)
(* MultithreadedObjectCreationLayer, which schedules creations, and        *)
(* MultithreadedObjectAwaitLayer, which waits for them.                    *)
(*                                                                         *)
(* The player replays the recorded calls on one thread.  The creation of   *)
(* an object is left to a pool of workers, and the object is waited for    *)
(* when a call needs it; the calls of AddRef and Release that precede are  *)
(* counted and applied to the object once it exists.  An object that the   *)
(* creation uses must not be released for good before.                     *)
(*                                                                         *)
(* One action is one critical section of m_Mutex, the work between two of  *)
(* them, or the part of a replayed call that touches no shared state.      *)
(***************************************************************************)
EXTENDS Integers, FiniteSets, SequencesExt

CONSTANTS Workers,     \* the worker threads
          Providers,   \* objects created at once: devices, root signatures
          Objects,     \* objects whose creation is deferred
          Uses,        \* the objects that the creation of each of them uses
          MayFail,     \* those whose creation the driver may refuse
          MaxRef       \* bound: references held by the application

ASSUME UsesAssumption == Uses \in [Objects -> SUBSET (Objects \cup Providers)]
ASSUME MayFailAssumption == MayFail \subseteq Objects
ASSUME MaxRefAssumption == MaxRef \in Nat \ {0}
ASSUME ObjectsAssumption == Objects \cap Providers = {}

VARIABLES
  captured,        \* the references the recorded application holds
  issued,          \* the objects whose creation has been replayed
  dependencies,    \* m_Dependencies: provider -> consumers
  tasks,           \* m_Tasks
  tasksQueue,      \* m_TasksQueue
  started,         \* the tasks with a valid StartedTask
  refCounts,       \* m_RefCounts
  done,            \* m_Done
  worker, job,     \* where each worker is, and the task it has taken
  player,          \* where the replaying thread is
  command,         \* the call it replays
  toComplete,      \* the objects the call has to wait for
  current,         \* the one it is waiting for
  objects,         \* PlayerManager::m_Objects
  preCollected,    \* m_PreCollectedOutputs
  count,           \* the references of the real objects
  output,          \* what each creation returned
  creations        \* history: how often each object was created

All == Objects \cup Providers
None == "none"

ASSUME NoneAssumption == None \notin All   \* no object has the key 0

replayVars == <<captured, issued, dependencies, command>>
serviceVars == <<tasks, tasksQueue, started, refCounts, done>>
workerVars == <<worker, job>>
collectVars == <<toComplete, current, objects, preCollected>>
createVars == <<count, output, creations>>
vars == <<replayVars, serviceVars, workerVars, player, collectVars, createVars>>

Ops == {"none", "create", "addRef", "release", "lastRelease", "use", "restoreEnd"}

TypeOK ==
  /\ captured \in [All -> 0..MaxRef]
  /\ issued \subseteq Objects
  /\ dependencies \in [All -> SUBSET Objects]
  /\ tasks \subseteq Objects /\ tasksQueue \in Seq(Objects) /\ started \subseteq Objects
  /\ refCounts \in [Objects -> 0..MaxRef - 1]
  /\ done \in BOOLEAN
  /\ worker \in [Workers -> {"check", "wait", "create", "count", "exited"}]
  /\ job \in [Workers -> Objects \cup {None}]
  /\ player \in {"ready", "complete", "await", "create", "count", "join", "exited"}
  /\ command \in [op : Ops, key : All \cup {None}]
  /\ toComplete \subseteq Objects /\ current \in Objects \cup {None}
  /\ objects \subseteq All /\ preCollected \subseteq Objects
  /\ count \in [All -> Nat]
  /\ output \in [Objects -> {"none", "ok", "failed"}]
  /\ creations \in [Objects -> Nat]

NoCommand == [op |-> "none", key |-> None]

Init ==
  /\ captured = [k \in All |-> IF k \in Providers THEN 1 ELSE 0]
  /\ issued = {}
  /\ dependencies = [k \in All |-> {}]
  /\ tasks = {} /\ tasksQueue = <<>> /\ started = {}
  /\ refCounts = [k \in Objects |-> 0]
  /\ done = FALSE
  /\ worker = [w \in Workers |-> "check"] /\ job = [w \in Workers |-> None]
  /\ player = "ready" /\ command = NoCommand
  /\ toComplete = {} /\ current = None
  /\ objects = Providers /\ preCollected = {}
  /\ count = [k \in All |-> IF k \in Providers THEN 1 ELSE 0]
  /\ output = [k \in Objects |-> "none"]
  /\ creations = [k \in Objects |-> 0]
-----------------------------------------------------------------------------
(***************************************************************************)
(* The calls of the recorded application, up to the point where they wait: *)
(* the Pre handlers of the await layer.  FindObject(k) is k \in objects.   *)
(***************************************************************************)
Wait(op, k, keys) ==
  /\ command' = [op |-> op, key |-> k]
  /\ toComplete' = keys
  /\ player' = "complete"

\* Nobody else sees the objects: a call that needs no deferred object runs at once.
Create(k) ==
  /\ player = "ready"
  /\ k \in Objects \ issued /\ \A u \in Uses[k] : captured[u] > 0
  /\ captured' = [captured EXCEPT ![k] = 1]
  /\ issued' = issued \cup {k}
  /\ Wait("create", k, (Uses[k] \cap Objects) \ objects)
  /\ UNCHANGED <<dependencies, serviceVars, workerVars, current, objects, preCollected,
                 createVars>>

\* Fault: the update is accepted although the creation has started.
FaultAlwaysPending(k) == k \in tasks
IsPending(k) == k \in tasks /\ k \notin started

\* An object whose count drops to zero is removed.
References(k, n) ==
  /\ count' = IF k \in objects THEN [count EXCEPT ![k] = @ + n] ELSE count
  /\ objects' = {o \in objects : count'[o] > 0}

\* AddRef, and a Release that is not the last one.
UpdateRefCount(op, k, n) ==
  /\ player = "ready"
  /\ captured[k] >= 1 /\ captured[k] + n \in 1..MaxRef
  /\ captured' = [captured EXCEPT ![k] = @ + n]
  /\ \/ /\ k \in objects
        /\ References(k, n)
        /\ UNCHANGED <<refCounts, command, toComplete, player>>
     \/ /\ k \notin objects /\ IsPending(k)
        /\ refCounts' = [refCounts EXCEPT ![k] = @ + n]
        /\ UNCHANGED <<count, objects, command, toComplete, player>>
     \/ /\ k \notin objects /\ ~IsPending(k)
        /\ Wait(op, k, {k})
        /\ UNCHANGED <<refCounts, count, objects>>
  /\ UNCHANGED <<issued, dependencies, tasks, tasksQueue, started, done, workerVars,
                 current, preCollected, output, creations>>

LastRelease(k) ==
  /\ player = "ready" /\ captured[k] = 1
  /\ captured' = [captured EXCEPT ![k] = 0]
  /\ Wait("lastRelease", k, {k} \ objects)
  /\ UNCHANGED <<issued, dependencies, serviceVars, workerVars, current, objects,
                 preCollected, createVars>>

\* A call that takes the object as an argument.
Use(k) ==
  /\ player = "ready" /\ captured[k] > 0 /\ k \notin objects
  /\ Wait("use", k, {k})
  /\ UNCHANGED <<captured, issued, dependencies, serviceVars, workerVars, current, objects,
                 preCollected, createVars>>

\* CompleteAll, at the end of the restored state of a subcapture.
StateRestoreEnd ==
  /\ player = "ready" /\ tasks # {}
  /\ Wait("restoreEnd", None, tasks)
  /\ UNCHANGED <<captured, issued, dependencies, serviceVars, workerVars, current, objects,
                 preCollected, createVars>>
-----------------------------------------------------------------------------
(***************************************************************************)
(* CollectResult, Complete and CreateObject on the replaying thread.       *)
(***************************************************************************)
\* While the consumers of an object are completed, their outputs are put aside.
IsConsumer(k) == command.op = "lastRelease" /\ k # command.key

Collect(k, result) ==
  /\ toComplete' = toComplete \ {k}
  /\ objects' = IF result = "ok" /\ ~IsConsumer(k) THEN objects \cup {k} ELSE objects
  /\ preCollected' = IF IsConsumer(k) THEN preCollected \cup {k} ELSE preCollected \ {k}

\* Fault: the outputs put aside are never looked at.
FaultForgotten(k) == FALSE
IsPreCollected(k) == k \in preCollected /\ ~IsConsumer(k)

NoTask(k) ==
  /\ player = "complete" /\ k \in toComplete /\ k \notin tasks
  /\ IF IsPreCollected(k)
     THEN Collect(k, output[k])
     ELSE toComplete' = toComplete \ {k} /\ UNCHANGED <<objects, preCollected>>
  /\ UNCHANGED <<replayVars, serviceVars, workerVars, player, current, createVars>>

\* Fault: the task is left in the queue.
FaultLeaveInQueue(k) == tasksQueue
QueueWithout(k) == RemoveFirst(tasksQueue, k)   \* it is there at most once

Complete(k) ==
  /\ player = "complete" /\ k \in toComplete /\ k \in tasks
  /\ tasks' = tasks \ {k}
  /\ current' = k
  /\ IF k \in started
     THEN player' = "await" /\ UNCHANGED tasksQueue
     ELSE player' = "create" /\ tasksQueue' = QueueWithout(k)
  /\ UNCHANGED <<replayVars, started, refCounts, done, workerVars, toComplete, objects,
                 preCollected, createVars>>

\* StartedTask.get()
AwaitResult ==
  /\ player = "await" /\ output[current] # "none"
  /\ \A w \in Workers : job[w] # current
  /\ Collect(current, output[current])
  /\ player' = "complete" /\ current' = None
  /\ UNCHANGED <<replayVars, serviceVars, workerVars, createVars>>

\* The creation itself, by a worker or by the replaying thread; it may fail.
RunFunctor(k) ==
  /\ \E result \in {"ok"} \cup (IF k \in MayFail THEN {"failed"} ELSE {}) :
       /\ output' = [output EXCEPT ![k] = result]
       /\ count' = [count EXCEPT ![k] = IF result = "ok" THEN 1 ELSE 0]
  /\ creations' = [creations EXCEPT ![k] = @ + 1]

\* Fault: the references counted meanwhile are forgotten.
FaultForgetRefCount(k) ==
  refCounts' = [refCounts EXCEPT ![k] = 0] /\ UNCHANGED count
ApplyRefCount(k) ==
  /\ count' = [count EXCEPT ![k] = @ + refCounts[k]]
  /\ refCounts' = [refCounts EXCEPT ![k] = 0]

CreateHere ==
  /\ player = "create"
  /\ RunFunctor(current)
  /\ IF output'[current] = "ok"
     THEN player' = "count" /\ UNCHANGED <<toComplete, current, objects, preCollected>>
     ELSE player' = "complete" /\ Collect(current, "failed") /\ current' = None
  /\ UNCHANGED <<replayVars, serviceVars, workerVars>>

CountHere ==
  /\ player = "count"
  /\ ApplyRefCount(current)
  /\ Collect(current, "ok")
  /\ player' = "complete" /\ current' = None
  /\ UNCHANGED <<replayVars, tasks, tasksQueue, started, done, workerVars, output, creations>>
-----------------------------------------------------------------------------
(***************************************************************************)
(* The end of a call, when every object it needs is there.                 *)
(***************************************************************************)
\* Fault: the objects that use the released one are not completed.
FaultNoConsumers == {}
Consumers == dependencies[command.key]

CollectConsumers ==
  /\ player = "complete" /\ toComplete = {}
  /\ command.op = "lastRelease" /\ Consumers # {}
  /\ toComplete' = Consumers
  /\ dependencies' = [dependencies EXCEPT ![command.key] = {}]
  /\ UNCHANGED <<captured, issued, command, serviceVars, workerVars, player, current, objects,
                 preCollected, createVars>>

Finish(op) ==
  /\ player = "complete" /\ toComplete = {} /\ command.op = op
  /\ player' = "ready" /\ command' = NoCommand

\* Schedule: the creation layer comes after the await layer.
Schedule ==
  /\ Finish("create")
  /\ dependencies' = [u \in All |-> IF u \in Uses[command.key]
                                    THEN dependencies[u] \cup {command.key}
                                    ELSE dependencies[u]]
  /\ tasks' = tasks \cup {command.key}
  /\ tasksQueue' = Append(tasksQueue, command.key)
  /\ \/ \E w \in Workers : worker[w] = "wait" /\ worker' = [worker EXCEPT ![w] = "check"]
     \/ (\A w \in Workers : worker[w] # "wait") /\ UNCHANGED worker
  /\ UNCHANGED <<captured, issued, started, refCounts, done, job, collectVars, createVars>>

\* The object is null, and the call left out, if its creation failed.
FinishUpdate ==
  /\ \/ Finish("addRef") /\ References(command.key, 1)
     \/ Finish("release") /\ References(command.key, -1)
     \/ Finish("lastRelease") /\ Consumers = {} /\ References(command.key, -1)
  /\ UNCHANGED <<captured, issued, dependencies, serviceVars, workerVars, toComplete, current,
                 preCollected, output, creations>>

FinishOther ==
  /\ Finish("use") \/ Finish("restoreEnd")
  /\ UNCHANGED <<captured, issued, dependencies, serviceVars, workerVars, collectVars,
                 createVars>>

\* Fault: the waiting workers are not notified.
FaultNoneWoken == worker
AllWoken == [w \in Workers |-> IF worker[w] = "wait" THEN "check" ELSE worker[w]]

\* Called by the destructor of PlayerManager.
Shutdown ==
  /\ player = "ready"
  /\ done' = TRUE
  /\ worker' = AllWoken
  /\ player' = "join"
  /\ UNCHANGED <<replayVars, tasks, tasksQueue, started, refCounts, job, collectVars, createVars>>

Join ==
  /\ player = "join" /\ \A w \in Workers : worker[w] = "exited"
  /\ player' = "exited"
  /\ UNCHANGED <<replayVars, serviceVars, workerVars, collectVars, createVars>>
-----------------------------------------------------------------------------
(***************************************************************************)
(* WorkerThread.                                                           *)
(***************************************************************************)
WorkerFrame == <<replayVars, player, collectVars>>

TakeTask(w) ==
  /\ worker[w] = "check" /\ ~done /\ tasksQueue # <<>>
  /\ job' = [job EXCEPT ![w] = Head(tasksQueue)]
  /\ started' = started \cup {Head(tasksQueue)}
  /\ tasksQueue' = Tail(tasksQueue)
  /\ worker' = [worker EXCEPT ![w] = "create"]
  /\ UNCHANGED <<WorkerFrame, tasks, refCounts, done, createVars>>

NoWork(w) ==
  /\ worker[w] = "check" /\ (done \/ tasksQueue = <<>>)
  /\ worker' = [worker EXCEPT ![w] = IF done THEN "exited" ELSE "wait"]
  /\ UNCHANGED <<WorkerFrame, job, serviceVars, createVars>>

\* The promise of a creation that failed is set at once ...
CreateThere(w) ==
  /\ worker[w] = "create"
  /\ RunFunctor(job[w])
  /\ IF output'[job[w]] = "ok"
     THEN worker' = [worker EXCEPT ![w] = "count"] /\ UNCHANGED job
     ELSE /\ worker' = [worker EXCEPT ![w] = "check"]
          /\ job' = [job EXCEPT ![w] = None]
  /\ UNCHANGED <<WorkerFrame, serviceVars>>

\* ... and otherwise when the references are counted.
CountThere(w) ==
  /\ worker[w] = "count"
  /\ ApplyRefCount(job[w])
  /\ worker' = [worker EXCEPT ![w] = "check"]
  /\ job' = [job EXCEPT ![w] = None]
  /\ UNCHANGED <<WorkerFrame, tasks, tasksQueue, started, done, output, creations>>
-----------------------------------------------------------------------------
Call ==
  \/ \E k \in All : \/ Create(k) \/ LastRelease(k) \/ Use(k)
                    \/ UpdateRefCount("addRef", k, 1) \/ UpdateRefCount("release", k, -1)
  \/ StateRestoreEnd
  \/ Shutdown

PlayerStep ==
  \/ \E k \in Objects : NoTask(k) \/ Complete(k)
  \/ AwaitResult \/ CreateHere \/ CountHere
  \/ CollectConsumers \/ Schedule \/ FinishUpdate \/ FinishOther
  \/ Join

WorkerStep(w) == TakeTask(w) \/ NoWork(w) \/ CreateThere(w) \/ CountThere(w)

Next == Call \/ PlayerStep \/ \E w \in Workers : WorkerStep(w)

Spec == Init /\ [][Next]_vars

(***************************************************************************)
(* The operating system runs every thread, and the driver returns from     *)
(* every creation.  The recorded application owes no call.                 *)
(***************************************************************************)
Fairness == WF_vars(PlayerStep) /\ \A w \in Workers : WF_vars(WorkerStep(w))

FairSpec == Spec /\ Fairness
-----------------------------------------------------------------------------
(***************************************************************************)
(* Properties.                                                             *)
(***************************************************************************)
Creating(k) ==
  \/ player = "create" /\ current = k
  \/ \E w \in Workers : worker[w] = "create" /\ job[w] = k

(***************************************************************************)
(* A creation, on whatever thread and however late, finds the objects it   *)
(* uses alive, unless they could not be created.                           *)
(***************************************************************************)
ProvidersAlive ==
  \A k \in Objects : Creating(k) =>
    \A u \in Uses[k] : count[u] > 0 \/ (u \in Objects /\ output[u] = "failed")

(***************************************************************************)
(* Between two calls, an object has as many references as the recorded     *)
(* application held: the calls that came before the object existed are     *)
(* applied once, wherever its creation has got to.                         *)
(***************************************************************************)
CountsAgree ==
  player = "ready" =>
    \A k \in issued :
      output[k] # "failed" =>
        captured[k] = (IF output[k] = "ok" THEN count[k] ELSE 1) + refCounts[k]

(***************************************************************************)
(* No object is created twice, by a worker and by the replaying thread.    *)
(***************************************************************************)
CreatedOnce == \A k \in Objects : creations[k] <= 1

(***************************************************************************)
(* A call that uses an object finds it, unless it could not be created.    *)
(***************************************************************************)
ArgumentsFound ==
  player = "complete" /\ toComplete = {} /\ command.op \in {"use", "addRef", "release"} =>
    command.key \in objects \/ output[command.key] = "failed"

(***************************************************************************)
(* A call that waits for objects ends, and so does Shutdown, although the  *)
(* workers leave the tasks they have not started.                          *)
(***************************************************************************)
CallsReturn == player \notin {"ready", "exited"} ~> player \in {"ready", "exited"}
=============================================================================
