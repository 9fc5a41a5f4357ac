--------------------------- MODULE OrderingRecorder ---------------------------
(***************************************************************************)
(* stream::OrderingRecorder (common/stream/src/orderingRecorder.cpp).      *)
(*                                                                         *)
(* Application threads mint a key for every intercepted API call with one  *)
(* atomic counter and, when the call returns, submit it: Record(key) hands *)
(* over its serialized command, Skip(key) says that no command will come.  *)
(* Submissions travel through a concurrent FIFO queue to one worker, which *)
(* restores the order of the keys and feeds the StreamWriter.  Record is   *)
(* throttled by the number of bytes scheduled and not yet processed.       *)
(*                                                                         *)
(* One action is one access to state shared between threads, or one        *)
(* iteration of a loop of the worker, whose own state is private to it.    *)
(***************************************************************************)
EXTENDS Integers, Sequences, FiniteSets

CONSTANTS Threads,                   \* application threads
          Closers,                   \* threads that call Close()
          Calls,                     \* the kinds of calls they make
          MaxKey,                    \* bound: keys minted
          MaxSize,                   \* bound: size of a serialized command
          BYTES_CHECK_INTERVAL,
          BYTES_ALLOWED_DIFFERENCE

ASSUME ThreadsAssumption == IsFiniteSet(Threads)
ASSUME CallsAssumption == Calls \subseteq {"plain", "replaced", "repeated", "present"}
ASSUME MaxKeyAssumption == MaxKey \in Nat
ASSUME MaxSizeAssumption == MaxSize \in Nat
ASSUME BytesAssumption == /\ BYTES_CHECK_INTERVAL \in Nat
                          /\ BYTES_ALLOWED_DIFFERENCE \in Nat

VARIABLES
  commandUniqueKey,    \* CaptureManager::m_CommandUniqueKey, the last key minted
  pc,                  \* where each application thread is
  todo,                \* what its current API call still has to submit
  flush,               \* the locals of ConditionalFlush of each thread
  concurrentQueue,     \* m_ConcurrentQueue
  closed,              \* m_Closed
  scheduledBytes, processedBytes, lastCheckedBytes,
  worker,              \* where ProcessQueue is
  nextKey,             \* m_NextKey
  skippedKeyRanges,    \* m_SkippedKeyRanges: StartKey -> EndKey
  serializers,         \* m_Serializers: the keys waiting for their turn
  closer,              \* where each caller of Close() is
  written,             \* the keys passed to m_Recorder->Record, in order
  saved,               \* m_Recorder->Close() has returned
  recorded, skipped,   \* history: the keys pushed by Record, and by Skip
  late                 \* history: the keys pushed once m_Closed was set

callVars   == <<commandUniqueKey, todo>>
threadVars == <<commandUniqueKey, pc, todo, flush>>
byteVars   == <<scheduledBytes, processedBytes, lastCheckedBytes>>
orderVars  == <<nextKey, skippedKeyRanges, serializers>>
historyVars == <<recorded, skipped, late>>
vars == <<threadVars, concurrentQueue, closed, byteVars, worker, orderVars,
          closer, written, saved, historyVars>>

Keys == 1..MaxKey
Sizes == 1..MaxSize
RecordTask == [type : {"record"}, key : Keys, size : Sizes]
SkipTask   == [type : {"skip"}, key : Keys]
Present    == [type : {"present"}, key : Keys, size : Sizes]
Task       == RecordTask \cup SkipTask

Record(k, s) == [type |-> "record", key |-> k, size |-> s]
Skip(k)      == [type |-> "skip", key |-> k]

ThreadPc == {"idle", "schedule", "push", "lastChecked", "interval",
             "processed", "compare", "store"}
WorkerPc == {"poll", "update", "pending", "exited"}
CloserPc == {"start", "set", "join", "close", "returned", "failed"}

TypeOK ==
  /\ commandUniqueKey \in 0..MaxKey
  /\ pc \in [Threads -> ThreadPc]
  /\ todo \in [Threads -> Seq(Task \cup Present)]
  /\ flush \in [Threads -> [lastChecked : Nat, scheduled : Nat, processed : Nat]]
  /\ concurrentQueue \in Seq(Task)
  /\ closed \in BOOLEAN
  /\ scheduledBytes \in Nat /\ processedBytes \in Nat /\ lastCheckedBytes \in Nat
  /\ worker \in WorkerPc
  /\ nextKey \in Nat \ {0}
  /\ DOMAIN skippedKeyRanges \subseteq Keys
  /\ \A s \in DOMAIN skippedKeyRanges : skippedKeyRanges[s] \in Nat
  /\ serializers \subseteq Keys
  /\ closer \in [Closers -> CloserPc]
  /\ written \in Seq(Keys)
  /\ saved \in BOOLEAN
  /\ recorded \subseteq Keys /\ skipped \subseteq Keys /\ late \subseteq Keys

Init ==
  /\ commandUniqueKey = 0
  /\ pc = [t \in Threads |-> "idle"]
  /\ todo = [t \in Threads |-> <<>>]
  /\ flush = [t \in Threads |-> [lastChecked |-> 0, scheduled |-> 0, processed |-> 0]]
  /\ concurrentQueue = <<>>
  /\ closed = FALSE
  /\ scheduledBytes = 0 /\ processedBytes = 0 /\ lastCheckedBytes = 0
  /\ worker = "poll"
  /\ nextKey = 1
  /\ skippedKeyRanges = [s \in {} |-> 0]
  /\ serializers = {}
  /\ closer = [c \in Closers |-> "start"]
  /\ written = <<>>
  /\ saved = FALSE
  /\ recorded = {} /\ skipped = {} /\ late = {}
-----------------------------------------------------------------------------
(***************************************************************************)
(* The application threads.  An intercepted call mints its key before the  *)
(* driver is called, and the layers submit it afterwards: a plain call     *)
(* records it, a call whose key is replaced (CaptureManager::              *)
(* UpdateCommandKey) skips it and goes on with a new one, a repeated       *)
(* ID3D12Fence::GetCompletedValue is skipped by the customization layer    *)
(* and then recorded all the same by the encoder layer, and Present skips  *)
(* its key and submits two adjacent new ones.                              *)
(***************************************************************************)
\* Fault: the encoder layer runs before the customization layer.
FaultRecordThenSkip(k, s) == <<Record(k, s), Skip(k)>>
RepeatedGetCompletedValue(k, s) == <<Skip(k), Record(k, s)>>

\* What the layers submit for a call with key k: the kinds of calls above.
CallTasks(k, s) ==
  [plain    |-> <<Record(k, s)>>,
   replaced |-> <<Skip(k)>>,
   repeated |-> RepeatedGetCompletedValue(k, s),
   present  |-> <<[type |-> "present", key |-> k, size |-> s]>>]

CreateCommandKey(t) ==
  /\ pc[t] = "idle" /\ todo[t] = <<>>
  /\ commandUniqueKey < MaxKey
  /\ commandUniqueKey' = commandUniqueKey + 1
  /\ \E s \in Sizes, call \in Calls :
       todo' = [todo EXCEPT ![t] = CallTasks(commandUniqueKey + 1, s)[call]]
  /\ UNCHANGED <<pc, flush, concurrentQueue, closed, byteVars, worker, orderVars,
                 closer, written, saved, historyVars>>

EncodePresent(t) ==
  /\ pc[t] = "idle" /\ todo[t] # <<>> /\ Head(todo[t]).type = "present"
  /\ commandUniqueKey + 2 <= MaxKey
  /\ commandUniqueKey' = commandUniqueKey + 2
  /\ LET k == Head(todo[t]).key
         s == Head(todo[t]).size
         first == commandUniqueKey + 1
         second == commandUniqueKey + 2
     IN  \E present \in {Record(first, s), Skip(first)},
            frameEnd \in {Record(second, s), Skip(second)} :
           todo' = [todo EXCEPT ![t] = <<Skip(k), present, frameEnd>>]
  /\ UNCHANGED <<pc, flush, concurrentQueue, closed, byteVars, worker, orderVars,
                 closer, written, saved, historyVars>>

\* Record and Skip return at once when the recorder is closed.
SubmitClosed(t) ==
  /\ pc[t] = "idle" /\ todo[t] # <<>> /\ Head(todo[t]).type \in {"record", "skip"}
  /\ closed
  /\ todo' = [todo EXCEPT ![t] = Tail(@)]
  /\ UNCHANGED <<commandUniqueKey, pc, flush, concurrentQueue, closed, byteVars,
                 worker, orderVars, closer, written, saved, historyVars>>

SubmitOpen(t) ==
  /\ pc[t] = "idle" /\ todo[t] # <<>> /\ Head(todo[t]).type \in {"record", "skip"}
  /\ ~closed
  /\ pc' = [pc EXCEPT ![t] = IF Head(todo[t]).type = "record" THEN "schedule" ELSE "push"]
  /\ UNCHANGED <<callVars, flush, concurrentQueue, closed, byteVars, worker, orderVars,
                 closer, written, saved, historyVars>>

\* Fault: the counter is rolled back instead of being advanced.
FaultRollBack(t) ==
  /\ pc[t] = "schedule"
  /\ scheduledBytes' = scheduledBytes - Head(todo[t]).size
  /\ pc' = [pc EXCEPT ![t] = "push"]
  /\ UNCHANGED <<callVars, flush, concurrentQueue, closed, processedBytes,
                 lastCheckedBytes, worker, orderVars, closer, written, saved, historyVars>>

ScheduleBytes(t) ==
  /\ pc[t] = "schedule"
  /\ scheduledBytes' = scheduledBytes + Head(todo[t]).size
  /\ pc' = [pc EXCEPT ![t] = "push"]
  /\ UNCHANGED <<callVars, flush, concurrentQueue, closed, processedBytes,
                 lastCheckedBytes, worker, orderVars, closer, written, saved, historyVars>>

PushTask(t) ==
  /\ pc[t] = "push"
  /\ LET task == Head(todo[t])
     IN  /\ concurrentQueue' = Append(concurrentQueue, task)
         /\ recorded' = IF task.type = "record" THEN recorded \cup {task.key} ELSE recorded
         /\ skipped' = IF task.type = "skip" THEN skipped \cup {task.key} ELSE skipped
         /\ late' = IF closed THEN late \cup {task.key} ELSE late
         /\ pc' = [pc EXCEPT ![t] = IF task.type = "record" THEN "lastChecked" ELSE "idle"]
         /\ todo' = [todo EXCEPT ![t] = Tail(@)]
  /\ UNCHANGED <<commandUniqueKey, flush, closed, byteVars, worker, orderVars,
                 closer, written, saved>>

(***************************************************************************)
(* ConditionalFlush: one action per access to an atomic counter.           *)
(***************************************************************************)
FlushVars == <<callVars, concurrentQueue, closed, scheduledBytes, processedBytes,
               worker, orderVars, closer, written, saved, historyVars>>

ReadLastChecked(t) ==
  /\ pc[t] = "lastChecked"
  /\ flush' = [flush EXCEPT ![t].lastChecked = lastCheckedBytes]
  /\ pc' = [pc EXCEPT ![t] = "interval"]
  /\ UNCHANGED <<FlushVars, lastCheckedBytes>>

ReadScheduled(t) ==
  /\ pc[t] = "interval"
  /\ flush' = [flush EXCEPT ![t].scheduled = scheduledBytes]
  /\ pc' = [pc EXCEPT ![t] =
              IF scheduledBytes - flush[t].lastChecked > BYTES_CHECK_INTERVAL
              THEN "processed" ELSE "idle"]
  /\ UNCHANGED <<FlushVars, lastCheckedBytes>>

ReadProcessed(t) ==
  /\ pc[t] = "processed"
  /\ flush' = [flush EXCEPT ![t].processed = processedBytes]
  /\ pc' = [pc EXCEPT ![t] = "compare"]
  /\ UNCHANGED <<FlushVars, lastCheckedBytes>>

\* Fault: Record never waits.
FaultNeverWait(bytes) == FALSE
\* Fault: Record waits until nothing at all is in flight.
FaultWaitForAll(bytes) == bytes > 0
TooFarAhead(bytes) == bytes > BYTES_ALLOWED_DIFFERENCE

CompareBytes(t) ==
  /\ pc[t] = "compare"
  /\ flush' = [flush EXCEPT ![t].scheduled = scheduledBytes]
  /\ pc' = [pc EXCEPT ![t] =
              IF TooFarAhead(scheduledBytes - flush[t].processed)
              THEN "processed" ELSE "store"]
  /\ UNCHANGED <<FlushVars, lastCheckedBytes>>

StoreLastChecked(t) ==
  /\ pc[t] = "store"
  /\ lastCheckedBytes' = flush[t].scheduled
  /\ pc' = [pc EXCEPT ![t] = "idle"]
  /\ UNCHANGED <<FlushVars, flush>>
-----------------------------------------------------------------------------
(***************************************************************************)
(* The worker (ProcessQueue).  GetSkippedRangeIt looks at the last range   *)
(* that starts at or below the key (upper_bound - 1) and returns it if it  *)
(* holds the key: here, the set of the start of that range, or {}.         *)
(***************************************************************************)
GetSkippedRange(key) ==
  {s \in DOMAIN skippedKeyRanges :
     /\ s <= key /\ key <= skippedKeyRanges[s]
     /\ \A o \in DOMAIN skippedKeyRanges : o <= key => o <= s}

WorkerVars == <<threadVars, closed, scheduledBytes, lastCheckedBytes, closer,
                saved, historyVars>>

\* Fault: the bytes of a command are counted twice.
FaultBytesTwice(task) == 2 * task.size
TaskBytes(task) == task.size

\* try_pop of a task: the loop pops while open, and drains the rest once closed.
PopTask(type) ==
  /\ worker = "poll" /\ concurrentQueue # <<>> /\ Head(concurrentQueue).type = type
  /\ concurrentQueue' = Tail(concurrentQueue)
  /\ processedBytes' = processedBytes
       + IF type = "record" THEN TaskBytes(Head(concurrentQueue)) ELSE 0

\* Fault: a command is due as soon as nothing older can still be pending.
FaultDueEarly(key) == key >= nextKey
IsDue(key) == key = nextKey

\* Fault: the pending serializers are not looked at after a skip.
FaultSkipOnly ==
  /\ PopTask("skip") /\ Head(concurrentQueue).key = nextKey
  /\ nextKey' = nextKey + 1
  /\ UNCHANGED <<WorkerVars, worker, skippedKeyRanges, serializers, written>>

SkipCurrent ==
  /\ PopTask("skip") /\ Head(concurrentQueue).key = nextKey
  /\ worker' = "update"
  /\ UNCHANGED <<WorkerVars, orderVars, written>>

\* Fault: a range is extended when it is near the key.
FaultMergeNear ==
  /\ PopTask("skip") /\ Head(concurrentQueue).key # nextKey
  /\ LET key == Head(concurrentQueue).key
     IN  \/ \E s \in GetSkippedRange(key - 1) \cup GetSkippedRange(key - 2) :
              skippedKeyRanges' = [skippedKeyRanges EXCEPT ![s] = @ + 1]
         \/ /\ GetSkippedRange(key - 1) = {}
            /\ skippedKeyRanges' = [s \in DOMAIN skippedKeyRanges \cup {key} |->
                                      IF s = key THEN key ELSE skippedKeyRanges[s]]
  /\ UNCHANGED <<WorkerVars, worker, nextKey, serializers, written>>

SkipAhead ==
  /\ PopTask("skip") /\ Head(concurrentQueue).key # nextKey
  /\ LET key == Head(concurrentQueue).key
     IN  \/ \E s \in GetSkippedRange(key - 1) :
              skippedKeyRanges' = [skippedKeyRanges EXCEPT ![s] = @ + 1]
         \/ /\ GetSkippedRange(key - 1) = {}
            /\ skippedKeyRanges' = [s \in DOMAIN skippedKeyRanges \cup {key} |->
                                      IF s = key THEN key ELSE skippedKeyRanges[s]]
  /\ UNCHANGED <<WorkerVars, worker, nextKey, serializers, written>>

RecordCurrent ==
  /\ PopTask("record") /\ IsDue(Head(concurrentQueue).key)
  /\ written' = Append(written, Head(concurrentQueue).key)
  /\ worker' = "update"
  /\ UNCHANGED <<WorkerVars, orderVars>>

RecordAhead ==
  /\ PopTask("record") /\ ~IsDue(Head(concurrentQueue).key)
  /\ Head(concurrentQueue).key > nextKey
  /\ GetSkippedRange(Head(concurrentQueue).key) = {}
  /\ serializers' = serializers \cup {Head(concurrentQueue).key}
  /\ UNCHANGED <<WorkerVars, worker, nextKey, skippedKeyRanges, written>>

RecordSkipped ==
  /\ PopTask("record") /\ ~IsDue(Head(concurrentQueue).key)
  /\ \/ Head(concurrentQueue).key < nextKey
     \/ GetSkippedRange(Head(concurrentQueue).key) # {}
  /\ UNCHANGED <<WorkerVars, worker, orderVars, written>>

EndKey(s) == skippedKeyRanges[s]

\* One iteration of the loop of UpdateNextKey; CheckPendingSerializers follows it
\* at each of its call sites.
UpdateNextKey ==
  /\ worker = "update"
  /\ LET key == nextKey + 1
     IN  \/ /\ GetSkippedRange(key) = {}
            /\ nextKey' = key
            /\ worker' = "pending"
            /\ UNCHANGED skippedKeyRanges
         \/ \E s \in GetSkippedRange(key) :
              /\ nextKey' = IF key = s THEN EndKey(s) ELSE key
              /\ skippedKeyRanges' =
                   IF key = s THEN [o \in DOMAIN skippedKeyRanges \ {s} |-> skippedKeyRanges[o]]
                              ELSE skippedKeyRanges
              /\ UNCHANGED worker
  /\ UNCHANGED <<WorkerVars, concurrentQueue, processedBytes, serializers, written>>

\* The top of the priority queue is its smallest key.
IsTop(key) == key \in serializers /\ \A k \in serializers : key <= k

\* One iteration of the loop of CheckPendingSerializers.
CheckPendingSerializers ==
  /\ worker = "pending"
  /\ \/ /\ IsTop(nextKey)
        /\ written' = Append(written, nextKey)
        /\ serializers' = serializers \ {nextKey}
        /\ worker' = "update"
     \/ /\ ~IsTop(nextKey)
        /\ worker' = "poll"
        /\ UNCHANGED <<written, serializers>>
  /\ UNCHANGED <<WorkerVars, concurrentQueue, processedBytes, nextKey, skippedKeyRanges>>

\* Fault: the worker waits for the calls that are missing.
FaultWaitForMissing ==
  /\ worker = "poll" /\ closed /\ concurrentQueue = <<>> /\ serializers = {}
  /\ worker' = "exited"
  /\ UNCHANGED <<WorkerVars, concurrentQueue, processedBytes, orderVars, written>>

\* Fault: the worker leaves the loop without draining the queue.
FaultNoDrain ==
  /\ worker = "poll" /\ closed
  /\ worker' = "exited"
  /\ UNCHANGED <<WorkerVars, concurrentQueue, processedBytes, orderVars, written>>

ExitWorker ==
  /\ worker = "poll" /\ closed /\ concurrentQueue = <<>>
  /\ worker' = "exited"
  /\ UNCHANGED <<WorkerVars, concurrentQueue, processedBytes, orderVars, written>>
-----------------------------------------------------------------------------
(***************************************************************************)
(* Close(), called from the message bus (process exit, a plugin) and from  *)
(* the destructor.  Joining a thread that another thread joins is          *)
(* undefined: the second join either also waits for the worker or throws.  *)
(***************************************************************************)
CloserVars == <<threadVars, concurrentQueue, byteVars, worker, orderVars, written,
                historyVars>>

CloseCheck(c) ==
  /\ closer[c] = "start"
  /\ closer' = [closer EXCEPT ![c] = IF closed THEN "returned" ELSE "set"]
  /\ UNCHANGED <<CloserVars, closed, saved>>

CloseSet(c) ==
  /\ closer[c] = "set"
  /\ closed' = TRUE
  /\ closer' = [closer EXCEPT ![c] = "join"]
  /\ UNCHANGED <<CloserVars, saved>>

\* Fault: the worker is not joined.
FaultNoJoin(c) ==
  /\ closer[c] = "join"
  /\ closer' = [closer EXCEPT ![c] = "close"]
  /\ UNCHANGED <<CloserVars, closed, saved>>

CloseJoin(c) ==
  /\ closer[c] = "join"
  /\ \/ /\ worker = "exited"
        /\ closer' = [closer EXCEPT ![c] = "close"]
     \/ /\ \E d \in Closers \ {c} : closer[d] = "join"
        /\ closer' = [closer EXCEPT ![c] = "failed"]
  /\ UNCHANGED <<CloserVars, closed, saved>>

\* m_Recorder->Close(), then the messages STREAM_SAVED and END are published.
CloseRecorder(c) ==
  /\ closer[c] = "close"
  /\ saved' = TRUE
  /\ closer' = [closer EXCEPT ![c] = "returned"]
  /\ UNCHANGED <<CloserVars, closed>>
-----------------------------------------------------------------------------
\* What a thread does by itself once it has started a call ...
ThreadStep(t) ==
  \/ EncodePresent(t) \/ SubmitClosed(t) \/ SubmitOpen(t)
  \/ ScheduleBytes(t) \/ PushTask(t)
  \/ ReadLastChecked(t) \/ ReadScheduled(t) \/ ReadProcessed(t) \/ CompareBytes(t)
  \/ StoreLastChecked(t)

WorkerStep ==
  \/ SkipCurrent \/ SkipAhead \/ RecordCurrent \/ RecordAhead \/ RecordSkipped
  \/ UpdateNextKey \/ CheckPendingSerializers \/ ExitWorker

\* ... and a closer once it has entered Close.
CloserStep(c) == CloseSet(c) \/ CloseJoin(c) \/ CloseRecorder(c)

Next ==
  \/ \E t \in Threads : CreateCommandKey(t) \/ ThreadStep(t)
  \/ WorkerStep
  \/ \E c \in Closers : CloseCheck(c) \/ CloserStep(c)

Spec == Init /\ [][Next]_vars

(***************************************************************************)
(* The scheduler of the operating system runs every thread: a thread       *)
(* inside Record, Skip or Close goes on, and so does the worker.  The      *)
(* application owes no call: minting a key and calling Close are not fair. *)
(***************************************************************************)
Fairness ==
  /\ \A t \in Threads : WF_vars(ThreadStep(t))
  /\ WF_vars(WorkerStep)
  /\ \A c \in Closers : WF_vars(CloserStep(c))

FairSpec == Spec /\ Fairness
-----------------------------------------------------------------------------
(***************************************************************************)
(* Properties.                                                             *)
(***************************************************************************)
(***************************************************************************)
(* The recorder implements OrderedStream: whatever the order in which the  *)
(* threads submit their keys, what reaches the StreamWriter is in the      *)
(* order of the calls, without a gap and without a skipped call.           *)
(***************************************************************************)
Stream == INSTANCE OrderedStream
ImplementsOrderedStream == Stream!StreamSpec

(***************************************************************************)
(* The commands reach the StreamWriter in the order of their keys.         *)
(***************************************************************************)
WrittenInOrder == \A i, j \in 1..Len(written) : i < j => written[i] < written[j]

InQueue(task) == \E i \in 1..Len(concurrentQueue) : concurrentQueue[i] = task
SkipQueued(k) == InQueue(Skip(k))
RecordQueued(k) == \E s \in Sizes : InQueue(Record(k, s))

(***************************************************************************)
(* The worker never sits on a command it could write: between two tasks,   *)
(* no pending serializer is due, and none has fallen behind nextKey, where *)
(* it would stay on top of the priority queue and block all the others.    *)
(***************************************************************************)
NothingDueIsHeld ==
  worker \in {"poll", "exited"} => \A k \in serializers : k > nextKey

(***************************************************************************)
(* The ranges are exactly the keys ahead whose skip the worker has         *)
(* processed: merging neighbours neither adds nor loses a key, and the     *)
(* worker waits for nextKey only if its skip has not been processed.       *)
(***************************************************************************)
RangesAreProcessedSkips ==
  worker \in {"poll", "exited"} =>
    {k \in Keys : \E s \in DOMAIN skippedKeyRanges : s <= k /\ k <= skippedKeyRanges[s]}
      = {k \in skipped : k >= nextKey /\ ~SkipQueued(k)}

(***************************************************************************)
(* ConditionalFlush bounds the bytes in flight: two thresholds, and one    *)
(* command per thread that was scheduled before its check.                 *)
(***************************************************************************)
BytesInFlightBounded ==
  scheduledBytes - processedBytes
    <= BYTES_CHECK_INTERVAL + BYTES_ALLOWED_DIFFERENCE + Cardinality(Threads) * MaxSize

(***************************************************************************)
(* The assertion of ConditionalFlush: read in this order, the counters     *)
(* never make the unsigned difference wrap around.                         *)
(***************************************************************************)
ScheduledCoversProcessed ==
  \A t \in Threads :
    /\ pc[t] = "compare" => scheduledBytes >= flush[t].processed
    /\ pc[t] = "interval" => scheduledBytes >= flush[t].lastChecked

(***************************************************************************)
(* After m_Recorder->Close() nothing is handed to the StreamWriter, which  *)
(* would silently discard it.                                              *)
(***************************************************************************)
NothingWrittenAfterSave == [][saved => written' = written]_vars

Accounted(k) == k \in recorded \cup skipped

(***************************************************************************)
(* A command whose predecessors have all been submitted is written, unless *)
(* the session is closed first.                                            *)
(***************************************************************************)
SubmittedIsWritten ==
  \A k \in Keys :
    (k \in recorded \ skipped /\ \A j \in 1..k : Accounted(j))
      ~> (Stream!InStream(k) \/ closed)

(***************************************************************************)
(* Close() drains: once the worker has exited, the only commands missing   *)
(* wait for a call that was never submitted, or was pushed by a thread     *)
(* that had seen the recorder open just before it was closed.              *)
(***************************************************************************)
DrainedOnExit ==
  worker = "exited" =>
    \A k \in recorded \ skipped :
      Stream!InStream(k) \/ \E j \in 1..k : ~Accounted(j) \/ j \in late

(***************************************************************************)
(* The worker has drained the queue and left before tasks of more bytes    *)
(* than are allowed in flight were pushed, by threads that had seen the    *)
(* recorder open.                                                          *)
(***************************************************************************)
LeftTooMuch ==
  worker = "exited" /\ scheduledBytes - processedBytes > BYTES_ALLOWED_DIFFERENCE

(***************************************************************************)
(* A throttled Record returns: the worker catches up, even when the        *)
(* recorder is closed meanwhile and the worker leaves late tasks behind,   *)
(* unless it leaves too much.                                              *)
(***************************************************************************)
FlushReturns ==
  \A t \in Threads : pc[t] = "processed" ~> (pc[t] = "idle" \/ LeftTooMuch)

(***************************************************************************)
(* A single Close() returns, although keys may be missing for ever.        *)
(***************************************************************************)
CloseReturns == \A c \in Closers : closer[c] = "set" ~> closer[c] = "returned"
=============================================================================
