------------------------ MODULE OrderingRecorderProofs ------------------------
(***************************************************************************)
(* Proofs about OrderingRecorder, for any number of threads, calls, sizes  *)
(* and thresholds.                                                         *)
(***************************************************************************)
EXTENDS OrderingRecorder, SequenceTheorems, FiniteSetTheorems, TLAPS

(***************************************************************************)
(* A thread that is submitting has something to submit, and only a command *)
(* has bytes to schedule.                                                  *)
(***************************************************************************)
Submitting ==
  \A t \in Threads :
    /\ pc[t] = "schedule" => todo[t] # <<>> /\ Head(todo[t]) \in RecordTask
    /\ pc[t] = "push" => todo[t] # <<>> /\ Head(todo[t]) \in Task

\* No range ends before it starts: a jump of the worker is a jump forward.
RangesForward == \A s \in DOMAIN skippedKeyRanges : s <= skippedKeyRanges[s]

\* What is written lies behind nextKey, except the command written last while
\* nextKey is being moved past it.
WrittenBehind ==
  \A i \in 1..Len(written) :
    /\ written[i] <= nextKey
    /\ worker # "update" => written[i] < nextKey

TypeInv == TypeOK /\ Submitting
OrderInv == TypeInv /\ RangesForward /\ WrittenBehind /\ WrittenInOrder

LEMMA TaskTypes ==
  /\ \A task \in Task : task.key \in Keys
  /\ \A task \in Task \cup Present : task.type \in {"record", "skip"} => task \in Task
  /\ \A task \in Task \cup Present : task.type = "record" => task \in RecordTask
  /\ \A task \in RecordTask : task.size \in Nat
  /\ \A task \in Present : task.key \in Keys /\ task.size \in Sizes
  /\ \A k \in Keys, s \in Sizes : Record(k, s) \in RecordTask /\ Skip(k) \in SkipTask
  BY DEF Task, RecordTask, SkipTask, Present, Record, Skip, Sizes

LEMMA ThreeInSeq ==
  ASSUME NEW S, NEW a \in S, NEW b \in S, NEW c \in S
  PROVE  <<a, b, c>> \in Seq(S)
  OBVIOUS

LEMMA TypeInit == Init => TypeInv
<1>. SUFFICES ASSUME Init PROVE TypeInv
  OBVIOUS
<1>1. commandUniqueKey \in 0..MaxKey /\ nextKey \in Nat \ {0}
  BY MaxKeyAssumption DEF Init
<1>2. /\ pc \in [Threads -> ThreadPc] /\ todo \in [Threads -> Seq(Task \cup Present)]
      /\ flush \in [Threads -> [lastChecked : Nat, scheduled : Nat, processed : Nat]]
      /\ closer \in [Closers -> CloserPc]
  BY DEF Init, ThreadPc, CloserPc
<1>3. /\ concurrentQueue \in Seq(Task) /\ written \in Seq(Keys)
  BY DEF Init
<1>4. DOMAIN skippedKeyRanges = {}
  BY DEF Init
<1>5. TypeOK
  BY <1>1, <1>2, <1>3, <1>4 DEF Init, TypeOK, WorkerPc
<1>6. Submitting
  BY DEF Init, Submitting
<1>. QED
  BY <1>5, <1>6 DEF TypeInv

LEMMA CallTasksType ==
  ASSUME NEW k \in Keys, NEW s \in Sizes, NEW call \in Calls
  PROVE  CallTasks(k, s)[call] \in Seq(Task \cup Present)
<1>1. /\ Record(k, s) \in Task \cup Present /\ Skip(k) \in Task \cup Present
      /\ [type |-> "present", key |-> k, size |-> s] \in Task \cup Present
  BY DEF Task, Present, Record, Skip, RecordTask, SkipTask
<1>2. /\ <<Record(k, s)>> \in Seq(Task \cup Present) /\ <<Skip(k)>> \in Seq(Task \cup Present)
      /\ <<Skip(k), Record(k, s)>> \in Seq(Task \cup Present)
      /\ <<[type |-> "present", key |-> k, size |-> s]>> \in Seq(Task \cup Present)
  BY <1>1
<1>3. call \in {"plain", "replaced", "repeated", "present"}
  BY CallsAssumption
<1>4. /\ CallTasks(k, s)["plain"] = <<Record(k, s)>>
      /\ CallTasks(k, s)["replaced"] = <<Skip(k)>>
      /\ CallTasks(k, s)["repeated"] = <<Skip(k), Record(k, s)>>
      /\ CallTasks(k, s)["present"] = <<[type |-> "present", key |-> k, size |-> s]>>
  BY DEF CallTasks, RepeatedGetCompletedValue
<1>. QED
  BY <1>2, <1>3, <1>4

LEMMA CreateType ==
  ASSUME TypeInv, NEW t \in Threads, CreateCommandKey(t)
  PROVE  TypeInv'
<1>1. PICK s \in Sizes, call \in Calls :
        todo' = [todo EXCEPT ![t] = CallTasks(commandUniqueKey + 1, s)[call]]
  BY DEF CreateCommandKey
<1>2. commandUniqueKey + 1 \in Keys /\ commandUniqueKey' \in 0..MaxKey
  BY MaxKeyAssumption DEF CreateCommandKey, TypeInv, TypeOK, Keys
<1>3. CallTasks(commandUniqueKey + 1, s)[call] \in Seq(Task \cup Present)
  BY <1>2, CallTasksType
<1>4. todo' \in [Threads -> Seq(Task \cup Present)]
  BY <1>1, <1>3 DEF TypeInv, TypeOK
<1>5. TypeOK'
  BY <1>2, <1>4
     DEF TypeInv, TypeOK, CreateCommandKey, byteVars, orderVars, historyVars
<1>6. Submitting'
  BY <1>1, <1>3 DEF TypeInv, TypeOK, Submitting, CreateCommandKey
<1>. QED
  BY <1>5, <1>6 DEF TypeInv

LEMMA PresentType ==
  ASSUME NEW k \in Keys, NEW a \in Keys, NEW b \in Keys, NEW s \in Sizes,
         NEW x \in {Record(a, s), Skip(a)}, NEW y \in {Record(b, s), Skip(b)}
  PROVE  <<Skip(k), x, y>> \in Seq(Task \cup Present)
<1>1. /\ Skip(k) \in Task \cup Present
      /\ x \in Task \cup Present /\ y \in Task \cup Present
  BY DEF Task, Record, Skip, RecordTask, SkipTask
<1>. QED
  BY <1>1, ThreeInSeq

LEMMA EncodeType ==
  ASSUME TypeInv, NEW t \in Threads, EncodePresent(t)
  PROVE  TypeInv'
<1>. DEFINE k == Head(todo[t]).key
            s == Head(todo[t]).size
            a == commandUniqueKey + 1
            b == commandUniqueKey + 2
<1>0. Head(todo[t]) \in Task \cup Present
  BY HeadTailProperties DEF TypeInv, TypeOK, EncodePresent
<1>1. Head(todo[t]) \in Present
  BY <1>0 DEF EncodePresent, Task, RecordTask, SkipTask
<1>2. /\ k \in Keys /\ s \in Sizes /\ a \in Keys /\ b \in Keys
      /\ commandUniqueKey' \in 0..MaxKey
  BY <1>1, MaxKeyAssumption DEF EncodePresent, TypeInv, TypeOK, Keys, Present
<1>3. PICK x \in {Record(a, s), Skip(a)}, y \in {Record(b, s), Skip(b)} :
        todo' = [todo EXCEPT ![t] = <<Skip(k), x, y>>]
  BY DEF EncodePresent
<1>4. <<Skip(k), x, y>> \in Seq(Task \cup Present)
  BY <1>2, PresentType
<1>5. todo' \in [Threads -> Seq(Task \cup Present)]
  BY <1>3, <1>4 DEF TypeInv, TypeOK
<1>6. TypeOK'
  BY <1>2, <1>5
     DEF TypeInv, TypeOK, EncodePresent, byteVars, orderVars, historyVars
<1>7. Submitting'
  BY <1>3, <1>4 DEF TypeInv, TypeOK, Submitting, EncodePresent
<1>. QED
  BY <1>6, <1>7 DEF TypeInv

LEMMA SubmitType ==
  ASSUME TypeInv, NEW t \in Threads, SubmitClosed(t) \/ SubmitOpen(t)
  PROVE  TypeInv'
<1>1. Head(todo[t]) \in Task /\ Tail(todo[t]) \in Seq(Task \cup Present)
  BY HeadTailProperties, TaskTypes DEF TypeInv, TypeOK, SubmitClosed, SubmitOpen
<1>2. CASE SubmitClosed(t)
  BY <1>1, <1>2 DEF TypeInv, TypeOK, Submitting, SubmitClosed, byteVars, orderVars, historyVars
<1>3. CASE SubmitOpen(t)
  <2>1. Head(todo[t]).type = "record" => Head(todo[t]) \in RecordTask
    BY <1>1, TaskTypes
  <2>2. TypeOK'
    BY <1>3 DEF TypeInv, TypeOK, SubmitOpen, ThreadPc, callVars, byteVars, orderVars, historyVars
  <2>3. Submitting'
    BY <1>1, <1>3, <2>1 DEF TypeInv, TypeOK, Submitting, SubmitOpen, callVars
  <2>. QED
    BY <2>2, <2>3 DEF TypeInv
<1>. QED
  BY <1>2, <1>3

LEMMA ScheduleType ==
  ASSUME TypeInv, NEW t \in Threads, ScheduleBytes(t)
  PROVE  TypeInv'
<1>1. Head(todo[t]) \in RecordTask /\ todo[t] # <<>> /\ pc[t] = "schedule"
  BY DEF TypeInv, Submitting, ScheduleBytes
<1>2. scheduledBytes' \in Nat
  BY <1>1, TaskTypes DEF TypeInv, TypeOK, ScheduleBytes
<1>3. TypeOK'
  BY <1>2 DEF TypeInv, TypeOK, ScheduleBytes, ThreadPc, callVars, orderVars, historyVars
<1>4. Submitting'
  BY <1>1 DEF TypeInv, TypeOK, Submitting, ScheduleBytes, callVars, Task
<1>. QED
  BY <1>3, <1>4 DEF TypeInv

LEMMA PushType ==
  ASSUME TypeInv, NEW t \in Threads, PushTask(t)
  PROVE  TypeInv'
<1>1. /\ Head(todo[t]) \in Task /\ Tail(todo[t]) \in Seq(Task \cup Present)
      /\ Head(todo[t]).key \in Keys
  BY HeadTailProperties, TaskTypes DEF TypeInv, TypeOK, Submitting, PushTask
<1>2. /\ concurrentQueue' \in Seq(Task)
      /\ recorded' \subseteq Keys /\ skipped' \subseteq Keys /\ late' \subseteq Keys
  BY <1>1 DEF TypeInv, TypeOK, PushTask
<1>3. TypeOK'
  BY <1>1, <1>2 DEF TypeInv, TypeOK, PushTask, ThreadPc, byteVars, orderVars
<1>4. Submitting'
  BY DEF TypeInv, TypeOK, Submitting, PushTask
<1>. QED
  BY <1>3, <1>4 DEF TypeInv

LEMMA FlushType ==
  ASSUME TypeInv, NEW t \in Threads,
         \/ ReadLastChecked(t) \/ ReadScheduled(t) \/ ReadProcessed(t)
         \/ CompareBytes(t) \/ StoreLastChecked(t)
  PROVE  TypeInv'
<1>1. UNCHANGED FlushVars /\ lastCheckedBytes' \in Nat
  BY DEF ReadLastChecked, ReadScheduled, ReadProcessed, CompareBytes, StoreLastChecked,
         TypeInv, TypeOK
<1>2. flush' \in [Threads -> [lastChecked : Nat, scheduled : Nat, processed : Nat]]
  <2>. DEFINE Flush == [lastChecked : Nat, scheduled : Nat, processed : Nat]
  <2>1. /\ flush \in [Threads -> Flush] /\ flush[t] \in Flush
        /\ scheduledBytes \in Nat /\ processedBytes \in Nat /\ lastCheckedBytes \in Nat
    BY DEF TypeInv, TypeOK
  <2>2. CASE ReadLastChecked(t)
    BY <2>1, <2>2 DEF ReadLastChecked
  <2>3. CASE ReadScheduled(t) \/ CompareBytes(t)
    BY <2>1, <2>3 DEF ReadScheduled, CompareBytes
  <2>4. CASE ReadProcessed(t)
    BY <2>1, <2>4 DEF ReadProcessed
  <2>5. CASE StoreLastChecked(t)
    BY <2>1, <2>5 DEF StoreLastChecked
  <2>. QED
    BY <2>2, <2>3, <2>4, <2>5
<1>3. /\ pc' \in [Threads -> ThreadPc]
      /\ \A u \in Threads : pc'[u] \in {"schedule", "push"} => pc'[u] = pc[u]
  BY DEF ReadLastChecked, ReadScheduled, ReadProcessed, CompareBytes, StoreLastChecked,
         TypeInv, TypeOK, ThreadPc
<1>4. TypeOK'
  BY <1>1, <1>2, <1>3 DEF TypeInv, TypeOK, FlushVars, callVars, orderVars, historyVars
<1>5. Submitting'
  BY <1>1, <1>3 DEF TypeInv, Submitting, FlushVars, callVars
<1>. QED
  BY <1>4, <1>5 DEF TypeInv

LEMMA PopType ==
  ASSUME TypeInv, NEW type \in {"record", "skip"}, PopTask(type)
  PROVE  /\ Head(concurrentQueue) \in Task
         /\ Head(concurrentQueue).key \in Keys
         /\ concurrentQueue' \in Seq(Task)
         /\ processedBytes' \in Nat
<1>1. Head(concurrentQueue) \in Task /\ concurrentQueue' \in Seq(Task)
  BY HeadTailProperties DEF PopTask, TypeInv, TypeOK
<1>2. type = "record" => Head(concurrentQueue) \in RecordTask
  BY <1>1, TaskTypes DEF PopTask
<1>3. processedBytes' \in Nat
  BY <1>2, TaskTypes DEF PopTask, TaskBytes, TypeInv, TypeOK
<1>. QED
  BY <1>1, <1>3, TaskTypes

LEMMA RangeType ==
  ASSUME TypeInv, NEW key, NEW s \in GetSkippedRange(key)
  PROVE  s \in DOMAIN skippedKeyRanges /\ s <= key /\ key <= skippedKeyRanges[s]
  BY DEF GetSkippedRange

LEMMA WorkerType ==
  ASSUME TypeInv, WorkerStep
  PROVE  TypeInv'
<1>1. UNCHANGED WorkerVars
  BY DEF WorkerStep, SkipCurrent, SkipAhead, RecordCurrent, RecordAhead, RecordSkipped,
         UpdateNextKey, CheckPendingSerializers, ExitWorker
<1>2. concurrentQueue' \in Seq(Task) /\ processedBytes' \in Nat
  BY PopType DEF WorkerStep, SkipCurrent, SkipAhead, RecordCurrent, RecordAhead,
       RecordSkipped, UpdateNextKey, CheckPendingSerializers, ExitWorker, TypeInv, TypeOK
<1>3. worker' \in WorkerPc
  BY DEF WorkerStep, SkipCurrent, SkipAhead, RecordCurrent, RecordAhead, RecordSkipped,
         UpdateNextKey, CheckPendingSerializers, ExitWorker, WorkerPc, TypeInv, TypeOK,
         orderVars
<1>4. nextKey' \in Nat \ {0} /\ (nextKey' = nextKey \/ nextKey' > nextKey)
  <2>1. CASE UpdateNextKey
    <3>. DEFINE key == nextKey + 1
    <3>1. nextKey \in Nat \ {0} /\ key \in Nat /\ key > nextKey /\ key # 0
      BY DEF TypeInv, TypeOK
    <3>2. CASE nextKey' = key
      BY <3>1, <3>2
    <3>3. CASE \E s \in GetSkippedRange(key) : nextKey' = skippedKeyRanges[s]
      <4>1. PICK s \in GetSkippedRange(key) : nextKey' = skippedKeyRanges[s]
        BY <3>3
      <4>2. skippedKeyRanges[s] \in Nat /\ key <= skippedKeyRanges[s]
        BY RangeType DEF TypeInv, TypeOK
      <4>. QED
        BY <3>1, <4>1, <4>2
    <3>. QED
      BY <2>1, <3>2, <3>3 DEF UpdateNextKey, EndKey
  <2>2. CASE ~UpdateNextKey
    BY <2>2 DEF WorkerStep, SkipCurrent, SkipAhead, RecordCurrent, RecordAhead,
       RecordSkipped, CheckPendingSerializers, ExitWorker, TypeInv, TypeOK, orderVars
  <2>. QED
    BY <2>1, <2>2
<1>5. serializers' \subseteq Keys
  BY PopType DEF WorkerStep, SkipCurrent, SkipAhead, RecordCurrent, RecordAhead,
       RecordSkipped, UpdateNextKey, CheckPendingSerializers, ExitWorker, TypeInv, TypeOK,
       orderVars
<1>6. written' \in Seq(Keys)
  <2>1. written \in Seq(Keys) /\ serializers \subseteq Keys
    BY DEF TypeInv, TypeOK
  <2>2. CASE RecordCurrent
    BY <2>1, <2>2, PopType DEF RecordCurrent
  <2>3. CASE CheckPendingSerializers
    BY <2>1, <2>3 DEF CheckPendingSerializers, IsTop
  <2>4. CASE written' = written
    BY <2>1, <2>4
  <2>. QED
    BY <2>2, <2>3, <2>4 DEF WorkerStep, SkipCurrent, SkipAhead, RecordAhead, RecordSkipped,
         UpdateNextKey, ExitWorker
<1>7. DOMAIN skippedKeyRanges' \subseteq Keys
       /\ \A s \in DOMAIN skippedKeyRanges' : skippedKeyRanges'[s] \in Nat
  <2>1. CASE SkipAhead
    <3>. DEFINE key == Head(concurrentQueue).key
    <3>1. key \in Keys
      BY <2>1, PopType DEF SkipAhead
    <3>2. CASE \E s \in GetSkippedRange(key - 1) :
                 skippedKeyRanges' = [skippedKeyRanges EXCEPT ![s] = @ + 1]
      BY <3>2 DEF GetSkippedRange, TypeInv, TypeOK
    <3>3. CASE skippedKeyRanges' = [s \in DOMAIN skippedKeyRanges \cup {key} |->
                                     IF s = key THEN key ELSE skippedKeyRanges[s]]
      BY <3>1, <3>3 DEF TypeInv, TypeOK, Keys
    <3>. QED
      BY <2>1, <3>2, <3>3 DEF SkipAhead
  <2>2. CASE UpdateNextKey
    <3>1. \/ skippedKeyRanges' = skippedKeyRanges
          \/ \E s : skippedKeyRanges' = [o \in DOMAIN skippedKeyRanges \ {s} |-> skippedKeyRanges[o]]
      BY <2>2 DEF UpdateNextKey
    <3>. QED
      BY <3>1 DEF TypeInv, TypeOK
  <2>3. CASE ~SkipAhead /\ ~UpdateNextKey
    BY <2>3 DEF WorkerStep, SkipCurrent, RecordCurrent, RecordAhead, RecordSkipped,
         CheckPendingSerializers, ExitWorker, TypeInv, TypeOK, orderVars
  <2>. QED
    BY <2>1, <2>2, <2>3
<1>8. TypeOK'
  BY <1>1, <1>2, <1>3, <1>4, <1>5, <1>6, <1>7
     DEF TypeInv, TypeOK, WorkerVars, threadVars, historyVars
<1>9. Submitting'
  BY <1>1 DEF TypeInv, Submitting, WorkerVars, threadVars
<1>. QED
  BY <1>8, <1>9 DEF TypeInv

LEMMA CloserType ==
  ASSUME TypeInv, NEW c \in Closers, CloseCheck(c) \/ CloserStep(c)
  PROVE  TypeInv'
<1>1. UNCHANGED CloserVars
  BY DEF CloserStep, CloseCheck, CloseSet, CloseJoin, CloseRecorder
<1>2. closer' \in [Closers -> CloserPc] /\ closed' \in BOOLEAN /\ saved' \in BOOLEAN
  BY DEF CloserStep, CloseCheck, CloseSet, CloseJoin, CloseRecorder, CloserPc, TypeInv, TypeOK
<1>3. TypeOK'
  BY <1>1, <1>2 DEF TypeInv, TypeOK, CloserVars, threadVars, byteVars, orderVars, historyVars
<1>4. Submitting'
  BY <1>1 DEF TypeInv, Submitting, CloserVars, threadVars
<1>. QED
  BY <1>3, <1>4 DEF TypeInv

LEMMA StutterType ==
  ASSUME TypeInv, UNCHANGED vars
  PROVE  TypeInv'
  BY DEF TypeInv, TypeOK, Submitting, vars, threadVars, byteVars, orderVars, historyVars

LEMMA TypeStep == TypeInv /\ [Next]_vars => TypeInv'
<1>. SUFFICES ASSUME TypeInv, [Next]_vars PROVE TypeInv'
  OBVIOUS
<1>1. CASE \E t \in Threads : CreateCommandKey(t) \/ ThreadStep(t)
  BY <1>1, CreateType, EncodeType, SubmitType, ScheduleType, PushType, FlushType
     DEF ThreadStep
<1>2. CASE WorkerStep
  BY <1>2, WorkerType
<1>3. CASE \E c \in Closers : CloseCheck(c) \/ CloserStep(c)
  BY <1>3, CloserType
<1>4. CASE UNCHANGED vars
  BY <1>4, StutterType
<1>. QED
  BY <1>1, <1>2, <1>3, <1>4 DEF Next

(***************************************************************************)
(* Every variable keeps its type: whatever the layers submit, a thread     *)
(* inside Record or Skip has a command to submit, and only a command has   *)
(* bytes that are scheduled.                                               *)
(***************************************************************************)
THEOREM TypeCorrect == Spec => []TypeOK
<1>1. TypeInv => TypeOK
  BY DEF TypeInv
<1>. QED
  BY <1>1, TypeInit, TypeStep, PTL DEF Spec
-----------------------------------------------------------------------------
(***************************************************************************)
(* The order of the stream.  Only the worker writes, and only the command  *)
(* at nextKey; then it moves nextKey on, by one or to the end of a range.  *)
(***************************************************************************)
LEMMA WrittenInt ==
  ASSUME TypeOK
  PROVE  written \in Seq(Int) /\ nextKey \in Nat
<1>1. written \in Seq(Keys) /\ Keys \subseteq Int /\ nextKey \in Nat
  BY DEF TypeOK, Keys
<1>. QED
  BY <1>1, SeqMonotonic

LEMMA AppendNext ==
  ASSUME OrderInv, worker # "update", nextKey \in Keys, written' = Append(written, nextKey),
         nextKey' = nextKey, worker' = "update"
  PROVE  WrittenBehind' /\ WrittenInOrder'
<1>0. written \in Seq(Int) /\ nextKey \in Nat
  BY WrittenInt DEF OrderInv, TypeInv
<1>1. \A i \in 1..Len(written) : written[i] \in Int /\ written[i] < nextKey
  BY <1>0 DEF OrderInv, WrittenBehind
<1>2. /\ Len(written') = Len(written) + 1 /\ Len(written) \in Nat
      /\ \A i \in 1..Len(written) : written'[i] = written[i]
      /\ written'[Len(written) + 1] = nextKey
  BY <1>0, <1>1
<1>3. WrittenBehind'
  BY <1>0, <1>1, <1>2 DEF WrittenBehind, Keys
<1>4. WrittenInOrder'
  BY <1>0, <1>1, <1>2 DEF OrderInv, WrittenInOrder
<1>. QED
  BY <1>3, <1>4

LEMMA SkipAheadOrder ==
  ASSUME OrderInv, SkipAhead
  PROVE  RangesForward'
<1>. DEFINE key == Head(concurrentQueue).key
<1>1. key \in Keys
  BY PopType DEF SkipAhead, OrderInv
<1>2. /\ DOMAIN skippedKeyRanges \subseteq Int
      /\ \A s \in DOMAIN skippedKeyRanges : s <= skippedKeyRanges[s] /\ skippedKeyRanges[s] \in Nat
  BY DEF OrderInv, TypeInv, TypeOK, RangesForward, Keys
<1>3. CASE \E s \in GetSkippedRange(key - 1) :
             skippedKeyRanges' = [skippedKeyRanges EXCEPT ![s] = @ + 1]
  BY <1>2, <1>3 DEF GetSkippedRange, RangesForward
<1>4. CASE skippedKeyRanges' = [s \in DOMAIN skippedKeyRanges \cup {key} |->
                                 IF s = key THEN key ELSE skippedKeyRanges[s]]
  BY <1>1, <1>2, <1>4 DEF RangesForward, Keys
<1>. QED
  BY <1>3, <1>4 DEF SkipAhead

LEMMA UpdateOrder ==
  ASSUME OrderInv, UpdateNextKey
  PROVE  RangesForward' /\ WrittenBehind'
<1>. DEFINE key == nextKey + 1
<1>1. nextKey \in Nat /\ written' = written
      /\ \A i \in 1..Len(written) : written[i] \in Int /\ written[i] <= nextKey
  BY WrittenInt DEF OrderInv, TypeInv, WrittenBehind, UpdateNextKey
<1>2. nextKey' \in Int /\ nextKey' > nextKey
  <2>1. CASE nextKey' = key
    BY <1>1, <2>1
  <2>2. CASE \E s \in GetSkippedRange(key) : nextKey' = skippedKeyRanges[s]
    <3>1. PICK s \in GetSkippedRange(key) : nextKey' = skippedKeyRanges[s]
      BY <2>2
    <3>2. skippedKeyRanges[s] \in Nat /\ key <= skippedKeyRanges[s]
      BY RangeType DEF OrderInv, TypeInv, TypeOK
    <3>. QED
      BY <1>1, <3>1, <3>2
  <2>. QED
    BY <2>1, <2>2 DEF UpdateNextKey, EndKey
<1>3. WrittenBehind'
  BY <1>1, <1>2 DEF WrittenBehind
<1>4. RangesForward'
  BY DEF UpdateNextKey, OrderInv, RangesForward
<1>. QED
  BY <1>3, <1>4

LEMMA WorkerOrder ==
  ASSUME OrderInv, WorkerStep
  PROVE  RangesForward' /\ WrittenBehind' /\ WrittenInOrder'
<1>. USE DEF OrderInv
<1>1. CASE SkipCurrent \/ RecordAhead \/ RecordSkipped \/ ExitWorker
  BY <1>1 DEF SkipCurrent, RecordAhead, RecordSkipped, ExitWorker, PopTask, orderVars,
       RangesForward, WrittenBehind, WrittenInOrder
<1>2. CASE SkipAhead
  BY <1>2, SkipAheadOrder DEF SkipAhead, WrittenBehind, WrittenInOrder
<1>3. CASE RecordCurrent
  <2>1. nextKey \in Keys /\ written' = Append(written, nextKey)
    BY <1>3, PopType DEF RecordCurrent, IsDue
  <2>. QED
    BY <1>3, <2>1, AppendNext DEF RecordCurrent, PopTask, orderVars, RangesForward
<1>4. CASE UpdateNextKey
  BY <1>4, UpdateOrder DEF UpdateNextKey, WrittenInOrder
<1>5. CASE CheckPendingSerializers /\ IsTop(nextKey)
  <2>1. nextKey \in Keys
    BY <1>5 DEF IsTop, TypeInv, TypeOK
  <2>. QED
    BY <1>5, <2>1, AppendNext DEF CheckPendingSerializers, RangesForward
<1>6. CASE CheckPendingSerializers /\ ~IsTop(nextKey)
  BY <1>6 DEF CheckPendingSerializers, RangesForward, WrittenBehind, WrittenInOrder
<1>. QED
  BY <1>1, <1>2, <1>3, <1>4, <1>5, <1>6 DEF WorkerStep

LEMMA OthersOrder ==
  ASSUME [Next]_vars, ~WorkerStep
  PROVE  UNCHANGED <<worker, orderVars, written>>
<1>1. CASE \E t \in Threads : CreateCommandKey(t) \/ ThreadStep(t)
  BY <1>1 DEF ThreadStep, CreateCommandKey, EncodePresent, SubmitClosed, SubmitOpen,
       ScheduleBytes, PushTask, ReadLastChecked, ReadScheduled, ReadProcessed,
       CompareBytes, StoreLastChecked, FlushVars
<1>2. CASE \E c \in Closers : CloseCheck(c) \/ CloserStep(c)
  BY <1>2 DEF CloserStep, CloseCheck, CloseSet, CloseJoin, CloseRecorder, CloserVars
<1>. QED
  BY <1>1, <1>2 DEF Next, vars

LEMMA OrderStep == OrderInv /\ [Next]_vars => OrderInv'
<1>. SUFFICES ASSUME OrderInv, [Next]_vars PROVE OrderInv'
  OBVIOUS
<1>1. TypeInv'
  BY TypeStep DEF OrderInv
<1>2. CASE WorkerStep
  BY <1>1, <1>2, WorkerOrder DEF OrderInv
<1>3. CASE ~WorkerStep
  BY <1>1, <1>3, OthersOrder
     DEF OrderInv, orderVars, RangesForward, WrittenBehind, WrittenInOrder
<1>. QED
  BY <1>2, <1>3

(***************************************************************************)
(* The commands reach the StreamWriter in the order of their keys,         *)
(* whatever the order in which the threads submit them and whatever they   *)
(* skip.                                                                   *)
(***************************************************************************)
THEOREM OrderCorrect == Spec => []WrittenInOrder
<1>1. Init => OrderInv
  BY TypeInit DEF Init, OrderInv, RangesForward, WrittenBehind, WrittenInOrder
<1>2. OrderInv => WrittenInOrder
  BY DEF OrderInv
<1>. QED
  BY <1>1, <1>2, OrderStep, PTL DEF Spec
-----------------------------------------------------------------------------
(***************************************************************************)
(* The byte counters: the unsigned differences of ConditionalFlush do not  *)
(* wrap around, and what is in flight is bounded.                          *)
(***************************************************************************)

(***************************************************************************)
(* A sum over threads and a queue is not at hand here.  Instead, every     *)
(* byte that was scheduled has a number, and at most one owner: it is      *)
(* processed, or belongs to a command in the queue, or to the command that *)
(* a thread is pushing.                                                    *)
(***************************************************************************)
Pushing(t) == pc[t] = "push" /\ Head(todo[t]).type = "record"
Bytes == 1..scheduledBytes

Owns(done, queued, pushing) ==
  /\ done \subseteq Bytes /\ Cardinality(done) = processedBytes
  /\ \A i \in DOMAIN concurrentQueue :
       /\ queued[i] \subseteq Bytes /\ done \cap queued[i] = {}
       /\ concurrentQueue[i].type = "record"
            => Cardinality(queued[i]) = concurrentQueue[i].size
       /\ \A j \in DOMAIN concurrentQueue : i # j => queued[i] \cap queued[j] = {}
       /\ \A t \in Threads : queued[i] \cap pushing[t] = {}
  /\ \A t \in Threads :
       /\ pushing[t] \subseteq Bytes /\ done \cap pushing[t] = {}
       /\ Pushing(t) => Cardinality(pushing[t]) = Head(todo[t]).size
       /\ \A u \in Threads : t # u => pushing[t] \cap pushing[u] = {}

BytesOwned == \E done, queued, pushing : Owns(done, queued, pushing)

\* What ConditionalFlush has read was never more than what is scheduled.
FlushCovered ==
  /\ lastCheckedBytes <= scheduledBytes
  /\ \A t \in Threads :
       /\ flush[t].lastChecked <= scheduledBytes
       /\ flush[t].scheduled <= scheduledBytes
       /\ flush[t].processed <= processedBytes

\* A check that was passed was passed close to what is processed.
CheckedClose ==
  /\ lastCheckedBytes <= processedBytes + BYTES_ALLOWED_DIFFERENCE
  /\ \A t \in Threads :
       /\ pc[t] = "interval"
            => flush[t].lastChecked <= processedBytes + BYTES_ALLOWED_DIFFERENCE
       /\ pc[t] = "store"
            => flush[t].scheduled <= processedBytes + BYTES_ALLOWED_DIFFERENCE

\* The threads that have scheduled a command and have not passed the check since.
Unchecked ==
  {t \in Threads : \/ Pushing(t)
                   \/ pc[t] \in {"lastChecked", "interval", "processed", "compare"}}

AheadBounded ==
  scheduledBytes - processedBytes
    <= BYTES_CHECK_INTERVAL + BYTES_ALLOWED_DIFFERENCE + Cardinality(Unchecked) * MaxSize

ByteInv == TypeInv /\ BytesOwned /\ FlushCovered /\ CheckedClose /\ AheadBounded
-----------------------------------------------------------------------------
(***************************************************************************)
(* The counters only grow, and what a thread or the queue holds follows    *)
(* the command.                                                            *)
(***************************************************************************)
LEMMA OwnedBound ==
  ASSUME TypeInv, NEW done, NEW queued, NEW pushing, Owns(done, queued, pushing)
  PROVE  /\ IsFiniteSet(Bytes) /\ IsFiniteSet(done)
         /\ processedBytes <= scheduledBytes
<1>1. scheduledBytes \in Nat
  BY DEF TypeInv, TypeOK
<1>2. IsFiniteSet(Bytes) /\ Cardinality(Bytes) = scheduledBytes
  BY <1>1, FS_Interval DEF Bytes
<1>3. done \in SUBSET Bytes /\ Cardinality(done) = processedBytes
  BY DEF Owns
<1>. QED
  BY <1>2, <1>3, FS_Subset

LEMMA ScheduleOwned ==
  ASSUME TypeInv, BytesOwned, NEW t \in Threads, ScheduleBytes(t)
  PROVE  BytesOwned'
<1>1. PICK done, queued, pushing : Owns(done, queued, pushing)
  BY DEF BytesOwned
<1>. DEFINE size == Head(todo[t]).size
<1>0. PICK new : new = (scheduledBytes + 1)..(scheduledBytes + size)
  OBVIOUS
<1>. DEFINE pushing2 == [u \in Threads |-> IF u = t THEN new ELSE pushing[u]]
<1>2. /\ scheduledBytes \in Nat /\ size \in Nat /\ scheduledBytes' = scheduledBytes + size
      /\ pc \in [Threads -> ThreadPc] /\ pc' = [pc EXCEPT ![t] = "push"]
      /\ UNCHANGED <<todo, concurrentQueue, processedBytes>>
  BY TaskTypes DEF TypeInv, TypeOK, Submitting, ScheduleBytes, callVars
<1>3. Bytes \subseteq Bytes' /\ new \subseteq Bytes' /\ Bytes \cap new = {}
  BY <1>0, <1>2 DEF Bytes
<1>4. Cardinality(new) = size
  <2>1. PICK a \in Int, b \in Int : a = scheduledBytes + 1 /\ b = scheduledBytes + size
    BY <1>2
  <2>2. Cardinality(a..b) = IF a > b THEN 0 ELSE b - a + 1
    BY FS_Interval
  <2>3. new = a..b
    BY <1>0, <2>1
  <2>4. b - a + 1 = size /\ (a > b => size = 0)
    BY <1>2, <2>1
  <2>. QED
    BY <1>2, <2>2, <2>3, <2>4
<1>5. Owns(done, queued, pushing2)'
  <2>1. \A u \in Threads : u # t => (Pushing(u)' <=> Pushing(u)) /\ pushing2[u] = pushing[u]
    BY <1>2 DEF Pushing
  <2>2. done \subseteq Bytes' /\ Cardinality(done) = processedBytes'
    BY <1>1, <1>2, <1>3 DEF Owns
  <2>3. \A i \in DOMAIN concurrentQueue' :
          /\ queued[i] \subseteq Bytes' /\ done \cap queued[i] = {}
          /\ concurrentQueue'[i].type = "record"
               => Cardinality(queued[i]) = concurrentQueue'[i].size
          /\ \A j \in DOMAIN concurrentQueue' : i # j => queued[i] \cap queued[j] = {}
    BY <1>1, <1>2, <1>3 DEF Owns
  <2>4. \A i \in DOMAIN concurrentQueue', u \in Threads : queued[i] \cap pushing2[u] = {}
    BY <1>1, <1>2, <1>3 DEF Owns
  <2>5. \A u \in Threads : pushing2[u] \subseteq Bytes' /\ done \cap pushing2[u] = {}
    BY <1>1, <1>3 DEF Owns
  <2>6. \A u \in Threads : Pushing(u)' => Cardinality(pushing2[u]) = Head(todo'[u]).size
    BY <1>1, <1>2, <1>4, <2>1 DEF Owns
  <2>7. \A u, v \in Threads : u # v => pushing2[u] \cap pushing2[v] = {}
    BY <1>1, <1>3 DEF Owns
  <2>. QED
    BY <2>2, <2>3, <2>4, <2>5, <2>6, <2>7 DEF Owns
<1>. QED
  BY <1>5 DEF BytesOwned

LEMMA PushOwned ==
  ASSUME TypeInv, BytesOwned, NEW t \in Threads, PushTask(t)
  PROVE  BytesOwned'
<1>1. PICK done, queued, pushing : Owns(done, queued, pushing)
  BY DEF BytesOwned
<1>. DEFINE task == Head(todo[t])
            last == Len(concurrentQueue) + 1
<1>0. PICK queued2 : queued2 = [i \in DOMAIN concurrentQueue' |->
                                 IF i = last THEN pushing[t] ELSE queued[i]]
  OBVIOUS
<1>. DEFINE pushing2 == [u \in Threads |-> IF u = t THEN {} ELSE pushing[u]]
<1>2. /\ concurrentQueue \in Seq(Task) /\ task \in Task /\ pc[t] = "push"
      /\ concurrentQueue' = Append(concurrentQueue, task)
      /\ pc \in [Threads -> ThreadPc] /\ todo \in [Threads -> Seq(Task \cup Present)]
      /\ pc'[t] # "push"
      /\ \A u \in Threads \ {t} : pc'[u] = pc[u] /\ todo'[u] = todo[u]
      /\ UNCHANGED <<scheduledBytes, processedBytes>>
  BY DEF TypeInv, TypeOK, Submitting, PushTask, byteVars
<1>3. /\ \A i \in DOMAIN concurrentQueue' : i = last \/ i \in DOMAIN concurrentQueue
      /\ \A i \in DOMAIN concurrentQueue : i # last /\ concurrentQueue'[i] = concurrentQueue[i]
      /\ concurrentQueue'[last] = task
  <2>1. /\ Len(concurrentQueue) \in Nat /\ DOMAIN concurrentQueue = 1..Len(concurrentQueue)
    BY <1>2, LenProperties
  <2>2. /\ DOMAIN concurrentQueue' = 1..last /\ concurrentQueue'[last] = task
        /\ \A i \in 1..Len(concurrentQueue) : concurrentQueue'[i] = concurrentQueue[i]
    BY <1>2, AppendProperties, LenProperties
  <2>. QED
    BY <2>1, <2>2
<1>4. /\ Pushing(t) <=> task.type = "record"
      /\ ~Pushing(t)'
      /\ \A u \in Threads \ {t} : Pushing(u)' <=> Pushing(u)
  BY <1>2 DEF Pushing
<1>5. Bytes' = Bytes
  BY <1>2 DEF Bytes
<1>6. Owns(done, queued2, pushing2)'
  <2>1. done \subseteq Bytes' /\ Cardinality(done) = processedBytes'
    BY <1>1, <1>2, <1>5 DEF Owns
  <2>2. \A i \in DOMAIN concurrentQueue' : queued2[i] \subseteq Bytes' /\ done \cap queued2[i] = {}
    BY <1>0, <1>1, <1>3, <1>5 DEF Owns
  <2>3. \A i \in DOMAIN concurrentQueue' : concurrentQueue'[i].type = "record"
               => Cardinality(queued2[i]) = concurrentQueue'[i].size
    BY <1>0, <1>1, <1>3, <1>4 DEF Owns
  <2>4. \A i, j \in DOMAIN concurrentQueue' : i # j => queued2[i] \cap queued2[j] = {}
    BY <1>0, <1>1, <1>3 DEF Owns
  <2>5. \A i \in DOMAIN concurrentQueue', u \in Threads : queued2[i] \cap pushing2[u] = {}
    BY <1>0, <1>1, <1>3 DEF Owns
  <2>6. \A u \in Threads : pushing2[u] \subseteq Bytes' /\ done \cap pushing2[u] = {}
    BY <1>1, <1>5 DEF Owns
  <2>7. \A u \in Threads : Pushing(u)' => Cardinality(pushing2[u]) = Head(todo'[u]).size
    BY <1>1, <1>2, <1>4 DEF Owns
  <2>8. \A u, v \in Threads : u # v => pushing2[u] \cap pushing2[v] = {}
    BY <1>1 DEF Owns
  <2>. QED
    BY <2>1, <2>2, <2>3, <2>4, <2>5, <2>6, <2>7, <2>8 DEF Owns
<1>. QED
  BY <1>6 DEF BytesOwned

LEMMA PopOwned ==
  ASSUME TypeInv, BytesOwned, NEW type \in {"record", "skip"}, PopTask(type),
         UNCHANGED <<pc, todo, scheduledBytes>>
  PROVE  BytesOwned'
<1>1. PICK done, queued, pushing : Owns(done, queued, pushing)
  BY DEF BytesOwned
<1>. DEFINE task == Head(concurrentQueue)
<1>0. PICK done2, queued2 :
        /\ done2 = IF type = "record" THEN done \cup queued[1] ELSE done
        /\ queued2 = [i \in DOMAIN concurrentQueue' |-> queued[i + 1]]
  OBVIOUS
<1>2. /\ concurrentQueue \in Seq(Task) /\ concurrentQueue # <<>>
      /\ concurrentQueue' = Tail(concurrentQueue) /\ task.type = type
      /\ processedBytes' = processedBytes + (IF type = "record" THEN task.size ELSE 0)
      /\ processedBytes \in Nat
  BY DEF TypeInv, TypeOK, PopTask, TaskBytes
<1>3. /\ 1 \in DOMAIN concurrentQueue /\ concurrentQueue[1] = task
      /\ \A i \in DOMAIN concurrentQueue' :
           /\ i \in Int /\ i + 1 # 1 /\ i + 1 \in DOMAIN concurrentQueue
           /\ concurrentQueue'[i] = concurrentQueue[i + 1]
  <2>1. /\ Len(concurrentQueue) \in Nat \ {0} /\ DOMAIN concurrentQueue = 1..Len(concurrentQueue)
        /\ concurrentQueue[1] = task
        /\ Len(concurrentQueue') = Len(concurrentQueue) - 1
        /\ concurrentQueue' \in Seq(Task)
        /\ \A i \in 1..Len(concurrentQueue) - 1 : concurrentQueue'[i] = concurrentQueue[i + 1]
    BY <1>2, HeadTailProperties, LenProperties, EmptySeq
  <2>2. DOMAIN concurrentQueue' = 1..Len(concurrentQueue) - 1
    BY <2>1, LenProperties
  <2>. QED
    BY <2>1, <2>2
<1>4. Bytes' = Bytes /\ \A u \in Threads : Pushing(u)' <=> Pushing(u)
  BY DEF Bytes, Pushing
<1>5. Cardinality(done2) = processedBytes'
  <2>1. CASE type = "skip"
    BY <1>0, <1>1, <1>2, <2>1 DEF Owns
  <2>2. CASE type = "record"
    <3>1. /\ done \cap queued[1] = {} /\ Cardinality(queued[1]) = task.size
          /\ Cardinality(done) = processedBytes
          /\ queued[1] \in SUBSET Bytes
      BY <1>1, <1>2, <1>3, <2>2 DEF Owns
    <3>2. IsFiniteSet(done) /\ IsFiniteSet(queued[1])
      BY <1>1, <3>1, OwnedBound, FS_Subset
    <3>3. Cardinality(queued[1]) \in Nat /\ Cardinality(done \cap queued[1]) = 0
      BY <3>1, <3>2, FS_CardinalityType, FS_EmptySet
    <3>4. Cardinality(done \cup queued[1])
            = Cardinality(done) + Cardinality(queued[1]) - Cardinality(done \cap queued[1])
      BY <3>2, FS_Union
    <3>. QED
      BY <1>0, <1>2, <2>2, <3>1, <3>3, <3>4
  <2>. QED
    BY <2>1, <2>2
<1>6. Owns(done2, queued2, pushing)'
  <2>1. done2 \subseteq Bytes'
    BY <1>0, <1>1, <1>3, <1>4 DEF Owns
  <2>2. \A i \in DOMAIN concurrentQueue' : queued2[i] \subseteq Bytes' /\ done2 \cap queued2[i] = {}
    BY <1>0, <1>1, <1>3, <1>4 DEF Owns
  <2>3. \A i \in DOMAIN concurrentQueue' : concurrentQueue'[i].type = "record"
               => Cardinality(queued2[i]) = concurrentQueue'[i].size
    BY <1>0, <1>1, <1>3 DEF Owns
  <2>4. \A i, j \in DOMAIN concurrentQueue' : i # j => queued2[i] \cap queued2[j] = {}
    <3>. SUFFICES ASSUME NEW i \in DOMAIN concurrentQueue', NEW j \in DOMAIN concurrentQueue', i # j
                  PROVE  queued[i + 1] \cap queued[j + 1] = {}
      BY <1>0
    <3>1. i + 1 # j + 1
      BY <1>3
    <3>. QED
      BY <1>0, <1>1, <1>3, <3>1 DEF Owns
  <2>5. \A i \in DOMAIN concurrentQueue', u \in Threads : queued2[i] \cap pushing[u] = {}
    BY <1>0, <1>1, <1>3 DEF Owns
  <2>6. \A u \in Threads : pushing[u] \subseteq Bytes' /\ done2 \cap pushing[u] = {}
    BY <1>0, <1>1, <1>3, <1>4 DEF Owns
  <2>7. \A u \in Threads : Pushing(u)' => Cardinality(pushing[u]) = Head(todo'[u]).size
    BY <1>1, <1>4 DEF Owns
  <2>8. \A u, v \in Threads : u # v => pushing[u] \cap pushing[v] = {}
    BY <1>1 DEF Owns
  <2>. QED
    BY <1>5, <2>1, <2>2, <2>3, <2>4, <2>5, <2>6, <2>7, <2>8 DEF Owns
<1>. QED
  BY <1>6 DEF BytesOwned

\* The other steps neither schedule, push nor process.
LEMMA OthersOwned ==
  ASSUME BytesOwned, UNCHANGED <<scheduledBytes, processedBytes, concurrentQueue>>,
         \A u \in Threads : Pushing(u)' => Pushing(u) /\ todo'[u] = todo[u]
  PROVE  BytesOwned'
<1>1. PICK done, queued, pushing : Owns(done, queued, pushing)
  BY DEF BytesOwned
<1>2. Owns(done, queued, pushing)'
  <2>1. \A u \in Threads : Pushing(u)' => Cardinality(pushing[u]) = Head(todo'[u]).size
    BY <1>1 DEF Owns
  <2>. QED
    BY <1>1, <2>1 DEF Owns, Bytes
<1>. QED
  BY <1>2 DEF BytesOwned

LEMMA OwnedStep ==
  ASSUME TypeInv, BytesOwned, [Next]_vars
  PROVE  BytesOwned'
<1>1. CASE \E t \in Threads : ScheduleBytes(t) \/ PushTask(t)
  BY <1>1, ScheduleOwned, PushOwned
<1>2. CASE SkipCurrent \/ SkipAhead \/ RecordCurrent \/ RecordAhead \/ RecordSkipped
  <2>1. UNCHANGED <<pc, todo, scheduledBytes>>
    BY <1>2 DEF SkipCurrent, SkipAhead, RecordCurrent, RecordAhead, RecordSkipped,
         WorkerVars, threadVars
  <2>2. PopTask("skip") \/ PopTask("record")
    BY <1>2 DEF SkipCurrent, SkipAhead, RecordCurrent, RecordAhead, RecordSkipped
  <2>. QED
    BY <2>1, <2>2, PopOwned
<1>3. CASE UpdateNextKey \/ CheckPendingSerializers \/ ExitWorker
           \/ (\E c \in Closers : CloseCheck(c) \/ CloserStep(c)) \/ UNCHANGED vars
  <2>1. UNCHANGED <<pc, todo, scheduledBytes, processedBytes, concurrentQueue>>
    BY <1>3 DEF UpdateNextKey, CheckPendingSerializers, ExitWorker, WorkerVars, CloserStep,
         CloseCheck, CloseSet, CloseJoin, CloseRecorder, CloserVars, threadVars, byteVars, vars
  <2>. QED
    BY <2>1, OthersOwned DEF Pushing
<1>4. CASE \E t \in Threads : \/ CreateCommandKey(t) \/ EncodePresent(t) \/ SubmitClosed(t)
                              \/ SubmitOpen(t) \/ ReadLastChecked(t) \/ ReadScheduled(t)
                              \/ ReadProcessed(t) \/ CompareBytes(t) \/ StoreLastChecked(t)
  <2>1. UNCHANGED <<scheduledBytes, processedBytes, concurrentQueue>>
    BY <1>4 DEF CreateCommandKey, EncodePresent, SubmitClosed, SubmitOpen, ReadLastChecked,
         ReadScheduled, ReadProcessed, CompareBytes, StoreLastChecked, FlushVars, byteVars
  <2>2. PICK t \in Threads : \/ CreateCommandKey(t) \/ EncodePresent(t) \/ SubmitClosed(t)
                             \/ SubmitOpen(t) \/ ReadLastChecked(t) \/ ReadScheduled(t)
                             \/ ReadProcessed(t) \/ CompareBytes(t) \/ StoreLastChecked(t)
    BY <1>4
  <2>3. /\ \A u \in Threads \ {t} : pc'[u] = pc[u]
        /\ pc'[t] = "push" => Head(todo'[t]).type # "record"
    <3>1. CASE CreateCommandKey(t) \/ EncodePresent(t) \/ SubmitClosed(t)
      BY <3>1 DEF CreateCommandKey, EncodePresent, SubmitClosed
    <3>2. CASE SubmitOpen(t)
      BY <3>2 DEF SubmitOpen, callVars, TypeInv, TypeOK
    <3>3. CASE \/ ReadLastChecked(t) \/ ReadScheduled(t) \/ ReadProcessed(t) \/ CompareBytes(t)
               \/ StoreLastChecked(t)
      BY <3>3 DEF TypeInv, TypeOK, ReadLastChecked, ReadScheduled, ReadProcessed, CompareBytes,
           StoreLastChecked
    <3>. QED
      BY <2>2, <3>1, <3>2, <3>3
  <2>4. \A u \in Threads \ {t} : todo'[u] = todo[u]
    BY <2>2 DEF TypeInv, TypeOK, CreateCommandKey, EncodePresent, SubmitClosed, SubmitOpen,
         ReadLastChecked, ReadScheduled, ReadProcessed, CompareBytes, StoreLastChecked,
         FlushVars, callVars
  <2>5. \A u \in Threads : Pushing(u)' => Pushing(u) /\ todo'[u] = todo[u]
    BY <2>3, <2>4 DEF Pushing
  <2>. QED
    BY <2>1, <2>5, OthersOwned
<1>. QED
  BY <1>1, <1>2, <1>3, <1>4 DEF Next, ThreadStep, WorkerStep

(***************************************************************************)
(* What a step does to the counters and to the locals of ConditionalFlush. *)
(***************************************************************************)
LEMMA CounterTypes ==
  ASSUME TypeInv
  PROVE  /\ scheduledBytes \in Nat /\ processedBytes \in Nat /\ lastCheckedBytes \in Nat
         /\ pc \in [Threads -> ThreadPc]
         /\ flush \in [Threads -> [lastChecked : Nat, scheduled : Nat, processed : Nat]]
         /\ \A t \in Threads : /\ flush[t].lastChecked \in Nat /\ flush[t].scheduled \in Nat
                               /\ flush[t].processed \in Nat
         /\ BYTES_CHECK_INTERVAL \in Nat /\ BYTES_ALLOWED_DIFFERENCE \in Nat /\ MaxSize \in Nat
<1>1. \A f \in [lastChecked : Nat, scheduled : Nat, processed : Nat] :
        f.lastChecked \in Nat /\ f.scheduled \in Nat /\ f.processed \in Nat
  OBVIOUS
<1>. QED
  BY <1>1, BytesAssumption, MaxSizeAssumption DEF TypeInv, TypeOK

\* The worker only adds to what is processed, and leaves the threads alone.
LEMMA WorkerCounters ==
  ASSUME TypeInv, WorkerStep
  PROVE  /\ processedBytes' \in Nat /\ processedBytes <= processedBytes'
         /\ UNCHANGED <<pc, todo, flush, scheduledBytes, lastCheckedBytes>>
<1>1. UNCHANGED <<pc, todo, flush, scheduledBytes, lastCheckedBytes>>
  BY DEF WorkerStep, SkipCurrent, SkipAhead, RecordCurrent, RecordAhead, RecordSkipped,
       UpdateNextKey, CheckPendingSerializers, ExitWorker, WorkerVars, threadVars
<1>2. ASSUME NEW type \in {"record", "skip"}, PopTask(type)
      PROVE  processedBytes' \in Nat /\ processedBytes <= processedBytes'
  <2>1. type = "record" => Head(concurrentQueue).size \in Nat
    BY <1>2, PopType, TaskTypes DEF PopTask
  <2>. QED
    BY <1>2, <2>1, CounterTypes DEF PopTask, TaskBytes
<1>3. CASE UpdateNextKey \/ CheckPendingSerializers \/ ExitWorker
  <2>1. processedBytes' = processedBytes
    BY <1>3 DEF UpdateNextKey, CheckPendingSerializers, ExitWorker
  <2>. QED
    BY <1>1, <2>1, CounterTypes
<1>4. CASE SkipCurrent \/ SkipAhead \/ RecordCurrent \/ RecordAhead \/ RecordSkipped
  <2>1. PopTask("skip") \/ PopTask("record")
    BY <1>4 DEF SkipCurrent, SkipAhead, RecordCurrent, RecordAhead, RecordSkipped
  <2>. QED
    BY <1>1, <1>2, <2>1
<1>. QED
  BY <1>1, <1>3, <1>4 DEF WorkerStep

\* The closers and the submissions leave the counters alone.
LEMMA QuietCounters ==
  ASSUME TypeInv, [Next]_vars, ~WorkerStep,
         ~\E t \in Threads : ScheduleBytes(t) \/ PushTask(t) \/ ReadLastChecked(t)
             \/ ReadScheduled(t) \/ ReadProcessed(t) \/ CompareBytes(t) \/ StoreLastChecked(t)
  PROVE  /\ UNCHANGED <<flush, byteVars>>
         /\ \/ UNCHANGED <<pc, todo>>
            \/ \E t \in Threads : /\ pc[t] = "idle" /\ pc' = pc
                                  /\ \A u \in Threads \ {t} : todo'[u] = todo[u]
            \/ \E t \in Threads : SubmitOpen(t)
<1>1. CASE (\E c \in Closers : CloseCheck(c) \/ CloserStep(c)) \/ UNCHANGED vars
  BY <1>1 DEF CloserStep, CloseCheck, CloseSet, CloseJoin, CloseRecorder, CloserVars, vars,
       threadVars
<1>2. CASE \E t \in Threads : CreateCommandKey(t) \/ EncodePresent(t) \/ SubmitClosed(t)
  <2>1. PICK t \in Threads : CreateCommandKey(t) \/ EncodePresent(t) \/ SubmitClosed(t)
    BY <1>2
  <2>2. /\ UNCHANGED <<flush, byteVars>> /\ pc[t] = "idle" /\ pc' = pc
        /\ \A u \in Threads \ {t} : todo'[u] = todo[u]
    BY <2>1 DEF TypeInv, TypeOK, CreateCommandKey, EncodePresent, SubmitClosed
  <2>. QED
    BY <2>2
<1>3. CASE \E t \in Threads : SubmitOpen(t)
  BY <1>3 DEF SubmitOpen
<1>. QED
  BY <1>1, <1>2, <1>3 DEF Next, ThreadStep

LEMMA CoveredStep ==
  ASSUME TypeInv, BytesOwned, FlushCovered, [Next]_vars
  PROVE  FlushCovered'
<1>. USE CounterTypes DEF FlushCovered
<1>1. CASE WorkerStep
  <2>1. \A t \in Threads : flush[t].processed <= processedBytes'
    BY <1>1, WorkerCounters
  <2>. QED
    BY <1>1, <2>1, WorkerCounters
<1>2. CASE \E t \in Threads : ScheduleBytes(t)
  <2>1. PICK t \in Threads : ScheduleBytes(t)
    BY <1>2
  <2>2. /\ scheduledBytes' \in Nat /\ scheduledBytes <= scheduledBytes'
        /\ UNCHANGED <<flush, processedBytes, lastCheckedBytes>>
    <3>1. Head(todo[t]).size \in Nat
      BY <2>1, TaskTypes DEF TypeInv, Submitting, ScheduleBytes
    <3>2. /\ scheduledBytes' = scheduledBytes + Head(todo[t]).size
          /\ UNCHANGED <<flush, processedBytes, lastCheckedBytes>>
      BY <2>1 DEF ScheduleBytes
    <3>. QED
      BY <3>1, <3>2
  <2>. QED
    BY <2>2
<1>3. CASE \E t \in Threads : PushTask(t)
  BY <1>3 DEF PushTask, byteVars
<1>4. ASSUME NEW t \in Threads, ReadLastChecked(t) \/ ReadScheduled(t) \/ CompareBytes(t)
      PROVE  FlushCovered'
  <2>1. /\ UNCHANGED <<scheduledBytes, processedBytes, lastCheckedBytes>>
        /\ \A u \in Threads \ {t} : flush'[u] = flush[u]
    BY <1>4 DEF ReadLastChecked, ReadScheduled, CompareBytes, FlushVars
  <2>2. /\ flush'[t].lastChecked \in {flush[t].lastChecked, lastCheckedBytes}
        /\ flush'[t].scheduled \in {flush[t].scheduled, scheduledBytes}
        /\ flush'[t].processed = flush[t].processed
    BY <1>4 DEF ReadLastChecked, ReadScheduled, CompareBytes
  <2>. QED
    BY <2>1, <2>2
<1>5. ASSUME NEW t \in Threads, ReadProcessed(t)
      PROVE  FlushCovered'
  BY <1>5 DEF ReadProcessed, FlushVars
<1>6. ASSUME NEW t \in Threads, StoreLastChecked(t)
      PROVE  FlushCovered'
  BY <1>6 DEF StoreLastChecked, FlushVars
<1>7. CASE UNCHANGED <<flush, byteVars>>
  BY <1>7 DEF byteVars
<1>. QED
  BY <1>1, <1>2, <1>3, <1>4, <1>5, <1>6, <1>7, QuietCounters

LEMMA CheckedStep ==
  ASSUME TypeInv, FlushCovered, CheckedClose, [Next]_vars
  PROVE  CheckedClose'
<1>. USE CounterTypes DEF CheckedClose
<1>1. CASE WorkerStep
  <2>1. /\ processedBytes <= processedBytes' /\ processedBytes' \in Nat
        /\ UNCHANGED <<pc, flush, lastCheckedBytes>>
    BY <1>1, WorkerCounters
  <2>. QED
    BY <2>1
<1>2. ASSUME NEW t \in Threads, ScheduleBytes(t) \/ PushTask(t)
      PROVE  CheckedClose'
  <2>1. /\ UNCHANGED <<flush, processedBytes, lastCheckedBytes>>
        /\ \A u \in Threads : pc'[u] = pc[u] \/ pc'[u] \in {"push", "lastChecked", "idle"}
    BY <1>2 DEF ScheduleBytes, PushTask, byteVars
  <2>. QED
    BY <2>1
<1>3. ASSUME NEW t \in Threads, ReadLastChecked(t)
      PROVE  CheckedClose'
  BY <1>3 DEF ReadLastChecked, FlushVars
<1>4. ASSUME NEW t \in Threads, ReadScheduled(t) \/ ReadProcessed(t)
      PROVE  CheckedClose'
  BY <1>4 DEF ReadScheduled, ReadProcessed, FlushVars
<1>5. ASSUME NEW t \in Threads, CompareBytes(t)
      PROVE  CheckedClose'
  <2>1. flush[t].processed <= processedBytes
    BY DEF FlushCovered
  <2>2. pc'[t] = "store" => flush'[t].scheduled <= processedBytes + BYTES_ALLOWED_DIFFERENCE
    BY <1>5, <2>1 DEF CompareBytes, TooFarAhead
  <2>3. /\ UNCHANGED <<processedBytes, lastCheckedBytes>>
        /\ \A u \in Threads \ {t} : pc'[u] = pc[u] /\ flush'[u] = flush[u]
        /\ pc'[t] \in {"processed", "store"}
    BY <1>5 DEF CompareBytes, FlushVars
  <2>. QED
    BY <2>2, <2>3
<1>6. ASSUME NEW t \in Threads, StoreLastChecked(t)
      PROVE  CheckedClose'
  BY <1>6 DEF StoreLastChecked, FlushVars
<1>7. CASE /\ UNCHANGED <<flush, byteVars>>
           /\ \A u \in Threads : pc'[u] = pc[u] \/ pc'[u] \in {"schedule", "push"}
  BY <1>7 DEF byteVars
<1>8. ASSUME \E t \in Threads : SubmitOpen(t)
      PROVE  \A u \in Threads : pc'[u] = pc[u] \/ pc'[u] \in {"schedule", "push"}
  BY <1>8 DEF SubmitOpen
<1>. QED
  BY <1>1, <1>2, <1>3, <1>4, <1>5, <1>6, <1>7, <1>8, QuietCounters

(***************************************************************************)
(* A thread that schedules a command becomes unchecked, and one that       *)
(* passes the check finds little in flight.                                *)
(***************************************************************************)
LEMMA UncheckedFinite ==
  /\ IsFiniteSet(Unchecked) /\ Cardinality(Unchecked) \in Nat
  /\ IsFiniteSet(Threads) /\ Cardinality(Threads) \in Nat
  /\ Cardinality(Unchecked) <= Cardinality(Threads)
<1>1. Unchecked \in SUBSET Threads /\ IsFiniteSet(Threads)
  BY ThreadsAssumption DEF Unchecked
<1>. QED
  BY <1>1, FS_Subset, FS_CardinalityType

\* More threads allow more bytes.
LEMMA AllowanceGrows ==
  ASSUME NEW a \in Nat, NEW b \in Nat, a <= b, NEW m \in Nat
  PROVE  a * m \in Nat /\ b * m \in Nat /\ a * m <= b * m /\ (a + 1) * m = a * m + m
<1>1. PICK c \in Nat : b = a + c
  <2>1. b - a \in Nat /\ b = a + (b - a)
    OBVIOUS
  <2>. QED
    BY <2>1
<1>2. a * m \in Nat /\ b * m \in Nat /\ c * m \in Nat
  OBVIOUS
<1>3. (a + c) * m = a * m + c * m /\ (a + 1) * m = a * m + m
  OBVIOUS
<1>. QED
  BY <1>1, <1>2, <1>3

LEMMA AheadFromCheck ==
  ASSUME TypeInv, TypeInv',
         scheduledBytes' - processedBytes' <= BYTES_CHECK_INTERVAL + BYTES_ALLOWED_DIFFERENCE
  PROVE  AheadBounded'
<1>1. Cardinality(Unchecked') \in Nat
  <2>1. Unchecked' \in SUBSET Threads
    BY DEF Unchecked
  <2>. QED
    BY <2>1, ThreadsAssumption, FS_Subset, FS_CardinalityType
<1>2. PICK n \in Nat : Cardinality(Unchecked') * MaxSize = n
  BY <1>1, MaxSizeAssumption
<1>3. PICK s \in Nat, p \in Nat : s = scheduledBytes' /\ p = processedBytes'
  BY DEF TypeInv, TypeOK
<1>4. s - p <= BYTES_CHECK_INTERVAL + BYTES_ALLOWED_DIFFERENCE
  BY <1>3
<1>5. s - p <= BYTES_CHECK_INTERVAL + BYTES_ALLOWED_DIFFERENCE + n
  BY <1>4, BytesAssumption
<1>. QED
  BY <1>2, <1>3, <1>5 DEF AheadBounded

LEMMA AheadSame ==
  ASSUME TypeInv, AheadBounded, TypeInv', scheduledBytes' = scheduledBytes,
         processedBytes <= processedBytes', Unchecked \subseteq Unchecked'
  PROVE  AheadBounded'
<1>1. /\ Unchecked' \in SUBSET Threads /\ Unchecked \in SUBSET Unchecked'
  BY DEF Unchecked
<1>2. IsFiniteSet(Unchecked')
  BY <1>1, ThreadsAssumption, FS_Subset
<1>3. /\ Cardinality(Unchecked) \in Nat /\ Cardinality(Unchecked') \in Nat
      /\ Cardinality(Unchecked) <= Cardinality(Unchecked')
  BY <1>1, <1>2, FS_Subset, FS_CardinalityType
<1>4. /\ Cardinality(Unchecked) * MaxSize \in Nat /\ Cardinality(Unchecked') * MaxSize \in Nat
      /\ Cardinality(Unchecked) * MaxSize <= Cardinality(Unchecked') * MaxSize
  BY <1>3, MaxSizeAssumption, AllowanceGrows
<1>5. PICK m \in Nat, n \in Nat :
        m = Cardinality(Unchecked) * MaxSize /\ n = Cardinality(Unchecked') * MaxSize
  BY <1>4
<1>6. PICK s \in Nat, p \in Nat, p2 \in Nat :
        s = scheduledBytes /\ p = processedBytes /\ p2 = processedBytes'
  BY DEF TypeInv, TypeOK
<1>7. s - p <= BYTES_CHECK_INTERVAL + BYTES_ALLOWED_DIFFERENCE + m
  BY <1>5, <1>6 DEF AheadBounded
<1>8. s - p2 <= BYTES_CHECK_INTERVAL + BYTES_ALLOWED_DIFFERENCE + n
  BY <1>4, <1>5, <1>6, <1>7, BytesAssumption
<1>. QED
  BY <1>5, <1>6, <1>8 DEF AheadBounded

LEMMA ScheduleAhead ==
  ASSUME TypeInv, AheadBounded, NEW t \in Threads, ScheduleBytes(t), TypeInv'
  PROVE  AheadBounded'
<1>1. /\ pc \in [Threads -> ThreadPc] /\ pc[t] = "schedule" /\ pc' = [pc EXCEPT ![t] = "push"]
      /\ Head(todo[t]) \in RecordTask /\ UNCHANGED <<todo, processedBytes>>
      /\ scheduledBytes' = scheduledBytes + Head(todo[t]).size
  BY DEF TypeInv, TypeOK, Submitting, ScheduleBytes, callVars
<1>2. Head(todo[t]).size \in Nat /\ Head(todo[t]).size <= MaxSize /\ Head(todo[t]).type = "record"
  BY <1>1, MaxSizeAssumption DEF RecordTask, Sizes
<1>3. t \notin Unchecked /\ Unchecked' = Unchecked \cup {t}
  BY <1>1, <1>2 DEF Unchecked, Pushing
<1>4. Cardinality(Unchecked') = Cardinality(Unchecked) + 1
  BY <1>3, UncheckedFinite, FS_AddElement
<1>5. /\ Cardinality(Unchecked) * MaxSize \in Nat
      /\ Cardinality(Unchecked') * MaxSize = Cardinality(Unchecked) * MaxSize + MaxSize
  BY <1>4, UncheckedFinite, MaxSizeAssumption, AllowanceGrows
<1>6. PICK n \in Nat : n = Cardinality(Unchecked) * MaxSize
  BY <1>5
<1>7. Cardinality(Unchecked') * MaxSize = n + MaxSize
  BY <1>5, <1>6
<1>8. /\ scheduledBytes \in Nat /\ processedBytes \in Nat
      /\ scheduledBytes - processedBytes <= BYTES_CHECK_INTERVAL + BYTES_ALLOWED_DIFFERENCE + n
  BY <1>6 DEF AheadBounded, TypeInv, TypeOK
<1>. QED
  BY <1>1, <1>2, <1>7, <1>8, MaxSizeAssumption, BytesAssumption DEF AheadBounded

LEMMA AheadStep ==
  ASSUME TypeInv, FlushCovered, CheckedClose, AheadBounded, [Next]_vars
  PROVE  AheadBounded'
<1>0. TypeInv'
  BY TypeStep
<1>1. CASE WorkerStep
  <2>1. Unchecked' = Unchecked
    BY <1>1, WorkerCounters DEF Unchecked, Pushing
  <2>. QED
    BY <1>0, <1>1, <2>1, WorkerCounters, AheadSame
<1>2. CASE \E t \in Threads : ScheduleBytes(t)
  BY <1>0, <1>2, ScheduleAhead
<1>3. ASSUME NEW t \in Threads,
             PushTask(t) \/ ReadLastChecked(t) \/ ReadProcessed(t) \/ StoreLastChecked(t)
      PROVE  AheadBounded'
  <2>1. UNCHANGED <<scheduledBytes, processedBytes>>
    BY <1>3 DEF PushTask, ReadLastChecked, ReadProcessed, StoreLastChecked, FlushVars, byteVars
  <2>2. /\ \A u \in Threads \ {t} : pc'[u] = pc[u] /\ todo'[u] = todo[u]
        /\ t \in Unchecked => t \in Unchecked'
    BY <1>3 DEF TypeInv, TypeOK, Unchecked, Pushing, PushTask, ReadLastChecked,
         ReadProcessed, StoreLastChecked, FlushVars, callVars
  <2>3. Unchecked \subseteq Unchecked'
    BY <2>2 DEF Unchecked, Pushing
  <2>. QED
    BY <1>0, <2>1, <2>3, CounterTypes, AheadSame
<1>4. ASSUME NEW t \in Threads, ReadScheduled(t)
      PROVE  AheadBounded'
  <2>1. /\ UNCHANGED <<scheduledBytes, processedBytes>>
        /\ \A u \in Threads \ {t} : pc'[u] = pc[u] /\ todo'[u] = todo[u]
    BY <1>4 DEF ReadScheduled, FlushVars, callVars
  <2>2. CASE scheduledBytes - flush[t].lastChecked > BYTES_CHECK_INTERVAL
    <3>1. pc'[t] = "processed"
      BY <1>4, <2>2, CounterTypes DEF ReadScheduled
    <3>2. Unchecked \subseteq Unchecked'
      BY <2>1, <3>1 DEF Unchecked, Pushing
    <3>. QED
      BY <1>0, <2>1, <3>2, CounterTypes, AheadSame
  <2>3. CASE ~(scheduledBytes - flush[t].lastChecked > BYTES_CHECK_INTERVAL)
    <3>1. flush[t].lastChecked <= processedBytes + BYTES_ALLOWED_DIFFERENCE
      BY <1>4 DEF CheckedClose, ReadScheduled
    <3>2. scheduledBytes - processedBytes <= BYTES_CHECK_INTERVAL + BYTES_ALLOWED_DIFFERENCE
      BY <2>3, <3>1, CounterTypes
    <3>. QED
      BY <1>0, <2>1, <3>2, AheadFromCheck
  <2>. QED
    BY <2>2, <2>3
<1>5. ASSUME NEW t \in Threads, CompareBytes(t)
      PROVE  AheadBounded'
  <2>1. /\ UNCHANGED <<scheduledBytes, processedBytes>>
        /\ \A u \in Threads \ {t} : pc'[u] = pc[u] /\ todo'[u] = todo[u]
    BY <1>5 DEF CompareBytes, FlushVars, callVars
  <2>2. CASE TooFarAhead(scheduledBytes - flush[t].processed)
    <3>1. pc'[t] = "processed"
      BY <1>5, <2>2, CounterTypes DEF CompareBytes
    <3>2. Unchecked \subseteq Unchecked'
      BY <2>1, <3>1 DEF Unchecked, Pushing
    <3>. QED
      BY <1>0, <2>1, <3>2, CounterTypes, AheadSame
  <2>3. CASE ~TooFarAhead(scheduledBytes - flush[t].processed)
    <3>1. flush[t].processed <= processedBytes
      BY DEF FlushCovered
    <3>2. scheduledBytes - processedBytes <= BYTES_CHECK_INTERVAL + BYTES_ALLOWED_DIFFERENCE
      BY <2>3, <3>1, CounterTypes DEF TooFarAhead
    <3>. QED
      BY <1>0, <2>1, <3>2, AheadFromCheck
  <2>. QED
    BY <2>2, <2>3
<1>6. ASSUME ~WorkerStep,
             ~\E t \in Threads : ScheduleBytes(t) \/ PushTask(t) \/ ReadLastChecked(t)
                 \/ ReadScheduled(t) \/ ReadProcessed(t) \/ CompareBytes(t) \/ StoreLastChecked(t)
      PROVE  AheadBounded'
  <2>1. UNCHANGED byteVars
    BY <1>6, QuietCounters
  <2>2. Unchecked \subseteq Unchecked'
    <3>1. CASE UNCHANGED <<pc, todo>>
      BY <3>1 DEF Unchecked, Pushing
    <3>2. CASE \E t \in Threads : /\ pc[t] = "idle" /\ pc' = pc
                                  /\ \A u \in Threads \ {t} : todo'[u] = todo[u]
      BY <3>2 DEF Unchecked, Pushing
    <3>3. CASE \E t \in Threads : SubmitOpen(t)
      BY <3>3 DEF Unchecked, Pushing, SubmitOpen, callVars
    <3>. QED
      BY <1>6, <3>1, <3>2, <3>3, QuietCounters
  <2>. QED
    BY <1>0, <2>1, <2>2, CounterTypes, AheadSame DEF byteVars
<1>. QED
  BY <1>1, <1>2, <1>3, <1>4, <1>5, <1>6

LEMMA ByteStep == ByteInv /\ [Next]_vars => ByteInv'
<1>. SUFFICES ASSUME ByteInv, [Next]_vars PROVE ByteInv'
  OBVIOUS
<1>. QED
  BY TypeStep, OwnedStep, CoveredStep, CheckedStep, AheadStep DEF ByteInv

LEMMA ByteInit == Init => ByteInv
<1>. SUFFICES ASSUME Init PROVE ByteInv
  OBVIOUS
<1>1. /\ scheduledBytes = 0 /\ processedBytes = 0 /\ lastCheckedBytes = 0
      /\ concurrentQueue = <<>> /\ pc = [t \in Threads |-> "idle"]
      /\ flush = [t \in Threads |-> [lastChecked |-> 0, scheduled |-> 0, processed |-> 0]]
      /\ TypeInv
  BY TypeInit DEF Init
<1>2. Owns({}, <<>>, [t \in Threads |-> {}])
  BY <1>1, FS_EmptySet DEF Owns, Pushing
<1>3. BytesOwned
  BY <1>2 DEF BytesOwned
<1>4. FlushCovered /\ CheckedClose
  BY <1>1, BytesAssumption DEF FlushCovered, CheckedClose
<1>5. Unchecked = {}
  BY <1>1 DEF Unchecked, Pushing
<1>6. AheadBounded
  BY <1>1, <1>5, BytesAssumption, MaxSizeAssumption, FS_EmptySet DEF AheadBounded
<1>. QED
  BY <1>1, <1>3, <1>4, <1>6 DEF ByteInv

(***************************************************************************)
(* The unsigned differences of ConditionalFlush never wrap around: what a  *)
(* thread has read before is never more than what is scheduled when it     *)
(* subtracts, whatever the other threads and the worker do in between.     *)
(***************************************************************************)
THEOREM CountersNeverWrap == Spec => []ScheduledCoversProcessed
<1>1. ByteInv => ScheduledCoversProcessed
  <2>. SUFFICES ASSUME ByteInv, NEW t \in Threads
                PROVE  /\ scheduledBytes >= flush[t].processed
                       /\ scheduledBytes >= flush[t].lastChecked
    BY DEF ScheduledCoversProcessed
  <2>1. processedBytes <= scheduledBytes
    BY OwnedBound DEF ByteInv, BytesOwned
  <2>. QED
    BY <2>1, CounterTypes DEF ByteInv, FlushCovered
<1>. QED
  BY <1>1, ByteInit, ByteStep, PTL DEF Spec

(***************************************************************************)
(* ConditionalFlush bounds the bytes in flight: two thresholds, and one    *)
(* command for every thread, however many threads and closers there are.   *)
(***************************************************************************)
THEOREM FlightIsBounded == Spec => []BytesInFlightBounded
<1>1. ByteInv => BytesInFlightBounded
  <2>. SUFFICES ASSUME ByteInv PROVE BytesInFlightBounded
    OBVIOUS
  <2>1. /\ Cardinality(Unchecked) * MaxSize \in Nat /\ Cardinality(Threads) * MaxSize \in Nat
        /\ Cardinality(Unchecked) * MaxSize <= Cardinality(Threads) * MaxSize
    BY UncheckedFinite, MaxSizeAssumption, AllowanceGrows
  <2>. QED
    BY <2>1, CounterTypes DEF ByteInv, AheadBounded, BytesInFlightBounded
<1>. QED
  BY <1>1, ByteInit, ByteStep, PTL DEF Spec
=============================================================================
