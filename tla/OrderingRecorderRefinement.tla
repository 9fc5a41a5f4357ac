---------------------- MODULE OrderingRecorderRefinement ----------------------
(***************************************************************************)
(* OrderingRecorder implements OrderedStream, and what its worker holds is *)
(* exactly what it has to hold: proofs for any number of threads, closers, *)
(* kinds of calls, keys, sizes and thresholds.                             *)
(***************************************************************************)
EXTENDS OrderingRecorderProofs

(***************************************************************************)
(* What the layers do with the keys: a key is submitted by one thread, and *)
(* at most once as skipped and then once as recorded.                      *)
(***************************************************************************)
\* Submissions of one key: the skip comes before the command.
SkipThenRecord(first, second) == first.type = "skip" /\ second.type = "record"

TodoOnce ==
  \A t, u \in Threads : \A i \in DOMAIN todo[t], j \in DOMAIN todo[u] :
    todo[t][i].key = todo[u][j].key =>
      t = u /\ (i < j => SkipThenRecord(todo[t][i], todo[u][j]))

\* What is still to be submitted has not been.
Unsubmitted(task) ==
  /\ task.key <= commandUniqueKey
  /\ task.key \notin recorded
  /\ task.type # "record" => task.key \notin skipped

TodoFresh == \A t \in Threads : \A i \in DOMAIN todo[t] : Unsubmitted(todo[t][i])

Minted == \A k \in recorded \cup skipped : k <= commandUniqueKey

QueueOnce ==
  \A i, j \in DOMAIN concurrentQueue :
    i < j /\ concurrentQueue[i].key = concurrentQueue[j].key =>
      SkipThenRecord(concurrentQueue[i], concurrentQueue[j])

QueueSubmitted ==
  \A i \in DOMAIN concurrentQueue :
    /\ concurrentQueue[i].type = "record" => concurrentQueue[i].key \in recorded
    /\ concurrentQueue[i].type = "skip" => concurrentQueue[i].key \in skipped

Protocol == TodoOnce /\ TodoFresh /\ Minted /\ QueueOnce /\ QueueSubmitted

(***************************************************************************)
(* What the worker has done with the keys.                                 *)
(***************************************************************************)
\* The keys that nextKey has left behind, or is leaving.
Past(k) == k < nextKey \/ (worker = "update" /\ k = nextKey)

InRange(k) == \E s \in DOMAIN skippedKeyRanges : s <= k /\ k <= skippedKeyRanges[s]

Skips == {i \in DOMAIN concurrentQueue : concurrentQueue[i].type = "skip"}
Records == {i \in DOMAIN concurrentQueue : concurrentQueue[i].type = "record"}
QueuedSkip(k) == \E i \in Skips : concurrentQueue[i].key = k
QueuedRecord(k) == \E i \in Records : concurrentQueue[i].key = k

\* The ranges lie ahead of nextKey, one after the other.
RangesApart ==
  \A s \in DOMAIN skippedKeyRanges :
    /\ nextKey < s
    /\ \A o \in DOMAIN skippedKeyRanges : s < o => skippedKeyRanges[s] < o

\* They hold the skips that have been processed and are not past.
RangesSkipped == \A k \in Int : InRange(k) => k \in skipped /\ ~QueuedSkip(k)
SkipsKept == \A k \in skipped : QueuedSkip(k) \/ InRange(k) \/ Past(k)
QueuedSkipsAhead == \A k \in Keys : QueuedSkip(k) => ~Past(k)

\* A command that has been processed is due later, in the stream, or skipped.
RecordsKept ==
  \A k \in recorded : QueuedRecord(k) \/ k \in skipped \/ k \in serializers \/ Stream!InStream(k)

SerializersPending ==
  \A k \in serializers :
    /\ k \in recorded \ skipped /\ ~QueuedRecord(k)
    /\ IF worker = "pending" THEN nextKey <= k ELSE nextKey < k

WrittenRecorded ==
  \A i \in 1..Len(written) :
    /\ written[i] \in recorded \ skipped
    /\ ~QueuedRecord(written[i])

PastDone == \A k \in Keys : Past(k) => k \in skipped \/ Stream!InStream(k)

Bookkeeping ==
  /\ RangesApart /\ RangesSkipped /\ SkipsKept /\ QueuedSkipsAhead
  /\ RecordsKept /\ SerializersPending /\ WrittenRecorded /\ PastDone

StreamInv == OrderInv /\ Protocol /\ Bookkeeping
-----------------------------------------------------------------------------
(***************************************************************************)
(* Indices of sequences that are consumed at their head and extended at    *)
(* their end.                                                              *)
(***************************************************************************)
LEMMA TailIndex ==
  ASSUME NEW S, NEW q \in Seq(S), q # <<>>
  PROVE  /\ Tail(q) \in Seq(S) /\ Head(q) = q[1] /\ 1 \in DOMAIN q /\ Head(q) \in S
         /\ DOMAIN q \subseteq Int
         /\ \A i \in DOMAIN Tail(q) : /\ i \in Int /\ i >= 1 /\ i + 1 \in DOMAIN q
                                      /\ Tail(q)[i] = q[i + 1]
         /\ \A i \in DOMAIN q : i # 1 => i - 1 \in DOMAIN Tail(q) /\ Tail(q)[i - 1] = q[i]
<1>1. /\ Len(q) \in Nat \ {0} /\ DOMAIN q = 1..Len(q) /\ Head(q) = q[1] /\ q[1] \in S
      /\ Tail(q) \in Seq(S) /\ Len(Tail(q)) = Len(q) - 1
      /\ \A i \in 1..Len(q) - 1 : Tail(q)[i] = q[i + 1]
  BY HeadTailProperties, LenProperties, EmptySeq, ElementOfSeq
<1>2. DOMAIN Tail(q) = 1..Len(q) - 1
  BY <1>1, LenProperties
<1>. QED
  BY <1>1, <1>2

LEMMA AppendIndex ==
  ASSUME NEW S, NEW q \in Seq(S), NEW e \in S
  PROVE  /\ Append(q, e) \in Seq(S)
         /\ Len(q) + 1 \in DOMAIN Append(q, e) /\ Append(q, e)[Len(q) + 1] = e
         /\ DOMAIN q \subseteq DOMAIN Append(q, e)
         /\ \A i \in DOMAIN q : i \in Int /\ i < Len(q) + 1 /\ Append(q, e)[i] = q[i]
         /\ \A i \in DOMAIN Append(q, e) : i \in DOMAIN q \/ i = Len(q) + 1
<1>1. Len(q) \in Nat /\ DOMAIN q = 1..Len(q)
  BY LenProperties
<1>2. /\ Append(q, e) \in Seq(S) /\ Len(Append(q, e)) = Len(q) + 1
      /\ \A i \in 1..Len(q) : Append(q, e)[i] = q[i]
      /\ Append(q, e)[Len(q) + 1] = e
  BY AppendProperties
<1>3. DOMAIN Append(q, e) = 1..Len(q) + 1
  BY <1>2, LenProperties
<1>. QED
  BY <1>1, <1>2, <1>3
-----------------------------------------------------------------------------
(***************************************************************************)
(* The protocol of the layers is kept.                                     *)
(***************************************************************************)
protocolVars == <<commandUniqueKey, todo, concurrentQueue, recorded, skipped>>

LEMMA ProtocolFrame ==
  ASSUME Protocol, UNCHANGED protocolVars
  PROVE  Protocol'
  BY DEF Protocol, protocolVars, TodoOnce, TodoFresh, Unsubmitted, Minted, QueueOnce,
         QueueSubmitted, SkipThenRecord

\* A thread that submits nothing takes the keys of its new tasks from those minted now.
LEMMA CreateProtocol ==
  ASSUME TypeInv, Protocol, NEW t \in Threads, CreateCommandKey(t)
  PROVE  Protocol'
<1>. DEFINE k == commandUniqueKey + 1
<1>1. PICK s \in Sizes, call \in Calls : todo' = [todo EXCEPT ![t] = CallTasks(k, s)[call]]
  BY DEF CreateCommandKey
<1>2. /\ commandUniqueKey \in Int /\ commandUniqueKey' = k
      /\ todo \in [Threads -> Seq(Task \cup Present)]
      /\ UNCHANGED <<concurrentQueue, recorded, skipped>>
  BY MaxKeyAssumption DEF CreateCommandKey, TypeInv, TypeOK, historyVars
<1>3. /\ todo'[t] \in {<<Record(k, s)>>, <<Skip(k)>>, <<Skip(k), Record(k, s)>>,
                      <<[type |-> "present", key |-> k, size |-> s]>>}
      /\ \A u \in Threads \ {t} : todo'[u] = todo[u]
  BY <1>1, <1>2, CallsAssumption DEF CallTasks, RepeatedGetCompletedValue
<1>4. /\ \A i \in DOMAIN todo'[t] : i \in Int /\ todo'[t][i].key = k
      /\ \A i, j \in DOMAIN todo'[t] : i < j => SkipThenRecord(todo'[t][i], todo'[t][j])
  BY <1>3 DEF Record, Skip, SkipThenRecord
<1>5. \A u \in Threads : \A i \in DOMAIN todo[u] : todo[u][i].key <= commandUniqueKey
  BY DEF Protocol, TodoFresh, Unsubmitted
<1>6. \A u \in Threads : \A i \in DOMAIN todo[u] : todo[u][i].key \in Int
  BY <1>2, LenProperties, ElementOfSeq DEF Task, RecordTask, SkipTask, Present, Keys
<1>7. k \notin recorded \cup skipped
  BY <1>2 DEF Protocol, Minted
<1>8. TodoOnce'
  <2>. SUFFICES ASSUME NEW u \in Threads, NEW v \in Threads,
                       NEW i \in DOMAIN todo'[u], NEW j \in DOMAIN todo'[v],
                       todo'[u][i].key = todo'[v][j].key
                PROVE  u = v /\ (i < j => SkipThenRecord(todo'[u][i], todo'[v][j]))
    BY DEF TodoOnce, SkipThenRecord
  <2>1. CASE u = t /\ v = t
    BY <1>4, <2>1
  <2>2. CASE u # t /\ v # t
    BY <1>3, <2>2 DEF Protocol, TodoOnce
  <2>3. CASE (u = t) # (v = t)
    BY <1>2, <1>3, <1>4, <1>5, <1>6, <2>3
  <2>. QED
    BY <2>1, <2>2, <2>3
<1>9. TodoFresh'
  BY <1>2, <1>3, <1>4, <1>5, <1>6, <1>7 DEF Protocol, TodoFresh, Unsubmitted
<1>10. Minted'
  BY <1>2 DEF Protocol, Minted, TypeInv, TypeOK, Keys
<1>. QED
  BY <1>2, <1>8, <1>9, <1>10 DEF Protocol, QueueOnce, QueueSubmitted, SkipThenRecord

\* A thread that drops the first of its tasks.
LEMMA TailProtocol ==
  ASSUME todo \in [Threads -> Seq(Task \cup Present)], Protocol, NEW t \in Threads,
         todo[t] # <<>>, todo' = [todo EXCEPT ![t] = Tail(todo[t])]
  PROVE  /\ TodoOnce'
         /\ \A u \in Threads : \A i \in DOMAIN todo'[u] :
              /\ Unsubmitted(todo'[u][i])
              /\ todo'[u][i].key = todo[t][1].key => SkipThenRecord(todo[t][1], todo'[u][i])
<1>1. /\ todo'[t] = Tail(todo[t]) /\ 1 \in DOMAIN todo[t]
      /\ \A i \in DOMAIN todo'[t] : /\ i \in Int /\ 1 < i + 1 /\ i + 1 \in DOMAIN todo[t]
                                  /\ todo'[t][i] = todo[t][i + 1]
      /\ \A u \in Threads \ {t} : todo'[u] = todo[u]
  BY TailIndex
<1>2. TodoOnce'
  <2>. SUFFICES ASSUME NEW u \in Threads, NEW v \in Threads,
                       NEW i \in DOMAIN todo'[u], NEW j \in DOMAIN todo'[v],
                       todo'[u][i].key = todo'[v][j].key
                PROVE  u = v /\ (i < j => SkipThenRecord(todo'[u][i], todo'[v][j]))
    BY DEF TodoOnce, SkipThenRecord
  <2>1. CASE u = t /\ v = t
    <3>1. /\ i \in Int /\ j \in Int /\ i + 1 \in DOMAIN todo[t] /\ j + 1 \in DOMAIN todo[t]
          /\ todo'[u][i] = todo[t][i + 1] /\ todo'[v][j] = todo[t][j + 1]
      BY <1>1, <2>1
    <3>2. i + 1 < j + 1 => SkipThenRecord(todo[t][i + 1], todo[t][j + 1])
      BY <3>1 DEF Protocol, TodoOnce
    <3>. QED
      BY <2>1, <3>1, <3>2
  <2>2. CASE u # t \/ v # t
    BY <1>1, <2>2 DEF Protocol, TodoOnce
  <2>. QED
    BY <2>1, <2>2
<1>3. ASSUME NEW u \in Threads, NEW i \in DOMAIN todo'[u]
      PROVE  /\ Unsubmitted(todo'[u][i])
             /\ todo'[u][i].key = todo[t][1].key => SkipThenRecord(todo[t][1], todo'[u][i])
  <2>1. CASE u = t
    BY <1>1, <1>3, <2>1 DEF Protocol, TodoOnce, TodoFresh
  <2>2. CASE u # t
    BY <1>1, <1>3, <2>2 DEF Protocol, TodoOnce, TodoFresh
  <2>. QED
    BY <2>1, <2>2
<1>. QED
  BY <1>2, <1>3

LEMMA EncodeProtocol ==
  ASSUME TypeInv, Protocol, NEW t \in Threads, EncodePresent(t)
  PROVE  Protocol'
<1>. DEFINE a == commandUniqueKey + 1
            b == commandUniqueKey + 2
            s == Head(todo[t]).size
<1>1. /\ commandUniqueKey \in Int /\ commandUniqueKey' = b
      /\ todo \in [Threads -> Seq(Task \cup Present)]
      /\ UNCHANGED <<concurrentQueue, recorded, skipped>>
  BY MaxKeyAssumption DEF EncodePresent, TypeInv, TypeOK, historyVars
<1>2. PICK head : head = todo[t][1] /\ head = Head(todo[t]) /\ 1 \in DOMAIN todo[t]
                  /\ head.type = "present" /\ head.key \in Int /\ head.key <= commandUniqueKey
                  /\ head.key \notin recorded \cup skipped
  <2>1. /\ 1 \in DOMAIN todo[t] /\ Head(todo[t]) = todo[t][1]
        /\ Head(todo[t]) \in Task \cup Present
    BY <1>1, TailIndex DEF EncodePresent
  <2>2. Head(todo[t]).key \in Int
    BY <2>1 DEF Task, RecordTask, SkipTask, Present, Keys
  <2>. QED
    BY <2>1, <2>2 DEF EncodePresent, Protocol, TodoFresh, Unsubmitted
<1>3. PICK x \in {Record(a, s), Skip(a)}, y \in {Record(b, s), Skip(b)} :
        todo' = [todo EXCEPT ![t] = <<Skip(head.key), x, y>>]
  BY <1>2 DEF EncodePresent
<1>4. /\ DOMAIN todo'[t] = {1, 2, 3}
      /\ todo'[t][1] = Skip(head.key) /\ todo'[t][2] = x /\ todo'[t][3] = y
      /\ \A u \in Threads \ {t} : todo'[u] = todo[u]
  BY <1>1, <1>3
<1>5. /\ todo'[t][1].key = head.key /\ todo'[t][2].key = a /\ todo'[t][3].key = b
      /\ todo'[t][1].type = "skip"
  BY <1>4 DEF Record, Skip
<1>6. \A u \in Threads \ {t} : \A i \in DOMAIN todo[u] :
        /\ todo[u][i].key \in Int /\ todo[u][i].key <= commandUniqueKey
        /\ todo[u][i].key # head.key
  <2>1. \A u \in Threads : \A i \in DOMAIN todo[u] :
          todo[u][i].key \in Int /\ todo[u][i].key <= commandUniqueKey
    BY <1>1, LenProperties, ElementOfSeq
       DEF Protocol, TodoFresh, Unsubmitted, Task, RecordTask, SkipTask, Present, Keys
  <2>. QED
    BY <1>2, <2>1 DEF Protocol, TodoOnce
<1>7. a \notin recorded \cup skipped /\ b \notin recorded \cup skipped
  BY <1>1 DEF Protocol, Minted
<1>8. /\ \A i \in DOMAIN todo'[t] :
           /\ todo'[t][i].key = head.key \/ todo'[t][i].key > commandUniqueKey
           /\ todo'[t][i].key <= b
           /\ todo'[t][i].key \notin recorded \cup skipped
      /\ \A i, j \in DOMAIN todo'[t] : todo'[t][i].key = todo'[t][j].key => i = j /\ ~(i < j)
  BY <1>1, <1>2, <1>4, <1>5, <1>7
<1>9. TodoOnce'
  <2>. SUFFICES ASSUME NEW u \in Threads, NEW v \in Threads,
                       NEW i \in DOMAIN todo'[u], NEW j \in DOMAIN todo'[v],
                       todo'[u][i].key = todo'[v][j].key
                PROVE  u = v /\ (i < j => SkipThenRecord(todo'[u][i], todo'[v][j]))
    BY DEF TodoOnce, SkipThenRecord
  <2>1. CASE u = t /\ v = t
    BY <1>8, <2>1
  <2>2. CASE u # t /\ v # t
    BY <1>4, <2>2 DEF Protocol, TodoOnce
  <2>3. CASE u = t /\ v # t
    BY <1>1, <1>4, <1>6, <1>8, <2>3
  <2>4. CASE u # t /\ v = t
    <3>1. /\ todo'[u][i].key \in Int /\ todo'[u][i].key <= commandUniqueKey
          /\ todo'[u][i].key # head.key
      BY <1>4, <1>6, <2>4
    <3>2. todo'[v][j].key = head.key \/ todo'[v][j].key > commandUniqueKey
      BY <1>8, <2>4
    <3>. QED
      BY <1>1, <3>1, <3>2
  <2>. QED
    BY <2>1, <2>2, <2>3, <2>4
<1>10. TodoFresh'
  <2>. SUFFICES ASSUME NEW u \in Threads, NEW i \in DOMAIN todo'[u]
                PROVE  /\ todo'[u][i].key <= b
                       /\ todo'[u][i].key \notin recorded
                       /\ todo'[u][i].type # "record" => todo'[u][i].key \notin skipped
    BY <1>1 DEF TodoFresh, Unsubmitted
  <2>1. CASE u = t
    BY <1>8, <2>1
  <2>2. CASE u # t
    BY <1>1, <1>4, <1>6, <2>2 DEF Protocol, TodoFresh, Unsubmitted
  <2>. QED
    BY <2>1, <2>2
<1>11. Minted'
  BY <1>1 DEF Protocol, Minted, TypeInv, TypeOK, Keys
<1>. QED
  BY <1>1, <1>9, <1>10, <1>11 DEF Protocol, QueueOnce, QueueSubmitted, SkipThenRecord

LEMMA SubmitClosedProtocol ==
  ASSUME TypeInv, Protocol, NEW t \in Threads, SubmitClosed(t)
  PROVE  Protocol'
<1>1. /\ todo \in [Threads -> Seq(Task \cup Present)] /\ todo[t] # <<>>
      /\ todo' = [todo EXCEPT ![t] = Tail(todo[t])]
      /\ UNCHANGED <<commandUniqueKey, concurrentQueue, recorded, skipped>>
  BY DEF SubmitClosed, TypeInv, TypeOK, historyVars
<1>2. TodoOnce' /\ \A u \in Threads : \A i \in DOMAIN todo'[u] : Unsubmitted(todo'[u][i])
  BY <1>1, TailProtocol
<1>3. TodoFresh'
  BY <1>1, <1>2 DEF TodoFresh, Unsubmitted
<1>. QED
  BY <1>1, <1>2, <1>3 DEF Protocol, Minted, QueueOnce, QueueSubmitted, SkipThenRecord

LEMMA PushFacts ==
  ASSUME TypeInv, Protocol, NEW t \in Threads, PushTask(t)
  PROVE  \E task \in Task :
           /\ task = todo[t][1] /\ Unsubmitted(task)
           /\ concurrentQueue \in Seq(Task) /\ concurrentQueue' = Append(concurrentQueue, task)
           /\ recorded' = IF task.type = "record" THEN recorded \cup {task.key} ELSE recorded
           /\ skipped' = IF task.type = "skip" THEN skipped \cup {task.key} ELSE skipped
<1>1. /\ todo \in [Threads -> Seq(Task \cup Present)] /\ concurrentQueue \in Seq(Task)
      /\ todo[t] # <<>> /\ Head(todo[t]) \in Task
  BY DEF PushTask, TypeInv, TypeOK, Submitting
<1>2. Head(todo[t]) = todo[t][1] /\ 1 \in DOMAIN todo[t]
  BY <1>1, TailIndex
<1>. QED
  BY <1>1, <1>2 DEF PushTask, Protocol, TodoFresh

LEMMA PushProtocol ==
  ASSUME TypeInv, Protocol, NEW t \in Threads, PushTask(t)
  PROVE  Protocol'
<1>1. PICK task \in Task :
        /\ task = todo[t][1] /\ Unsubmitted(task)
        /\ concurrentQueue \in Seq(Task) /\ concurrentQueue' = Append(concurrentQueue, task)
        /\ recorded' = IF task.type = "record" THEN recorded \cup {task.key} ELSE recorded
        /\ skipped' = IF task.type = "skip" THEN skipped \cup {task.key} ELSE skipped
  BY PushFacts
<1>2. /\ todo \in [Threads -> Seq(Task \cup Present)] /\ todo[t] # <<>>
      /\ todo' = [todo EXCEPT ![t] = Tail(todo[t])] /\ commandUniqueKey' = commandUniqueKey
      /\ task.type \in {"record", "skip"}
  BY DEF PushTask, TypeInv, TypeOK, Submitting, Task, RecordTask, SkipTask
<1>3. /\ TodoOnce'
      /\ \A u \in Threads : \A i \in DOMAIN todo'[u] :
           /\ Unsubmitted(todo'[u][i])
           /\ todo'[u][i].key = task.key => SkipThenRecord(task, todo'[u][i])
  BY <1>1, <1>2, TailProtocol
<1>4. TodoFresh'
  BY <1>1, <1>2, <1>3 DEF TodoFresh, Unsubmitted, SkipThenRecord
<1>5. Minted'
  BY <1>1, <1>2 DEF Protocol, Minted, Unsubmitted
<1>6. /\ \A i \in DOMAIN concurrentQueue : i \in Int /\ i < Len(concurrentQueue) + 1
                                           /\ concurrentQueue'[i] = concurrentQueue[i]
      /\ concurrentQueue'[Len(concurrentQueue) + 1] = task
      /\ \A i \in DOMAIN concurrentQueue' :
           i \in DOMAIN concurrentQueue \/ i = Len(concurrentQueue) + 1
  BY <1>1, AppendIndex
<1>7. \A i \in DOMAIN concurrentQueue :
        concurrentQueue[i].key = task.key => SkipThenRecord(concurrentQueue[i], task)
  <2>. SUFFICES ASSUME NEW i \in DOMAIN concurrentQueue, concurrentQueue[i].key = task.key
                PROVE  SkipThenRecord(concurrentQueue[i], task)
    OBVIOUS
  <2>1. concurrentQueue[i].type \in {"record", "skip"}
    BY <1>1, LenProperties, ElementOfSeq DEF Task, RecordTask, SkipTask
  <2>. QED
    BY <1>1, <1>2, <2>1 DEF Protocol, QueueSubmitted, Unsubmitted, SkipThenRecord
<1>8. QueueOnce'
  <2>. SUFFICES ASSUME NEW i \in DOMAIN concurrentQueue', NEW j \in DOMAIN concurrentQueue',
                       i < j, concurrentQueue'[i].key = concurrentQueue'[j].key
                PROVE  SkipThenRecord(concurrentQueue'[i], concurrentQueue'[j])
    BY DEF QueueOnce, SkipThenRecord
  <2>0. Len(concurrentQueue) \in Nat
    BY <1>1, LenProperties
  <2>1. i \in DOMAIN concurrentQueue
    BY <1>6, <2>0
  <2>2. CASE j \in DOMAIN concurrentQueue
    BY <1>6, <2>1, <2>2 DEF Protocol, QueueOnce
  <2>3. CASE j = Len(concurrentQueue) + 1
    BY <1>6, <1>7, <2>1, <2>3
  <2>. QED
    BY <1>6, <2>2, <2>3
<1>9. QueueSubmitted'
  BY <1>1, <1>6 DEF Protocol, QueueSubmitted
<1>. QED
  BY <1>3, <1>4, <1>5, <1>8, <1>9 DEF Protocol

\* The worker takes tasks from the head of the queue, if at all.
LEMMA PopProtocol ==
  ASSUME TypeInv, Protocol, UNCHANGED <<commandUniqueKey, todo, recorded, skipped>>,
         concurrentQueue # <<>>, concurrentQueue' = Tail(concurrentQueue)
  PROVE  Protocol'
<1>1. \A i \in DOMAIN concurrentQueue' :
        /\ i \in Int /\ i + 1 \in DOMAIN concurrentQueue
        /\ concurrentQueue'[i] = concurrentQueue[i + 1]
  BY TailIndex DEF TypeInv, TypeOK
<1>2. QueueOnce'
  <2>. SUFFICES ASSUME NEW i \in DOMAIN concurrentQueue', NEW j \in DOMAIN concurrentQueue',
                       i < j, concurrentQueue'[i].key = concurrentQueue'[j].key
                PROVE  SkipThenRecord(concurrentQueue'[i], concurrentQueue'[j])
    BY DEF QueueOnce, SkipThenRecord
  <2>1. i + 1 < j + 1
    BY <1>1
  <2>. QED
    BY <1>1, <2>1 DEF Protocol, QueueOnce
<1>3. QueueSubmitted'
  BY <1>1 DEF Protocol, QueueSubmitted
<1>. QED
  BY <1>2, <1>3 DEF Protocol, TodoOnce, TodoFresh, Unsubmitted, Minted, SkipThenRecord

LEMMA ProtocolStep ==
  ASSUME TypeInv, Protocol, [Next]_vars
  PROVE  Protocol'
<1>1. CASE \E t \in Threads : CreateCommandKey(t) \/ EncodePresent(t) \/ SubmitClosed(t) \/ PushTask(t)
  BY <1>1, CreateProtocol, EncodeProtocol, SubmitClosedProtocol, PushProtocol
<1>2. CASE WorkerStep
  <2>1. UNCHANGED <<commandUniqueKey, todo, recorded, skipped>>
    BY <1>2 DEF WorkerStep, SkipCurrent, SkipAhead, RecordCurrent, RecordAhead, RecordSkipped,
         UpdateNextKey, CheckPendingSerializers, ExitWorker, WorkerVars, threadVars, historyVars
  <2>2. \/ concurrentQueue # <<>> /\ concurrentQueue' = Tail(concurrentQueue)
        \/ concurrentQueue' = concurrentQueue
    BY <1>2 DEF WorkerStep, SkipCurrent, SkipAhead, RecordCurrent, RecordAhead, RecordSkipped,
         UpdateNextKey, CheckPendingSerializers, ExitWorker, PopTask
  <2>. QED
    BY <2>1, <2>2, PopProtocol, ProtocolFrame DEF protocolVars
<1>3. CASE \E t \in Threads : SubmitOpen(t) \/ ScheduleBytes(t) \/ ReadLastChecked(t)
            \/ ReadScheduled(t) \/ ReadProcessed(t) \/ CompareBytes(t) \/ StoreLastChecked(t)
  <2>1. UNCHANGED protocolVars
    BY <1>3 DEF SubmitOpen, ScheduleBytes, ReadLastChecked, ReadScheduled, ReadProcessed,
         CompareBytes, StoreLastChecked, FlushVars, callVars, historyVars, protocolVars
  <2>. QED
    BY <2>1, ProtocolFrame
<1>4. CASE (\E c \in Closers : CloseCheck(c) \/ CloserStep(c)) \/ UNCHANGED vars
  <2>1. UNCHANGED protocolVars
    BY <1>4 DEF CloserStep, CloseCheck, CloseSet, CloseJoin, CloseRecorder, CloserVars, vars,
         threadVars, historyVars, protocolVars
  <2>. QED
    BY <2>1, ProtocolFrame
<1>. QED
  BY <1>1, <1>2, <1>3, <1>4 DEF Next, ThreadStep
-----------------------------------------------------------------------------
(***************************************************************************)
(* The bookkeeping of the worker.                                          *)
(***************************************************************************)
bookVars == <<worker, orderVars, written, concurrentQueue, recorded, skipped>>

LEMMA BookkeepingFrame ==
  ASSUME Bookkeeping, UNCHANGED bookVars
  PROVE  Bookkeeping'
  BY DEF Bookkeeping, bookVars, orderVars, RangesApart, RangesSkipped, SkipsKept,
         QueuedSkipsAhead, RecordsKept, SerializersPending, WrittenRecorded, PastDone, Past,
         InRange, Skips, Records, QueuedSkip, QueuedRecord, Stream!InStream

\* A key is found in a range exactly if it is in one.
LEMMA RangeLookup ==
  ASSUME TypeInv, RangesApart, NEW k \in Int
  PROVE  InRange(k) <=> GetSkippedRange(k) # {}
<1>1. ASSUME InRange(k) PROVE GetSkippedRange(k) # {}
  <2>1. PICK s \in DOMAIN skippedKeyRanges : s <= k /\ k <= skippedKeyRanges[s]
    BY <1>1 DEF InRange
  <2>2. \A o \in DOMAIN skippedKeyRanges : o \in Int /\ skippedKeyRanges[o] \in Int
    BY DEF TypeInv, TypeOK, Keys
  <2>3. s \in GetSkippedRange(k)
    BY <2>1, <2>2 DEF GetSkippedRange, RangesApart
  <2>. QED
    BY <2>3
<1>. QED
  BY <1>1 DEF InRange, GetSkippedRange

\* A push adds one task, whose key the worker has not seen.
LEMMA PushBookkeeping ==
  ASSUME StreamInv, NEW t \in Threads, PushTask(t)
  PROVE  Bookkeeping'
<1>. USE DEF StreamInv
<1>1. PICK task \in Task :
        /\ task = todo[t][1] /\ Unsubmitted(task)
        /\ concurrentQueue \in Seq(Task) /\ concurrentQueue' = Append(concurrentQueue, task)
        /\ recorded' = IF task.type = "record" THEN recorded \cup {task.key} ELSE recorded
        /\ skipped' = IF task.type = "skip" THEN skipped \cup {task.key} ELSE skipped
  BY PushFacts DEF OrderInv
<1>2. /\ task.type \in {"record", "skip"} /\ task.key \in Keys
      /\ task.key \notin recorded
      /\ task.type = "skip" => task.key \notin skipped
      /\ UNCHANGED <<worker, orderVars, written>>
  BY <1>1 DEF PushTask, Task, RecordTask, SkipTask, Unsubmitted
<1>3. ASSUME NEW k
      PROVE  /\ QueuedSkip(k)' <=> QueuedSkip(k) \/ (task.type = "skip" /\ k = task.key)
             /\ QueuedRecord(k)' <=> QueuedRecord(k) \/ (task.type = "record" /\ k = task.key)
  BY <1>1, AppendIndex DEF QueuedSkip, QueuedRecord, Skips, Records
<1>4. /\ \A k \in Int : InRange(k) => k # task.key \/ task.type = "record"
      /\ \A k \in serializers : k # task.key
      /\ \A i \in 1..Len(written) : written[i] # task.key
      /\ Past(task.key) => task.type = "record"
  BY <1>2 DEF Bookkeeping, RangesSkipped, SerializersPending, WrittenRecorded, PastDone,
       Stream!InStream
<1>5. RangesApart' /\ PastDone'
  BY <1>1, <1>2 DEF Bookkeeping, RangesApart, PastDone, Past, Stream!InStream, orderVars
<1>6. RangesSkipped' /\ SkipsKept' /\ QueuedSkipsAhead'
  BY <1>1, <1>2, <1>3, <1>4
     DEF Bookkeeping, RangesSkipped, SkipsKept, QueuedSkipsAhead, InRange, Past, orderVars
<1>7. RecordsKept' /\ SerializersPending' /\ WrittenRecorded'
  BY <1>1, <1>2, <1>3, <1>4
     DEF Bookkeeping, RecordsKept, SerializersPending, WrittenRecorded, Stream!InStream, orderVars
<1>. QED
  BY <1>5, <1>6, <1>7 DEF Bookkeeping

(***************************************************************************)
(* What a pop changes: the task that is taken is queued no longer, and it  *)
(* was queued once.                                                        *)
(***************************************************************************)
LEMMA PopFacts ==
  ASSUME StreamInv, NEW type \in {"record", "skip"}, PopTask(type)
  PROVE  \E key \in Keys :
           /\ key = Head(concurrentQueue).key
           /\ type = "skip" => QueuedSkip(key) /\ key \in skipped
           /\ type = "record" => QueuedRecord(key) /\ key \in recorded /\ ~QueuedSkip(key)
           /\ \A k : QueuedSkip(k)' <=> (QueuedSkip(k) /\ (type = "skip" => k # key))
           /\ \A k : QueuedRecord(k)' <=> (QueuedRecord(k) /\ (type = "record" => k # key))
<1>. DEFINE q == concurrentQueue
<1>1. q \in Seq(Task) /\ q # <<>> /\ q' = Tail(q) /\ Head(q).key \in Keys
  BY PopType DEF StreamInv, OrderInv, TypeInv, TypeOK, PopTask
<1>2. PICK key \in Keys : key = Head(q).key
  BY <1>1
<1>3. /\ 1 \in DOMAIN q /\ q[1].key = key /\ q[1].type = type
      /\ \A i \in DOMAIN q' : i \in Int /\ i >= 1 /\ i + 1 \in DOMAIN q /\ q'[i] = q[i + 1]
      /\ \A i \in DOMAIN q : i # 1 => i - 1 \in DOMAIN q' /\ q'[i - 1] = q[i]
      /\ DOMAIN q \subseteq Int
  BY <1>1, <1>2, TailIndex DEF PopTask
<1>4. \A i \in DOMAIN q' : q[i + 1].key = key => type = "skip" /\ q[i + 1].type = "record"
  BY <1>3 DEF StreamInv, Protocol, QueueOnce, SkipThenRecord
<1>5. \A i \in DOMAIN q : i # 1 /\ q[i].key = key => type = "skip" /\ q[i].type = "record"
  BY <1>3, <1>4
<1>6. ASSUME NEW k
      PROVE  /\ QueuedSkip(k)' <=> (QueuedSkip(k) /\ (type = "skip" => k # key))
             /\ QueuedRecord(k)' <=> (QueuedRecord(k) /\ (type = "record" => k # key))
  <2>1. /\ QueuedSkip(k)' <=> \E i \in DOMAIN q : i # 1 /\ q[i].type = "skip" /\ q[i].key = k
        /\ QueuedRecord(k)' <=> \E i \in DOMAIN q : i # 1 /\ q[i].type = "record" /\ q[i].key = k
    BY <1>3 DEF QueuedSkip, QueuedRecord, Skips, Records
  <2>. QED
    BY <1>3, <1>5, <2>1 DEF QueuedSkip, QueuedRecord, Skips, Records
<1>7. /\ type = "skip" => QueuedSkip(key) /\ key \in skipped
      /\ type = "record" => QueuedRecord(key) /\ key \in recorded /\ ~QueuedSkip(key)
  BY <1>3, <1>5
     DEF QueuedSkip, QueuedRecord, Skips, Records, StreamInv, Protocol, QueueSubmitted
<1>. QED
  BY <1>2, <1>6, <1>7

(***************************************************************************)
(* A command is written: it is the one due, all before it are done.        *)
(***************************************************************************)
LEMMA WriteBookkeeping ==
  ASSUME StreamInv, worker # "update", worker' = "update",
         nextKey \in recorded \ skipped, ~Stream!InStream(nextKey),
         written' = Append(written, nextKey),
         UNCHANGED <<nextKey, skippedKeyRanges, recorded, skipped>>,
         \A k : QueuedSkip(k)' <=> QueuedSkip(k),
         \A k : QueuedRecord(k)' <=> QueuedRecord(k) /\ k # nextKey,
         serializers' = serializers \ {nextKey}
  PROVE  Bookkeeping'
<1>. USE DEF StreamInv, OrderInv, TypeInv
<1>1. written \in Seq(Keys) /\ nextKey \in Keys /\ nextKey \in Int
  BY DEF TypeOK, Keys
<1>2. \A k : Stream!InStream(k)' <=> Stream!InStream(k) \/ k = nextKey
  BY <1>1 DEF Stream!InStream
<1>3. \A k : Past(k)' <=> Past(k) \/ k = nextKey
  BY DEF Past
<1>4. RangesApart' /\ RangesSkipped' /\ SkipsKept'
  BY <1>3 DEF Bookkeeping, RangesApart, RangesSkipped, SkipsKept, InRange
<1>5. QueuedSkipsAhead'
  BY <1>1, <1>3 DEF Bookkeeping, QueuedSkipsAhead, Protocol, QueueSubmitted, QueuedSkip, Skips
<1>6. RecordsKept' /\ PastDone'
  BY <1>2, <1>3 DEF Bookkeeping, RecordsKept, PastDone
<1>7. SerializersPending'
  <2>1. serializers \subseteq Int
    BY DEF TypeOK, Keys
  <2>. QED
    BY <1>1, <2>1 DEF Bookkeeping, SerializersPending
<1>8. WrittenRecorded'
  BY <1>1 DEF Bookkeeping, WrittenRecorded
<1>. QED
  BY <1>4, <1>5, <1>6, <1>7, <1>8 DEF Bookkeeping

LEMMA SkipCurrentBookkeeping ==
  ASSUME StreamInv, SkipCurrent
  PROVE  Bookkeeping'
<1>. USE DEF StreamInv, OrderInv, TypeInv
<1>1. PICK key \in Keys :
        /\ key = Head(concurrentQueue).key /\ QueuedSkip(key) /\ key \in skipped
        /\ \A k : QueuedSkip(k)' <=> (QueuedSkip(k) /\ k # key)
        /\ \A k : QueuedRecord(k)' <=> QueuedRecord(k)
  BY PopFacts DEF SkipCurrent
<1>2. /\ key = nextKey /\ worker = "poll" /\ worker' = "update"
      /\ UNCHANGED <<nextKey, skippedKeyRanges, serializers, written, recorded, skipped>>
  BY <1>1 DEF SkipCurrent, PopTask, orderVars, WorkerVars, historyVars
<1>3. \A k : Past(k)' <=> Past(k) \/ k = key
  BY <1>2 DEF Past
<1>4. /\ \A k : InRange(k)' <=> InRange(k)
      /\ \A k : Stream!InStream(k)' <=> Stream!InStream(k)
  BY <1>2 DEF InRange, Stream!InStream
<1>5. RangesApart'
  BY <1>1, <1>2, <1>3, <1>4 DEF Bookkeeping, RangesApart
<1>6. RangesSkipped'
  BY <1>1, <1>2, <1>3, <1>4 DEF Bookkeeping, RangesSkipped
<1>7. SkipsKept'
  BY <1>1, <1>2, <1>3, <1>4 DEF Bookkeeping, SkipsKept
<1>8. QueuedSkipsAhead'
  BY <1>1, <1>2, <1>3, <1>4 DEF Bookkeeping, QueuedSkipsAhead
<1>9. RecordsKept'
  BY <1>1, <1>2, <1>3, <1>4 DEF Bookkeeping, RecordsKept
<1>10. SerializersPending'
  BY <1>1, <1>2, <1>3, <1>4 DEF Bookkeeping, SerializersPending
<1>11. WrittenRecorded'
  BY <1>1, <1>2, <1>3, <1>4 DEF Bookkeeping, WrittenRecorded
<1>12. PastDone'
  BY <1>1, <1>2, <1>3, <1>4 DEF Bookkeeping, PastDone
<1>. QED
  BY <1>5, <1>6, <1>7, <1>8, <1>9, <1>10, <1>11, <1>12 DEF Bookkeeping

\* A skip ahead of nextKey gets into a range, at its end or as a new one.
LEMMA SkipAheadBookkeeping ==
  ASSUME StreamInv, SkipAhead
  PROVE  Bookkeeping'
<1>. USE DEF StreamInv, OrderInv, TypeInv
<1>1. PICK key \in Keys :
        /\ key = Head(concurrentQueue).key /\ QueuedSkip(key) /\ key \in skipped
        /\ \A k : QueuedSkip(k)' <=> (QueuedSkip(k) /\ k # key)
        /\ \A k : QueuedRecord(k)' <=> QueuedRecord(k)
  BY PopFacts DEF SkipAhead
<1>2. /\ key # nextKey /\ worker = "poll" /\ key \in Int /\ nextKey \in Int
      /\ UNCHANGED <<worker, nextKey, serializers, written, recorded, skipped>>
  BY <1>1 DEF SkipAhead, PopTask, WorkerVars, historyVars, TypeOK, Keys
<1>3. nextKey < key /\ ~InRange(key)
  BY <1>1, <1>2 DEF Bookkeeping, QueuedSkipsAhead, RangesSkipped, Past
<1>4. /\ \A s \in DOMAIN skippedKeyRanges : s \in Int /\ skippedKeyRanges[s] \in Int
      /\ \A s \in DOMAIN skippedKeyRanges : s <= skippedKeyRanges[s]
  BY DEF TypeOK, Keys, RangesForward
<1>5. RangesApart' /\ \A k \in Int : InRange(k)' <=> InRange(k) \/ k = key
  <2>1. ASSUME NEW s \in GetSkippedRange(key - 1),
               skippedKeyRanges' = [skippedKeyRanges EXCEPT ![s] = @ + 1]
        PROVE  RangesApart' /\ \A k \in Int : InRange(k)' <=> InRange(k) \/ k = key
    <3>1. s \in DOMAIN skippedKeyRanges /\ s <= key - 1 /\ key - 1 <= skippedKeyRanges[s]
      BY RangeType
    <3>2. skippedKeyRanges[s] = key - 1
      BY <1>2, <1>3, <1>4, <3>1 DEF InRange
    <3>3. /\ DOMAIN skippedKeyRanges' = DOMAIN skippedKeyRanges
          /\ \A o \in DOMAIN skippedKeyRanges :
               skippedKeyRanges'[o] = IF o = s THEN key ELSE skippedKeyRanges[o]
      BY <1>2, <2>1, <3>1, <3>2
    <3>4. \A o \in DOMAIN skippedKeyRanges : s < o => key < o
      <4>1. key \notin DOMAIN skippedKeyRanges
        BY <1>3, <1>4 DEF InRange
      <4>2. \A o \in DOMAIN skippedKeyRanges : s < o => key - 1 < o
        BY <3>1, <3>2 DEF Bookkeeping, RangesApart
      <4>. QED
        BY <1>2, <1>4, <4>1, <4>2
    <3>5. RangesApart'
      BY <1>2, <3>3, <3>4 DEF Bookkeeping, RangesApart
    <3>6. \A k \in Int : InRange(k)' <=> InRange(k) \/ k = key
      BY <1>2, <1>4, <3>1, <3>2, <3>3 DEF InRange
    <3>. QED
      BY <3>5, <3>6
  <2>2. ASSUME GetSkippedRange(key - 1) = {},
               skippedKeyRanges' = [s \in DOMAIN skippedKeyRanges \cup {key} |->
                                      IF s = key THEN key ELSE skippedKeyRanges[s]]
        PROVE  RangesApart' /\ \A k \in Int : InRange(k)' <=> InRange(k) \/ k = key
    <3>1. key \notin DOMAIN skippedKeyRanges
      BY <1>3, <1>4 DEF InRange
    <3>2. /\ DOMAIN skippedKeyRanges' = DOMAIN skippedKeyRanges \cup {key}
          /\ skippedKeyRanges'[key] = key
          /\ \A o \in DOMAIN skippedKeyRanges : skippedKeyRanges'[o] = skippedKeyRanges[o]
      BY <2>2, <3>1
    <3>3. \A o \in DOMAIN skippedKeyRanges : o < key => skippedKeyRanges[o] < key
      BY <1>2, <1>3, <1>4 DEF InRange
    <3>4. RangesApart'
      BY <1>2, <1>3, <3>2, <3>3 DEF Bookkeeping, RangesApart
    <3>5. \A k \in Int : InRange(k)' <=> InRange(k) \/ k = key
      BY <1>2, <3>1, <3>2 DEF InRange
    <3>. QED
      BY <3>4, <3>5
  <2>. QED
    BY <1>1, <2>1, <2>2 DEF SkipAhead
<1>6. \A k : Past(k)' <=> Past(k)
  BY <1>2 DEF Past
<1>7. skipped \subseteq Int
  BY DEF TypeOK, Keys
<1>8. \A k : Stream!InStream(k)' <=> Stream!InStream(k)
  BY <1>2 DEF Stream!InStream
<1>9. RangesSkipped'
  BY <1>1, <1>2, <1>3, <1>5, <1>6, <1>7, <1>8 DEF Bookkeeping, RangesSkipped
<1>10. SkipsKept'
  BY <1>1, <1>2, <1>3, <1>5, <1>6, <1>7, <1>8 DEF Bookkeeping, SkipsKept
<1>11. QueuedSkipsAhead'
  BY <1>1, <1>2, <1>3, <1>5, <1>6, <1>7, <1>8 DEF Bookkeeping, QueuedSkipsAhead
<1>12. RecordsKept'
  BY <1>1, <1>2, <1>3, <1>5, <1>6, <1>7, <1>8 DEF Bookkeeping, RecordsKept
<1>13. SerializersPending'
  BY <1>1, <1>2, <1>3, <1>5, <1>6, <1>7, <1>8 DEF Bookkeeping, SerializersPending
<1>14. WrittenRecorded'
  BY <1>1, <1>2, <1>3, <1>5, <1>6, <1>7, <1>8 DEF Bookkeeping, WrittenRecorded
<1>15. PastDone'
  BY <1>1, <1>2, <1>3, <1>5, <1>6, <1>7, <1>8 DEF Bookkeeping, PastDone
<1>. QED
  BY <1>5, <1>9, <1>10, <1>11, <1>12, <1>13, <1>14, <1>15 DEF Bookkeeping

\* A command that is not skipped, seen ahead of nextKey, becomes a serializer.
LEMMA RecordAheadBookkeeping ==
  ASSUME StreamInv, RecordAhead
  PROVE  Bookkeeping'
<1>. USE DEF StreamInv, OrderInv, TypeInv
<1>1. PICK key \in Keys :
        /\ key = Head(concurrentQueue).key /\ QueuedRecord(key) /\ key \in recorded
        /\ ~QueuedSkip(key)
        /\ \A k : QueuedSkip(k)' <=> QueuedSkip(k)
        /\ \A k : QueuedRecord(k)' <=> (QueuedRecord(k) /\ k # key)
  BY PopFacts DEF RecordAhead
<1>2. /\ key > nextKey /\ GetSkippedRange(key) = {} /\ serializers' = serializers \cup {key}
      /\ worker = "poll" /\ key \in Int /\ nextKey \in Int
      /\ UNCHANGED <<worker, nextKey, skippedKeyRanges, written, recorded, skipped>>
  BY <1>1 DEF RecordAhead, PopTask, WorkerVars, historyVars, TypeOK, Keys
<1>3. key \notin skipped
  BY <1>1, <1>2, RangeLookup DEF Bookkeeping, SkipsKept, Past
<1>4. \A k : Past(k)' <=> Past(k)
  BY <1>2 DEF Past
<1>5. /\ \A k : InRange(k)' <=> InRange(k)
      /\ \A k : Stream!InStream(k)' <=> Stream!InStream(k)
  BY <1>2 DEF InRange, Stream!InStream
<1>6. RangesApart'
  BY <1>1, <1>2, <1>3, <1>4, <1>5 DEF Bookkeeping, RangesApart
<1>7. RangesSkipped'
  BY <1>1, <1>2, <1>3, <1>4, <1>5 DEF Bookkeeping, RangesSkipped
<1>8. SkipsKept'
  BY <1>1, <1>2, <1>3, <1>4, <1>5 DEF Bookkeeping, SkipsKept
<1>9. QueuedSkipsAhead'
  BY <1>1, <1>2, <1>3, <1>4, <1>5 DEF Bookkeeping, QueuedSkipsAhead
<1>10. RecordsKept'
  BY <1>1, <1>2, <1>3, <1>4, <1>5 DEF Bookkeeping, RecordsKept
<1>11. SerializersPending'
  BY <1>1, <1>2, <1>3, <1>4, <1>5 DEF Bookkeeping, SerializersPending
<1>12. WrittenRecorded'
  BY <1>1, <1>2, <1>3, <1>4, <1>5 DEF Bookkeeping, WrittenRecorded
<1>13. PastDone'
  BY <1>1, <1>2, <1>3, <1>4, <1>5 DEF Bookkeeping, PastDone
<1>. QED
  BY <1>6, <1>7, <1>8, <1>9, <1>10, <1>11, <1>12, <1>13 DEF Bookkeeping

\* A command is discarded only if it is skipped.
LEMMA RecordSkippedBookkeeping ==
  ASSUME StreamInv, RecordSkipped
  PROVE  Bookkeeping'
<1>. USE DEF StreamInv, OrderInv, TypeInv
<1>1. PICK key \in Keys :
        /\ key = Head(concurrentQueue).key /\ QueuedRecord(key) /\ key \in recorded
        /\ \A k : QueuedSkip(k)' <=> QueuedSkip(k)
        /\ \A k : QueuedRecord(k)' <=> (QueuedRecord(k) /\ k # key)
  BY PopFacts DEF RecordSkipped
<1>2. /\ key < nextKey \/ GetSkippedRange(key) # {}
      /\ key \in Int
      /\ UNCHANGED <<worker, nextKey, skippedKeyRanges, serializers, written, recorded, skipped>>
  BY <1>1 DEF RecordSkipped, PopTask, WorkerVars, orderVars, historyVars, Keys
<1>3. key \in skipped
  BY <1>1, <1>2, RangeLookup
     DEF Bookkeeping, RangesSkipped, PastDone, WrittenRecorded, Past, Stream!InStream
<1>4. /\ \A k : InRange(k)' <=> InRange(k)
      /\ \A k : Stream!InStream(k)' <=> Stream!InStream(k)
      /\ \A k : Past(k)' <=> Past(k)
  BY <1>2 DEF InRange, Stream!InStream, Past
<1>5. RangesApart'
  BY <1>1, <1>2, <1>3, <1>4 DEF Bookkeeping, RangesApart
<1>6. RangesSkipped'
  BY <1>1, <1>2, <1>3, <1>4 DEF Bookkeeping, RangesSkipped
<1>7. SkipsKept'
  BY <1>1, <1>2, <1>3, <1>4 DEF Bookkeeping, SkipsKept
<1>8. QueuedSkipsAhead'
  BY <1>1, <1>2, <1>3, <1>4 DEF Bookkeeping, QueuedSkipsAhead
<1>9. RecordsKept'
  BY <1>1, <1>2, <1>3, <1>4 DEF Bookkeeping, RecordsKept
<1>10. SerializersPending'
  BY <1>1, <1>2, <1>3, <1>4 DEF Bookkeeping, SerializersPending
<1>11. WrittenRecorded'
  BY <1>1, <1>2, <1>3, <1>4 DEF Bookkeeping, WrittenRecorded
<1>12. PastDone'
  BY <1>1, <1>2, <1>3, <1>4 DEF Bookkeeping, PastDone
<1>. QED
  BY <1>5, <1>6, <1>7, <1>8, <1>9, <1>10, <1>11, <1>12 DEF Bookkeeping

\* The command due is neither in the stream yet nor in a range.
LEMMA NextIsNew ==
  ASSUME StreamInv, worker # "update"
  PROVE  ~Stream!InStream(nextKey) /\ ~InRange(nextKey)
<1>1. ~Stream!InStream(nextKey)
  BY WrittenInt DEF StreamInv, OrderInv, TypeInv, WrittenBehind, Stream!InStream
<1>2. ~InRange(nextKey)
  BY DEF StreamInv, OrderInv, TypeInv, TypeOK, Keys, Bookkeeping, RangesApart, InRange
<1>. QED
  BY <1>1, <1>2

LEMMA RecordCurrentBookkeeping ==
  ASSUME StreamInv, RecordCurrent
  PROVE  /\ Bookkeeping'
         /\ nextKey \in recorded \ skipped /\ ~Stream!InStream(nextKey)
         /\ written' = Append(written, nextKey)
<1>. USE DEF StreamInv, OrderInv, TypeInv
<1>1. PICK key \in Keys :
        /\ key = Head(concurrentQueue).key /\ QueuedRecord(key) /\ key \in recorded
        /\ ~QueuedSkip(key)
        /\ \A k : QueuedSkip(k)' <=> QueuedSkip(k)
        /\ \A k : QueuedRecord(k)' <=> (QueuedRecord(k) /\ k # key)
  BY PopFacts DEF RecordCurrent
<1>2. /\ key = nextKey /\ worker = "poll" /\ worker' = "update" /\ nextKey \in Int
      /\ written' = Append(written, nextKey)
      /\ UNCHANGED <<nextKey, skippedKeyRanges, serializers, recorded, skipped>>
  BY <1>1 DEF RecordCurrent, IsDue, PopTask, orderVars, WorkerVars, historyVars, Keys
<1>3. ~Stream!InStream(nextKey) /\ ~InRange(nextKey)
  BY <1>2, NextIsNew
<1>4. nextKey \in recorded \ skipped
  BY <1>1, <1>2, <1>3 DEF Bookkeeping, SkipsKept, Past
<1>5. serializers' = serializers \ {nextKey}
  BY <1>2 DEF Bookkeeping, SerializersPending
<1>6. /\ \A k : QueuedSkip(k)' <=> QueuedSkip(k)
      /\ \A k : QueuedRecord(k)' <=> (QueuedRecord(k) /\ k # nextKey)
  BY <1>1, <1>2
<1>7. Bookkeeping'
  BY <1>2, <1>3, <1>4, <1>5, <1>6, WriteBookkeeping
<1>. QED
  BY <1>2, <1>3, <1>4, <1>7

LEMMA PendingBookkeeping ==
  ASSUME StreamInv, CheckPendingSerializers
  PROVE  /\ Bookkeeping'
         /\ \/ written' = written
            \/ /\ nextKey \in recorded \ skipped /\ ~Stream!InStream(nextKey)
               /\ written' = Append(written, nextKey)
<1>. USE DEF StreamInv, OrderInv, TypeInv
<1>1. /\ worker = "pending" /\ serializers \subseteq Int /\ nextKey \in Int
      /\ UNCHANGED <<concurrentQueue, nextKey, skippedKeyRanges, recorded, skipped>>
  BY DEF CheckPendingSerializers, WorkerVars, historyVars, TypeOK, Keys
<1>2. /\ \A k : QueuedSkip(k)' <=> QueuedSkip(k)
      /\ \A k : QueuedRecord(k)' <=> QueuedRecord(k)
      /\ \A k : InRange(k)' <=> InRange(k)
  BY <1>1 DEF QueuedSkip, QueuedRecord, Skips, Records, InRange
<1>3. CASE IsTop(nextKey)
  <2>1. nextKey \in recorded \ skipped /\ ~QueuedRecord(nextKey)
    BY <1>3 DEF IsTop, Bookkeeping, SerializersPending
  <2>2. /\ worker' = "update" /\ written' = Append(written, nextKey)
        /\ serializers' = serializers \ {nextKey}
    BY <1>3 DEF CheckPendingSerializers
  <2>3. ~Stream!InStream(nextKey)
    BY <1>1, NextIsNew
  <2>4. \A k : QueuedRecord(k)' <=> (QueuedRecord(k) /\ k # nextKey)
    BY <1>2, <2>1
  <2>5. Bookkeeping'
    BY <1>1, <1>2, <2>1, <2>2, <2>3, <2>4, WriteBookkeeping
  <2>. QED
    BY <2>1, <2>2, <2>3, <2>5
<1>4. CASE ~IsTop(nextKey)
  <2>1. worker' = "poll" /\ UNCHANGED <<written, serializers>>
    BY <1>4 DEF CheckPendingSerializers
  <2>2. /\ \A k : Past(k)' <=> Past(k)
        /\ \A k : Stream!InStream(k)' <=> Stream!InStream(k)
    BY <1>1, <2>1 DEF Past, Stream!InStream
  <2>3. SerializersPending'
    <3>1. \A k \in serializers : nextKey <= k
      BY <1>1 DEF Bookkeeping, SerializersPending
    <3>2. \A k \in serializers : nextKey < k
      BY <1>1, <1>4, <3>1 DEF IsTop
    <3>. QED
      BY <1>1, <1>2, <2>1, <3>2 DEF Bookkeeping, SerializersPending
  <2>4. RangesApart' /\ WrittenRecorded'
    BY <1>1, <1>2, <2>1 DEF Bookkeeping, RangesApart, WrittenRecorded
  <2>5. RangesSkipped' /\ SkipsKept' /\ QueuedSkipsAhead'
    BY <1>1, <1>2, <2>2 DEF Bookkeeping, RangesSkipped, SkipsKept, QueuedSkipsAhead
  <2>6. RecordsKept' /\ PastDone'
    BY <1>1, <1>2, <2>1, <2>2 DEF Bookkeeping, RecordsKept, PastDone
  <2>. QED
    BY <2>1, <2>3, <2>4, <2>5, <2>6 DEF Bookkeeping
<1>. QED
  BY <1>3, <1>4

(***************************************************************************)
(* nextKey is moved: by one, when no range starts there, or to the end of  *)
(* the range that does, all of whose keys are done.                        *)
(***************************************************************************)
LEMMA UpdateBookkeeping ==
  ASSUME StreamInv, UpdateNextKey
  PROVE  Bookkeeping'
<1>. USE DEF StreamInv, OrderInv, TypeInv
<1>. DEFINE key == nextKey + 1
<1>1. /\ worker = "update" /\ nextKey \in Int /\ key \in Int
      /\ serializers \subseteq Int /\ skipped \subseteq Int /\ Keys \subseteq Int
      /\ UNCHANGED <<concurrentQueue, serializers, written, recorded, skipped>>
  BY DEF UpdateNextKey, WorkerVars, historyVars, TypeOK, Keys
<1>2. \A s \in DOMAIN skippedKeyRanges :
        s \in Int /\ skippedKeyRanges[s] \in Int /\ s <= skippedKeyRanges[s] /\ nextKey < s
  BY DEF TypeOK, Keys, RangesForward, Bookkeeping, RangesApart
<1>3. /\ \A k : QueuedSkip(k)' <=> QueuedSkip(k)
      /\ \A k : QueuedRecord(k)' <=> QueuedRecord(k)
      /\ \A k : Stream!InStream(k)' <=> Stream!InStream(k)
  BY <1>1 DEF QueuedSkip, QueuedRecord, Skips, Records, Stream!InStream
<1>4. ASSUME GetSkippedRange(key) = {}, nextKey' = key, worker' = "pending",
             UNCHANGED skippedKeyRanges
      PROVE  Bookkeeping'
  <2>1. ~InRange(key)
    BY <1>1, <1>4, RangeLookup DEF Bookkeeping
  <2>2. /\ \A k \in Int : Past(k)' <=> Past(k)
        /\ \A k : InRange(k)' <=> InRange(k)
    BY <1>1, <1>4 DEF Past, InRange
  <2>3. RangesApart'
    <3>1. key \notin DOMAIN skippedKeyRanges
      BY <1>2, <2>1 DEF InRange
    <3>2. \A s \in DOMAIN skippedKeyRanges : key < s
      BY <1>1, <1>2, <3>1
    <3>. QED
      BY <1>4, <3>2 DEF Bookkeeping, RangesApart
  <2>4. RangesSkipped'
    BY <1>1, <1>3, <2>2 DEF Bookkeeping, RangesSkipped
  <2>5. SkipsKept' /\ QueuedSkipsAhead'
    BY <1>1, <1>3, <2>2 DEF Bookkeeping, SkipsKept, QueuedSkipsAhead
  <2>6. RecordsKept' /\ WrittenRecorded'
    BY <1>1, <1>3 DEF Bookkeeping, RecordsKept, WrittenRecorded
  <2>7. SerializersPending'
    BY <1>1, <1>3, <1>4 DEF Bookkeeping, SerializersPending
  <2>8. PastDone'
    BY <1>1, <1>3, <2>2 DEF Bookkeeping, PastDone
  <2>. QED
    BY <2>3, <2>4, <2>5, <2>6, <2>7, <2>8 DEF Bookkeeping
<1>5. ASSUME NEW s \in GetSkippedRange(key),
             nextKey' = IF key = s THEN skippedKeyRanges[s] ELSE key,
             skippedKeyRanges' =
               IF key = s THEN [o \in DOMAIN skippedKeyRanges \ {s} |-> skippedKeyRanges[o]]
                          ELSE skippedKeyRanges,
             worker' = worker
      PROVE  Bookkeeping'
  <2>. DEFINE end == skippedKeyRanges[s]
              InFirst(k) == s <= k /\ k <= end
  <2>1. s \in DOMAIN skippedKeyRanges /\ s = key /\ key <= end /\ end \in Int /\ s \in Int
    BY <1>1, <1>2, RangeType
  <2>2. /\ nextKey' = end /\ DOMAIN skippedKeyRanges' = DOMAIN skippedKeyRanges \ {s}
        /\ \A o \in DOMAIN skippedKeyRanges \ {s} : skippedKeyRanges'[o] = skippedKeyRanges[o]
    BY <1>5, <2>1
  <2>3. \A o \in DOMAIN skippedKeyRanges \ {s} : s < o /\ end < o
    <3>1. \A o \in DOMAIN skippedKeyRanges \ {s} : s < o
      BY <1>1, <1>2, <2>1
    <3>. QED
      BY <2>1, <3>1 DEF Bookkeeping, RangesApart
  <2>4. /\ \A k \in Int : Past(k)' <=> (Past(k) \/ InFirst(k))
        /\ \A k \in Int : InRange(k)' <=> (InRange(k) /\ ~InFirst(k))
        /\ \A k \in Int : InFirst(k) => InRange(k)
    <3>1. \A k \in Int : Past(k)' <=> (Past(k) \/ InFirst(k))
      BY <1>1, <1>5, <2>1, <2>2 DEF Past
    <3>2. \A k \in Int : InFirst(k) => InRange(k)
      BY <2>1 DEF InRange
    <3>3. \A k \in Int : InRange(k)' <=> (InRange(k) /\ ~InFirst(k))
      BY <1>2, <2>1, <2>2, <2>3 DEF InRange
    <3>. QED
      BY <3>1, <3>2, <3>3
  <2>5. RangesApart'
    BY <2>2, <2>3 DEF Bookkeeping, RangesApart
  <2>6. RangesSkipped'
    BY <1>1, <1>3, <2>4 DEF Bookkeeping, RangesSkipped
  <2>7. SkipsKept'
    BY <1>1, <1>3, <2>4 DEF Bookkeeping, SkipsKept
  <2>8. QueuedSkipsAhead'
    BY <1>1, <1>3, <2>4 DEF Bookkeeping, QueuedSkipsAhead, RangesSkipped
  <2>9. RecordsKept' /\ WrittenRecorded'
    BY <1>1, <1>3 DEF Bookkeeping, RecordsKept, WrittenRecorded
  <2>10. SerializersPending'
    <3>1. \A k \in serializers : nextKey < k /\ k \notin skipped
      BY <1>1 DEF Bookkeeping, SerializersPending
    <3>2. \A k \in serializers : ~InFirst(k)
      BY <1>1, <2>4, <3>1 DEF Bookkeeping, RangesSkipped
    <3>3. \A k \in serializers : end < k
      BY <1>1, <2>1, <3>1, <3>2
    <3>. QED
      BY <1>1, <1>3, <1>5, <2>2, <3>3 DEF Bookkeeping, SerializersPending
  <2>11. PastDone'
    BY <1>1, <1>3, <2>4 DEF Bookkeeping, PastDone, RangesSkipped
  <2>. QED
    BY <2>5, <2>6, <2>7, <2>8, <2>9, <2>10, <2>11 DEF Bookkeeping
<1>. QED
  BY <1>4, <1>5 DEF UpdateNextKey, EndKey

(***************************************************************************)
(* The steps that leave the stream and the bookkeeping of the worker alone.*)
(***************************************************************************)
LEMMA OthersBookkeeping ==
  ASSUME Bookkeeping,
         \/ \E t \in Threads : \/ CreateCommandKey(t) \/ EncodePresent(t) \/ SubmitClosed(t)
                               \/ SubmitOpen(t) \/ ScheduleBytes(t) \/ ReadLastChecked(t)
                               \/ ReadScheduled(t) \/ ReadProcessed(t) \/ CompareBytes(t)
                               \/ StoreLastChecked(t)
         \/ \E c \in Closers : CloseCheck(c) \/ CloserStep(c)
         \/ UNCHANGED vars
  PROVE  Bookkeeping' /\ UNCHANGED <<written, recorded, skipped>>
<1>1. UNCHANGED bookVars
  BY DEF CreateCommandKey, EncodePresent, SubmitClosed, SubmitOpen, ScheduleBytes,
       ReadLastChecked, ReadScheduled, ReadProcessed, CompareBytes, StoreLastChecked,
       FlushVars, CloserStep, CloseCheck, CloseSet, CloseJoin, CloseRecorder, CloserVars,
       vars, historyVars, bookVars
<1>. QED
  BY <1>1, BookkeepingFrame DEF bookVars

LEMMA ExitBookkeeping ==
  ASSUME Bookkeeping, ExitWorker
  PROVE  Bookkeeping'
<1>1. /\ worker = "poll" /\ worker' = "exited"
      /\ UNCHANGED <<orderVars, written, concurrentQueue, recorded, skipped>>
  BY DEF ExitWorker, WorkerVars, historyVars
<1>. QED
  BY <1>1 DEF Bookkeeping, orderVars, RangesApart, RangesSkipped, SkipsKept,
       QueuedSkipsAhead, RecordsKept, SerializersPending, WrittenRecorded, PastDone, Past,
       InRange, Skips, Records, QueuedSkip, QueuedRecord, Stream!InStream

LEMMA BookkeepingStep ==
  ASSUME StreamInv, [Next]_vars
  PROVE  Bookkeeping'
<1>1. CASE \E t \in Threads : PushTask(t)
  BY <1>1, PushBookkeeping
<1>2. CASE WorkerStep
  BY <1>2, SkipCurrentBookkeeping, SkipAheadBookkeeping, RecordCurrentBookkeeping,
     RecordAheadBookkeeping, RecordSkippedBookkeeping, UpdateBookkeeping,
     PendingBookkeeping, ExitBookkeeping DEF WorkerStep, StreamInv
<1>3. CASE ~WorkerStep /\ ~\E t \in Threads : PushTask(t)
  BY <1>3, OthersBookkeeping DEF StreamInv, Next, ThreadStep
<1>. QED
  BY <1>1, <1>2, <1>3

LEMMA StreamStep == StreamInv /\ [Next]_vars => StreamInv'
<1>. SUFFICES ASSUME StreamInv, [Next]_vars PROVE StreamInv'
  OBVIOUS
<1>1. OrderInv'
  BY OrderStep DEF StreamInv
<1>2. Protocol'
  BY ProtocolStep DEF StreamInv, OrderInv
<1>3. Bookkeeping'
  BY BookkeepingStep
<1>. QED
  BY <1>1, <1>2, <1>3 DEF StreamInv

LEMMA StreamInvInit == Init => StreamInv
<1>. SUFFICES ASSUME Init PROVE StreamInv
  OBVIOUS
<1>1. OrderInv
  BY TypeInit DEF Init, OrderInv, RangesForward, WrittenBehind, WrittenInOrder
<1>2. Protocol
  BY DEF Init, Protocol, TodoOnce, TodoFresh, Minted, QueueOnce, QueueSubmitted
<1>3. /\ DOMAIN skippedKeyRanges = {} /\ concurrentQueue = <<>> /\ written = <<>>
      /\ recorded = {} /\ skipped = {} /\ serializers = {} /\ nextKey = 1 /\ worker = "poll"
  BY DEF Init
<1>4. \A k : ~InRange(k) /\ ~QueuedSkip(k)
  BY <1>3 DEF InRange, QueuedSkip, Skips
<1>5. \A k \in Keys : ~Past(k)
  BY <1>3 DEF Past, Keys
<1>6. Bookkeeping
  BY <1>3, <1>4, <1>5
     DEF Bookkeeping, RangesApart, RangesSkipped, SkipsKept, QueuedSkipsAhead, RecordsKept,
         SerializersPending, WrittenRecorded, PastDone
<1>. QED
  BY <1>1, <1>2, <1>6 DEF StreamInv
-----------------------------------------------------------------------------
(***************************************************************************)
(* Every step of the recorder is a step of OrderedStream, or changes       *)
(* nothing that OrderedStream sees.                                        *)
(***************************************************************************)
LEMMA WriteIsStreamStep ==
  ASSUME StreamInv, worker # "update", nextKey \in recorded \ skipped,
         ~Stream!InStream(nextKey),
         written' = Append(written, nextKey), UNCHANGED <<recorded, skipped>>
  PROVE  Stream!StreamNext
<1>1. nextKey \in Keys
  BY DEF StreamInv, OrderInv, TypeInv, TypeOK
<1>2. \A j \in 1..(nextKey - 1) : j \in Keys /\ Past(j)
  BY <1>1, MaxKeyAssumption DEF Keys, Past
<1>3. \A j \in 1..(nextKey - 1) : j \in skipped \/ Stream!InStream(j)
  BY <1>2 DEF StreamInv, Bookkeeping, PastDone
<1>4. Stream!Write(nextKey)
  BY <1>3 DEF Stream!Write
<1>. QED
  BY <1>1, <1>4 DEF Stream!StreamNext

LEMMA PushIsStreamStep ==
  ASSUME StreamInv, NEW t \in Threads, PushTask(t)
  PROVE  Stream!StreamNext
<1>1. PICK task \in Task :
        /\ Unsubmitted(task)
        /\ recorded' = IF task.type = "record" THEN recorded \cup {task.key} ELSE recorded
        /\ skipped' = IF task.type = "skip" THEN skipped \cup {task.key} ELSE skipped
  BY PushFacts DEF StreamInv, OrderInv
<1>2. written' = written /\ task.type \in {"record", "skip"} /\ task.key \in Keys
  BY DEF PushTask, Task, RecordTask, SkipTask
<1>3. CASE task.type = "record"
  BY <1>1, <1>2, <1>3 DEF Stream!StreamNext, Stream!Submit, Unsubmitted
<1>4. CASE task.type = "skip"
  BY <1>1, <1>2, <1>4 DEF Stream!StreamNext, Stream!Omit, Unsubmitted
<1>. QED
  BY <1>2, <1>3, <1>4

LEMMA StreamStepSimulation ==
  ASSUME StreamInv, [Next]_vars
  PROVE  [Stream!StreamNext]_(Stream!streamVars)
<1>. USE DEF Stream!streamVars
<1>1. CASE \E t \in Threads : PushTask(t)
  BY <1>1, PushIsStreamStep
<1>2. CASE WorkerStep
  <2>1. UNCHANGED <<recorded, skipped>>
    BY <1>2 DEF WorkerStep, SkipCurrent, SkipAhead, RecordCurrent, RecordAhead, RecordSkipped,
         UpdateNextKey, CheckPendingSerializers, ExitWorker, WorkerVars, historyVars
  <2>2. CASE RecordCurrent
    <3>1. worker # "update"
      BY <2>2 DEF RecordCurrent, PopTask
    <3>. QED
      BY <2>1, <2>2, <3>1, RecordCurrentBookkeeping, WriteIsStreamStep
  <2>3. CASE CheckPendingSerializers
    <3>1. worker # "update"
      BY <2>3 DEF CheckPendingSerializers
    <3>2. CASE written' = written
      BY <2>1, <3>2
    <3>3. CASE written' # written
      BY <2>1, <2>3, <3>1, <3>3, PendingBookkeeping, WriteIsStreamStep
    <3>. QED
      BY <3>2, <3>3
  <2>4. CASE ~RecordCurrent /\ ~CheckPendingSerializers
    <3>1. written' = written
      BY <1>2, <2>4 DEF WorkerStep, SkipCurrent, SkipAhead, RecordAhead, RecordSkipped,
           UpdateNextKey, ExitWorker
    <3>. QED
      BY <2>1, <3>1
  <2>. QED
    BY <2>2, <2>3, <2>4
<1>3. CASE ~WorkerStep /\ ~\E t \in Threads : PushTask(t)
  BY <1>3, OthersBookkeeping DEF StreamInv, Next, ThreadStep
<1>. QED
  BY <1>1, <1>2, <1>3

(***************************************************************************)
(* The recorder implements OrderedStream: whatever the order in which the  *)
(* threads submit their keys, the stream holds the recorded commands in    *)
(* the order of the calls, without a gap, without a repetition and without *)
(* a skipped call.                                                         *)
(***************************************************************************)
THEOREM RecorderImplementsStream == Spec => ImplementsOrderedStream
<1>1. Init => Stream!StreamInit
  BY DEF Init, Stream!StreamInit
<1>2. StreamInv /\ [Next]_vars => [Stream!StreamNext]_(Stream!streamVars)
  BY StreamStepSimulation
<1>. QED
  BY <1>1, <1>2, StreamInvInit, StreamStep, PTL
     DEF Spec, ImplementsOrderedStream, Stream!StreamSpec

(***************************************************************************)
(* The stream is a prefix of the session: a command is in it only if it    *)
(* was recorded and not skipped, and every call before it is in it too, or *)
(* was skipped.                                                            *)
(***************************************************************************)
THEOREM StreamIsGapFree == Spec => []Stream!StreamGapFree
<1>1. StreamInv => Stream!StreamGapFree
  <2>. SUFFICES ASSUME StreamInv, NEW k \in Keys, Stream!InStream(k)
                PROVE  /\ k \in recorded \ skipped
                       /\ \A j \in 1..(k - 1) : j \in skipped \/ Stream!InStream(j)
    BY DEF Stream!StreamGapFree
  <2>. USE DEF StreamInv, OrderInv, TypeInv
  <2>1. k \in recorded \ skipped /\ k <= nextKey
    BY DEF Bookkeeping, WrittenRecorded, WrittenBehind, Stream!InStream
  <2>2. k \in 1..MaxKey /\ nextKey \in Int
    BY DEF TypeOK, Keys
  <2>3. \A j \in 1..(k - 1) : j \in Keys /\ Past(j)
    BY <2>1, <2>2, MaxKeyAssumption DEF Keys, Past
  <2>. QED
    BY <2>1, <2>3 DEF Bookkeeping, PastDone
<1>. QED
  BY <1>1, StreamInvInit, StreamStep, PTL DEF Spec

(***************************************************************************)
(* Between two tasks the worker holds no command that it could write, and  *)
(* none that has fallen behind nextKey.                                    *)
(***************************************************************************)
THEOREM NothingDueIsEverHeld == Spec => []NothingDueIsHeld
<1>1. StreamInv => NothingDueIsHeld
  <2>. SUFFICES ASSUME StreamInv, worker \in {"poll", "exited"}, NEW k \in serializers
                PROVE  k > nextKey
    BY DEF NothingDueIsHeld
  <2>1. k \in Int /\ nextKey \in Int /\ worker # "pending"
    BY DEF StreamInv, OrderInv, TypeInv, TypeOK, Keys
  <2>. QED
    BY <2>1 DEF StreamInv, Bookkeeping, SerializersPending
<1>. QED
  BY <1>1, StreamInvInit, StreamStep, PTL DEF Spec

(***************************************************************************)
(* Between two tasks the ranges hold exactly the keys whose skip has been  *)
(* processed and that nextKey has not passed: merging a skip into a range  *)
(* neither adds nor loses a key, and no key is skipped twice.              *)
(***************************************************************************)
THEOREM RangesExact == Spec => []RangesAreProcessedSkips
<1>1. StreamInv => RangesAreProcessedSkips
  <2>. SUFFICES ASSUME StreamInv, worker \in {"poll", "exited"}, NEW k \in Keys
                PROVE  InRange(k) <=> (k \in skipped /\ k >= nextKey /\ ~SkipQueued(k))
    BY DEF RangesAreProcessedSkips, InRange, StreamInv, OrderInv, TypeInv, TypeOK
  <2>1. k \in Int /\ nextKey \in Int /\ concurrentQueue \in Seq(Task)
    BY DEF StreamInv, OrderInv, TypeInv, TypeOK, Keys
  <2>2. SkipQueued(k) <=> QueuedSkip(k)
    <3>1. DOMAIN concurrentQueue = 1..Len(concurrentQueue)
      BY <2>1, LenProperties
    <3>2. \A i \in DOMAIN concurrentQueue : concurrentQueue[i] \in Task
      BY <2>1, <3>1, ElementOfSeq
    <3>3. \A task \in Task :
            task = Skip(k) <=> (task.type = "skip" /\ task.key = k)
      BY DEF Task, RecordTask, SkipTask, Skip
    <3>. QED
      BY <3>1, <3>2, <3>3 DEF SkipQueued, InQueue, QueuedSkip, Skips
  <2>3. ASSUME InRange(k)
        PROVE  k \in skipped /\ k >= nextKey /\ ~QueuedSkip(k)
    <3>1. PICK s \in DOMAIN skippedKeyRanges : s <= k
      BY <2>3 DEF InRange
    <3>2. s \in Int /\ nextKey < s
      BY DEF StreamInv, OrderInv, TypeInv, TypeOK, Keys, Bookkeeping, RangesApart
    <3>. QED
      BY <2>1, <2>3, <3>1, <3>2 DEF StreamInv, Bookkeeping, RangesSkipped
  <2>4. ASSUME k \in skipped, k >= nextKey, ~QueuedSkip(k)
        PROVE  InRange(k)
    <3>1. ~Past(k)
      BY <2>1, <2>4 DEF Past
    <3>. QED
      BY <2>4, <3>1 DEF StreamInv, Bookkeeping, SkipsKept
  <2>. QED
    BY <2>2, <2>3, <2>4
<1>. QED
  BY <1>1, StreamInvInit, StreamStep, PTL DEF Spec
-----------------------------------------------------------------------------
(***************************************************************************)
(* Close().  The worker leaves an empty queue behind, and m_Recorder is    *)
(* closed when it has left.                                                *)
(***************************************************************************)
LateAfterExit ==
  worker = "exited" =>
    closed /\ \A i \in DOMAIN concurrentQueue : concurrentQueue[i].key \in late

JoinedBeforeSave ==
  /\ \A c \in Closers : closer[c] = "close" => worker = "exited"
  /\ saved => worker = "exited"

CloseInv == StreamInv /\ LateAfterExit /\ JoinedBeforeSave

LEMMA WorkerCloseStep ==
  ASSUME CloseInv, WorkerStep
  PROVE  LateAfterExit' /\ JoinedBeforeSave'
<1>1. worker # "exited" /\ UNCHANGED <<closed, closer, saved>>
  BY DEF WorkerStep, SkipCurrent, SkipAhead, RecordCurrent, RecordAhead, RecordSkipped,
       PopTask, UpdateNextKey, CheckPendingSerializers, ExitWorker, WorkerVars
<1>2. JoinedBeforeSave'
  BY <1>1 DEF CloseInv, JoinedBeforeSave
<1>3. worker' = "exited" => closed /\ concurrentQueue' = <<>>
  BY <1>1 DEF WorkerStep, SkipCurrent, SkipAhead, RecordCurrent, RecordAhead, RecordSkipped,
       PopTask, UpdateNextKey, CheckPendingSerializers, ExitWorker, WorkerVars, orderVars
<1>4. LateAfterExit'
  BY <1>1, <1>3 DEF LateAfterExit
<1>. QED
  BY <1>2, <1>4

LEMMA PushCloseStep ==
  ASSUME CloseInv, NEW t \in Threads, PushTask(t)
  PROVE  LateAfterExit' /\ JoinedBeforeSave'
<1>1. UNCHANGED <<worker, closed, closer, saved>> /\ late \subseteq late'
  BY DEF PushTask, orderVars
<1>2. PICK task \in Task : /\ concurrentQueue \in Seq(Task)
                           /\ concurrentQueue' = Append(concurrentQueue, task)
                           /\ closed => task.key \in late'
  <2>1. Head(todo[t]) \in Task /\ concurrentQueue \in Seq(Task)
    BY DEF CloseInv, StreamInv, OrderInv, TypeInv, TypeOK, Submitting, PushTask
  <2>. QED
    BY <2>1 DEF PushTask
<1>3. /\ \A i \in DOMAIN concurrentQueue : concurrentQueue'[i] = concurrentQueue[i]
      /\ concurrentQueue'[Len(concurrentQueue) + 1] = task
      /\ \A i \in DOMAIN concurrentQueue' :
           i \in DOMAIN concurrentQueue \/ i = Len(concurrentQueue) + 1
  BY <1>2, AppendIndex
<1>4. ASSUME worker = "exited"
      PROVE  closed' /\ \A i \in DOMAIN concurrentQueue' : concurrentQueue'[i].key \in late'
  <2>1. closed /\ \A i \in DOMAIN concurrentQueue : concurrentQueue[i].key \in late
    BY <1>4 DEF CloseInv, LateAfterExit
  <2>. QED
    BY <1>1, <1>2, <1>3, <2>1
<1>5. LateAfterExit'
  BY <1>1, <1>4 DEF LateAfterExit
<1>. QED
  BY <1>1, <1>5 DEF CloseInv, JoinedBeforeSave

LEMMA OthersCloseStep ==
  ASSUME CloseInv, [Next]_vars, ~WorkerStep, ~\E t \in Threads : PushTask(t)
  PROVE  LateAfterExit' /\ JoinedBeforeSave'
<1>1. UNCHANGED <<worker, concurrentQueue, late>> /\ (closed => closed')
  BY DEF Next, ThreadStep, CreateCommandKey, EncodePresent, SubmitClosed, SubmitOpen,
       ScheduleBytes, ReadLastChecked, ReadScheduled, ReadProcessed, CompareBytes,
       StoreLastChecked, FlushVars, CloserStep, CloseCheck, CloseSet, CloseJoin,
       CloseRecorder, CloserVars, vars, historyVars
<1>2. CASE \E c \in Closers : CloseCheck(c) \/ CloserStep(c)
  <2>1. closer \in [Closers -> CloserPc]
    BY DEF CloseInv, StreamInv, OrderInv, TypeInv, TypeOK
  <2>. QED
    BY <1>1, <1>2, <2>1
       DEF CloserStep, CloseCheck, CloseSet, CloseJoin, CloseRecorder, CloseInv,
           LateAfterExit, JoinedBeforeSave
<1>3. CASE ~\E c \in Closers : CloseCheck(c) \/ CloserStep(c)
  <2>1. UNCHANGED <<closed, closer, saved>>
    BY <1>3 DEF Next, ThreadStep, CreateCommandKey, EncodePresent, SubmitClosed, SubmitOpen,
         ScheduleBytes, ReadLastChecked, ReadScheduled, ReadProcessed, CompareBytes,
         StoreLastChecked, FlushVars, vars
  <2>. QED
    BY <1>1, <2>1 DEF CloseInv, LateAfterExit, JoinedBeforeSave
<1>. QED
  BY <1>2, <1>3

LEMMA CloseStep == CloseInv /\ [Next]_vars => CloseInv'
<1>. SUFFICES ASSUME CloseInv, [Next]_vars PROVE CloseInv'
  OBVIOUS
<1>1. StreamInv'
  BY StreamStep DEF CloseInv
<1>2. LateAfterExit' /\ JoinedBeforeSave'
  BY WorkerCloseStep, PushCloseStep, OthersCloseStep
<1>. QED
  BY <1>1, <1>2 DEF CloseInv

LEMMA CloseInit == Init => CloseInv
  BY StreamInvInit DEF Init, CloseInv, LateAfterExit, JoinedBeforeSave

(***************************************************************************)
(* After m_Recorder->Close() nothing is handed to the StreamWriter any     *)
(* more: the one that closes it has joined the worker, whoever else calls  *)
(* Close().                                                                *)
(***************************************************************************)
THEOREM SavedIsFinal == Spec => NothingWrittenAfterSave
<1>1. CloseInv /\ [Next]_vars => [saved => written' = written]_vars
  <2>. SUFFICES ASSUME CloseInv, [Next]_vars, saved PROVE written' = written
    OBVIOUS
  <2>1. ~WorkerStep
    BY DEF CloseInv, JoinedBeforeSave, WorkerStep, SkipCurrent, SkipAhead, RecordCurrent,
         RecordAhead, RecordSkipped, PopTask, UpdateNextKey, CheckPendingSerializers,
         ExitWorker
  <2>. QED
    BY <2>1, OthersOrder
<1>. QED
  BY <1>1, CloseInit, CloseStep, PTL DEF Spec, NothingWrittenAfterSave

(***************************************************************************)
(* Close() drains: once the worker has exited, a command that is missing   *)
(* waits for a call that was never submitted, or was pushed by a thread    *)
(* that had seen the recorder open just before it was closed.              *)
(***************************************************************************)
THEOREM ExitDrains == Spec => []DrainedOnExit
<1>1. CloseInv => DrainedOnExit
  <2>. SUFFICES ASSUME CloseInv, worker = "exited", NEW k \in recorded \ skipped,
                       ~Stream!InStream(k), \A j \in 1..k : Accounted(j) /\ j \notin late
                PROVE  FALSE
    BY DEF DrainedOnExit
  <2>. USE DEF CloseInv, StreamInv, OrderInv, TypeInv
  <2>1. k \in Int /\ nextKey \in Nat \ {0} /\ k \in 1..k
    BY DEF TypeOK, Keys
  <2>2. \A j \in 1..k : ~QueuedSkip(j) /\ ~QueuedRecord(j)
    BY DEF LateAfterExit, QueuedSkip, QueuedRecord, Skips, Records
  <2>3. k \in serializers
    BY <2>1, <2>2 DEF Bookkeeping, RecordsKept
  <2>4. nextKey < k /\ nextKey \in 1..k
    BY <2>1, <2>3 DEF Bookkeeping, SerializersPending
  <2>5. ~Stream!InStream(nextKey) /\ ~InRange(nextKey) /\ ~Past(nextKey)
    BY <2>1, NextIsNew DEF Past
  <2>6. nextKey \notin skipped
    BY <2>2, <2>4, <2>5 DEF Bookkeeping, SkipsKept
  <2>7. nextKey \notin recorded
    BY <2>1, <2>2, <2>4, <2>5, <2>6 DEF Bookkeeping, RecordsKept, SerializersPending
  <2>. QED
    BY <2>4, <2>6, <2>7 DEF Accounted
<1>. QED
  BY <1>1, CloseInit, CloseStep, PTL DEF Spec
=============================================================================
