------------------------- MODULE ObjectCreationProofs -------------------------
(***************************************************************************)
(* Proofs about ObjectCreation, for every number of workers, of objects    *)
(* and of providers, and whatever each creation uses: the service is well  *)
(* typed, creates nothing twice, finds what a creation uses alive, loses   *)
(* no reference, and finds the arguments of every call.                    *)
(*                                                                         *)
(* None of these is inductive.  The invariant follows an object through    *)
(* the service: issued, queued or taken by one thread, created, collected  *)
(* or put aside; it says what the references of the object add up to on    *)
(* the way, and what the call in progress and the creations outstanding    *)
(* may rely on.                                                            *)
(***************************************************************************)
EXTENDS ObjectCreation, SequenceTheorems, TLAPS

Resting == player \in {"ready", "join", "exited"}
Naming == {"addRef", "release", "lastRelease", "use"}

\* The call in progress; the object of a creation is not known to anyone else yet.
CommandInv ==
  /\ Resting => command = NoCommand /\ toComplete = {}
  /\ ~Resting => command.op # "none"
  /\ command.op \in Naming \cup {"create"} => command.key \in All
  /\ command.op \in {"addRef", "release", "use"} => captured[command.key] > 0
  /\ command.op = "create" =>
       /\ command.key \in issued
       /\ command.key \notin tasks \cup started \cup {current} \cup Uses[command.key]
       /\ output[command.key] = "none"
       /\ captured[command.key] = 1 /\ refCounts[command.key] = 0

\* The queue holds tasks that nobody has taken, each once.
QueueInv ==
  /\ \A i, j \in 1 .. Len(tasksQueue) : tasksQueue[i] = tasksQueue[j] => i = j
  /\ \A i \in 1 .. Len(tasksQueue) : tasksQueue[i] \in tasks \ started

\* A task is with one worker, and the player either has it to do or waits for it.
JobInv ==
  /\ \A w \in Workers : job[w] # None <=> worker[w] \in {"create", "count"}
  /\ \A w \in Workers : job[w] # None =>
       job[w] \in started /\ (job[w] \in tasks \/ (player = "await" /\ job[w] = current))
  /\ \A v, w \in Workers : job[v] = job[w] /\ job[v] # None => v = w

\* What the player creates itself no worker has taken.
CurrentInv ==
  /\ current # None <=> player \in {"await", "create", "count"}
  /\ current # None => current \in issued \cap toComplete /\ current \notin tasks
  /\ player \in {"create", "count"} => current \notin started

\* An object is created once, when its turn has come, and no object is passed over.
OutputInv ==
  /\ tasks \subseteq issued /\ started \subseteq issued
  /\ \A k \in Objects : creations[k] = (IF output[k] = "none" THEN 0 ELSE 1)
  /\ \A k \in Objects \ issued : output[k] = "none"
  /\ \A k \in tasks \ started : output[k] = "none"
  /\ \A w \in Workers : /\ worker[w] = "create" => output[job[w]] = "none"
                        /\ worker[w] = "count" => output[job[w]] = "ok"
  /\ player = "create" => output[current] = "none"
  /\ player = "count" => output[current] = "ok"
  /\ \A k \in issued : output[k] = "none" =>
       k \in tasks \/ k = current \/ (command.op = "create" /\ k = command.key)

\* The references that the application held before the call in progress.
Owed(k) ==
  IF k # command.key THEN 0
  ELSE IF command.op = "addRef" THEN 1
  ELSE IF command.op \in {"release", "lastRelease"} THEN -1 ELSE 0
Held(k) == captured[k] - Owed(k)

Counting(k) ==
  \/ player = "count" /\ current = k
  \/ \E w \in Workers : job[w] = k

CountInv ==
  /\ \A k \in Providers : Held(k) = count[k]
  /\ \A k \in Objects \ issued : Held(k) = 0 /\ refCounts[k] = 0
  /\ \A k \in issued : output[k] # "failed" =>
       Held(k) = (IF output[k] = "ok" THEN count[k] ELSE 1) + refCounts[k]
  /\ \A k \in Objects : output[k] # "ok" => count[k] = 0
  /\ \A k \in Objects : output[k] = "ok" /\ ~Counting(k) => refCounts[k] = 0

\* The player knows every object that is alive, in one place, and no other.
KeptInv ==
  /\ \A k \in objects : count[k] > 0
  /\ \A k \in Providers : count[k] > 0 => k \in objects
  /\ \A k \in Objects \cap objects : k \notin tasks \cup preCollected \cup {current}
  /\ \A k \in preCollected : k \notin tasks \cup {current} /\ output[k] # "none"
  /\ \A k \in Objects : output[k] = "ok" /\ k \in tasks \cup preCollected \cup {current} =>
       count[k] > 0
  /\ \A k \in Objects : count[k] > 0 => k \in tasks \cup preCollected \cup objects \cup {current}

\* The objects that the call in progress names are found once they are completed.
Found(u) == u \in objects \/ (u \in Objects /\ output[u] = "failed")
Needed(u) == \/ command.op = "create" /\ u \in Uses[command.key]
             \/ command.op \in Naming /\ u = command.key
NeedInv == \A u \in All : Needed(u) => Held(u) > 0 /\ (u \in toComplete \/ Found(u))

\* What an outstanding creation uses is found, and is not released before it.
Outstanding(k) == output[k] = "none" /\ k \in tasks \cup {current}
UseInv ==
  \A k \in Objects : Outstanding(k) =>
    \A u \in Uses[k] :
      /\ Found(u)
      /\ \/ k \in dependencies[u]
         \/ command.op = "lastRelease" /\ command.key = u /\ k \in toComplete

CreationInv ==
  /\ TypeOK /\ CommandInv /\ QueueInv /\ JobInv /\ CurrentInv /\ OutputInv
  /\ CountInv /\ KeptInv /\ NeedInv /\ UseInv
-----------------------------------------------------------------------------
(***************************************************************************)
(* What the invariant says in the situations the actions meet.             *)
(***************************************************************************)
\* Between two calls nobody owes a reference, and the player works at no object.
LEMMA AtRest ==
  ASSUME CreationInv, Resting
  PROVE  /\ command.op = "none" /\ toComplete = {} /\ current = None
         /\ \A k \in All : Held(k) = captured[k] /\ Owed(k) = 0 /\ ~Needed(k)
<1> USE DEF CreationInv
<1>1. command.op = "none" /\ toComplete = {}
  BY DEF CommandInv, NoCommand
<1>2. current = None
  BY DEF CurrentInv, Resting
<1>3. \A k : Owed(k) = 0 /\ ~Needed(k)
  BY <1>1 DEF Owed, Needed, Naming
<1>4. captured \in [All -> 0 .. MaxRef]
  BY DEF TypeOK
<1> QED
  BY <1>1, <1>2, <1>3, <1>4 DEF Held

\* An object that is with a worker is neither released nor put aside nor the player's.
LEMMA WithWorker ==
  ASSUME CreationInv, NEW w \in Workers, job[w] # None
  PROVE  /\ job[w] \in Objects /\ job[w] \in issued /\ job[w] \in tasks \cup {current}
         /\ job[w] \notin objects \cup preCollected
         /\ player \in {"create", "count"} => job[w] # current
<1> USE DEF CreationInv
<1>1. job[w] \in Objects /\ job[w] \in started /\ job[w] \in tasks \cup {current}
  BY DEF JobInv, TypeOK
<1> QED
  BY <1>1 DEF OutputInv, KeptInv, CurrentInv

\* Once an object is collected the references are all its own.
LEMMA Collected ==
  ASSUME CreationInv, NEW k \in objects
  PROVE  /\ k \in All /\ count[k] = Held(k) /\ count[k] > 0
         /\ k \in Objects => k \in issued /\ output[k] = "ok" /\ refCounts[k] = 0
<1> USE DEF CreationInv
<1>1. k \in All /\ count[k] > 0 /\ count \in [All -> Nat]
  BY DEF TypeOK, KeptInv
<1>2. CASE k \in Providers
  BY <1>1, <1>2, ObjectsAssumption DEF CountInv
<1>3. CASE k \in Objects
  <2>1. output[k] = "ok"
    BY <1>1, <1>3 DEF CountInv
  <2>2. k \in issued
    BY <1>3, <2>1 DEF OutputInv
  <2>3. ~Counting(k)
    BY <1>3, WithWorker, NoneAssumption DEF Counting, KeptInv, All
  <2> QED
    BY <1>1, <1>3, <2>1, <2>2, <2>3 DEF CountInv
<1> QED
  BY <1>1, <1>2, <1>3 DEF All

\* A worker takes a task that nobody has, which is not in the queue a second time.
LEMMA FirstOfQueue ==
  ASSUME CreationInv, tasksQueue # <<>>
  PROVE  /\ Head(tasksQueue) \in Objects /\ Head(tasksQueue) \in tasks \ started
         /\ Tail(tasksQueue) \in Seq(Objects)
         /\ \A i \in 1 .. Len(Tail(tasksQueue)) :
              /\ i + 1 \in 1 .. Len(tasksQueue)
              /\ Tail(tasksQueue)[i] = tasksQueue[i + 1]
              /\ Tail(tasksQueue)[i] # Head(tasksQueue)
<1> USE DEF CreationInv
<1>1. tasksQueue \in Seq(Objects) /\ Len(tasksQueue) > 0
  BY EmptySeq DEF TypeOK
<1>2. Head(tasksQueue) = tasksQueue[1] /\ 1 \in 1 .. Len(tasksQueue)
  BY <1>1
<1>3. /\ Tail(tasksQueue) \in Seq(Objects)
      /\ \A i \in 1 .. Len(Tail(tasksQueue)) :
           i + 1 \in 1 .. Len(tasksQueue) /\ i + 1 # 1 /\ Tail(tasksQueue)[i] = tasksQueue[i + 1]
  BY <1>1
<1> QED
  BY <1>1, <1>2, <1>3 DEF QueueInv, TypeOK

\* Taking one object out of the queue leaves the others in their order.
LEMMA QueueWithoutIt ==
  ASSUME CreationInv, NEW k \in Objects
  PROVE  /\ QueueWithout(k) \in Seq(Objects)
         /\ \A i \in 1 .. Len(QueueWithout(k)) : QueueWithout(k)[i] # k
         /\ \E f \in [1 .. Len(QueueWithout(k)) -> 1 .. Len(tasksQueue)] :
              /\ \A i, j \in 1 .. Len(QueueWithout(k)) : f[i] = f[j] => i = j
              /\ \A i \in 1 .. Len(QueueWithout(k)) : QueueWithout(k)[i] = tasksQueue[f[i]]
<1> DEFINE s == tasksQueue
<1>1. s \in Seq(Objects) /\ Len(s) \in Nat
  BY DEF CreationInv, TypeOK
<1>2. CASE ~\E i \in 1 .. Len(s) : s[i] = k
  <2>1. QueueWithout(k) = s
    BY <1>2 DEF QueueWithout, RemoveFirst
  <2>2. [i \in 1 .. Len(s) |-> i] \in [1 .. Len(s) -> 1 .. Len(s)]
    OBVIOUS
  <2> QED
    BY <1>1, <1>2, <2>1, <2>2
<1>3. CASE \E i \in 1 .. Len(s) : s[i] = k
  <2>1. PICK n \in 1 .. Len(s) : s[n] = k
    BY <1>3
  <2>2. \A i \in 1 .. Len(s) : s[i] = k => i = n
    BY <2>1 DEF CreationInv, QueueInv
  <2>3. {i \in 1 .. Len(s) : s[i] = k} = {n}
    BY <2>1, <2>2
  <2>4. Min({n}) = n
    BY <1>1 DEF Min
  <2>5. SelectInSeq(s, LAMBDA v : v = k) = n
    BY <2>3, <2>4 DEF SelectInSeq
  <2>6. QueueWithout(k) = SubSeq(s, 1, n - 1) \o SubSeq(s, n + 1, Len(s))
    BY <1>3, <2>5 DEF QueueWithout, RemoveFirst, RemoveAt
  <2> DEFINE a == SubSeq(s, 1, n - 1)
             b == SubSeq(s, n + 1, Len(s))
  <2>7. /\ a \in Seq(Objects) /\ Len(a) = n - 1 /\ \A i \in 1 .. n - 1 : a[i] = s[i]
        /\ b \in Seq(Objects) /\ Len(b) = Len(s) - n
        /\ \A i \in 1 .. Len(s) - n : b[i] = s[i + n]
    BY <1>1, <2>1
  <2> HIDE DEF a, b
  <2>8. /\ a \o b \in Seq(Objects) /\ Len(a \o b) = Len(a) + Len(b)
        /\ \A i \in 1 .. Len(a) : (a \o b)[i] = a[i]
        /\ \A i \in Len(a) + 1 .. Len(a) + Len(b) : (a \o b)[i] = b[i - Len(a)]
    <3>1. /\ a \o b \in Seq(Objects) /\ Len(a \o b) = Len(a) + Len(b)
          /\ \A i \in 1 .. Len(a) + Len(b) :
               (a \o b)[i] = IF i <= Len(a) THEN a[i] ELSE b[i - Len(a)]
      BY <2>7, ConcatProperties
    <3>2. Len(a) \in Nat /\ Len(b) \in Nat
      BY <2>7
    <3> HIDE <2>7
    <3> QED
      BY <3>1, <3>2
  <2>9. n \in Nat /\ 1 <= n /\ n <= Len(s)
    BY <1>1
  <2>10. /\ Len(a \o b) = Len(s) - 1
         /\ \A i \in 1 .. n - 1 : (a \o b)[i] = s[i]
    BY <1>1, <2>7, <2>8, <2>9
  <2>11. ASSUME NEW i \in n .. Len(s) - 1 PROVE (a \o b)[i] = s[i + 1]
    <3> DEFINE j == i - (n - 1)
    <3>1. i \in Len(a) + 1 .. Len(a) + Len(b) /\ j \in 1 .. Len(s) - n /\ j + n = i + 1
      BY <1>1, <2>7, <2>9
    <3>2. (a \o b)[i] = b[j]
      BY <2>7, <2>8, <3>1
    <3> QED
      BY <2>7, <3>1, <3>2
  <2> DEFINE f == [i \in 1 .. Len(s) - 1 |-> IF i < n THEN i ELSE i + 1]
  <2>12. /\ f \in [1 .. Len(s) - 1 -> 1 .. Len(s)]
         /\ \A i, j \in 1 .. Len(s) - 1 : f[i] = f[j] => i = j
         /\ \A i \in 1 .. Len(s) - 1 : f[i] # n
    BY <1>1, <2>9
  <2>13. ASSUME NEW i \in 1 .. Len(s) - 1 PROVE (a \o b)[i] = s[f[i]]
    <3>1. i \in 1 .. n - 1 \/ i \in n .. Len(s) - 1
      BY <1>1, <2>9
    <3>2. f[i] = IF i < n THEN i ELSE i + 1
      OBVIOUS
    <3> QED
      BY <1>1, <2>9, <2>10, <2>11, <3>1, <3>2
  <2>14. QueueWithout(k) = a \o b
    BY <2>6 DEF a, b
  <2> HIDE DEF f
  <2>15. \A i \in 1 .. Len(s) - 1 : f[i] \in 1 .. Len(s) /\ (a \o b)[i] # k
    BY <2>2, <2>12, <2>13
  <2>16. QueueWithout(k) \in Seq(Objects) /\ Len(QueueWithout(k)) = Len(s) - 1
    BY <2>8, <2>10, <2>14
  <2>17. \A i \in 1 .. Len(s) - 1 : QueueWithout(k)[i] # k /\ QueueWithout(k)[i] = s[f[i]]
    BY <2>13, <2>14, <2>15
  <2> DEFINE queue == QueueWithout(k)
  <2>18. /\ f \in [1 .. Len(queue) -> 1 .. Len(tasksQueue)]
         /\ \A i, j \in 1 .. Len(queue) : f[i] = f[j] => i = j
    BY <2>12, <2>16
  <2>19. \A i \in 1 .. Len(queue) : queue[i] # k /\ queue[i] = tasksQueue[f[i]]
    BY <2>16, <2>17
  <2>20. queue \in Seq(Objects)
    BY <2>16
  <2> HIDE DEF queue
  <2>21. \E g \in [1 .. Len(queue) -> 1 .. Len(tasksQueue)] :
           /\ \A i, j \in 1 .. Len(queue) : g[i] = g[j] => i = j
           /\ \A i \in 1 .. Len(queue) : queue[i] = tasksQueue[g[i]]
    BY <2>18, <2>19
  <2> QED
    BY <2>19, <2>20, <2>21 DEF queue
<1> QED
  BY <1>2, <1>3
-----------------------------------------------------------------------------
LEMMA InitCreation == Init => CreationInv
<1> SUFFICES ASSUME Init PROVE CreationInv
  OBVIOUS
<1> USE NoneAssumption, ObjectsAssumption DEF Init, All
<1>1. TypeOK
  <2>1. /\ captured \in [All -> 0 .. MaxRef] /\ refCounts \in [Objects -> 0 .. MaxRef - 1]
        /\ count \in [All -> Nat] /\ creations \in [Objects -> Nat]
    BY MaxRefAssumption
  <2>2. command \in [op : Ops, key : All \cup {None}]
    BY DEF Ops, NoCommand
  <2>3. tasksQueue \in Seq(Objects) /\ dependencies \in [All -> SUBSET Objects]
    OBVIOUS
  <2>4. /\ worker \in [Workers -> {"check", "wait", "create", "count", "exited"}]
        /\ job \in [Workers -> Objects \cup {None}]
        /\ output \in [Objects -> {"none", "ok", "failed"}]
    OBVIOUS
  <2> QED
    BY <2>1, <2>2, <2>3, <2>4 DEF TypeOK
<1>2. CommandInv
  BY DEF CommandInv, Resting, Naming, NoCommand
<1>3. QueueInv
  BY DEF QueueInv
<1>4. JobInv
  BY DEF JobInv
<1>5. CurrentInv
  BY DEF CurrentInv
<1>6. OutputInv
  BY DEF OutputInv
<1>7. CountInv
  BY DEF CountInv, Held, Owed, NoCommand
<1>8. KeptInv
  BY DEF KeptInv
<1>9. NeedInv
  BY DEF NeedInv, Needed, Naming, NoCommand
<1>10. UseInv
  BY DEF UseInv, Outstanding
<1> QED
  BY <1>1, <1>2, <1>3, <1>4, <1>5, <1>6, <1>7, <1>8, <1>9, <1>10 DEF CreationInv

(***************************************************************************)
(* The calls.  A call that has to wait changes nothing but itself and what *)
(* the application holds.                                                  *)
(***************************************************************************)
CallFrame == <<dependencies, serviceVars, workerVars, current, objects, preCollected, createVars>>

LEMMA CallKeeps ==
  ASSUME CreationInv, player = "ready", player' = "complete", UNCHANGED CallFrame,
         issued \subseteq issued', command'.op # "create" => issued' = issued
  PROVE  QueueInv' /\ JobInv' /\ CurrentInv' /\ KeptInv' /\ UseInv'
<1> USE DEF CreationInv, CallFrame, serviceVars, workerVars, createVars
<1>1. QueueInv'
  BY DEF QueueInv
<1>2. JobInv'
  BY DEF JobInv
<1>3. CurrentInv'
  BY AtRest DEF CurrentInv, Resting
<1>4. KeptInv'
  BY DEF KeptInv
<1>5. UseInv'
  <2>1. command.op = "none"
    BY AtRest DEF Resting
  <2> QED
    BY <2>1 DEF UseInv, Outstanding, Found
<1> QED
  BY <1>1, <1>2, <1>3, <1>4, <1>5

LEMMA CreateKeeps ==
  ASSUME CreationInv, NEW k \in All, Create(k)
  PROVE  CreationInv'
<1> USE UsesAssumption, NoneAssumption DEF CreationInv, serviceVars, workerVars, createVars
<1>1. /\ command.op = "none" /\ toComplete = {} /\ current = None
      /\ \A u \in All : Held(u) = captured[u]
  BY AtRest DEF Create, Resting
<1>2. k \in Objects /\ k \notin issued /\ \A u \in Uses[k] : u \in All /\ captured[u] > 0
  BY DEF Create, All
<1>3. captured[k] = 0 /\ refCounts[k] = 0 /\ output[k] = "none" /\ k \notin Uses[k]
  BY <1>1, <1>2 DEF CountInv, OutputInv
<1>4. /\ command' = [op |-> "create", key |-> k]
      /\ captured' = [captured EXCEPT ![k] = 1] /\ issued' = issued \cup {k}
      /\ toComplete' = (Uses[k] \cap Objects) \ objects
      /\ UNCHANGED CallFrame
  BY DEF Create, Wait, CallFrame
<1>5. \A u \in All : Held(u)' = captured'[u]
  BY <1>4, MaxRefAssumption DEF Held, Owed, TypeOK
<1>6. TypeOK'
  BY <1>2, <1>4, MaxRefAssumption DEF Create, Wait, TypeOK, Ops
<1>7. CommandInv'
  BY <1>1, <1>2, <1>3, <1>4 DEF Create, Wait, CommandInv, Resting, Naming, OutputInv, TypeOK, All
<1>8. QueueInv' /\ JobInv' /\ CurrentInv' /\ KeptInv' /\ UseInv'
  BY <1>4, CallKeeps DEF Create, Wait
<1>9. OutputInv'
  BY <1>1, <1>4 DEF Create, Wait, OutputInv
<1>10. CountInv'
  <2>1. \A u \in All : u # k => captured'[u] = captured[u]
    BY <1>4 DEF TypeOK
  <2>2. k \notin Providers /\ captured'[k] = 1
    BY <1>2, <1>4, ObjectsAssumption DEF TypeOK, All
  <2>3. \A u \in Providers : Held(u)' = count'[u]
    BY <1>1, <1>5, <2>1, <2>2 DEF CountInv, Create, All
  <2>4. \A u \in Objects \ issued' : Held(u)' = 0 /\ refCounts'[u] = 0
    BY <1>1, <1>4, <1>5, <2>1 DEF CountInv, Create, All
  <2>5. \A u \in issued' : output'[u] # "failed" =>
          Held(u)' = (IF output'[u] = "ok" THEN count'[u] ELSE 1) + refCounts'[u]
    BY <1>1, <1>2, <1>3, <1>4, <1>5, <2>1, <2>2 DEF CountInv, Create, All, TypeOK
  <2>6. /\ \A u \in Objects : output'[u] # "ok" => count'[u] = 0
        /\ \A u \in Objects : output'[u] = "ok" /\ ~Counting(u)' => refCounts'[u] = 0
    BY DEF CountInv, Counting, Create, Wait
  <2> QED
    BY <2>3, <2>4, <2>5, <2>6 DEF CountInv
<1>11. NeedInv'
  <2> SUFFICES ASSUME NEW u \in All, Needed(u)'
               PROVE  (Held(u) > 0 /\ (u \in toComplete \/ Found(u)))'
    BY DEF NeedInv
  <2>1. u \in Uses[k]
    BY <1>4 DEF Needed, Naming
  <2>2. captured[u] > 0 /\ Held(u) > 0 /\ captured'[u] = captured[u]
    BY <1>1, <1>2, <1>3, <1>4, <2>1 DEF TypeOK
  <2>3. u \in Providers => u \in objects
    BY <2>2 DEF CountInv, KeptInv
  <2> QED
    BY <1>4, <1>5, <2>1, <2>2, <2>3 DEF Found, Create, All
<1> QED
  BY <1>6, <1>7, <1>8, <1>9, <1>10, <1>11

\* A call on an object, other than its creation, that waits until the object is there.
LEMMA NamingKeeps ==
  ASSUME CreationInv, player = "ready", NEW op \in Naming, NEW k \in All, NEW keys,
         Wait(op, k, keys), UNCHANGED <<issued, CallFrame>>,
         captured' \in [All -> 0 .. MaxRef],
         \A u \in All \ {k} : captured'[u] = captured[u],
         captured[k] > 0, op # "lastRelease" => captured'[k] > 0,
         captured'[k] = captured[k] + (IF op = "addRef" THEN 1
                                       ELSE IF op \in {"release", "lastRelease"} THEN -1 ELSE 0),
         k \notin objects => keys = {k}, k \in objects => keys = {}
  PROVE  CreationInv'
<1> USE DEF CreationInv, Wait
<1>1. /\ command.op = "none" /\ toComplete = {} /\ current = None
      /\ \A u \in All : Held(u) = captured[u]
  BY AtRest DEF Resting
<1>2. captured \in [All -> 0 .. MaxRef] /\ objects \subseteq All
  BY DEF TypeOK
<1>3. k \notin objects => k \in issued
  <2>1. k \in Providers => k \in objects
    BY <1>1 DEF CountInv, KeptInv, All
  <2>2. k \in Objects => k \in issued
    BY <1>1 DEF CountInv, All
  <2> QED
    BY <2>1, <2>2 DEF All
<1>4. \A u \in All : Held(u)' = captured[u]
  BY <1>2, MaxRefAssumption DEF Held, Owed, Naming
<1>5. TypeOK'
  <2>1. command' \in [op : Ops, key : All \cup {None}]
    BY DEF Naming, Ops
  <2>2. toComplete' \subseteq Objects
    BY <1>3 DEF TypeOK
  <2> QED
    BY <2>1, <2>2 DEF TypeOK, CallFrame, serviceVars, workerVars, createVars
<1>6. CommandInv'
  BY DEF CommandInv, Resting, Naming
<1>7. QueueInv' /\ JobInv' /\ CurrentInv' /\ KeptInv' /\ UseInv'
  BY CallKeeps DEF CallFrame
<1>8. OutputInv'
  BY <1>1 DEF OutputInv, CallFrame, serviceVars, workerVars, createVars
<1>9. CountInv'
  <2>1. \A u \in All : Held(u)' = Held(u)
    BY <1>1, <1>4
  <2> QED
    BY <2>1 DEF CountInv, Counting, CallFrame, serviceVars, workerVars, createVars, All, TypeOK
<1>10. NeedInv'
  BY <1>4 DEF NeedInv, Needed, Naming, Found, CallFrame
<1> QED
  BY <1>5, <1>6, <1>7, <1>8, <1>9, <1>10

LEMMA LastReleaseKeeps ==
  ASSUME CreationInv, NEW k \in All, LastRelease(k)
  PROVE  CreationInv'
<1>1. captured \in [All -> 0 .. MaxRef] /\ MaxRef \in Nat
  BY MaxRefAssumption DEF CreationInv, TypeOK
<1>2. UNCHANGED <<issued, CallFrame>> /\ player = "ready" /\ "lastRelease" \in Naming
  BY DEF LastRelease, CallFrame, Naming
<1>3. /\ captured' \in [All -> 0 .. MaxRef] /\ captured[k] = 1 /\ captured'[k] = 0
      /\ \A u \in All \ {k} : captured'[u] = captured[u]
  BY <1>1 DEF LastRelease
<1>4. Wait("lastRelease", k, {k} \ objects)
  BY DEF LastRelease
<1> QED
  BY <1>2, <1>3, <1>4, NamingKeeps

LEMMA UseKeeps ==
  ASSUME CreationInv, NEW k \in All, Use(k)
  PROVE  CreationInv'
<1>1. captured \in [All -> 0 .. MaxRef]
  BY DEF CreationInv, TypeOK
<1>2. UNCHANGED <<issued, CallFrame>> /\ player = "ready" /\ "use" \in Naming
  BY DEF Use, CallFrame, Naming
<1>3. k \notin objects /\ captured[k] > 0 /\ captured' = captured /\ Wait("use", k, {k})
  BY DEF Use
<1>4. captured'[k] = captured[k] + 0
  BY <1>1, <1>3
<1> QED
  BY <1>1, <1>2, <1>3, <1>4, NamingKeeps

LEMMA RestoreEndKeeps ==
  ASSUME CreationInv, StateRestoreEnd
  PROVE  CreationInv'
<1> USE DEF CreationInv, StateRestoreEnd, Wait
<1>1. /\ command.op = "none" /\ current = None
      /\ \A u \in All : Held(u) = captured[u] /\ Held(u)' = captured[u]
  BY AtRest, NoneAssumption DEF Resting, Held, Owed
<1>2. UNCHANGED <<captured, issued, CallFrame>>
  BY DEF CallFrame
<1>3. TypeOK'
  BY <1>2 DEF TypeOK, Ops, CallFrame, serviceVars, workerVars, createVars
<1>4. CommandInv'
  BY DEF CommandInv, Resting, Naming
<1>5. QueueInv' /\ JobInv' /\ CurrentInv' /\ KeptInv' /\ UseInv'
  BY <1>2, CallKeeps
<1>6. OutputInv'
  BY <1>1 DEF OutputInv, serviceVars, workerVars, createVars
<1>7. CountInv'
  BY <1>1 DEF CountInv, Counting, serviceVars, workerVars, createVars, All, TypeOK
<1>8. NeedInv'
  BY DEF NeedInv, Needed, Naming
<1> QED
  BY <1>3, <1>4, <1>5, <1>6, <1>7, <1>8

\* The references of an object that is there, or of a task that nobody has taken, change at
\* once.
LEMMA CountAtOnce ==
  ASSUME CreationInv, NEW op, NEW k \in All, NEW n \in {-1, 1}, UpdateRefCount(op, k, n),
         k \in objects \/ IsPending(k)
  PROVE  CreationInv'
<1> USE DEF CreationInv, UpdateRefCount, References, IsPending
<1>1. /\ command.op = "none" /\ current = None
      /\ \A u \in All : Held(u) = captured[u] /\ Owed(u) = 0 /\ ~Needed(u)
  BY AtRest DEF Resting
<1>2. /\ UNCHANGED <<issued, dependencies, command, toComplete, player, tasks, tasksQueue,
                     started, done, worker, job, current, preCollected, output, creations>>
  BY DEF workerVars
<1>3. /\ captured' \in [All -> 0 .. MaxRef] /\ captured'[k] = captured[k] + n /\ captured'[k] > 0
      /\ \A u \in All \ {k} : captured'[u] = captured[u]
      /\ \A u \in All : captured[u] \in Nat
  BY MaxRefAssumption DEF TypeOK
<1>4. \A u \in All : Held(u)' = captured'[u]
  BY <1>1, <1>2, <1>3 DEF Held, Owed
<1>5. /\ count' \in [All -> Nat] /\ refCounts' \in [Objects -> 0 .. MaxRef - 1]
      /\ objects' = objects
      /\ \A u \in All \ {k} : count'[u] = count[u]
      /\ \A u \in Objects \ {k} : refCounts'[u] = refCounts[u]
      /\ \/ k \in objects /\ count'[k] = count[k] + n /\ count'[k] > 0 /\ refCounts' = refCounts
         \/ /\ k \in Objects /\ k \in tasks \ started /\ count' = count
            /\ refCounts'[k] = refCounts[k] + n
  <2>1. CASE k \in objects
    <3>1. count[k] = captured[k]
      BY <1>1, <2>1, Collected
    <3>2. /\ count' = [count EXCEPT ![k] = @ + n] /\ objects' = {o \in objects : count'[o] > 0}
          /\ refCounts' = refCounts
      BY <2>1
    <3>3. count' \in [All -> Nat] /\ count'[k] > 0 /\ count'[k] = count[k] + n
      BY <1>3, <3>1, <3>2 DEF TypeOK
    <3>4. objects' = objects
      BY <3>2, <3>3 DEF KeptInv, TypeOK
    <3> QED
      BY <2>1, <3>2, <3>3, <3>4 DEF TypeOK
  <2>2. CASE k \notin objects /\ IsPending(k)
    <3>1. /\ refCounts' = [refCounts EXCEPT ![k] = @ + n] /\ count' = count /\ objects' = objects
          /\ k \in Objects /\ k \in issued /\ output[k] = "none"
      BY <2>2 DEF TypeOK, OutputInv
    <3>2. captured[k] = 1 + refCounts[k]
      BY <1>1, <3>1 DEF CountInv
    <3>3. refCounts[k] + n = captured'[k] - 1 /\ refCounts[k] + n \in 0 .. MaxRef - 1
      BY <1>3, <3>1, <3>2, MaxRefAssumption DEF TypeOK
    <3>4. refCounts' \in [Objects -> 0 .. MaxRef - 1] /\ refCounts'[k] = refCounts[k] + n
      BY <3>1, <3>3 DEF TypeOK
    <3> QED
      BY <2>2, <3>1, <3>4 DEF TypeOK
  <2> QED
    BY <2>1, <2>2
<1> HIDE DEF UpdateRefCount, References, IsPending
<1>6. TypeOK'
  BY <1>2, <1>3, <1>5 DEF TypeOK
<1>7. CommandInv'
  BY <1>1, <1>2, NoneAssumption DEF CommandInv, Resting, Naming
<1>8. QueueInv' /\ JobInv' /\ CurrentInv' /\ OutputInv'
  BY <1>2 DEF QueueInv, JobInv, CurrentInv, OutputInv
<1>9. CountInv'
  <2>1. \A u \in All : Counting(u)' <=> Counting(u)
    BY <1>2 DEF Counting
  <2>2. k \in objects \/ k \in tasks \ started => k \in Providers \cup issued
    BY Collected DEF OutputInv, All
  <2>3. ASSUME NEW u \in Providers PROVE Held(u)' = count'[u]
    <3>1. u \in All /\ u \notin Objects /\ captured[u] = count[u]
      BY <1>1, ObjectsAssumption DEF CountInv, All
    <3> QED
      BY <1>3, <1>4, <1>5, <3>1
  <2>4. ASSUME NEW u \in Objects \ issued' PROVE Held(u)' = 0 /\ refCounts'[u] = 0
    <3>1. u \in All /\ u \notin Providers /\ u \notin issued
      BY <1>2, ObjectsAssumption DEF All
    <3>2. Held(u) = 0 /\ refCounts[u] = 0
      BY <3>1 DEF CountInv
    <3>3. captured[u] = 0
      BY <1>1, <3>1, <3>2
    <3>4. u # k
      BY <2>2, <3>1, <1>3, <1>5, <3>3
    <3> QED
      BY <1>3, <1>4, <1>5, <3>1, <3>2, <3>3, <3>4
  <2>5. ASSUME NEW u \in issued', output'[u] # "failed"
        PROVE  Held(u)' = (IF output'[u] = "ok" THEN count'[u] ELSE 1) + refCounts'[u]
    <3>1. u \in Objects /\ u \in All /\ u \in issued /\ output[u] # "failed"
      BY <1>2, <2>5 DEF TypeOK, All
    <3>2. captured[u] = (IF output[u] = "ok" THEN count[u] ELSE 1) + refCounts[u]
      BY <1>1, <3>1 DEF CountInv
    <3>3. count[u] \in Nat /\ refCounts[u] \in Nat
      BY <3>1, MaxRefAssumption DEF TypeOK
    <3>4. CASE u # k
      BY <1>2, <1>3, <1>4, <1>5, <3>1, <3>2, <3>4
    <3>5. CASE u = k /\ k \in objects
      <4>1. output[k] = "ok" /\ k \notin tasks
        BY <3>1, <3>5, Collected DEF KeptInv
      <4> QED
        BY <1>2, <1>3, <1>4, <1>5, <3>1, <3>2, <3>3, <3>5, <4>1
    <3>6. CASE u = k /\ k \notin objects
      <4>1. output[k] = "none"
        BY <1>5, <3>6 DEF OutputInv
      <4> QED
        BY <1>2, <1>3, <1>4, <1>5, <3>1, <3>2, <3>3, <3>6, <4>1
    <3> QED
      BY <3>4, <3>5, <3>6
  <2>6. \A u \in Objects : output'[u] # "ok" => count'[u] = 0
    BY <1>2, <1>5, Collected DEF CountInv, All
  <2>7. ASSUME NEW u \in Objects, output'[u] = "ok", ~Counting(u)' PROVE refCounts'[u] = 0
    <3>1. output[u] = "ok" /\ ~Counting(u)
      BY <1>2, <2>1, <2>7 DEF All
    <3>3. refCounts[u] = 0
      BY <3>1 DEF CountInv
    <3>2. u \notin tasks \ started
      BY <3>1 DEF OutputInv
    <3> QED
      BY <1>5, <3>2, <3>3
  <2> QED
    BY <2>3, <2>4, <2>5, <2>6, <2>7 DEF CountInv
<1>10. KeptInv'
  <2>1. \A u \in All : count'[u] > 0 <=> count[u] > 0
    BY <1>5, Collected
  <2> QED
    BY <1>2, <1>5, <2>1 DEF KeptInv, All, TypeOK
<1>11. NeedInv'
  BY <1>1, <1>2 DEF NeedInv, Needed
<1>12. UseInv'
  BY <1>2, <1>5 DEF UseInv, Outstanding, Found
<1> QED
  BY <1>6, <1>7, <1>8, <1>9, <1>10, <1>11, <1>12

LEMMA AddRefKeeps ==
  ASSUME CreationInv, NEW k \in All, UpdateRefCount("addRef", k, 1)
  PROVE  CreationInv'
<1>1. CASE k \in objects \/ IsPending(k)
  BY <1>1, CountAtOnce
<1>2. CASE k \notin objects /\ ~IsPending(k)
  <2>1. captured \in [All -> 0 .. MaxRef] /\ MaxRef \in Nat
    BY MaxRefAssumption DEF CreationInv, TypeOK
  <2>2. /\ UNCHANGED <<issued, CallFrame>> /\ player = "ready" /\ "addRef" \in Naming
        /\ Wait("addRef", k, {k})
    BY <1>2 DEF UpdateRefCount, CallFrame, Naming, serviceVars, createVars
  <2>3. /\ captured' \in [All -> 0 .. MaxRef] /\ captured[k] > 0
        /\ captured'[k] = captured[k] + 1 /\ captured'[k] > 0
        /\ \A u \in All \ {k} : captured'[u] = captured[u]
    BY <2>1 DEF UpdateRefCount
  <2> QED
    BY <1>2, <2>2, <2>3, NamingKeeps
<1> QED
  BY <1>1, <1>2

LEMMA ReleaseKeeps ==
  ASSUME CreationInv, NEW k \in All, UpdateRefCount("release", k, -1)
  PROVE  CreationInv'
<1>1. CASE k \in objects \/ IsPending(k)
  BY <1>1, CountAtOnce
<1>2. CASE k \notin objects /\ ~IsPending(k)
  <2>1. captured \in [All -> 0 .. MaxRef] /\ MaxRef \in Nat
    BY MaxRefAssumption DEF CreationInv, TypeOK
  <2>2. /\ UNCHANGED <<issued, CallFrame>> /\ player = "ready" /\ "release" \in Naming
        /\ Wait("release", k, {k})
    BY <1>2 DEF UpdateRefCount, CallFrame, Naming, serviceVars, createVars
  <2>3. /\ captured' \in [All -> 0 .. MaxRef] /\ captured[k] > 0
        /\ captured'[k] = captured[k] + -1 /\ captured'[k] > 0
        /\ \A u \in All \ {k} : captured'[u] = captured[u]
    BY <2>1 DEF UpdateRefCount
  <2> QED
    BY <1>2, <2>2, <2>3, NamingKeeps
<1> QED
  BY <1>1, <1>2
-----------------------------------------------------------------------------
(***************************************************************************)
(* Completing objects.  What Collect leaves the player with.               *)
(***************************************************************************)
LEMMA CollectedOnce ==
  ASSUME CreationInv, NEW k \in Objects, NEW result \in {"ok", "failed"}, Collect(k, result),
         k \notin objects
  PROVE  /\ objects \subseteq objects' /\ objects' \subseteq objects \cup {k}
         /\ preCollected' \subseteq preCollected \cup {k}
         /\ preCollected \subseteq preCollected' \cup {k}
         /\ k \in objects' => result = "ok" /\ k \notin preCollected'
         /\ result = "ok" => k \in objects' \cup preCollected'
         /\ toComplete' = toComplete \ {k}
         /\ \A u \in All : Needed(u) /\ u = k /\ result = "ok" => u \in objects'
<1>1. \A u \in All : Needed(u) => ~IsConsumer(u)
  BY DEF Needed, IsConsumer, Naming
<1> QED
  BY <1>1 DEF Collect, IsConsumer

\* An object that the call needs and that is no task is there, or was not created.
LEMMA NeededNoTask ==
  ASSUME CreationInv, NEW k \in Objects, Needed(k), player = "complete", k \notin tasks,
         k \notin preCollected, k \in toComplete
  PROVE  Found(k)
<1> USE DEF CreationInv
<1>1. Held(k) > 0 /\ current = None
  BY DEF NeedInv, CurrentInv, All
<1>2. k \in issued
  BY <1>1 DEF CountInv
<1>3. output[k] # "none"
  <2>1. ~(command.op = "create" /\ k = command.key)
    BY DEF Needed, CommandInv, Naming
  <2> QED
    BY <1>1, <1>2, <2>1, NoneAssumption DEF OutputInv, All
<1>4. CASE output[k] = "ok"
  <2>1. ~Counting(k)
    BY <1>1, WithWorker, NoneAssumption DEF Counting, All
  <2>2. count[k] > 0
    <3>1. Held(k) = count[k] + refCounts[k] /\ refCounts[k] = 0 /\ count[k] \in Nat
      BY <1>2, <1>4, <2>1 DEF CountInv, TypeOK, All
    <3> QED
      BY <1>1, <3>1
  <2> QED
    BY <1>1, <2>2, NoneAssumption DEF KeptInv, Found, All
<1>5. CASE output[k] = "failed"
  BY <1>5 DEF Found
<1> QED
  BY <1>3, <1>4, <1>5 DEF TypeOK

LEMMA NoTaskKeeps ==
  ASSUME CreationInv, NEW k \in Objects, NoTask(k)
  PROVE  CreationInv'
<1> USE DEF CreationInv, replayVars, serviceVars, workerVars, createVars
<1>1. /\ player = "complete" /\ current = None /\ k \in toComplete /\ k \notin tasks
      /\ toComplete' = toComplete \ {k} /\ UNCHANGED current
  BY DEF NoTask, Collect, CurrentInv
<1>2. \/ IsPreCollected(k) /\ Collect(k, output[k])
      \/ ~IsPreCollected(k) /\ objects' = objects /\ preCollected' = preCollected
  BY DEF NoTask
<1>3. IsPreCollected(k) => k \in preCollected /\ k \notin objects /\ output[k] \in {"ok", "failed"}
  BY DEF IsPreCollected, KeptInv, TypeOK
<1>4. /\ objects \subseteq objects' /\ objects' \subseteq objects \cup {k}
      /\ preCollected' \subseteq preCollected
      /\ preCollected \subseteq preCollected' \cup {k}
      /\ k \in objects' => k \in objects \/ (output[k] = "ok" /\ k \notin preCollected'
                                             /\ k \in preCollected)
      /\ output[k] = "ok" /\ k \in preCollected => k \in objects' \cup preCollected'
      /\ \A u \in All : Needed(u) /\ u = k => Found(u)'
  <2>1. CASE IsPreCollected(k)
    BY <1>2, <1>3, <2>1, CollectedOnce DEF Found, IsPreCollected, NoTask
  <2>2. CASE ~IsPreCollected(k)
    <3>1. Needed(k) => k \notin preCollected
      BY <2>2 DEF Needed, Naming, IsPreCollected, IsConsumer
    <3>2. Needed(k) => Found(k)
      BY <1>1, <3>1, NeededNoTask
    <3> QED
      BY <1>2, <2>2, <3>2 DEF Found, NoTask
  <2> QED
    BY <2>1, <2>2
<1>5. UNCHANGED <<replayVars, serviceVars, workerVars, player, createVars>>
  BY DEF NoTask
<1>6. TypeOK'
  BY <1>1, <1>4, <1>5 DEF TypeOK, All
<1>7. CommandInv' /\ QueueInv' /\ JobInv' /\ OutputInv'
  BY <1>1, <1>5 DEF CommandInv, Resting, QueueInv, JobInv, OutputInv
<1>8. CurrentInv'
  BY <1>1, <1>5 DEF CurrentInv
<1>9. CountInv'
  BY <1>1, <1>5 DEF CountInv, Held, Owed, Counting
<1>10. KeptInv'
  <2>1. \A u \in objects' : count'[u] > 0
    BY <1>4, <1>5 DEF KeptInv
  <2>2. \A u \in Objects \cap objects' : u \notin tasks' \cup preCollected' \cup {current'}
    BY <1>1, <1>4, <1>5, NoneAssumption DEF KeptInv, All
  <2>3. \A u \in Objects : count'[u] > 0 => u \in tasks' \cup preCollected' \cup objects' \cup {current'}
    <3>1. \A u \in Objects : count[u] > 0 => output[u] = "ok"
      BY DEF CountInv
    <3> QED
      BY <1>1, <1>4, <1>5, <3>1 DEF KeptInv
  <2> QED
    BY <1>1, <1>4, <1>5, <2>1, <2>2, <2>3 DEF KeptInv
<1>11. NeedInv'
  BY <1>1, <1>4, <1>5 DEF NeedInv, Needed, Held, Owed, Found
<1>12. UseInv'
  <2>1. ~Outstanding(k) /\ \A u \in All : Found(u) => Found(u)'
    BY <1>1, <1>4, <1>5, NoneAssumption DEF Outstanding, Found, All
  <2>2. \A u \in Objects : Outstanding(u)' => Outstanding(u) /\ u # k
    BY <1>1, <1>5, <2>1 DEF Outstanding
  <2> QED
    BY <1>1, <1>5, <2>1, <2>2, UsesAssumption DEF UseInv, All
<1> QED
  BY <1>6, <1>7, <1>8, <1>9, <1>10, <1>11, <1>12

LEMMA CompleteKeeps ==
  ASSUME CreationInv, NEW k \in Objects, Complete(k)
  PROVE  CreationInv'
<1> USE NoneAssumption DEF CreationInv, replayVars, workerVars, createVars
<1>1. /\ player = "complete" /\ current = None /\ k # None /\ k \in toComplete /\ k \in tasks
      /\ k \in issued /\ tasks' = tasks \ {k} /\ current' = k
  BY DEF Complete, CurrentInv, OutputInv, All
<1>2. \/ k \in started /\ player' = "await" /\ tasksQueue' = tasksQueue
      \/ k \notin started /\ player' = "create" /\ tasksQueue' = QueueWithout(k)
  BY DEF Complete
<1>3. UNCHANGED <<replayVars, started, refCounts, done, workerVars, toComplete, objects,
                  preCollected, createVars>>
  BY DEF Complete
<1>4. TypeOK'
  <2>1. tasksQueue' \in Seq(Objects)
    BY <1>2, QueueWithoutIt DEF TypeOK
  <2>2. player' \in {"await", "create"} /\ tasks' \subseteq Objects /\ current' \in Objects
    BY <1>1, <1>2 DEF TypeOK
  <2> QED
    BY <1>3, <2>1, <2>2 DEF TypeOK
<1>5. CommandInv'
  BY <1>1, <1>2, <1>3 DEF CommandInv, Resting
<1>6. QueueInv'
  <2>1. CASE k \in started
    BY <1>1, <1>2, <1>3, <2>1 DEF QueueInv
  <2>2. CASE k \notin started
    <3>1. tasksQueue' = QueueWithout(k)
      BY <1>2, <2>2
    <3> DEFINE queue == QueueWithout(k)
    <3>2. PICK f \in [1 .. Len(queue) -> 1 .. Len(tasksQueue)] :
             /\ \A i, j \in 1 .. Len(queue) : f[i] = f[j] => i = j
             /\ \A i \in 1 .. Len(queue) : queue[i] = tasksQueue[f[i]]
      BY QueueWithoutIt
    <3>3. \A i \in 1 .. Len(queue) : f[i] \in 1 .. Len(tasksQueue) /\ queue[i] # k
      BY <3>2, QueueWithoutIt
    <3> HIDE DEF queue
    <3>4. /\ \A i, j \in 1 .. Len(queue) : queue[i] = queue[j] => i = j
          /\ \A i \in 1 .. Len(queue) : queue[i] \in tasks \ started /\ queue[i] # k
      <4>1. /\ \A i, j \in 1 .. Len(tasksQueue) : tasksQueue[i] = tasksQueue[j] => i = j
            /\ \A i \in 1 .. Len(tasksQueue) : tasksQueue[i] \in tasks \ started
        BY DEF QueueInv
      <4> HIDE DEF CreationInv
      <4>2. ASSUME NEW i \in 1 .. Len(queue), NEW j \in 1 .. Len(queue), queue[i] = queue[j]
            PROVE  i = j
        BY <3>2, <3>3, <4>1, <4>2
      <4> QED
        BY <3>2, <3>3, <4>1, <4>2
    <3>5. started' = started /\ \A u \in tasks \ started : u # k => u \in tasks' \ started'
      BY <1>1, <1>2, <1>3
    <3>6. tasksQueue' = queue
      BY <3>1 DEF queue
    <3> QED
      BY <3>4, <3>5, <3>6 DEF QueueInv
  <2> QED
    BY <2>1, <2>2
<1>7. JobInv'
  BY <1>1, <1>2, <1>3 DEF JobInv
<1>8. CurrentInv'
  BY <1>1, <1>2, <1>3 DEF CurrentInv
<1>9. OutputInv'
  <2>1. k \notin started => output[k] = "none"
    BY <1>1 DEF OutputInv
  <2>2. player' = "create" => output'[current'] = "none"
    BY <1>1, <1>2, <1>3, <2>1
  <2>3. \A u \in issued' : output'[u] = "none" =>
          u \in tasks' \/ u = current' \/ (command'.op = "create" /\ u = command'.key)
    BY <1>1, <1>3 DEF OutputInv, TypeOK, All
  <2> QED
    BY <1>1, <1>2, <1>3, <2>2, <2>3 DEF OutputInv
<1>10. CountInv'
  <2>1. \A u \in All : Held(u)' = Held(u)
    BY <1>3 DEF Held, Owed
  <2>2. \A u \in Objects : Counting(u)' <=> Counting(u)
    BY <1>1, <1>2, <1>3 DEF Counting
  <2> QED
    BY <1>3, <2>1, <2>2 DEF CountInv, All, TypeOK
<1>11. KeptInv'
  BY <1>1, <1>3 DEF KeptInv, All
<1>12. NeedInv'
  BY <1>3 DEF NeedInv, Needed, Held, Owed, Found
<1>13. UseInv'
  <2>1. \A u \in Objects : Outstanding(u)' <=> Outstanding(u)
    BY <1>1, <1>3 DEF Outstanding, All
  <2>2. \A u : Found(u)' <=> Found(u)
    BY <1>3 DEF Found
  <2> QED
    BY <1>3, <2>1, <2>2 DEF UseInv
<1> QED
  BY <1>4, <1>5, <1>6, <1>7, <1>8, <1>9, <1>10, <1>11, <1>12, <1>13

\* The player takes over the result of an object that it has waited for or created.
LEMMA TakeOver ==
  ASSUME CreationInv, NEW k \in Objects, NEW result \in {"ok", "failed"}, Collect(k, result),
         k = current, output'[k] = result, output[k] \in {"none", result}, result = "ok" => count'[k] > 0,
         result = "failed" => count'[k] = 0,
         refCounts'[k] = 0 \/ result = "failed", \A w \in Workers : job[w] # k,
         player' = "complete", current' = None,
         \A u \in All \ {k} : count'[u] = count[u],
         \A u \in Objects \ {k} : output'[u] = output[u] /\ refCounts'[u] = refCounts[u],
         UNCHANGED <<replayVars, tasks, tasksQueue, started, workerVars>>,
         result = "ok" => Held(k) = count'[k],
         creations' = [creations EXCEPT ![k] = 1],
         count' \in [All -> Nat], output' \in [Objects -> {"none", "ok", "failed"}],
         refCounts' \in [Objects -> 0 .. MaxRef - 1], done' = done
  PROVE  CreationInv'
<1> USE NoneAssumption DEF CreationInv, replayVars, workerVars
<1>1. /\ k # None /\ k \in issued /\ k \notin tasks /\ k \notin objects /\ k \notin preCollected
      /\ k \in All /\ k \notin Providers
  BY ObjectsAssumption DEF CurrentInv, KeptInv, All
<1>2. /\ objects \subseteq objects' /\ objects' \subseteq objects \cup {k}
      /\ preCollected' \subseteq preCollected \cup {k} /\ preCollected \subseteq preCollected'
      /\ k \in objects' => result = "ok" /\ k \notin preCollected'
      /\ result = "ok" => k \in objects' \cup preCollected'
      /\ toComplete' = toComplete \ {k}
      /\ \A u \in All : Needed(u) /\ u = k /\ result = "ok" => u \in objects'
  BY <1>1, CollectedOnce
<1>3. \A u \in All : Held(u)' = Held(u)
  BY DEF Held, Owed
<1>4. TypeOK'
  BY <1>2 DEF TypeOK, All
<1>5. CommandInv'
  <2>1. player \notin {"ready", "join", "exited"}
    BY <1>1 DEF CurrentInv
  <2>2. command.op = "create" => command.key # k /\ command.key \in Objects
    BY <1>1 DEF CommandInv, TypeOK
  <2> QED
    BY <1>1, <2>1, <2>2 DEF CommandInv, Resting
<1>6. QueueInv'
  BY DEF QueueInv
<1>7. JobInv'
  BY DEF JobInv
<1>8. CurrentInv'
  BY DEF CurrentInv
<1>9. OutputInv'
  <2>1. \A u \in tasks' \ started' : output'[u] = "none"
    BY <1>1 DEF OutputInv, TypeOK
  <2>2. \A u \in Objects : creations'[u] = (IF output'[u] = "none" THEN 0 ELSE 1)
    BY DEF OutputInv, TypeOK
  <2>3. \A w \in Workers : /\ worker'[w] = "create" => output'[job'[w]] = "none"
                           /\ worker'[w] = "count" => output'[job'[w]] = "ok"
    BY DEF OutputInv, TypeOK, JobInv
  <2>4. \A u \in Objects \ issued' : output'[u] = "none"
    BY <1>1 DEF OutputInv
  <2>5. \A u \in issued' : output'[u] = "none" =>
          u \in tasks' \/ u = current' \/ (command'.op = "create" /\ u = command'.key)
    BY DEF OutputInv, TypeOK
  <2> QED
    BY <2>1, <2>2, <2>3, <2>4, <2>5 DEF OutputInv
<1>10. CountInv'
  <2>1. \A u \in Objects \ {k} : Counting(u)' <=> Counting(u)
    BY DEF Counting
  <2>2. \A u \in Providers : Held(u)' = count'[u]
    BY <1>1, <1>3 DEF CountInv, All
  <2>3. \A u \in Objects \ issued' : Held(u)' = 0 /\ refCounts'[u] = 0
    BY <1>1, <1>3 DEF CountInv, All
  <2>4. ASSUME NEW u \in issued', output'[u] # "failed"
        PROVE  Held(u)' = (IF output'[u] = "ok" THEN count'[u] ELSE 1) + refCounts'[u]
    <3>1. CASE u = k
      BY <1>1, <1>3, <2>4, <3>1 DEF TypeOK
    <3>2. CASE u # k
      BY <1>1, <1>3, <2>4, <3>2 DEF CountInv, TypeOK, All
    <3> QED
      BY <3>1, <3>2
  <2>5. \A u \in Objects : output'[u] # "ok" => count'[u] = 0
    BY <1>1 DEF CountInv, All
  <2>6. \A u \in Objects : output'[u] = "ok" /\ ~Counting(u)' => refCounts'[u] = 0
    BY <1>1, <2>1 DEF CountInv
  <2> QED
    BY <2>2, <2>3, <2>4, <2>5, <2>6 DEF CountInv
<1>11. KeptInv'
  <2>1. \A u \in objects' : count'[u] > 0
    BY <1>1, <1>2 DEF KeptInv, TypeOK
  <2>2. \A u \in Providers : count'[u] > 0 => u \in objects'
    BY <1>1, <1>2 DEF KeptInv, All
  <2>3. \A u \in Objects \cap objects' : u \notin tasks' \cup preCollected' \cup {current'}
    BY <1>1, <1>2 DEF KeptInv, All
  <2>4. \A u \in preCollected' : u \notin tasks' \cup {current'} /\ output'[u] # "none"
    <3> TAKE u \in preCollected'
    <3>1. CASE u = k
      BY <1>1, <3>1
    <3>2. CASE u # k
      <4>1. u \in preCollected /\ u \in Objects
        BY <1>2, <3>2 DEF TypeOK
      <4> QED
        BY <1>1, <3>2, <4>1 DEF KeptInv, All
    <3> QED
      BY <3>1, <3>2
  <2>5. \A u \in Objects : output'[u] = "ok" /\ u \in tasks' \cup preCollected' \cup {current'} =>
          count'[u] > 0
    BY <1>1, <1>2 DEF KeptInv, All
  <2>6. \A u \in Objects : count'[u] > 0 => u \in tasks' \cup preCollected' \cup objects' \cup {current'}
    BY <1>1, <1>2 DEF KeptInv, All
  <2> QED
    BY <2>1, <2>2, <2>3, <2>4, <2>5, <2>6 DEF KeptInv
<1>12. \A u \in All : Found(u) => Found(u)'
  BY <1>1, <1>2 DEF Found
<1>13. NeedInv'
  <2>1. \A u \in All : Needed(u)' <=> Needed(u)
    BY DEF Needed
  <2>2. Needed(k) => Found(k)'
    BY <1>1, <1>2 DEF Found
  <2> QED
    BY <1>2, <1>3, <1>12, <2>1, <2>2 DEF NeedInv
<1>14. UseInv'
  <2>1. \A u \in Objects : Outstanding(u)' => Outstanding(u) /\ u # k
    BY <1>1 DEF Outstanding, All
  <2> QED
    BY <1>2, <1>12, <2>1, UsesAssumption DEF UseInv, All
<1> QED
  BY <1>4, <1>5, <1>6, <1>7, <1>8, <1>9, <1>10, <1>11, <1>13, <1>14

LEMMA AwaitKeeps ==
  ASSUME CreationInv, AwaitResult
  PROVE  CreationInv'
<1> DEFINE k == current
           result == output[k]
<1> USE DEF CreationInv
<1>1. /\ k \in Objects /\ k \in issued /\ result \in {"ok", "failed"} /\ k \in All
      /\ player = "await" /\ \A w \in Workers : job[w] # k
  BY DEF AwaitResult, TypeOK, CurrentInv, All
<1>2. /\ Collect(k, result) /\ player' = "complete" /\ current' = None
      /\ UNCHANGED <<replayVars, serviceVars, workerVars, createVars>>
  BY DEF AwaitResult
<1>3. result = "ok" => count[k] > 0 /\ refCounts[k] = 0 /\ Held(k) = count[k]
  <2>1. ~Counting(k)
    BY <1>1 DEF Counting
  <2>2. result = "ok" => count[k] > 0
    BY <1>1 DEF KeptInv
  <2>3. result = "ok" => refCounts[k] = 0 /\ Held(k) = count[k] + refCounts[k]
    BY <1>1, <2>1 DEF CountInv
  <2>4. count[k] \in Nat
    BY <1>1 DEF TypeOK
  <2> QED
    BY <2>2, <2>3, <2>4
<1>4. result = "failed" => count[k] = 0
  BY <1>1 DEF CountInv
<1>5. creations = [creations EXCEPT ![k] = 1]
  BY <1>1 DEF OutputInv, TypeOK
<1>6. /\ count \in [All -> Nat] /\ output \in [Objects -> {"none", "ok", "failed"}]
      /\ refCounts \in [Objects -> 0 .. MaxRef - 1]
  BY DEF TypeOK
<1>7. /\ UNCHANGED <<replayVars, tasks, tasksQueue, started, workerVars>> /\ done' = done
      /\ count' = count /\ output' = output /\ creations' = creations /\ refCounts' = refCounts
  BY <1>2 DEF serviceVars, createVars
<1> HIDE DEF CreationInv, result
<1> QED
  BY <1>1, <1>2, <1>3, <1>4, <1>5, <1>6, <1>7, TakeOver DEF result

LEMMA CountHereKeeps ==
  ASSUME CreationInv, CountHere
  PROVE  CreationInv'
<1> DEFINE k == current
<1> USE DEF CreationInv
<1>1. /\ k \in Objects /\ k \in issued /\ k \in All /\ output[k] = "ok"
      /\ k \notin tasks /\ player = "count"
  BY DEF CountHere, TypeOK, CurrentInv, OutputInv, All
<1>2. \A w \in Workers : job[w] # k
  BY <1>1, WithWorker, NoneAssumption DEF CurrentInv, All
<1>3. /\ Collect(k, "ok") /\ player' = "complete" /\ current' = None
      /\ UNCHANGED <<replayVars, tasks, tasksQueue, started, done, workerVars, output, creations>>
      /\ count' = [count EXCEPT ![k] = @ + refCounts[k]]
      /\ refCounts' = [refCounts EXCEPT ![k] = 0]
  BY DEF CountHere, ApplyRefCount
<1>4. /\ count[k] > 0 /\ count[k] \in Nat /\ refCounts[k] \in Nat
      /\ Held(k) = count[k] + refCounts[k]
  <2>1. count[k] > 0
    BY <1>1 DEF KeptInv
  <2>2. Held(k) = count[k] + refCounts[k]
    BY <1>1 DEF CountInv
  <2> QED
    BY <1>1, <2>1, <2>2, MaxRefAssumption DEF TypeOK
<1>5. /\ count' \in [All -> Nat] /\ count'[k] = count[k] + refCounts[k] /\ count'[k] > 0
      /\ refCounts' \in [Objects -> 0 .. MaxRef - 1] /\ refCounts'[k] = 0
      /\ output' \in [Objects -> {"none", "ok", "failed"}]
      /\ \A u \in All \ {k} : count'[u] = count[u]
      /\ \A u \in Objects \ {k} : refCounts'[u] = refCounts[u]
  BY <1>1, <1>3, <1>4, MaxRefAssumption DEF TypeOK
<1>6. creations' = [creations EXCEPT ![k] = 1]
  BY <1>1, <1>3 DEF OutputInv, TypeOK
<1> HIDE DEF CreationInv
<1> QED
  BY <1>1, <1>2, <1>3, <1>4, <1>5, <1>6, TakeOver

\* What the creation of an object, by whatever thread, changes.
LEMMA Created ==
  ASSUME CreationInv, NEW k \in Objects, output[k] = "none", RunFunctor(k)
  PROVE  /\ output'[k] \in {"ok", "failed"} /\ creations' = [creations EXCEPT ![k] = 1]
         /\ creations' \in [Objects -> Nat]
         /\ output' \in [Objects -> {"none", "ok", "failed"}] /\ count' \in [All -> Nat]
         /\ count'[k] = IF output'[k] = "ok" THEN 1 ELSE 0
         /\ \A u \in All \ {k} : count'[u] = count[u]
         /\ \A u \in Objects \ {k} : output'[u] = output[u]
<1>1. PICK result \in {"ok", "failed"} :
         /\ output' = [output EXCEPT ![k] = result]
         /\ count' = [count EXCEPT ![k] = IF result = "ok" THEN 1 ELSE 0]
         /\ creations' = [creations EXCEPT ![k] = @ + 1]
  BY DEF RunFunctor
<1>2. creations[k] = 0
  BY DEF CreationInv, OutputInv
<1>3. k \in All
  BY DEF All
<1> QED
  BY <1>1, <1>2, <1>3 DEF CreationInv, TypeOK

LEMMA CreateHereKeeps ==
  ASSUME CreationInv, CreateHere
  PROVE  CreationInv'
<1> DEFINE k == current
<1> USE NoneAssumption DEF CreationInv
<1>1. /\ k \in Objects /\ k \in issued /\ k \in All /\ output[k] = "none" /\ k # None
      /\ k \notin tasks /\ k \notin started /\ k \in toComplete /\ player = "create"
  BY DEF CreateHere, TypeOK, CurrentInv, OutputInv, All
<1>2. \A w \in Workers : job[w] # k
  BY <1>1, WithWorker
<1>3. RunFunctor(k) /\ UNCHANGED <<replayVars, serviceVars, workerVars>>
  BY DEF CreateHere
<1>4. /\ output'[k] \in {"ok", "failed"} /\ creations' = [creations EXCEPT ![k] = 1]
      /\ creations' \in [Objects -> Nat]
      /\ output' \in [Objects -> {"none", "ok", "failed"}] /\ count' \in [All -> Nat]
      /\ count'[k] = IF output'[k] = "ok" THEN 1 ELSE 0
      /\ \A u \in All \ {k} : count'[u] = count[u]
      /\ \A u \in Objects \ {k} : output'[u] = output[u]
  BY <1>1, <1>3, Created
<1>5. CASE output'[k] = "failed"
  <2>1. Collect(k, "failed") /\ player' = "complete" /\ current' = None
    BY <1>5 DEF CreateHere
  <2>2. /\ UNCHANGED <<replayVars, tasks, tasksQueue, started, workerVars>> /\ done' = done
        /\ refCounts' = refCounts /\ refCounts' \in [Objects -> 0 .. MaxRef - 1]
    BY <1>3 DEF serviceVars, TypeOK
  <2> HIDE DEF CreationInv
  <2> QED
    BY <1>1, <1>2, <1>4, <1>5, <2>1, <2>2, TakeOver
<1>6. CASE output'[k] = "ok"
  <2> USE DEF replayVars, serviceVars, workerVars
  <2>1. player' = "count" /\ UNCHANGED <<toComplete, current, objects, preCollected>>
    BY <1>6 DEF CreateHere
  <2>2. \A u \in All : Held(u)' = Held(u)
    BY <1>3 DEF Held, Owed
  <2>3. k \notin objects /\ k \notin preCollected /\ k \notin Providers
    BY <1>1, ObjectsAssumption DEF KeptInv
  <2>4. TypeOK'
    BY <1>3, <1>4, <2>1 DEF TypeOK
  <2>5. CommandInv'
    BY <1>1, <1>3, <1>4, <2>1 DEF CommandInv, Resting, TypeOK
  <2>6. QueueInv' /\ JobInv'
    BY <1>1, <1>3, <2>1 DEF QueueInv, JobInv
  <2>7. CurrentInv'
    BY <1>1, <1>3, <2>1 DEF CurrentInv
  <2>8. OutputInv'
    <3>1. \A u \in tasks' \ started' : output'[u] = "none"
      BY <1>1, <1>3, <1>4 DEF OutputInv, TypeOK
    <3>2. \A u \in Objects : creations'[u] = (IF output'[u] = "none" THEN 0 ELSE 1)
      BY <1>4 DEF OutputInv, TypeOK
    <3>3. \A w \in Workers : /\ worker'[w] = "create" => output'[job'[w]] = "none"
                             /\ worker'[w] = "count" => output'[job'[w]] = "ok"
      BY <1>2, <1>3, <1>4 DEF OutputInv, TypeOK, JobInv
    <3>4. \A u \in issued' : output'[u] = "none" =>
            u \in tasks' \/ u = current' \/ (command'.op = "create" /\ u = command'.key)
      BY <1>3, <1>4, <2>1 DEF OutputInv, TypeOK
    <3> QED
      BY <1>1, <1>3, <1>4, <1>6, <2>1, <3>1, <3>2, <3>3, <3>4 DEF OutputInv
  <2>9. CountInv'
    <3>1. \A u \in Objects \ {k} : Counting(u)' <=> Counting(u)
      BY <1>3, <2>1 DEF Counting
    <3>3. \A u \in Providers : Held(u)' = count'[u]
      BY <1>4, <2>2, <2>3 DEF CountInv, All
    <3>4. \A u \in Objects \ issued' : Held(u)' = 0 /\ refCounts'[u] = 0
      BY <1>3, <2>2 DEF CountInv, All
    <3>5. ASSUME NEW u \in issued', output'[u] # "failed"
          PROVE  Held(u)' = (IF output'[u] = "ok" THEN count'[u] ELSE 1) + refCounts'[u]
      <4>1. CASE u = k
        BY <1>1, <1>3, <1>4, <1>6, <2>2, <4>1 DEF CountInv
      <4>2. CASE u # k
        BY <1>3, <1>4, <2>2, <3>5, <4>2 DEF CountInv, TypeOK, All
      <4> QED
        BY <4>1, <4>2
    <3>6. \A u \in Objects : output'[u] # "ok" => count'[u] = 0
      BY <1>4, <1>6 DEF CountInv, All
    <3>7. ASSUME NEW u \in Objects, output'[u] = "ok", ~Counting(u)' PROVE refCounts'[u] = 0
      <4>1. u # k
        BY <2>1, <3>7 DEF Counting
      <4>2. output[u] = "ok" /\ ~Counting(u)
        BY <1>4, <3>1, <3>7, <4>1
      <4> QED
        BY <1>3, <4>2 DEF CountInv
    <3> QED
      BY <3>3, <3>4, <3>5, <3>6, <3>7 DEF CountInv
  <2>10. KeptInv'
    <3>1. \A u \in objects' : count'[u] > 0
      BY <1>4, <2>1, <2>3 DEF KeptInv, TypeOK
    <3>2. \A u \in Providers : count'[u] > 0 => u \in objects'
      BY <1>4, <2>1, <2>3 DEF KeptInv, All
    <3>3. \A u \in preCollected' : u \notin tasks' \cup {current'} /\ output'[u] # "none"
      BY <1>3, <1>4, <2>1, <2>3 DEF KeptInv, TypeOK
    <3>4. \A u \in Objects : output'[u] = "ok" /\ u \in tasks' \cup preCollected' \cup {current'} =>
            count'[u] > 0
      BY <1>1, <1>3, <1>4, <2>1, <2>3 DEF KeptInv, All
    <3>5. \A u \in Objects : count'[u] > 0 =>
            u \in tasks' \cup preCollected' \cup objects' \cup {current'}
      BY <1>3, <1>4, <2>1 DEF KeptInv, All
    <3> QED
      BY <1>3, <2>1, <3>1, <3>2, <3>3, <3>4, <3>5 DEF KeptInv
  <2>11. \A u \in All : Found(u) => Found(u)'
    BY <1>1, <1>4, <2>1 DEF Found
  <2>12. NeedInv'
    BY <1>3, <2>1, <2>2, <2>11 DEF NeedInv, Needed
  <2>13. UseInv'
    <3>1. \A u \in Objects : Outstanding(u)' => Outstanding(u)
      BY <1>3, <1>4, <1>6, <2>1 DEF Outstanding
    <3> QED
      BY <1>3, <2>1, <2>11, <3>1, UsesAssumption DEF UseInv, All
  <2> QED
    BY <2>4, <2>5, <2>6, <2>7, <2>8, <2>9, <2>10, <2>12, <2>13
<1> QED
  BY <1>4, <1>5, <1>6
-----------------------------------------------------------------------------
(***************************************************************************)
(* The end of a call.                                                      *)
(***************************************************************************)
LEMMA ConsumersKeep ==
  ASSUME CreationInv, CollectConsumers
  PROVE  CreationInv'
<1> USE DEF CreationInv, serviceVars, workerVars, createVars
<1>1. /\ player = "complete" /\ toComplete = {} /\ command.op = "lastRelease"
      /\ command.key \in All
      /\ toComplete' = dependencies[command.key]
      /\ dependencies' = [dependencies EXCEPT ![command.key] = {}]
      /\ UNCHANGED <<captured, issued, command, serviceVars, workerVars, player, current,
                     objects, preCollected, createVars>>
  BY DEF CollectConsumers, Consumers, CommandInv, Naming
<1>2. current = None
  BY <1>1 DEF CurrentInv
<1>3. TypeOK'
  BY <1>1 DEF TypeOK
<1>4. CommandInv' /\ QueueInv' /\ JobInv' /\ OutputInv'
  BY <1>1 DEF CommandInv, Resting, QueueInv, JobInv, OutputInv
<1>5. CurrentInv'
  BY <1>1, <1>2 DEF CurrentInv
<1>6. CountInv' /\ KeptInv'
  BY <1>1 DEF CountInv, KeptInv, Held, Owed, Counting
<1>7. NeedInv'
  BY <1>1 DEF NeedInv, Needed, Held, Owed, Found
<1>8. UseInv'
  <2> SUFFICES ASSUME NEW k \in Objects, Outstanding(k)', NEW u \in Uses[k]
               PROVE  /\ Found(u)'
                      /\ \/ k \in dependencies'[u]
                         \/ command'.op = "lastRelease" /\ command'.key = u /\ k \in toComplete'
    BY DEF UseInv
  <2>1. Outstanding(k) /\ u \in All
    BY <1>1, UsesAssumption DEF Outstanding, All
  <2>2. Found(u) /\ k \in dependencies[u]
    BY <1>1, <2>1 DEF UseInv
  <2>3. Found(u)'
    BY <1>1, <2>2 DEF Found
  <2> QED
    BY <1>1, <2>1, <2>2, <2>3 DEF TypeOK
<1> QED
  BY <1>3, <1>4, <1>5, <1>6, <1>7, <1>8

LEMMA ScheduleKeeps ==
  ASSUME CreationInv, Schedule
  PROVE  CreationInv'
<1> DEFINE k == command.key
<1> USE NoneAssumption DEF CreationInv
<1>1. /\ player = "complete" /\ toComplete = {} /\ command.op = "create" /\ current = None
      /\ player' = "ready" /\ command' = NoCommand
      /\ tasks' = tasks \cup {k} /\ tasksQueue' = Append(tasksQueue, k)
      /\ dependencies' = [u \in All |-> IF u \in Uses[k] THEN dependencies[u] \cup {k}
                                        ELSE dependencies[u]]
      /\ UNCHANGED <<captured, issued, started, refCounts, done, job, toComplete, current,
                     objects, preCollected, count, output, creations>>
  BY DEF Schedule, Finish, CurrentInv, collectVars, createVars
<1>2. /\ k \in All /\ k \in issued /\ k \in Objects /\ k # None
      /\ k \notin tasks /\ k \notin started /\ output[k] = "none"
  BY <1>1 DEF CommandInv, TypeOK, All
<1>3. /\ worker' \in [Workers -> {"check", "wait", "create", "count", "exited"}]
      /\ \A w \in Workers : worker'[w] = worker[w] \/ (worker[w] = "wait" /\ worker'[w] = "check")
  BY DEF Schedule, TypeOK
<1>4. \A u \in All : Held(u)' = Held(u)
  BY <1>1 DEF Held, Owed, NoCommand
<1>5. TypeOK'
  <2>1. tasksQueue' \in Seq(Objects) /\ tasks' \subseteq Objects
    BY <1>1, <1>2 DEF TypeOK
  <2>2. dependencies' \in [All -> SUBSET Objects]
    BY <1>1, <1>2 DEF TypeOK
  <2>3. command' \in [op : Ops, key : All \cup {None}]
    BY <1>1 DEF NoCommand, Ops
  <2> QED
    BY <1>1, <1>3, <2>1, <2>2, <2>3 DEF TypeOK
<1>6. CommandInv'
  BY <1>1 DEF CommandInv, Resting, NoCommand, Naming
<1>7. QueueInv'
  <2>1. tasksQueue \in Seq(Objects) /\ Len(tasksQueue) \in Nat
    BY DEF TypeOK
  <2>2. /\ Len(tasksQueue') = Len(tasksQueue) + 1
        /\ tasksQueue'[Len(tasksQueue) + 1] = k
        /\ \A i \in 1 .. Len(tasksQueue) : tasksQueue'[i] = tasksQueue[i]
    BY <1>1, <1>2, <2>1
  <2>3. \A i \in 1 .. Len(tasksQueue) : tasksQueue[i] # k
    BY <1>2 DEF QueueInv
  <2>4. \A i \in 1 .. Len(tasksQueue') : i \in 1 .. Len(tasksQueue) \/ i = Len(tasksQueue) + 1
    BY <2>1, <2>2
  <2>5. \A i, j \in 1 .. Len(tasksQueue') : tasksQueue'[i] = tasksQueue'[j] => i = j
    BY <2>2, <2>3, <2>4 DEF QueueInv
  <2>6. \A i \in 1 .. Len(tasksQueue') : tasksQueue'[i] \in tasks' \ started'
    BY <1>1, <1>2, <2>2, <2>4 DEF QueueInv
  <2> QED
    BY <2>5, <2>6 DEF QueueInv
<1>8. JobInv'
  BY <1>1, <1>3 DEF JobInv
<1>9. CurrentInv'
  BY <1>1 DEF CurrentInv
<1>10. OutputInv'
  BY <1>1, <1>2, <1>3 DEF OutputInv, NoCommand
<1>11. CountInv'
  <2>1. \A u \in Objects : Counting(u)' <=> Counting(u)
    BY <1>1 DEF Counting
  <2> QED
    BY <1>1, <1>4, <2>1 DEF CountInv, TypeOK, All
<1>12. KeptInv'
  <2>1. count[k] = 0 /\ k \notin objects /\ k \notin preCollected
    BY <1>2 DEF CountInv, KeptInv
  <2> QED
    BY <1>1, <1>2, <2>1 DEF KeptInv
<1>13. NeedInv'
  BY <1>1 DEF NeedInv, Needed, Naming, NoCommand
<1>14. UseInv'
  <2> SUFFICES ASSUME NEW o \in Objects, Outstanding(o)', NEW u \in Uses[o]
               PROVE  Found(u)' /\ o \in dependencies'[u]
    BY DEF UseInv
  <2>1. u \in All /\ (Found(u) => Found(u)')
    BY <1>1, UsesAssumption DEF Found, All
  <2>2. CASE o = k
    <3>1. Found(u)
      BY <1>1, <2>1, <2>2 DEF NeedInv, Needed
    <3> QED
      BY <1>1, <2>1, <2>2, <3>1
  <2>3. CASE o # k
    <3>1. Outstanding(o)
      BY <1>1, <2>3 DEF Outstanding
    <3>2. Found(u) /\ o \in dependencies[u]
      BY <1>1, <3>1 DEF UseInv
    <3> QED
      BY <1>1, <2>1, <3>2
  <2> QED
    BY <2>2, <2>3
<1> QED
  BY <1>5, <1>6, <1>7, <1>8, <1>9, <1>10, <1>11, <1>12, <1>13, <1>14

\* The references of the object that the call named change, if the object is there.
LEMMA FinishUpdateKeeps ==
  ASSUME CreationInv, FinishUpdate
  PROVE  CreationInv'
<1> DEFINE k == command.key
           n == IF command.op = "addRef" THEN 1 ELSE -1
<1> USE NoneAssumption DEF CreationInv
<1>1. /\ player = "complete" /\ toComplete = {} /\ current = None
      /\ command.op \in {"addRef", "release", "lastRelease"} /\ k \in All
      /\ player' = "ready" /\ command' = NoCommand
      /\ UNCHANGED <<captured, issued, dependencies, tasks, tasksQueue, started, refCounts, done,
                     worker, job, toComplete, current, preCollected, output, creations>>
      /\ command.op = "lastRelease" => dependencies[k] = {}
      /\ count' = IF k \in objects THEN [count EXCEPT ![k] = @ + n] ELSE count
      /\ objects' = {o \in objects : count'[o] > 0}
      /\ n \in {-1, 1} /\ Owed(k) = n
  BY DEF FinishUpdate, Finish, References, Consumers, CurrentInv, CommandInv, Naming, Owed,
         serviceVars, workerVars
<1> HIDE DEF n
<1>2. \A u \in All : /\ Held(u)' = captured[u] /\ captured[u] \in Nat
                     /\ u # k => Held(u) = captured[u]
  BY <1>1, MaxRefAssumption DEF Held, Owed, NoCommand, TypeOK
<1>3. captured[k] = Held(k) + n
  BY <1>1, <1>2 DEF Held
<1>4. Found(k)
  BY <1>1 DEF NeedInv, Needed, Naming
<1>5. k \in objects => count[k] = Held(k) /\ count'[k] = captured[k]
  BY <1>1, <1>3, Collected DEF TypeOK
<1>6. \A u \in All \ {k} : count'[u] = count[u]
  BY <1>1 DEF TypeOK
<1>7. k \notin objects => k \in Objects /\ output[k] = "failed" /\ count' = count
  BY <1>1, <1>4 DEF Found
<1>8. /\ count' \in [All -> Nat]
      /\ \A u \in All : u # k => (u \in objects' <=> u \in objects)
      /\ k \in objects' => k \in objects
      /\ k \in objects => (k \in objects' <=> count'[k] > 0)
      /\ command.op # "lastRelease" => (k \in objects' <=> k \in objects)
  <2>1. count' \in [All -> Nat]
    BY <1>1, <1>2, <1>5 DEF TypeOK
  <2>2. \A u \in objects : u \in All /\ count[u] > 0
    BY DEF KeptInv, TypeOK
  <2>3. command.op # "lastRelease" /\ k \in objects => count'[k] > 0
    BY <1>1, <1>2, <1>5 DEF CommandInv
  <2> QED
    BY <1>1, <1>6, <2>1, <2>2, <2>3
<1>9. TypeOK'
  <2>1. command' \in [op : Ops, key : All \cup {None}]
    BY <1>1 DEF NoCommand, Ops
  <2> QED
    BY <1>1, <1>8, <2>1 DEF TypeOK
<1>10. CommandInv'
  BY <1>1 DEF CommandInv, Resting, NoCommand, Naming
<1>11. QueueInv' /\ JobInv' /\ CurrentInv' /\ OutputInv'
  BY <1>1 DEF QueueInv, JobInv, CurrentInv, OutputInv, NoCommand
<1>12. CountInv'
  <2>1. \A u \in Objects : Counting(u)' <=> Counting(u)
    BY <1>1 DEF Counting
  <2>2. ASSUME NEW u \in Providers PROVE Held(u)' = count'[u]
    <3>1. u \in All /\ u \notin Objects
      BY ObjectsAssumption DEF All
    <3> QED
      BY <1>2, <1>5, <1>6, <1>7, <3>1 DEF CountInv
  <2>3. ASSUME NEW u \in Objects \ issued' PROVE Held(u)' = 0 /\ refCounts'[u] = 0
    <3>1. u \in All /\ u \in Objects \ issued
      BY <1>1 DEF All
    <3>2. Held(u) = 0 /\ refCounts[u] = 0 /\ output[u] = "none"
      BY <3>1 DEF CountInv, OutputInv
    <3>3. u # k
      BY <1>4, <3>1, <3>2, Collected DEF Found
    <3> QED
      BY <1>1, <1>2, <3>1, <3>2, <3>3
  <2>4. ASSUME NEW u \in issued', output'[u] # "failed"
        PROVE  Held(u)' = (IF output'[u] = "ok" THEN count'[u] ELSE 1) + refCounts'[u]
    <3>1. u \in Objects /\ u \in All /\ u \in issued /\ output[u] # "failed"
      BY <1>1, <2>4 DEF TypeOK, All
    <3>2. CASE u = k
      <4>1. k \in objects /\ output[k] = "ok" /\ refCounts[k] = 0
        BY <1>7, <3>1, <3>2, Collected
      <4> QED
        BY <1>1, <1>2, <1>5, <3>2, <4>1
    <3>3. CASE u # k
      BY <1>1, <1>2, <1>6, <3>1, <3>3 DEF CountInv
    <3> QED
      BY <3>2, <3>3
  <2>5. \A u \in Objects : output'[u] # "ok" => count'[u] = 0
    BY <1>1, <1>6, <1>7, Collected DEF CountInv, All
  <2>6. \A u \in Objects : output'[u] = "ok" /\ ~Counting(u)' => refCounts'[u] = 0
    BY <1>1, <2>1 DEF CountInv
  <2> QED
    BY <2>2, <2>3, <2>4, <2>5, <2>6 DEF CountInv
<1>13. KeptInv'
  <2>1. \A u \in objects' : count'[u] > 0
    BY <1>1
  <2>2. \A u \in Providers : count'[u] > 0 => u \in objects'
    <3> TAKE u \in Providers
    <3>1. u \in All /\ u \notin Objects
      BY ObjectsAssumption DEF All
    <3> QED
      BY <1>6, <1>7, <1>8, <3>1 DEF KeptInv
  <2>3. \A u \in Objects \cap objects' : u \notin tasks' \cup preCollected' \cup {current'}
    BY <1>1 DEF KeptInv
  <2>4. ASSUME NEW u \in Objects, output'[u] = "ok", u \in tasks' \cup preCollected' \cup {current'}
        PROVE  count'[u] > 0
    <3>1. count[u] > 0 /\ u \notin objects /\ output[u] = "ok" /\ u \in All
      BY <1>1, <2>4 DEF KeptInv, All
    <3> QED
      BY <1>6, <1>7, <3>1
  <2>5. ASSUME NEW u \in Objects, count'[u] > 0
        PROVE  u \in tasks' \cup preCollected' \cup objects' \cup {current'}
    <3>1. u \in All /\ count[u] > 0
      BY <1>6, <1>7, <2>5, Collected DEF All
    <3> QED
      BY <1>1, <1>8, <2>5, <3>1 DEF KeptInv
  <2> QED
    BY <1>1, <2>1, <2>2, <2>3, <2>4, <2>5 DEF KeptInv
<1>14. NeedInv'
  BY <1>1 DEF NeedInv, Needed, Naming, NoCommand
<1>15. UseInv'
  <2> SUFFICES ASSUME NEW o \in Objects, Outstanding(o)', NEW u \in Uses[o]
               PROVE  Found(u)' /\ o \in dependencies'[u]
    BY DEF UseInv
  <2>1. Outstanding(o) /\ u \in All
    BY <1>1, UsesAssumption DEF Outstanding, All
  <2>2. Found(u) /\ o \in dependencies[u]
    BY <1>1, <2>1 DEF UseInv
  <2>3. u = k => command.op # "lastRelease"
    BY <1>1, <2>2
  <2> QED
    BY <1>1, <1>8, <2>1, <2>2, <2>3 DEF Found
<1> QED
  BY <1>9, <1>10, <1>11, <1>12, <1>13, <1>14, <1>15

\* The end of a call that has only waited.
LEMMA FinishOtherKeeps ==
  ASSUME CreationInv, FinishOther
  PROVE  CreationInv'
<1> USE DEF CreationInv, serviceVars, workerVars, collectVars, createVars
<1>1. /\ player = "complete" /\ toComplete = {} /\ command.op \in {"use", "restoreEnd"}
      /\ current = None /\ player' = "ready" /\ command' = NoCommand
      /\ UNCHANGED <<captured, issued, dependencies, serviceVars, workerVars, collectVars,
                     createVars>>
  BY DEF FinishOther, Finish, CurrentInv
<1>2. \A u \in All : Held(u)' = captured[u] /\ Held(u) = captured[u]
  BY <1>1, MaxRefAssumption DEF Held, Owed, NoCommand, TypeOK
<1>3. TypeOK'
  BY <1>1 DEF TypeOK, NoCommand, Ops
<1>4. CommandInv'
  BY <1>1 DEF CommandInv, Resting, NoCommand, Naming
<1>5. QueueInv' /\ JobInv' /\ CurrentInv' /\ OutputInv' /\ KeptInv'
  BY <1>1 DEF QueueInv, JobInv, CurrentInv, OutputInv, KeptInv, NoCommand
<1>6. CountInv'
  BY <1>1, <1>2 DEF CountInv, Counting, TypeOK, All
<1>7. NeedInv'
  BY <1>1 DEF NeedInv, Needed, Naming, NoCommand
<1>8. UseInv'
  BY <1>1 DEF UseInv, Outstanding, Found
<1> QED
  BY <1>3, <1>4, <1>5, <1>6, <1>7, <1>8

\* The end of the player.
LEMMA EndKeeps ==
  ASSUME CreationInv, Shutdown \/ Join
  PROVE  CreationInv'
<1> USE DEF CreationInv, replayVars, serviceVars, workerVars, collectVars, createVars
<1>1. /\ Resting /\ Resting' /\ current = None
      /\ UNCHANGED <<replayVars, tasks, tasksQueue, started, refCounts, job, collectVars,
                     createVars>>
      /\ player' \in {"join", "exited"} /\ done' \in BOOLEAN
  BY AtRest DEF Shutdown, Join, Resting, TypeOK
<1>2. /\ worker' \in [Workers -> {"check", "wait", "create", "count", "exited"}]
      /\ \A w \in Workers : worker'[w] = worker[w] \/ (worker[w] = "wait" /\ worker'[w] = "check")
  BY DEF Shutdown, Join, AllWoken, TypeOK
<1>3. TypeOK'
  BY <1>1, <1>2 DEF TypeOK
<1>4. CommandInv' /\ QueueInv' /\ CurrentInv'
  BY <1>1 DEF CommandInv, QueueInv, CurrentInv, Resting
<1>5. JobInv'
  BY <1>1, <1>2 DEF JobInv, Resting
<1>6. OutputInv'
  BY <1>1, <1>2 DEF OutputInv, Resting
<1>7. CountInv'
  BY <1>1 DEF CountInv, Counting, Held, Owed, Resting
<1>8. KeptInv' /\ NeedInv' /\ UseInv'
  BY <1>1 DEF KeptInv, NeedInv, Needed, Held, Owed, UseInv, Outstanding, Found
<1> QED
  BY <1>3, <1>4, <1>5, <1>6, <1>7, <1>8
-----------------------------------------------------------------------------
(***************************************************************************)
(* The workers.                                                            *)
(***************************************************************************)
LEMMA TakeTaskKeeps ==
  ASSUME CreationInv, NEW w \in Workers, TakeTask(w)
  PROVE  CreationInv'
<1> DEFINE k == Head(tasksQueue)
           queue == Tail(tasksQueue)
<1> USE NoneAssumption DEF CreationInv, WorkerFrame, replayVars, collectVars, createVars
<1>1. /\ worker[w] = "check" /\ tasksQueue # <<>>
      /\ job' = [job EXCEPT ![w] = k] /\ started' = started \cup {k} /\ tasksQueue' = queue
      /\ worker' = [worker EXCEPT ![w] = "create"]
      /\ UNCHANGED <<WorkerFrame, tasks, refCounts, done, createVars>>
  BY DEF TakeTask
<1>2. /\ k \in Objects /\ k \in All /\ k # None /\ k \in tasks /\ k \notin started
      /\ queue \in Seq(Objects)
      /\ \A i \in 1 .. Len(queue) : /\ i + 1 \in 1 .. Len(tasksQueue)
                                    /\ queue[i] = tasksQueue[i + 1] /\ queue[i] # k
  BY <1>1, FirstOfQueue DEF All
<1>3. output[k] = "none"
  BY <1>2 DEF OutputInv
<1> HIDE DEF k, queue
<1>4. /\ job'[w] = k /\ worker'[w] = "create" /\ job[w] = None
      /\ \A v \in Workers \ {w} : job'[v] = job[v] /\ worker'[v] = worker[v]
      /\ \A v \in Workers : job[v] # k
  <2>1. /\ job'[w] = k /\ worker'[w] = "create"
        /\ \A v \in Workers \ {w} : job'[v] = job[v] /\ worker'[v] = worker[v]
    BY <1>1 DEF TypeOK
  <2> QED
    BY <1>1, <1>2, <2>1 DEF JobInv
<1>5. TypeOK'
  BY <1>1, <1>2 DEF TypeOK
<1>6. CommandInv'
  BY <1>1, <1>2 DEF CommandInv, Resting
<1>7. QueueInv'
  <2>1. \A i, j \in 1 .. Len(queue) : queue[i] = queue[j] => i = j
    <3> TAKE i, j \in 1 .. Len(queue)
    <3>1. queue[i] = queue[j] => i + 1 = j + 1
      BY <1>2 DEF QueueInv
    <3> QED
      BY <3>1
  <2> QED
    BY <1>1, <1>2, <2>1 DEF QueueInv
<1>8. JobInv'
  <2>1. \A v \in Workers : job'[v] # None <=> worker'[v] \in {"create", "count"}
    BY <1>2, <1>4 DEF JobInv
  <2>2. \A v \in Workers : job'[v] # None =>
          job'[v] \in started' /\ (job'[v] \in tasks' \/ (player' = "await" /\ job'[v] = current'))
    BY <1>1, <1>2, <1>4 DEF JobInv
  <2>3. \A u, v \in Workers : job'[u] = job'[v] /\ job'[u] # None => u = v
    BY <1>4 DEF JobInv
  <2> QED
    BY <2>1, <2>2, <2>3 DEF JobInv
<1>9. CurrentInv'
  BY <1>1, <1>2 DEF CurrentInv
<1>10. OutputInv'
  <2>1. \A v \in Workers : /\ worker'[v] = "create" => output'[job'[v]] = "none"
                           /\ worker'[v] = "count" => output'[job'[v]] = "ok"
    BY <1>1, <1>3, <1>4 DEF OutputInv
  <2> QED
    BY <1>1, <1>2, <2>1 DEF OutputInv
<1>11. CountInv'
  <2>1. \A u \in All : Held(u)' = Held(u)
    BY <1>1 DEF Held, Owed
  <2>2. \A u \in Objects \ {k} : Counting(u) => Counting(u)'
    BY <1>1, <1>4, NoneAssumption DEF Counting, All
  <2>3. \A u \in Objects : output'[u] = "ok" /\ ~Counting(u)' => refCounts'[u] = 0
    BY <1>1, <1>3, <2>2 DEF CountInv
  <2>4. \A u \in Objects \ issued' : Held(u)' = 0 /\ refCounts'[u] = 0
    BY <1>1, <2>1 DEF CountInv, All
  <2> QED
    BY <1>1, <2>1, <2>3, <2>4 DEF CountInv, TypeOK, All
<1>12. KeptInv'
  BY <1>1 DEF KeptInv
<1>13. NeedInv' /\ UseInv'
  BY <1>1 DEF NeedInv, Needed, Held, Owed, UseInv, Outstanding, Found
<1> QED
  BY <1>5, <1>6, <1>7, <1>8, <1>9, <1>10, <1>11, <1>12, <1>13

LEMMA NoWorkKeeps ==
  ASSUME CreationInv, NEW w \in Workers, NoWork(w)
  PROVE  CreationInv'
<1> USE DEF CreationInv, WorkerFrame, replayVars, serviceVars, collectVars, createVars
<1>1. /\ UNCHANGED <<WorkerFrame, job, serviceVars, createVars>>
      /\ worker' \in [Workers -> {"check", "wait", "create", "count", "exited"}]
      /\ \A v \in Workers : worker'[v] = worker[v]
                            \/ (worker[v] = "check" /\ worker'[v] \in {"exited", "wait"})
  BY DEF NoWork, TypeOK
<1>2. TypeOK'
  BY <1>1 DEF TypeOK
<1>3. CommandInv' /\ QueueInv' /\ CurrentInv'
  BY <1>1 DEF CommandInv, QueueInv, CurrentInv, Resting
<1>4. JobInv'
  BY <1>1 DEF JobInv
<1>5. OutputInv'
  BY <1>1 DEF OutputInv
<1>6. CountInv' /\ KeptInv'
  BY <1>1 DEF CountInv, Counting, Held, Owed, KeptInv
<1>7. NeedInv' /\ UseInv'
  BY <1>1 DEF NeedInv, Needed, Held, Owed, UseInv, Outstanding, Found
<1> QED
  BY <1>2, <1>3, <1>4, <1>5, <1>6, <1>7

LEMMA CreateThereKeeps ==
  ASSUME CreationInv, NEW w \in Workers, CreateThere(w)
  PROVE  CreationInv'
<1> DEFINE k == job[w]
<1> USE NoneAssumption DEF CreationInv, WorkerFrame, replayVars, serviceVars, collectVars
<1>1. worker[w] = "create" /\ k # None /\ output[k] = "none" /\ RunFunctor(k)
  BY DEF CreateThere, JobInv, OutputInv
<1>2. /\ k \in Objects /\ k \in issued /\ k \in All /\ k \in tasks \cup {current} /\ k \in started
      /\ k \notin objects /\ k \notin preCollected /\ k \notin Providers
      /\ player \in {"create", "count"} => k # current
  BY <1>1, WithWorker, ObjectsAssumption DEF All, JobInv
<1>3. /\ output'[k] \in {"ok", "failed"} /\ creations' = [creations EXCEPT ![k] = 1]
      /\ creations' \in [Objects -> Nat]
      /\ output' \in [Objects -> {"none", "ok", "failed"}] /\ count' \in [All -> Nat]
      /\ count'[k] = IF output'[k] = "ok" THEN 1 ELSE 0
      /\ \A u \in All \ {k} : count'[u] = count[u]
      /\ \A u \in Objects \ {k} : output'[u] = output[u]
  BY <1>1, <1>2, Created
<1>4. UNCHANGED <<WorkerFrame, serviceVars>>
  BY DEF CreateThere
<1>5. /\ \/ output'[k] = "ok" /\ worker'[w] = "count" /\ job'[w] = job[w]
         \/ output'[k] = "failed" /\ worker'[w] = "check" /\ job'[w] = None
      /\ worker' \in [Workers -> {"check", "wait", "create", "count", "exited"}]
      /\ job' \in [Workers -> Objects \cup {None}]
      /\ \A v \in Workers \ {w} : worker'[v] = worker[v] /\ job'[v] = job[v] /\ job[v] # k
  <2>1. \A v \in Workers \ {w} : job[v] # k
    BY <1>1 DEF JobInv
  <2>2. CASE output'[k] = "ok"
    <3>1. worker' = [worker EXCEPT ![w] = "count"] /\ job' = job
      BY <2>2 DEF CreateThere
    <3> QED
      BY <2>1, <2>2, <3>1 DEF TypeOK
  <2>3. CASE output'[k] = "failed"
    <3>1. worker' = [worker EXCEPT ![w] = "check"] /\ job' = [job EXCEPT ![w] = None]
      BY <2>3 DEF CreateThere
    <3> QED
      BY <2>1, <2>3, <3>1 DEF TypeOK
  <2> QED
    BY <1>3, <2>2, <2>3
<1> HIDE DEF k
<1>6. \A u \in All : Held(u)' = Held(u)
  BY <1>4 DEF Held, Owed
<1>7. TypeOK'
  BY <1>3, <1>4, <1>5 DEF TypeOK
<1>8. CommandInv'
  BY <1>1, <1>2, <1>3, <1>4 DEF CommandInv, Resting, TypeOK
<1>9. QueueInv' /\ CurrentInv'
  BY <1>4 DEF QueueInv, CurrentInv
<1>10. JobInv'
  <2>1. k = job[w]
    BY DEF k
  <2>2. \A v \in Workers : job'[v] # None <=> worker'[v] \in {"create", "count"}
    BY <1>1, <1>5, <2>1 DEF JobInv
  <2>3. \A v \in Workers : job'[v] # None => job'[v] = job[v]
    BY <1>5
  <2> QED
    BY <1>4, <2>2, <2>3 DEF JobInv
<1>11. OutputInv'
  <2>1. \A u \in tasks' \ started' : output'[u] = "none"
    BY <1>2, <1>3, <1>4 DEF OutputInv, TypeOK
  <2>2. \A u \in Objects : creations'[u] = (IF output'[u] = "none" THEN 0 ELSE 1)
    BY <1>3 DEF OutputInv, TypeOK
  <2>3. ASSUME NEW v \in Workers
        PROVE  /\ worker'[v] = "create" => output'[job'[v]] = "none"
               /\ worker'[v] = "count" => output'[job'[v]] = "ok"
    <3>1. CASE v = w
      BY <1>5, <3>1 DEF k
    <3>2. CASE v # w
      <4>1. worker[v] \in {"create", "count"} => job[v] \in Objects \ {k}
        BY <1>5, <3>2 DEF JobInv, TypeOK
      <4> QED
        BY <1>3, <1>5, <3>2, <4>1 DEF OutputInv
    <3> QED
      BY <3>1, <3>2
  <2>4. \A u \in Objects \ issued' : output'[u] = "none"
    BY <1>2, <1>3, <1>4 DEF OutputInv
  <2>5. \A u \in issued' : output'[u] = "none" =>
          u \in tasks' \/ u = current' \/ (command'.op = "create" /\ u = command'.key)
    BY <1>3, <1>4 DEF OutputInv, TypeOK
  <2>6. player' \in {"create", "count"} => output'[current'] = output[current]
    BY <1>2, <1>3, <1>4 DEF CurrentInv, TypeOK
  <2> QED
    BY <1>4, <2>1, <2>2, <2>3, <2>4, <2>5, <2>6 DEF OutputInv
<1>12. CountInv'
  <2>1. \A u \in Objects \ {k} : Counting(u) => Counting(u)'
    BY <1>4, <1>5, NoneAssumption DEF Counting, All, k
  <2>2. output'[k] = "ok" => Counting(k)'
    BY <1>5 DEF Counting, k
  <2>3. \A u \in Providers : Held(u)' = count'[u]
    BY <1>2, <1>3, <1>6 DEF CountInv, All
  <2>4. \A u \in Objects \ issued' : Held(u)' = 0 /\ refCounts'[u] = 0
    BY <1>4, <1>6 DEF CountInv, All
  <2>5. ASSUME NEW u \in issued', output'[u] # "failed"
        PROVE  Held(u)' = (IF output'[u] = "ok" THEN count'[u] ELSE 1) + refCounts'[u]
    <3>1. CASE u = k
      BY <1>1, <1>2, <1>3, <1>4, <1>6, <2>5, <3>1 DEF CountInv, k
    <3>2. CASE u # k
      BY <1>3, <1>4, <1>6, <2>5, <3>2 DEF CountInv, TypeOK, All
    <3> QED
      BY <3>1, <3>2
  <2>6. \A u \in Objects : output'[u] # "ok" => count'[u] = 0
    BY <1>3 DEF CountInv, All
  <2>7. ASSUME NEW u \in Objects, output'[u] = "ok", ~Counting(u)' PROVE refCounts'[u] = 0
    <3>1. u # k
      BY <1>5, <2>7 DEF Counting, k
    <3>2. output[u] = "ok" /\ ~Counting(u)
      BY <1>3, <2>1, <2>7, <3>1
    <3> QED
      BY <1>4, <3>2 DEF CountInv
  <2> QED
    BY <2>3, <2>4, <2>5, <2>6, <2>7 DEF CountInv
<1>13. KeptInv'
  <2>1. ASSUME NEW u \in objects' PROVE count'[u] > 0
    <3>1. count[u] > 0 \/ u = k
      BY <1>4 DEF KeptInv
    <3> QED
      BY <1>2, <1>3, <1>4, <3>1 DEF TypeOK
  <2>2. \A u \in Providers : count'[u] > 0 => u \in objects'
    BY <1>2, <1>3, <1>4 DEF KeptInv, All
  <2>3. \A u \in preCollected' : u \notin tasks' \cup {current'} /\ output'[u] # "none"
    BY <1>2, <1>3, <1>4 DEF KeptInv, TypeOK
  <2>4. \A u \in Objects : output'[u] = "ok" /\ u \in tasks' \cup preCollected' \cup {current'} =>
          count'[u] > 0
    BY <1>2, <1>3, <1>4 DEF KeptInv, All
  <2>5. \A u \in Objects : count'[u] > 0 =>
          u \in tasks' \cup preCollected' \cup objects' \cup {current'}
    BY <1>2, <1>3, <1>4 DEF KeptInv, All
  <2> QED
    BY <1>4, <2>1, <2>2, <2>3, <2>4, <2>5 DEF KeptInv
<1>14. \A u \in All : Found(u) => Found(u)'
  BY <1>1, <1>3, <1>4 DEF Found, k
<1>15. NeedInv'
  BY <1>4, <1>6, <1>14 DEF NeedInv, Needed
<1>16. UseInv'
  <2>1. \A u \in Objects : Outstanding(u)' => Outstanding(u)
    BY <1>3, <1>4 DEF Outstanding
  <2> QED
    BY <1>4, <1>14, <2>1, UsesAssumption DEF UseInv, All
<1> QED
  BY <1>7, <1>8, <1>9, <1>10, <1>11, <1>12, <1>13, <1>15, <1>16

LEMMA CountThereKeeps ==
  ASSUME CreationInv, NEW w \in Workers, CountThere(w)
  PROVE  CreationInv'
<1> DEFINE k == job[w]
<1> USE NoneAssumption DEF CreationInv, WorkerFrame, replayVars, collectVars
<1>1. worker[w] = "count" /\ k # None /\ output[k] = "ok"
  BY DEF CountThere, JobInv, OutputInv
<1>2. /\ k \in Objects /\ k \in issued /\ k \in All /\ k \in tasks \cup {current}
      /\ k \notin objects /\ k \notin preCollected /\ k \notin Providers
  BY <1>1, WithWorker, ObjectsAssumption DEF All, JobInv
<1>3. /\ count' = [count EXCEPT ![k] = @ + refCounts[k]]
      /\ refCounts' = [refCounts EXCEPT ![k] = 0]
      /\ UNCHANGED <<WorkerFrame, tasks, tasksQueue, started, done, output, creations>>
  BY DEF CountThere, ApplyRefCount
<1>4. /\ worker'[w] = "check" /\ job'[w] = None
      /\ worker' \in [Workers -> {"check", "wait", "create", "count", "exited"}]
      /\ job' \in [Workers -> Objects \cup {None}]
      /\ \A v \in Workers \ {w} : worker'[v] = worker[v] /\ job'[v] = job[v] /\ job[v] # k
  BY <1>1 DEF CountThere, TypeOK, JobInv
<1>5. count[k] > 0 /\ Held(k) = count[k] + refCounts[k]
  BY <1>1, <1>2 DEF KeptInv, CountInv
<1>6. count[k] \in Nat /\ refCounts[k] \in Nat
  BY <1>2, MaxRefAssumption DEF TypeOK
<1>7. /\ count' \in [All -> Nat] /\ count'[k] = count[k] + refCounts[k] /\ count'[k] > 0
      /\ refCounts' \in [Objects -> 0 .. MaxRef - 1] /\ refCounts'[k] = 0
      /\ \A u \in All \ {k} : count'[u] = count[u]
      /\ \A u \in Objects \ {k} : refCounts'[u] = refCounts[u]
  BY <1>2, <1>3, <1>5, <1>6, MaxRefAssumption DEF TypeOK
<1> HIDE DEF k
<1>8. \A u \in All : Held(u)' = Held(u)
  BY <1>3 DEF Held, Owed
<1>9. \A u \in All : count'[u] > 0 <=> count[u] > 0
  BY <1>5, <1>7
<1>10. TypeOK'
  BY <1>3, <1>4, <1>7 DEF TypeOK
<1>11. CommandInv'
  BY <1>1, <1>3, <1>7 DEF CommandInv, Resting, TypeOK
<1>12. QueueInv' /\ CurrentInv'
  BY <1>3 DEF QueueInv, CurrentInv
<1>13. JobInv'
  <2>1. \A v \in Workers : job'[v] # None <=> worker'[v] \in {"create", "count"}
    BY <1>4 DEF JobInv
  <2>2. \A v \in Workers : job'[v] # None => job'[v] = job[v]
    BY <1>4
  <2> QED
    BY <1>3, <2>1, <2>2 DEF JobInv
<1>14. OutputInv'
  BY <1>3, <1>4 DEF OutputInv
<1>15. CountInv'
  <2>1. \A u \in Objects \ {k} : Counting(u) => Counting(u)'
    BY <1>3, <1>4 DEF Counting, k
  <2>2. \A u \in Providers : Held(u)' = count'[u]
    BY <1>2, <1>7, <1>8 DEF CountInv, All
  <2>3. \A u \in Objects \ issued' : Held(u)' = 0 /\ refCounts'[u] = 0
    BY <1>2, <1>3, <1>7, <1>8 DEF CountInv, All
  <2>4. ASSUME NEW u \in issued', output'[u] # "failed"
        PROVE  Held(u)' = (IF output'[u] = "ok" THEN count'[u] ELSE 1) + refCounts'[u]
    <3>1. CASE u = k
      BY <1>1, <1>2, <1>3, <1>5, <1>6, <1>7, <1>8, <3>1 DEF k
    <3>2. CASE u # k
      BY <1>3, <1>7, <1>8, <2>4, <3>2 DEF CountInv, TypeOK, All
    <3> QED
      BY <3>1, <3>2
  <2>5. \A u \in Objects : output'[u] # "ok" => count'[u] = 0
    BY <1>1, <1>3, <1>7 DEF CountInv, All, k
  <2>6. ASSUME NEW u \in Objects, output'[u] = "ok", ~Counting(u)' PROVE refCounts'[u] = 0
    <3>1. CASE u = k
      BY <1>7, <3>1
    <3>2. CASE u # k
      <4>1. output[u] = "ok" /\ ~Counting(u)
        BY <1>3, <2>1, <2>6, <3>2
      <4> QED
        BY <1>7, <3>2, <4>1 DEF CountInv
    <3> QED
      BY <3>1, <3>2
  <2> QED
    BY <2>2, <2>3, <2>4, <2>5, <2>6 DEF CountInv
<1>16. KeptInv'
  BY <1>3, <1>9 DEF KeptInv, TypeOK, All
<1>17. NeedInv'
  BY <1>3, <1>8 DEF NeedInv, Needed, Found
<1>18. UseInv'
  BY <1>3 DEF UseInv, Outstanding, Found
<1> QED
  BY <1>10, <1>11, <1>12, <1>13, <1>14, <1>15, <1>16, <1>17, <1>18
-----------------------------------------------------------------------------
LEMMA StepCreation == CreationInv /\ [Next]_vars => CreationInv'
<1> SUFFICES ASSUME CreationInv, [Next]_vars PROVE CreationInv'
  OBVIOUS
<1>1. ASSUME NEW k \in All, Create(k) PROVE CreationInv'
  BY <1>1, CreateKeeps
<1>2. ASSUME NEW k \in All, LastRelease(k) PROVE CreationInv'
  BY <1>2, LastReleaseKeeps
<1>3. ASSUME NEW k \in All, Use(k) PROVE CreationInv'
  BY <1>3, UseKeeps
<1>4. ASSUME NEW k \in All, UpdateRefCount("addRef", k, 1) PROVE CreationInv'
  BY <1>4, AddRefKeeps
<1>5. ASSUME NEW k \in All, UpdateRefCount("release", k, -1) PROVE CreationInv'
  BY <1>5, ReleaseKeeps
<1>6. CASE StateRestoreEnd
  BY <1>6, RestoreEndKeeps
<1>7. CASE Shutdown \/ Join
  BY <1>7, EndKeeps
<1>8. ASSUME NEW k \in Objects, NoTask(k) PROVE CreationInv'
  BY <1>8, NoTaskKeeps
<1>9. ASSUME NEW k \in Objects, Complete(k) PROVE CreationInv'
  BY <1>9, CompleteKeeps
<1>10. CASE AwaitResult
  BY <1>10, AwaitKeeps
<1>11. CASE CreateHere
  BY <1>11, CreateHereKeeps
<1>12. CASE CountHere
  BY <1>12, CountHereKeeps
<1>13. CASE CollectConsumers
  BY <1>13, ConsumersKeep
<1>14. CASE Schedule
  BY <1>14, ScheduleKeeps
<1>15. CASE FinishUpdate
  BY <1>15, FinishUpdateKeeps
<1>16. CASE FinishOther
  BY <1>16, FinishOtherKeeps
<1>17. ASSUME NEW w \in Workers, WorkerStep(w) PROVE CreationInv'
  BY <1>17, TakeTaskKeeps, NoWorkKeeps, CreateThereKeeps, CountThereKeeps DEF WorkerStep
<1>18. CASE UNCHANGED vars
  <2> USE <1>18 DEF CreationInv, vars, replayVars, serviceVars, workerVars, collectVars,
                    createVars
  <2>1. TypeOK' /\ CommandInv' /\ QueueInv' /\ CurrentInv'
    BY DEF TypeOK, CommandInv, Resting, QueueInv, CurrentInv
  <2>2. JobInv' /\ OutputInv' /\ KeptInv'
    BY DEF JobInv, OutputInv, KeptInv
  <2>3. CountInv'
    BY DEF CountInv, Counting, Held, Owed
  <2>4. NeedInv' /\ UseInv'
    BY DEF NeedInv, Needed, Held, Owed, UseInv, Outstanding, Found
  <2> QED
    BY <2>1, <2>2, <2>3, <2>4
<1> QED
  BY <1>1, <1>2, <1>3, <1>4, <1>5, <1>6, <1>7, <1>8, <1>9, <1>10, <1>11, <1>12, <1>13, <1>14,
     <1>15, <1>16, <1>17, <1>18
  DEF Next, Call, PlayerStep

LEMMA CreationAlways == Spec => []CreationInv
BY InitCreation, StepCreation, PTL DEF Spec

\* Whatever the calls and however far the workers, tasks, references and outputs are what
\* the types say; in particular the count kept for a task is never negative, and the
\* branch of CreateObject that releases an object is not reached
\* (multithreadedObjectCreationService.cpp:191).
THEOREM CreationTypeCorrect == Spec => []TypeOK
<1>1. CreationInv => TypeOK
  BY DEF CreationInv
<1> QED
  BY <1>1, CreationAlways, PTL

\* A creation, by a worker or by the player, finds what it uses alive unless that could
\* not be created: the last release of an object completes its consumers first
\* (multithreadedObjectAwaitLayer.cpp).
THEOREM ProvidersStayAlive == Spec => []ProvidersAlive
<1>1. CreationInv => ProvidersAlive
  <2> SUFFICES ASSUME CreationInv, NEW k \in Objects, Creating(k), NEW u \in Uses[k]
               PROVE  count[u] > 0 \/ (u \in Objects /\ output[u] = "failed")
    BY DEF ProvidersAlive
  <2> USE DEF CreationInv
  <2>1. CASE player = "create" /\ current = k
    BY <2>1 DEF OutputInv, Outstanding, UseInv, Found, KeptInv
  <2>2. CASE \E w \in Workers : worker[w] = "create" /\ job[w] = k
    <3>1. Outstanding(k)
      BY <2>2 DEF Outstanding, OutputInv, JobInv
    <3> QED
      BY <3>1 DEF UseInv, Found, KeptInv
  <2> QED
    BY <2>1, <2>2 DEF Creating
<1> QED
  BY <1>1, CreationAlways, PTL

\* Between two calls an object has as many references as the recorded application held,
\* those counted for its task included: ScheduleUpdateRefCount loses none, and none is
\* applied twice.
THEOREM CountsAlwaysAgree == Spec => []CountsAgree
<1>1. CreationInv => CountsAgree
  <2> SUFFICES ASSUME CreationInv, player = "ready", NEW k \in issued, output[k] # "failed"
               PROVE  captured[k] = (IF output[k] = "ok" THEN count[k] ELSE 1) + refCounts[k]
    BY DEF CountsAgree
  <2>1. k \in All
    BY DEF CreationInv, TypeOK, All
  <2>2. Held(k) = captured[k]
    BY <2>1, AtRest DEF Resting
  <2> QED
    BY <2>2 DEF CreationInv, CountInv
<1> QED
  BY <1>1, CreationAlways, PTL

\* The player and the workers never both create an object: Complete takes a task that has
\* not started out of the queue, under the mutex under which a worker takes it.
THEOREM NothingCreatedTwice == Spec => []CreatedOnce
<1>1. CreationInv => CreatedOnce
  BY DEF CreationInv, OutputInv, CreatedOnce
<1> QED
  BY <1>1, CreationAlways, PTL

\* A call that names an object finds it when it has waited, in the objects of the player,
\* even if it had been completed as the consumer of another one and put aside.
THEOREM ArgumentsAlwaysFound == Spec => []ArgumentsFound
<1>1. CreationInv => ArgumentsFound
  <2> SUFFICES ASSUME CreationInv, toComplete = {}, command.op \in {"use", "addRef", "release"}
               PROVE  command.key \in objects \/ output[command.key] = "failed"
    BY DEF ArgumentsFound
  <2>1. command.key \in All /\ Needed(command.key)
    BY DEF CreationInv, CommandInv, Needed, Naming
  <2> QED
    BY <2>1 DEF CreationInv, NeedInv, Found
<1> QED
  BY <1>1, CreationAlways, PTL
=============================================================================
