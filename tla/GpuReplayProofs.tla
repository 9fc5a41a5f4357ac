--------------------------- MODULE GpuReplayProofs ---------------------------
(***************************************************************************)
(* Theorems about GpuReplay, for any queues, fences, values, lists and     *)
(* calls of an application that does not submit a recording twice: types,  *)
(* that the executions of the tracker are those of the GPU, and that the   *)
(* GPU comes to rest where the tracker says.                               *)
(*                                                                         *)
(* Everything is in what the GPU has still to do: the first events of each *)
(* queue are done in the view of the tracker, d[q] of them, and the others *)
(* are what the calls have issued.                                         *)
(***************************************************************************)
EXTENDS GpuReplay, GpuExecutionTrackerProofs, FiniteSetTheorems, WellFoundedInduction

IsSignalOf(e, f) == e.kind = "signal" /\ e.fence = f
IsWaitFor(e, f) == IsWait(e) /\ e.fence = f
Waited(G, f) == \E q \in Timelines : \E i \in 1 .. Len(G[q]) : IsWaitFor(G[q][i], f)

\* A fence is signalled by one queue, ...
OneSource(G) ==
  \A f \in Fences, p, q \in Timelines : \A i \in 1 .. Len(G[p]), j \in 1 .. Len(G[q]) :
    IsSignalOf(G[p][i], f) /\ IsSignalOf(G[q][j], f) => p = q

\* ... with rising values, ...
Rising(G) ==
  \A f \in Fences, q \in Timelines : \A i, j \in 1 .. Len(G[q]) :
    i < j /\ IsSignalOf(G[q][i], f) /\ IsSignalOf(G[q][j], f) => G[q][i].value <= G[q][j].value

\* ... and not lowered while somebody waits for it.
WaitsRise(G, F) ==
  \A f \in Fences : Waited(G, f) =>
    \A q \in Timelines : \A i \in 1 .. Len(G[q]) : IsSignalOf(G[q][i], f) => F[f] <= G[q][i].value

\* The last of the done signals of a fence is what the fence comes to.
SettlesAt(G, d, S, F) ==
  \A f \in Fences :
    \/ /\ S[f] = F[f]
       /\ \A q \in Timelines : \A i \in 1 .. d[q] : ~IsSignalOf(G[q][i], f)
    \/ \E q \in Timelines : \E i \in 1 .. d[q] :
         /\ IsSignalOf(G[q][i], f) /\ S[f] = G[q][i].value
         /\ \A j \in 1 .. d[q] : j > i => ~IsSignalOf(G[q][j], f)

\* The done events can be performed, in the order of their ranks: a wait is for a value that
\* the fence has, or has after a signal of a lower rank.
Reached(G, d, F, r, q, i) ==
  \/ F[G[q][i].fence] >= G[q][i].value
  \/ \E p \in Timelines : \E j \in 1 .. d[p] :
       /\ IsSignalOf(G[p][j], G[q][i].fence) /\ G[p][j].value >= G[q][i].value
       /\ r[p][j] < r[q][i]
Ranked(G, d, F, r, n) ==
  \A q \in Timelines : \A i \in 1 .. d[q] :
    /\ r[q][i] \in Nat /\ r[q][i] < n
    /\ \A j \in 1 .. d[q] : j < i => r[q][j] <= r[q][i]
    /\ IsWait(G[q][i]) => Reached(G, d, F, r, q, i)

Queued(G, d, S, F) ==
  /\ G \in [Timelines -> Seq(Event)]
  /\ d \in [Timelines -> Nat] /\ \A q \in Timelines : d[q] <= Len(G[q])
  /\ S \in [Fences -> Values] /\ F \in [Fences -> Values]

\* The tracker is ahead of the GPU, on a way that the GPU can take.
Ahead(G, d, S, F) ==
  /\ Queued(G, d, S, F)
  /\ OneSource(G) /\ Rising(G) /\ WaitsRise(G, F) /\ SettlesAt(G, d, S, F)
  /\ \E r, n : n \in Nat /\ Ranked(G, d, F, r, n)

\* What is not done begins, on every queue, with an event that the fences hold or with work.
Held(G, d, S) ==
  \A q \in Timelines : d[q] < Len(G[q]) => ~Satisfied(G[q][d[q] + 1], S)

\* The events of the tracker are among those of the GPU, in order, and with all that is not
\* done, except waits that are over: m[q][i] is where event number i of queue q is.
Matches(G, d, S, Q, m) ==
  \A q \in Queues :
    /\ \A i \in 1 .. Len(Q[q]) :
         /\ m[q][i] \in 1 .. Len(G[q]) /\ G[q][m[q][i]] = Q[q][i]
         /\ m[q][i] <= d[q] => Satisfied(Q[q][i], S)
         /\ \A j \in 1 .. Len(Q[q]) : i < j => m[q][i] < m[q][j]
    /\ \A k \in d[q] + 1 .. Len(G[q]) :
         Satisfied(G[q][k], S) \/ \E i \in 1 .. Len(Q[q]) : m[q][i] = k

LEMMA EventTyped ==
  ASSUME NEW e \in Event
  PROVE  /\ e.kind \in {"wait", "signal", "execute"}
         /\ e.kind \in {"wait", "signal"} => e.fence \in Fences /\ e.value \in Values /\ e.value \in Nat
         /\ e.kind = "execute" => e.work \in Works
BY MaxValueAssumption DEF Event, FenceEvent, Values

LEMMA ValuesAreNat == Values \subseteq Nat
BY MaxValueAssumption DEF Values
-----------------------------------------------------------------------------
(***************************************************************************)
(* What passing waits, performing an event and applying signals come to.   *)
(***************************************************************************)
\* A set of numbers that is not empty has a least one.
LEMMA Least ==
  ASSUME NEW T, T \subseteq Nat, T # {}
  PROVE  \E x \in T : \A y \in T : x <= y
<1>1. PICK x \in T : \A y \in T : <<y, x>> \notin OpToRel(<, Nat)
  BY NatLessThanWellFounded, WFMin
<1>2. \A y \in T : ~(y < x)
  BY <1>1 DEF OpToRel
<1> QED
  BY <1>2

LEMMA PassedPrefix ==
  ASSUME NEW s \in Seq(Event), NEW value
  PROVE  \E k \in 0 .. Len(s) :
           /\ \A i \in 1 .. k : Satisfied(s[i], value)
           /\ k < Len(s) => ~Satisfied(s[k + 1], value)
           /\ Passed(s, value) = SubSeq(s, k + 1, Len(s))
<1>1. PICK n \in Nat : n = Len(s)
  OBVIOUS
<1>. DEFINE held == {i \in 1 .. n : ~Satisfied(s[i], value)}
<1>2. PICK k \in 0 .. n : /\ \A i \in 1 .. k : Satisfied(s[i], value)
                          /\ k < n => ~Satisfied(s[k + 1], value)
  <2>1. CASE held = {}
    <3>1. \A i \in 1 .. n : Satisfied(s[i], value)
      BY <2>1
    <3>. QED
      BY <3>1
  <2>2. CASE held # {}
    <3>0. held \subseteq Nat
      OBVIOUS
    <3>1. PICK x \in held : \A y \in held : x <= y
      <4>. HIDE DEF held
      <4>. QED
        BY <2>2, <3>0, Least
    <3>2. x \in 1 .. n /\ ~Satisfied(s[x], value)
      BY <3>1
    <3>3. \A i \in 1 .. n : i < x => Satisfied(s[i], value)
      BY <3>1
    <3>. HIDE DEF held
    <3>4. x - 1 \in 0 .. n /\ (x - 1) + 1 = x /\ \A i \in 1 .. x - 1 : i \in 1 .. n /\ i < x
      BY <3>2
    <3>. QED
      BY <3>2, <3>3, <3>4
  <2>. QED
    BY <2>1, <2>2
<1>. DEFINE passed == {i \in DOMAIN s : \A j \in 1 .. i : Satisfied(s[j], value)}
<1>3. passed = 1 .. k
  BY <1>1, <1>2
<1>4. Cardinality(passed) = k
  <2>1. PICK a \in Int, b \in Int : a = 1 /\ b = k /\ b >= 0
    BY <1>1
  <2>2. Cardinality(a .. b) = IF a > b THEN 0 ELSE b - a + 1
    BY FS_Interval
  <2>3. passed = a .. b
    BY <1>3, <2>1
  <2>. HIDE DEF passed
  <2>. QED
    BY <2>1, <2>2, <2>3
<1>5. Passed(s, value) = SubSeq(s, k + 1, Len(s))
  BY <1>4 DEF Passed
<1>. QED
  BY <1>1, <1>2, <1>5

LEMMA PerformedHead ==
  ASSUME NEW s \in Seq(Event), s # <<>>, ~IsWait(s[1])
  PROVE  Performed(s) = Tail(s)
<1>. DEFINE waits == {i \in DOMAIN s : \A j \in 1 .. i : IsWait(s[j])}
<1>1. waits = {}
  <2>1. \A i \in DOMAIN s : 1 \in 1 .. i
    OBVIOUS
  <2>. QED
    BY <2>1
<1>2. Cardinality({}) = 0
  BY FS_EmptySet
<1>3. Performed(s) = SubSeq(s, Cardinality(waits) + 2, Len(s))
  BY DEF Performed
<1>. HIDE DEF waits
<1>4. Cardinality(waits) + 2 = 2
  BY <1>1, <1>2
<1>. QED
  BY <1>3, <1>4

\* The fences once the signals sig have been applied to the values sf.
Applied(sig, sf) ==
  [f \in Fences |->
     LET pending == {i \in DOMAIN sig : sig[i].fence = f}
     IN  IF pending = {} THEN sf[f] ELSE sig[CHOOSE i \in pending : \A j \in pending : j <= i].value]

LEMMA SettledIsApplied == SettledFences = Applied(signaled, signaledFences)
BY DEF SettledFences, Applied

LEMMA AppliedValue ==
  ASSUME NEW sig \in Seq(Signals), NEW sf, NEW f \in Fences
  PROVE  /\ (\A i \in 1 .. Len(sig) : sig[i].fence # f) => Applied(sig, sf)[f] = sf[f]
         /\ \A i \in 1 .. Len(sig) :
              sig[i].fence = f /\ (\A j \in 1 .. Len(sig) : j > i => sig[j].fence # f)
                => Applied(sig, sf)[f] = sig[i].value
<1>. DEFINE pending == {i \in DOMAIN sig : sig[i].fence = f}
            last == CHOOSE i \in pending : \A j \in pending : j <= i
<1>1. Applied(sig, sf)[f] = IF pending = {} THEN sf[f] ELSE sig[last].value
  BY DEF Applied
<1>2. pending \subseteq Nat /\ DOMAIN sig = 1 .. Len(sig) /\ Len(sig) \in Nat
  OBVIOUS
<1>3. ASSUME \A i \in 1 .. Len(sig) : sig[i].fence # f
      PROVE  Applied(sig, sf)[f] = sf[f]
  BY <1>1, <1>3
<1>4. ASSUME NEW i \in 1 .. Len(sig), sig[i].fence = f,
             \A j \in 1 .. Len(sig) : j > i => sig[j].fence # f
      PROVE  Applied(sig, sf)[f] = sig[i].value
  <2>1. i \in pending /\ \A j \in pending : j <= i
    <3>1. \A j \in 1 .. Len(sig) : ~(j > i) => j <= i
      BY <1>2
    <3>. QED
      BY <1>2, <1>4, <3>1
  <2>. HIDE DEF pending
  <2>2. last \in pending /\ i <= last
    BY <2>1
  <2>. HIDE DEF last
  <2>3. last = i
    BY <1>2, <2>1, <2>2
  <2>. QED
    BY <1>1, <2>1, <2>3 DEF pending, last
<1>. QED
  BY <1>3, <1>4

\* The last signal of a fence that has one.
LEMMA LastSignal ==
  ASSUME NEW sig \in Seq(Signals), NEW f \in Fences, NEW a \in 1 .. Len(sig), sig[a].fence = f
  PROVE  \E i \in 1 .. Len(sig) :
           i >= a /\ sig[i].fence = f /\ \A j \in 1 .. Len(sig) : j > i => sig[j].fence # f
<1>1. PICK n \in Nat : n = Len(sig)
  OBVIOUS
<1>. DEFINE after == {n - i : i \in {j \in 1 .. n : sig[j].fence = f}}
<1>2. after \subseteq Nat /\ n - a \in after
  BY <1>1
<1>3. PICK x \in after : \A y \in after : x <= y
  BY <1>2, Least
<1>4. PICK i \in 1 .. n : x = n - i /\ sig[i].fence = f
  BY <1>3
<1>5. ASSUME NEW j \in 1 .. n, sig[j].fence = f PROVE j <= i
  <2>1. n - j \in after
    BY <1>5
  <2>2. n - i <= n - j
    BY <1>3, <1>4, <2>1
  <2>. QED
    BY <2>2
<1>. QED
  BY <1>1, <1>4, <1>5

LEMMA AppliedCases ==
  ASSUME NEW sig \in Seq(Signals), NEW sf, NEW f \in Fences
  PROVE  \/ /\ \A i \in 1 .. Len(sig) : sig[i].fence # f
            /\ Applied(sig, sf)[f] = sf[f]
         \/ \E i \in 1 .. Len(sig) :
              /\ sig[i].fence = f /\ \A j \in 1 .. Len(sig) : j > i => sig[j].fence # f
              /\ Applied(sig, sf)[f] = sig[i].value
<1>1. CASE \A i \in 1 .. Len(sig) : sig[i].fence # f
  BY <1>1, AppliedValue
<1>2. CASE ~\A i \in 1 .. Len(sig) : sig[i].fence # f
  <2>1. PICK a \in 1 .. Len(sig) : sig[a].fence = f
    BY <1>2
  <2>2. PICK i \in 1 .. Len(sig) :
          sig[i].fence = f /\ \A j \in 1 .. Len(sig) : j > i => sig[j].fence # f
    BY <2>1, LastSignal
  <2>. QED
    BY <2>2, AppliedValue
<1>. QED
  BY <1>1, <1>2

LEMMA AppliedTyped ==
  ASSUME NEW sig \in Seq(Signals), NEW sf \in [Fences -> Values]
  PROVE  Applied(sig, sf) \in [Fences -> Values]
<1>1. ASSUME NEW f \in Fences PROVE Applied(sig, sf)[f] \in Values
  <2>1. ASSUME NEW i \in 1 .. Len(sig) PROVE sig[i].value \in Values
    <3>1. sig[i] \in Signals
      OBVIOUS
    <3>. QED
      BY <3>1 DEF Signals
  <2>2. sf[f] \in Values
    OBVIOUS
  <2>. HIDE DEF Applied
  <2>. QED
    BY <2>1, <2>2, AppliedCases
<1>2. Applied(sig, sf) = [f \in Fences |-> Applied(sig, sf)[f]]
  BY DEF Applied
<1>. QED
  BY <1>1, <1>2

\* Functions of the fences are equal if they have equal values.
LEMMA FencesEqual ==
  ASSUME NEW sig, NEW sf, NEW g, g = [f \in Fences |-> g[f]],
         \A f \in Fences : Applied(sig, sf)[f] = g[f]
  PROVE  Applied(sig, sf) = g
<1>1. Applied(sig, sf) = [f \in Fences |-> Applied(sig, sf)[f]]
  BY DEF Applied
<1>. QED
  BY <1>1

LEMMA AppliedNone ==
  ASSUME NEW sf \in [Fences -> Values] PROVE Applied(<<>>, sf) = sf
<1>1. <<>> \in Seq(Signals) /\ Len(<<>>) = 0
  OBVIOUS
<1>2. ASSUME NEW f \in Fences PROVE Applied(<<>>, sf)[f] = sf[f]
  <2>1. \A i \in 1 .. Len(<<>>) : <<>>[i].fence # f
    BY <1>1
  <2>. QED
    BY <1>1, <2>1, AppliedValue
<1>3. sf = [f \in Fences |-> sf[f]]
  OBVIOUS
<1>. QED
  BY <1>2, <1>3, FencesEqual

LEMMA AppliedOne ==
  ASSUME NEW sf \in [Fences -> Values], NEW f \in Fences, NEW v \in Values
  PROVE  Applied(<<[fence |-> f, value |-> v]>>, [sf EXCEPT ![f] = v]) = [sf EXCEPT ![f] = v]
<1>. DEFINE sig == <<[fence |-> f, value |-> v]>>
            g == [sf EXCEPT ![f] = v]
<1>1. sig \in Seq(Signals) /\ Len(sig) = 1 /\ sig[1].fence = f /\ sig[1].value = v
  BY DEF Signals
<1>2. g \in [Fences -> Values] /\ g[f] = v
  OBVIOUS
<1>. HIDE DEF sig, g
<1>3. \A h \in Fences : Applied(sig, g)[h] = g[h]
  BY <1>1, <1>2, AppliedCases
<1>4. g = [h \in Fences |-> g[h]]
  BY <1>2
<1>5. Applied(sig, g) = g
  BY <1>3, <1>4, FencesEqual
<1>. QED
  BY <1>5 DEF sig, g

LEMMA AppliedMore ==
  ASSUME NEW sig \in Seq(Signals), NEW sf \in [Fences -> Values], NEW x \in Signals
  PROVE  Applied(Append(sig, x), sf) = [Applied(sig, sf) EXCEPT ![x.fence] = x.value]
<1>. DEFINE sig2 == Append(sig, x)
            n == Len(sig)
            g == [Applied(sig, sf) EXCEPT ![x.fence] = x.value]
<1>1. /\ sig2 \in Seq(Signals) /\ n \in Nat /\ Len(sig2) = n + 1 /\ sig2[n + 1] = x
      /\ \A i \in 1 .. n : sig2[i] = sig[i]
  OBVIOUS
<1>2. x.fence \in Fences /\ x.value \in Values
  BY DEF Signals
<1>3. /\ g \in [Fences -> Values] /\ g[x.fence] = x.value
      /\ \A f \in Fences : f # x.fence => g[f] = Applied(sig, sf)[f]
  BY <1>2, AppliedTyped
<1>. HIDE DEF sig2, n, g
<1>4. ASSUME NEW f \in Fences PROVE Applied(sig2, sf)[f] = g[f]
  <2>1. CASE f = x.fence
    <3>1. n + 1 \in 1 .. Len(sig2) /\ \A j \in 1 .. Len(sig2) : ~(j > n + 1)
      BY <1>1
    <3>2. Applied(sig2, sf)[f] = sig2[n + 1].value
      BY <1>1, <2>1, <3>1, AppliedValue
    <3>. QED
      BY <1>1, <1>3, <2>1, <3>2
  <2>2. CASE f # x.fence /\ \A i \in 1 .. n : sig[i].fence # f
    <3>1. \A i \in 1 .. Len(sig2) : sig2[i].fence # f
      BY <1>1, <2>2
    <3>2. Applied(sig2, sf)[f] = sf[f]
      BY ONLY <1>1, <3>1, f \in Fences, AppliedValue
    <3>3. \A i \in 1 .. Len(sig) : sig[i].fence # f
      BY <2>2 DEF n
    <3>4. Applied(sig, sf)[f] = sf[f]
      BY ONLY <3>3, sig \in Seq(Signals), f \in Fences, AppliedValue
    <3>. QED
      BY <1>3, <2>2, <3>2, <3>4
  <2>3. CASE f # x.fence /\ ~\A i \in 1 .. n : sig[i].fence # f
    <3>1. PICK i \in 1 .. n : /\ sig[i].fence = f /\ \A j \in 1 .. n : j > i => sig[j].fence # f
                              /\ Applied(sig, sf)[f] = sig[i].value
      BY <2>3, AppliedCases DEF n
    <3>2. /\ i \in 1 .. Len(sig2) /\ sig2[i].fence = f /\ sig2[i].value = sig[i].value
          /\ \A j \in 1 .. Len(sig2) : j > i => sig2[j].fence # f
      <4>1. \A j \in 1 .. Len(sig2) : j \in 1 .. n \/ j = n + 1
        BY <1>1
      <4>2. \A j \in 1 .. n : sig2[j] = sig[j] /\ j \in 1 .. Len(sig2)
        BY <1>1
      <4>. QED
        BY <1>1, <2>3, <3>1, <4>1, <4>2
    <3>3. Applied(sig2, sf)[f] = sig2[i].value
      BY <1>1, <3>2, AppliedValue
    <3>. QED
      BY <1>3, <2>3, <3>1, <3>2, <3>3
  <2>. QED
    BY <2>1, <2>2, <2>3
<1>5. g = [h \in Fences |-> g[h]]
  BY <1>3
<1>6. Applied(sig2, sf) = g
  BY <1>4, <1>5, FencesEqual
<1>. QED
  BY <1>6 DEF g, sig2

\* The loop goes on to the next signal: the first one has been applied.
LEMMA AppliedNext ==
  ASSUME NEW sig \in Seq(Signals), sig # <<>>, NEW sf \in [Fences -> Values],
         sf[sig[1].fence] = sig[1].value
  PROVE  Applied(Tail(sig), IF Len(sig) = 1 THEN sf
                            ELSE [sf EXCEPT ![sig[2].fence] = sig[2].value]) = Applied(sig, sf)
<1>. DEFINE tail == Tail(sig)
            n == Len(sig)
            sf2 == IF Len(sig) = 1 THEN sf ELSE [sf EXCEPT ![sig[2].fence] = sig[2].value]
            g == Applied(sig, sf)
<1>1. /\ tail \in Seq(Signals) /\ n \in Nat /\ n >= 1 /\ Len(tail) = n - 1
      /\ \A i \in 1 .. n - 1 : tail[i] = sig[i + 1] /\ i + 1 \in 1 .. n
  OBVIOUS
<1>2. /\ \A f \in Fences : (\A i \in 1 .. n : sig[i].fence # f) => sf2[f] = sf[f]
      /\ \A f \in Fences : sig[1].fence = f /\ (\A i \in 1 .. n : i > 1 => sig[i].fence # f)
           => sf2[f] = sig[1].value
  <2>1. CASE n = 1
    BY <2>1
  <2>2. CASE n # 1
    <3>0. sig[2] \in Signals
      BY <1>1, <2>2
    <3>1. 2 \in 1 .. n /\ sig[2].fence \in Fences
      BY <1>1, <2>2, <3>0 DEF Signals
    <3>. QED
      BY <2>2, <3>1
  <2>. QED
    BY <2>1, <2>2
<1>3. g \in [Fences -> Values]
  BY AppliedTyped
<1>. HIDE DEF tail, n, sf2, g
<1>4. ASSUME NEW f \in Fences PROVE Applied(tail, sf2)[f] = g[f]
  <2>1. CASE \A i \in 1 .. n : sig[i].fence # f
    <3>1. \A i \in 1 .. Len(tail) : tail[i].fence # f
      BY <1>1, <2>1
    <3>. QED
      BY <1>1, <1>2, <2>1, <3>1, AppliedValue DEF n, g
  <2>2. CASE \E i \in 1 .. n : sig[i].fence = f
    <3>0. ~\A i \in 1 .. n : sig[i].fence # f
      BY <2>2
    <3>1. PICK i \in 1 .. n : /\ sig[i].fence = f /\ \A j \in 1 .. n : j > i => sig[j].fence # f
                              /\ g[f] = sig[i].value
      BY <3>0, AppliedCases DEF n, g
    <3>2. CASE i = 1
      <4>1. \A j \in 1 .. Len(tail) : tail[j].fence # f
        BY <1>1, <3>1, <3>2
      <4>2. Applied(tail, sf2)[f] = sf2[f]
        BY <1>1, <4>1, AppliedValue
      <4>. QED
        BY <1>2, <3>1, <3>2, <4>2
    <3>3. CASE i # 1
      <4>1. PICK k \in 1 .. n - 1 : k + 1 = i
        BY <1>1, <3>3
      <4>2. ASSUME NEW j \in 1 .. Len(tail), j > k PROVE tail[j].fence # f
        <5>1. j + 1 \in 1 .. n /\ j + 1 > i /\ tail[j] = sig[j + 1]
          BY <1>1, <4>1, <4>2
        <5>. QED
          BY <3>1, <5>1
      <4>3. k \in 1 .. Len(tail) /\ tail[k] = sig[i] /\ tail[k].fence = f
        BY <1>1, <3>1, <4>1
      <4>4. Applied(tail, sf2)[f] = tail[k].value
        <5>1. tail \in Seq(Signals) /\ \A j \in 1 .. Len(tail) : j > k => tail[j].fence # f
          BY <1>1, <4>2
        <5>. HIDE DEF Applied
        <5>. QED
          BY ONLY <4>3, <5>1, f \in Fences, AppliedValue
      <4>. QED
        BY <3>1, <4>4, <4>3
    <3>. QED
      BY <3>2, <3>3
  <2>. QED
    BY <2>1, <2>2
<1>5. g = [h \in Fences |-> g[h]]
  BY <1>3
<1>6. Applied(tail, sf2) = g
  BY <1>4, <1>5, FencesEqual
<1>. QED
  BY <1>6 DEF tail, sf2, g
-----------------------------------------------------------------------------
(***************************************************************************)
(* The tracker stays ahead: a call appends an event, ...                   *)
(***************************************************************************)
\* The application signals a fence from one queue, with a value that is not below those to
\* come, unless nothing is left to be done with it.
SignalAllowed(G, F, q, e) ==
  \A f \in Fences : IsSignalOf(e, f) =>
    /\ \A p \in Timelines : \A i \in 1 .. Len(G[p]) : IsSignalOf(G[p][i], f) => p = q
    /\ \/ /\ F[f] <= e.value
          /\ \A i \in 1 .. Len(G[q]) : IsSignalOf(G[q][i], f) => G[q][i].value <= e.value
       \/ /\ ~Waited(G, f)
          /\ \A p \in Timelines : \A i \in 1 .. Len(G[p]) : ~IsSignalOf(G[p][i], f)

WaitAllowed(G, F, e) ==
  \A f \in Fences : IsWaitFor(e, f) =>
    \A p \in Timelines : \A i \in 1 .. Len(G[p]) : IsSignalOf(G[p][i], f) => F[f] <= G[p][i].value

LEMMA AppendTo ==
  ASSUME NEW G \in [Timelines -> Seq(Event)], NEW q \in Timelines, NEW e \in Event,
         NEW G2, G2 = [G EXCEPT ![q] = Append(@, e)]
  PROVE  /\ G2 \in [Timelines -> Seq(Event)]
         /\ \A p \in Timelines :
              /\ Len(G[p]) \in Nat /\ Len(G2[p]) = IF p = q THEN Len(G[p]) + 1 ELSE Len(G[p])
              /\ \A i \in 1 .. Len(G[p]) : i \in 1 .. Len(G2[p]) /\ G2[p][i] = G[p][i]
              /\ \A i \in 1 .. Len(G2[p]) :
                   (i \in 1 .. Len(G[p])) \/ (p = q /\ i = Len(G[q]) + 1 /\ G2[p][i] = e)
         /\ Len(G[q]) + 1 \in 1 .. Len(G2[q]) /\ G2[q][Len(G[q]) + 1] = e
<1>1. /\ Append(G[q], e) \in Seq(Event) /\ Len(Append(G[q], e)) = Len(G[q]) + 1
      /\ Append(G[q], e)[Len(G[q]) + 1] = e
      /\ \A i \in 1 .. Len(G[q]) : Append(G[q], e)[i] = G[q][i]
  OBVIOUS
<1>2. G2[q] = Append(G[q], e) /\ \A p \in Timelines : p # q => G2[p] = G[p]
  OBVIOUS
<1>3. \A p \in Timelines : Len(G[p]) \in Nat /\ G[p] \in Seq(Event)
  OBVIOUS
<1>4. G2 \in [Timelines -> Seq(Event)]
  BY <1>1
<1>5. Len(G2[q]) = Len(G[q]) + 1 /\ G2[q][Len(G[q]) + 1] = e
  BY <1>1, <1>2
<1>6. \A i \in 1 .. Len(G[q]) : G2[q][i] = G[q][i]
  BY <1>1, <1>2
<1>7. ASSUME NEW p \in Timelines
      PROVE  /\ Len(G[p]) \in Nat /\ Len(G2[p]) = IF p = q THEN Len(G[p]) + 1 ELSE Len(G[p])
             /\ \A i \in 1 .. Len(G[p]) : i \in 1 .. Len(G2[p]) /\ G2[p][i] = G[p][i]
             /\ \A i \in 1 .. Len(G2[p]) :
                  (i \in 1 .. Len(G[p])) \/ (p = q /\ i = Len(G[q]) + 1 /\ G2[p][i] = e)
  BY <1>2, <1>3, <1>5, <1>6
<1>. QED
  BY <1>3, <1>4, <1>5, <1>7

LEMMA AheadAppend ==
  ASSUME NEW G, NEW d, NEW S, NEW F, Ahead(G, d, S, F), NEW q \in Timelines, NEW e \in Event,
         SignalAllowed(G, F, q, e), WaitAllowed(G, F, e)
  PROVE  Ahead([G EXCEPT ![q] = Append(@, e)], d, S, F)
<1>. DEFINE G2 == [G EXCEPT ![q] = Append(@, e)]
            last == Len(G[q]) + 1
<1>1. /\ G \in [Timelines -> Seq(Event)] /\ d \in [Timelines -> Nat]
      /\ \A p \in Timelines : d[p] \in Nat /\ d[p] <= Len(G[p])
      /\ S \in [Fences -> Values] /\ F \in [Fences -> Values]
  BY DEF Ahead, Queued
<1>2. /\ G2 \in [Timelines -> Seq(Event)]
      /\ \A p \in Timelines :
           /\ Len(G[p]) \in Nat /\ Len(G2[p]) = IF p = q THEN Len(G[p]) + 1 ELSE Len(G[p])
           /\ \A i \in 1 .. Len(G[p]) : i \in 1 .. Len(G2[p]) /\ G2[p][i] = G[p][i]
           /\ \A i \in 1 .. Len(G2[p]) :
                (i \in 1 .. Len(G[p])) \/ (p = q /\ i = last /\ G2[p][i] = e)
      /\ last \in 1 .. Len(G2[q]) /\ G2[q][last] = e
  BY <1>1, AppendTo
<1>3. \A p \in Timelines : \A i \in 1 .. d[p] : i \in 1 .. Len(G[p]) /\ G2[p][i] = G[p][i]
  BY <1>1, <1>2
<1>. HIDE DEF G2, last
<1>4. Queued(G2, d, S, F)
  BY <1>1, <1>2 DEF Queued
<1>5. \A f \in Fences : IsSignalOf(e, f) => ~IsWaitFor(e, f)
  BY DEF IsSignalOf, IsWaitFor, IsWait
<1>6. OneSource(G2)
  <2>. SUFFICES ASSUME NEW f \in Fences, NEW p \in Timelines, NEW r \in Timelines,
                       NEW i \in 1 .. Len(G2[p]), NEW j \in 1 .. Len(G2[r]),
                       IsSignalOf(G2[p][i], f), IsSignalOf(G2[r][j], f)
                PROVE  p = r
    BY DEF OneSource
  <2>1. CASE i \in 1 .. Len(G[p]) /\ j \in 1 .. Len(G[r])
    BY <1>2, <2>1 DEF Ahead, OneSource
  <2>2. CASE i \in 1 .. Len(G[p]) /\ j \notin 1 .. Len(G[r])
    BY <1>2, <2>2 DEF SignalAllowed
  <2>3. CASE i \notin 1 .. Len(G[p]) /\ j \in 1 .. Len(G[r])
    BY <1>2, <2>3 DEF SignalAllowed
  <2>4. CASE i \notin 1 .. Len(G[p]) /\ j \notin 1 .. Len(G[r])
    BY <1>2, <2>4
  <2>. QED
    BY <2>1, <2>2, <2>3, <2>4
<1>7. Rising(G2)
  <2>. SUFFICES ASSUME NEW f \in Fences, NEW p \in Timelines,
                       NEW i \in 1 .. Len(G2[p]), NEW j \in 1 .. Len(G2[p]), i < j,
                       IsSignalOf(G2[p][i], f), IsSignalOf(G2[p][j], f)
                PROVE  G2[p][i].value <= G2[p][j].value
    BY DEF Rising
  <2>1. CASE j \in 1 .. Len(G[p])
    <3>1. i \in 1 .. Len(G[p])
      BY <1>2, <2>1
    <3>2. G2[p][i] = G[p][i] /\ G2[p][j] = G[p][j]
      BY <1>2, <2>1, <3>1
    <3>. QED
      BY <2>1, <3>1, <3>2 DEF Ahead, Rising
  <2>2. CASE j \notin 1 .. Len(G[p])
    <3>1. p = q /\ j = last /\ G2[p][j] = e
      BY <1>2, <2>2
    <3>2. i \in 1 .. Len(G[p]) /\ G2[p][i] = G[p][i]
      BY <1>2, <3>1
    <3>. QED
      BY <3>1, <3>2 DEF SignalAllowed
  <2>. QED
    BY <2>1, <2>2
<1>8. WaitsRise(G2, F)
  <2>. SUFFICES ASSUME NEW f \in Fences, Waited(G2, f), NEW p \in Timelines,
                       NEW i \in 1 .. Len(G2[p]), IsSignalOf(G2[p][i], f)
                PROVE  F[f] <= G2[p][i].value
    BY DEF WaitsRise
  <2>1. Waited(G, f) \/ IsWaitFor(e, f)
    BY <1>2 DEF Waited
  <2>2. CASE i \in 1 .. Len(G[p])
    BY <1>2, <2>1, <2>2 DEF Ahead, WaitsRise, WaitAllowed
  <2>3. CASE i \notin 1 .. Len(G[p])
    <3>1. p = q /\ G2[p][i] = e
      BY <1>2, <2>3
    <3>2. Waited(G, f)
      BY <1>5, <2>1, <3>1
    <3>. QED
      BY <3>1, <3>2 DEF SignalAllowed
  <2>. QED
    BY <2>2, <2>3
<1>9. SettlesAt(G2, d, S, F)
  <2>. SUFFICES ASSUME NEW f \in Fences
                PROVE  \/ /\ S[f] = F[f]
                          /\ \A p \in Timelines : \A i \in 1 .. d[p] : ~IsSignalOf(G2[p][i], f)
                       \/ \E p \in Timelines : \E i \in 1 .. d[p] :
                            /\ IsSignalOf(G2[p][i], f) /\ S[f] = G2[p][i].value
                            /\ \A j \in 1 .. d[p] : j > i => ~IsSignalOf(G2[p][j], f)
    BY DEF SettlesAt
  <2>. QED
    BY <1>3 DEF Ahead, SettlesAt
<1>10. \E r, n : n \in Nat /\ Ranked(G2, d, F, r, n)
  <2>1. PICK r, n : n \in Nat /\ Ranked(G, d, F, r, n)
    BY DEF Ahead
  <2>2. \A p \in Timelines : \A i \in 1 .. d[p] :
          /\ r[p][i] \in Nat /\ r[p][i] < n
          /\ \A j \in 1 .. d[p] : j < i => r[p][j] <= r[p][i]
          /\ IsWait(G[p][i]) => Reached(G, d, F, r, p, i)
    BY <2>1 DEF Ranked
  <2>3. ASSUME NEW p \in Timelines, NEW i \in 1 .. d[p], IsWait(G2[p][i])
        PROVE  Reached(G2, d, F, r, p, i)
    <3>1. Reached(G, d, F, r, p, i)
      BY <1>3, <2>2, <2>3
    <3>. QED
      BY <1>3, <3>1 DEF Reached
  <2>4. Ranked(G2, d, F, r, n)
    BY <2>2, <2>3 DEF Ranked
  <2>. QED
    BY <2>1, <2>4
<1>11. Ahead(G2, d, S, F)
  BY <1>4, <1>6, <1>7, <1>8, <1>9, <1>10 DEF Ahead
<1>. QED
  BY <1>11 DEF G2

\* ... or waits are passed, ...
LEMMA AheadPass ==
  ASSUME NEW G, NEW d, NEW S, NEW F, Ahead(G, d, S, F), NEW d2, d2 \in [Timelines -> Nat],
         \A q \in Timelines :
           /\ d[q] <= d2[q] /\ d2[q] <= Len(G[q])
           /\ \A i \in d[q] + 1 .. d2[q] : Satisfied(G[q][i], S)
  PROVE  Ahead(G, d2, S, F)
<1>1. /\ Queued(G, d, S, F) /\ OneSource(G) /\ Rising(G) /\ WaitsRise(G, F) /\ SettlesAt(G, d, S, F)
      /\ \E r, n : n \in Nat /\ Ranked(G, d, F, r, n)
  BY DEF Ahead
<1>2. /\ G \in [Timelines -> Seq(Event)] /\ S \in [Fences -> Values] /\ F \in [Fences -> Values]
      /\ \A q \in Timelines : d[q] \in Nat /\ d2[q] \in Nat /\ Len(G[q]) \in Nat
  BY <1>1 DEF Queued
<1>3. Queued(G, d2, S, F)
  BY <1>2 DEF Queued
<1>4. \A q \in Timelines : \A i \in 1 .. d2[q] : i \notin 1 .. d[q] =>
        /\ i \in d[q] + 1 .. d2[q] /\ Satisfied(G[q][i], S) /\ i \in Nat
        /\ \A f \in Fences : ~IsSignalOf(G[q][i], f)
  <2>. SUFFICES ASSUME NEW q \in Timelines, NEW i \in 1 .. d2[q], i \notin 1 .. d[q]
                PROVE  /\ i \in d[q] + 1 .. d2[q] /\ Satisfied(G[q][i], S) /\ i \in Nat
                       /\ \A f \in Fences : ~IsSignalOf(G[q][i], f)
    OBVIOUS
  <2>1. i \in d[q] + 1 .. d2[q]
    BY <1>2
  <2>2. Satisfied(G[q][i], S)
    BY <2>1
  <2>. QED
    BY <2>1, <2>2 DEF Satisfied, IsWait, IsSignalOf
<1>5. \A q \in Timelines : \A i \in 1 .. d[q] : i \in 1 .. d2[q] /\ i \in 1 .. Len(G[q])
  BY <1>2
<1>6. SettlesAt(G, d2, S, F)
  <2>. SUFFICES ASSUME NEW f \in Fences
                PROVE  \/ /\ S[f] = F[f]
                          /\ \A p \in Timelines : \A i \in 1 .. d2[p] : ~IsSignalOf(G[p][i], f)
                       \/ \E p \in Timelines : \E i \in 1 .. d2[p] :
                            /\ IsSignalOf(G[p][i], f) /\ S[f] = G[p][i].value
                            /\ \A j \in 1 .. d2[p] : j > i => ~IsSignalOf(G[p][j], f)
    BY DEF SettlesAt
  <2>1. CASE /\ S[f] = F[f]
             /\ \A p \in Timelines : \A i \in 1 .. d[p] : ~IsSignalOf(G[p][i], f)
    BY <1>4, <2>1
  <2>2. CASE ~(/\ S[f] = F[f]
               /\ \A p \in Timelines : \A i \in 1 .. d[p] : ~IsSignalOf(G[p][i], f))
    <3>1a. PICK p \in Timelines : \E i \in 1 .. d[p] :
           /\ IsSignalOf(G[p][i], f) /\ S[f] = G[p][i].value
           /\ \A j \in 1 .. d[p] : j > i => ~IsSignalOf(G[p][j], f)
      BY <1>1, <2>2 DEF SettlesAt
    <3>1. PICK i \in 1 .. d[p] :
           /\ IsSignalOf(G[p][i], f) /\ S[f] = G[p][i].value
           /\ \A j \in 1 .. d[p] : j > i => ~IsSignalOf(G[p][j], f)
      BY <3>1a
    <3>. QED
      BY <1>4, <1>5, <3>1
  <2>. QED
    BY <2>1, <2>2
<1>7. \E r2, n2 : n2 \in Nat /\ Ranked(G, d2, F, r2, n2)
  <2>1. PICK r, n : n \in Nat /\ Ranked(G, d, F, r, n)
    BY <1>1
  <2>2. \A q \in Timelines : \A i \in 1 .. d[q] :
          /\ r[q][i] \in Nat /\ r[q][i] < n
          /\ \A j \in 1 .. d[q] : j < i => r[q][j] <= r[q][i]
          /\ IsWait(G[q][i]) => Reached(G, d, F, r, q, i)
    BY <2>1 DEF Ranked
  <2>. DEFINE r2 == [q \in Timelines |-> [i \in 1 .. d2[q] |-> IF i \in 1 .. d[q] THEN r[q][i] ELSE n]]
  <2>3. \A q \in Timelines : \A i \in 1 .. d[q] : r2[q][i] = r[q][i]
    BY <1>5
  <2>4. \A q \in Timelines : \A i \in 1 .. d2[q] : i \notin 1 .. d[q] => r2[q][i] = n
    OBVIOUS
  <2>. HIDE DEF r2
  <2>5. ASSUME NEW q \in Timelines, NEW i \in 1 .. d2[q]
        PROVE  r2[q][i] \in Nat /\ r2[q][i] < n + 1
    BY <2>1, <2>2, <2>3, <2>4
  <2>6. ASSUME NEW q \in Timelines, NEW i \in 1 .. d2[q], NEW j \in 1 .. d2[q], j < i
        PROVE  r2[q][j] <= r2[q][i]
    <3>1. CASE i \in 1 .. d[q]
      <4>1. j \in 1 .. d[q]
        BY <1>2, <2>6, <3>1
      <4>. QED
        BY <2>2, <2>3, <2>6, <3>1, <4>1
    <3>2. CASE i \notin 1 .. d[q]
      <4>1. r2[q][i] = n
        BY <2>4, <3>2
      <4>. QED
        BY <2>1, <2>5, <4>1
    <3>. QED
      BY <3>1, <3>2
  <2>7. ASSUME NEW q \in Timelines, NEW i \in 1 .. d2[q], IsWait(G[q][i])
        PROVE  Reached(G, d2, F, r2, q, i)
    <3>1. CASE i \in 1 .. d[q]
      <4>1. Reached(G, d, F, r, q, i)
        BY <2>2, <2>7, <3>1
      <4>. QED
        BY <1>5, <2>3, <3>1, <4>1 DEF Reached
    <3>2. CASE i \notin 1 .. d[q]
      <4>. DEFINE e == G[q][i]
      <4>1. e \in Event
        BY <1>2, <1>4, <3>2
      <4>2. e.kind = "wait" /\ e.fence \in Fences /\ S[e.fence] >= e.value
        BY <1>4, <3>2, <4>1, EventTyped DEF Satisfied, IsWait
      <4>. HIDE DEF e
      <4>3. CASE S[e.fence] = F[e.fence]
        BY <4>2, <4>3 DEF Reached, e
      <4>4. CASE S[e.fence] # F[e.fence]
        <5>1a. PICK p \in Timelines : \E j \in 1 .. d[p] :
               IsSignalOf(G[p][j], e.fence) /\ S[e.fence] = G[p][j].value
          BY <1>1, <4>2, <4>4 DEF SettlesAt
        <5>1. PICK j \in 1 .. d[p] :
               IsSignalOf(G[p][j], e.fence) /\ S[e.fence] = G[p][j].value
          BY <5>1a
        <5>2. j \in 1 .. d2[p] /\ r2[p][j] < r2[q][i]
          BY <1>5, <2>2, <2>3, <2>4, <3>2
        <5>. QED
          BY <4>2, <5>1, <5>2 DEF Reached, e
      <4>. QED
        BY <4>3, <4>4
    <3>. QED
      BY <3>1, <3>2
  <2>8. n + 1 \in Nat /\ Ranked(G, d2, F, r2, n + 1)
    BY <2>1, <2>5, <2>6, <2>7 DEF Ranked
  <2>. QED
    BY <2>8
<1>. QED
  BY <1>1, <1>3, <1>6, <1>7 DEF Ahead

\* ... or the next event of a queue is done, ...
LEMMA AheadDo ==
  ASSUME NEW G, NEW d, NEW S, NEW F, Ahead(G, d, S, F), NEW q \in Timelines,
         d[q] + 1 <= Len(G[q]), ~IsWait(G[q][d[q] + 1])
  PROVE  Ahead(G, [d EXCEPT ![q] = @ + 1], AfterSignal(G[q][d[q] + 1], S), F)
<1>. DEFINE k == d[q] + 1
            e == G[q][k]
            d2 == [d EXCEPT ![q] = @ + 1]
            S2 == AfterSignal(e, S)
<1>1. /\ Queued(G, d, S, F) /\ OneSource(G) /\ Rising(G) /\ WaitsRise(G, F) /\ SettlesAt(G, d, S, F)
      /\ \E r, n : n \in Nat /\ Ranked(G, d, F, r, n)
  BY DEF Ahead
<1>2. /\ G \in [Timelines -> Seq(Event)] /\ S \in [Fences -> Values] /\ F \in [Fences -> Values]
      /\ d \in [Timelines -> Nat]
      /\ \A p \in Timelines : d[p] \in Nat /\ Len(G[p]) \in Nat /\ d[p] <= Len(G[p])
  BY <1>1 DEF Queued
<1>3. e \in Event /\ k \in 1 .. Len(G[q]) /\ k \in Nat /\ ~IsWait(e)
  BY <1>2
<1>4. /\ d2 \in [Timelines -> Nat] /\ d2[q] = k
      /\ \A p \in Timelines : p # q => d2[p] = d[p]
      /\ \A p \in Timelines : d2[p] <= Len(G[p])
  BY <1>2, <1>3
<1>5. /\ S2 \in [Fences -> Values]
      /\ \A f \in Fences : IF IsSignalOf(e, f) THEN S2[f] = e.value ELSE S2[f] = S[f]
  <2>1. CASE e.kind = "signal"
    <3>1. e.fence \in Fences /\ e.value \in Values
      BY <1>3, <2>1, EventTyped
    <3>2. S2 = [S EXCEPT ![e.fence] = e.value]
      BY <2>1 DEF AfterSignal
    <3>. HIDE DEF S2, e
    <3>. QED
      BY <1>2, <2>1, <3>1, <3>2 DEF IsSignalOf
  <2>2. CASE e.kind # "signal"
    BY <1>2, <2>2 DEF AfterSignal, IsSignalOf
  <2>. QED
    BY <2>1, <2>2
<1>6. \A p \in Timelines : \A i \in 1 .. d2[p] : i \in 1 .. d[p] \/ (p = q /\ i = k)
  BY <1>2, <1>4
<1>7. /\ \A p \in Timelines : \A i \in 1 .. d[p] : i \in 1 .. d2[p] /\ (p = q => i < k /\ i # k)
      /\ k \in 1 .. d2[q] /\ k \notin 1 .. d[q]
  BY <1>2, <1>4
<1>8. \A i \in 1 .. d2[q] : ~(i > k)
  BY <1>4
<1>. HIDE DEF k, e, d2, S2
<1>9. Queued(G, d2, S2, F)
  BY <1>2, <1>4, <1>5 DEF Queued
<1>10. SettlesAt(G, d2, S2, F)
  <2>. SUFFICES ASSUME NEW f \in Fences
                PROVE  \/ /\ S2[f] = F[f]
                          /\ \A p \in Timelines : \A i \in 1 .. d2[p] : ~IsSignalOf(G[p][i], f)
                       \/ \E p \in Timelines : \E i \in 1 .. d2[p] :
                            /\ IsSignalOf(G[p][i], f) /\ S2[f] = G[p][i].value
                            /\ \A j \in 1 .. d2[p] : j > i => ~IsSignalOf(G[p][j], f)
    BY DEF SettlesAt
  <2>1. CASE IsSignalOf(e, f)
    BY <1>5, <1>7, <1>8, <2>1 DEF e
  <2>2. CASE ~IsSignalOf(e, f) /\ \A p \in Timelines : \A i \in 1 .. d[p] : ~IsSignalOf(G[p][i], f)
    <3>1. S[f] = F[f]
      BY <1>1, <2>2 DEF SettlesAt
    <3>. QED
      BY <1>5, <1>6, <2>2, <3>1 DEF e
  <2>3. CASE ~IsSignalOf(e, f) /\ ~\A p \in Timelines : \A i \in 1 .. d[p] : ~IsSignalOf(G[p][i], f)
    <3>1a. PICK p \in Timelines : \E i \in 1 .. d[p] :
           /\ IsSignalOf(G[p][i], f) /\ S[f] = G[p][i].value
           /\ \A j \in 1 .. d[p] : j > i => ~IsSignalOf(G[p][j], f)
      BY <1>1, <2>3 DEF SettlesAt
    <3>1. PICK i \in 1 .. d[p] :
           /\ IsSignalOf(G[p][i], f) /\ S[f] = G[p][i].value
           /\ \A j \in 1 .. d[p] : j > i => ~IsSignalOf(G[p][j], f)
      BY <3>1a
    <3>2. \A j \in 1 .. d2[p] : j > i => ~IsSignalOf(G[p][j], f)
      BY <1>6, <2>3, <3>1 DEF e
    <3>. QED
      BY <1>5, <1>7, <2>3, <3>1, <3>2
  <2>. QED
    BY <2>1, <2>2, <2>3
<1>11. \E r2, n2 : n2 \in Nat /\ Ranked(G, d2, F, r2, n2)
  <2>1. PICK r, n : n \in Nat /\ Ranked(G, d, F, r, n)
    BY <1>1
  <2>2. \A p \in Timelines : \A i \in 1 .. d[p] :
          /\ r[p][i] \in Nat /\ r[p][i] < n
          /\ \A j \in 1 .. d[p] : j < i => r[p][j] <= r[p][i]
          /\ IsWait(G[p][i]) => Reached(G, d, F, r, p, i)
    BY <2>1 DEF Ranked
  <2>. DEFINE r2 == [p \in Timelines |-> [i \in 1 .. d2[p] |-> IF p = q /\ i = k THEN n ELSE r[p][i]]]
  <2>3. \A p \in Timelines : \A i \in 1 .. d[p] : r2[p][i] = r[p][i]
    BY <1>7
  <2>4. r2[q][k] = n
    BY <1>7
  <2>. HIDE DEF r2
  <2>5. ASSUME NEW p \in Timelines, NEW i \in 1 .. d2[p]
        PROVE  r2[p][i] \in Nat /\ r2[p][i] < n + 1
    BY <1>6, <2>1, <2>2, <2>3, <2>4
  <2>6. ASSUME NEW p \in Timelines, NEW i \in 1 .. d2[p], NEW j \in 1 .. d2[p], j < i
        PROVE  r2[p][j] <= r2[p][i]
    <3>1. CASE i \in 1 .. d[p]
      <4>1. j \in 1 .. d[p]
        BY <1>2, <2>6, <3>1
      <4>. QED
        BY <2>2, <2>3, <2>6, <3>1, <4>1
    <3>2. CASE i \notin 1 .. d[p]
      <4>1. r2[p][i] = n
        BY <1>6, <2>4, <3>2
      <4>. QED
        BY <2>1, <2>5, <4>1
    <3>. QED
      BY <3>1, <3>2
  <2>7. ASSUME NEW p \in Timelines, NEW i \in 1 .. d2[p], IsWait(G[p][i])
        PROVE  Reached(G, d2, F, r2, p, i)
    <3>1. i \in 1 .. d[p]
      BY <1>3, <1>6, <2>7 DEF e
    <3>2. Reached(G, d, F, r, p, i)
      BY <2>2, <2>7, <3>1
    <3>. QED
      BY <1>7, <2>3, <3>1, <3>2 DEF Reached
  <2>8. n + 1 \in Nat /\ Ranked(G, d2, F, r2, n + 1)
    BY <2>1, <2>5, <2>6, <2>7 DEF Ranked
  <2>. QED
    BY <2>8
<1>12. Ahead(G, d2, S2, F)
  BY <1>1, <1>9, <1>10, <1>11 DEF Ahead
<1>. QED
  BY <1>12 DEF k, e, d2, S2

\* ... or the application signals a fence itself, ...
LEMMA AheadRaise ==
  ASSUME NEW G, NEW d, NEW S, NEW F, Ahead(G, d, S, F), NEW f \in Fences, NEW v \in Values,
         \A q \in Timelines : \A i \in 1 .. Len(G[q]) : ~IsSignalOf(G[q][i], f),
         F[f] <= v \/ ~Waited(G, f)
  PROVE  Ahead(G, d, [S EXCEPT ![f] = v], [F EXCEPT ![f] = v])
<1>. DEFINE S2 == [S EXCEPT ![f] = v]
            F2 == [F EXCEPT ![f] = v]
<1>1. /\ Queued(G, d, S, F) /\ OneSource(G) /\ Rising(G) /\ WaitsRise(G, F) /\ SettlesAt(G, d, S, F)
      /\ \E r, n : n \in Nat /\ Ranked(G, d, F, r, n)
  BY DEF Ahead
<1>2. /\ G \in [Timelines -> Seq(Event)] /\ S \in [Fences -> Values] /\ F \in [Fences -> Values]
      /\ d \in [Timelines -> Nat]
      /\ \A p \in Timelines : d[p] \in Nat /\ Len(G[p]) \in Nat /\ d[p] <= Len(G[p])
  BY <1>1 DEF Queued
<1>3. /\ S2 \in [Fences -> Values] /\ S2[f] = v /\ \A g \in Fences : g # f => S2[g] = S[g]
      /\ F2 \in [Fences -> Values] /\ F2[f] = v /\ \A g \in Fences : g # f => F2[g] = F[g]
  BY <1>2
<1>4. \A p \in Timelines : \A i \in 1 .. d[p] : i \in 1 .. Len(G[p])
  BY <1>2
<1>. HIDE DEF S2, F2
<1>5. Queued(G, d, S2, F2)
  BY <1>2, <1>3 DEF Queued
<1>6. WaitsRise(G, F2)
  <2>. SUFFICES ASSUME NEW g \in Fences, Waited(G, g), NEW p \in Timelines,
                       NEW i \in 1 .. Len(G[p]), IsSignalOf(G[p][i], g)
                PROVE  F2[g] <= G[p][i].value
    BY DEF WaitsRise
  <2>1. g # f
    OBVIOUS
  <2>. QED
    BY <1>1, <1>3, <2>1 DEF WaitsRise
<1>7. SettlesAt(G, d, S2, F2)
  <2>. SUFFICES ASSUME NEW g \in Fences
                PROVE  \/ /\ S2[g] = F2[g]
                          /\ \A p \in Timelines : \A i \in 1 .. d[p] : ~IsSignalOf(G[p][i], g)
                       \/ \E p \in Timelines : \E i \in 1 .. d[p] :
                            /\ IsSignalOf(G[p][i], g) /\ S2[g] = G[p][i].value
                            /\ \A j \in 1 .. d[p] : j > i => ~IsSignalOf(G[p][j], g)
    BY DEF SettlesAt
  <2>1. CASE g = f
    BY <1>3, <1>4, <2>1
  <2>2. CASE g # f
    BY <1>1, <1>3, <2>2 DEF SettlesAt
  <2>. QED
    BY <2>1, <2>2
<1>8. ASSUME NEW r, NEW n, Ranked(G, d, F, r, n)
      PROVE  Ranked(G, d, F2, r, n)
  <2>1. \A p \in Timelines : \A i \in 1 .. d[p] :
          /\ r[p][i] \in Nat /\ r[p][i] < n
          /\ \A j \in 1 .. d[p] : j < i => r[p][j] <= r[p][i]
          /\ IsWait(G[p][i]) => Reached(G, d, F, r, p, i)
    BY <1>8 DEF Ranked
  <2>2. ASSUME NEW p \in Timelines, NEW i \in 1 .. d[p], IsWait(G[p][i])
        PROVE  Reached(G, d, F2, r, p, i)
    <3>. DEFINE e == G[p][i]
    <3>1. e \in Event
      BY <1>2, <1>4
    <3>2. e.fence \in Fences /\ e.value \in Nat /\ IsWait(e)
      BY <2>2, <3>1, EventTyped DEF IsWait
    <3>3. Reached(G, d, F, r, p, i)
      BY <2>1, <2>2
    <3>4. e.fence = f => Waited(G, f)
      BY <1>4, <3>2 DEF Waited, IsWaitFor
    <3>. HIDE DEF e
    <3>5. F[e.fence] >= e.value => F2[e.fence] >= e.value
      <4>1. CASE e.fence = f
        <5>1. F[f] <= v /\ F[f] \in Nat /\ v \in Nat
          BY <1>2, <3>4, <4>1, ValuesAreNat
        <5>. QED
          BY <1>3, <3>2, <4>1, <5>1
      <4>2. CASE e.fence # f
        BY <1>3, <3>2, <4>2
      <4>. QED
        BY <4>1, <4>2
    <3>. QED
      BY <3>3, <3>5 DEF Reached, e
  <2>. QED
    BY <2>1, <2>2 DEF Ranked
<1>9. \E r, n : n \in Nat /\ Ranked(G, d, F2, r, n)
  BY <1>1, <1>8
<1>10. Ahead(G, d, S2, F2)
  BY <1>1, <1>5, <1>6, <1>7, <1>9 DEF Ahead
<1>. QED
  BY <1>10 DEF S2, F2

\* As long as somebody waits for a fence, the tracker has a value that is between what the GPU
\* has and what is still to be signalled.
LEMMA Between ==
  ASSUME NEW G, NEW d, NEW S, NEW F, Ahead(G, d, S, F), NEW f \in Fences, Waited(G, f)
  PROVE  /\ F[f] <= S[f]
         /\ \A q \in Timelines : \A i \in 1 .. Len(G[q]) :
              i > d[q] /\ IsSignalOf(G[q][i], f) => S[f] <= G[q][i].value
<1>1. /\ Queued(G, d, S, F) /\ OneSource(G) /\ Rising(G) /\ WaitsRise(G, F) /\ SettlesAt(G, d, S, F)
  BY DEF Ahead
<1>2. /\ F[f] \in Nat
      /\ \A p \in Timelines : d[p] \in Nat /\ Len(G[p]) \in Nat /\ d[p] <= Len(G[p])
  <2>1. F[f] \in Values
    BY <1>1 DEF Queued
  <2>2. F[f] \in Nat
    BY <2>1, ValuesAreNat
  <2>. QED
    BY <1>1, <2>2 DEF Queued
<1>3. CASE S[f] = F[f]
  BY <1>1, <1>2, <1>3 DEF WaitsRise
<1>4. CASE S[f] # F[f]
  <2>1. PICK p \in Timelines : \E i \in 1 .. d[p] : IsSignalOf(G[p][i], f) /\ S[f] = G[p][i].value
    BY <1>1, <1>4 DEF SettlesAt
  <2>2. PICK i \in 1 .. d[p] : IsSignalOf(G[p][i], f) /\ S[f] = G[p][i].value
    BY <2>1
  <2>3. i \in 1 .. Len(G[p])
    BY <1>2
  <2>4. F[f] <= S[f]
    BY <1>1, <2>2, <2>3 DEF WaitsRise
  <2>5. ASSUME NEW q \in Timelines, NEW j \in 1 .. Len(G[q]), j > d[q], IsSignalOf(G[q][j], f)
        PROVE  S[f] <= G[q][j].value
    <3>1. p = q
      BY <1>1, <2>2, <2>3, <2>5 DEF OneSource
    <3>2. i < j
      BY <1>2, <2>5, <3>1
    <3>. QED
      BY <1>1, <2>2, <2>3, <2>5, <3>1, <3>2 DEF Rising
  <2>. QED
    BY <2>4, <2>5
<1>. QED
  BY <1>3, <1>4

\* ... or the GPU performs what has been done.
LEMMA TailOf ==
  ASSUME NEW G \in [Timelines -> Seq(Event)], NEW q \in Timelines, G[q] # <<>>,
         NEW G2, G2 = [G EXCEPT ![q] = Tail(@)]
  PROVE  /\ G2 \in [Timelines -> Seq(Event)]
         /\ G[q][1] \in Event /\ Head(G[q]) = G[q][1] /\ 1 \in 1 .. Len(G[q])
         /\ \A p \in Timelines : Len(G[p]) \in Nat /\ Len(G2[p]) \in Nat
         /\ Len(G2[q]) = Len(G[q]) - 1
         /\ \A p \in Timelines : p # q => G2[p] = G[p]
         /\ \A i \in 1 .. Len(G2[q]) : i \in Nat /\ i + 1 \in 1 .. Len(G[q]) /\ G2[q][i] = G[q][i + 1]
<1>1. /\ G[q] \in Seq(Event) /\ Len(G[q]) \in Nat /\ Len(G[q]) >= 1
      /\ \A p \in Timelines : Len(G[p]) \in Nat
  OBVIOUS
<1>2. /\ Tail(G[q]) \in Seq(Event) /\ Len(Tail(G[q])) = Len(G[q]) - 1
      /\ \A i \in 1 .. Len(Tail(G[q])) : Tail(G[q])[i] = G[q][i + 1]
  OBVIOUS
<1>3. /\ G2[q] = Tail(G[q]) /\ \A p \in Timelines : p # q => G2[p] = G[p]
      /\ G2 \in [Timelines -> Seq(Event)]
  BY <1>2
<1>4. \A i \in 1 .. Len(G2[q]) : i \in Nat /\ i + 1 \in 1 .. Len(G[q]) /\ G2[q][i] = G[q][i + 1]
  BY <1>1, <1>2, <1>3
<1>5. G[q][1] \in Event /\ Head(G[q]) = G[q][1] /\ 1 \in 1 .. Len(G[q])
  BY <1>1
<1>. QED
  BY <1>1, <1>2, <1>3, <1>4, <1>5

LEMMA AheadPop ==
  ASSUME NEW G, NEW d, NEW S, NEW F, Ahead(G, d, S, F), NEW q \in Timelines, d[q] >= 1
  PROVE  Ahead([G EXCEPT ![q] = Tail(@)], [d EXCEPT ![q] = @ - 1], S, AfterSignal(G[q][1], F))
<1>. DEFINE e == G[q][1]
            G2 == [G EXCEPT ![q] = Tail(@)]
            d2 == [d EXCEPT ![q] = @ - 1]
            F2 == AfterSignal(e, F)
            was(p, i) == IF p = q THEN i + 1 ELSE i
            now(p, i) == IF p = q THEN i - 1 ELSE i
<1>1. /\ Queued(G, d, S, F) /\ OneSource(G) /\ Rising(G) /\ WaitsRise(G, F) /\ SettlesAt(G, d, S, F)
      /\ \E r, n : n \in Nat /\ Ranked(G, d, F, r, n)
  BY DEF Ahead
<1>2. /\ G \in [Timelines -> Seq(Event)] /\ S \in [Fences -> Values] /\ F \in [Fences -> Values]
      /\ d \in [Timelines -> Nat]
      /\ \A p \in Timelines : d[p] \in Nat /\ Len(G[p]) \in Nat /\ d[p] <= Len(G[p])
  BY <1>1 DEF Queued
<1>3. /\ G2 \in [Timelines -> Seq(Event)] /\ e \in Event /\ 1 \in 1 .. Len(G[q])
      /\ \A p \in Timelines : Len(G2[p]) \in Nat
      /\ Len(G2[q]) = Len(G[q]) - 1 /\ \A p \in Timelines : p # q => G2[p] = G[p]
      /\ \A i \in 1 .. Len(G2[q]) : i \in Nat /\ i + 1 \in 1 .. Len(G[q]) /\ G2[q][i] = G[q][i + 1]
  <2>1. G[q] # <<>>
    BY <1>2
  <2>. QED
    BY <1>2, <2>1, TailOf
<1>4. /\ d2 \in [Timelines -> Nat] /\ d2[q] = d[q] - 1 /\ d2[q] \in Nat
      /\ \A p \in Timelines : p # q => d2[p] = d[p]
      /\ \A p \in Timelines : d2[p] \in Nat /\ d2[p] <= Len(G2[p])
  BY <1>2, <1>3
<1>5. /\ F2 \in [Fences -> Values]
      /\ \A f \in Fences : IF IsSignalOf(e, f) THEN F2[f] = e.value ELSE F2[f] = F[f]
  <2>1. CASE e.kind = "signal"
    <3>1. e.fence \in Fences /\ e.value \in Values
      BY <1>3, <2>1, EventTyped
    <3>2. F2 = [F EXCEPT ![e.fence] = e.value]
      BY <2>1 DEF AfterSignal
    <3>. HIDE DEF F2, e
    <3>. QED
      BY <1>2, <2>1, <3>1, <3>2 DEF IsSignalOf
  <2>2. CASE e.kind # "signal"
    BY <1>2, <2>2 DEF AfterSignal, IsSignalOf
  <2>. QED
    BY <2>1, <2>2
<1>. HIDE DEF e, G2, d2, F2
<1>6. \A p \in Timelines : \A i \in 1 .. Len(G2[p]) :
        was(p, i) \in 1 .. Len(G[p]) /\ G2[p][i] = G[p][was(p, i)] /\ i \in Nat
  BY <1>3
<1>7. \A p \in Timelines : \A i \in 1 .. d2[p] :
        i \in 1 .. Len(G2[p]) /\ was(p, i) \in 1 .. d[p] /\ (p = q => was(p, i) > 1)
  BY <1>2, <1>3, <1>4
<1>8. \A p \in Timelines : \A i \in 1 .. d[p] :
        (p = q /\ i = 1) \/ (now(p, i) \in 1 .. d2[p] /\ was(p, now(p, i)) = i)
  BY <1>2, <1>4
<1>9. \A p \in Timelines : \A i, j \in Nat : (j > i <=> was(p, j) > was(p, i))
  OBVIOUS
<1>10. \A p \in Timelines : \A i \in 1 .. d[p] : i \in 1 .. Len(G[p])
  BY <1>2
<1>. HIDE DEF was, now
<1>11. Queued(G2, d2, S, F2)
  BY <1>2, <1>3, <1>4, <1>5 DEF Queued
<1>12. OneSource(G2)
  <2>. SUFFICES ASSUME NEW f \in Fences, NEW p \in Timelines, NEW r \in Timelines,
                       NEW i \in 1 .. Len(G2[p]), NEW j \in 1 .. Len(G2[r]),
                       IsSignalOf(G2[p][i], f), IsSignalOf(G2[r][j], f)
                PROVE  p = r
    BY DEF OneSource
  <2>1. /\ was(p, i) \in 1 .. Len(G[p]) /\ IsSignalOf(G[p][was(p, i)], f)
        /\ was(r, j) \in 1 .. Len(G[r]) /\ IsSignalOf(G[r][was(r, j)], f)
    BY <1>6
  <2>. QED
    BY <1>1, <2>1 DEF OneSource
<1>13. Rising(G2)
  <2>. SUFFICES ASSUME NEW f \in Fences, NEW p \in Timelines,
                       NEW i \in 1 .. Len(G2[p]), NEW j \in 1 .. Len(G2[p]), i < j,
                       IsSignalOf(G2[p][i], f), IsSignalOf(G2[p][j], f)
                PROVE  G2[p][i].value <= G2[p][j].value
    BY DEF Rising
  <2>1. was(p, i) < was(p, j)
    <3>1. was(p, i) \in Nat /\ was(p, j) \in Nat /\ was(p, j) > was(p, i)
      BY <1>2, <1>6, <1>9
    <3>. QED
      BY <3>1
  <2>. QED
    BY <1>1, <1>6, <2>1 DEF Rising
<1>14. \A f \in Fences : Waited(G2, f) => Waited(G, f)
  BY <1>6 DEF Waited
<1>15. WaitsRise(G2, F2)
  <2>. SUFFICES ASSUME NEW f \in Fences, Waited(G2, f), NEW p \in Timelines,
                       NEW i \in 1 .. Len(G2[p]), IsSignalOf(G2[p][i], f)
                PROVE  F2[f] <= G2[p][i].value
    BY DEF WaitsRise
  <2>1. CASE IsSignalOf(e, f)
    <3>1. p = q
      BY <1>1, <1>3, <1>6, <2>1 DEF OneSource, e
    <3>2. 1 < was(p, i)
      BY <1>3, <3>1 DEF was
    <3>3. e.value <= G[p][was(p, i)].value
      BY <1>1, <1>3, <1>6, <2>1, <3>1, <3>2 DEF Rising, e
    <3>. QED
      BY <1>5, <1>6, <2>1, <3>3
  <2>2. CASE ~IsSignalOf(e, f)
    BY <1>1, <1>5, <1>6, <1>14, <2>2 DEF WaitsRise
  <2>. QED
    BY <2>1, <2>2
<1>16. SettlesAt(G2, d2, S, F2)
  <2>. SUFFICES ASSUME NEW f \in Fences
                PROVE  \/ /\ S[f] = F2[f]
                          /\ \A p \in Timelines : \A i \in 1 .. d2[p] : ~IsSignalOf(G2[p][i], f)
                       \/ \E p \in Timelines : \E i \in 1 .. d2[p] :
                            /\ IsSignalOf(G2[p][i], f) /\ S[f] = G2[p][i].value
                            /\ \A j \in 1 .. d2[p] : j > i => ~IsSignalOf(G2[p][j], f)
    BY DEF SettlesAt
  <2>1. CASE \A p \in Timelines : \A i \in 1 .. d[p] : ~IsSignalOf(G[p][i], f)
    <3>1. S[f] = F[f]
      BY <1>1, <2>1 DEF SettlesAt
    <3>2. 1 \in 1 .. d[q]
      BY <1>2
    <3>3. ~IsSignalOf(e, f)
      BY <2>1, <3>2 DEF e
    <3>. QED
      BY <1>5, <1>6, <1>7, <2>1, <3>1, <3>3
  <2>2. CASE ~\A p \in Timelines : \A i \in 1 .. d[p] : ~IsSignalOf(G[p][i], f)
    <3>1a. PICK p \in Timelines : \E i \in 1 .. d[p] :
             /\ IsSignalOf(G[p][i], f) /\ S[f] = G[p][i].value
             /\ \A j \in 1 .. d[p] : j > i => ~IsSignalOf(G[p][j], f)
      BY <1>1, <2>2 DEF SettlesAt
    <3>1. PICK i \in 1 .. d[p] :
             /\ IsSignalOf(G[p][i], f) /\ S[f] = G[p][i].value
             /\ \A j \in 1 .. d[p] : j > i => ~IsSignalOf(G[p][j], f)
      BY <3>1a
    <3>2. CASE p = q /\ i = 1
      <4>1. S[f] = F2[f]
        BY <1>5, <3>1, <3>2 DEF e
      <4>2. ASSUME NEW o \in Timelines, NEW j \in 1 .. d2[o], IsSignalOf(G2[o][j], f)
            PROVE  FALSE
        <5>1. IsSignalOf(G[o][was(o, j)], f) /\ was(o, j) \in 1 .. d[o]
          BY <1>6, <1>7, <4>2
        <5>2. o = q
          BY <1>1, <1>10, <3>1, <3>2, <5>1 DEF OneSource
        <5>3. was(o, j) > i
          BY <1>7, <3>2, <5>2
        <5>. QED
          BY <3>1, <3>2, <5>1, <5>2, <5>3
      <4>. QED
        BY <4>1, <4>2
    <3>3. CASE ~(p = q /\ i = 1)
      <4>1. now(p, i) \in 1 .. d2[p] /\ was(p, now(p, i)) = i /\ now(p, i) \in Nat
        BY <1>4, <1>8, <3>3
      <4>2. IsSignalOf(G2[p][now(p, i)], f) /\ S[f] = G2[p][now(p, i)].value
        BY <1>6, <1>7, <3>1, <4>1
      <4>3. ASSUME NEW j \in 1 .. d2[p], j > now(p, i), IsSignalOf(G2[p][j], f)
            PROVE  FALSE
        <5>1. IsSignalOf(G[p][was(p, j)], f) /\ was(p, j) \in 1 .. d[p] /\ j \in Nat
          BY <1>6, <1>7, <4>3
        <5>2. was(p, j) > i
          BY <1>9, <4>1, <4>3, <5>1
        <5>. QED
          BY <3>1, <5>1, <5>2
      <4>. QED
        BY <4>1, <4>2, <4>3
    <3>. QED
      BY <3>2, <3>3
  <2>. QED
    BY <2>1, <2>2
<1>17. \E r2, n2 : n2 \in Nat /\ Ranked(G2, d2, F2, r2, n2)
  <2>1. PICK r, n : n \in Nat /\ Ranked(G, d, F, r, n)
    BY <1>1
  <2>2. \A p \in Timelines : \A i \in 1 .. d[p] :
          /\ r[p][i] \in Nat /\ r[p][i] < n
          /\ \A j \in 1 .. d[p] : j < i => r[p][j] <= r[p][i]
          /\ IsWait(G[p][i]) => Reached(G, d, F, r, p, i)
    BY <2>1 DEF Ranked
  <2>. DEFINE r2 == [p \in Timelines |-> [i \in 1 .. d2[p] |-> r[p][was(p, i)]]]
  <2>3. \A p \in Timelines : \A i \in 1 .. d2[p] : r2[p][i] = r[p][was(p, i)]
    OBVIOUS
  <2>. HIDE DEF r2
  <2>4. ASSUME NEW p \in Timelines, NEW i \in 1 .. d2[p]
        PROVE  /\ r2[p][i] \in Nat /\ r2[p][i] < n
               /\ \A j \in 1 .. d2[p] : j < i => r2[p][j] <= r2[p][i]
    <3>1. r2[p][i] \in Nat /\ r2[p][i] < n
      BY <1>7, <2>2, <2>3
    <3>2. ASSUME NEW j \in 1 .. d2[p], j < i PROVE r2[p][j] <= r2[p][i]
      <4>1. i \in Nat /\ j \in Nat /\ i > j
        BY <1>4, <3>2
      <4>2. was(p, i) > was(p, j) /\ was(p, i) \in 1 .. d[p] /\ was(p, j) \in 1 .. d[p]
        BY <1>7, <1>9, <4>1
      <4>3. was(p, j) < was(p, i)
        BY <1>2, <4>2
      <4>. QED
        BY <2>2, <2>3, <4>2, <4>3
    <3>. QED
      BY <3>1, <3>2
  <2>5. ASSUME NEW p \in Timelines, NEW i \in 1 .. d2[p], IsWait(G2[p][i])
        PROVE  Reached(G2, d2, F2, r2, p, i)
    <3>. DEFINE w == G2[p][i]
                k == was(p, i)
    <3>1. /\ i \in 1 .. Len(G2[p]) /\ k \in 1 .. d[p] /\ w = G[p][k] /\ w \in Event
      BY <1>3, <1>6, <1>7
    <3>2. w.fence \in Fences /\ w.value \in Nat /\ IsWait(w)
      BY <2>5, <3>1, EventTyped DEF IsWait
    <3>3. Waited(G2, w.fence)
      BY <2>5, <3>1 DEF Waited, IsWaitFor
    <3>4. Reached(G, d, F, r, p, k)
      BY <2>2, <3>1, <3>2
    <3>5. r2[p][i] = r[p][k]
      BY <2>3
    <3>. HIDE DEF w, k
    <3>6. CASE F[w.fence] >= w.value
      <4>1. F2[w.fence] >= w.value
        <5>1. CASE IsSignalOf(e, w.fence)
          <6>1. F[w.fence] <= e.value
            BY <1>1, <1>3, <1>14, <3>2, <3>3, <5>1 DEF WaitsRise, e
          <6>2. e.value \in Nat /\ F[w.fence] \in Nat
            BY <1>2, <1>3, <3>2, <5>1, EventTyped, ValuesAreNat DEF IsSignalOf
          <6>. QED
            BY <1>5, <3>2, <3>6, <5>1, <6>1, <6>2
        <5>2. CASE ~IsSignalOf(e, w.fence)
          BY <1>5, <3>2, <3>6, <5>2
        <5>. QED
          BY <5>1, <5>2
      <4>. QED
        BY <4>1 DEF Reached, w
    <3>7. CASE ~(F[w.fence] >= w.value)
      <4>1. PICK o \in Timelines : \E j \in 1 .. d[o] :
              /\ IsSignalOf(G[o][j], w.fence) /\ G[o][j].value >= w.value /\ r[o][j] < r[p][k]
        BY <3>1, <3>4, <3>7 DEF Reached
      <4>2. PICK j \in 1 .. d[o] :
              /\ IsSignalOf(G[o][j], w.fence) /\ G[o][j].value >= w.value /\ r[o][j] < r[p][k]
        BY <4>1
      <4>3. CASE o = q /\ j = 1
        BY <1>5, <3>2, <4>2, <4>3 DEF Reached, w, e
      <4>4. CASE ~(o = q /\ j = 1)
        <5>1. now(o, j) \in 1 .. d2[o] /\ was(o, now(o, j)) = j
          BY <1>8, <4>4
        <5>2. G2[o][now(o, j)] = G[o][j] /\ r2[o][now(o, j)] = r[o][j]
          BY <1>6, <1>7, <2>3, <5>1
        <5>. QED
          BY <3>5, <4>2, <5>1, <5>2 DEF Reached, w
      <4>. QED
        BY <4>3, <4>4
    <3>. QED
      BY <3>6, <3>7
  <2>6. Ranked(G2, d2, F2, r2, n)
    BY <2>4, <2>5 DEF Ranked
  <2>. QED
    BY <2>1, <2>6
<1>18. Ahead(G2, d2, S, F2)
  BY <1>11, <1>12, <1>13, <1>15, <1>16, <1>17 DEF Ahead
<1>. QED
  BY <1>18 DEF G2, d2, F2, e

\* The GPU gets to what is done: when it can perform nothing more, nothing is left of it.
LEMMA AtRest ==
  ASSUME NEW G, NEW d, NEW S, NEW F, Ahead(G, d, S, F),
         \A q \in Timelines : ~(G[q] # <<>> /\ (IsWait(G[q][1]) => Satisfied(G[q][1], F)))
  PROVE  (\A q \in Timelines : d[q] = 0) /\ S = F
<1>1. /\ Queued(G, d, S, F) /\ SettlesAt(G, d, S, F)
      /\ \E r, n : n \in Nat /\ Ranked(G, d, F, r, n)
  BY DEF Ahead
<1>2. /\ S \in [Fences -> Values] /\ F \in [Fences -> Values]
      /\ \A p \in Timelines : d[p] \in Nat /\ d[p] <= Len(G[p])
      /\ G \in [Timelines -> Seq(Event)]
  BY <1>1 DEF Queued
<1>3. ASSUME NEW q0 \in Timelines, d[q0] # 0 PROVE FALSE
  <2>1. PICK r, n : n \in Nat /\ Ranked(G, d, F, r, n)
    BY <1>1
  <2>2. \A p \in Timelines : \A i \in 1 .. d[p] :
          /\ r[p][i] \in Nat
          /\ \A j \in 1 .. d[p] : j < i => r[p][j] <= r[p][i]
          /\ IsWait(G[p][i]) => Reached(G, d, F, r, p, i)
    BY <2>1 DEF Ranked
  <2>. DEFINE ranks == {x \in Nat : \E p \in Timelines : \E i \in 1 .. d[p] : x = r[p][i]}
  <2>3. ranks # {} /\ ranks \subseteq Nat
    <3>1. 1 \in 1 .. d[q0]
      BY <1>2, <1>3
    <3>. QED
      BY <2>2, <3>1
  <2>4. PICK x \in ranks : \A y \in ranks : x <= y
    <3>. HIDE DEF ranks
    <3>. QED
      BY <2>3, Least
  <2>5. PICK q \in Timelines : \E i \in 1 .. d[q] : x = r[q][i]
    BY <2>4
  <2>6. PICK i \in 1 .. d[q] : x = r[q][i]
    BY <2>5
  <2>7. 1 \in 1 .. d[q] /\ G[q] # <<>>
    BY <1>2
  <2>8. r[q][1] <= x
    <3>1. CASE i = 1
      BY <2>2, <2>6, <2>7, <3>1
    <3>2. CASE i # 1
      <4>1. 1 < i
        BY <3>2
      <4>. QED
        BY <2>2, <2>6, <2>7, <4>1
    <3>. QED
      BY <3>1, <3>2
  <2>9. IsWait(G[q][1]) /\ ~Satisfied(G[q][1], F)
    BY <2>7
  <2>10. ~(F[G[q][1].fence] >= G[q][1].value)
    BY <2>9 DEF Satisfied
  <2>11. PICK p \in Timelines : \E j \in 1 .. d[p] : r[p][j] < r[q][1]
    BY <2>2, <2>7, <2>9, <2>10 DEF Reached
  <2>12. PICK j \in 1 .. d[p] : r[p][j] < r[q][1]
    BY <2>11
  <2>13. r[p][j] \in ranks /\ r[p][j] \in Nat /\ r[q][1] \in Nat /\ x \in Nat
    BY <2>2, <2>4, <2>7
  <2>14. x <= r[p][j]
    BY <2>4, <2>13
  <2>. HIDE DEF ranks
  <2>. QED
    BY <2>8, <2>12, <2>13, <2>14
<1>4. \A q \in Timelines : d[q] = 0
  BY <1>3
<1>5. \A f \in Fences : S[f] = F[f]
  BY <1>1, <1>4 DEF SettlesAt
<1>. QED
  BY <1>2, <1>4, <1>5
-----------------------------------------------------------------------------
(***************************************************************************)
(* The queues of the tracker among those of the GPU.                       *)
(***************************************************************************)
Tracked(G, d, S, Q) == \E m : Matches(G, d, S, Q, m)

\* More has been done, and no fence that is waited for has been lowered.
LEMMA MatchesLater ==
  ASSUME NEW G, NEW d, NEW S, NEW F, Queued(G, d, S, F), NEW Q, NEW m, Matches(G, d, S, Q, m),
         NEW d2 \in [Timelines -> Nat], NEW S2 \in [Fences -> Values],
         \A f \in Fences : Waited(G, f) => S[f] <= S2[f],
         \A q \in Timelines :
           /\ d[q] <= d2[q] /\ d2[q] <= Len(G[q])
           /\ \A k \in d[q] + 1 .. d2[q] : Satisfied(G[q][k], S2)
  PROVE  Matches(G, d2, S2, Q, m)
<1>1. /\ G \in [Timelines -> Seq(Event)] /\ S \in [Fences -> Values]
      /\ \A p \in Timelines : d[p] \in Nat /\ d2[p] \in Nat /\ Len(G[p]) \in Nat
  BY DEF Queued
<1>2. ASSUME NEW q \in Timelines, NEW k \in 1 .. Len(G[q]), Satisfied(G[q][k], S)
      PROVE  Satisfied(G[q][k], S2)
  <2>. DEFINE e == G[q][k]
  <2>1. e \in Event /\ IsWait(e) /\ S[e.fence] >= e.value
    BY <1>1, <1>2 DEF Satisfied
  <2>2. e.fence \in Fences /\ e.value \in Nat
    BY <2>1, EventTyped DEF IsWait
  <2>3. Waited(G, e.fence)
    BY <2>1 DEF Waited, IsWaitFor
  <2>. HIDE DEF e
  <2>4. S[e.fence] <= S2[e.fence] /\ S[e.fence] \in Nat /\ S2[e.fence] \in Nat
    BY <1>1, <2>2, <2>3, ValuesAreNat
  <2>5. S2[e.fence] >= e.value
    BY <2>1, <2>2, <2>4
  <2>. QED
    BY <2>1, <2>5 DEF Satisfied, e
<1>3. ASSUME NEW q \in Queues
      PROVE  /\ \A i \in 1 .. Len(Q[q]) :
                  /\ m[q][i] \in 1 .. Len(G[q]) /\ G[q][m[q][i]] = Q[q][i]
                  /\ m[q][i] <= d2[q] => Satisfied(Q[q][i], S2)
                  /\ \A j \in 1 .. Len(Q[q]) : i < j => m[q][i] < m[q][j]
             /\ \A k \in d2[q] + 1 .. Len(G[q]) :
                  Satisfied(G[q][k], S2) \/ \E i \in 1 .. Len(Q[q]) : m[q][i] = k
  <2>0. q \in Timelines
    BY DEF Timelines
  <2>1. /\ \A i \in 1 .. Len(Q[q]) :
             /\ m[q][i] \in 1 .. Len(G[q]) /\ G[q][m[q][i]] = Q[q][i]
             /\ m[q][i] <= d[q] => Satisfied(Q[q][i], S)
             /\ \A j \in 1 .. Len(Q[q]) : i < j => m[q][i] < m[q][j]
        /\ \A k \in d[q] + 1 .. Len(G[q]) :
             Satisfied(G[q][k], S) \/ \E i \in 1 .. Len(Q[q]) : m[q][i] = k
    BY DEF Matches
  <2>2. ASSUME NEW i \in 1 .. Len(Q[q]), m[q][i] <= d2[q] PROVE Satisfied(Q[q][i], S2)
    <3>1. CASE m[q][i] <= d[q]
      BY <1>2, <2>0, <2>1, <3>1
    <3>2. CASE ~(m[q][i] <= d[q])
      <4>1. m[q][i] \in d[q] + 1 .. d2[q]
        BY <1>1, <2>0, <2>1, <2>2, <3>2
      <4>. QED
        BY <2>0, <2>1, <4>1
    <3>. QED
      BY <3>1, <3>2
  <2>3. ASSUME NEW k \in d2[q] + 1 .. Len(G[q])
        PROVE  Satisfied(G[q][k], S2) \/ \E i \in 1 .. Len(Q[q]) : m[q][i] = k
    <3>1. k \in d[q] + 1 .. Len(G[q]) /\ k \in 1 .. Len(G[q])
      BY <1>1, <2>0
    <3>. QED
      BY <1>2, <2>0, <2>1, <3>1
  <2>. QED
    BY <2>1, <2>2, <2>3
<1>. QED
  BY <1>3 DEF Matches

LEMMA RestOf ==
  ASSUME NEW s \in Seq(Event), NEW n \in Nat, Len(s) = n, NEW c \in Nat, c <= n
  PROVE  /\ SubSeq(s, c + 1, n) \in Seq(Event) /\ Len(SubSeq(s, c + 1, n)) = n - c
         /\ \A i \in 1 .. n - c : SubSeq(s, c + 1, n)[i] = s[c + i]
<1>1. /\ SubSeq(s, c + 1, n) \in Seq(Event)
      /\ Len(SubSeq(s, c + 1, n)) = IF c + 1 <= n THEN n - (c + 1) + 1 ELSE 0
      /\ \A i \in 1 .. n - (c + 1) + 1 : SubSeq(s, c + 1, n)[i] = s[(c + 1) + i - 1]
  <2>1. \A i \in c + 1 .. n : s[i] \in Event
    OBVIOUS
  <2>. QED
    BY <2>1, c + 1 \in Int, SubSeqProperties
<1>2. n - (c + 1) + 1 = n - c /\ ~(c + 1 <= n) => n - c = 0
  OBVIOUS
<1>3. \A i \in 1 .. n - c : (c + 1) + i - 1 = c + i
  OBVIOUS
<1>4. Len(SubSeq(s, c + 1, n)) = n - c
  BY <1>1
<1>5. \A i \in 1 .. n - c : SubSeq(s, c + 1, n)[i] = s[c + i]
  <2>1. n - (c + 1) + 1 = n - c
    OBVIOUS
  <2>. QED
    BY <1>1, <1>3, <2>1
<1>. QED
  BY <1>1, <1>4, <1>5

LEMMA RestOfRest ==
  ASSUME NEW s \in Seq(Event), NEW n \in Nat, Len(s) = n, NEW c \in Nat, c <= n,
         NEW k \in Nat, k <= n - c
  PROVE  SubSeq(SubSeq(s, c + 1, n), k + 1, n - c) = SubSeq(s, (c + k) + 1, n)
<1>. DEFINE t == SubSeq(s, c + 1, n)
            u == SubSeq(t, k + 1, n - c)
            w == SubSeq(s, (c + k) + 1, n)
<1>1. t \in Seq(Event) /\ Len(t) = n - c /\ \A i \in 1 .. n - c : t[i] = s[c + i]
  BY RestOf
<1>2. n - c \in Nat /\ c + k \in Nat /\ c + k <= n
  OBVIOUS
<1>3. w \in Seq(Event) /\ Len(w) = n - (c + k) /\ \A i \in 1 .. n - (c + k) : w[i] = s[c + k + i]
  BY <1>2, RestOf
<1>. HIDE DEF t, w
<1>4. u \in Seq(Event) /\ Len(u) = n - c - k /\ \A i \in 1 .. n - c - k : u[i] = t[k + i]
  BY <1>1, <1>2, RestOf
<1>. HIDE DEF u
<1>5. n - (c + k) = n - c - k
  OBVIOUS
<1>6. ASSUME NEW i \in 1 .. n - c - k PROVE u[i] = w[i]
  <2>1. k + i \in 1 .. n - c /\ c + (k + i) = c + k + i
    OBVIOUS
  <2>. QED
    BY <1>1, <1>3, <1>4, <1>5, <2>1
<1>7. u = w
  BY <1>3, <1>4, <1>5, <1>6, SeqEqual
<1>. QED
  BY <1>7 DEF t, u, w

LEMMA TailOfRest ==
  ASSUME NEW s \in Seq(Event), NEW n \in Nat, Len(s) = n, NEW c \in Nat, NEW b \in Nat,
         b = c + 1, b <= n
  PROVE  Tail(SubSeq(s, c + 1, n)) = SubSeq(s, b + 1, n)
<1>. DEFINE t == SubSeq(s, c + 1, n)
            w == SubSeq(s, b + 1, n)
<1>1. t \in Seq(Event) /\ Len(t) = n - c /\ \A i \in 1 .. n - c : t[i] = s[c + i]
  <2>1. c <= n
    OBVIOUS
  <2>. QED
    BY <2>1, RestOf
<1>2. w \in Seq(Event) /\ Len(w) = n - b /\ \A i \in 1 .. n - b : w[i] = s[b + i]
  BY RestOf
<1>. HIDE DEF t, w
<1>3. n - c \in Nat /\ n - c >= 1 /\ n - c - 1 = n - b
  OBVIOUS
<1>4. Tail(t) \in Seq(Event) /\ Len(Tail(t)) = n - b /\ \A i \in 1 .. n - b : Tail(t)[i] = t[i + 1]
  <2>1. t # <<>>
    BY <1>1, <1>3
  <2>. QED
    BY <1>1, <1>3, <2>1
<1>. DEFINE v == Tail(t)
<1>. HIDE DEF v
<1>5. v \in Seq(Event) /\ Len(v) = n - b /\ \A i \in 1 .. n - b : v[i] = t[i + 1]
  BY <1>4 DEF v
<1>6. ASSUME NEW i \in 1 .. n - b PROVE v[i] = w[i]
  <2>1. i + 1 \in 1 .. n - c /\ c + (i + 1) = b + i
    OBVIOUS
  <2>. QED
    BY <1>1, <1>2, <1>5, <2>1
<1>7. v = w
  BY <1>2, <1>5, <1>6, SeqEqual
<1>. QED
  BY <1>7 DEF t, v, w

\* What the calls have given a queue is passed as far as its waits are over.
LEMMA Settled ==
  ASSUME NEW G, NEW d, NEW S, NEW F, Ahead(G, d, S, F), NEW Q, Tracked(G, d, S, Q)
  PROVE  \E d2 : /\ Ahead(G, d2, S, F) /\ Tracked(G, d2, S, Q) /\ Held(G, d2, S)
                 /\ \A q \in Timelines :
                      /\ d[q] <= d2[q]
                      /\ Passed(SubSeq(G[q], d[q] + 1, Len(G[q])), S) = SubSeq(G[q], d2[q] + 1, Len(G[q]))
<1>1. /\ G \in [Timelines -> Seq(Event)] /\ S \in [Fences -> Values] /\ Queued(G, d, S, F)
      /\ \A p \in Timelines : d[p] \in Nat /\ d[p] <= Len(G[p]) /\ Len(G[p]) \in Nat
  BY DEF Ahead, Queued
<1>. DEFINE Stops(q, k) ==
              /\ k \in Nat /\ d[q] <= k /\ k <= Len(G[q])
              /\ \A i \in d[q] + 1 .. k : Satisfied(G[q][i], S)
              /\ k < Len(G[q]) => ~Satisfied(G[q][k + 1], S)
              /\ Passed(SubSeq(G[q], d[q] + 1, Len(G[q])), S) = SubSeq(G[q], k + 1, Len(G[q]))
<1>2. ASSUME NEW q \in Timelines PROVE \E k : Stops(q, k)
  <2>. DEFINE s == SubSeq(G[q], d[q] + 1, Len(G[q]))
              n == Len(G[q])
              c == d[q]
  <2>1. n \in Nat /\ c \in Nat /\ c <= n /\ G[q] \in Seq(Event)
    BY <1>1
  <2>2. s \in Seq(Event) /\ Len(s) = n - c /\ \A i \in 1 .. n - c : s[i] = G[q][c + i]
    BY <2>1, RestOf
  <2>3. PICK k \in 0 .. Len(s) :
          /\ \A i \in 1 .. k : Satisfied(s[i], S)
          /\ k < Len(s) => ~Satisfied(s[k + 1], S)
          /\ Passed(s, S) = SubSeq(s, k + 1, Len(s))
    <3>. HIDE DEF s
    <3>. QED
      BY <2>2, PassedPrefix
  <2>. HIDE DEF n, c
  <2>9. k \in Nat /\ k <= n - c
    BY <2>1, <2>2, <2>3
  <2>4. SubSeq(s, k + 1, Len(s)) = SubSeq(G[q], (c + k) + 1, n)
    <3>1. SubSeq(s, k + 1, n - c) = SubSeq(G[q], (c + k) + 1, n)
      <4>1. Len(G[q]) = n
        BY DEF n
      <4>2. SubSeq(SubSeq(G[q], c + 1, n), k + 1, n - c) = SubSeq(G[q], (c + k) + 1, n)
        BY <2>1, <2>9, <4>1, RestOfRest
      <4>. QED
        BY <4>2 DEF n, c
    <3>. QED
      BY <2>2, <3>1
  <2>. HIDE DEF s
  <2>5. \A i \in c + 1 .. c + k : Satisfied(G[q][i], S)
    <3>1. \A i \in c + 1 .. c + k : i - c \in 1 .. k /\ i - c \in 1 .. n - c /\ c + (i - c) = i
      BY <2>1, <2>9
    <3>. QED
      BY <2>2, <2>3, <3>1
  <2>6. c + k < n => ~Satisfied(G[q][(c + k) + 1], S)
    <3>1. ASSUME c + k < n PROVE k < Len(s) /\ k + 1 \in 1 .. n - c /\ c + (k + 1) = (c + k) + 1
      BY <2>1, <2>2, <2>9, <3>1
    <3>. QED
      BY <2>2, <2>3, <3>1
  <2>7. c + k \in Nat /\ c <= c + k /\ c + k <= n
    BY <2>1, <2>9
  <2>8. Stops(q, c + k)
    BY <2>3, <2>4, <2>5, <2>6, <2>7 DEF s, n, c
  <2>. QED
    BY <2>8
<1>. DEFINE d2 == [q \in Timelines |-> CHOOSE k : Stops(q, k)]
<1>3. \A q \in Timelines : Stops(q, d2[q])
  <2>. HIDE DEF Stops
  <2>. QED
    BY <1>2
<1>. HIDE DEF d2
<1>4. d2 \in [Timelines -> Nat]
  <2>1. d2 = [q \in Timelines |-> d2[q]]
    <3>. HIDE DEF Stops
    <3>. QED
      BY DEF d2
  <2>2. \A q \in Timelines : d2[q] \in Nat
    BY <1>3
  <2>. QED
    BY <2>1, <2>2
<1>5. Ahead(G, d2, S, F)
  BY <1>3, <1>4, AheadPass
<1>6. Held(G, d2, S)
  BY <1>3 DEF Held
<1>7. Tracked(G, d2, S, Q)
  <2>1. PICK m : Matches(G, d, S, Q, m)
    BY DEF Tracked
  <2>2. \A f \in Fences : Waited(G, f) => S[f] <= S[f]
    <3>1. \A f \in Fences : S[f] \in Nat
      BY <1>1, ValuesAreNat
    <3>. QED
      BY <3>1
  <2>3. Matches(G, d2, S, Q, m)
    BY <1>1, <1>3, <1>4, <2>1, <2>2, MatchesLater
  <2>. QED
    BY <2>3 DEF Tracked
<1>. QED
  BY <1>3, <1>5, <1>6, <1>7

\* The first event of a queue of the tracker is the next one of the GPU's queue, unless it is
\* a wait that is over.
LEMMA HeadIsNext ==
  ASSUME NEW G, NEW d, NEW S, NEW F, Queued(G, d, S, F), NEW Q \in [Queues -> Seq(Event)],
         NEW m, Matches(G, d, S, Q, m), Held(G, d, S), NEW q \in Queues
  PROVE  /\ Q[q] = <<>> => d[q] = Len(G[q])
         /\ Q[q] # <<>> /\ ~Satisfied(Q[q][1], S) =>
              /\ m[q][1] = d[q] + 1 /\ d[q] + 1 <= Len(G[q]) /\ G[q][d[q] + 1] = Q[q][1]
<1>0. q \in Timelines
  BY DEF Timelines
<1>1. d[q] \in Nat /\ Len(G[q]) \in Nat /\ d[q] <= Len(G[q]) /\ Q[q] \in Seq(Event)
  BY <1>0 DEF Queued
<1>2. /\ \A i \in 1 .. Len(Q[q]) :
           /\ m[q][i] \in 1 .. Len(G[q]) /\ G[q][m[q][i]] = Q[q][i]
           /\ m[q][i] <= d[q] => Satisfied(Q[q][i], S)
           /\ \A j \in 1 .. Len(Q[q]) : i < j => m[q][i] < m[q][j]
      /\ \A k \in d[q] + 1 .. Len(G[q]) :
           Satisfied(G[q][k], S) \/ \E i \in 1 .. Len(Q[q]) : m[q][i] = k
  BY DEF Matches
<1>3. d[q] < Len(G[q]) => \E i \in 1 .. Len(Q[q]) : m[q][i] = d[q] + 1
  <2>1. d[q] < Len(G[q]) => d[q] + 1 \in d[q] + 1 .. Len(G[q])
    BY <1>1
  <2>. QED
    BY <1>0, <1>2, <2>1 DEF Held
<1>4. ASSUME Q[q] = <<>> PROVE d[q] = Len(G[q])
  <2>1. Len(Q[q]) = 0
    BY <1>4
  <2>2. ~(d[q] < Len(G[q]))
    BY <1>3, <2>1
  <2>. QED
    BY <1>1, <2>2
<1>5. ASSUME Q[q] # <<>>, ~Satisfied(Q[q][1], S)
      PROVE  m[q][1] = d[q] + 1 /\ d[q] + 1 <= Len(G[q]) /\ G[q][d[q] + 1] = Q[q][1]
  <2>1. 1 \in 1 .. Len(Q[q])
    BY <1>1, <1>5
  <2>2. m[q][1] \in 1 .. Len(G[q]) /\ ~(m[q][1] <= d[q]) /\ G[q][m[q][1]] = Q[q][1]
    BY <1>2, <1>5, <2>1
  <2>3. d[q] < Len(G[q])
    BY <1>1, <2>2
  <2>4. PICK i \in 1 .. Len(Q[q]) : m[q][i] = d[q] + 1
    BY <1>3, <2>3
  <2>5. i = 1
    <3>1. CASE 1 < i
      <4>1. m[q][1] < d[q] + 1
        BY <1>2, <2>1, <2>4, <3>1
      <4>. QED
        BY <1>1, <2>2, <4>1
    <3>. QED
      BY <3>1
  <2>. QED
    BY <1>1, <2>2, <2>3, <2>4, <2>5
<1>. QED
  BY <1>4, <1>5

\* Doing the next event of a queue does not lower a fence that is waited for.
LEMMA DoneIsUp ==
  ASSUME NEW G, NEW d, NEW S, NEW F, Ahead(G, d, S, F), NEW q \in Timelines, d[q] + 1 <= Len(G[q]),
         NEW f \in Fences, Waited(G, f)
  PROVE  S[f] <= AfterSignal(G[q][d[q] + 1], S)[f]
<1>. DEFINE k == d[q] + 1
            e == G[q][k]
<1>1. /\ G[q] \in Seq(Event) /\ d[q] \in Nat /\ S \in [Fences -> Values]
  BY DEF Ahead, Queued
<1>2. k \in 1 .. Len(G[q]) /\ k > d[q] /\ e \in Event /\ S[f] \in Nat
  <2>1. k \in 1 .. Len(G[q]) /\ k > d[q] /\ e \in Event
    BY <1>1
  <2>2. S[f] \in Nat
    BY <1>1, ValuesAreNat
  <2>. QED
    BY <2>1, <2>2
<1>3. IsSignalOf(e, f) => S[f] <= e.value
  BY <1>2, Between
<1>. HIDE DEF e
<1>4. CASE e.kind = "signal"
  <2>1. e.fence \in Fences /\ e.value \in Values
    BY <1>2, <1>4, EventTyped
  <2>2. AfterSignal(e, S) = [S EXCEPT ![e.fence] = e.value]
    BY <1>4 DEF AfterSignal
  <2>3. S[f] <= AfterSignal(e, S)[f]
    BY <1>1, <1>2, <1>3, <1>4, <2>1, <2>2 DEF IsSignalOf
  <2>. QED
    BY <2>3 DEF e
<1>5. CASE e.kind # "signal"
  <2>1. AfterSignal(e, S) = S
    BY <1>5 DEF AfterSignal
  <2>2. S[f] <= AfterSignal(e, S)[f]
    BY <1>2, <2>1
  <2>. QED
    BY <2>2 DEF e
<1>. QED
  BY <1>4, <1>5

\* A call gives an event to the GPU and to the tracker, ...
LEMMA TrackedAppend ==
  ASSUME NEW G, NEW d, NEW S, NEW F, Queued(G, d, S, F), NEW Q \in [Queues -> Seq(Event)],
         Tracked(G, d, S, Q), NEW q \in Queues, NEW e \in Event
  PROVE  Tracked([G EXCEPT ![q] = Append(@, e)], d, S, [Q EXCEPT ![q] = Append(@, e)])
<1>. DEFINE G2 == [G EXCEPT ![q] = Append(@, e)]
            Q2 == [Q EXCEPT ![q] = Append(@, e)]
            n == Len(Q[q])
            last == Len(G[q]) + 1
<1>1. PICK m : Matches(G, d, S, Q, m)
  BY DEF Tracked
<1>2. /\ G \in [Timelines -> Seq(Event)] /\ q \in Timelines /\ \A p \in Queues : p \in Timelines
      /\ \A p \in Timelines : d[p] \in Nat /\ Len(G[p]) \in Nat /\ d[p] <= Len(G[p])
  BY DEF Queued, Timelines
<1>3. \A p \in Queues :
        /\ Len(G[p]) \in Nat /\ Len(G2[p]) = IF p = q THEN Len(G[p]) + 1 ELSE Len(G[p])
        /\ \A i \in 1 .. Len(G[p]) : i \in 1 .. Len(G2[p]) /\ G2[p][i] = G[p][i]
        /\ \A i \in 1 .. Len(G2[p]) :
             (i \in 1 .. Len(G[p])) \/ (p = q /\ i = last /\ G2[p][i] = e)
  <2>. HIDE DEF G2
  <2>. QED
    BY <1>2, AppendTo DEF G2
<1>4. last \in 1 .. Len(G2[q]) /\ G2[q][last] = e
  <2>. HIDE DEF G2
  <2>. QED
    BY <1>2, AppendTo DEF G2
<1>5. /\ Q2[q] = Append(Q[q], e) /\ \A p \in Queues : p # q => Q2[p] = Q[p]
      /\ n \in Nat /\ Len(Append(Q[q], e)) = n + 1 /\ Append(Q[q], e)[n + 1] = e
      /\ \A i \in 1 .. n : Append(Q[q], e)[i] = Q[q][i]
  OBVIOUS
<1>6. Len(Q2[q]) = n + 1 /\ Q2[q][n + 1] = e /\ \A i \in 1 .. n : Q2[q][i] = Q[q][i]
  BY <1>5
<1>. HIDE DEF G2, Q2
<1>. DEFINE m2 == [p \in Queues |-> [i \in 1 .. Len(Q2[p]) |-> IF p = q /\ i = n + 1 THEN last ELSE m[p][i]]]
<1>7. \A p \in Queues : \A i \in 1 .. Len(Q2[p]) :
        m2[p][i] = IF p = q /\ i = n + 1 THEN last ELSE m[p][i]
  OBVIOUS
<1>. HIDE DEF m2
<1>8. \A p \in Queues :
        /\ \A i \in 1 .. Len(Q[p]) :
             /\ m[p][i] \in 1 .. Len(G[p]) /\ G[p][m[p][i]] = Q[p][i]
             /\ m[p][i] <= d[p] => Satisfied(Q[p][i], S)
             /\ \A j \in 1 .. Len(Q[p]) : i < j => m[p][i] < m[p][j]
        /\ \A k \in d[p] + 1 .. Len(G[p]) :
             Satisfied(G[p][k], S) \/ \E i \in 1 .. Len(Q[p]) : m[p][i] = k
  BY <1>1 DEF Matches
<1>9. \A p \in Queues : \A i \in 1 .. Len(Q[p]) :
        i \in 1 .. Len(Q2[p]) /\ Q2[p][i] = Q[p][i] /\ m2[p][i] = m[p][i]
  <2>1. \A i \in 1 .. n : i \in 1 .. n + 1 /\ i # n + 1
    BY <1>5
  <2>. QED
    BY <1>5, <1>6, <1>7, <2>1
<1>10. \A p \in Queues : \A i \in 1 .. Len(Q2[p]) :
         i \in 1 .. Len(Q[p]) \/ (p = q /\ i = n + 1 /\ m2[p][i] = last /\ Q2[p][i] = e)
  BY <1>5, <1>6, <1>7
<1>11. n + 1 \in 1 .. Len(Q2[q]) /\ m2[q][n + 1] = last
  BY <1>5, <1>6, <1>7
<1>. HIDE DEF n, last
<1>12. ASSUME NEW p \in Queues, NEW i \in 1 .. Len(Q2[p])
       PROVE  /\ m2[p][i] \in 1 .. Len(G2[p]) /\ G2[p][m2[p][i]] = Q2[p][i]
              /\ m2[p][i] <= d[p] => Satisfied(Q2[p][i], S)
              /\ \A j \in 1 .. Len(Q2[p]) : i < j => m2[p][i] < m2[p][j]
  <2>1. CASE i \in 1 .. Len(Q[p])
    <3>1. /\ m[p][i] \in 1 .. Len(G[p]) /\ G[p][m[p][i]] = Q[p][i]
          /\ m[p][i] <= d[p] => Satisfied(Q[p][i], S)
          /\ Q2[p][i] = Q[p][i] /\ m2[p][i] = m[p][i]
      BY <1>8, <1>9, <2>1
    <3>2. m[p][i] \in 1 .. Len(G2[p]) /\ G2[p][m[p][i]] = G[p][m[p][i]]
      BY <1>3, <3>1
    <3>3. ASSUME NEW j \in 1 .. Len(Q2[p]), i < j PROVE m2[p][i] < m2[p][j]
      <4>1. CASE j \in 1 .. Len(Q[p])
        BY <1>8, <1>9, <2>1, <3>3, <4>1
      <4>2. CASE j \notin 1 .. Len(Q[p])
        BY <1>2, <1>10, <3>1, <4>2 DEF last
      <4>. QED
        BY <4>1, <4>2
    <3>. QED
      BY <3>1, <3>2, <3>3
  <2>2. CASE i \notin 1 .. Len(Q[p])
    <3>1. p = q /\ i = n + 1 /\ m2[p][i] = last /\ Q2[p][i] = e
      BY <1>10, <2>2
    <3>2. ~(last <= d[q])
      BY <1>2 DEF last
    <3>3. \A j \in 1 .. Len(Q2[p]) : ~(i < j)
      BY <1>5, <1>6, <3>1
    <3>. QED
      BY <1>4, <3>1, <3>2, <3>3
  <2>. QED
    BY <2>1, <2>2
<1>13. ASSUME NEW p \in Queues, NEW k \in d[p] + 1 .. Len(G2[p])
       PROVE  Satisfied(G2[p][k], S) \/ \E i \in 1 .. Len(Q2[p]) : m2[p][i] = k
  <2>1. k \in 1 .. Len(G2[p]) /\ d[p] + 1 <= k /\ k \in Int
    BY <1>2
  <2>2. CASE k \in 1 .. Len(G[p])
    <3>1. k \in d[p] + 1 .. Len(G[p]) /\ G2[p][k] = G[p][k]
      BY <1>2, <1>3, <2>1, <2>2
    <3>2. Satisfied(G[p][k], S) \/ \E i \in 1 .. Len(Q[p]) : m[p][i] = k
      BY <1>8, <3>1
    <3>3. ASSUME NEW i \in 1 .. Len(Q[p]), m[p][i] = k
          PROVE  \E j \in 1 .. Len(Q2[p]) : m2[p][j] = k
      BY <1>9, <3>3
    <3>. QED
      BY <3>1, <3>2, <3>3
  <2>3. CASE k \notin 1 .. Len(G[p])
    <3>1. p = q /\ k = last
      BY <1>3, <2>1, <2>3
    <3>. QED
      BY <1>11, <3>1
  <2>. QED
    BY <2>2, <2>3
<1>14. Matches(G2, d, S, Q2, m2)
  BY <1>12, <1>13 DEF Matches
<1>. QED
  BY <1>14 DEF Tracked, G2, Q2

\* ... or only to the GPU, when it is a wait that is over or no queue of the tracker, ...
LEMMA TrackedOver ==
  ASSUME NEW G, NEW d, NEW S, NEW F, Queued(G, d, S, F), NEW Q \in [Queues -> Seq(Event)],
         Tracked(G, d, S, Q), NEW q \in Timelines, NEW e \in Event,
         q \in Queues => Satisfied(e, S)
  PROVE  Tracked([G EXCEPT ![q] = Append(@, e)], d, S, Q)
<1>. DEFINE G2 == [G EXCEPT ![q] = Append(@, e)]
            last == Len(G[q]) + 1
<1>1. PICK m : Matches(G, d, S, Q, m)
  BY DEF Tracked
<1>2. /\ G \in [Timelines -> Seq(Event)] /\ \A p \in Queues : p \in Timelines
      /\ \A p \in Timelines : d[p] \in Nat /\ Len(G[p]) \in Nat /\ d[p] <= Len(G[p])
  BY DEF Queued, Timelines
<1>3. \A p \in Queues :
        /\ \A i \in 1 .. Len(G[p]) : i \in 1 .. Len(G2[p]) /\ G2[p][i] = G[p][i]
        /\ \A i \in 1 .. Len(G2[p]) :
             (i \in 1 .. Len(G[p])) \/ (p = q /\ i = last /\ G2[p][i] = e)
  <2>. HIDE DEF G2
  <2>. QED
    BY <1>2, AppendTo DEF G2
<1>. HIDE DEF G2, last
<1>4. ASSUME NEW p \in Queues
      PROVE  /\ \A i \in 1 .. Len(Q[p]) :
                  /\ m[p][i] \in 1 .. Len(G2[p]) /\ G2[p][m[p][i]] = Q[p][i]
                  /\ m[p][i] <= d[p] => Satisfied(Q[p][i], S)
                  /\ \A j \in 1 .. Len(Q[p]) : i < j => m[p][i] < m[p][j]
             /\ \A k \in d[p] + 1 .. Len(G2[p]) :
                  Satisfied(G2[p][k], S) \/ \E i \in 1 .. Len(Q[p]) : m[p][i] = k
  <2>1. /\ \A i \in 1 .. Len(Q[p]) :
             /\ m[p][i] \in 1 .. Len(G[p]) /\ G[p][m[p][i]] = Q[p][i]
             /\ m[p][i] <= d[p] => Satisfied(Q[p][i], S)
             /\ \A j \in 1 .. Len(Q[p]) : i < j => m[p][i] < m[p][j]
        /\ \A k \in d[p] + 1 .. Len(G[p]) :
             Satisfied(G[p][k], S) \/ \E i \in 1 .. Len(Q[p]) : m[p][i] = k
    BY <1>1 DEF Matches
  <2>2. ASSUME NEW k \in d[p] + 1 .. Len(G2[p])
        PROVE  Satisfied(G2[p][k], S) \/ \E i \in 1 .. Len(Q[p]) : m[p][i] = k
    <3>1. k \in 1 .. Len(G2[p]) /\ d[p] + 1 <= k /\ k \in Int
      BY <1>2
    <3>2. CASE k \in 1 .. Len(G[p])
      <4>1. k \in d[p] + 1 .. Len(G[p]) /\ G2[p][k] = G[p][k]
        BY <1>2, <1>3, <3>1, <3>2
      <4>. QED
        BY <2>1, <4>1
    <3>3. CASE k \notin 1 .. Len(G[p])
      BY <1>3, <3>1, <3>3
    <3>. QED
      BY <3>2, <3>3
  <2>. QED
    BY <1>3, <2>1, <2>2
<1>5. Matches(G2, d, S, Q, m)
  BY <1>4 DEF Matches
<1>. QED
  BY <1>5 DEF Tracked, G2

\* ... or it is done at once, since the queue of the tracker is empty, or is none.
LEMMA TrackedDone ==
  ASSUME NEW G, NEW d, NEW S, NEW F, Queued(G, d, S, F), NEW Q \in [Queues -> Seq(Event)],
         Tracked(G, d, S, Q), NEW q \in Timelines, NEW e \in Event,
         q \in Queues => Q[q] = <<>>, d[q] = Len(G[q])
  PROVE  Tracked([G EXCEPT ![q] = Append(@, e)], [d EXCEPT ![q] = @ + 1], S, Q)
<1>. DEFINE G2 == [G EXCEPT ![q] = Append(@, e)]
            d2 == [d EXCEPT ![q] = @ + 1]
            last == Len(G[q]) + 1
<1>1. PICK m : Matches(G, d, S, Q, m)
  BY DEF Tracked
<1>2. /\ G \in [Timelines -> Seq(Event)] /\ \A p \in Queues : p \in Timelines
      /\ \A p \in Timelines : d[p] \in Nat /\ Len(G[p]) \in Nat /\ d[p] <= Len(G[p])
      /\ d2[q] = d[q] + 1 /\ \A p \in Timelines : p # q => d2[p] = d[p]
  BY DEF Queued, Timelines
<1>3. /\ G2[q] = Append(G[q], e) /\ Len(G2[q]) = Len(G[q]) + 1
      /\ \A p \in Timelines : p # q => G2[p] = G[p]
  BY <1>2
<1>. HIDE DEF G2, d2, last
<1>4. ASSUME NEW p \in Queues
      PROVE  /\ \A i \in 1 .. Len(Q[p]) :
                  /\ m[p][i] \in 1 .. Len(G2[p]) /\ G2[p][m[p][i]] = Q[p][i]
                  /\ m[p][i] <= d2[p] => Satisfied(Q[p][i], S)
                  /\ \A j \in 1 .. Len(Q[p]) : i < j => m[p][i] < m[p][j]
             /\ \A k \in d2[p] + 1 .. Len(G2[p]) :
                  Satisfied(G2[p][k], S) \/ \E i \in 1 .. Len(Q[p]) : m[p][i] = k
  <2>1. CASE p = q
    <3>1. 1 .. Len(Q[p]) = {}
      BY <2>1
    <3>2. d2[p] + 1 .. Len(G2[p]) = {}
      BY <1>2, <1>3, <2>1
    <3>. QED
      BY <3>1, <3>2
  <2>2. CASE p # q
    <3>1. G2[p] = G[p] /\ d2[p] = d[p]
      BY <1>2, <1>3, <2>2
    <3>. QED
      BY <1>1, <3>1 DEF Matches
  <2>. QED
    BY <2>1, <2>2
<1>5. Matches(G2, d2, S, Q, m)
  BY <1>4 DEF Matches
<1>. QED
  BY <1>5 DEF Tracked, G2, d2

\* The loop of the tracker takes the first event of a queue: a wait that is over, ...
LEMMA TailQueue ==
  ASSUME NEW Q \in [Queues -> Seq(Event)], NEW q \in Queues, Q[q] # <<>>,
         NEW Q2, Q2 = [Q EXCEPT ![q] = Tail(@)], NEW m, NEW m2,
         m2 = [p \in Queues |-> [i \in 1 .. Len(Q2[p]) |-> IF p = q THEN m[p][i + 1] ELSE m[p][i]]]
  PROVE  /\ Q2 \in [Queues -> Seq(Event)]
         /\ 1 \in 1 .. Len(Q[q]) /\ Q[q][1] \in Event /\ Head(Q[q]) = Q[q][1]
         /\ \A p \in Queues : p # q => Q2[p] = Q[p] /\ \A i \in 1 .. Len(Q[p]) : m2[p][i] = m[p][i]
         /\ \A i \in 1 .. Len(Q2[q]) :
              /\ i \in Nat /\ i + 1 \in 1 .. Len(Q[q])
              /\ Q2[q][i] = Q[q][i + 1] /\ m2[q][i] = m[q][i + 1]
         /\ \A i \in 1 .. Len(Q[q]) :
              i = 1 \/ (i - 1 \in 1 .. Len(Q2[q]) /\ m2[q][i - 1] = m[q][i])
<1>1. /\ Q[q] \in Seq(Event) /\ Len(Q[q]) \in Nat /\ Len(Q[q]) >= 1
      /\ Tail(Q[q]) \in Seq(Event) /\ Len(Tail(Q[q])) = Len(Q[q]) - 1
      /\ \A i \in 1 .. Len(Tail(Q[q])) : Tail(Q[q])[i] = Q[q][i + 1]
      /\ Head(Q[q]) = Q[q][1]
  OBVIOUS
<1>2. /\ Q2 \in [Queues -> Seq(Event)] /\ Q2[q] = Tail(Q[q])
      /\ \A p \in Queues : p # q => Q2[p] = Q[p]
  BY <1>1
<1>3. \A p \in Queues : \A i \in 1 .. Len(Q2[p]) :
        m2[p][i] = IF p = q THEN m[p][i + 1] ELSE m[p][i]
  OBVIOUS
<1>4. 1 \in 1 .. Len(Q[q]) /\ Q[q][1] \in Event
  BY <1>1
<1>5. \A i \in 1 .. Len(Q2[q]) :
        /\ i \in Nat /\ i + 1 \in 1 .. Len(Q[q])
        /\ Q2[q][i] = Q[q][i + 1] /\ m2[q][i] = m[q][i + 1]
  BY <1>1, <1>2, <1>3
<1>6. ASSUME NEW i \in 1 .. Len(Q[q]), i # 1
      PROVE  i - 1 \in 1 .. Len(Q2[q]) /\ m2[q][i - 1] = m[q][i]
  <2>1. i - 1 \in 1 .. Len(Q2[q]) /\ (i - 1) + 1 = i
    BY <1>1, <1>2, <1>6
  <2>. QED
    BY <1>3, <2>1
<1>. QED
  BY <1>1, <1>2, <1>3, <1>4, <1>5, <1>6

LEMMA TrackedDropped ==
  ASSUME NEW G, NEW d, NEW S, NEW F, Queued(G, d, S, F), NEW Q \in [Queues -> Seq(Event)],
         Tracked(G, d, S, Q), NEW q \in Queues, Q[q] # <<>>, Satisfied(Q[q][1], S)
  PROVE  Tracked(G, d, S, [Q EXCEPT ![q] = Tail(@)])
<1>. DEFINE Q2 == [Q EXCEPT ![q] = Tail(@)]
<1>1. PICK m : Matches(G, d, S, Q, m)
  BY DEF Tracked
<1>. DEFINE m2 == [p \in Queues |-> [i \in 1 .. Len(Q2[p]) |-> IF p = q THEN m[p][i + 1] ELSE m[p][i]]]
<1>2. /\ 1 \in 1 .. Len(Q[q])
      /\ \A p \in Queues : p # q => Q2[p] = Q[p] /\ \A i \in 1 .. Len(Q[p]) : m2[p][i] = m[p][i]
      /\ \A i \in 1 .. Len(Q2[q]) :
           /\ i \in Nat /\ i + 1 \in 1 .. Len(Q[q])
           /\ Q2[q][i] = Q[q][i + 1] /\ m2[q][i] = m[q][i + 1]
      /\ \A i \in 1 .. Len(Q[q]) : i = 1 \/ (i - 1 \in 1 .. Len(Q2[q]) /\ m2[q][i - 1] = m[q][i])
  <2>. HIDE DEF Q2, m2
  <2>. QED
    BY TailQueue DEF Q2, m2
<1>. HIDE DEF Q2, m2
<1>3. ASSUME NEW p \in Queues
      PROVE  /\ \A i \in 1 .. Len(Q2[p]) :
                  /\ m2[p][i] \in 1 .. Len(G[p]) /\ G[p][m2[p][i]] = Q2[p][i]
                  /\ m2[p][i] <= d[p] => Satisfied(Q2[p][i], S)
                  /\ \A j \in 1 .. Len(Q2[p]) : i < j => m2[p][i] < m2[p][j]
             /\ \A k \in d[p] + 1 .. Len(G[p]) :
                  Satisfied(G[p][k], S) \/ \E i \in 1 .. Len(Q2[p]) : m2[p][i] = k
  <2>1. /\ \A i \in 1 .. Len(Q[p]) :
             /\ m[p][i] \in 1 .. Len(G[p]) /\ G[p][m[p][i]] = Q[p][i]
             /\ m[p][i] <= d[p] => Satisfied(Q[p][i], S)
             /\ \A j \in 1 .. Len(Q[p]) : i < j => m[p][i] < m[p][j]
        /\ \A k \in d[p] + 1 .. Len(G[p]) :
             Satisfied(G[p][k], S) \/ \E i \in 1 .. Len(Q[p]) : m[p][i] = k
    BY <1>1 DEF Matches
  <2>2. CASE p = q
    <3>1. ASSUME NEW i \in 1 .. Len(Q2[p])
          PROVE  /\ m2[p][i] \in 1 .. Len(G[p]) /\ G[p][m2[p][i]] = Q2[p][i]
                 /\ m2[p][i] <= d[p] => Satisfied(Q2[p][i], S)
      <4>1. i + 1 \in 1 .. Len(Q[p]) /\ Q2[p][i] = Q[p][i + 1] /\ m2[p][i] = m[p][i + 1]
        BY <1>2, <2>2
      <4>. QED
        BY <2>1, <4>1
    <3>2. ASSUME NEW i \in 1 .. Len(Q2[p]), NEW j \in 1 .. Len(Q2[p]), i < j
          PROVE  m2[p][i] < m2[p][j]
      <4>1. i + 1 \in 1 .. Len(Q[q]) /\ j + 1 \in 1 .. Len(Q[q]) /\ i + 1 < j + 1
        BY <1>2, <2>2, <3>2
      <4>. QED
        BY <1>2, <2>1, <2>2, <4>1
    <3>3. ASSUME NEW k \in d[p] + 1 .. Len(G[p])
          PROVE  Satisfied(G[p][k], S) \/ \E i \in 1 .. Len(Q2[p]) : m2[p][i] = k
      <4>1. CASE Satisfied(G[p][k], S)
        BY <4>1
      <4>2. CASE ~Satisfied(G[p][k], S)
        <5>1. PICK i \in 1 .. Len(Q[p]) : m[p][i] = k
          BY <2>1, <4>2
        <5>2. i # 1
          BY <1>2, <2>1, <2>2, <4>2, <5>1
        <5>. QED
          BY <1>2, <2>2, <5>1, <5>2
      <4>. QED
        BY <4>1, <4>2
    <3>. QED
      BY <3>1, <3>2, <3>3
  <2>3. CASE p # q
    <3>1. Q2[p] = Q[p] /\ \A i \in 1 .. Len(Q[p]) : m2[p][i] = m[p][i]
      BY <1>2, <2>3
    <3>2. \A k : (\E i \in 1 .. Len(Q[p]) : m[p][i] = k) => \E i \in 1 .. Len(Q[p]) : m2[p][i] = k
      BY <3>1
    <3>. QED
      BY <2>1, <3>1, <3>2
  <2>. QED
    BY <2>2, <2>3
<1>4. Matches(G, d, S, Q2, m2)
  BY <1>3 DEF Matches
<1>. QED
  BY <1>4 DEF Tracked, Q2

\* ... or the next event that is to be done.
LEMMA TrackedTaken ==
  ASSUME NEW G, NEW d, NEW S, NEW F, Ahead(G, d, S, F), NEW Q \in [Queues -> Seq(Event)],
         Tracked(G, d, S, Q), Held(G, d, S), NEW q \in Queues, Q[q] # <<>>, ~IsWait(Q[q][1])
  PROVE  /\ d[q] + 1 <= Len(G[q]) /\ G[q][d[q] + 1] = Q[q][1]
         /\ Tracked(G, [d EXCEPT ![q] = @ + 1], AfterSignal(Q[q][1], S), [Q EXCEPT ![q] = Tail(@)])
<1>. DEFINE e == Q[q][1]
            Q2 == [Q EXCEPT ![q] = Tail(@)]
            d2 == [d EXCEPT ![q] = @ + 1]
            S2 == AfterSignal(e, S)
<1>0. /\ Queued(G, d, S, F) /\ q \in Timelines /\ \A p \in Queues : p \in Timelines
      /\ G \in [Timelines -> Seq(Event)] /\ S \in [Fences -> Values]
  BY DEF Ahead, Queued, Timelines
<1>1. PICK m : Matches(G, d, S, Q, m)
  BY DEF Tracked
<1>2. ~Satisfied(e, S)
  BY DEF Satisfied
<1>3. m[q][1] = d[q] + 1 /\ d[q] + 1 <= Len(G[q]) /\ G[q][d[q] + 1] = e
  <2>1. Q[q] # <<>> /\ ~Satisfied(Q[q][1], S) =>
          m[q][1] = d[q] + 1 /\ d[q] + 1 <= Len(G[q]) /\ G[q][d[q] + 1] = Q[q][1]
    <3>1. Queued(G, d, S, F)
      BY <1>0
    <3>. QED
      BY ONLY <1>1, <3>1, HeadIsNext, Held(G, d, S), q \in Queues, Q \in [Queues -> Seq(Event)]
  <2>. QED
    BY <1>2, <2>1
<1>. DEFINE m2 == [p \in Queues |-> [i \in 1 .. Len(Q2[p]) |-> IF p = q THEN m[p][i + 1] ELSE m[p][i]]]
<1>4. /\ 1 \in 1 .. Len(Q[q])
      /\ \A p \in Queues : p # q => Q2[p] = Q[p] /\ \A i \in 1 .. Len(Q[p]) : m2[p][i] = m[p][i]
      /\ \A i \in 1 .. Len(Q2[q]) :
           /\ i \in Nat /\ i + 1 \in 1 .. Len(Q[q])
           /\ Q2[q][i] = Q[q][i + 1] /\ m2[q][i] = m[q][i + 1]
      /\ \A i \in 1 .. Len(Q[q]) : i = 1 \/ (i - 1 \in 1 .. Len(Q2[q]) /\ m2[q][i - 1] = m[q][i])
  <2>. HIDE DEF Q2, m2
  <2>. QED
    BY TailQueue DEF Q2, m2
<1>5. Ahead(G, d2, S2, F)
  BY <1>0, <1>3, AheadDo
<1>6. /\ d2[q] = d[q] + 1 /\ \A p \in Timelines : p # q => d2[p] = d[p]
      /\ \A p \in Timelines : d[p] \in Nat /\ Len(G[p]) \in Nat
  BY <1>0 DEF Queued
<1>7. S2 \in [Fences -> Values]
  <2>. HIDE DEF S2
  <2>. QED
    BY <1>5 DEF Ahead, Queued
<1>8. \A f \in Fences : Waited(G, f) => S[f] <= S2[f]
  BY <1>0, <1>3, DoneIsUp
<1>. HIDE DEF Q2, m2, d2, S2, e
<1>9. ASSUME NEW p \in Timelines, NEW k \in 1 .. Len(G[p]), Satisfied(G[p][k], S)
      PROVE  Satisfied(G[p][k], S2)
  <2>. DEFINE w == G[p][k]
  <2>1. w \in Event /\ IsWait(w) /\ S[w.fence] >= w.value
    BY <1>0, <1>9 DEF Satisfied
  <2>2. w.fence \in Fences /\ w.value \in Nat
    BY <2>1, EventTyped DEF IsWait
  <2>3. Waited(G, w.fence)
    BY <2>1 DEF Waited, IsWaitFor
  <2>. HIDE DEF w
  <2>4. S[w.fence] <= S2[w.fence] /\ S[w.fence] \in Nat /\ S2[w.fence] \in Nat
    BY <1>0, <1>7, <1>8, <2>2, <2>3, ValuesAreNat
  <2>5. S2[w.fence] >= w.value
    BY <2>1, <2>2, <2>4
  <2>. QED
    BY <2>1, <2>5 DEF Satisfied, w
<1>10. ASSUME NEW p \in Queues
       PROVE  /\ \A i \in 1 .. Len(Q2[p]) :
                   /\ m2[p][i] \in 1 .. Len(G[p]) /\ G[p][m2[p][i]] = Q2[p][i]
                   /\ m2[p][i] <= d2[p] => Satisfied(Q2[p][i], S2)
                   /\ \A j \in 1 .. Len(Q2[p]) : i < j => m2[p][i] < m2[p][j]
              /\ \A k \in d2[p] + 1 .. Len(G[p]) :
                   Satisfied(G[p][k], S2) \/ \E i \in 1 .. Len(Q2[p]) : m2[p][i] = k
  <2>0. p \in Timelines
    BY <1>0
  <2>1. /\ \A i \in 1 .. Len(Q[p]) :
             /\ m[p][i] \in 1 .. Len(G[p]) /\ G[p][m[p][i]] = Q[p][i]
             /\ m[p][i] <= d[p] => Satisfied(Q[p][i], S)
             /\ \A j \in 1 .. Len(Q[p]) : i < j => m[p][i] < m[p][j]
        /\ \A k \in d[p] + 1 .. Len(G[p]) :
             Satisfied(G[p][k], S) \/ \E i \in 1 .. Len(Q[p]) : m[p][i] = k
    BY <1>1 DEF Matches
  <2>2. CASE p = q
    <3>1. ASSUME NEW i \in 1 .. Len(Q2[p])
          PROVE  /\ m2[p][i] \in 1 .. Len(G[p]) /\ G[p][m2[p][i]] = Q2[p][i]
                 /\ ~(m2[p][i] <= d2[p])
      <4>1. i \in Nat /\ i + 1 \in 1 .. Len(Q[q]) /\ m2[p][i] = m[q][i + 1] /\ 1 < i + 1
        BY <1>4, <2>2
      <4>2. m[q][1] < m[q][i + 1]
        BY <1>4, <2>1, <2>2, <4>1
      <4>3. m2[p][i] \in 1 .. Len(G[p]) /\ G[p][m2[p][i]] = Q2[p][i]
        BY <1>4, <2>1, <2>2, <4>1
      <4>4. m2[p][i] \in Int /\ d[q] + 1 < m2[p][i] /\ d2[p] = d[q] + 1 /\ d[q] \in Nat
        BY <1>0, <1>3, <1>6, <2>2, <4>1, <4>2, <4>3
      <4>. QED
        BY <4>3, <4>4
    <3>2. ASSUME NEW i \in 1 .. Len(Q2[p]), NEW j \in 1 .. Len(Q2[p]), i < j
          PROVE  m2[p][i] < m2[p][j]
      <4>1. i + 1 \in 1 .. Len(Q[q]) /\ j + 1 \in 1 .. Len(Q[q]) /\ i + 1 < j + 1
        BY <1>4, <2>2, <3>2
      <4>. QED
        BY <1>4, <2>1, <2>2, <4>1
    <3>3. ASSUME NEW k \in d2[p] + 1 .. Len(G[p]), ~Satisfied(G[p][k], S2)
          PROVE  \E i \in 1 .. Len(Q2[p]) : m2[p][i] = k
      <4>1. k \in d[p] + 1 .. Len(G[p]) /\ k # d[p] + 1 /\ k \in 1 .. Len(G[p])
        BY <1>6, <2>0, <2>2
      <4>2. ~Satisfied(G[p][k], S)
        BY <1>9, <2>0, <3>3, <4>1
      <4>3. PICK i \in 1 .. Len(Q[p]) : m[p][i] = k
        BY <2>1, <4>1, <4>2
      <4>4. i # 1
        BY <1>3, <2>2, <4>1, <4>3
      <4>. QED
        BY <1>4, <2>2, <4>3, <4>4
    <3>. QED
      BY <3>1, <3>2, <3>3
  <2>3. CASE p # q
    <3>1. Q2[p] = Q[p] /\ d2[p] = d[p] /\ \A i \in 1 .. Len(Q[p]) : m2[p][i] = m[p][i]
      BY <1>4, <1>6, <2>0, <2>3
    <3>2. \A k \in d[p] + 1 .. Len(G[p]) : k \in 1 .. Len(G[p])
      BY <1>6, <2>0
    <3>3. \A k \in d[p] + 1 .. Len(G[p]) : Satisfied(G[p][k], S) => Satisfied(G[p][k], S2)
      BY <1>9, <2>0, <3>2
    <3>4. \A i \in 1 .. Len(Q[p]) : Satisfied(Q[p][i], S) => Satisfied(Q[p][i], S2)
      BY <1>9, <2>0, <2>1
    <3>5. \A i \in 1 .. Len(Q2[p]) :
            /\ m2[p][i] \in 1 .. Len(G[p]) /\ G[p][m2[p][i]] = Q2[p][i]
            /\ m2[p][i] <= d2[p] => Satisfied(Q2[p][i], S2)
      BY <2>1, <3>1, <3>4
    <3>6. \A i \in 1 .. Len(Q2[p]) : \A j \in 1 .. Len(Q2[p]) : i < j => m2[p][i] < m2[p][j]
      BY <2>1, <3>1
    <3>7. ASSUME NEW k \in d2[p] + 1 .. Len(G[p])
          PROVE  Satisfied(G[p][k], S2) \/ \E i \in 1 .. Len(Q2[p]) : m2[p][i] = k
      <4>1. k \in d[p] + 1 .. Len(G[p])
        BY <3>1
      <4>2. Satisfied(G[p][k], S) \/ \E i \in 1 .. Len(Q[p]) : m[p][i] = k
        BY <2>1, <4>1
      <4>. QED
        BY <3>1, <3>3, <4>1, <4>2
    <3>. HIDE DEF Q2, m2, d2, S2
    <3>. QED
      BY <3>5, <3>6, <3>7
  <2>. QED
    BY <2>2, <2>3
<1>11. Matches(G, d2, S2, Q2, m2)
  BY <1>10 DEF Matches
<1>. QED
  BY <1>3, <1>11 DEF Tracked, Q2, d2, S2, e

\* The GPU performs the first event of a queue, which is none of the tracker's any more.
LEMMA TrackedPop ==
  ASSUME NEW G, NEW d, NEW S, NEW F, Queued(G, d, S, F), NEW Q \in [Queues -> Seq(Event)],
         Tracked(G, d, S, Q), NEW q \in Timelines, d[q] >= 1,
         q \in Queues /\ Q[q] # <<>> => ~Satisfied(Q[q][1], S)
  PROVE  Tracked([G EXCEPT ![q] = Tail(@)], [d EXCEPT ![q] = @ - 1], S, Q)
<1>. DEFINE G2 == [G EXCEPT ![q] = Tail(@)]
            d2 == [d EXCEPT ![q] = @ - 1]
<1>0. /\ G \in [Timelines -> Seq(Event)] /\ \A p \in Queues : p \in Timelines
      /\ \A p \in Timelines : d[p] \in Nat /\ d[p] <= Len(G[p]) /\ Len(G[p]) \in Nat
  BY DEF Queued, Timelines
<1>1. PICK m : Matches(G, d, S, Q, m)
  BY DEF Tracked
<1>2. /\ Len(G2[q]) = Len(G[q]) - 1
      /\ \A p \in Timelines : p # q => G2[p] = G[p]
      /\ \A i \in 1 .. Len(G2[q]) : i \in Nat /\ i + 1 \in 1 .. Len(G[q]) /\ G2[q][i] = G[q][i + 1]
  <2>1. G[q] # <<>>
    BY <1>0
  <2>. HIDE DEF G2
  <2>. QED
    BY <1>0, <2>1, TailOf DEF G2
<1>3. d2[q] = d[q] - 1 /\ \A p \in Timelines : p # q => d2[p] = d[p]
  BY DEF Queued
<1>. HIDE DEF G2, d2
<1>. DEFINE m2 == [p \in Queues |-> [i \in 1 .. Len(Q[p]) |-> IF p = q THEN m[p][i] - 1 ELSE m[p][i]]]
<1>4. \A p \in Queues : \A i \in 1 .. Len(Q[p]) : m2[p][i] = IF p = q THEN m[p][i] - 1 ELSE m[p][i]
  OBVIOUS
<1>. HIDE DEF m2
<1>5. ASSUME NEW p \in Queues
      PROVE  /\ \A i \in 1 .. Len(Q[p]) :
                  /\ m2[p][i] \in 1 .. Len(G2[p]) /\ G2[p][m2[p][i]] = Q[p][i]
                  /\ m2[p][i] <= d2[p] => Satisfied(Q[p][i], S)
                  /\ \A j \in 1 .. Len(Q[p]) : i < j => m2[p][i] < m2[p][j]
             /\ \A k \in d2[p] + 1 .. Len(G2[p]) :
                  Satisfied(G2[p][k], S) \/ \E i \in 1 .. Len(Q[p]) : m2[p][i] = k
  <2>0. p \in Timelines /\ Len(Q[p]) \in Nat
    BY <1>0
  <2>1. /\ \A i \in 1 .. Len(Q[p]) :
             /\ m[p][i] \in 1 .. Len(G[p]) /\ G[p][m[p][i]] = Q[p][i]
             /\ m[p][i] <= d[p] => Satisfied(Q[p][i], S)
             /\ \A j \in 1 .. Len(Q[p]) : i < j => m[p][i] < m[p][j]
        /\ \A k \in d[p] + 1 .. Len(G[p]) :
             Satisfied(G[p][k], S) \/ \E i \in 1 .. Len(Q[p]) : m[p][i] = k
    BY <1>1 DEF Matches
  <2>2. CASE p = q
    <3>1. ASSUME NEW i \in 1 .. Len(Q[p]) PROVE m[q][i] > 1 /\ m[q][i] \in Int
      <4>0. 1 \in 1 .. Len(Q[p]) /\ Q[p] # <<>> /\ 1 <= i /\ i \in Int
        <5>1. Q[p] # <<>>
          OBVIOUS
        <5>. QED
          BY <2>0, <5>1
      <4>1. m[q][1] \in 1 .. Len(G[q]) /\ ~(m[q][1] <= d[q])
        BY <2>1, <2>2, <4>0
      <4>2. m[q][1] > 1 /\ m[q][1] \in Int
        BY <1>0, <4>1
      <4>3. i = 1 \/ m[q][1] < m[q][i]
        BY <2>1, <2>2, <4>0
      <4>4. m[q][i] \in Int
        BY <2>1, <2>2
      <4>. QED
        BY <4>2, <4>3, <4>4
    <3>2. ASSUME NEW i \in 1 .. Len(Q[p])
          PROVE  /\ m2[p][i] \in 1 .. Len(G2[p]) /\ G2[p][m2[p][i]] = Q[p][i]
                 /\ m2[p][i] <= d2[p] => Satisfied(Q[p][i], S)
      <4>0. q \in Timelines /\ Len(G[q]) \in Nat
        BY <1>0
      <4>1. m2[p][i] = m[q][i] - 1 /\ m[q][i] \in 1 .. Len(G[q]) /\ m[q][i] > 1
        <5>1. m2[p][i] = m[q][i] - 1
          BY <1>4, <2>2
        <5>2. m[q][i] \in 1 .. Len(G[q])
          BY <2>1, <2>2
        <5>. QED
          BY <3>1, <5>1, <5>2
      <4>2. m2[p][i] \in 1 .. Len(G2[p]) /\ m2[p][i] + 1 = m[q][i]
        <5>1. Len(G2[p]) = Len(G[q]) - 1
          BY <1>2, <2>2
        <5>. QED
          BY ONLY <4>0, <4>1, <5>1
      <4>3. G2[p][m2[p][i]] = Q[p][i]
        <5>1. G2[q][m2[p][i]] = G[q][m2[p][i] + 1]
          BY <1>2, <2>2, <4>2
        <5>. QED
          BY <2>1, <2>2, <4>2, <5>1
      <4>4. m2[p][i] <= d2[p] => m[q][i] <= d[q]
        BY <1>0, <1>3, <2>2, <4>1
      <4>. QED
        BY <2>1, <2>2, <4>2, <4>3, <4>4
    <3>3. ASSUME NEW i \in 1 .. Len(Q[p]), NEW j \in 1 .. Len(Q[p]), i < j
          PROVE  m2[p][i] < m2[p][j]
      <4>1. m[q][i] < m[q][j]
        BY <2>1, <2>2, <3>3
      <4>. QED
        BY <1>4, <2>2, <3>1, <4>1
    <3>4. ASSUME NEW k \in d2[p] + 1 .. Len(G2[p])
          PROVE  Satisfied(G2[p][k], S) \/ \E i \in 1 .. Len(Q[p]) : m2[p][i] = k
      <4>1. k \in 1 .. Len(G2[q]) /\ k + 1 \in d[q] + 1 .. Len(G[q]) /\ k \in Int
        BY <1>0, <1>2, <1>3, <2>2
      <4>2. G2[p][k] = G[q][k + 1]
        BY <1>2, <2>2, <4>1
      <4>3. Satisfied(G[q][k + 1], S) \/ \E i \in 1 .. Len(Q[p]) : m[p][i] = k + 1
        BY <2>1, <2>2, <4>1
      <4>4. ASSUME NEW i \in 1 .. Len(Q[p]), m[p][i] = k + 1
            PROVE  m2[p][i] = k
        <5>1. m2[p][i] = m[p][i] - 1
          BY <1>4, <2>2
        <5>. QED
          BY <4>1, <4>4, <5>1
      <4>. QED
        BY <4>2, <4>3, <4>4
    <3>. QED
      BY <3>2, <3>3, <3>4
  <2>3. CASE p # q
    <3>1. G2[p] = G[p] /\ d2[p] = d[p] /\ \A i \in 1 .. Len(Q[p]) : m2[p][i] = m[p][i]
      BY <1>2, <1>3, <1>4, <2>0, <2>3
    <3>2. \A k : (\E i \in 1 .. Len(Q[p]) : m[p][i] = k) => \E i \in 1 .. Len(Q[p]) : m2[p][i] = k
      BY <3>1
    <3>. QED
      BY <2>1, <3>1, <3>2
  <2>. QED
    BY <2>2, <2>3
<1>6. Matches(G2, d2, S, Q, m2)
  BY <1>5 DEF Matches
<1>. QED
  BY <1>6 DEF Tracked, G2, d2
-----------------------------------------------------------------------------
(***************************************************************************)
(* The GPU follows the tracker: G is what it has still to do, I what the   *)
(* calls have issued, Q the queues and S the fences of the tracker.        *)
(***************************************************************************)
FollowsAt(G, d, S, F, Q, I) ==
  /\ Ahead(G, d, S, F) /\ Tracked(G, d, S, Q) /\ Held(G, d, S)
  /\ d[Paging] = Len(G[Paging])
  /\ \A q \in Queues : I[q] = SubSeq(G[q], d[q] + 1, Len(G[q]))
Follows(G, S, F, Q, I) == \E d : FollowsAt(G, d, S, F, Q, I)

\* What is left of the issued events, and the queues with one event more or less.
SettledBy(X, S) == [q \in Queues |-> Passed(X[q], S)]
TypedQueues(Q) == Q \in [Queues -> Seq(Event)]
Given(G, q, e) == [G EXCEPT ![q] = Append(@, e)]
Without(G, q) == [G EXCEPT ![q] = Tail(@)]
Taken(I, q) == [I EXCEPT ![q] = Performed(@)]
Raised(F, f, v) == [F EXCEPT ![f] = v]

LEMMA FollowsTyped ==
  ASSUME NEW G, NEW d, NEW S, NEW F, NEW Q, NEW I, FollowsAt(G, d, S, F, Q, I)
  PROVE  /\ Queued(G, d, S, F) /\ Paging \in Timelines /\ \A q \in Queues : q \in Timelines
         /\ G \in [Timelines -> Seq(Event)] /\ S \in [Fences -> Values] /\ F \in [Fences -> Values]
         /\ \A q \in Timelines :
              /\ G[q] \in Seq(Event) /\ Len(G[q]) \in Nat /\ d[q] \in Nat /\ d[q] <= Len(G[q])
BY DEF FollowsAt, Ahead, Queued, Timelines

\* Once the issued events are settled.
LEMMA FollowsSettled ==
  ASSUME NEW G, NEW d, NEW S, NEW F, NEW Q, Ahead(G, d, S, F), Tracked(G, d, S, Q),
         d[Paging] = Len(G[Paging]), NEW X,
         \A q \in Queues : X[q] = SubSeq(G[q], d[q] + 1, Len(G[q]))
  PROVE  /\ SettledBy(X, S) \in [Queues -> Seq(Event)]
         /\ Follows(G, S, F, Q, SettledBy(X, S))
<1>. DEFINE I == SettledBy(X, S)
<1>1. PICK d2 : /\ Ahead(G, d2, S, F) /\ Tracked(G, d2, S, Q) /\ Held(G, d2, S)
                /\ \A q \in Timelines :
                     /\ d[q] <= d2[q]
                     /\ Passed(SubSeq(G[q], d[q] + 1, Len(G[q])), S) = SubSeq(G[q], d2[q] + 1, Len(G[q]))
  BY Settled
<1>2. /\ \A q \in Queues : q \in Timelines
      /\ \A q \in Timelines : /\ G[q] \in Seq(Event) /\ Len(G[q]) \in Nat
                              /\ d2[q] \in Nat /\ d2[q] <= Len(G[q])
      /\ d2[Paging] = Len(G[Paging])
  <2>1. \A q \in Timelines : /\ G[q] \in Seq(Event) /\ Len(G[q]) \in Nat
                             /\ d2[q] \in Nat /\ d2[q] <= Len(G[q])
    BY <1>1 DEF Ahead, Queued
  <2>2. Paging \in Timelines /\ \A q \in Queues : q \in Timelines
    BY DEF Timelines
  <2>3. d[Paging] <= d2[Paging]
    BY <1>1, <2>2
  <2>. QED
    BY <2>1, <2>2, <2>3
<1>3. \A q \in Queues : I[q] = SubSeq(G[q], d2[q] + 1, Len(G[q]))
  BY <1>1, <1>2 DEF SettledBy
<1>4. \A q \in Queues : I[q] \in Seq(Event)
  <2>. HIDE DEF I
  <2>. QED
    BY <1>2, <1>3, RestOf
<1>5. I \in [Queues -> Seq(Event)]
  BY <1>4 DEF SettledBy
<1>. HIDE DEF I
<1>6. FollowsAt(G, d2, S, F, Q, I)
  BY <1>1, <1>2, <1>3 DEF FollowsAt
<1>. QED
  BY <1>5, <1>6 DEF Follows, I

LEMMA PassedNone ==
  ASSUME NEW s \in Seq(Event), NEW value, s = <<>> \/ ~Satisfied(s[1], value)
  PROVE  Passed(s, value) = s
<1>1. PICK k \in 0 .. Len(s) : /\ \A i \in 1 .. k : Satisfied(s[i], value)
                               /\ Passed(s, value) = SubSeq(s, k + 1, Len(s))
  BY PassedPrefix
<1>2. k = 0
  <2>1. CASE s = <<>>
    BY <2>1
  <2>2. CASE s # <<>>
    <3>1. k # 0 => 1 \in 1 .. k
      OBVIOUS
    <3>. QED
      BY <1>1, <2>2, <3>1
  <2>. QED
    BY <2>1, <2>2
<1>3. PICK n \in Nat : n = Len(s)
  OBVIOUS
<1>4. /\ SubSeq(s, 0 + 1, n) \in Seq(Event) /\ Len(SubSeq(s, 0 + 1, n)) = n - 0
      /\ \A i \in 1 .. n - 0 : SubSeq(s, 0 + 1, n)[i] = s[0 + i]
  <2>1. 0 \in Nat /\ 0 <= n
    OBVIOUS
  <2>. QED
    BY <1>3, <2>1, RestOf
<1>5. \A i \in 1 .. n : SubSeq(s, 0 + 1, n)[i] = s[i]
  <2>1. n - 0 = n /\ \A i \in 1 .. n : 0 + i = i
    OBVIOUS
  <2>. QED
    BY <1>4, <2>1
<1>6. SubSeq(s, 0 + 1, n) = s
  <2>1. Len(SubSeq(s, 0 + 1, n)) = n
    BY <1>4
  <2>. QED
    BY <1>3, <1>4, <1>5, <2>1, SeqEqual
<1>. QED
  BY <1>1, <1>2, <1>3, <1>6

\* What is issued begins with the first event that is not done.
LEMMA IssuedHead ==
  ASSUME NEW G, NEW d, NEW S, NEW F, NEW Q, NEW I, FollowsAt(G, d, S, F, Q, I), NEW q \in Queues
  PROVE  /\ I[q] \in Seq(Event) /\ Len(I[q]) = Len(G[q]) - d[q]
         /\ d[q] < Len(G[q]) => I[q] # <<>> /\ I[q][1] = G[q][d[q] + 1]
         /\ d[q] = Len(G[q]) => I[q] = <<>>
<1>1. PICK n \in Nat, c \in Nat : n = Len(G[q]) /\ c = d[q] /\ c <= n /\ G[q] \in Seq(Event)
  BY FollowsTyped
<1>2. I[q] = SubSeq(G[q], c + 1, n)
  BY <1>1 DEF FollowsAt
<1>3. I[q] \in Seq(Event) /\ Len(I[q]) = n - c /\ \A i \in 1 .. n - c : I[q][i] = G[q][c + i]
  <2>1. Len(G[q]) = n /\ G[q] \in Seq(Event) /\ c <= n
    BY <1>1
  <2>2. /\ SubSeq(G[q], c + 1, n) \in Seq(Event) /\ Len(SubSeq(G[q], c + 1, n)) = n - c
        /\ \A i \in 1 .. n - c : SubSeq(G[q], c + 1, n)[i] = G[q][c + i]
    BY <2>1, RestOf
  <2>. QED
    BY <1>2, <2>2
<1>4. c < n => 1 \in 1 .. n - c /\ n - c # 0
  OBVIOUS
<1>5. c = n => Len(I[q]) = 0
  BY <1>3
<1>. QED
  BY <1>1, <1>3, <1>4, <1>5

LEMMA FollowsIsSettled ==
  ASSUME NEW G, NEW S, NEW F, NEW Q, NEW I, Follows(G, S, F, Q, I), I \in [Queues -> Seq(Event)]
  PROVE  SettledBy(I, S) = I
<1>1. PICK d : FollowsAt(G, d, S, F, Q, I)
  BY DEF Follows
<1>2. ASSUME NEW q \in Queues PROVE Passed(I[q], S) = I[q]
  <2>0. q \in Timelines /\ d[q] \in Nat /\ Len(G[q]) \in Nat /\ d[q] <= Len(G[q])
    BY <1>1, FollowsTyped
  <2>1. CASE d[q] = Len(G[q])
    <3>1. I[q] \in Seq(Event) /\ I[q] = <<>>
      BY <1>1, <2>1, IssuedHead
    <3>. QED
      BY <3>1, PassedNone
  <2>2. CASE d[q] < Len(G[q])
    <3>1. I[q] \in Seq(Event) /\ I[q][1] = G[q][d[q] + 1]
      BY <1>1, <2>2, IssuedHead
    <3>2. ~Satisfied(I[q][1], S)
      BY <1>1, <2>0, <2>2, <3>1 DEF FollowsAt, Held
    <3>. QED
      BY <3>1, <3>2, PassedNone
  <2>. QED
    BY <2>0, <2>1, <2>2
<1>. QED
  BY <1>2 DEF SettledBy

LEMMA RestOfMore ==
  ASSUME NEW s \in Seq(Event), NEW c \in Nat, c <= Len(s), NEW e \in Event
  PROVE  SubSeq(Append(s, e), c + 1, Len(Append(s, e))) = Append(SubSeq(s, c + 1, Len(s)), e)
<1>1. PICK n \in Nat : n = Len(s)
  OBVIOUS
<1>. DEFINE a == Append(s, e)
            t == SubSeq(s, c + 1, n)
            u == SubSeq(a, c + 1, n + 1)
<1>2. a \in Seq(Event) /\ Len(a) = n + 1 /\ a[n + 1] = e /\ \A i \in 1 .. n : a[i] = s[i]
  BY <1>1
<1>3. t \in Seq(Event) /\ Len(t) = n - c /\ \A i \in 1 .. n - c : t[i] = s[c + i]
  BY <1>1, RestOf
<1>. HIDE DEF a, t
<1>4. u \in Seq(Event) /\ Len(u) = n + 1 - c /\ \A i \in 1 .. n + 1 - c : u[i] = a[c + i]
  <2>1. PICK k \in Nat : k = n + 1 /\ c <= k
    BY <1>1
  <2>2. Len(a) = k
    BY <1>2, <2>1
  <2>3. /\ SubSeq(a, c + 1, k) \in Seq(Event) /\ Len(SubSeq(a, c + 1, k)) = k - c
        /\ \A i \in 1 .. k - c : SubSeq(a, c + 1, k)[i] = a[c + i]
    BY ONLY c \in Nat, k \in Nat, <1>2, <2>1, <2>2, RestOf
  <2>. QED
    BY <2>1, <2>3
<1>5. /\ Append(t, e) \in Seq(Event) /\ Len(Append(t, e)) = n - c + 1
      /\ Append(t, e)[n - c + 1] = e /\ \A i \in 1 .. n - c : Append(t, e)[i] = t[i]
  <2>0. n - c \in Nat
    BY ONLY <1>1, n \in Nat, c \in Nat, c <= Len(s)
  <2>1. PICK k \in Nat : k = n - c
    BY ONLY <2>0
  <2>2. /\ Append(t, e) \in Seq(Event) /\ Len(Append(t, e)) = k + 1
        /\ Append(t, e)[k + 1] = e /\ \A i \in 1 .. k : Append(t, e)[i] = t[i]
    <3>1. t \in Seq(Event) /\ Len(t) = k
      BY <1>3, <2>1
    <3>. QED
      BY ONLY <3>1, e \in Event, k \in Nat
  <2>. QED
    BY <2>1, <2>2
<1>. HIDE DEF u
<1>6. ASSUME NEW i \in 1 .. n + 1 - c PROVE u[i] = Append(t, e)[i]
  <2>1. CASE i \in 1 .. n - c
    <3>1. c + i \in 1 .. n
      BY <1>1, <2>1
    <3>. QED
      BY <1>2, <1>3, <1>4, <1>5, <2>1, <3>1
  <2>2. CASE i \notin 1 .. n - c
    <3>1. i = n - c + 1 /\ c + i = n + 1
      BY <1>1, <2>2
    <3>. QED
      BY <1>2, <1>4, <1>5, <3>1
  <2>. QED
    BY <2>1, <2>2
<1>7. n + 1 - c = n - c + 1
  OBVIOUS
<1>8. u = Append(t, e)
  BY <1>4, <1>5, <1>6, <1>7, SeqEqual
<1>. QED
  BY <1>1, <1>2, <1>8 DEF a, t, u

\* A call gives an event to the GPU and to the tracker, unless it is a wait that is over.
LEMMA FollowsSubmit ==
  ASSUME NEW G, NEW S, NEW F, NEW Q, NEW I, TypedQueues(Q), TypedQueues(I),
         Follows(G, S, F, Q, I),
         NEW q \in Queues, NEW e \in Event, SignalAllowed(G, F, q, e), WaitAllowed(G, F, e),
         NEW Q2, Q2 = Given(Q, q, e) \/ (Q2 = Q /\ Satisfied(e, S))
  PROVE  /\ TypedQueues(SettledBy(Given(I, q, e), S))
         /\ Follows(Given(G, q, e), S, F, Q2, SettledBy(Given(I, q, e), S))
<1>0. PICK X : X = Given(I, q, e)
  OBVIOUS
<1>9. /\ Q \in [Queues -> Seq(Event)] /\ I \in [Queues -> Seq(Event)]
      /\ X = [I EXCEPT ![q] = Append(@, e)]
      /\ Q2 = [Q EXCEPT ![q] = Append(@, e)] \/ (Q2 = Q /\ Satisfied(e, S))
  BY <1>0 DEF TypedQueues, Given
<1>. DEFINE G2 == [G EXCEPT ![q] = Append(@, e)]
<1>1. PICK d : FollowsAt(G, d, S, F, Q, I)
  BY DEF Follows
<1>2. /\ Queued(G, d, S, F) /\ q \in Timelines /\ G \in [Timelines -> Seq(Event)]
      /\ Paging \in Timelines /\ Paging # q
      /\ \A p \in Queues : p \in Timelines
      /\ \A p \in Timelines : G[p] \in Seq(Event) /\ Len(G[p]) \in Nat /\ d[p] \in Nat /\ d[p] <= Len(G[p])
  <2>1. Paging # q
    BY PagingAssumption
  <2>. QED
    BY <1>1, <2>1, FollowsTyped
<1>3. Ahead(G2, d, S, F)
  BY <1>1, <1>2, AheadAppend DEF FollowsAt
<1>4. Tracked(G2, d, S, Q2)
  <2>1. CASE Q2 = [Q EXCEPT ![q] = Append(@, e)]
    BY <1>1, <1>2, <1>9, <2>1, TrackedAppend DEF FollowsAt
  <2>2. CASE Q2 = Q /\ Satisfied(e, S)
    BY <1>1, <1>2, <1>9, <2>2, TrackedOver DEF FollowsAt
  <2>. QED
    BY <1>9, <2>1, <2>2
<1>5. G2[q] = Append(G[q], e) /\ \A p \in Timelines : p # q => G2[p] = G[p]
  BY <1>2
<1>6. ASSUME NEW p \in Queues PROVE X[p] = SubSeq(G2[p], d[p] + 1, Len(G2[p]))
  <2>0. I[p] = SubSeq(G[p], d[p] + 1, Len(G[p]))
    BY <1>1 DEF FollowsAt
  <2>1. CASE p = q
    <3>1. X[p] = Append(I[q], e)
      BY <1>9, <2>1
    <3>2. SubSeq(Append(G[q], e), d[q] + 1, Len(Append(G[q], e)))
            = Append(SubSeq(G[q], d[q] + 1, Len(G[q])), e)
      BY <1>2, RestOfMore
    <3>. HIDE DEF G2
    <3>. QED
      BY <1>5, <2>0, <2>1, <3>1, <3>2
  <2>2. CASE p # q
    BY <1>2, <1>5, <1>9, <2>0, <2>2
  <2>. QED
    BY <2>1, <2>2
<1>7. d[Paging] = Len(G2[Paging])
  BY <1>1, <1>2, <1>5 DEF FollowsAt
<1>. HIDE DEF G2
<1>8. /\ SettledBy(X, S) \in [Queues -> Seq(Event)]
      /\ Follows(G2, S, F, Q2, SettledBy(X, S))
  BY ONLY <1>3, <1>4, <1>6, <1>7, FollowsSettled
<1>. QED
  BY <1>0, <1>8 DEF G2, Given, TypedQueues

\* A call gives an event to the GPU that the tracker performs at once.
LEMMA FollowsDone ==
  ASSUME NEW G, NEW S, NEW F, NEW Q, NEW I, TypedQueues(Q),
         Follows(G, S, F, Q, I),
         NEW q \in Timelines, NEW e \in Event, SignalAllowed(G, F, q, e), ~IsWait(e),
         q \in Queues => Q[q] = <<>>,
         NEW S2, S2 = AfterSignal(e, S)
  PROVE  /\ TypedQueues(SettledBy(I, S2))
         /\ Follows(Given(G, q, e), S2, F, Q, SettledBy(I, S2))
         /\ q \in Queues => I[q] = <<>>
<1>1. PICK d : FollowsAt(G, d, S, F, Q, I)
  BY DEF Follows
<1>0. Q \in [Queues -> Seq(Event)]
  BY DEF TypedQueues
<1>. DEFINE G2 == [G EXCEPT ![q] = Append(@, e)]
            d2 == [d EXCEPT ![q] = @ + 1]
<1>2. /\ Queued(G, d, S, F) /\ G \in [Timelines -> Seq(Event)] /\ Paging \in Timelines
      /\ \A p \in Queues : p \in Timelines
      /\ \A p \in Timelines : G[p] \in Seq(Event) /\ Len(G[p]) \in Nat /\ d[p] \in Nat /\ d[p] <= Len(G[p])
  BY <1>1, FollowsTyped
<1>3. d[q] = Len(G[q])
  <2>1. CASE q \in Queues
    <3>1. PICK m : Matches(G, d, S, Q, m)
      BY <1>1 DEF FollowsAt, Tracked
    <3>2. Held(G, d, S)
      BY <1>1 DEF FollowsAt
    <3>3. Queued(G, d, S, F)
      BY <1>2
    <3>4. Q[q] = <<>> => d[q] = Len(G[q])
      BY ONLY <2>1, <3>1, <3>2, <3>3, HeadIsNext, <1>0
    <3>. QED
      BY <2>1, <3>4
  <2>2. CASE q \notin Queues
    <3>1. q = Paging
      BY <2>2 DEF Timelines
    <3>. QED
      BY <1>1, <3>1 DEF FollowsAt
  <2>. QED
    BY <2>1, <2>2
<1>4. /\ G2 \in [Timelines -> Seq(Event)]
      /\ G2[q] = Append(G[q], e) /\ \A p \in Timelines : p # q => G2[p] = G[p]
      /\ Len(G2[q]) = Len(G[q]) + 1 /\ G2[q][Len(G[q]) + 1] = e
      /\ d2[q] = d[q] + 1 /\ \A p \in Timelines : p # q => d2[p] = d[p]
  <2>1. d \in [Timelines -> Nat]
    BY <1>2 DEF Queued
  <2>. QED
    BY <1>2, <2>1
<1>5. Ahead(G2, d, S, F)
  <2>1. WaitAllowed(G, F, e)
    BY DEF WaitAllowed, IsWaitFor
  <2>2. Ahead(G, d, S, F)
    BY <1>1 DEF FollowsAt
  <2>. QED
    BY <2>1, <2>2, AheadAppend
<1>6. Tracked(G2, d2, S, Q)
  BY <1>0, <1>1, <1>2, <1>3, TrackedDone DEF FollowsAt
<1>. HIDE DEF G2
<1>7. d[q] + 1 <= Len(G2[q]) /\ G2[q][d[q] + 1] = e
  BY <1>2, <1>3, <1>4
<1>8. Ahead(G2, d2, S2, F)
  <2>1. Ahead(G2, [d EXCEPT ![q] = @ + 1], AfterSignal(G2[q][d[q] + 1], S), F)
    BY <1>5, <1>7, AheadDo
  <2>. QED
    BY <1>7, <2>1
<1>9. \A f \in Fences : Waited(G2, f) => S[f] <= S2[f]
  <2>1. \A f \in Fences : Waited(G2, f) => S[f] <= AfterSignal(G2[q][d[q] + 1], S)[f]
    BY <1>5, <1>7, DoneIsUp
  <2>. QED
    BY <1>7, <2>1
<1>. HIDE DEF d2
<1>10. Tracked(G2, d2, S2, Q)
  <2>1. PICK m : Matches(G2, d2, S, Q, m)
    BY <1>6 DEF Tracked
  <2>2. /\ d2 \in [Timelines -> Nat] /\ S2 \in [Fences -> Values]
        /\ \A p \in Timelines : d2[p] \in Nat /\ d2[p] <= Len(G2[p])
    BY <1>8 DEF Ahead, Queued
  <2>3. Queued(G2, d2, S, F)
    BY <1>2, <1>8 DEF Ahead, Queued
  <2>4. \A p \in Timelines : d2[p] <= d2[p] /\ d2[p] + 1 .. d2[p] = {}
    BY <2>2
  <2>5. Matches(G2, d2, S2, Q, m)
    BY <1>9, <2>1, <2>2, <2>3, <2>4, MatchesLater
  <2>. QED
    BY <2>5 DEF Tracked
<1>11. d2[Paging] = Len(G2[Paging])
  BY <1>1, <1>2, <1>3, <1>4 DEF FollowsAt
<1>12. ASSUME NEW p \in Queues
       PROVE  I[p] = SubSeq(G2[p], d2[p] + 1, Len(G2[p])) /\ (p = q => I[p] = <<>>)
  <2>0. I[p] = SubSeq(G[p], d[p] + 1, Len(G[p]))
    BY <1>1 DEF FollowsAt
  <2>1. CASE p = q
    <3>1. PICK n \in Nat : n = Len(G[q])
      BY <1>2
    <3>2. I[p] = SubSeq(G[q], n + 1, n)
      BY <1>3, <2>0, <2>1, <3>1
    <3>3. SubSeq(G2[p], d2[p] + 1, Len(G2[p])) = SubSeq(G2[q], (n + 1) + 1, n + 1)
      BY <1>3, <1>4, <2>1, <3>1
    <3>4. SubSeq(G[q], n + 1, n) = <<>>
      BY ONLY n \in Nat, SubSeqEmpty
    <3>5. SubSeq(G2[q], (n + 1) + 1, n + 1) = <<>>
      BY ONLY n \in Nat, SubSeqEmpty
    <3>. QED
      BY <3>2, <3>3, <3>4, <3>5
  <2>2. CASE p # q
    BY <1>2, <1>4, <2>0, <2>2
  <2>. QED
    BY <2>1, <2>2
<1>13. /\ SettledBy(I, S2) \in [Queues -> Seq(Event)]
       /\ Follows(G2, S2, F, Q, SettledBy(I, S2))
  BY ONLY <1>8, <1>10, <1>11, <1>12, FollowsSettled
<1>. QED
  BY <1>12, <1>13 DEF G2, Given, TypedQueues

\* The application signals a fence itself.
LEMMA FollowsRaise ==
  ASSUME NEW G, NEW S, NEW F, NEW Q, NEW I, Follows(G, S, F, Q, I),
         NEW f \in Fences, NEW v \in Values,
         \A q \in Timelines : \A i \in 1 .. Len(G[q]) : ~IsSignalOf(G[q][i], f),
         F[f] <= v \/ ~Waited(G, f),
         NEW S2, S2 = Raised(S, f, v)
  PROVE  /\ TypedQueues(SettledBy(I, S2))
         /\ Follows(G, S2, Raised(F, f, v), Q, SettledBy(I, S2))
<1>1. PICK d : FollowsAt(G, d, S, F, Q, I)
  BY DEF Follows
<1>0. S2 = [S EXCEPT ![f] = v]
  BY DEF Raised
<1>. DEFINE F2 == [F EXCEPT ![f] = v]
<1>2. /\ Queued(G, d, S, F) /\ G \in [Timelines -> Seq(Event)] /\ S \in [Fences -> Values]
      /\ \A p \in Timelines : Len(G[p]) \in Nat /\ d[p] \in Nat /\ d[p] <= Len(G[p])
  BY <1>1, FollowsTyped
<1>3. Ahead(G, d, S2, F2)
  <2>1. Ahead(G, d, S, F)
    BY <1>1 DEF FollowsAt
  <2>2. Ahead(G, d, [S EXCEPT ![f] = v], [F EXCEPT ![f] = v])
    BY ONLY <2>1, AheadRaise, f \in Fences, v \in Values, F[f] <= v \/ ~Waited(G, f),
            \A q \in Timelines : \A i \in 1 .. Len(G[q]) : ~IsSignalOf(G[q][i], f)
  <2>. QED
    BY <1>0, <2>2
<1>4. S[f] = F[f]
  <2>1. SettlesAt(G, d, S, F)
    BY <1>1 DEF FollowsAt, Ahead
  <2>2. \A q \in Timelines : \A i \in 1 .. d[q] : i \in 1 .. Len(G[q])
    BY <1>2
  <2>. QED
    BY <2>1, <2>2 DEF SettlesAt
<1>5. ASSUME NEW g \in Fences, Waited(G, g) PROVE S[g] <= S2[g]
  <2>1. S[g] \in Nat
    BY <1>2, ValuesAreNat
  <2>2. CASE g = f
    BY <1>0, <1>2, <1>4, <1>5, <2>2
  <2>3. CASE g # f
    BY <1>0, <1>2, <2>1, <2>3
  <2>. QED
    BY <2>2, <2>3
<1>. HIDE DEF F2
<1>6. Tracked(G, d, S2, Q)
  <2>1. PICK m : Matches(G, d, S, Q, m)
    BY <1>1 DEF FollowsAt, Tracked
  <2>2. d \in [Timelines -> Nat] /\ S2 \in [Fences -> Values]
    BY <1>3 DEF Ahead, Queued
  <2>3. \A p \in Timelines : d[p] <= d[p] /\ d[p] + 1 .. d[p] = {}
    BY <1>2
  <2>4. Matches(G, d, S2, Q, m)
    BY <1>2, <1>5, <2>1, <2>2, <2>3, MatchesLater
  <2>. QED
    BY <2>4 DEF Tracked
<1>7. d[Paging] = Len(G[Paging]) /\ \A q \in Queues : I[q] = SubSeq(G[q], d[q] + 1, Len(G[q]))
  BY <1>1 DEF FollowsAt
<1>8. /\ SettledBy(I, S2) \in [Queues -> Seq(Event)]
      /\ Follows(G, S2, F2, Q, SettledBy(I, S2))
  BY ONLY <1>3, <1>6, <1>7, FollowsSettled
<1>. QED
  BY <1>8 DEF F2, Raised, TypedQueues

AllButHead(events) == Tail(events)

\* What the tracker takes from a queue and performs is what was issued first.
LEMMA TakenIsIssued ==
  ASSUME NEW G, NEW S, NEW F, NEW Q, NEW I, TypedQueues(Q), Follows(G, S, F, Q, I),
         NEW q \in Queues, Q[q] # <<>>, ~IsWait(Q[q][1])
  PROVE  I[q] # <<>> /\ I[q][1] = Q[q][1] /\ Performed(I[q]) = AllButHead(I[q])
<1>1. PICK d : FollowsAt(G, d, S, F, Q, I)
  BY DEF Follows
<1>2. d[q] + 1 <= Len(G[q]) /\ G[q][d[q] + 1] = Q[q][1]
  <2>1. Ahead(G, d, S, F) /\ Tracked(G, d, S, Q) /\ Held(G, d, S)
    BY <1>1 DEF FollowsAt
  <2>2. /\ d[q] + 1 <= Len(G[q]) /\ G[q][d[q] + 1] = Q[q][1]
        /\ Tracked(G, [d EXCEPT ![q] = @ + 1], AfterSignal(Q[q][1], S), [Q EXCEPT ![q] = Tail(@)])
    BY <2>1, TrackedTaken DEF TypedQueues
  <2>. QED
    BY <2>2
<1>3. d[q] < Len(G[q])
  <2>1. d[q] \in Nat /\ Len(G[q]) \in Nat
    BY <1>1, FollowsTyped
  <2>. QED
    BY <1>2, <2>1
<1>4. I[q] \in Seq(Event) /\ I[q] # <<>> /\ I[q][1] = Q[q][1]
  BY <1>1, <1>2, <1>3, IssuedHead
<1>. QED
  BY <1>4, PerformedHead DEF AllButHead

\* The loop of the tracker takes work from a queue, ...
LEMMA FollowsTake ==
  ASSUME NEW G, NEW S, NEW F, NEW Q, NEW I, TypedQueues(Q), TypedQueues(I),
         Follows(G, S, F, Q, I),
         NEW q \in Queues, Q[q] # <<>>, ~IsWait(Q[q][1]),
         NEW S2, S2 = AfterSignal(Q[q][1], S)
  PROVE  /\ TypedQueues(SettledBy(Taken(I, q), S2))
         /\ Follows(G, S2, F, Without(Q, q), SettledBy(Taken(I, q), S2))
<1>0. Q \in [Queues -> Seq(Event)] /\ I \in [Queues -> Seq(Event)]
  BY DEF TypedQueues
<1>10. PICK X : X = Taken(I, q)
  OBVIOUS
<1>9. I[q] # <<>> /\ I[q][1] = Q[q][1] /\ Performed(I[q]) = AllButHead(I[q])
  BY ONLY TakenIsIssued, TypedQueues(Q), Follows(G, S, F, Q, I), q \in Queues, Q[q] # <<>>,
          ~IsWait(Q[q][1])
<1>1. PICK d : FollowsAt(G, d, S, F, Q, I)
  BY DEF Follows
<1>. DEFINE Q2 == [Q EXCEPT ![q] = Tail(@)]
            d2 == [d EXCEPT ![q] = @ + 1]
<1>2. d[q] + 1 <= Len(G[q]) /\ G[q][d[q] + 1] = Q[q][1] /\ Tracked(G, d2, S2, Q2)
  <2>1. Ahead(G, d, S, F) /\ Tracked(G, d, S, Q) /\ Held(G, d, S)
    BY <1>1 DEF FollowsAt
  <2>. QED
    BY ONLY q \in Queues, Q[q] # <<>>, ~IsWait(Q[q][1]), S2 = AfterSignal(Q[q][1], S),
            <1>0, <2>1, TrackedTaken
<1>3. Ahead(G, d2, S2, F)
  <2>0. q \in Timelines /\ Ahead(G, d, S, F) /\ ~IsWait(G[q][d[q] + 1])
    BY <1>1, <1>2 DEF FollowsAt, Timelines
  <2>1. Ahead(G, [d EXCEPT ![q] = @ + 1], AfterSignal(G[q][d[q] + 1], S), F)
    BY <1>2, <2>0, AheadDo
  <2>. QED
    BY <1>2, <2>1
<1>4. /\ \A p \in Timelines : G[p] \in Seq(Event) /\ Len(G[p]) \in Nat /\ d[p] \in Nat /\ d[p] <= Len(G[p])
      /\ q \in Timelines /\ Paging \in Timelines /\ Paging # q /\ \A p \in Queues : p \in Timelines
      /\ d \in [Timelines -> Nat]
  <2>1. Queued(G, d, S, F) /\ Paging # q
    BY <1>1, FollowsTyped, PagingAssumption
  <2>2. d \in [Timelines -> Nat]
    BY <2>1 DEF Queued
  <2>. QED
    BY <1>1, <2>1, <2>2, FollowsTyped
<1>5. d2[q] = d[q] + 1 /\ \A p \in Timelines : p # q => d2[p] = d[p]
  BY <1>4
<1>. HIDE DEF Q2, d2
<1>6. d2[Paging] = Len(G[Paging])
  BY <1>1, <1>4, <1>5 DEF FollowsAt
<1>7. ASSUME NEW p \in Queues PROVE X[p] = SubSeq(G[p], d2[p] + 1, Len(G[p]))
  <2>0. I[p] = SubSeq(G[p], d[p] + 1, Len(G[p]))
    BY <1>1 DEF FollowsAt
  <2>1. CASE p = q
    <3>1. PICK n \in Nat, c \in Nat, b \in Nat :
            n = Len(G[q]) /\ c = d[q] /\ b = c + 1 /\ b = d2[q] /\ b <= n
      BY <1>2, <1>4, <1>5, <2>1
    <3>2. X[q] = Tail(I[q])
      <4>1. X[q] = Performed(I[q])
        BY <1>0, <1>10 DEF Taken
      <4>. QED
        BY <1>9, <4>1 DEF AllButHead
    <3>3. G[q] \in Seq(Event)
      BY <1>4
    <3>4. I[q] = SubSeq(G[q], c + 1, n)
      BY <2>0, <2>1, <3>1
    <3>5. Tail(SubSeq(G[q], c + 1, n)) = SubSeq(G[q], b + 1, n)
      BY ONLY <3>1, <3>3, n \in Nat, c \in Nat, b \in Nat, TailOfRest
    <3>. QED
      BY <2>1, <3>1, <3>2, <3>4, <3>5
  <2>2. CASE p # q
    BY <1>0, <1>4, <1>5, <1>10, <2>0, <2>2 DEF Taken
  <2>. QED
    BY <2>1, <2>2
<1>8. /\ SettledBy(X, S2) \in [Queues -> Seq(Event)]
      /\ Follows(G, S2, F, Q2, SettledBy(X, S2))
  BY ONLY <1>2, <1>3, <1>6, <1>7, FollowsSettled
<1>. QED
  BY <1>8, <1>10 DEF Q2, Without, TypedQueues

\* ... or a wait that is over.
LEMMA FollowsDrop ==
  ASSUME NEW G, NEW S, NEW F, NEW Q, NEW I, TypedQueues(Q), Follows(G, S, F, Q, I),
         NEW q \in Queues, Q[q] # <<>>, Satisfied(Q[q][1], S)
  PROVE  Follows(G, S, F, Without(Q, q), I)
<1>1. PICK d : FollowsAt(G, d, S, F, Q, I)
  BY DEF Follows
<1>2. Queued(G, d, S, F)
  BY <1>1, FollowsTyped
<1>3. Tracked(G, d, S, [Q EXCEPT ![q] = Tail(@)])
  BY <1>1, <1>2, TrackedDropped DEF FollowsAt, TypedQueues
<1>4. FollowsAt(G, d, S, F, [Q EXCEPT ![q] = Tail(@)], I)
  BY <1>1, <1>3 DEF FollowsAt
<1>. QED
  BY <1>4 DEF Follows, Without

\* The GPU performs an event while no queue of the tracker has one that could be done.
LEMMA FollowsPop ==
  ASSUME NEW G, NEW S, NEW F, NEW Q, NEW I, TypedQueues(Q), Follows(G, S, F, Q, I),
         \A p \in Queues : Q[p] # <<>> => IsWait(Q[p][1]) /\ ~Satisfied(Q[p][1], S),
         NEW q \in Timelines, G[q] # <<>>, IsWait(G[q][1]) => Satisfied(G[q][1], F)
  PROVE  Follows(Without(G, q), S, AfterSignal(G[q][1], F), Q, I)
<1>1. PICK d : FollowsAt(G, d, S, F, Q, I)
  BY DEF Follows
<1>0. Q \in [Queues -> Seq(Event)]
  BY DEF TypedQueues
<1>. DEFINE G2 == [G EXCEPT ![q] = Tail(@)]
            d2 == [d EXCEPT ![q] = @ - 1]
            F2 == AfterSignal(G[q][1], F)
<1>2. Ahead(G, d, S, F) /\ Tracked(G, d, S, Q) /\ Held(G, d, S)
  BY <1>1 DEF FollowsAt
<1>3. /\ Queued(G, d, S, F) /\ G \in [Timelines -> Seq(Event)] /\ Paging \in Timelines
      /\ S \in [Fences -> Values] /\ F \in [Fences -> Values]
      /\ \A p \in Queues : p \in Timelines
      /\ \A p \in Timelines : G[p] \in Seq(Event) /\ Len(G[p]) \in Nat /\ d[p] \in Nat /\ d[p] <= Len(G[p])
      /\ d \in [Timelines -> Nat]
  <2>1. Queued(G, d, S, F)
    BY <1>1, FollowsTyped
  <2>2. d \in [Timelines -> Nat]
    BY <2>1 DEF Queued
  <2>. QED
    BY <1>1, <2>2, FollowsTyped
<1>4. d[q] >= 1
  <2>. SUFFICES ASSUME d[q] = 0 PROVE FALSE
    BY <1>3
  <2>1. 0 < Len(G[q])
    BY <1>3
  <2>2. q \in Queues
    <3>1. q # Paging
      BY <1>1, <2>1 DEF FollowsAt
    <3>. QED
      BY <3>1 DEF Timelines
  <2>3. PICK m : Matches(G, d, S, Q, m)
    BY <1>2 DEF Tracked
  <2>4. /\ Q[q] = <<>> => d[q] = Len(G[q])
        /\ Q[q] # <<>> /\ ~Satisfied(Q[q][1], S) =>
             /\ m[q][1] = d[q] + 1 /\ d[q] + 1 <= Len(G[q]) /\ G[q][d[q] + 1] = Q[q][1]
    <3>1. Queued(G, d, S, F) /\ Held(G, d, S)
      BY <1>2, <1>3
    <3>. QED
      BY ONLY <2>2, <2>3, <3>1, HeadIsNext, <1>0
  <2>5. Q[q] # <<>>
    BY <2>1, <2>4
  <2>6. IsWait(Q[q][1]) /\ ~Satisfied(Q[q][1], S) /\ G[q][1] = Q[q][1]
    <3>1. d[q] + 1 = 1
      OBVIOUS
    <3>. QED
      BY <2>2, <2>4, <2>5, <3>1
  <2>. DEFINE e == G[q][1]
  <2>7. e \in Event /\ 1 \in 1 .. Len(G[q])
    BY <1>3, <2>1
  <2>8. e.fence \in Fences /\ e.value \in Nat /\ IsWait(e) /\ F[e.fence] >= e.value /\ ~(S[e.fence] >= e.value)
    <3>1. IsWait(e) /\ F[e.fence] >= e.value /\ ~(S[e.fence] >= e.value)
      BY <2>6 DEF Satisfied
    <3>. QED
      BY <2>7, <3>1, EventTyped DEF IsWait
  <2>9. Waited(G, e.fence)
    BY <2>7, <2>8 DEF Waited, IsWaitFor
  <2>. HIDE DEF e
  <2>10. F[e.fence] <= S[e.fence]
    BY <1>2, <2>8, <2>9, Between
  <2>11. F[e.fence] \in Nat /\ S[e.fence] \in Nat
    BY <1>3, <2>8, ValuesAreNat
  <2>. QED
    BY <2>8, <2>10, <2>11
<1>5. Ahead(G2, d2, S, F2)
  BY <1>2, <1>4, AheadPop
<1>6. Tracked(G2, d2, S, Q)
  BY <1>0, <1>2, <1>3, <1>4, TrackedPop
<1>7. /\ Len(G2[q]) = Len(G[q]) - 1 /\ G2[q] \in Seq(Event)
      /\ \A p \in Timelines : p # q => G2[p] = G[p]
      /\ \A i \in 1 .. Len(G2[q]) : i \in Nat /\ i + 1 \in 1 .. Len(G[q]) /\ G2[q][i] = G[q][i + 1]
      /\ d2[q] = d[q] - 1 /\ \A p \in Timelines : p # q => d2[p] = d[p]
  <2>1. d2[q] = d[q] - 1 /\ \A p \in Timelines : p # q => d2[p] = d[p]
    BY <1>3
  <2>. HIDE DEF G2, d2
  <2>. QED
    BY <1>3, <2>1, TailOf DEF G2
<1>. HIDE DEF G2, d2, F2
<1>8. Held(G2, d2, S)
  <2>. SUFFICES ASSUME NEW p \in Timelines, d2[p] < Len(G2[p])
                PROVE  ~Satisfied(G2[p][d2[p] + 1], S)
    BY DEF Held
  <2>1. CASE p = q
    <3>1. d[q] < Len(G[q]) /\ d2[q] + 1 = d[q] /\ d[q] \in 1 .. Len(G2[q])
      BY <1>3, <1>4, <1>7, <2>1
    <3>2. G2[q][d[q]] = G[q][d[q] + 1]
      BY <1>7, <3>1
    <3>. QED
      BY <1>2, <2>1, <3>1, <3>2 DEF Held
  <2>2. CASE p # q
    BY <1>2, <1>7, <2>2 DEF Held
  <2>. QED
    BY <2>1, <2>2
<1>9. d2[Paging] = Len(G2[Paging])
  BY <1>1, <1>3, <1>7 DEF FollowsAt
<1>10. ASSUME NEW p \in Queues PROVE I[p] = SubSeq(G2[p], d2[p] + 1, Len(G2[p]))
  <2>0. I[p] = SubSeq(G[p], d[p] + 1, Len(G[p]))
    BY <1>1 DEF FollowsAt
  <2>1. CASE p = q
    <3>1. PICK n \in Nat, c \in Nat : Len(G2[q]) = n /\ d2[q] = c /\ c <= n /\ Len(G[q]) = n + 1 /\ d[q] = c + 1
      <4>1. /\ Len(G[q]) \in Nat /\ d[q] \in Nat /\ d[q] <= Len(G[q]) /\ d[q] >= 1
            /\ Len(G2[q]) = Len(G[q]) - 1 /\ d2[q] = d[q] - 1
        BY <1>3, <1>4, <1>7
      <4>2. /\ Len(G2[q]) \in Nat /\ d2[q] \in Nat /\ d2[q] <= Len(G2[q])
            /\ Len(G[q]) = Len(G2[q]) + 1 /\ d[q] = d2[q] + 1
        BY ONLY <4>1
      <4>. QED
        BY ONLY <4>2
    <3>. DEFINE s == SubSeq(G[q], (c + 1) + 1, n + 1)
                t == SubSeq(G2[q], c + 1, n)
    <3>2. s \in Seq(Event) /\ Len(s) = n + 1 - (c + 1)
          /\ \A i \in 1 .. n + 1 - (c + 1) : s[i] = G[q][c + 1 + i]
      <4>1. n + 1 \in Nat /\ c + 1 \in Nat /\ c + 1 <= n + 1 /\ G[q] \in Seq(Event)
        BY <1>3, <3>1
      <4>. QED
        BY <3>1, <4>1, RestOf
    <3>3. t \in Seq(Event) /\ Len(t) = n - c /\ \A i \in 1 .. n - c : t[i] = G2[q][c + i]
      BY <1>7, <3>1, RestOf
    <3>. HIDE DEF s, t
    <3>4. n + 1 - (c + 1) = n - c
      OBVIOUS
    <3>5. ASSUME NEW i \in 1 .. n - c PROVE s[i] = t[i]
      <4>1. c + i \in 1 .. Len(G2[q]) /\ (c + i) + 1 = c + 1 + i
        BY ONLY <3>1, n \in Nat, c \in Nat, i \in 1 .. n - c
      <4>2. G2[q][c + i] = G[q][(c + i) + 1]
        BY <1>7, <4>1
      <4>. QED
        BY <3>2, <3>3, <3>4, <4>1, <4>2
    <3>6. s = t
      BY <3>2, <3>3, <3>4, <3>5, SeqEqual
    <3>. QED
      BY <2>0, <2>1, <3>1, <3>6 DEF s, t
  <2>2. CASE p # q
    BY <1>3, <1>7, <2>0, <2>2
  <2>. QED
    BY <2>1, <2>2
<1>11. FollowsAt(G2, d2, S, F2, Q, I)
  BY <1>5, <1>6, <1>8, <1>9, <1>10 DEF FollowsAt
<1>12. Follows(G2, S, F2, Q, I)
  BY <1>11 DEF Follows
<1>. QED
  BY <1>12 DEF G2, F2, Without

\* When the GPU has come to rest, it is where the tracker is.
LEMMA FollowsAtRest ==
  ASSUME NEW G, NEW S, NEW F, NEW Q \in [Queues -> Seq(Event)], NEW I, Follows(G, S, F, Q, I),
         \A q \in Timelines : ~(G[q] # <<>> /\ (IsWait(G[q][1]) => Satisfied(G[q][1], F)))
  PROVE  F = S /\ \A q \in Queues : SameWork(Q[q], G[q])
<1>1. PICK d : FollowsAt(G, d, S, F, Q, I)
  BY DEF Follows
<1>2. (\A q \in Timelines : d[q] = 0) /\ S = F
  BY <1>1, AtRest DEF FollowsAt
<1>3. ASSUME NEW q \in Queues PROVE SameWork(Q[q], G[q])
  <2>1. PICK m : Matches(G, d, S, Q, m)
    BY <1>1 DEF FollowsAt, Tracked
  <2>2. /\ q \in Timelines /\ d[q] = 0 /\ G[q] \in Seq(Event) /\ Len(G[q]) \in Nat
        /\ Q[q] \in Seq(Event)
    BY <1>1, <1>2, FollowsTyped
  <2>3. /\ \A i \in 1 .. Len(Q[q]) :
             /\ m[q][i] \in 1 .. Len(G[q]) /\ G[q][m[q][i]] = Q[q][i]
             /\ \A j \in 1 .. Len(Q[q]) : i < j => m[q][i] < m[q][j]
        /\ \A k \in 1 .. Len(G[q]) :
             Satisfied(G[q][k], S) \/ \E i \in 1 .. Len(Q[q]) : m[q][i] = k
    <3>1. d[q] + 1 = 1
      BY <2>2
    <3>. QED
      BY <2>1, <3>1 DEF Matches
  <2>4. /\ Work(Q[q]) = {i \in 1 .. Len(Q[q]) : ~IsWait(Q[q][i])}
        /\ Work(G[q]) = {i \in 1 .. Len(G[q]) : ~IsWait(G[q][i])}
    BY <2>2 DEF Work
  <2>. DEFINE at == [i \in Work(Q[q]) |-> m[q][i]]
  <2>5. /\ at \in [Work(Q[q]) -> Work(G[q])]
        /\ \A i \in Work(Q[q]) : at[i] = m[q][i] /\ G[q][at[i]] = Q[q][i]
    BY <2>3, <2>4
  <2>6. \A i, j \in Work(Q[q]) : i < j => at[i] < at[j]
    BY <2>3, <2>4
  <2>7. ASSUME NEW k \in Work(G[q]) PROVE \E i \in Work(Q[q]) : at[i] = k
    <3>1. k \in 1 .. Len(G[q]) /\ ~Satisfied(G[q][k], S) /\ ~IsWait(G[q][k])
      BY <2>4 DEF Satisfied
    <3>2. PICK i \in 1 .. Len(Q[q]) : m[q][i] = k
      BY <2>3, <3>1
    <3>3. i \in Work(Q[q])
      BY <2>3, <2>4, <3>1, <3>2
    <3>. QED
      BY <3>2, <3>3
  <2>. HIDE DEF at
  <2>. QED
    BY <2>5, <2>6, <2>7 DEF SameWork
<1>. QED
  BY <1>2, <1>3
-----------------------------------------------------------------------------
(***************************************************************************)
(* The inductive invariant: the GPU follows the tracker; while the loop of *)
(* the tracker runs, fences that are waited for only rise; and the layer   *)
(* has the commands of what was recorded last.                             *)
(***************************************************************************)
RecordingsKnown == \A l \in Lists : commandLists[l] \in {0, recorded[l]}
CallsCounted == \A q \in Timelines : Len(gpuTodo[q]) <= calls
LoopRises ==
  /\ Busy => signaledFences[signaled[1].fence] = signaled[1].value
  /\ \A f \in Fences : Waited(gpuTodo, f) =>
       /\ signaledFences[f] <= SettledFences[f]
       /\ \A i \in 1 .. Len(signaled) :
            signaled[i].fence = f => signaled[i].value <= SettledFences[f]
GpuFollows == Follows(gpuTodo, SettledFences, gpuFences, queueEvents, issued)

ReplayInv ==
  /\ ~Resubmits /\ ReplayTypeOK /\ TrackerInv
  /\ RecordingsKnown /\ CallsCounted /\ LoopRises /\ GpuFollows

LEMMA SettledPrimed == SettledFences' = Applied(signaled', signaledFences')
BY DEF SettledFences, Applied

LEMMA SettledTyped ==
  ASSUME TypeOK
  PROVE  SettledFences \in [Fences -> Values] /\ (~Busy => SettledFences = signaledFences)
<1>1. signaled \in Seq(Signals) /\ signaledFences \in [Fences -> Values]
  BY DEF TypeOK
<1>2. SettledFences \in [Fences -> Values]
  BY <1>1, AppliedTyped, SettledIsApplied
<1>3. ASSUME ~Busy PROVE SettledFences = signaledFences
  <2>1. signaled = <<>>
    BY <1>3 DEF Busy
  <2>. QED
    BY <1>1, <2>1, AppliedNone, SettledIsApplied
<1>. QED
  BY <1>2, <1>3

LEMMA SettledStays ==
  ASSUME UNCHANGED <<signaled, signaledFences>> PROVE SettledFences' = SettledFences
BY SettledPrimed, SettledIsApplied

LEMMA SettledBegins ==
  ASSUME TypeOK, ~Busy, NEW f \in Fences, NEW v \in Values, BeginFenceSignal(f, v)
  PROVE  /\ SettledFences' = [SettledFences EXCEPT ![f] = v]
         /\ signaledFences' = SettledFences' /\ signaled' = <<[fence |-> f, value |-> v]>>
<1>1. signaledFences \in [Fences -> Values] /\ SettledFences = signaledFences
  BY SettledTyped DEF TypeOK
<1>2. /\ signaledFences' = [signaledFences EXCEPT ![f] = v]
      /\ signaled' = <<[fence |-> f, value |-> v]>>
  BY DEF BeginFenceSignal
<1>. QED
  BY <1>1, <1>2, AppliedOne, SettledPrimed

LEMMA RisesBegun ==
  ASSUME TypeOK, ~Busy, NEW f \in Fences, NEW v \in Values, BeginFenceSignal(f, v)
  PROVE  LoopRises'
<1>1. /\ SettledFences' = [SettledFences EXCEPT ![f] = v]
      /\ signaledFences' = SettledFences' /\ signaled' = <<[fence |-> f, value |-> v]>>
  BY SettledBegins
<1>2. SettledFences \in [Fences -> Values] /\ v \in Nat
  BY SettledTyped, ValuesAreNat
<1>3. \A g \in Fences : SettledFences'[g] \in Nat
  BY <1>1, <1>2, ValuesAreNat
<1>4. SettledFences'[f] = v
  BY <1>1, <1>2
<1>5. Len(signaled') = 1 /\ signaled'[1].fence = f /\ signaled'[1].value = v
  BY <1>1
<1>6. \A i \in 1 .. Len(signaled') : i = 1
  BY <1>5
<1>7. \A g \in Fences : signaledFences'[g] <= SettledFences'[g]
  BY <1>1, <1>3
<1>8. \A g \in Fences : \A i \in 1 .. Len(signaled') :
        signaled'[i].fence = g => signaled'[i].value <= SettledFences'[g]
  BY <1>2, <1>4, <1>5, <1>6
<1>9. Busy' => signaledFences'[signaled'[1].fence] = signaled'[1].value
  BY <1>1, <1>4, <1>5
<1>. QED
  BY <1>7, <1>8, <1>9 DEF LoopRises

LEMMA RisesIdle ==
  ASSUME TypeOK', ~Busy' PROVE LoopRises'
<1>1. signaled' = <<>> /\ signaledFences' \in [Fences -> Values] /\ Len(<<>>) = 0
  BY DEF Busy, TypeOK
<1>2. SettledFences' = signaledFences'
  BY <1>1, AppliedNone, SettledPrimed
<1>3. \A f \in Fences : signaledFences'[f] <= SettledFences'[f]
  <2>1. \A f \in Fences : signaledFences'[f] \in Nat
    BY <1>1, ValuesAreNat
  <2>. QED
    BY <1>2, <2>1
<1>. QED
  BY <1>1, <1>3 DEF LoopRises

LEMMA InitFollows ==
  ASSUME NEW G, G = [q \in Timelines |-> <<>>], NEW S, S = [f \in Fences |-> 0],
         NEW Q, Q = [q \in Queues |-> <<>>]
  PROVE  Follows(G, S, S, Q, Q)
<1>. DEFINE d == [q \in Timelines |-> 0]
<1>1. /\ \A q \in Timelines : G[q] = <<>> /\ Len(G[q]) = 0 /\ d[q] = 0
      /\ \A q \in Queues : Q[q] = <<>> /\ Len(Q[q]) = 0
      /\ Paging \in Timelines /\ \A q \in Queues : q \in Timelines
  BY DEF Timelines
<1>2. Queued(G, d, S, S)
  <2>1. 0 \in Values
    BY MaxValueAssumption DEF Values
  <2>. QED
    BY <1>1, <2>1 DEF Queued
<1>. HIDE DEF d
<1>3. \A q \in Timelines : \A i \in 1 .. Len(G[q]) : FALSE
  BY <1>1
<1>4. \A q \in Timelines : \A i \in 1 .. d[q] : FALSE
  BY <1>1
<1>5. OneSource(G) /\ Rising(G) /\ WaitsRise(G, S)
  BY <1>3 DEF OneSource, Rising, WaitsRise
<1>6. SettlesAt(G, d, S, S)
  BY <1>4 DEF SettlesAt
<1>7. Ranked(G, d, S, d, 0)
  BY <1>4 DEF Ranked
<1>8. Ahead(G, d, S, S)
  BY <1>2, <1>5, <1>6, <1>7 DEF Ahead
<1>9. Held(G, d, S)
  BY <1>1 DEF Held
<1>10. Matches(G, d, S, Q, d)
  <2>1. \A q \in Queues : 1 .. Len(Q[q]) = {} /\ d[q] + 1 .. Len(G[q]) = {}
    BY <1>1
  <2>. QED
    BY <2>1 DEF Matches
<1>11. \A q \in Queues : Q[q] = SubSeq(G[q], d[q] + 1, Len(G[q]))
  <2>1. SubSeq(<<>>, 1, 0) = <<>>
    BY SubSeqEmpty
  <2>2. \A q \in Queues : d[q] + 1 = 1 /\ Len(G[q]) = 0 /\ G[q] = <<>>
    BY <1>1
  <2>. QED
    BY <1>1, <2>1, <2>2
<1>12. FollowsAt(G, d, S, S, Q, Q)
  BY <1>1, <1>8, <1>9, <1>10, <1>11 DEF FollowsAt, Tracked
<1>. QED
  BY <1>12 DEF Follows

LEMMA InitReplay == ~Resubmits /\ ReplayInit => ReplayInv
<1>. SUFFICES ASSUME ~Resubmits, ReplayInit PROVE ReplayInv
  OBVIOUS
<1>1. 0 \in Values /\ 0 \in 0 .. MaxCalls /\ 0 \in Nat
  BY MaxValueAssumption, MaxCallsAssumption DEF Values
<1>2. TrackerInv
  BY InitTracker DEF ReplayInit
<1>3. /\ queueEvents = [q \in Queues |-> <<>>] /\ issued = [q \in Queues |-> <<>>]
      /\ signaledFences = [f \in Fences |-> 0] /\ signaled = <<>>
      /\ gpuTodo = [q \in Timelines |-> <<>>] /\ gpuFences = [f \in Fences |-> 0]
      /\ calls = 0 /\ awaited = NoWait /\ commandQueues = {} /\ flushing = {}
      /\ commandLists = [l \in Lists |-> 0] /\ recorded = [l \in Lists |-> 0] /\ serialized = <<>>
  BY DEF ReplayInit, Init, ServiceInit
<1>4. SettledFences = signaledFences
  BY <1>2, <1>3, SettledTyped DEF TrackerInv, Busy
<1>5. GpuFollows
  BY <1>3, <1>4, InitFollows DEF GpuFollows
<1>6. LoopRises
  <2>1. \A f \in Fences : ~Waited(gpuTodo, f)
    BY <1>3 DEF Waited
  <2>. QED
    BY <1>3, <2>1 DEF LoopRises, Busy
<1>7. CallsCounted
  BY <1>3 DEF CallsCounted
<1>8. RecordingsKnown
  BY <1>3 DEF RecordingsKnown
<1>9. ServiceTypeOK
  <2>1. 0 \in 0 .. MaxRecordings
    BY MaxRecordingsAssumption
  <2>. QED
    BY <1>3, <2>1 DEF ServiceTypeOK
<1>10. ReplayTypeOK
  BY <1>1, <1>2, <1>3, <1>9 DEF ReplayTypeOK, TrackerInv, NoWait
<1>. QED
  BY <1>2, <1>5, <1>6, <1>7, <1>8, <1>10 DEF ReplayInv
-----------------------------------------------------------------------------
(***************************************************************************)
(* What the application may do.                                            *)
(***************************************************************************)
LEMMA PendingIs ==
  ASSUME ReplayInv, NEW q \in Timelines, NEW i \in 1 .. Len(gpuTodo[q]), NEW f \in Fences
  PROVE  /\ IsSignalOf(gpuTodo[q][i], f) =>
              <<q, i>> \in Pending("signal", f) /\ gpuTodo[q][i].value \in PendingValues(f)
         /\ IsWaitFor(gpuTodo[q][i], f) => <<q, i>> \in Pending("wait", f)
<1>1. /\ gpuTodo[q] \in Seq(Event) /\ Len(gpuTodo[q]) <= calls /\ calls \in Nat /\ calls <= MaxCalls
      /\ MaxCalls \in Nat
  BY MaxCallsAssumption DEF ReplayInv, ReplayTypeOK, CallsCounted
<1>2. i \in 1 .. MaxCalls /\ i \in DOMAIN gpuTodo[q]
  <2>1. Len(gpuTodo[q]) \in Nat /\ DOMAIN gpuTodo[q] = 1 .. Len(gpuTodo[q])
    BY <1>1
  <2>. QED
    BY <1>1, <2>1
<1>3. \A kind : gpuTodo[q][i].kind = kind /\ gpuTodo[q][i].fence = f => <<q, i>> \in Pending(kind, f)
  BY <1>2 DEF Pending
<1>4. IsWaitFor(gpuTodo[q][i], f) => <<q, i>> \in Pending("wait", f)
  BY <1>3 DEF IsWaitFor, IsWait
<1>5. IsSignalOf(gpuTodo[q][i], f) => <<q, i>> \in Pending("signal", f)
  BY <1>3 DEF IsSignalOf
<1>6. <<q, i>> \in Pending("signal", f) => gpuTodo[q][i].value \in PendingValues(f)
  <2>1. <<q, i>>[1] = q /\ <<q, i>>[2] = i
    OBVIOUS
  <2>2. <<q, i>> \in Pending("signal", f) =>
          gpuTodo[<<q, i>>[1]][<<q, i>>[2]].value \in PendingValues(f)
    BY DEF PendingValues
  <2>. QED
    BY <2>1, <2>2
<1>. QED
  BY <1>4, <1>5, <1>6

LEMMA MaySignalIsAllowed ==
  ASSUME ReplayInv, NEW from, NEW f \in Fences, NEW v \in Values, MaySignal(from, f, v)
  PROVE  /\ from \in Timelines => SignalAllowed(gpuTodo, gpuFences, from, Signal(f, v))
         /\ \A q \in Timelines : \A i \in 1 .. Len(gpuTodo[q]) : IsSignalOf(gpuTodo[q][i], f) => q = from
         /\ gpuFences[f] <= v \/ ~Waited(gpuTodo, f)
<1>1. /\ Signal(f, v).kind = "signal" /\ Signal(f, v).fence = f /\ Signal(f, v).value = v
      /\ \A g : IsSignalOf(Signal(f, v), g) => g = f
  BY DEF Signal, IsSignalOf
<1>2. ASSUME NEW q \in Timelines, NEW i \in 1 .. Len(gpuTodo[q]), IsSignalOf(gpuTodo[q][i], f)
      PROVE  /\ q = from /\ Pending("signal", f) # {}
             /\ gpuTodo[q][i].value \in PendingValues(f)
  <2>1. <<q, i>> \in Pending("signal", f) /\ gpuTodo[q][i].value \in PendingValues(f)
    BY <1>2, PendingIs
  <2>2. <<q, i>>[1] = q
    OBVIOUS
  <2>. QED
    BY <2>1, <2>2 DEF MaySignal
<1>3. \/ /\ gpuFences[f] <= v
         /\ \A u \in PendingValues(f) : u <= v
      \/ Pending("signal", f) = {} /\ ~Waited(gpuTodo, f)
  <2>1. CASE \A u \in PendingValues(f) \cup {gpuFences[f]} : v >= u
    BY <2>1
  <2>2. CASE Pending("signal", f) = {} /\ Pending("wait", f) = {}
    <3>1. ~Waited(gpuTodo, f)
      BY <2>2, PendingIs DEF Waited
    <3>. QED
      BY <2>2, <3>1
  <2>. QED
    BY <2>1, <2>2 DEF MaySignal
<1>. HIDE DEF Signal
<1>4. ASSUME from \in Timelines PROVE SignalAllowed(gpuTodo, gpuFences, from, Signal(f, v))
  <2>. SUFFICES ASSUME NEW g \in Fences, IsSignalOf(Signal(f, v), g)
       PROVE  /\ \A p \in Timelines : \A i \in 1 .. Len(gpuTodo[p]) : IsSignalOf(gpuTodo[p][i], g) => p = from
              /\ \/ /\ gpuFences[g] <= Signal(f, v).value
                    /\ \A i \in 1 .. Len(gpuTodo[from]) :
                         IsSignalOf(gpuTodo[from][i], g) => gpuTodo[from][i].value <= Signal(f, v).value
                 \/ /\ ~Waited(gpuTodo, g)
                    /\ \A p \in Timelines : \A i \in 1 .. Len(gpuTodo[p]) : ~IsSignalOf(gpuTodo[p][i], g)
    BY DEF SignalAllowed
  <2>1. g = f /\ Signal(f, v).value = v
    BY <1>1
  <2>. QED
    BY <1>2, <1>3, <1>4, <2>1
<1>. QED
  BY <1>2, <1>3, <1>4

LEMMA MayWaitIsAllowed ==
  ASSUME ReplayInv, NEW f \in Fences, NEW v \in Values, MayWait(f, v)
  PROVE  WaitAllowed(gpuTodo, gpuFences, Wait(f, v))
<1>1. \A g : IsWaitFor(Wait(f, v), g) => g = f
  BY DEF Wait, IsWaitFor
<1>2. ASSUME NEW q \in Timelines, NEW i \in 1 .. Len(gpuTodo[q]), IsSignalOf(gpuTodo[q][i], f)
      PROVE  gpuFences[f] <= gpuTodo[q][i].value
  <2>1. gpuTodo[q][i].value \in PendingValues(f)
    BY <1>2, PendingIs
  <2>2. \A u \in PendingValues(f) : u >= gpuFences[f]
    BY DEF MayWait
  <2>. QED
    BY <2>1, <2>2
<1>. QED
  BY <1>1, <1>2 DEF WaitAllowed
-----------------------------------------------------------------------------
(***************************************************************************)
(* The calls of the stream keep the invariant.                             *)
(***************************************************************************)
LEMMA InvAfter ==
  ASSUME ~Resubmits, TrackerInv', GpuFollows', LoopRises', CallsCounted', RecordingsKnown',
         issued' \in [Queues -> Seq(Event)], ServiceTypeOK', calls' \in 0 .. MaxCalls,
         awaited' \in [fence : Fences, values : SUBSET Values] \cup {NoWait},
         commandQueues' \subseteq Queues, flushing' \subseteq commandQueues'
  PROVE  ReplayInv'
<1>1. gpuTodo' \in [Timelines -> Seq(Event)] /\ gpuFences' \in [Fences -> Values]
  <2>1. Follows(gpuTodo', SettledFences', gpuFences', queueEvents', issued')
    BY DEF GpuFollows
  <2>. QED
    BY <2>1, FollowsTyped DEF Follows
<1>2. TypeOK'
  BY DEF TrackerInv
<1>3. ReplayTypeOK'
  BY <1>1, <1>2 DEF ReplayTypeOK
<1>. QED
  BY <1>3 DEF ReplayInv

\* A call that gives the GPU an event, or none.
LEMMA CallCounts ==
  ASSUME ReplayInv, Call,
         \/ UNCHANGED gpuTodo
         \/ \E q \in Timelines, e \in Event : gpuTodo' = [gpuTodo EXCEPT ![q] = Append(@, e)]
  PROVE  /\ CallsCounted' /\ calls' \in 0 .. MaxCalls
         /\ awaited' \in [fence : Fences, values : SUBSET Values] \cup {NoWait}
         /\ commandQueues \subseteq Queues /\ flushing' \subseteq commandQueues
         /\ ~Busy /\ readyExecutables = <<>> /\ signaledFences = SettledFences
<1>1. /\ calls \in 0 .. MaxCalls /\ calls < MaxCalls /\ calls' = calls + 1 /\ MaxCalls \in Nat
      /\ calls \in Nat
  BY MaxCallsAssumption DEF ReplayInv, ReplayTypeOK, Call
<1>2. \A q \in Timelines : gpuTodo[q] \in Seq(Event) /\ Len(gpuTodo[q]) \in Nat /\ Len(gpuTodo[q]) <= calls
  BY DEF ReplayInv, ReplayTypeOK, CallsCounted
<1>3. ASSUME NEW q \in Timelines PROVE Len(gpuTodo'[q]) <= calls'
  <2>1. CASE UNCHANGED gpuTodo
    BY <1>1, <1>2, <2>1
  <2>2. CASE \E p \in Timelines, e \in Event : gpuTodo' = [gpuTodo EXCEPT ![p] = Append(@, e)]
    <3>1. PICK p \in Timelines, e \in Event : gpuTodo' = [gpuTodo EXCEPT ![p] = Append(@, e)]
      BY <2>2
    <3>2. gpuTodo'[q] = IF q = p THEN Append(gpuTodo[q], e) ELSE gpuTodo[q]
      BY <3>1 DEF ReplayInv, ReplayTypeOK
    <3>3. Len(gpuTodo'[q]) <= Len(gpuTodo[q]) + 1
      BY <1>2, <3>2
    <3>. QED
      BY <1>1, <1>2, <3>2, <3>3
  <2>. QED
    BY <2>1, <2>2
<1>4. ~Busy /\ readyExecutables = <<>>
  BY DEF Call, Ready, Idle
<1>5. signaledFences = SettledFences
  BY <1>4, SettledTyped DEF ReplayInv, TrackerInv
<1>6. calls' \in 0 .. MaxCalls
  BY <1>1
<1>. QED
  BY <1>3, <1>4, <1>5, <1>6 DEF CallsCounted, Call, ReplayInv, ReplayTypeOK

\* An event that the tracker keeps, or a wait that is over.
LEMMA SubmitFollows ==
  ASSUME ReplayInv, NEW q \in Queues, NEW e \in Event,
         SignalAllowed(gpuTodo, gpuFences, q, e), WaitAllowed(gpuTodo, gpuFences, e),
         gpuTodo' = [gpuTodo EXCEPT ![q] = Append(@, e)], UNCHANGED gpuFences,
         UNCHANGED <<signaled, signaledFences>>,
         \/ queueEvents' = [queueEvents EXCEPT ![q] = Append(@, e)]
         \/ queueEvents' = queueEvents /\ Satisfied(e, SettledFences),
         Settle([issued EXCEPT ![q] = Append(@, e)])
  PROVE  issued' \in [Queues -> Seq(Event)] /\ GpuFollows' /\ SettledFences' = SettledFences
<1>1. SettledFences' = SettledFences
  BY SettledStays
<1>2. issued' = SettledBy(Given(issued, q, e), SettledFences)
  BY <1>1 DEF Settle, SettledBy, Given
<1>3. TypedQueues(queueEvents) /\ TypedQueues(issued)
  BY DEF ReplayInv, ReplayTypeOK, TypeOK, TypedQueues
<1>4. /\ Follows(gpuTodo, SettledFences, gpuFences, queueEvents, issued)
      /\ queueEvents' = Given(queueEvents, q, e)
           \/ (queueEvents' = queueEvents /\ Satisfied(e, SettledFences))
  BY DEF ReplayInv, GpuFollows, Given
<1>5. /\ TypedQueues(SettledBy(Given(issued, q, e), SettledFences))
      /\ Follows(Given(gpuTodo, q, e), SettledFences, gpuFences, queueEvents',
                 SettledBy(Given(issued, q, e), SettledFences))
  BY ONLY <1>3, <1>4, FollowsSubmit, SignalAllowed(gpuTodo, gpuFences, q, e),
          WaitAllowed(gpuTodo, gpuFences, e), q \in Queues, e \in Event
<1>. QED
  BY <1>1, <1>2, <1>5 DEF GpuFollows, Given, TypedQueues

\* An event that the tracker performs at once.
LEMMA DoneFollows ==
  ASSUME ReplayInv, NEW q \in Timelines, NEW e \in Event,
         SignalAllowed(gpuTodo, gpuFences, q, e), ~IsWait(e),
         gpuTodo' = [gpuTodo EXCEPT ![q] = Append(@, e)], UNCHANGED <<gpuFences, queueEvents>>,
         q \in Queues => queueEvents[q] = <<>>,
         SettledFences' = AfterSignal(e, SettledFences),
         issued' = SettledBy(issued, SettledFences')
  PROVE  issued' \in [Queues -> Seq(Event)] /\ GpuFollows' /\ (q \in Queues => issued[q] = <<>>)
<1>1. PICK S2 : S2 = AfterSignal(e, SettledFences)
  OBVIOUS
<1>2. TypedQueues(queueEvents) /\ Follows(gpuTodo, SettledFences, gpuFences, queueEvents, issued)
  BY DEF ReplayInv, ReplayTypeOK, TypeOK, GpuFollows, TypedQueues
<1>3. /\ TypedQueues(SettledBy(issued, S2))
      /\ Follows(Given(gpuTodo, q, e), S2, gpuFences, queueEvents,
                 SettledBy(issued, S2))
      /\ q \in Queues => issued[q] = <<>>
  BY ONLY <1>1, <1>2, FollowsDone, SignalAllowed(gpuTodo, gpuFences, q, e), ~IsWait(e),
          q \in Queues => queueEvents[q] = <<>>, q \in Timelines, e \in Event
<1>. QED
  BY <1>1, <1>3 DEF GpuFollows, Given, TypedQueues

LEMMA ReplayWaitKeeps ==
  ASSUME ReplayInv, NEW q \in Queues, NEW f \in Fences, NEW v \in Values, ReplayWait(q, f, v)
  PROVE  ReplayInv'
<1>1. /\ Call /\ MayWait(f, v) /\ CommandQueueWait(q, f, v)
      /\ gpuTodo' = [gpuTodo EXCEPT ![q] = Append(@, Wait(f, v))]
      /\ UNCHANGED <<gpuFences, serviceVars, commandQueues>>
  BY DEF ReplayWait, GpuSubmit
<1>2. Wait(f, v) \in Event /\ q \in Timelines
  BY DEF Wait, Event, FenceEvent, Timelines
<1>3. /\ CallsCounted' /\ calls' \in 0 .. MaxCalls
      /\ awaited' \in [fence : Fences, values : SUBSET Values] \cup {NoWait}
      /\ commandQueues \subseteq Queues /\ flushing' \subseteq commandQueues
      /\ ~Busy /\ readyExecutables = <<>> /\ signaledFences = SettledFences
  BY <1>1, <1>2, CallCounts
<1>4. TrackerInv' /\ TypeOK'
  BY <1>1, WaitKeeps DEF ReplayInv, TrackerInv
<1>5. UNCHANGED <<signaled, signaledFences>> /\ ~Busy'
  BY <1>1, <1>3 DEF CommandQueueWait, loopVars, Busy
<1>6. \/ queueEvents' = [queueEvents EXCEPT ![q] = Append(@, Wait(f, v))]
      \/ queueEvents' = queueEvents /\ Satisfied(Wait(f, v), SettledFences)
  <2>1. CASE signaledFences[f] >= v
    BY <1>1, <1>3, <2>1 DEF CommandQueueWait, Satisfied, Wait, IsWait
  <2>2. CASE ~(signaledFences[f] >= v)
    BY <1>1, <2>2 DEF CommandQueueWait
  <2>. QED
    BY <2>1, <2>2
<1>7. SignalAllowed(gpuTodo, gpuFences, q, Wait(f, v)) /\ WaitAllowed(gpuTodo, gpuFences, Wait(f, v))
  <2>1. \A g : ~IsSignalOf(Wait(f, v), g)
    BY DEF IsSignalOf, Wait
  <2>. QED
    BY <1>1, <2>1, MayWaitIsAllowed DEF SignalAllowed
<1>10. issued' \in [Queues -> Seq(Event)] /\ GpuFollows'
  <2>1. Settle([issued EXCEPT ![q] = Append(@, Wait(f, v))])
    BY <1>1 DEF CommandQueueWait
  <2>. QED
    BY <1>1, <1>2, <1>5, <1>6, <1>7, <2>1, SubmitFollows
<1>11. LoopRises'
  BY <1>4, <1>5, RisesIdle
<1>12. RecordingsKnown' /\ ServiceTypeOK'
  BY <1>1 DEF ReplayInv, ReplayTypeOK, RecordingsKnown, ServiceTypeOK, serviceVars
<1>. QED
  BY <1>1, <1>3, <1>4, <1>10, <1>11, <1>12, InvAfter DEF ReplayInv

\* A signal that the tracker and, later, the GPU perform on a queue, or on none.
LEMMA BeginFollows ==
  ASSUME ReplayInv, ~Busy, NEW q \in Timelines, NEW f \in Fences, NEW v \in Values,
         MaySignal(q, f, v), q \in Queues => queueEvents[q] = <<>>,
         BeginFenceSignal(f, v), Settle(issued), UNCHANGED <<queueEvents, readyExecutables, gpuFences>>,
         gpuTodo' = [gpuTodo EXCEPT ![q] = Append(@, Signal(f, v))]
  PROVE  /\ TrackerInv' /\ issued' \in [Queues -> Seq(Event)] /\ GpuFollows' /\ LoopRises'
         /\ SettledFences' = AfterSignal(Signal(f, v), SettledFences)
         /\ q \in Queues => issued[q] = <<>>
<1>1. TrackerInv /\ TypeOK
  BY DEF ReplayInv, TrackerInv
<1>2. TrackerInv'
  BY <1>1, BeginKeeps
<1>3. LoopRises'
  BY <1>1, RisesBegun
<1>4. Signal(f, v) \in Event /\ ~IsWait(Signal(f, v))
  BY DEF Signal, Event, FenceEvent, IsWait
<1>5. SettledFences' = AfterSignal(Signal(f, v), SettledFences)
  <2>1. SettledFences' = [SettledFences EXCEPT ![f] = v]
    BY <1>1, SettledBegins
  <2>. QED
    BY <2>1 DEF AfterSignal, Signal
<1>6. SignalAllowed(gpuTodo, gpuFences, q, Signal(f, v))
  BY MaySignalIsAllowed
<1>7. issued' = SettledBy(issued, SettledFences')
  BY DEF Settle, SettledBy
<1>8. issued' \in [Queues -> Seq(Event)] /\ GpuFollows' /\ (q \in Queues => issued[q] = <<>>)
  BY <1>4, <1>5, <1>6, <1>7, DoneFollows
<1>. QED
  BY <1>2, <1>3, <1>5, <1>8

\* A signal that its queue keeps, ...
LEMMA SignalKept ==
  ASSUME ReplayInv, NEW q \in Queues, NEW f \in Fences, NEW v \in Values, ReplaySignal(q, f, v),
         IsCommandQueueWaiting(q)
  PROVE  /\ TrackerInv' /\ issued' \in [Queues -> Seq(Event)] /\ GpuFollows' /\ LoopRises'
         /\ Signal(f, v) \in Event /\ SettledFences' = SettledFences
         /\ Settle([issued EXCEPT ![q] = Append(@, Signal(f, v))])
<1>1. /\ ~Busy /\ MaySignal(q, f, v) /\ CommandQueueSignal(q, f, v)
      /\ gpuTodo' = [gpuTodo EXCEPT ![q] = Append(@, Signal(f, v))] /\ UNCHANGED gpuFences
  BY DEF ReplaySignal, GpuSubmit, Call, Ready, Idle
<1>2. TrackerInv' /\ TypeOK'
  BY <1>1, SignalKeeps DEF ReplayInv, TrackerInv
<1>3. /\ queueEvents' = [queueEvents EXCEPT ![q] = Append(@, Signal(f, v))]
      /\ UNCHANGED <<signaled, signaledFences>>
      /\ Settle([issued EXCEPT ![q] = Append(@, Signal(f, v))])
  BY <1>1 DEF CommandQueueSignal, loopVars
<1>4. Signal(f, v) \in Event /\ WaitAllowed(gpuTodo, gpuFences, Signal(f, v))
  BY DEF Signal, Event, FenceEvent, WaitAllowed, IsWaitFor, IsWait
<1>5. SignalAllowed(gpuTodo, gpuFences, q, Signal(f, v))
  BY <1>1, MaySignalIsAllowed DEF Timelines
<1>6. issued' \in [Queues -> Seq(Event)] /\ GpuFollows' /\ SettledFences' = SettledFences
  BY <1>1, <1>3, <1>4, <1>5, SubmitFollows
<1>7. LoopRises'
  <2>1. ~Busy'
    BY <1>1, <1>3 DEF Busy
  <2>. QED
    BY <1>2, <2>1, RisesIdle
<1>. QED
  BY <1>2, <1>3, <1>4, <1>6, <1>7

\* ... and one that takes effect at once.
LEMMA SignalBegun ==
  ASSUME ReplayInv, NEW q \in Queues, NEW f \in Fences, NEW v \in Values, ReplaySignal(q, f, v),
         ~IsCommandQueueWaiting(q)
  PROVE  /\ TrackerInv' /\ issued' \in [Queues -> Seq(Event)] /\ GpuFollows' /\ LoopRises'
         /\ SettledFences' = AfterSignal(Signal(f, v), SettledFences)
         /\ issued[q] = <<>> /\ Settle(issued)
<1>1. /\ ~Busy /\ MaySignal(q, f, v) /\ CommandQueueSignal(q, f, v)
      /\ gpuTodo' = [gpuTodo EXCEPT ![q] = Append(@, Signal(f, v))] /\ UNCHANGED gpuFences
  BY DEF ReplaySignal, GpuSubmit, Call, Ready, Idle
<1>2. /\ BeginFenceSignal(f, v) /\ Settle(issued) /\ UNCHANGED <<queueEvents, readyExecutables>>
      /\ queueEvents[q] = <<>> /\ q \in Timelines
  BY <1>1 DEF CommandQueueSignal, IsCommandQueueWaiting, Timelines
<1>. QED
  BY <1>1, <1>2, BeginFollows

LEMMA ReplaySignalKeeps ==
  ASSUME ReplayInv, NEW q \in Queues, NEW f \in Fences, NEW v \in Values, ReplaySignal(q, f, v)
  PROVE  ReplayInv'
<1>1. /\ Call /\ UNCHANGED <<serviceVars, commandQueues>>
      /\ gpuTodo' = [gpuTodo EXCEPT ![q] = Append(@, Signal(f, v))]
  BY DEF ReplaySignal, GpuSubmit
<1>2. Signal(f, v) \in Event /\ q \in Timelines
  BY DEF Signal, Event, FenceEvent, Timelines
<1>3. /\ CallsCounted' /\ calls' \in 0 .. MaxCalls
      /\ awaited' \in [fence : Fences, values : SUBSET Values] \cup {NoWait}
      /\ commandQueues \subseteq Queues /\ flushing' \subseteq commandQueues
  BY <1>1, <1>2, CallCounts
<1>4. TrackerInv' /\ issued' \in [Queues -> Seq(Event)] /\ GpuFollows' /\ LoopRises'
  BY SignalKept, SignalBegun
<1>5. RecordingsKnown' /\ ServiceTypeOK'
  BY <1>1 DEF ReplayInv, ReplayTypeOK, RecordingsKnown, ServiceTypeOK, serviceVars
<1>. QED
  BY <1>1, <1>3, <1>4, <1>5, InvAfter DEF ReplayInv

LEMMA ReplayMakeResidentKeeps ==
  ASSUME ReplayInv, NEW f \in Fences, NEW v \in Values, ReplayMakeResident(f, v)
  PROVE  ReplayInv' /\ SettledFences' = [SettledFences EXCEPT ![f] = v] /\ Settle(issued)
<1>1. /\ Call /\ MaySignal(Paging, f, v) /\ UNCHANGED <<serviceVars, commandQueues, gpuFences>>
      /\ FenceSignal(f, v)
      /\ gpuTodo' = [gpuTodo EXCEPT ![Paging] = Append(@, Signal(f, v))]
  BY DEF ReplayMakeResident, GpuSubmit
<1>2. Signal(f, v) \in Event /\ Paging \in Timelines /\ Paging \notin Queues
  BY PagingAssumption DEF Signal, Event, FenceEvent, Timelines
<1>3. /\ CallsCounted' /\ calls' \in 0 .. MaxCalls
      /\ awaited' \in [fence : Fences, values : SUBSET Values] \cup {NoWait}
      /\ commandQueues \subseteq Queues /\ flushing' \subseteq commandQueues /\ ~Busy
  BY <1>1, <1>2, CallCounts
<1>4. BeginFenceSignal(f, v) /\ Settle(issued) /\ UNCHANGED <<queueEvents, readyExecutables>>
  BY <1>1 DEF FenceSignal
<1>5. /\ TrackerInv' /\ issued' \in [Queues -> Seq(Event)] /\ GpuFollows' /\ LoopRises'
      /\ SettledFences' = [SettledFences EXCEPT ![f] = v]
  <2>1. /\ TrackerInv' /\ issued' \in [Queues -> Seq(Event)] /\ GpuFollows' /\ LoopRises'
        /\ SettledFences' = AfterSignal(Signal(f, v), SettledFences)
    BY <1>1, <1>2, <1>3, <1>4, BeginFollows
  <2>. QED
    BY <2>1 DEF AfterSignal, Signal
<1>6. RecordingsKnown' /\ ServiceTypeOK'
  BY <1>1 DEF ReplayInv, ReplayTypeOK, RecordingsKnown, ServiceTypeOK, serviceVars
<1>. QED
  BY <1>1, <1>3, <1>4, <1>5, <1>6, InvAfter DEF ReplayInv

LEMMA ReplayFenceSignalKeeps ==
  ASSUME ReplayInv, NEW f \in Fences, NEW v \in Values, ReplayFenceSignal(f, v)
  PROVE  ReplayInv' /\ SettledFences' = [SettledFences EXCEPT ![f] = v] /\ Settle(issued)
<1>1. /\ Call /\ MaySignal(CPU, f, v) /\ UNCHANGED <<serviceVars, commandQueues, gpuTodo>>
      /\ FenceSignal(f, v) /\ gpuFences' = [gpuFences EXCEPT ![f] = v]
  BY DEF ReplayFenceSignal
<1>2. /\ CallsCounted' /\ calls' \in 0 .. MaxCalls
      /\ awaited' \in [fence : Fences, values : SUBSET Values] \cup {NoWait}
      /\ commandQueues \subseteq Queues /\ flushing' \subseteq commandQueues /\ ~Busy
  BY <1>1, CallCounts
<1>3. BeginFenceSignal(f, v) /\ Settle(issued) /\ UNCHANGED <<queueEvents, readyExecutables>>
  BY <1>1 DEF FenceSignal
<1>4. TrackerInv /\ TypeOK
  BY DEF ReplayInv, TrackerInv
<1>5. TrackerInv' /\ LoopRises' /\ SettledFences' = [SettledFences EXCEPT ![f] = v]
  BY <1>2, <1>3, <1>4, BeginKeeps, RisesBegun, SettledBegins
<1>6. /\ \A q \in Timelines : \A i \in 1 .. Len(gpuTodo[q]) : ~IsSignalOf(gpuTodo[q][i], f)
      /\ gpuFences[f] <= v \/ ~Waited(gpuTodo, f)
  <2>1. CPU \notin Timelines
    BY PagingAssumption DEF Timelines
  <2>2. /\ \A q \in Timelines : \A i \in 1 .. Len(gpuTodo[q]) : IsSignalOf(gpuTodo[q][i], f) => q = CPU
        /\ gpuFences[f] <= v \/ ~Waited(gpuTodo, f)
    BY <1>1, MaySignalIsAllowed
  <2>. QED
    BY <2>1, <2>2
<1>7. /\ Follows(gpuTodo, SettledFences, gpuFences, queueEvents, issued)
      /\ SettledFences' = Raised(SettledFences, f, v) /\ gpuFences' = Raised(gpuFences, f, v)
      /\ issued' = SettledBy(issued, SettledFences')
  BY <1>1, <1>3, <1>5 DEF ReplayInv, GpuFollows, Raised, Settle, SettledBy
<1>8. /\ TypedQueues(SettledBy(issued, SettledFences'))
      /\ Follows(gpuTodo, SettledFences', Raised(gpuFences, f, v), queueEvents,
                 SettledBy(issued, SettledFences'))
  BY ONLY <1>6, <1>7, FollowsRaise, f \in Fences, v \in Values
<1>9. issued' \in [Queues -> Seq(Event)] /\ GpuFollows'
  BY <1>1, <1>3, <1>7, <1>8 DEF GpuFollows, TypedQueues
<1>10. RecordingsKnown' /\ ServiceTypeOK'
  BY <1>1 DEF ReplayInv, ReplayTypeOK, RecordingsKnown, ServiceTypeOK, serviceVars
<1>. QED
  BY <1>1, <1>2, <1>3, <1>5, <1>9, <1>10, InvAfter DEF ReplayInv

\* The commands of a submission are the ones that were recorded last.
LEMMA SubmittedWork ==
  ASSUME ReplayInv, NEW lists \in Submission, \A i \in DOMAIN lists : recorded[lists[i]] # 0,
         AllKnown(lists)
  PROVE  /\ WorkOf(lists, recorded) \in Works
         /\ WorkOf(Known(lists), commandLists) = WorkOf(lists, recorded)
<1>1. WorkOf(lists, recorded) \in Works
  <2>1. recorded \in [Lists -> 0 .. MaxRecordings]
    BY DEF ReplayInv, ReplayTypeOK, ServiceTypeOK
  <2>. QED
    BY <2>1, WorksAssumption
<1>2. \A i \in DOMAIN lists : lists[i] \in Lists
  <2>1. PICK s \in SUBSET Lists : lists \in SetToSeqs(s)
    BY DEF Submission, SetToAllKPermutations
  <2>2. lists \in [1 .. Cardinality(s) -> s]
    BY <2>1 DEF SetToSeqs
  <2>. QED
    BY <2>2
<1>3. \A i \in DOMAIN lists : commandLists[lists[i]] = recorded[lists[i]]
  BY <1>2 DEF ReplayInv, RecordingsKnown, AllKnown
<1>4. WorkOf(lists, commandLists) = WorkOf(lists, recorded)
  BY <1>3 DEF WorkOf
<1>. QED
  BY <1>1, <1>4 DEF Known

\* An execution that its queue keeps, ...
LEMMA ExecuteKept ==
  ASSUME ReplayInv, NEW q \in Queues, NEW work \in Works, ~Busy, ExecuteOn(q, work, work),
         gpuTodo' = [gpuTodo EXCEPT ![q] = Append(@, Execute(work))], UNCHANGED gpuFences,
         IsCommandQueueWaiting(q)
  PROVE  /\ TrackerInv' /\ issued' \in [Queues -> Seq(Event)] /\ GpuFollows' /\ LoopRises'
         /\ Execute(work) \in Event /\ SettledFences' = SettledFences
         /\ Settle([issued EXCEPT ![q] = Append(@, Execute(work))])
<1>1. TrackerInv' /\ TypeOK'
  BY ExecuteKeeps DEF ReplayInv, TrackerInv
<1>2. /\ queueEvents' = [queueEvents EXCEPT ![q] = Append(@, Execute(work))]
      /\ UNCHANGED <<signaled, signaledFences>>
      /\ Settle([issued EXCEPT ![q] = Append(@, Execute(work))])
  BY DEF ExecuteOn, loopVars
<1>3. Execute(work) \in Event
  BY DEF Execute, Event
<1>4. SignalAllowed(gpuTodo, gpuFences, q, Execute(work)) /\ WaitAllowed(gpuTodo, gpuFences, Execute(work))
  BY DEF Execute, SignalAllowed, WaitAllowed, IsSignalOf, IsWaitFor, IsWait
<1>5. issued' \in [Queues -> Seq(Event)] /\ GpuFollows' /\ SettledFences' = SettledFences
  BY <1>2, <1>3, <1>4, SubmitFollows
<1>6. LoopRises'
  <2>1. ~Busy'
    BY <1>2 DEF Busy
  <2>. QED
    BY <1>1, <2>1, RisesIdle
<1>. QED
  BY <1>1, <1>2, <1>3, <1>5, <1>6

\* ... and one that is ready at once.
LEMMA ExecuteDone ==
  ASSUME ReplayInv, NEW q \in Queues, NEW work \in Works, ~Busy, ExecuteOn(q, work, work),
         gpuTodo' = [gpuTodo EXCEPT ![q] = Append(@, Execute(work))], UNCHANGED gpuFences,
         ~IsCommandQueueWaiting(q)
  PROVE  /\ TrackerInv' /\ issued' \in [Queues -> Seq(Event)] /\ GpuFollows' /\ LoopRises'
         /\ SettledFences' = SettledFences /\ issued[q] = <<>>
         /\ issued' = SettledBy(issued, SettledFences) /\ Execute(work) \in Event
<1>1. TrackerInv' /\ TypeOK'
  BY ExecuteKeeps DEF ReplayInv, TrackerInv
<1>2. UNCHANGED <<queueEvents, issued, signaled, signaledFences>> /\ queueEvents[q] = <<>>
  BY DEF ExecuteOn, loopVars, IsCommandQueueWaiting
<1>3. SettledFences' = SettledFences
  BY <1>2, SettledStays
<1>4. Execute(work) \in Event /\ q \in Timelines /\ ~IsWait(Execute(work))
  BY DEF Execute, Event, Timelines, IsWait
<1>5. SignalAllowed(gpuTodo, gpuFences, q, Execute(work))
  BY DEF Execute, SignalAllowed, IsSignalOf
<1>6. SettledFences' = AfterSignal(Execute(work), SettledFences)
  BY <1>3 DEF AfterSignal, Execute
<1>7. issued' = SettledBy(issued, SettledFences')
  <2>1. issued \in [Queues -> Seq(Event)] /\ Follows(gpuTodo, SettledFences, gpuFences, queueEvents, issued)
    BY DEF ReplayInv, ReplayTypeOK, GpuFollows
  <2>2. SettledBy(issued, SettledFences) = issued
    BY ONLY <2>1, FollowsIsSettled
  <2>. QED
    BY <1>2, <1>3, <2>2
<1>8. issued' \in [Queues -> Seq(Event)] /\ GpuFollows' /\ issued[q] = <<>>
  BY <1>2, <1>4, <1>5, <1>6, <1>7, DoneFollows
<1>9. LoopRises'
  <2>1. ~Busy'
    BY <1>2 DEF Busy
  <2>. QED
    BY <1>1, <2>1, RisesIdle
<1>. QED
  BY <1>1, <1>3, <1>4, <1>7, <1>8, <1>9

\* Either way the work is the one that was asked for.
LEMMA ExecutesRecorded ==
  ASSUME ReplayInv, NEW q \in Queues, NEW lists \in Submission, ReplayExecute(q, lists)
  PROVE  \E work \in Works :
           /\ ~Busy /\ ExecuteOn(q, work, work) /\ UNCHANGED gpuFences
           /\ gpuTodo' = [gpuTodo EXCEPT ![q] = Append(@, Execute(work))]
<1>1. ~Busy /\ ExecuteCommandLists(q, lists) /\ GpuSubmit(q, Execute(WorkOf(lists, recorded)))
  BY DEF ReplayExecute, Call, Ready, Idle
<1>2. /\ WorkOf(lists, recorded) \in Works
      /\ WorkOf(Known(lists), commandLists) = WorkOf(lists, recorded)
  <2>1. AllKnown(lists) /\ \A i \in DOMAIN lists : recorded[lists[i]] # 0
    BY <1>1 DEF ExecuteCommandLists, ReplayInv
  <2>. QED
    BY <2>1, SubmittedWork
<1>3. ExecuteOn(q, WorkOf(lists, recorded), WorkOf(lists, recorded))
  BY <1>1, <1>2 DEF ExecuteCommandLists
<1>. QED
  BY <1>1, <1>2, <1>3 DEF GpuSubmit

LEMMA ReplayExecuteKeeps ==
  ASSUME ReplayInv, NEW q \in Queues, NEW lists \in Submission, ReplayExecute(q, lists)
  PROVE  ReplayInv'
<1>1. PICK work \in Works : /\ ~Busy /\ ExecuteOn(q, work, work) /\ UNCHANGED gpuFences
                            /\ gpuTodo' = [gpuTodo EXCEPT ![q] = Append(@, Execute(work))]
  BY ExecutesRecorded
<1>2. /\ Call /\ commandQueues' = commandQueues \cup {q} /\ UNCHANGED <<recorded, serialized>>
      /\ commandLists' = [l \in Lists |-> IF Contains(lists, l) THEN 0 ELSE commandLists[l]]
  BY DEF ReplayExecute, ExecuteCommandLists
<1>3. Execute(work) \in Event /\ q \in Timelines
  BY DEF Execute, Event, Timelines
<1>4. /\ CallsCounted' /\ calls' \in 0 .. MaxCalls
      /\ awaited' \in [fence : Fences, values : SUBSET Values] \cup {NoWait}
      /\ commandQueues \subseteq Queues /\ flushing' \subseteq commandQueues
  BY <1>1, <1>2, <1>3, CallCounts
<1>5. TrackerInv' /\ issued' \in [Queues -> Seq(Event)] /\ GpuFollows' /\ LoopRises'
  BY <1>1, ExecuteKept, ExecuteDone
<1>6. RecordingsKnown' /\ ServiceTypeOK'
  <2>1. 0 \in 0 .. MaxRecordings
    BY MaxRecordingsAssumption
  <2>. HIDE DEF Contains
  <2>. QED
    BY <1>2, <2>1 DEF ReplayInv, ReplayTypeOK, RecordingsKnown, ServiceTypeOK
<1>7. commandQueues' \subseteq Queues /\ flushing' \subseteq commandQueues'
  BY <1>2, <1>4
<1>. QED
  BY <1>4, <1>5, <1>6, <1>7, InvAfter DEF ReplayInv

\* Steps that do nothing to the queues and the fences.
LEMMA QueuesStay ==
  ASSUME ReplayInv, UNCHANGED <<queueEvents, signaledFences, signaled, issued, gpuVars, calls>>
  PROVE  /\ GpuFollows' /\ LoopRises' /\ CallsCounted' /\ issued' \in [Queues -> Seq(Event)]
         /\ calls' \in 0 .. MaxCalls /\ SettledFences' = SettledFences
<1>1. UNCHANGED <<signaled, signaledFences, queueEvents, issued, gpuTodo, gpuFences, calls>>
  BY DEF gpuVars
<1>2. SettledFences' = SettledFences
  BY <1>1, SettledStays
<1>3. GpuFollows'
  BY <1>1, <1>2 DEF ReplayInv, GpuFollows
<1>4. LoopRises'
  BY <1>1, <1>2 DEF ReplayInv, LoopRises, Busy
<1>5. CallsCounted'
  BY <1>1 DEF ReplayInv, CallsCounted
<1>. QED
  BY <1>1, <1>2, <1>3, <1>4, <1>5 DEF ReplayInv, ReplayTypeOK

LEMMA TrackerStays ==
  ASSUME ReplayInv, UNCHANGED trackerVars PROVE TrackerInv'
BY StepTracker DEF ReplayInv

LEMMA ReplayRecordKeeps ==
  ASSUME ReplayInv, NEW l \in Lists, ReplayRecord(l)
  PROVE  ReplayInv' /\ SettledFences' = SettledFences
<1>1. /\ recorded[l] < MaxRecordings /\ recorded' = [recorded EXCEPT ![l] = @ + 1]
      /\ commandLists' = [commandLists EXCEPT ![l] = recorded[l] + 1]
      /\ UNCHANGED <<trackerVars, serialized, gpuVars, calls, awaited, commandQueues, flushing>>
  BY DEF ReplayRecord, RecordCommandList, playerVars
<1>2. UNCHANGED <<queueEvents, signaledFences, signaled, issued>>
  BY <1>1 DEF trackerVars, loopVars
<1>3. /\ GpuFollows' /\ LoopRises' /\ CallsCounted' /\ issued' \in [Queues -> Seq(Event)]
      /\ calls' \in 0 .. MaxCalls /\ SettledFences' = SettledFences
  BY <1>1, <1>2, QueuesStay
<1>4. TrackerInv'
  BY <1>1, TrackerStays
<1>5. RecordingsKnown' /\ ServiceTypeOK'
  <2>1. /\ recorded \in [Lists -> 0 .. MaxRecordings] /\ commandLists \in [Lists -> 0 .. MaxRecordings]
        /\ MaxRecordings \in Nat
    BY MaxRecordingsAssumption DEF ReplayInv, ReplayTypeOK, ServiceTypeOK
  <2>2. recorded[l] + 1 \in 0 .. MaxRecordings
    BY <1>1, <2>1
  <2>. QED
    BY <1>1, <2>1, <2>2 DEF ReplayInv, ReplayTypeOK, RecordingsKnown, ServiceTypeOK
<1>. QED
  BY <1>1, <1>3, <1>4, <1>5, InvAfter DEF ReplayInv, ReplayTypeOK

\* The executions are of the recordings of lists.
LEMMA SerializeKeeps ==
  ASSUME ReplayInv, Serialize
  PROVE  ReplayInv' /\ SettledFences' = SettledFences
<1>1. /\ ClearReadyExecutables /\ serialized' = serialized \o readyExecutables
      /\ UNCHANGED <<commandLists, recorded, gpuVars, calls, awaited, commandQueues, flushing>>
  BY DEF Serialize, ExecuteReadyExecutables, playerVars
<1>2. UNCHANGED <<queueEvents, signaledFences, signaled, issued>>
  BY <1>1 DEF ClearReadyExecutables, loopVars
<1>3. /\ GpuFollows' /\ LoopRises' /\ CallsCounted' /\ issued' \in [Queues -> Seq(Event)]
      /\ calls' \in 0 .. MaxCalls /\ SettledFences' = SettledFences
  BY <1>1, <1>2, QueuesStay
<1>4. TrackerInv'
  BY <1>1, StepTracker DEF ReplayInv, TrackerNext
<1>5. ServiceTypeOK'
  <2>. DEFINE Serial == [queue : Queues, work : Seq(Recording)]
  <2>1. Executable \subseteq Serial
    BY WorksAssumption DEF Executable
  <2>2. readyExecutables \in Seq(Executable) /\ serialized \in Seq(Serial)
    BY DEF ReplayInv, ReplayTypeOK, TypeOK, ServiceTypeOK
  <2>. HIDE DEF Serial
  <2>3. readyExecutables \in Seq(Serial)
    BY <2>1, <2>2
  <2>4. serialized' \in Seq(Serial)
    BY <1>1, <2>2, <2>3
  <2>. QED
    BY <1>1, <2>4 DEF ReplayInv, ReplayTypeOK, ServiceTypeOK, Serial
<1>6. RecordingsKnown'
  BY <1>1 DEF ReplayInv, RecordingsKnown
<1>. QED
  BY <1>1, <1>3, <1>4, <1>5, <1>6, InvAfter DEF ReplayInv, ReplayTypeOK

\* The player waits.
LEMMA PlayerKeeps ==
  ASSUME ReplayInv, UNCHANGED <<trackerVars, serviceVars, gpuVars, calls>>,
         awaited' \in [fence : Fences, values : SUBSET Values] \cup {NoWait},
         commandQueues' \subseteq Queues, flushing' \subseteq commandQueues'
  PROVE  ReplayInv' /\ SettledFences' = SettledFences
<1>1. UNCHANGED <<queueEvents, signaledFences, signaled, issued>>
  BY DEF trackerVars, loopVars
<1>2. /\ GpuFollows' /\ LoopRises' /\ CallsCounted' /\ issued' \in [Queues -> Seq(Event)]
      /\ calls' \in 0 .. MaxCalls /\ SettledFences' = SettledFences
  BY <1>1, QueuesStay
<1>3. TrackerInv'
  BY TrackerStays
<1>4. RecordingsKnown' /\ ServiceTypeOK'
  BY DEF serviceVars, ReplayInv, ReplayTypeOK, RecordingsKnown, ServiceTypeOK
<1>. QED
  BY <1>2, <1>3, <1>4, InvAfter DEF ReplayInv

LEMMA WaitsKeep ==
  ASSUME ReplayInv,
         \/ \E f \in Fences, v \in Values : WaitForFence(f, v)
         \/ FenceReached \/ FlushCommandQueues \/ \E q \in Queues : QueueFlushed(q)
         \/ UNCHANGED vars
  PROVE  ReplayInv' /\ SettledFences' = SettledFences
<1>1. /\ awaited \in [fence : Fences, values : SUBSET Values] \cup {NoWait}
      /\ commandQueues \subseteq Queues /\ flushing \subseteq commandQueues
  BY DEF ReplayInv, ReplayTypeOK
<1>2. ASSUME NEW f \in Fences, NEW v \in Values, WaitForFence(f, v)
      PROVE  ReplayInv' /\ SettledFences' = SettledFences
  <2>1. AwaitedValues(f, v) \in SUBSET Values
    BY DEF AwaitedValues
  <2>. QED
    BY <1>1, <1>2, <2>1, PlayerKeeps DEF WaitForFence
<1>3. CASE FenceReached
  BY <1>1, <1>3, PlayerKeeps DEF FenceReached
<1>4. CASE FlushCommandQueues
  BY <1>1, <1>4, PlayerKeeps DEF FlushCommandQueues
<1>5. ASSUME NEW q \in Queues, QueueFlushed(q) PROVE ReplayInv' /\ SettledFences' = SettledFences
  BY <1>1, <1>5, PlayerKeeps DEF QueueFlushed
<1>6. CASE UNCHANGED vars
  BY <1>1, <1>6, PlayerKeeps DEF vars, playerVars
<1>. QED
  BY <1>2, <1>3, <1>4, <1>5, <1>6
-----------------------------------------------------------------------------
(***************************************************************************)
(* The loop of the tracker and the GPU keep the invariant.                 *)
(***************************************************************************)
\* Fences that are waited for rise with what the tracker takes, ...
LEMMA FollowsUp ==
  ASSUME NEW G, NEW S, NEW F, NEW Q, NEW I, TypedQueues(Q), Follows(G, S, F, Q, I),
         NEW q \in Queues, Q[q] # <<>>, ~IsWait(Q[q][1]), NEW f \in Fences, Waited(G, f)
  PROVE  S[f] <= AfterSignal(Q[q][1], S)[f]
<1>1. PICK d : FollowsAt(G, d, S, F, Q, I)
  BY DEF Follows
<1>2. Ahead(G, d, S, F) /\ Tracked(G, d, S, Q) /\ Held(G, d, S) /\ q \in Timelines
  BY <1>1 DEF FollowsAt, Timelines
<1>3. d[q] + 1 <= Len(G[q]) /\ G[q][d[q] + 1] = Q[q][1]
  <2>1. /\ d[q] + 1 <= Len(G[q]) /\ G[q][d[q] + 1] = Q[q][1]
        /\ Tracked(G, [d EXCEPT ![q] = @ + 1], AfterSignal(Q[q][1], S), [Q EXCEPT ![q] = Tail(@)])
    BY <1>2, TrackedTaken DEF TypedQueues
  <2>. QED
    BY <2>1
<1>4. S[f] <= AfterSignal(G[q][d[q] + 1], S)[f]
  BY <1>2, <1>3, DoneIsUp
<1>. QED
  BY <1>3, <1>4

\* ... and what it waits for, the GPU waits for.
LEMMA FollowsWaited ==
  ASSUME NEW G, NEW S, NEW F, NEW Q, NEW I, TypedQueues(Q), Follows(G, S, F, Q, I),
         NEW q \in Queues, Q[q] # <<>>, IsWait(Q[q][1])
  PROVE  Waited(G, Q[q][1].fence) /\ Q[q][1].fence \in Fences
<1>1. PICK d : FollowsAt(G, d, S, F, Q, I)
  BY DEF Follows
<1>2. PICK m : Matches(G, d, S, Q, m)
  BY <1>1 DEF FollowsAt, Tracked
<1>3. 1 \in 1 .. Len(Q[q]) /\ Q[q][1] \in Event /\ q \in Timelines
  <2>1. Q[q] \in Seq(Event)
    BY DEF TypedQueues
  <2>. QED
    BY <2>1 DEF Timelines
<1>4. m[q][1] \in 1 .. Len(G[q]) /\ G[q][m[q][1]] = Q[q][1]
  BY <1>2, <1>3 DEF Matches
<1>5. Q[q][1].fence \in Fences
  BY <1>3, EventTyped DEF IsWait
<1>. QED
  BY <1>3, <1>4, <1>5 DEF Waited, IsWaitFor

LEMMA TakeIs ==
  ASSUME ReplayInv, NEW q \in Queues, TakeEvent(q)
  PROVE  /\ TypedQueues(queueEvents) /\ TypedQueues(issued)
         /\ Follows(gpuTodo, SettledFences, gpuFences, queueEvents, issued)
         /\ queueEvents[q] # <<>> /\ Head(queueEvents[q]) = queueEvents[q][1]
         /\ queueEvents[q][1] \in Event
         /\ queueEvents' = Without(queueEvents, q) /\ UNCHANGED signaledFences
         /\ signaled \in Seq(Signals) /\ signaled # <<>>
         /\ signaledFences \in [Fences -> Values] /\ SettledFences \in [Fences -> Values]
<1>1. TypeOK /\ LoopEnds
  BY DEF ReplayInv, TrackerInv
<1>2. queueEvents[q] # <<>> /\ q \in unscanned
  BY DEF TakeEvent, InScan, IsHeld
<1>3. queueEvents[q] \in Seq(Event) /\ signaled \in Seq(Signals) /\ signaledFences \in [Fences -> Values]
  BY <1>1 DEF TypeOK
<1>4. Head(queueEvents[q]) = queueEvents[q][1] /\ queueEvents[q][1] \in Event
  BY <1>2, <1>3
<1>5. signaled # <<>>
  BY <1>1, <1>2 DEF LoopEnds
<1>6. queueEvents' = Without(queueEvents, q) /\ UNCHANGED signaledFences
  BY DEF TakeEvent, Without
<1>7. /\ TypedQueues(queueEvents) /\ TypedQueues(issued)
      /\ Follows(gpuTodo, SettledFences, gpuFences, queueEvents, issued)
  BY DEF ReplayInv, ReplayTypeOK, TypeOK, GpuFollows, TypedQueues
<1>8. SettledFences \in [Fences -> Values]
  BY <1>1, SettledTyped
<1>. QED
  BY <1>2, <1>3, <1>4, <1>5, <1>6, <1>7, <1>8

\* A wait of the tracker is over.
LEMMA TakeWait ==
  ASSUME ReplayInv, NEW q \in Queues, TakeEvent(q), UNCHANGED gpuVars, IsWait(Head(queueEvents[q]))
  PROVE  /\ GpuFollows' /\ LoopRises' /\ UNCHANGED <<issued, readyExecutables>>
         /\ SettledFences' = SettledFences
<1>. DEFINE e == queueEvents[q][1]
<1>1. /\ TypedQueues(queueEvents) /\ TypedQueues(issued)
      /\ Follows(gpuTodo, SettledFences, gpuFences, queueEvents, issued)
      /\ queueEvents[q] # <<>> /\ Head(queueEvents[q]) = e /\ e \in Event
      /\ queueEvents' = Without(queueEvents, q) /\ UNCHANGED signaledFences
      /\ signaled # <<>>
      /\ signaledFences \in [Fences -> Values] /\ SettledFences \in [Fences -> Values]
  BY TakeIs
<1>2. IsWait(e) /\ Satisfied(e, signaledFences)
  BY <1>1 DEF TakeEvent, IsHeld
<1>3. /\ UNCHANGED <<signaled, readyExecutables, gpuTodo, gpuFences>>
      /\ issued' = SettledBy(issued, SettledFences')
  BY <1>1, <1>2 DEF TakeEvent, Settle, SettledBy, IsWait, gpuVars
<1>4. SettledFences' = SettledFences
  BY <1>1, <1>3, SettledStays
<1>5. issued' = issued
  <2>1. SettledBy(issued, SettledFences) = issued
    BY ONLY <1>1, FollowsIsSettled DEF TypedQueues
  <2>. QED
    BY <1>3, <1>4, <2>1
<1>6. Satisfied(e, SettledFences)
  <2>1. Waited(gpuTodo, e.fence) /\ e.fence \in Fences
    BY ONLY <1>1, <1>2, FollowsWaited, q \in Queues
  <2>2. signaledFences[e.fence] <= SettledFences[e.fence]
    BY <2>1 DEF ReplayInv, LoopRises
  <2>3. e.value \in Nat
    BY <1>1, <1>2, EventTyped DEF IsWait
  <2>4. signaledFences[e.fence] \in Nat /\ SettledFences[e.fence] \in Nat
    BY <1>1, <2>1, ValuesAreNat
  <2>5. signaledFences[e.fence] >= e.value
    BY <1>2 DEF Satisfied
  <2>6. SettledFences[e.fence] >= e.value
    BY ONLY <2>2, <2>3, <2>4, <2>5
  <2>. QED
    BY <1>2, <2>6 DEF Satisfied
<1>7. Follows(gpuTodo, SettledFences, gpuFences, Without(queueEvents, q), issued)
  BY ONLY <1>1, <1>6, FollowsDrop, q \in Queues
<1>8. GpuFollows'
  BY <1>1, <1>3, <1>4, <1>5, <1>7 DEF GpuFollows
<1>9. LoopRises'
  BY <1>1, <1>3, <1>4 DEF ReplayInv, LoopRises, Busy
<1>. QED
  BY <1>3, <1>4, <1>5, <1>8, <1>9

\* Work is taken from a queue: the fences come to what they are after it.
LEMMA TakenSettles ==
  ASSUME ReplayInv, NEW q \in Queues, TakeEvent(q), ~IsWait(Head(queueEvents[q]))
  PROVE  /\ SettledFences' = AfterSignal(Head(queueEvents[q]), SettledFences)
         /\ signaled'[1] = signaled[1]
         /\ \A i \in 1 .. Len(signaled') : \A f \in Fences : signaled'[i].fence = f =>
              \/ i \in 1 .. Len(signaled) /\ signaled'[i] = signaled[i]
              \/ signaled'[i].value = SettledFences'[f]
<1>. DEFINE e == queueEvents[q][1]
<1>1. /\ Head(queueEvents[q]) = e /\ e \in Event /\ UNCHANGED signaledFences
      /\ signaled \in Seq(Signals) /\ signaled # <<>>
      /\ signaledFences \in [Fences -> Values] /\ SettledFences \in [Fences -> Values]
  BY TakeIs
<1>2. signaled' = IF e.kind = "signal" THEN Append(signaled, [fence |-> e.fence, value |-> e.value])
                  ELSE signaled
  BY <1>1 DEF TakeEvent
<1>3. CASE e.kind = "signal"
  <2>1. PICK x \in Signals : x = [fence |-> e.fence, value |-> e.value]
    BY <1>1, <1>3, EventTyped DEF Signals
  <2>2. x.fence = e.fence /\ x.value = e.value /\ x.fence \in Fences /\ x.value \in Values
    BY <2>1 DEF Signals
  <2>3. signaled' = Append(signaled, x)
    BY <1>2, <1>3, <2>1
  <2>4. SettledFences' = [SettledFences EXCEPT ![x.fence] = x.value]
    <3>1. Applied(Append(signaled, x), signaledFences)
            = [Applied(signaled, signaledFences) EXCEPT ![x.fence] = x.value]
      BY <1>1, AppliedMore
    <3>. QED
      BY <1>1, <2>3, <3>1, SettledPrimed, SettledIsApplied
  <2>5. SettledFences' = AfterSignal(e, SettledFences)
    BY <1>3, <2>2, <2>4 DEF AfterSignal
  <2>6. SettledFences'[x.fence] = x.value
    BY <1>1, <2>2, <2>4
  <2>7. /\ signaled'[1] = signaled[1]
        /\ \A i \in 1 .. Len(signaled') :
             (i \in 1 .. Len(signaled) /\ signaled'[i] = signaled[i]) \/ signaled'[i] = x
    BY <1>1, <2>3
  <2>. QED
    BY <1>1, <2>5, <2>6, <2>7
<1>4. CASE e.kind # "signal"
  <2>1. signaled' = signaled
    BY <1>2, <1>4
  <2>2. SettledFences' = SettledFences
    BY <1>1, <2>1, SettledStays
  <2>. QED
    BY <1>1, <1>4, <2>1, <2>2 DEF AfterSignal
<1>. QED
  BY <1>3, <1>4

LEMMA TakeWork ==
  ASSUME ReplayInv, NEW q \in Queues, TakeEvent(q), UNCHANGED gpuVars, ~IsWait(Head(queueEvents[q]))
  PROVE  /\ issued' \in [Queues -> Seq(Event)] /\ GpuFollows' /\ LoopRises'
         /\ issued[q] # <<>> /\ Head(issued[q]) = Head(queueEvents[q])
         /\ Performed(issued[q]) = AllButHead(issued[q])
         /\ Settle([issued EXCEPT ![q] = Performed(@)])
<1>. DEFINE e == queueEvents[q][1]
<1>1. /\ TypedQueues(queueEvents) /\ TypedQueues(issued)
      /\ Follows(gpuTodo, SettledFences, gpuFences, queueEvents, issued)
      /\ queueEvents[q] # <<>> /\ Head(queueEvents[q]) = e /\ e \in Event
      /\ queueEvents' = Without(queueEvents, q) /\ UNCHANGED signaledFences
      /\ signaled \in Seq(Signals) /\ signaled # <<>>
      /\ signaledFences \in [Fences -> Values] /\ SettledFences \in [Fences -> Values]
  BY TakeIs
<1>2. ~IsWait(e) /\ SettledFences' = AfterSignal(e, SettledFences)
  BY <1>1, TakenSettles
<1>3. UNCHANGED <<gpuTodo, gpuFences>> /\ Settle([issued EXCEPT ![q] = Performed(@)])
  BY <1>1, <1>2 DEF TakeEvent, gpuVars
<1>4. issued' = SettledBy(Taken(issued, q), SettledFences')
  BY <1>3 DEF Settle, SettledBy, Taken
<1>5. /\ TypedQueues(SettledBy(Taken(issued, q), SettledFences'))
      /\ Follows(gpuTodo, SettledFences', gpuFences, Without(queueEvents, q),
                 SettledBy(Taken(issued, q), SettledFences'))
  BY ONLY <1>1, <1>2, FollowsTake, q \in Queues
<1>6. issued' \in [Queues -> Seq(Event)] /\ GpuFollows'
  BY <1>1, <1>3, <1>4, <1>5 DEF GpuFollows, TypedQueues
<1>7. issued[q] # <<>> /\ issued[q][1] = e /\ Performed(issued[q]) = AllButHead(issued[q])
  BY ONLY <1>1, <1>2, TakenIsIssued, q \in Queues
<1>8. Head(issued[q]) = e
  BY <1>1, <1>7 DEF TypedQueues
<1>9. LoopRises'
  <2>1. ASSUME NEW f \in Fences, Waited(gpuTodo, f)
        PROVE  /\ signaledFences[f] <= SettledFences'[f]
               /\ \A i \in 1 .. Len(signaled) :
                    signaled[i].fence = f => signaled[i].value <= SettledFences'[f]
               /\ SettledFences'[f] \in Nat
    <3>1. SettledFences[f] <= SettledFences'[f]
      <4>1. SettledFences[f] <= AfterSignal(e, SettledFences)[f]
        BY ONLY <1>1, <1>2, <2>1, FollowsUp, q \in Queues, f \in Fences
      <4>. QED
        BY <1>2, <4>1
    <3>2. SettledFences[f] \in Nat /\ signaledFences[f] \in Nat
      BY <1>1, ValuesAreNat
    <3>3. SettledFences'[f] \in Values
      <4>1. SettledFences' \in [Fences -> Values]
        <5>1. Follows(gpuTodo', SettledFences', gpuFences', queueEvents', issued')
          BY <1>6 DEF GpuFollows
        <5>. QED
          BY <5>1, FollowsTyped DEF Follows
      <4>. QED
        BY <4>1
    <3>4. SettledFences'[f] \in Nat
      BY <3>3, ValuesAreNat
    <3>5. \A i \in 1 .. Len(signaled) : signaled[i].value \in Nat
      <4>1. \A i \in 1 .. Len(signaled) : signaled[i] \in Signals
        BY <1>1
      <4>2. \A x \in Signals : x.value \in Nat
        BY ValuesAreNat DEF Signals
      <4>. QED
        BY <4>1, <4>2
    <3>6. /\ signaledFences[f] <= SettledFences[f]
          /\ \A i \in 1 .. Len(signaled) : signaled[i].fence = f => signaled[i].value <= SettledFences[f]
      BY <2>1 DEF ReplayInv, LoopRises
    <3>. QED
      BY <3>1, <3>2, <3>4, <3>5, <3>6
  <2>2. /\ signaled'[1] = signaled[1]
        /\ \A i \in 1 .. Len(signaled') : \A f \in Fences : signaled'[i].fence = f =>
             \/ i \in 1 .. Len(signaled) /\ signaled'[i] = signaled[i]
             \/ signaled'[i].value = SettledFences'[f]
    BY <1>1, <1>2, TakenSettles
  <2>3. ASSUME NEW f \in Fences, Waited(gpuTodo, f), NEW i \in 1 .. Len(signaled'), signaled'[i].fence = f
        PROVE  signaled'[i].value <= SettledFences'[f]
    BY <2>1, <2>2, <2>3
  <2>4. signaledFences[signaled[1].fence] = signaled[1].value
    BY <1>1 DEF ReplayInv, LoopRises, Busy
  <2>. QED
    BY <1>1, <1>3, <2>1, <2>2, <2>3, <2>4 DEF LoopRises
<1>. QED
  BY <1>1, <1>3, <1>6, <1>7, <1>8, <1>9

\* The next signal is applied.
LEMMA NextSignalFollows ==
  ASSUME ReplayInv, NextSignal, UNCHANGED gpuVars
  PROVE  /\ GpuFollows' /\ LoopRises' /\ UNCHANGED <<issued, readyExecutables>>
         /\ SettledFences' = SettledFences
<1>. DEFINE n == Len(signaled)
<1>1. /\ signaled \in Seq(Signals) /\ signaled # <<>> /\ n \in Nat /\ n >= 1
      /\ signaledFences \in [Fences -> Values]
      /\ \A i \in 1 .. n : signaled[i] \in Signals
  <2>1. signaled \in Seq(Signals) /\ signaled # <<>> /\ signaledFences \in [Fences -> Values]
    BY DEF NextSignal, Busy, ReplayInv, TrackerInv, TypeOK
  <2>. QED
    BY <2>1
<1>2. /\ signaled' = Tail(signaled) /\ UNCHANGED <<queueEvents, readyExecutables, issued, gpuTodo, gpuFences>>
      /\ signaledFences' = IF n = 1 THEN signaledFences
                           ELSE [signaledFences EXCEPT ![signaled[2].fence] = signaled[2].value]
  BY DEF NextSignal, gpuVars
<1>3. signaledFences[signaled[1].fence] = signaled[1].value
  BY <1>1 DEF ReplayInv, LoopRises, Busy
<1>4. SettledFences' = SettledFences
  <2>1. Applied(Tail(signaled), IF Len(signaled) = 1 THEN signaledFences
                                ELSE [signaledFences EXCEPT ![signaled[2].fence] = signaled[2].value])
          = Applied(signaled, signaledFences)
    BY <1>1, <1>3, AppliedNext
  <2>. QED
    BY <1>2, <2>1, SettledPrimed, SettledIsApplied
<1>5. GpuFollows'
  BY <1>2, <1>4 DEF ReplayInv, GpuFollows
<1>6. /\ Len(signaled') = n - 1
      /\ \A i \in 1 .. n - 1 : i + 1 \in 1 .. n /\ signaled'[i] = signaled[i + 1]
      /\ n = 1 => signaled' = <<>>
      /\ n # 1 => 2 \in 1 .. n /\ 1 \in 1 .. n - 1 /\ 1 + 1 = 2
  <2>1. /\ Tail(signaled) \in Seq(Signals) /\ Len(Tail(signaled)) = n - 1
        /\ \A i \in 1 .. n - 1 : Tail(signaled)[i] = signaled[i + 1]
    BY <1>1
  <2>2. ASSUME n = 1 PROVE Tail(signaled) = <<>>
    <3>1. PICK t \in Seq(Signals) : t = Tail(signaled)
      BY <2>1
    <3>2. Len(t) = 0
      BY <2>1, <2>2, <3>1
    <3>3. t = <<>>
      BY <3>2
    <3>. QED
      BY <3>1, <3>3
  <2>4. n \in Nat /\ n >= 1
    BY <1>1
  <2>. HIDE DEF n
  <2>3. /\ n # 1 => 2 \in 1 .. n /\ 1 \in 1 .. n - 1 /\ 1 + 1 = 2
        /\ \A i \in 1 .. n - 1 : i + 1 \in 1 .. n
    BY ONLY <2>4
  <2>. QED
    BY <1>2, <2>1, <2>2, <2>3
<1>7. Busy' => signaledFences'[signaled'[1].fence] = signaled'[1].value
  <2>1. CASE n = 1
    BY <1>6, <2>1 DEF Busy
  <2>2. CASE n # 1
    <3>1. signaled'[1] = signaled[2]
      BY <1>6, <2>2
    <3>2. signaled[2] \in Signals
      BY <1>1, <1>6, <2>2
    <3>3. signaled[2].fence \in Fences
      BY <3>2 DEF Signals
    <3>4. signaledFences' = [signaledFences EXCEPT ![signaled[2].fence] = signaled[2].value]
      BY <1>2, <2>2
    <3>. QED
      BY <1>1, <3>1, <3>3, <3>4
  <2>. QED
    BY <2>1, <2>2
<1>8. ASSUME NEW f \in Fences, Waited(gpuTodo, f)
      PROVE  /\ signaledFences'[f] <= SettledFences[f]
             /\ \A i \in 1 .. Len(signaled') :
                  signaled'[i].fence = f => signaled'[i].value <= SettledFences[f]
  <2>1. /\ signaledFences[f] <= SettledFences[f]
        /\ \A i \in 1 .. n : signaled[i].fence = f => signaled[i].value <= SettledFences[f]
    BY <1>8 DEF ReplayInv, LoopRises
  <2>2. signaledFences'[f] <= SettledFences[f]
    <3>1. CASE n = 1
      BY <1>2, <2>1, <3>1
    <3>2. CASE n # 1 /\ signaled[2].fence = f
      <4>1. signaledFences'[f] = signaled[2].value
        BY <1>1, <1>2, <3>2
      <4>. QED
        BY <1>6, <2>1, <3>2, <4>1
    <3>3. CASE n # 1 /\ signaled[2].fence # f
      <4>1. signaledFences'[f] = signaledFences[f]
        BY <1>1, <1>2, <3>3
      <4>. QED
        BY <2>1, <4>1
    <3>. QED
      BY <3>1, <3>2, <3>3
  <2>3. \A i \in 1 .. Len(signaled') : signaled'[i].fence = f => signaled'[i].value <= SettledFences[f]
    BY <1>6, <2>1
  <2>. QED
    BY <2>2, <2>3
<1>9. LoopRises'
  BY <1>2, <1>4, <1>7, <1>8 DEF LoopRises
<1>. QED
  BY <1>2, <1>4, <1>5, <1>9

LEMMA ContinueKeeps ==
  ASSUME ReplayInv, ContinueFenceSignal
  PROVE  ReplayInv'
<1>1. FenceSignalLoop /\ UNCHANGED <<serviceVars, gpuVars, calls, awaited, commandQueues, flushing>>
  BY DEF ContinueFenceSignal, playerVars
<1>2. TrackerInv'
  BY <1>1, StepTracker DEF ReplayInv, TrackerNext
<1>3. GpuFollows' /\ LoopRises' /\ issued' \in [Queues -> Seq(Event)]
  <2>0. issued \in [Queues -> Seq(Event)]
    BY DEF ReplayInv, ReplayTypeOK
  <2>1. ASSUME NEW q \in Queues, TakeEvent(q)
        PROVE  GpuFollows' /\ LoopRises' /\ issued' \in [Queues -> Seq(Event)]
    <3>1. CASE IsWait(Head(queueEvents[q]))
      BY <1>1, <2>0, <2>1, <3>1, TakeWait
    <3>2. CASE ~IsWait(Head(queueEvents[q]))
      BY <1>1, <2>1, <3>2, TakeWork
    <3>. QED
      BY <3>1, <3>2
  <2>2. ASSUME NEW q \in Queues, LeaveQueue(q)
        PROVE  GpuFollows' /\ LoopRises' /\ issued' \in [Queues -> Seq(Event)]
    BY <1>1, <2>2, QueuesStay DEF LeaveQueue
  <2>3. CASE NextSignal
    BY <1>1, <2>0, <2>3, NextSignalFollows
  <2>. QED
    BY <1>1, <2>1, <2>2, <2>3 DEF FenceSignalLoop
<1>4. CallsCounted' /\ RecordingsKnown' /\ ServiceTypeOK'
  BY <1>1 DEF gpuVars, serviceVars, ReplayInv, ReplayTypeOK, CallsCounted, RecordingsKnown, ServiceTypeOK
<1>. QED
  BY <1>1, <1>2, <1>3, <1>4, InvAfter DEF ReplayInv, ReplayTypeOK

\* The GPU performs an event, which the tracker has done.
LEMMA GpuPerformKeeps ==
  ASSUME ReplayInv, NEW q \in Timelines, GpuPerform(q)
  PROVE  ReplayInv' /\ SettledFences' = SettledFences
<1>1. /\ ~Busy /\ GpuMayPerform(q)
      /\ gpuFences' = AfterSignal(Head(gpuTodo[q]), gpuFences)
      /\ gpuTodo' = Without(gpuTodo, q)
      /\ UNCHANGED <<trackerVars, serviceVars, calls, awaited, commandQueues, flushing>>
  BY DEF GpuPerform, Idle, playerVars, Without
<1>2. UNCHANGED <<queueEvents, issued, signaled, signaledFences>>
  BY <1>1 DEF trackerVars, loopVars
<1>3. TypeOK /\ SettledFences = signaledFences /\ SettledFences' = SettledFences
  BY <1>1, <1>2, SettledStays, SettledTyped DEF ReplayInv, TrackerInv
<1>4. ASSUME NEW p \in Queues, queueEvents[p] # <<>>
      PROVE  IsWait(queueEvents[p][1]) /\ ~Satisfied(queueEvents[p][1], SettledFences)
  <2>1. IsHeld(p)
    BY <1>1 DEF ReplayInv, TrackerInv, ScannedAreHeld, LoopEnds, Busy
  <2>2. queueEvents[p] \in Seq(Event)
    BY <1>3 DEF TypeOK
  <2>3. Head(queueEvents[p]) = queueEvents[p][1]
    BY <1>4, <2>2
  <2>. QED
    BY <1>3, <1>4, <2>1, <2>3 DEF IsHeld
<1>5. /\ gpuTodo[q] \in Seq(Event) /\ gpuTodo[q] # <<>> /\ Head(gpuTodo[q]) = gpuTodo[q][1]
      /\ IsWait(gpuTodo[q][1]) => Satisfied(gpuTodo[q][1], gpuFences)
  <2>1. gpuTodo[q] \in Seq(Event) /\ gpuTodo[q] # <<>>
    BY <1>1 DEF GpuMayPerform, ReplayInv, ReplayTypeOK
  <2>2. Head(gpuTodo[q]) = gpuTodo[q][1]
    BY <2>1
  <2>. QED
    BY <1>1, <2>1, <2>2 DEF GpuMayPerform
<1>6. TypedQueues(queueEvents) /\ Follows(gpuTodo, SettledFences, gpuFences, queueEvents, issued)
  BY <1>3 DEF ReplayInv, TypeOK, GpuFollows, TypedQueues
<1>7. Follows(Without(gpuTodo, q), SettledFences, AfterSignal(gpuTodo[q][1], gpuFences), queueEvents, issued)
  BY ONLY <1>4, <1>5, <1>6, FollowsPop, q \in Timelines
<1>8. GpuFollows'
  BY <1>1, <1>2, <1>3, <1>5, <1>7 DEF GpuFollows
<1>9. TrackerInv' /\ LoopRises'
  <2>1. TrackerInv'
    BY <1>1, TrackerStays
  <2>2. ~Busy'
    BY <1>1, <1>2 DEF Busy
  <2>. QED
    BY <2>1, <2>2, RisesIdle DEF TrackerInv
<1>10. CallsCounted'
  <2>1. ASSUME NEW p \in Timelines PROVE Len(gpuTodo'[p]) <= calls
    <3>1. gpuTodo'[p] = IF p = q THEN Tail(gpuTodo[p]) ELSE gpuTodo[p]
      BY <1>1 DEF Without, ReplayInv, ReplayTypeOK
    <3>2. /\ gpuTodo[p] \in Seq(Event) /\ Len(gpuTodo[p]) <= calls /\ calls \in Nat
      BY DEF ReplayInv, ReplayTypeOK, CallsCounted
    <3>3. p = q => Len(Tail(gpuTodo[p])) <= Len(gpuTodo[p])
      BY <1>5, <3>2
    <3>4. Len(gpuTodo[p]) \in Nat /\ Len(gpuTodo'[p]) \in Nat
      BY <1>5, <3>1, <3>2
    <3>. QED
      BY <3>1, <3>2, <3>3, <3>4
  <2>. QED
    BY <1>1, <2>1 DEF CallsCounted
<1>11. RecordingsKnown' /\ ServiceTypeOK'
  BY <1>1 DEF serviceVars, ReplayInv, ReplayTypeOK, RecordingsKnown, ServiceTypeOK
<1>12. issued' \in [Queues -> Seq(Event)]
  BY <1>2 DEF ReplayInv, ReplayTypeOK
<1>. QED
  BY <1>1, <1>3, <1>8, <1>9, <1>10, <1>11, <1>12, InvAfter DEF ReplayInv, ReplayTypeOK

LEMMA StepReplay == ReplayInv /\ [Next]_vars => ReplayInv'
<1>. SUFFICES ASSUME ReplayInv, [Next]_vars PROVE ReplayInv'
  OBVIOUS
<1>1. ASSUME NEW q \in Queues, NEW f \in Fences, NEW v \in Values \ {0}, ReplayWait(q, f, v)
      PROVE  ReplayInv'
  BY <1>1, ReplayWaitKeeps
<1>2. ASSUME NEW q \in Queues, NEW f \in Fences, NEW v \in Values, ReplaySignal(q, f, v)
      PROVE  ReplayInv'
  BY <1>2, ReplaySignalKeeps
<1>3. ASSUME NEW f \in Fences, NEW v \in Values, ReplayFenceSignal(f, v) PROVE ReplayInv'
  BY <1>3, ReplayFenceSignalKeeps
<1>4. ASSUME NEW f \in Fences, NEW v \in Values, ReplayMakeResident(f, v) PROVE ReplayInv'
  BY <1>4, ReplayMakeResidentKeeps
<1>5. ASSUME NEW q \in Queues, NEW lists \in Submission, ReplayExecute(q, lists) PROVE ReplayInv'
  BY <1>5, ReplayExecuteKeeps
<1>6. ASSUME NEW l \in Lists, ReplayRecord(l) PROVE ReplayInv'
  BY <1>6, ReplayRecordKeeps
<1>7. CASE ContinueFenceSignal
  BY <1>7, ContinueKeeps
<1>8. CASE Serialize
  BY <1>8, SerializeKeeps
<1>9. ASSUME NEW q \in Timelines, GpuPerform(q) PROVE ReplayInv'
  BY <1>9, GpuPerformKeeps
<1>10. CASE \/ \E f \in Fences, v \in Values : WaitForFence(f, v)
            \/ FenceReached \/ FlushCommandQueues \/ \E q \in Queues : QueueFlushed(q)
            \/ UNCHANGED vars
  BY <1>10, WaitsKeep
<1>. QED
  BY <1>1, <1>2, <1>3, <1>4, <1>5, <1>6, <1>7, <1>8, <1>9, <1>10 DEF Next, PlayerGoesOn
-----------------------------------------------------------------------------
(***************************************************************************)
(* The executions are those of GPU queues.                                 *)
(***************************************************************************)
LEMMA GpuOperators ==
  /\ Gpu!Event = Event
  /\ \A e : Gpu!IsWait(e) = IsWait(e)
  /\ \A e, value : Gpu!AfterSignal(e, value) = AfterSignal(e, value)
  /\ \A events, value : Gpu!Passed(events, value) = Passed(events, value)
<1>1. Gpu!Event = Event
  BY DEF Gpu!Event, Event, Gpu!FenceEvent, FenceEvent, Gpu!Values, Values
<1>2. \A e : Gpu!IsWait(e) = IsWait(e)
  BY DEF Gpu!IsWait, IsWait
<1>3. \A e, value : Gpu!AfterSignal(e, value) = AfterSignal(e, value)
  BY DEF Gpu!AfterSignal, AfterSignal
<1>4. ASSUME NEW events, NEW value PROVE Gpu!Passed(events, value) = Passed(events, value)
  BY DEF Gpu!Passed, Passed, Gpu!Cardinality, Cardinality, Gpu!Satisfied, Satisfied, Gpu!IsWait, IsWait
<1>. QED
  BY <1>1, <1>2, <1>3, <1>4

LEMMA AppendLast ==
  ASSUME NEW T, NEW s \in Seq(T), NEW t \in Seq(T), NEW x \in T
  PROVE  s \o Append(t, x) = Append(s \o t, x)
OBVIOUS

LEMMA GpuSettles ==
  ASSUME NEW events, Settle(events) PROVE Gpu!Settle(events)
BY GpuOperators DEF Settle, Gpu!Settle

GpuStep == [Gpu!Next]_(Gpu!vars)

LEMMA GpuStutters ==
  ASSUME UNCHANGED <<issued, serialized, readyExecutables>>, SettledFences' = SettledFences
  PROVE  GpuStep
BY DEF GpuStep, Gpu!vars

\* A queue is given an event that it keeps, ...
LEMMA GpuSubmits ==
  ASSUME NEW q \in Queues, NEW e \in Event, UNCHANGED <<serialized, readyExecutables>>,
         SettledFences' = SettledFences, Settle([issued EXCEPT ![q] = Append(@, e)])
  PROVE  GpuStep
<1>1. Gpu!Settle([issued EXCEPT ![q] = Append(@, e)])
  BY GpuSettles
<1>2. Gpu!Submit(q, e)
  BY <1>1 DEF Gpu!Submit
<1>3. e \in Gpu!Event
  BY GpuOperators
<1>. QED
  BY <1>2, <1>3 DEF GpuStep, Gpu!Next

\* ... or one that it performs at once, ...
LEMMA GpuSubmitsAndPerforms ==
  ASSUME NEW q \in Queues, NEW e \in Event, issued[q] = <<>>, ~IsWait(e),
         SettledFences' = AfterSignal(e, SettledFences), Settle(issued),
         serialized' \o readyExecutables' =
           IF e.kind = "execute" THEN Append(serialized \o readyExecutables, [queue |-> q, work |-> e.work])
           ELSE serialized \o readyExecutables
  PROVE  GpuStep
<1>1. Gpu!Settle(issued)
  BY GpuSettles
<1>2. Gpu!Effect(q, e)
  BY GpuOperators DEF Gpu!Effect
<1>3. Gpu!SubmitAndPerform(q, e)
  BY <1>1, <1>2, GpuOperators DEF Gpu!SubmitAndPerform
<1>4. e \in Gpu!Event
  BY GpuOperators
<1>. QED
  BY <1>3, <1>4 DEF GpuStep, Gpu!Next

\* ... or it performs the first one that it has kept.
LEMMA GpuPerforms ==
  ASSUME NEW q \in Queues, NEW e, issued[q] # <<>>, Head(issued[q]) = e, ~IsWait(e),
         SettledFences' = AfterSignal(e, SettledFences),
         Settle([issued EXCEPT ![q] = AllButHead(@)]),
         serialized' \o readyExecutables' =
           IF e.kind = "execute" THEN Append(serialized \o readyExecutables, [queue |-> q, work |-> e.work])
           ELSE serialized \o readyExecutables
  PROVE  GpuStep
<1>1. Gpu!Settle([issued EXCEPT ![q] = Tail(@)])
  BY GpuSettles DEF AllButHead
<1>2. Gpu!Effect(q, Head(issued[q]))
  BY GpuOperators DEF Gpu!Effect
<1>3. Gpu!Perform(q)
  BY <1>1, <1>2, GpuOperators DEF Gpu!Perform
<1>. QED
  BY <1>3 DEF GpuStep, Gpu!Next

\* A fence is signalled by none of the queues.
LEMMA GpuSignals ==
  ASSUME NEW f \in Fences, NEW v \in Values, UNCHANGED <<serialized, readyExecutables>>,
         SettledFences' = [SettledFences EXCEPT ![f] = v], Settle(issued)
  PROVE  GpuStep
<1>1. Gpu!Settle(issued)
  BY GpuSettles
<1>2. Gpu!SignalFence(f, v)
  BY <1>1 DEF Gpu!SignalFence
<1>3. v \in Gpu!Values
  BY DEF Gpu!Values, Values
<1>. QED
  BY <1>2, <1>3 DEF GpuStep, Gpu!Next

\* The executions so far are a sequence, and so one can be added to it.
LEMMA ExecutedGrows ==
  ASSUME ReplayInv, NEW q \in Queues, NEW work \in Works, UNCHANGED serialized,
         readyExecutables' = Append(readyExecutables, [queue |-> q, work |-> work])
  PROVE  serialized' \o readyExecutables'
           = Append(serialized \o readyExecutables, [queue |-> q, work |-> work])
<1>. DEFINE Serial == [queue : Queues, work : Seq(Recording)]
<1>1. Executable \subseteq Serial
  BY WorksAssumption DEF Executable
<1>2. readyExecutables \in Seq(Executable) /\ serialized \in Seq(Serial)
  BY DEF ReplayInv, ReplayTypeOK, TypeOK, ServiceTypeOK
<1>3. [queue |-> q, work |-> work] \in Serial
  BY <1>1 DEF Executable
<1>4. PICK x \in Serial : x = [queue |-> q, work |-> work]
  BY <1>3
<1>. HIDE DEF Serial
<1>5. readyExecutables \in Seq(Serial)
  BY <1>1, <1>2
<1>6. serialized \o Append(readyExecutables, x) = Append(serialized \o readyExecutables, x)
  BY <1>2, <1>5, AppendLast
<1>. QED
  BY <1>4, <1>6

LEMMA InitGpu == ReplayInit => Gpu!Init
<1>. SUFFICES ASSUME ReplayInit PROVE Gpu!Init
  OBVIOUS
<1>1. /\ issued = [q \in Queues |-> <<>>] /\ signaledFences = [f \in Fences |-> 0]
      /\ signaled = <<>> /\ serialized = <<>> /\ readyExecutables = <<>>
  BY DEF ReplayInit, Init, ServiceInit
<1>2. SettledFences = signaledFences
  <2>1. TypeOK
    BY InitTracker DEF ReplayInit, TrackerInv
  <2>. QED
    BY <1>1, <2>1, SettledTyped DEF Busy
<1>3. serialized \o readyExecutables = <<>>
  BY <1>1
<1>. QED
  BY <1>1, <1>2, <1>3 DEF Gpu!Init

LEMMA WaitOfGpu ==
  ASSUME ReplayInv, NEW q \in Queues, NEW f \in Fences, NEW v \in Values, ReplayWait(q, f, v)
  PROVE  GpuStep
<1>1. CommandQueueWait(q, f, v) /\ UNCHANGED serialized
  BY DEF ReplayWait, serviceVars
<1>2. /\ UNCHANGED <<readyExecutables, signaled, signaledFences>>
      /\ Settle([issued EXCEPT ![q] = Append(@, Wait(f, v))])
  BY <1>1 DEF CommandQueueWait, loopVars
<1>3. SettledFences' = SettledFences
  BY <1>2, SettledStays
<1>4. Wait(f, v) \in Event
  BY DEF Wait, Event, FenceEvent
<1>. QED
  BY <1>1, <1>2, <1>3, <1>4, GpuSubmits

LEMMA SignalOfGpu ==
  ASSUME ReplayInv, NEW q \in Queues, NEW f \in Fences, NEW v \in Values, ReplaySignal(q, f, v)
  PROVE  GpuStep
<1>1. UNCHANGED <<serialized, readyExecutables>>
  BY DEF ReplaySignal, serviceVars, CommandQueueSignal
<1>2. CASE IsCommandQueueWaiting(q)
  <2>1. /\ Signal(f, v) \in Event /\ SettledFences' = SettledFences
        /\ Settle([issued EXCEPT ![q] = Append(@, Signal(f, v))])
    BY <1>2, SignalKept
  <2>. QED
    BY <1>1, <2>1, GpuSubmits
<1>3. CASE ~IsCommandQueueWaiting(q)
  <2>1. /\ SettledFences' = AfterSignal(Signal(f, v), SettledFences)
        /\ issued[q] = <<>> /\ Settle(issued)
    BY <1>3, SignalBegun
  <2>2. /\ Signal(f, v) \in Event /\ ~IsWait(Signal(f, v)) /\ Signal(f, v).kind # "execute"
    BY DEF Signal, Event, FenceEvent, IsWait
  <2>. QED
    BY <1>1, <2>1, <2>2, GpuSubmitsAndPerforms
<1>. QED
  BY <1>2, <1>3

LEMMA ExecuteOfGpu ==
  ASSUME ReplayInv, NEW q \in Queues, NEW lists \in Submission, ReplayExecute(q, lists)
  PROVE  GpuStep
<1>1. PICK work \in Works : /\ ~Busy /\ ExecuteOn(q, work, work) /\ UNCHANGED gpuFences
                            /\ gpuTodo' = [gpuTodo EXCEPT ![q] = Append(@, Execute(work))]
  BY ExecutesRecorded
<1>2. UNCHANGED serialized
  BY DEF ReplayExecute, ExecuteCommandLists
<1>3. CASE IsCommandQueueWaiting(q)
  <2>1. /\ Execute(work) \in Event /\ SettledFences' = SettledFences
        /\ Settle([issued EXCEPT ![q] = Append(@, Execute(work))])
    BY <1>1, <1>3, ExecuteKept
  <2>2. UNCHANGED readyExecutables
    BY <1>1, <1>3 DEF ExecuteOn
  <2>. QED
    BY <1>2, <2>1, <2>2, GpuSubmits
<1>4. CASE ~IsCommandQueueWaiting(q)
  <2>1. /\ Execute(work) \in Event /\ SettledFences' = SettledFences /\ issued[q] = <<>>
        /\ issued' = SettledBy(issued, SettledFences)
    BY <1>1, <1>4, ExecuteDone
  <2>2. Settle(issued)
    BY <2>1 DEF Settle, SettledBy
  <2>3. readyExecutables' = Append(readyExecutables, [queue |-> q, work |-> work])
    BY <1>1, <1>4 DEF ExecuteOn
  <2>4. serialized' \o readyExecutables'
          = Append(serialized \o readyExecutables, [queue |-> q, work |-> work])
    BY <1>2, <2>3, ExecutedGrows
  <2>5. /\ ~IsWait(Execute(work)) /\ Execute(work).kind = "execute" /\ Execute(work).work = work
        /\ AfterSignal(Execute(work), SettledFences) = SettledFences
    BY DEF Execute, IsWait, AfterSignal
  <2>. QED
    BY <2>1, <2>2, <2>4, <2>5, GpuSubmitsAndPerforms
<1>. QED
  BY <1>3, <1>4

LEMMA ContinueOfGpu ==
  ASSUME ReplayInv, ContinueFenceSignal
  PROVE  GpuStep
<1>1. FenceSignalLoop /\ UNCHANGED gpuVars /\ UNCHANGED serialized
  BY DEF ContinueFenceSignal, serviceVars
<1>2. ASSUME NEW q \in Queues, TakeEvent(q), IsWait(Head(queueEvents[q])) PROVE GpuStep
  <2>1. UNCHANGED <<issued, readyExecutables>> /\ SettledFences' = SettledFences
    BY <1>1, <1>2, TakeWait
  <2>. QED
    BY <1>1, <2>1, GpuStutters
<1>3. ASSUME NEW q \in Queues, TakeEvent(q), ~IsWait(Head(queueEvents[q])) PROVE GpuStep
  <2>. DEFINE e == Head(queueEvents[q])
  <2>1. /\ issued[q] # <<>> /\ Head(issued[q]) = e /\ Performed(issued[q]) = AllButHead(issued[q])
        /\ Settle([issued EXCEPT ![q] = Performed(@)])
    BY <1>1, <1>3, TakeWork
  <2>2. SettledFences' = AfterSignal(e, SettledFences) /\ e \in Event
    BY <1>3, TakenSettles, TakeIs
  <2>3. Settle([issued EXCEPT ![q] = AllButHead(@)])
    <3>1. [issued EXCEPT ![q] = AllButHead(@)] = [issued EXCEPT ![q] = Performed(@)]
      BY <2>1
    <3>. QED
      BY <2>1, <3>1
  <2>4. readyExecutables' = IF e.kind = "execute"
                            THEN Append(readyExecutables, [queue |-> q, work |-> e.work])
                            ELSE readyExecutables
    BY <1>3 DEF TakeEvent
  <2>5. e.kind = "execute" => e.work \in Works
    BY <2>2, EventTyped
  <2>. HIDE DEF e
  <2>6. serialized' \o readyExecutables' =
          IF e.kind = "execute" THEN Append(serialized \o readyExecutables, [queue |-> q, work |-> e.work])
          ELSE serialized \o readyExecutables
    <3>1. CASE e.kind = "execute"
      BY <1>1, <2>4, <2>5, <3>1, ExecutedGrows
    <3>2. CASE e.kind # "execute"
      BY <1>1, <2>4, <3>2
    <3>. QED
      BY <3>1, <3>2
  <2>7. ~IsWait(e)
    BY <1>3 DEF e
  <2>. QED
    BY <2>1, <2>2, <2>3, <2>6, <2>7, GpuPerforms
<1>4. ASSUME NEW q \in Queues, LeaveQueue(q) PROVE GpuStep
  <2>1. UNCHANGED <<issued, readyExecutables, signaled, signaledFences>>
    BY <1>4 DEF LeaveQueue
  <2>. QED
    BY <1>1, <2>1, SettledStays, GpuStutters
<1>5. CASE NextSignal
  <2>1. UNCHANGED <<issued, readyExecutables>> /\ SettledFences' = SettledFences
    BY <1>1, <1>5, NextSignalFollows
  <2>. QED
    BY <1>1, <2>1, GpuStutters
<1>. QED
  BY <1>1, <1>2, <1>3, <1>4, <1>5 DEF FenceSignalLoop

LEMMA StepGpu == ReplayInv /\ [Next]_vars => GpuStep
<1>. SUFFICES ASSUME ReplayInv, [Next]_vars PROVE GpuStep
  OBVIOUS
<1>1. ASSUME NEW q \in Queues, NEW f \in Fences, NEW v \in Values \ {0}, ReplayWait(q, f, v)
      PROVE  GpuStep
  BY <1>1, WaitOfGpu
<1>2. ASSUME NEW q \in Queues, NEW f \in Fences, NEW v \in Values, ReplaySignal(q, f, v)
      PROVE  GpuStep
  BY <1>2, SignalOfGpu
<1>3. ASSUME NEW f \in Fences, NEW v \in Values, ReplayFenceSignal(f, v) PROVE GpuStep
  <2>1. UNCHANGED <<serialized, readyExecutables>>
    BY <1>3 DEF ReplayFenceSignal, FenceSignal, serviceVars
  <2>. QED
    BY <1>3, <2>1, ReplayFenceSignalKeeps, GpuSignals
<1>4. ASSUME NEW f \in Fences, NEW v \in Values, ReplayMakeResident(f, v) PROVE GpuStep
  <2>1. UNCHANGED <<serialized, readyExecutables>>
    BY <1>4 DEF ReplayMakeResident, FenceSignal, serviceVars
  <2>. QED
    BY <1>4, <2>1, ReplayMakeResidentKeeps, GpuSignals
<1>5. ASSUME NEW q \in Queues, NEW lists \in Submission, ReplayExecute(q, lists) PROVE GpuStep
  BY <1>5, ExecuteOfGpu
<1>6. ASSUME NEW l \in Lists, ReplayRecord(l) PROVE GpuStep
  <2>1. UNCHANGED <<issued, serialized, readyExecutables>>
    BY <1>6 DEF ReplayRecord, RecordCommandList, trackerVars
  <2>. QED
    BY <1>6, <2>1, ReplayRecordKeeps, GpuStutters
<1>7. CASE ContinueFenceSignal
  BY <1>7, ContinueOfGpu
<1>8. CASE Serialize
  <2>1. /\ UNCHANGED issued /\ readyExecutables' = <<>> /\ serialized' = serialized \o readyExecutables
    BY <1>8 DEF Serialize, ExecuteReadyExecutables, ClearReadyExecutables
  <2>2. serialized' \o <<>> = serialized \o readyExecutables
    <3>1. serialized' \in Seq([queue : Queues, work : Seq(Recording)])
      BY <1>8, SerializeKeeps DEF ReplayInv, ReplayTypeOK, ServiceTypeOK
    <3>2. serialized' \o <<>> = serialized'
      BY <3>1
    <3>. QED
      BY <2>1, <3>2
  <2>3. SettledFences' = SettledFences
    BY <1>8, SerializeKeeps
  <2>. QED
    BY <2>1, <2>2, <2>3 DEF GpuStep, Gpu!vars
<1>9. ASSUME NEW q \in Timelines, GpuPerform(q) PROVE GpuStep
  <2>1. UNCHANGED <<issued, serialized, readyExecutables>>
    BY <1>9 DEF GpuPerform, trackerVars, serviceVars
  <2>. QED
    BY <1>9, <2>1, GpuPerformKeeps, GpuStutters
<1>10. CASE \/ \E f \in Fences, v \in Values : WaitForFence(f, v)
            \/ FenceReached \/ FlushCommandQueues \/ \E q \in Queues : QueueFlushed(q)
            \/ UNCHANGED vars
  <2>1. UNCHANGED <<issued, serialized, readyExecutables>>
    BY <1>10 DEF WaitForFence, FenceReached, FlushCommandQueues, QueueFlushed, vars, trackerVars,
                 serviceVars
  <2>. QED
    BY <1>10, <2>1, WaitsKeep, GpuStutters
<1>. QED
  BY <1>1, <1>2, <1>3, <1>4, <1>5, <1>6, <1>7, <1>8, <1>9, <1>10 DEF Next, PlayerGoesOn
-----------------------------------------------------------------------------
LEMMA ReplayInvariant == ~Resubmits => (Spec => []ReplayInv)
BY InitReplay, StepReplay, PTL DEF Spec

\* The tracker's queues, the work that the service serializes, and the queues and fences of
\* the GPU are well typed, also while the loop of FenceSignal runs (gpuExecutionTracker.cpp:52).
THEOREM ReplayTypeCorrect == ~Resubmits => (Spec => []ReplayTypeOK)
<1>1. ReplayInv => ReplayTypeOK
  BY DEF ReplayInv
<1>. QED
  BY <1>1, ReplayInvariant, PTL

\* However far the GPU is behind the calls, when it has come to rest its fences have the
\* values that the tracker gave WaitForFence, and its queues are left with the work that the
\* tracker holds (replayCustomizationLayer.cpp:2098, gpuExecutionFlusher.cpp:43).
THEOREM ReplaySettlesAsTracked == ~Resubmits => (Spec => []GpuSettlesAsTracked)
<1>1. ASSUME ReplayInv PROVE GpuSettlesAsTracked
  <2>. SUFFICES ASSUME ~Busy, \A q \in Timelines : ~GpuMayPerform(q)
                PROVE  /\ gpuFences = signaledFences
                       /\ \A q \in Queues : SameWork(queueEvents[q], gpuTodo[q])
    BY DEF GpuSettlesAsTracked, Idle
  <2>1. SettledFences = signaledFences
    BY <1>1, SettledTyped DEF ReplayInv, TrackerInv
  <2>2. TypedQueues(queueEvents) /\ Follows(gpuTodo, SettledFences, gpuFences, queueEvents, issued)
    BY <1>1 DEF ReplayInv, TrackerInv, TypeOK, GpuFollows, TypedQueues
  <2>3. ASSUME NEW q \in Timelines
        PROVE  ~(gpuTodo[q] # <<>> /\ (IsWait(gpuTodo[q][1]) => Satisfied(gpuTodo[q][1], gpuFences)))
    <3>1. gpuTodo[q] \in Seq(Event)
      BY <1>1 DEF ReplayInv, ReplayTypeOK
    <3>2. gpuTodo[q] # <<>> => Head(gpuTodo[q]) = gpuTodo[q][1]
      BY <3>1
    <3>. QED
      BY <3>2 DEF GpuMayPerform
  <2>4. gpuFences = SettledFences /\ \A q \in Queues : SameWork(queueEvents[q], gpuTodo[q])
    BY ONLY <2>2, <2>3, FollowsAtRest DEF TypedQueues
  <2>. QED
    BY <2>1, <2>4
<1>. QED
  BY <1>1, ReplayInvariant, PTL

\* Between two calls of the player the tracker holds back nothing that could be done, whatever
\* the calls are and in whatever order FenceSignal went through the queues.
THEOREM ReplayHoldsNothingBack == ~Resubmits => (Spec => []NothingHeldBack)
<1>1. ReplayInv => NothingHeldBack
  BY DEF ReplayInv, TrackerInv, ScannedAreHeld, LoopEnds, NothingHeldBack, Busy
<1>. QED
  BY <1>1, ReplayInvariant, PTL

\* The executions that the service serializes are those of a GPU that was given the same calls:
\* each queue in order, none past a wait that was not over, none left out and none with other
\* commands (commandListExecutionService.cpp:25).
THEOREM ReplayImplementsGpuQueues == ~Resubmits => (Spec => ImplementsGpuQueues)
<1>1. ReplayInv /\ [Next]_vars => [Gpu!Next]_(Gpu!vars)
  BY StepGpu DEF GpuStep
<1>. QED
  BY <1>1, InitGpu, ReplayInvariant, PTL DEF Spec, ImplementsGpuQueues, Gpu!Spec
=============================================================================
