---------------------------- MODULE OrderedStream ----------------------------
(***************************************************************************)
(* What the recording pipeline promises to the player: the stream holds    *)
(* the commands in the order of their keys, and never a command whose      *)
(* predecessors are not all accounted for.                                 *)
(*                                                                         *)
(* Keys may be submitted in any order.  Skip(k) says that no command will  *)
(* come for k, and wins over a later Record(k).                            *)
(***************************************************************************)
EXTENDS Integers, Sequences

CONSTANT Keys        \* the keys of the session: 1, 2, ...

VARIABLES recorded,  \* the keys a command was submitted for
          skipped,   \* the keys submitted as skipped
          written    \* the stream

streamVars == <<recorded, skipped, written>>

InStream(k) == \E i \in 1..Len(written) : written[i] = k

StreamTypeOK ==
  /\ recorded \subseteq Keys /\ skipped \subseteq Keys
  /\ written \in Seq(Keys)

StreamInit == recorded = {} /\ skipped = {} /\ written = <<>>

Submit(k) ==
  /\ k \notin recorded
  /\ recorded' = recorded \cup {k}
  /\ UNCHANGED <<skipped, written>>

Omit(k) ==
  /\ k \notin recorded \cup skipped
  /\ skipped' = skipped \cup {k}
  /\ UNCHANGED <<recorded, written>>

Write(k) ==
  /\ k \in recorded \ skipped
  /\ ~InStream(k)
  /\ \A j \in 1..(k - 1) : j \in skipped \/ InStream(j)
  /\ written' = Append(written, k)
  /\ UNCHANGED <<recorded, skipped>>

StreamNext == \E k \in Keys : Submit(k) \/ Omit(k) \/ Write(k)

StreamSpec == StreamInit /\ [][StreamNext]_streamVars

(***************************************************************************)
(* The stream replays calls in the order in which they were made.          *)
(***************************************************************************)
StreamOrdered == \A i, j \in 1..Len(written) : i < j => written[i] < written[j]

(***************************************************************************)
(* A command is in the stream only if every call made before it is there   *)
(* too, or was declared to have no command: the stream is a prefix.        *)
(***************************************************************************)
StreamGapFree ==
  \A k \in Keys : InStream(k) =>
     /\ k \in recorded \ skipped
     /\ \A j \in 1..(k - 1) : j \in skipped \/ InStream(j)
=============================================================================
