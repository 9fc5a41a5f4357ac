------------------------------ MODULE CommandFile ------------------------------
(***************************************************************************)
(* What a StreamWriter promises to its caller: the commands it accepted    *)
(* reach the file in the order in which they were accepted, each of them   *)
(* once, in batches that it cuts as it likes; and once it is closed the    *)
(* file holds them all.                                                    *)
(***************************************************************************)
EXTENDS Naturals, Sequences

VARIABLES accepted,  \* the number of commands accepted: the commands are 1..accepted
          file,      \* the commands in the file
          closed     \* Close() has returned

FileInit == accepted = 0 /\ file = <<>> /\ closed = FALSE

Accept ==
  /\ ~closed
  /\ accepted' = accepted + 1
  /\ UNCHANGED <<file, closed>>

\* The commands after the last one in the file, up to some accepted one.
Flush ==
  /\ ~closed
  /\ \E last \in Len(file) + 1 .. accepted : file' = [i \in 1..last |-> i]
  /\ UNCHANGED <<accepted, closed>>

Finish ==
  /\ ~closed /\ Len(file) = accepted
  /\ closed' = TRUE
  /\ UNCHANGED <<accepted, file>>

FileSpec == FileInit /\ [][Accept \/ Flush \/ Finish]_<<accepted, file, closed>>
=============================================================================
