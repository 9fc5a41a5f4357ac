------------------------------- MODULE Playback -------------------------------
(***************************************************************************)
(* What a stream reader promises to the player: Run runs the commands of   *)
(* the stream one at a time, in the order of the stream, each of them      *)
(* once; and it returns when all have run, or after a command closed the   *)
(* reader.                                                                 *)
(***************************************************************************)
EXTENDS Naturals, Sequences

CONSTANTS Length,     \* the number of commands in the stream
          Closing     \* the commands that may close the reader

VARIABLES executed,   \* the commands run so far
          closed,     \* Close() was called
          returned    \* Run() has returned

PlaybackInit == executed = <<>> /\ closed = FALSE /\ returned = FALSE

RunNext ==
  /\ ~closed /\ ~returned /\ Len(executed) < Length
  /\ LET command == Len(executed) + 1
     IN  /\ executed' = Append(executed, command)
         /\ closed' \in IF command \in Closing THEN BOOLEAN ELSE {FALSE}
  /\ UNCHANGED returned

Return ==
  /\ ~returned /\ (closed \/ Len(executed) = Length)
  /\ returned' = TRUE
  /\ UNCHANGED <<executed, closed>>

PlaybackSpec == PlaybackInit /\ [][RunNext \/ Return]_<<executed, closed, returned>>
=============================================================================
