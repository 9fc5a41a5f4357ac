---------------------------- MODULE MCGpuReplay ----------------------------
(***************************************************************************)
(* Instances of GpuReplay.                                                 *)
(***************************************************************************)
EXTENDS GpuReplay

CONSTANTS q1, q2, f1, f2, l1, l2, paging, cpu

\* What the application executes, one list at a time.
SmallWorks == {<<[list |-> l, recording |-> r]>> : l \in Lists, r \in 1..MaxRecordings}

\* Each queue signals a fence, the application raises and lowers the first one, and the
\* system signals it too.
SmallSignallings ==
  {<<q1, f1, 1>>, <<paging, f1, 1>>, <<cpu, f1, 0>>, <<cpu, f1, 2>>, <<q2, f2, 1>>}
=============================================================================
