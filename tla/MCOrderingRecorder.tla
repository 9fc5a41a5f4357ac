-------------------------- MODULE MCOrderingRecorder --------------------------
(***************************************************************************)
(* OrderingRecorder on small instances.                                    *)
(***************************************************************************)
EXTENDS OrderingRecorder, TLC

CONSTANTS t1, t2, c1

ThreadSymmetry == Permutations({t1, t2})
=============================================================================
