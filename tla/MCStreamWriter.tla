---------------------------- MODULE MCStreamWriter ----------------------------
(***************************************************************************)
(* Instances of StreamWriter: two compression threads have four blocks,    *)
(* one has two.                                                            *)
(***************************************************************************)
EXTENDS StreamWriter

CONSTANTS t1, t2
=============================================================================
