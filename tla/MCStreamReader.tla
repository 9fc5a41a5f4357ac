---------------------------- MODULE MCStreamReader ----------------------------
(***************************************************************************)
(* Instances of StreamReader: two decompression threads have four blocks,  *)
(* one has two.  But for OneOwner, which is proved, the properties of the  *)
(* run `reader' say nothing beyond the first early return of               *)
(* WaitForRunDone, so it does not look there (BeforeEarly).                *)
(***************************************************************************)
EXTENDS StreamReader

CONSTANTS t1, t2

BeforeEarly == ~early
=============================================================================
