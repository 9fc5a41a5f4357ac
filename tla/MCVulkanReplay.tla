---------------------------- MODULE MCVulkanReplay ----------------------------
(***************************************************************************)
(* Instances of VulkanReplay.                                              *)
(***************************************************************************)
EXTENDS VulkanReplay

CONSTANTS q1, q2, s1, f1, f2, none, e1, e2

\* A frame that signals a semaphore and one that waits for it, a submit that waits for
\* the timeline, one that signals it and sets events, in a secondary command buffer too,
\* and one that does both and resets an event.
SmallSubmits ==
  {[EmptySubmit(f1) EXCEPT !.signals = {s1}],
   [EmptySubmit(f2) EXCEPT !.waits = {s1}],
   [EmptySubmit(f2) EXCEPT !.reach = 1],
   [EmptySubmit(none) EXCEPT !.counter = 2, !.effect.sets = {e1}, !.inner.sets = {e2}],
   [EmptySubmit(none) EXCEPT !.reach = 1, !.counter = 2, !.effect.resets = {e2}]}
=============================================================================
