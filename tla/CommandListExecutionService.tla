--------------------- MODULE CommandListExecutionService ---------------------
(***************************************************************************)
(* CommandListExecutionService (DirectX/layers/execution_serialization):   *)
(* the player follows the calls of a stream with a GpuExecutionTracker and *)
(* records a second stream, in which the command lists are executed one at *)
(* a time, in the order in which the GPU would execute them.               *)
(*                                                                         *)
(* A recording of a command list, from Reset to Close, is one number: the  *)
(* commands stay in m_CommandListsByKey until the list is executed, and    *)
(* then move to the execution.                                             *)
(***************************************************************************)
EXTENDS GpuExecutionTracker, SequencesExt

CONSTANTS Lists,          \* the command lists
          MaxRecordings,  \* how often each may be recorded
          Resubmits       \* whether a list may be executed twice with one recording

ASSUME MaxRecordingsAssumption == MaxRecordings \in Nat
ASSUME ResubmitsAssumption == Resubmits \in BOOLEAN

VARIABLES
  commandLists,   \* m_CommandListsByKey: the recording of each list, 0 if there is no entry
  recorded,       \* history: the last recording of each list
  serialized      \* the executions in the serialized stream

serviceVars == <<commandLists, recorded, serialized>>

Recording == [list : Lists, recording : 1..MaxRecordings]
Submission == SetToAllKPermutations(Lists) \ {<<>>}

WorkOf(lists, recording) ==
  [i \in DOMAIN lists |-> [list |-> lists[i], recording |-> recording[lists[i]]]]

ASSUME WorksAssumption ==
  /\ \A work \in Works : work \in Seq(Recording)
  /\ \A lists \in Submission, recording \in [Lists -> 0..MaxRecordings] :
       (\A i \in DOMAIN lists : recording[lists[i]] # 0) => WorkOf(lists, recording) \in Works

ServiceTypeOK ==
  /\ commandLists \in [Lists -> 0..MaxRecordings]
  /\ recorded \in [Lists -> 0..MaxRecordings]
  /\ serialized \in Seq([queue : Queues, work : Seq(Recording)])

ServiceInit ==
  /\ commandLists = [l \in Lists |-> 0]
  /\ recorded = [l \in Lists |-> 0]
  /\ serialized = <<>>

\* A call of the layer ends with ExecuteReadyExecutables.
Idle == ~Busy /\ readyExecutables = <<>>

\* Reset, the commands and Close.
RecordCommandList(l) ==
  /\ Idle
  /\ recorded[l] < MaxRecordings
  /\ recorded' = [recorded EXCEPT ![l] = @ + 1]
  /\ commandLists' = [commandLists EXCEPT ![l] = recorded[l] + 1]
  /\ UNCHANGED <<trackerVars, serialized>>

AllKnown(lists) == \A i \in DOMAIN lists : commandLists[lists[i]] # 0
\* A list without an entry is passed over.
Known(lists) == IF AllKnown(lists) THEN lists ELSE SelectSeq(lists, LAMBDA l : commandLists[l] # 0)

ExecuteCommandLists(q, lists) ==
  /\ Idle
  /\ \A i \in DOMAIN lists : recorded[lists[i]] # 0
  /\ Resubmits \/ AllKnown(lists)
  /\ ExecuteOn(q, WorkOf(Known(lists), commandLists), WorkOf(lists, recorded))
  /\ commandLists' = [l \in Lists |-> IF Contains(lists, l) THEN 0 ELSE commandLists[l]]
  /\ UNCHANGED <<recorded, serialized>>

ExecuteReadyExecutables ==
  /\ ClearReadyExecutables
  /\ serialized' = serialized \o readyExecutables
  /\ UNCHANGED <<commandLists, recorded>>

ServiceNext ==
  \/ \E l \in Lists : RecordCommandList(l)
  \/ \E q \in Queues, lists \in Submission : ExecuteCommandLists(q, lists)
  \/ ExecuteReadyExecutables
-----------------------------------------------------------------------------
(***************************************************************************)
(* The executions that the tracker reports and the service serializes are  *)
(* those that a GPU performs which was given the same calls, in an order   *)
(* in which it may perform them: no execution before one that was given to *)
(* the same queue earlier, none before a wait given earlier could be       *)
(* passed, none with other commands, none left out                         *)
(* (commandListExecutionService.cpp, gpuExecutionTracker.cpp).             *)
(***************************************************************************)
Gpu == INSTANCE GpuQueues WITH todo <- issued, value <- SettledFences,
                               executed <- serialized \o readyExecutables
ImplementsGpuQueues == Gpu!Spec
=============================================================================
