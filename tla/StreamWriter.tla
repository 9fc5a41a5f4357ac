----------------------------- MODULE StreamWriter -----------------------------
(***************************************************************************)
(* stream::StreamWriter (common/stream/src/streamWriter.cpp).              *)
(*                                                                         *)
(* One thread records commands into uncompressed blocks, a pool of threads *)
(* compresses the full ones, each into the compressed block with the same  *)
(* index, and a writing thread appends the compressed blocks to the file   *)
(* in the order of their ids.  They share m_Mutex and three kinds of       *)
(* condition variables.                                                    *)
(*                                                                         *)
(* One action is one critical section of m_Mutex, or the work done on one  *)
(* block between two of them.  A thread that waits on a condition variable *)
(* leaves its wait state when it is notified, or for no reason at all, as  *)
(* C++ allows.                                                             *)
(***************************************************************************)
EXTENDS Integers, Sequences, FiniteSets

CONSTANTS Threads,              \* the compression threads
          Sizes,                \* the sizes of the serialized commands
          TRIGGER_BLOCK_SIZE,
          INITIAL_BLOCK_ALLOC,
          MaxCommands           \* bound: commands recorded

ASSUME ThreadsAssumption == IsFiniteSet(Threads) /\ Threads # {}
ASSUME SizesAssumption == Sizes \subseteq Nat \ {0}
ASSUME AllocAssumption == TRIGGER_BLOCK_SIZE \in Nat /\ INITIAL_BLOCK_ALLOC \in Nat
ASSUME MaxCommandsAssumption == MaxCommands \in Nat

VARIABLES
  stopThreads,          \* m_StopThreads
  recordedBlockId, writtenBlockId,
  currentRecordBlock,
  uncompressed,         \* m_UncompressedBlocks: data stands for Data, the commands in it
  compressed,           \* m_CompressedBlocks
  compressionQueue,     \* m_CompressionQueue
  waitsForWriteDone,    \* m_WaitsForWriteDone: the block waited for, if any
  recorder,             \* where the thread that calls Record and Close is
  size,                 \* the size of the command it is recording
  compressor,           \* where each compression thread is
  held,                 \* the block it works on
  writer,               \* where the writing thread is
  blockIndex, ready,    \* its locals: the block it looks at, readyBlocks # 0
  accepted,             \* history: the number of commands copied into blocks
  file                  \* the commands in m_Stream

recordVars   == <<recorder, size, currentRecordBlock, accepted>>
compressVars == <<compressor, held, waitsForWriteDone>>
writeVars    == <<writer, blockIndex, ready, writtenBlockId, file>>
vars == <<stopThreads, recordedBlockId, uncompressed, compressed, compressionQueue,
          recordVars, compressVars, writeVars>>

NUMBER_OF_BLOCKS == 2 * Cardinality(Threads)
Blocks == 0 .. NUMBER_OF_BLOCKS - 1
NoBlock == -1
Commands == 1..MaxCommands

Block == [id : Nat, data : Seq(Commands), dataSize : Nat, dataAlloc : Nat,
          full : BOOLEAN, compressing : BOOLEAN]
CompressedBlock == [id : Nat, data : Seq(Commands), full : BOOLEAN, compressing : BOOLEAN]

TypeOK ==
  /\ stopThreads \in BOOLEAN
  /\ recordedBlockId \in Nat /\ writtenBlockId \in Nat
  /\ currentRecordBlock \in Blocks
  /\ uncompressed \in [Blocks -> Block]
  /\ compressed \in [Blocks -> CompressedBlock]
  /\ compressionQueue \in Seq(Blocks)
  /\ waitsForWriteDone \in [Threads -> Blocks \cup {NoBlock}]
  /\ recorder \in {"idle", "find", "wait", "search", "copy", "publish", "notify",
                   "joinWriter", "joinThreads", "closed"}
  /\ size \in Sizes \cup {0}
  /\ compressor \in [Threads -> {"fetch", "waitRecord", "waitWrite", "compress",
                                 "notify", "exited"}]
  /\ held \in [Threads -> Blocks \cup {NoBlock}]
  /\ writer \in {"scan", "write", "wait", "exited"}
  /\ blockIndex \in Blocks /\ ready \in BOOLEAN
  /\ accepted \in Nat
  /\ file \in Seq(Commands)

Init ==
  /\ stopThreads = FALSE
  /\ recordedBlockId = 0 /\ writtenBlockId = 0
  /\ currentRecordBlock = 0
  /\ uncompressed = [b \in Blocks |-> [id |-> 0, data |-> <<>>, dataSize |-> 0,
                                       dataAlloc |-> INITIAL_BLOCK_ALLOC,
                                       full |-> FALSE, compressing |-> FALSE]]
  /\ compressed = [b \in Blocks |-> [id |-> 0, data |-> <<>>,
                                     full |-> FALSE, compressing |-> FALSE]]
  /\ compressionQueue = <<>>
  /\ waitsForWriteDone = [t \in Threads |-> NoBlock]
  /\ recorder = "idle" /\ size = 0
  /\ compressor = [t \in Threads |-> "fetch"]
  /\ held = [t \in Threads |-> NoBlock]
  /\ writer = "scan" /\ blockIndex = 0 /\ ready = FALSE
  /\ accepted = 0
  /\ file = <<>>
-----------------------------------------------------------------------------
(***************************************************************************)
(* The condition variables.  m_CompressionDoneCondition has two waiters,   *)
(* the recorder without a free block and the writer without a full one;    *)
(* the idle compression threads wait on m_RecordDoneCondition.             *)
(***************************************************************************)
\* Fault: notify_one, and it wakes the writer.
FaultNotifyOne == IF recorder = "wait" /\ writer # "wait" THEN "search" ELSE recorder
RecorderWoken == IF recorder = "wait" THEN "search" ELSE recorder
WriterWoken == IF writer = "wait" THEN "scan" ELSE writer
NotifyCompressionDone == recorder' = RecorderWoken /\ writer' = WriterWoken

NotifyOneRecordDone ==
  \/ \E t \in Threads : /\ compressor[t] = "waitRecord"
                        /\ compressor' = [compressor EXCEPT ![t] = "fetch"]
  \/ /\ \A t \in Threads : compressor[t] # "waitRecord"
     /\ UNCHANGED compressor

AllRecordWaitersWoken ==
  [t \in Threads |-> IF compressor[t] = "waitRecord" THEN "fetch" ELSE compressor[t]]

\* Fault: the threads stop without comparing the ids.
FaultStopAtOnce == stopThreads
AllWritten == stopThreads /\ writtenBlockId = recordedBlockId
-----------------------------------------------------------------------------
(***************************************************************************)
(* The recording thread: Record, FindBlockForRecord and Close.             *)
(***************************************************************************)
\* Fault: a full block that waits in the queue is taken for a free one.
FaultFreeUntilPopped == {b \in Blocks : ~uncompressed[b].compressing}
FreeBlocks == {b \in Blocks : ~uncompressed[b].full /\ ~uncompressed[b].compressing}

First(S) == {b \in S : \A c \in S : b <= c}
Fitting(s) == {b \in FreeBlocks : s <= uncompressed[b].dataAlloc}
Largest == {b \in FreeBlocks :
              \A c \in FreeBlocks : uncompressed[c].dataAlloc <= uncompressed[b].dataAlloc}

PublishBlock(b) ==
  /\ recordedBlockId' = recordedBlockId + 1
  /\ uncompressed' = [uncompressed EXCEPT ![b].id = recordedBlockId + 1, ![b].full = TRUE]
  /\ compressionQueue' = Append(compressionQueue, b)
  /\ NotifyOneRecordDone

\* Record goes on to copy into the block, Close publishes it if it holds anything.
UseBlock(b) ==
  /\ currentRecordBlock' = b
  /\ recorder' = IF stopThreads' THEN "notify" ELSE "copy"
  /\ IF stopThreads' /\ uncompressed[b].dataSize > 0
     THEN PublishBlock(b)
     ELSE UNCHANGED <<recordedBlockId, uncompressed, compressionQueue, compressor>>

SearchBlock(s) ==
  \/ \E b \in First(IF Fitting(s) # {} THEN Fitting(s) ELSE Largest) : UseBlock(b)
  \/ /\ FreeBlocks = {}
     /\ recorder' = "wait"
     /\ UNCHANGED <<currentRecordBlock, recordedBlockId, uncompressed, compressionQueue,
                    compressor>>

FindBlockForRecord(s) ==
  IF uncompressed[currentRecordBlock].full THEN SearchBlock(s)
                                           ELSE UseBlock(currentRecordBlock)

RecordVars == <<compressed, held, waitsForWriteDone, writeVars, accepted>>

RecordCommand ==
  /\ recorder = "idle" /\ ~stopThreads /\ accepted < MaxCommands
  /\ size' \in Sizes
  /\ UNCHANGED stopThreads
  /\ FindBlockForRecord(size')
  /\ UNCHANGED RecordVars

\* FindBlockForRecord after a wait.
ResumeSearch ==
  /\ recorder = "search"
  /\ UNCHANGED <<stopThreads, size>>
  /\ SearchBlock(size)
  /\ UNCHANGED RecordVars

\* Fault: the block keeps its allocation.
FaultSameAlloc(block) == block.dataAlloc
GrownAlloc(block) ==
  IF block.dataAlloc - block.dataSize < size THEN block.dataSize + size ELSE block.dataAlloc

CopyCommand ==
  /\ recorder = "copy"
  /\ LET block == uncompressed[currentRecordBlock]
         total == block.dataSize + size
     IN  /\ uncompressed' = [uncompressed EXCEPT ![currentRecordBlock] =
                               [block EXCEPT !.data = Append(@, accepted + 1),
                                             !.dataSize = total,
                                             !.dataAlloc = GrownAlloc(block)]]
         /\ recorder' = IF total > TRIGGER_BLOCK_SIZE THEN "publish" ELSE "idle"
  /\ accepted' = accepted + 1
  /\ UNCHANGED <<stopThreads, recordedBlockId, compressed, compressionQueue, size,
                 currentRecordBlock, compressVars, writeVars>>

Publish ==
  /\ recorder = "publish"
  /\ PublishBlock(currentRecordBlock)
  /\ recorder' = "idle"
  /\ UNCHANGED <<RecordVars, stopThreads, size, currentRecordBlock>>

CloseStream ==
  /\ recorder = "idle" /\ ~stopThreads
  /\ stopThreads' = TRUE
  /\ size' = 0
  /\ FindBlockForRecord(0)
  /\ UNCHANGED RecordVars

CloseVars == <<stopThreads, recordedBlockId, uncompressed, compressed, compressionQueue,
               size, currentRecordBlock, accepted, held, waitsForWriteDone,
               blockIndex, ready, writtenBlockId, file>>

CloseNotify ==
  /\ recorder = "notify"
  /\ recorder' = "joinWriter" /\ writer' = WriterWoken
  /\ UNCHANGED <<CloseVars, compressor>>

CloseJoinWriter ==
  /\ recorder = "joinWriter" /\ writer = "exited"
  /\ recorder' = "joinThreads" /\ compressor' = AllRecordWaitersWoken
  /\ UNCHANGED <<CloseVars, writer>>

CloseJoinThreads ==
  /\ recorder = "joinThreads" /\ \A t \in Threads : compressor[t] = "exited"
  /\ recorder' = "closed"
  /\ UNCHANGED <<CloseVars, compressor, writer>>
-----------------------------------------------------------------------------
(***************************************************************************)
(* A compression thread (Compress, WaitForWriteDone).                      *)
(***************************************************************************)
\* Fault: the compressed block is written into although it is still in use.
FaultNeverBusy(b) == FALSE
Busy(b) == compressed[b].full \/ compressed[b].compressing

CompressVars == <<stopThreads, recordedBlockId, size, currentRecordBlock, accepted,
                  blockIndex, ready, writtenBlockId, file>>

\* Leave(t) is an exit of the thread, GoTo(t, pc) any other step.
GoTo(t, pc) == compressor' = [compressor EXCEPT ![t] = pc] /\ UNCHANGED <<recorder, writer>>
Leave(t) == compressor' = [compressor EXCEPT ![t] = "exited"] /\ NotifyCompressionDone

StartCompression(t, b) ==
  /\ compressed' = [compressed EXCEPT ![b].compressing = TRUE]
  /\ IF AllWritten THEN Leave(t) ELSE GoTo(t, "compress")

FetchBlock(t) ==
  /\ compressor[t] = "fetch" /\ compressionQueue # <<>>
  /\ compressionQueue' = Tail(compressionQueue)
  /\ LET b == Head(compressionQueue)
     IN  /\ held' = [held EXCEPT ![t] = b]
         /\ uncompressed' = [uncompressed EXCEPT ![b].compressing = ~(Busy(b) /\ AllWritten)]
         /\ \/ /\ ~Busy(b)
               /\ StartCompression(t, b)
               /\ UNCHANGED waitsForWriteDone
            \/ /\ Busy(b)
               /\ IF AllWritten THEN Leave(t) ELSE GoTo(t, "waitWrite")
               /\ waitsForWriteDone' =
                    [waitsForWriteDone EXCEPT ![t] = IF AllWritten THEN @ ELSE b]
               /\ UNCHANGED compressed
  /\ UNCHANGED CompressVars

FetchNothing(t) ==
  /\ compressor[t] = "fetch" /\ compressionQueue = <<>>
  /\ IF AllWritten THEN Leave(t) ELSE GoTo(t, "waitRecord")
  /\ UNCHANGED <<CompressVars, uncompressed, compressed, compressionQueue, held,
                 waitsForWriteDone>>

\* WaitForWriteDone returns: its predicate is that NotifyWriteDone reset Waiting.
ResumeCompression(t) ==
  /\ compressor[t] = "waitWrite" /\ waitsForWriteDone[t] = NoBlock
  /\ StartCompression(t, held[t])
  /\ UNCHANGED <<CompressVars, uncompressed, compressionQueue, held, waitsForWriteDone>>

CompressBlock(t) ==
  /\ compressor[t] = "compress"
  /\ LET b == held[t]
     IN  /\ compressed' = [compressed EXCEPT ![b] =
                             [id |-> uncompressed[b].id, data |-> uncompressed[b].data,
                              full |-> TRUE, compressing |-> FALSE]]
         /\ uncompressed' = [uncompressed EXCEPT ![b] =
                               [@ EXCEPT !.data = <<>>, !.dataSize = 0,
                                         !.full = FALSE, !.compressing = FALSE]]
  /\ held' = [held EXCEPT ![t] = NoBlock]
  /\ GoTo(t, "notify")
  /\ UNCHANGED <<CompressVars, compressionQueue, waitsForWriteDone>>

NotifyCompressed(t) ==
  /\ compressor[t] = "notify"
  /\ compressor' = [compressor EXCEPT ![t] = "fetch"]
  /\ NotifyCompressionDone
  /\ UNCHANGED <<CompressVars, uncompressed, compressed, compressionQueue, held,
                 waitsForWriteDone>>
-----------------------------------------------------------------------------
(***************************************************************************)
(* The writing thread (WriteCompressedBlocks, NotifyWriteDone).            *)
(***************************************************************************)
\* Fault: the blocks are written in the order of their indices.
FaultAnyBlock(b) == compressed[b].full
IsNext(b) == compressed[b].full /\ compressed[b].id = writtenBlockId + 1

WaitersFor(b) == {t \in Threads : waitsForWriteDone[t] = b}

\* Fault: the scan goes one block too far.
FaultPastLastBlock == blockIndex = NUMBER_OF_BLOCKS
AtLastBlock == blockIndex = NUMBER_OF_BLOCKS - 1

\* The end of an iteration of the loop.
NextBlock(isReady) ==
  IF stopThreads /\ writtenBlockId' = recordedBlockId
  THEN writer' = "exited" /\ UNCHANGED <<blockIndex, ready>>
  ELSE /\ blockIndex' = IF AtLastBlock THEN 0 ELSE blockIndex + 1
       /\ ready' = (~AtLastBlock /\ isReady)
       /\ writer' = IF AtLastBlock /\ ~isReady THEN "wait" ELSE "scan"

WriteVars == <<stopThreads, recordedBlockId, uncompressed, compressionQueue, recordVars,
               compressor, held>>

StartWrite ==
  /\ writer = "scan" /\ IsNext(blockIndex)
  /\ writer' = "write"
  /\ UNCHANGED <<WriteVars, compressed, waitsForWriteDone, blockIndex, ready,
                 writtenBlockId, file>>

PassBlock ==
  /\ writer = "scan" /\ ~IsNext(blockIndex)
  /\ UNCHANGED writtenBlockId
  /\ NextBlock(ready \/ compressed[blockIndex].full)
  /\ UNCHANGED <<WriteVars, compressed, waitsForWriteDone, file>>

WriteBlock ==
  /\ writer = "write"
  /\ file' = file \o compressed[blockIndex].data
  /\ compressed' = [compressed EXCEPT ![blockIndex] = [@ EXCEPT !.data = <<>>, !.full = FALSE]]
  /\ writtenBlockId' = writtenBlockId + 1
  /\ \/ \E t \in WaitersFor(blockIndex) :
          waitsForWriteDone' = [waitsForWriteDone EXCEPT ![t] = NoBlock]
     \/ WaitersFor(blockIndex) = {} /\ UNCHANGED waitsForWriteDone
  /\ NextBlock(TRUE)
  /\ UNCHANGED WriteVars
-----------------------------------------------------------------------------
(***************************************************************************)
(* A spurious wakeup of a waiting thread.  The predicate of                *)
(* WaitForWriteDone absorbs those of the compression threads that wait for *)
(* the writer.                                                             *)
(***************************************************************************)
WakeSpuriously ==
  /\ \/ /\ recorder = "wait" /\ recorder' = "search"
        /\ UNCHANGED <<compressor, writer>>
     \/ \E t \in Threads : /\ compressor[t] = "waitRecord"
                           /\ GoTo(t, "fetch")
     \/ /\ writer = "wait" /\ writer' = "scan"
        /\ UNCHANGED <<compressor, recorder>>
  /\ UNCHANGED CloseVars

\* What the recording thread does once it is inside Record or Close.
RecorderStep ==
  \/ ResumeSearch \/ CopyCommand \/ Publish
  \/ CloseNotify \/ CloseJoinWriter \/ CloseJoinThreads

CompressorStep(t) ==
  \/ FetchBlock(t) \/ FetchNothing(t) \/ ResumeCompression(t)
  \/ CompressBlock(t) \/ NotifyCompressed(t)

WriterStep == StartWrite \/ PassBlock \/ WriteBlock

\* Nothing is left to do once Close() has returned.
Terminated == recorder = "closed" /\ UNCHANGED vars

Next ==
  \/ RecordCommand \/ CloseStream \/ RecorderStep
  \/ \E t \in Threads : CompressorStep(t)
  \/ WriterStep
  \/ WakeSpuriously
  \/ Terminated

Spec == Init /\ [][Next]_vars

(***************************************************************************)
(* Every thread runs; the application owes no call, and no thread may      *)
(* count on a spurious wakeup.                                             *)
(***************************************************************************)
Fairness ==
  /\ WF_vars(RecorderStep)
  /\ \A t \in Threads : WF_vars(CompressorStep(t))
  /\ WF_vars(WriterStep)

FairSpec == Spec /\ Fairness
-----------------------------------------------------------------------------
(***************************************************************************)
(* Properties.                                                             *)
(***************************************************************************)
(***************************************************************************)
(* The writer implements CommandFile: with several compression threads     *)
(* that finish in any order, the commands reach the file once each and in  *)
(* the order of the calls of Record, and all of them before Close returns. *)
(***************************************************************************)
Output == INSTANCE CommandFile WITH closed <- recorder = "closed"
ImplementsCommandFile == Output!FileSpec

QueuePlaces(b) == {i \in 1..Len(compressionQueue) : compressionQueue[i] = b}
Holders(b) == {t \in Threads : held[t] = b}

(***************************************************************************)
(* A full block has one owner, the queue or one compression thread, and    *)
(* any other block none: Record, which copies into a block outside of the  *)
(* mutex, and the threads, which read it outside of the mutex, never meet. *)
(***************************************************************************)
OneOwner ==
  \A b \in Blocks :
    Cardinality(QueuePlaces(b)) + Cardinality(Holders(b))
      = IF uncompressed[b].full THEN 1 ELSE 0

(***************************************************************************)
(* A compression thread writes into a compressed block, outside of the     *)
(* mutex, only while the writing thread does not need its contents: also   *)
(* after WaitForWriteDone, where it does not look at the block again.      *)
(***************************************************************************)
TargetIsFree ==
  \A t \in Threads :
    compressor[t] = "compress" =>
      /\ ~compressed[held[t]].full /\ compressed[held[t]].compressing
      /\ ~(writer = "write" /\ blockIndex = held[t])

(***************************************************************************)
(* No compression thread leaves with a block in its hands: the two exits   *)
(* of Compress below the queue are never taken.                            *)
(***************************************************************************)
NoBlockAbandoned == \A t \in Threads : compressor[t] = "exited" => held[t] = NoBlock

(***************************************************************************)
(* Record never copies past the end of a block, whichever block it gets    *)
(* from FindBlockForRecord.                                                *)
(***************************************************************************)
DataFits == \A b \in Blocks : uncompressed[b].dataSize <= uncompressed[b].dataAlloc

(***************************************************************************)
(* The wakeup the code can lose: the writing thread waits, having passed   *)
(* the block before it became full, and no compression thread is going to  *)
(* notify it again.                                                        *)
(***************************************************************************)
Stalled ==
  /\ writer = "wait" /\ \E b \in Blocks : IsNext(b)
  /\ \A t \in Threads : \/ compressor[t] = "waitRecord"
                        \/ compressor[t] = "fetch" /\ compressionQueue = <<>>
                        \/ compressor[t] = "waitWrite" /\ waitsForWriteDone[t] # NoBlock

(***************************************************************************)
(* The lost wakeup is the only way to hang: but for it, every call of      *)
(* Record finds a free block, and Close returns.                           *)
(***************************************************************************)
CallReturnsOrStalls ==
  recorder \notin {"idle", "closed"} ~> (recorder \in {"idle", "closed"} \/ Stalled)

(***************************************************************************)
(* Close, the clean shutdown of the recorder, returns.                     *)
(***************************************************************************)
CloseCompletes == stopThreads ~> recorder = "closed"
=============================================================================
