----------------------------- MODULE StreamReader -----------------------------
(***************************************************************************)
(* stream::StreamReader (common/stream/src/streamReader.cpp).              *)
(*                                                                         *)
(* A reading thread reads compressed blocks from the stream, a pool of     *)
(* threads decompresses and decodes them, each into the uncompressed block *)
(* with the same index, and the thread that called Run runs the commands   *)
(* of the blocks in the order of their ids.  Close is called by a command  *)
(* that Run runs, at the end of a frame (player/streamPlayer.cpp).         *)
(*                                                                         *)
(* One action is one critical section of m_Mutex, the work done on one     *)
(* block between two of them, or the run of one command.  Every wait may    *)
(* also end without a notification, as C++ allows.  That of WaitForRunDone *)
(* is not repeated, and the thread then decodes into a block that Run may  *)
(* be running: from that on the program has a data race, and early says in *)
(* the properties that they claim nothing more.                            *)
(***************************************************************************)
EXTENDS Integers, Sequences, FiniteSets

CONSTANTS Threads,           \* the decompression threads
          StreamBlocks,      \* the number of blocks in the stream
          BlockCommands,     \* the number of commands in each of them
          Closing            \* the commands that may call Close

ASSUME ThreadsAssumption == IsFiniteSet(Threads)
ASSUME StreamAssumption == StreamBlocks \in Nat /\ BlockCommands \in Nat \ {0}
ASSUME ClosingAssumption == Closing \subseteq Nat

VARIABLES
  readFinished, runFinished,   \* m_ReadFinished, m_RunFinished
  lastRead,                    \* m_LastRead
  closed,                      \* m_Closed
  compressed,                  \* m_CompressedBlocks
  uncompressed,                \* m_UncompressedBlocks
  decompressionQueue,          \* m_DecompressionQueue
  waitsForRunDone,             \* m_WaitsForRunDone: the block waited for, if any
  reader,                      \* where the reading thread is
  readBlock,                   \* the block it fills
  decompressor,                \* where each decompression thread is
  held,                        \* the block it works on
  early,                       \* whether WaitForRunDone has returned without a notification
  runner,                      \* where Run is
  runId, runBlock, runNext,    \* its locals: blockId, block, the next of its runners
  executed                     \* the commands run so far

readVars == <<reader, readBlock, lastRead, readFinished>>
decompressVars == <<decompressor, held, waitsForRunDone, early>>
runVars == <<runner, runId, runBlock, runNext, executed, closed, runFinished>>
vars == <<compressed, uncompressed, decompressionQueue, readVars, decompressVars, runVars>>

NUMBER_OF_BLOCKS == 2 * Cardinality(Threads)
Blocks == 0 .. NUMBER_OF_BLOCKS - 1
NoBlock == -1
Commands == 1 .. StreamBlocks * BlockCommands

\* The commands in the block of the stream with this id.
CommandsOf(id) == [i \in 1..BlockCommands |-> (id - 1) * BlockCommands + i]

CompressedBlock == [id : Nat, full : BOOLEAN, decompressing : BOOLEAN]
UncompressedBlock == [id : Nat, runners : Seq(Commands), full : BOOLEAN,
                      decompressing : BOOLEAN]

TypeOK ==
  /\ readFinished \in BOOLEAN /\ runFinished \in BOOLEAN /\ closed \in BOOLEAN
  /\ lastRead \in 0..StreamBlocks
  /\ compressed \in [Blocks -> CompressedBlock]
  /\ uncompressed \in [Blocks -> UncompressedBlock]
  /\ decompressionQueue \in Seq(Blocks)
  /\ waitsForRunDone \in [Threads -> Blocks \cup {NoBlock}]
  /\ reader \in {"read", "find", "wait", "fill", "finish", "exited"}
  /\ readBlock \in Blocks \cup {NoBlock}
  /\ decompressor \in [Threads -> {"fetch", "waitRead", "waitRun", "decompress", "exited"}]
  /\ held \in [Threads -> Blocks \cup {NoBlock}] /\ early \in BOOLEAN
  /\ runner \in {"loop", "wait", "search", "run", "done", "finish", "join", "returned"}
  /\ runId \in 0..StreamBlocks + 1
  /\ runBlock \in Blocks \cup {NoBlock} /\ runNext \in Nat
  /\ executed \in Seq(Commands)

Init ==
  /\ readFinished = FALSE /\ runFinished = FALSE /\ closed = FALSE
  /\ lastRead = 0
  /\ compressed = [b \in Blocks |-> [id |-> 0, full |-> FALSE, decompressing |-> FALSE]]
  /\ uncompressed = [b \in Blocks |-> [id |-> 0, runners |-> <<>>, full |-> FALSE,
                                       decompressing |-> FALSE]]
  /\ decompressionQueue = <<>>
  /\ waitsForRunDone = [t \in Threads |-> NoBlock]
  /\ reader = "read" /\ readBlock = NoBlock
  /\ decompressor = [t \in Threads |-> "fetch"]
  /\ held = [t \in Threads |-> NoBlock] /\ early = FALSE
  /\ runner = "loop" /\ runId = 0 /\ runBlock = NoBlock /\ runNext = 1
  /\ executed = <<>>
-----------------------------------------------------------------------------
(***************************************************************************)
(* The reading thread: ReadCompressedBlocks and FindBlockForRead.          *)
(***************************************************************************)
\* Fault: a block is free as soon as no thread decompresses it.
FaultFreeUntilPopped == {b \in Blocks : ~compressed[b].decompressing}
FreeBlocks == {b \in Blocks : ~compressed[b].full /\ ~compressed[b].decompressing}

AllReadersWoken ==
  [t \in Threads |-> IF decompressor[t] = "waitRead" THEN "fetch" ELSE decompressor[t]]

NotifyOneReadDone ==
  \/ \E t \in Threads : /\ decompressor[t] = "waitRead"
                        /\ decompressor' = [decompressor EXCEPT ![t] = "fetch"]
  \/ /\ \A t \in Threads : decompressor[t] # "waitRead"
     /\ UNCHANGED decompressor

\* Fault: the end of the stream goes unnoticed.
FaultNoEnd == FALSE
EndOfStream == lastRead = StreamBlocks

\* The loop ends when the reader is closed or the stream has no more blocks.
ReadSize ==
  /\ reader = "read"
  /\ reader' = IF closed \/ EndOfStream THEN "finish" ELSE "find"
  /\ UNCHANGED <<compressed, uncompressed, decompressionQueue, readBlock, lastRead,
                 readFinished, decompressVars, runVars>>

\* Which of the free blocks is taken depends on their sizes.
FindBlockForRead ==
  /\ reader = "find"
  /\ \/ readBlock' \in FreeBlocks /\ reader' = "fill"
     \/ FreeBlocks = {} /\ reader' = "wait" /\ UNCHANGED readBlock
  /\ UNCHANGED <<compressed, uncompressed, decompressionQueue, lastRead, readFinished,
                 decompressVars, runVars>>

ReadBlock ==
  /\ reader = "fill"
  /\ lastRead' = lastRead + 1
  /\ compressed' = [compressed EXCEPT ![readBlock].id = lastRead + 1, ![readBlock].full = TRUE]
  /\ decompressionQueue' = Append(decompressionQueue, readBlock)
  /\ NotifyOneReadDone
  /\ reader' = "read"
  /\ UNCHANGED <<uncompressed, readBlock, readFinished, held, waitsForRunDone, early,
                 runVars>>

FinishReading ==
  /\ reader = "finish"
  /\ readFinished' = TRUE
  /\ decompressor' = AllReadersWoken
  /\ reader' = "exited"
  /\ UNCHANGED <<compressed, uncompressed, decompressionQueue, readBlock, lastRead, held,
                 waitsForRunDone, early, runVars>>
-----------------------------------------------------------------------------
(***************************************************************************)
(* A decompression thread: Decompress, DecodeBlock and WaitForRunDone.     *)
(***************************************************************************)
\* Fault: the uncompressed block is overwritten although it has not been run.
FaultNeverBusy(b) == FALSE
Busy(b) == uncompressed[b].full \/ uncompressed[b].decompressing

DecompressVars == <<readBlock, lastRead, readFinished, early, runId, runBlock, runNext,
                    executed, closed, runFinished>>

FetchBlock(t) ==
  /\ decompressor[t] = "fetch" /\ decompressionQueue # <<>>
  /\ decompressionQueue' = Tail(decompressionQueue)
  /\ LET b == Head(decompressionQueue)
     IN  /\ held' = [held EXCEPT ![t] = b]
         /\ compressed' = [compressed EXCEPT ![b].decompressing = TRUE]
         /\ \/ /\ ~Busy(b)
               /\ uncompressed' = [uncompressed EXCEPT ![b].decompressing = TRUE]
               /\ decompressor' = [decompressor EXCEPT ![t] = "decompress"]
               /\ UNCHANGED waitsForRunDone
            \/ /\ Busy(b) /\ ~runFinished
               /\ waitsForRunDone' = [waitsForRunDone EXCEPT ![t] = b]
               /\ decompressor' = [decompressor EXCEPT ![t] = "waitRun"]
               /\ UNCHANGED uncompressed
            \/ /\ Busy(b) /\ runFinished
               /\ decompressor' = [decompressor EXCEPT ![t] = "exited"]
               /\ UNCHANGED <<uncompressed, waitsForRunDone>>
  /\ UNCHANGED <<DecompressVars, reader, runner>>

FetchNothing(t) ==
  /\ decompressor[t] = "fetch" /\ decompressionQueue = <<>>
  /\ decompressor' = [decompressor EXCEPT ![t] = IF readFinished THEN "exited" ELSE "waitRead"]
  /\ UNCHANGED <<compressed, uncompressed, decompressionQueue, held, waitsForRunDone,
                 early, readVars, runVars>>

\* WaitForRunDone returns, and the thread does not look at the block again.
LeaveWait(t) ==
  /\ decompressor[t] = "waitRun"
  /\ uncompressed' = [uncompressed EXCEPT ![held[t]].decompressing = TRUE]
  /\ decompressor' = [decompressor EXCEPT ![t] = "decompress"]
  /\ UNCHANGED <<compressed, decompressionQueue, held, waitsForRunDone, readVars, runVars>>

ResumeDecompression(t) ==
  /\ waitsForRunDone[t] = NoBlock
  /\ LeaveWait(t)
  /\ UNCHANGED early

\* Nobody has notified the thread; Waiting stays set.
ReturnEarly(t) ==
  /\ waitsForRunDone[t] # NoBlock
  /\ LeaveWait(t)
  /\ early' = TRUE

\* m_DecompressionDoneCondition has two waiters: the reading thread without a free
\* block, and Run without the block it needs.
ReaderWoken == IF reader = "wait" THEN "find" ELSE reader

DecompressBlock(t) ==
  /\ decompressor[t] = "decompress"
  /\ LET b == held[t]
     IN  /\ compressed' = [compressed EXCEPT ![b].full = FALSE, ![b].decompressing = FALSE]
         /\ uncompressed' = [uncompressed EXCEPT ![b] =
                               [id |-> compressed[b].id,
                                runners |-> @.runners \o CommandsOf(compressed[b].id),
                                full |-> TRUE, decompressing |-> FALSE]]
  /\ held' = [held EXCEPT ![t] = NoBlock]
  /\ decompressor' = [decompressor EXCEPT ![t] = "fetch"]
  /\ reader' = ReaderWoken
  /\ runner' = IF runner = "wait" THEN "search" ELSE runner
  /\ UNCHANGED <<DecompressVars, decompressionQueue, waitsForRunDone>>
-----------------------------------------------------------------------------
(***************************************************************************)
(* Run, FindBlockForRun, NotifyRunDone and NotifyRunDoneAll.               *)
(***************************************************************************)
\* Fault: the blocks are run in the order in which they are decompressed.
FaultAnyBlock(b, id) == uncompressed[b].full
IsNext(b, id) == uncompressed[b].full /\ uncompressed[b].id = id

\* The end of the stream is looked for once, and not again after a wait.
FindBlockForRun(id) ==
  \/ \E b \in Blocks : IsNext(b, id) /\ runBlock' = b /\ runner' = "run"
  \/ (\A b \in Blocks : ~IsNext(b, id)) /\ runner' = "wait" /\ UNCHANGED runBlock

RunVars == <<compressed, decompressionQueue, readVars, decompressor, held, early>>

StartBlock ==
  /\ runner = "loop" /\ ~closed
  /\ runId' = runId + 1
  /\ IF readFinished /\ runId' > lastRead
     THEN runner' = "finish" /\ UNCHANGED runBlock
     ELSE FindBlockForRun(runId')
  /\ UNCHANGED <<RunVars, uncompressed, waitsForRunDone, runNext, executed, closed,
                 runFinished>>

ResumeSearch ==
  /\ runner = "search"
  /\ FindBlockForRun(runId)
  /\ UNCHANGED <<RunVars, uncompressed, waitsForRunDone, runId, runNext, executed, closed,
                 runFinished>>

RunCommand ==
  /\ runner = "run"
  /\ LET runners == uncompressed[runBlock].runners
     IN  /\ executed' = Append(executed, runners[runNext])
         /\ closed' \in IF runners[runNext] \in Closing THEN BOOLEAN ELSE {FALSE}
         /\ runner' = IF closed' \/ runNext = Len(runners) THEN "done" ELSE "run"
  /\ runNext' = runNext + 1
  /\ UNCHANGED <<RunVars, uncompressed, waitsForRunDone, runId, runBlock, runFinished>>

\* Fault: Run does not tell that it is through with the block.
FaultNoNotify(b) == {}
WaitersFor(b) == {t \in Threads : waitsForRunDone[t] = b}

ReleaseBlock ==
  /\ runner = "done"
  /\ uncompressed' = [uncompressed EXCEPT ![runBlock] =
                        [@ EXCEPT !.id = 0, !.runners = <<>>, !.full = FALSE]]
  /\ \/ \E t \in WaitersFor(runBlock) :
          waitsForRunDone' = [waitsForRunDone EXCEPT ![t] = NoBlock]
     \/ WaitersFor(runBlock) = {} /\ UNCHANGED waitsForRunDone
  /\ runner' = "loop" /\ runNext' = 1
  /\ UNCHANGED <<RunVars, runId, runBlock, executed, closed, runFinished>>

LeaveLoop ==
  /\ runner = "loop" /\ closed
  /\ runner' = "finish"
  /\ UNCHANGED <<RunVars, uncompressed, waitsForRunDone, runId, runBlock, runNext, executed,
                 closed, runFinished>>

FinishRunning ==
  /\ runner = "finish"
  /\ runFinished' = TRUE
  /\ waitsForRunDone' = [t \in Threads |-> NoBlock]
  /\ runner' = "join"
  /\ UNCHANGED <<RunVars, uncompressed, runId, runBlock, runNext, executed, closed>>

JoinThreads ==
  /\ runner = "join"
  /\ reader = "exited" /\ \A t \in Threads : decompressor[t] = "exited"
  /\ runner' = "returned"
  /\ UNCHANGED <<RunVars, uncompressed, waitsForRunDone, runId, runBlock, runNext, executed,
                 closed, runFinished>>
-----------------------------------------------------------------------------
\* A spurious wakeup of a wait that is repeated in a loop.
WakeSpuriously ==
  /\ \/ /\ reader = "wait" /\ reader' = "find"
        /\ UNCHANGED <<decompressor, runner>>
     \/ \E t \in Threads : /\ decompressor[t] = "waitRead"
                           /\ decompressor' = [decompressor EXCEPT ![t] = "fetch"]
                           /\ UNCHANGED <<reader, runner>>
     \/ /\ runner = "wait" /\ runner' = "search"
        /\ UNCHANGED <<reader, decompressor>>
  /\ UNCHANGED <<DecompressVars, compressed, uncompressed, decompressionQueue, held,
                 waitsForRunDone>>

ReaderStep == ReadSize \/ FindBlockForRead \/ ReadBlock \/ FinishReading

DecompressorStep(t) ==
  FetchBlock(t) \/ FetchNothing(t) \/ ResumeDecompression(t) \/ DecompressBlock(t)

RunnerStep ==
  \/ StartBlock \/ ResumeSearch \/ RunCommand \/ ReleaseBlock
  \/ LeaveLoop \/ FinishRunning \/ JoinThreads

Next ==
  \/ ReaderStep
  \/ \E t \in Threads : DecompressorStep(t)
  \/ RunnerStep
  \/ WakeSpuriously
  \/ \E t \in Threads : ReturnEarly(t)

Spec == Init /\ [][Next]_vars

(***************************************************************************)
(* Every thread runs, and every command returns; no thread may count on a  *)
(* spurious wakeup.                                                        *)
(***************************************************************************)
Fairness ==
  /\ WF_vars(ReaderStep)
  /\ \A t \in Threads : WF_vars(DecompressorStep(t))
  /\ WF_vars(RunnerStep)

FairSpec == Spec /\ Fairness
-----------------------------------------------------------------------------
(***************************************************************************)
(* Properties.                                                             *)
(***************************************************************************)
(***************************************************************************)
(* The reader implements Playback: although the blocks are decompressed by *)
(* several threads and in any order, the commands run in the order of the  *)
(* stream, each once, and Run returns only at its end or once closed.  It  *)
(* does so up to the first early return of WaitForRunDone (line 267).      *)
(***************************************************************************)
Player == INSTANCE Playback WITH Length <- StreamBlocks * BlockCommands,
                                 returned <- runner = "returned"
PlaysUntilEarly ==
  /\ Player!PlaybackInit
  /\ [][early' \/ Player!RunNext \/ Player!Return]_<<executed, closed, runner = "returned">>

(***************************************************************************)
(* A thread decodes into an uncompressed block, outside of the mutex, only *)
(* when Run is through with its commands: also after WaitForRunDone, where *)
(* it does not look at the block again.  (When Run is over, they no longer *)
(* matter.)  An early return of WaitForRunDone refutes it.                 *)
(***************************************************************************)
TargetIsFree ==
  \A t \in Threads :
    decompressor[t] = "decompress" /\ ~runFinished =>
      ~uncompressed[held[t]].full /\ uncompressed[held[t]].decompressing

(***************************************************************************)
(* It holds as long as every return of WaitForRunDone was notified: the    *)
(* notification comes when Run is through with that very block, and no     *)
(* other thread takes it in between.                                       *)
(***************************************************************************)
TargetIsFreeIfNotified == ~early => TargetIsFree

(***************************************************************************)
(* A block has one owner at most: it is queued for decompression once, or  *)
(* one thread works on it, or the reading thread fills it.  All of them    *)
(* touch it outside of the mutex (lines 52-60 and 143-169).  It holds also *)
(* after an early return of WaitForRunDone: the threads do not race with   *)
(* each other, only with Run.                                              *)
(***************************************************************************)
QueuePlaces(b) == {i \in DOMAIN decompressionQueue : decompressionQueue[i] = b}
Holders(b) == {t \in Threads : decompressor[t] \in {"waitRun", "decompress"} /\ held[t] = b}
Filling(b) == reader = "fill" /\ readBlock = b

OneOwner ==
  \A b \in Blocks :
    Cardinality(QueuePlaces(b)) + Cardinality(Holders(b)) + (IF Filling(b) THEN 1 ELSE 0) <= 1

FullIds(blocks) == {<<blocks[b].id, b>> : b \in {c \in Blocks : blocks[c].full}}

(***************************************************************************)
(* Every block read and not yet run is in one place, compressed or         *)
(* uncompressed: none is lost between the stages, none is there twice, as  *)
(* long as every return of WaitForRunDone was notified.  (After an early   *)
(* one the thread overwrites a block that was not run.)                    *)
(***************************************************************************)
EveryBlockOnce ==
  LET first == IF runner = "loop" THEN runId + 1 ELSE runId
      waiting == FullIds(compressed)
      done == FullIds(uncompressed)
  IN  ~early /\ runner \in {"loop", "wait", "search", "run", "done"} =>
        /\ {p[1] : p \in waiting \cup done} = first .. lastRead
        /\ Cardinality(waiting) + Cardinality(done) = lastRead + 1 - first

(***************************************************************************)
(* Run looked for the block after the last one before the reading thread   *)
(* had told that there is none, and waits for it.                          *)
(***************************************************************************)
HangsAtEnd ==
  runner \in {"wait", "search"} /\ readFinished /\ runId > lastRead

(***************************************************************************)
(* The decompression threads left blocks behind, and the reading thread    *)
(* waits for a free one.                                                   *)
(***************************************************************************)
HangsOnClose ==
  /\ closed /\ reader \in {"find", "wait"} /\ FreeBlocks = {}
  /\ \A t \in Threads : decompressor[t] = "exited"

(***************************************************************************)
(* Unless WaitForRunDone returns early, these are the only ways to hang:   *)
(* the threads never wait in a circle, for a block that Run has not        *)
(* released while Run waits for another one, and no other wakeup is lost.  *)
(***************************************************************************)
RunReturnsOrHangs == <>(runner = "returned" \/ HangsAtEnd \/ HangsOnClose \/ early)

(***************************************************************************)
(* Playback of a complete stream comes to its end.                         *)
(***************************************************************************)
RunReturns == <>(runner = "returned")
=============================================================================
