-------------------------- MODULE StreamReaderProofs --------------------------
(***************************************************************************)
(* Theorems about StreamReader, for any threads, any stream and any        *)
(* commands that close: types, that a block is used by one thread at a     *)
(* time, that StreamReader implements Playback, and that no block is lost  *)
(* or duplicated on its way from the reading thread to Run.                *)
(***************************************************************************)
EXTENDS StreamReader, SequenceTheorems, FiniteSetTheorems, TLAPS

Working(t) == decompressor[t] \in {"waitRun", "decompress"}

(***************************************************************************)
(* Where a thread is says something about what it holds.                   *)
(***************************************************************************)
ReaderLocated ==
  /\ reader \in {"find", "wait", "fill"} => lastRead < StreamBlocks
  /\ reader = "fill" => readBlock \in Blocks

\* A block that is on its way to be decompressed was read.
QueueLocated == \A i \in DOMAIN decompressionQueue : compressed[decompressionQueue[i]].id \in 1..lastRead
HeldLocated ==
  \A t \in Threads : Working(t) => held[t] \in Blocks /\ compressed[held[t]].id \in 1..lastRead

FullLocated ==
  \A b \in Blocks : uncompressed[b].full
    => uncompressed[b].id \in 1..lastRead /\ uncompressed[b].runners # <<>>

RunnerLocated ==
  /\ runner \in {"run", "done"} => runBlock \in Blocks
  /\ runner = "run" => runNext \in 1..Len(uncompressed[runBlock].runners)
  /\ runner \in {"loop", "wait", "search"} => runNext = 1
  /\ runner \in {"loop", "run", "done"} => runId <= lastRead
  /\ runner \in {"wait", "search"} => runId <= lastRead + 1

TypeInv ==
  /\ TypeOK
  /\ ReaderLocated /\ QueueLocated /\ HeldLocated /\ FullLocated /\ RunnerLocated

(***************************************************************************)
(* A compressed block is free, being filled, in the queue or held by one   *)
(* thread.                                                                 *)
(***************************************************************************)
QueueExclusive ==
  \A i \in DOMAIN decompressionQueue :
    /\ compressed[decompressionQueue[i]].full
    /\ ~compressed[decompressionQueue[i]].decompressing
    /\ \A j \in DOMAIN decompressionQueue :
         decompressionQueue[i] = decompressionQueue[j] => i = j

HeldExclusive ==
  \A t \in Threads : Working(t) =>
    /\ compressed[held[t]].full /\ compressed[held[t]].decompressing
    /\ \A u \in Threads : Working(u) /\ held[t] = held[u] => t = u

FillExclusive ==
  reader = "fill" => ~compressed[readBlock].full /\ ~compressed[readBlock].decompressing

\* A thread whose wait is over finds the block free, although it does not look.
WaitSound ==
  \A t \in Threads :
    /\ waitsForRunDone[t] # NoBlock => decompressor[t] = "waitRun" /\ waitsForRunDone[t] = held[t]
    /\ decompressor[t] = "waitRun" /\ waitsForRunDone[t] = NoBlock /\ ~runFinished
         => ~uncompressed[held[t]].full

\* What Run finds in a block, and that it keeps it.
BlockSound ==
  ~runFinished =>
    \A b \in Blocks : uncompressed[b].runners = IF uncompressed[b].full
                                                THEN CommandsOf(uncompressed[b].id) ELSE <<>>

RunSound ==
  /\ runFinished <=> runner \in {"join", "returned"}
  /\ runner \in {"run", "done"}
       => uncompressed[runBlock].full /\ uncompressed[runBlock].id = runId

ExclusiveInv == TypeInv /\ QueueExclusive /\ HeldExclusive /\ FillExclusive

OwnerInv ==
  /\ ExclusiveInv
  /\ WaitSound /\ BlockSound /\ RunSound /\ TargetIsFree
-----------------------------------------------------------------------------
(***************************************************************************)
(* Blocks and commands.                                                    *)
(***************************************************************************)
LEMMA BlocksType == NUMBER_OF_BLOCKS \in Nat /\ Blocks \subseteq Nat /\ NoBlock \notin Blocks
<1>1. Cardinality(Threads) \in Nat
  BY ThreadsAssumption, FS_CardinalityType
<1>. QED
  BY <1>1 DEF NUMBER_OF_BLOCKS, Blocks, NoBlock

\* A block of the stream has BlockCommands of its commands, in order.
LEMMA CommandsType ==
  ASSUME NEW id \in 1..StreamBlocks
  PROVE  /\ CommandsOf(id) \in Seq(Commands) /\ Len(CommandsOf(id)) = BlockCommands
         /\ CommandsOf(id) # <<>>
         /\ \A i \in 1..BlockCommands : CommandsOf(id)[i] = (id - 1) * BlockCommands + i
<1>. DEFINE before == (id - 1) * BlockCommands
<1>1. BlockCommands \in Nat \ {0} /\ StreamBlocks \in Nat /\ id \in Nat
  BY StreamAssumption
<1>2. before \in Nat
  BY <1>1
<1>3. (StreamBlocks - id) * BlockCommands \in Nat
  BY <1>1
<1>4. StreamBlocks * BlockCommands
        = before + BlockCommands + (StreamBlocks - id) * BlockCommands
  BY <1>1
<1>5. ASSUME NEW i \in 1..BlockCommands
      PROVE  before + i \in Commands
  <2>. HIDE DEF before
  <2>. QED
    BY <1>1, <1>2, <1>3, <1>4 DEF Commands
<1>6. CommandsOf(id) = [i \in 1..BlockCommands |-> before + i]
  BY DEF CommandsOf
<1>. HIDE DEF before
<1>7. CommandsOf(id) \in Seq(Commands)
  BY <1>1, <1>5, <1>6
<1>8. Len(CommandsOf(id)) = BlockCommands
  BY <1>1, <1>6, <1>7
<1>9. CommandsOf(id) # <<>>
  BY <1>1, <1>7, <1>8
<1>10. \A i \in 1..BlockCommands : CommandsOf(id)[i] = before + i
  BY <1>6
<1>. QED
  BY <1>7, <1>8, <1>9, <1>10 DEF before
-----------------------------------------------------------------------------
(***************************************************************************)
(* What a step does to the records of the blocks.                          *)
(***************************************************************************)
Marked(f, b) == [f EXCEPT ![b].decompressing = TRUE]
Emptied(f, b) == [f EXCEPT ![b].full = FALSE, ![b].decompressing = FALSE]
Released(f, b) == [f EXCEPT ![b] = [@ EXCEPT !.id = 0, !.runners = <<>>, !.full = FALSE]]

LEMMA MarkCompressed ==
  ASSUME NEW f \in [Blocks -> CompressedBlock], NEW b \in Blocks
  PROVE  LET g == Marked(f, b)
         IN  /\ g \in [Blocks -> CompressedBlock]
             /\ \A c \in Blocks : /\ g[c].id = f[c].id
                                  /\ g[c].full = f[c].full
                                  /\ g[c].decompressing = (c = b \/ f[c].decompressing)
<1>. DEFINE g == Marked(f, b)
<1>1. g \in [Blocks -> CompressedBlock]
  BY DEF CompressedBlock, Marked
<1>2. \A c \in Blocks : g[c].id = f[c].id
  BY DEF CompressedBlock, Marked
<1>3. \A c \in Blocks : g[c].full = f[c].full
  BY DEF CompressedBlock, Marked
<1>4. \A c \in Blocks : g[c].decompressing = (c = b \/ f[c].decompressing)
  BY DEF CompressedBlock, Marked
<1>. QED
  BY <1>1, <1>2, <1>3, <1>4

LEMMA MarkUncompressed ==
  ASSUME NEW f \in [Blocks -> UncompressedBlock], NEW b \in Blocks
  PROVE  LET g == Marked(f, b)
         IN  /\ g \in [Blocks -> UncompressedBlock]
             /\ \A c \in Blocks : /\ g[c].id = f[c].id /\ g[c].runners = f[c].runners
                                  /\ g[c].full = f[c].full
                                  /\ g[c].decompressing = (c = b \/ f[c].decompressing)
<1>. DEFINE g == Marked(f, b)
<1>1. g \in [Blocks -> UncompressedBlock]
  BY DEF UncompressedBlock, Marked
<1>2. \A c \in Blocks : g[c].id = f[c].id
  BY DEF UncompressedBlock, Marked
<1>3. \A c \in Blocks : g[c].runners = f[c].runners
  BY DEF UncompressedBlock, Marked
<1>4. \A c \in Blocks : g[c].full = f[c].full
  BY DEF UncompressedBlock, Marked
<1>5. \A c \in Blocks : g[c].decompressing = (c = b \/ f[c].decompressing)
  BY DEF UncompressedBlock, Marked
<1>. QED
  BY <1>1, <1>2, <1>3, <1>4, <1>5

LEMMA EmptyCompressed ==
  ASSUME NEW f \in [Blocks -> CompressedBlock], NEW b \in Blocks
  PROVE  LET g == Emptied(f, b)
         IN  /\ g \in [Blocks -> CompressedBlock]
             /\ g[b].id = f[b].id /\ g[b].full = FALSE /\ g[b].decompressing = FALSE
             /\ \A c \in Blocks \ {b} : g[c] = f[c]
<1>. DEFINE g == Emptied(f, b)
<1>1. g \in [Blocks -> CompressedBlock]
  BY DEF CompressedBlock, Emptied
<1>2. g[b].id = f[b].id
  BY DEF CompressedBlock, Emptied
<1>3. g[b].full = FALSE
  BY DEF CompressedBlock, Emptied
<1>4. g[b].decompressing = FALSE
  BY DEF CompressedBlock, Emptied
<1>5. \A c \in Blocks \ {b} : g[c] = f[c]
  BY DEF CompressedBlock, Emptied
<1>. QED
  BY <1>1, <1>2, <1>3, <1>4, <1>5

LEMMA ReleaseUncompressed ==
  ASSUME NEW f \in [Blocks -> UncompressedBlock], NEW b \in Blocks
  PROVE  LET g == Released(f, b)
         IN  /\ g \in [Blocks -> UncompressedBlock]
             /\ g[b].runners = <<>> /\ g[b].full = FALSE
             /\ g[b].decompressing = f[b].decompressing
             /\ \A c \in Blocks \ {b} : g[c] = f[c]
<1>. DEFINE g == Released(f, b)
<1>1. g \in [Blocks -> UncompressedBlock]
  <2>. DEFINE r == [f[b] EXCEPT !.id = 0, !.runners = <<>>, !.full = FALSE]
  <2>1. f[b] \in UncompressedBlock /\ <<>> \in Seq(Commands)
    OBVIOUS
  <2>2. r \in UncompressedBlock
    <3>. DEFINE r1 == [f[b] EXCEPT !.id = 0]
                r2 == [r1 EXCEPT !.runners = <<>>]
                r3 == [r2 EXCEPT !.full = FALSE]
    <3>1. r1 \in UncompressedBlock
      BY <2>1 DEF UncompressedBlock, Released
    <3>2. r2 \in UncompressedBlock
      <4>. HIDE DEF r1
      <4>. QED
        BY <3>1, <2>1 DEF UncompressedBlock, Released
    <3>3. r3 \in UncompressedBlock
      <4>. HIDE DEF r2
      <4>. QED
        BY <3>2 DEF UncompressedBlock, Released
    <3>4. r = r3
      BY <2>1 DEF UncompressedBlock, Released
    <3>. QED
      BY <3>3, <3>4
  <2>3. g = [f EXCEPT ![b] = r]
    BY DEF Released
  <2>. HIDE DEF r
  <2>. QED
    BY <2>2, <2>3
<1>2. g[b].runners = <<>>
  BY DEF UncompressedBlock, Released
<1>3. g[b].full = FALSE
  BY DEF UncompressedBlock, Released
<1>4. g[b].decompressing = f[b].decompressing
  BY DEF UncompressedBlock, Released
<1>5. \A c \in Blocks \ {b} : g[c] = f[c]
  BY DEF UncompressedBlock, Released
<1>. QED
  BY <1>1, <1>2, <1>3, <1>4, <1>5

(***************************************************************************)
(* The same for the steps.                                                 *)
(***************************************************************************)
LEMMA ReadBlockEffect ==
  ASSUME TypeInv, ReadBlock
  PROVE  /\ readBlock \in Blocks /\ lastRead \in Nat /\ lastRead < StreamBlocks
         /\ lastRead' = lastRead + 1
         /\ compressed' \in [Blocks -> CompressedBlock]
         /\ compressed'[readBlock].id = lastRead + 1 /\ compressed'[readBlock].full = TRUE
         /\ compressed'[readBlock].decompressing = compressed[readBlock].decompressing
         /\ \A c \in Blocks \ {readBlock} : compressed'[c] = compressed[c]
         /\ decompressionQueue' \in Seq(Blocks)
         /\ \A i \in DOMAIN decompressionQueue' :
              IF i \in DOMAIN decompressionQueue
              THEN decompressionQueue'[i] = decompressionQueue[i]
              ELSE decompressionQueue'[i] = readBlock /\ i = Len(decompressionQueue) + 1
<1>1. readBlock \in Blocks /\ lastRead \in Nat /\ lastRead < StreamBlocks
  BY StreamAssumption DEF TypeInv, ReadBlock, ReaderLocated, TypeOK
<1>2. compressed \in [Blocks -> CompressedBlock] /\ decompressionQueue \in Seq(Blocks)
  BY DEF TypeInv, TypeOK
<1>3. PICK n \in Nat : n = lastRead + 1
  BY <1>1
<1>4. /\ compressed' = [compressed EXCEPT ![readBlock].id = n, ![readBlock].full = TRUE]
      /\ lastRead' = n
      /\ decompressionQueue' = Append(decompressionQueue, readBlock)
  BY <1>3 DEF ReadBlock
<1>5. /\ compressed' \in [Blocks -> CompressedBlock]
      /\ compressed'[readBlock].id = n /\ compressed'[readBlock].full = TRUE
      /\ compressed'[readBlock].decompressing = compressed[readBlock].decompressing
      /\ \A c \in Blocks \ {readBlock} : compressed'[c] = compressed[c]
  <2>1. compressed' \in [Blocks -> CompressedBlock]
    BY <1>1, <1>2, <1>4 DEF CompressedBlock
  <2>2. compressed'[readBlock].id = n
    BY <1>1, <1>2, <1>4 DEF CompressedBlock
  <2>3. compressed'[readBlock].full = TRUE
    BY <1>1, <1>2, <1>4 DEF CompressedBlock
  <2>4. compressed'[readBlock].decompressing = compressed[readBlock].decompressing
    BY <1>1, <1>2, <1>4 DEF CompressedBlock
  <2>5. \A c \in Blocks \ {readBlock} : compressed'[c] = compressed[c]
    BY <1>1, <1>2, <1>4 DEF CompressedBlock
  <2>. QED
    BY <2>1, <2>2, <2>3, <2>4, <2>5
<1>6. decompressionQueue' \in Seq(Blocks)
  BY <1>1, <1>2, <1>4
<1>7. \A i \in DOMAIN decompressionQueue' :
        IF i \in DOMAIN decompressionQueue
        THEN decompressionQueue'[i] = decompressionQueue[i]
        ELSE decompressionQueue'[i] = readBlock /\ i = Len(decompressionQueue) + 1
  BY <1>1, <1>2, <1>4
<1>. QED
  BY <1>1, <1>3, <1>4, <1>5, <1>6, <1>7

LEMMA FetchBlockEffect ==
  ASSUME TypeOK, NEW t \in Threads, FetchBlock(t)
  PROVE  LET b == Head(decompressionQueue)
         IN  /\ b \in Blocks /\ 1 \in DOMAIN decompressionQueue /\ b = decompressionQueue[1]
             /\ decompressionQueue' \in Seq(Blocks)
             /\ \A i \in DOMAIN decompressionQueue' :
                  /\ i + 1 \in DOMAIN decompressionQueue /\ i + 1 # 1
                  /\ decompressionQueue'[i] = decompressionQueue[i + 1]
                  /\ decompressionQueue[i + 1] \in Blocks
             /\ compressed' \in [Blocks -> CompressedBlock]
             /\ \A c \in Blocks :
                  /\ compressed'[c].id = compressed[c].id
                  /\ compressed'[c].full = compressed[c].full
                  /\ compressed'[c].decompressing = (c = b \/ compressed[c].decompressing)
             /\ uncompressed' \in [Blocks -> UncompressedBlock]
             /\ \A c \in Blocks :
                  /\ uncompressed'[c].id = uncompressed[c].id
                  /\ uncompressed'[c].runners = uncompressed[c].runners
                  /\ uncompressed'[c].full = uncompressed[c].full
                  /\ uncompressed[c].decompressing => uncompressed'[c].decompressing
             /\ held' \in [Threads -> Blocks \cup {NoBlock}] /\ held'[t] = b
             /\ \A u \in Threads \ {t} :
                  /\ held'[u] = held[u] /\ decompressor'[u] = decompressor[u]
                  /\ waitsForRunDone'[u] = waitsForRunDone[u]
<1>. DEFINE b == Head(decompressionQueue)
<1>1. /\ compressed \in [Blocks -> CompressedBlock] /\ uncompressed \in [Blocks -> UncompressedBlock]
      /\ decompressionQueue \in Seq(Blocks) /\ decompressionQueue # <<>>
      /\ held \in [Threads -> Blocks \cup {NoBlock}]
      /\ decompressor \in [Threads -> {"fetch", "waitRead", "waitRun", "decompress", "exited"}]
      /\ waitsForRunDone \in [Threads -> Blocks \cup {NoBlock}]
  BY DEF TypeOK, FetchBlock
<1>2. b \in Blocks /\ 1 \in DOMAIN decompressionQueue /\ b = decompressionQueue[1]
  BY <1>1
<1>3. decompressionQueue' = Tail(decompressionQueue) /\ held' = [held EXCEPT ![t] = b]
  BY DEF FetchBlock
<1>4. /\ decompressionQueue' \in Seq(Blocks)
      /\ \A i \in DOMAIN decompressionQueue' :
           /\ i + 1 \in DOMAIN decompressionQueue /\ i + 1 # 1
           /\ decompressionQueue'[i] = decompressionQueue[i + 1]
           /\ decompressionQueue[i + 1] \in Blocks
  BY <1>1, <1>3
<1>5. compressed' = Marked(compressed, b)
  BY DEF FetchBlock, Marked
<1>6. /\ compressed' \in [Blocks -> CompressedBlock]
      /\ \A c \in Blocks :
           /\ compressed'[c].id = compressed[c].id
           /\ compressed'[c].full = compressed[c].full
           /\ compressed'[c].decompressing = (c = b \/ compressed[c].decompressing)
  <2>. HIDE DEF b
  <2>. QED
    BY <1>1, <1>2, <1>5, MarkCompressed
<1>7. \/ uncompressed' = uncompressed
      \/ uncompressed' = Marked(uncompressed, b)
  BY DEF FetchBlock, Marked
<1>8. /\ uncompressed' \in [Blocks -> UncompressedBlock]
      /\ \A c \in Blocks :
           /\ uncompressed'[c].id = uncompressed[c].id
           /\ uncompressed'[c].runners = uncompressed[c].runners
           /\ uncompressed'[c].full = uncompressed[c].full
           /\ uncompressed[c].decompressing => uncompressed'[c].decompressing
  <2>. HIDE DEF b
  <2>1. CASE uncompressed' = uncompressed
    BY <1>1, <2>1
  <2>2. CASE uncompressed' = Marked(uncompressed, b)
    <3>1. /\ Marked(uncompressed, b) \in [Blocks -> UncompressedBlock]
          /\ \A c \in Blocks :
               /\ Marked(uncompressed, b)[c].id = uncompressed[c].id
               /\ Marked(uncompressed, b)[c].runners = uncompressed[c].runners
               /\ Marked(uncompressed, b)[c].full = uncompressed[c].full
               /\ Marked(uncompressed, b)[c].decompressing
                    = (c = b \/ uncompressed[c].decompressing)
      BY <1>1, <1>2, MarkUncompressed
    <3>. QED
      BY <2>2, <3>1
  <2>. QED
    BY <2>1, <2>2, <1>7
<1>9. /\ held' \in [Threads -> Blocks \cup {NoBlock}] /\ held'[t] = b
      /\ \A u \in Threads \ {t} : held'[u] = held[u]
  BY <1>1, <1>2, <1>3
<1>10. ASSUME NEW u \in Threads \ {t}
       PROVE  decompressor'[u] = decompressor[u] /\ waitsForRunDone'[u] = waitsForRunDone[u]
  BY <1>1 DEF FetchBlock
<1>. QED
  BY <1>2, <1>4, <1>6, <1>8, <1>9, <1>10

LEMMA LeaveWaitEffect ==
  ASSUME TypeInv, NEW t \in Threads, LeaveWait(t)
  PROVE  /\ held[t] \in Blocks
         /\ uncompressed' \in [Blocks -> UncompressedBlock]
         /\ \A c \in Blocks :
              /\ uncompressed'[c].id = uncompressed[c].id
              /\ uncompressed'[c].runners = uncompressed[c].runners
              /\ uncompressed'[c].full = uncompressed[c].full
              /\ uncompressed'[c].decompressing = (c = held[t] \/ uncompressed[c].decompressing)
<1>1. held[t] \in Blocks /\ uncompressed \in [Blocks -> UncompressedBlock]
  BY DEF TypeInv, TypeOK, HeldLocated, Working, LeaveWait
<1>2. uncompressed' = Marked(uncompressed, held[t])
  BY DEF LeaveWait, Marked
<1>. QED
  BY <1>1, <1>2, MarkUncompressed

LEMMA DecompressEffect ==
  ASSUME TypeInv, NEW t \in Threads, DecompressBlock(t)
  PROVE  LET b == held[t]
             u == uncompressed'[b]
         IN  /\ b \in Blocks /\ compressed[b].id \in 1..lastRead
             /\ compressed' \in [Blocks -> CompressedBlock]
             /\ compressed'[b].id = compressed[b].id
             /\ compressed'[b].full = FALSE /\ compressed'[b].decompressing = FALSE
             /\ \A c \in Blocks \ {b} : compressed'[c] = compressed[c]
             /\ uncompressed' \in [Blocks -> UncompressedBlock]
             /\ u.id = compressed[b].id /\ u.full = TRUE /\ u.decompressing = FALSE
             /\ u.runners = uncompressed[b].runners \o CommandsOf(compressed[b].id)
             /\ u.runners # <<>> /\ Len(u.runners) >= Len(uncompressed[b].runners)
             /\ \A c \in Blocks \ {b} : uncompressed'[c] = uncompressed[c]
<1>. DEFINE b == held[t]
            new == [id |-> compressed[b].id,
                    runners |-> uncompressed[b].runners \o CommandsOf(compressed[b].id),
                    full |-> TRUE, decompressing |-> FALSE]
<1>1. b \in Blocks /\ compressed[b].id \in 1..lastRead
  BY DEF TypeInv, HeldLocated, Working, DecompressBlock
<1>2. /\ compressed \in [Blocks -> CompressedBlock] /\ uncompressed \in [Blocks -> UncompressedBlock]
      /\ lastRead \in 0..StreamBlocks
  BY DEF TypeInv, TypeOK
<1>3. compressed' = Emptied(compressed, b)
  BY DEF DecompressBlock, Emptied
<1>4. uncompressed' = [uncompressed EXCEPT ![b] = new]
  BY DEF DecompressBlock
<1>5. /\ CommandsOf(compressed[b].id) \in Seq(Commands) /\ CommandsOf(compressed[b].id) # <<>>
      /\ compressed[b].id \in Nat
  <2>1. compressed[b].id \in 1..StreamBlocks
    BY <1>1, <1>2, StreamAssumption
  <2>. HIDE DEF b
  <2>. QED
    BY <2>1, CommandsType, StreamAssumption
<1>6. uncompressed[b].runners \in Seq(Commands)
  BY <1>1, <1>2 DEF UncompressedBlock
<1>7. /\ compressed' \in [Blocks -> CompressedBlock]
      /\ compressed'[b].id = compressed[b].id
      /\ compressed'[b].full = FALSE /\ compressed'[b].decompressing = FALSE
      /\ \A c \in Blocks \ {b} : compressed'[c] = compressed[c]
  <2>. HIDE DEF b
  <2>. QED
    BY <1>1, <1>2, <1>3, EmptyCompressed
<1>8. /\ new.runners \in Seq(Commands) /\ new.runners # <<>>
      /\ Len(new.runners) >= Len(uncompressed[b].runners)
  <2>. DEFINE old == uncompressed[b].runners
              more == CommandsOf(compressed[b].id)
  <2>1. old \in Seq(Commands) /\ more \in Seq(Commands) /\ more # <<>>
    BY <1>5, <1>6
  <2>2. new.runners = old \o more
    OBVIOUS
  <2>. HIDE DEF old, more, new, b
  <2>3. /\ new.runners \in Seq(Commands) /\ new.runners # <<>>
        /\ Len(new.runners) >= Len(old)
    BY <2>1, <2>2
  <2>. QED
    BY <2>3 DEF old
<1>9. new \in UncompressedBlock
  BY <1>5, <1>8 DEF UncompressedBlock
<1>10. /\ uncompressed' \in [Blocks -> UncompressedBlock] /\ uncompressed'[b] = new
       /\ \A c \in Blocks \ {b} : uncompressed'[c] = uncompressed[c]
  <2>. HIDE DEF b, new
  <2>. QED
    BY <1>1, <1>2, <1>4, <1>9
<1>11. /\ new.id = compressed[b].id /\ new.full = TRUE /\ new.decompressing = FALSE
       /\ new.runners = uncompressed[b].runners \o CommandsOf(compressed[b].id)
  OBVIOUS
<1>. HIDE DEF new
<1>. QED
  BY <1>1, <1>7, <1>8, <1>10, <1>11

LEMMA ReleaseEffect ==
  ASSUME TypeInv, ReleaseBlock
  PROVE  LET b == runBlock
         IN  /\ b \in Blocks
             /\ uncompressed' \in [Blocks -> UncompressedBlock]
             /\ uncompressed'[b].runners = <<>> /\ uncompressed'[b].full = FALSE
             /\ uncompressed'[b].decompressing = uncompressed[b].decompressing
             /\ \A c \in Blocks \ {b} : uncompressed'[c] = uncompressed[c]
             /\ waitsForRunDone' \in [Threads -> Blocks \cup {NoBlock}]
             /\ \A t \in Threads :
                  \/ waitsForRunDone'[t] = waitsForRunDone[t]
                  \/ waitsForRunDone[t] = b /\ waitsForRunDone'[t] = NoBlock
<1>1. /\ runBlock \in Blocks /\ uncompressed \in [Blocks -> UncompressedBlock]
      /\ waitsForRunDone \in [Threads -> Blocks \cup {NoBlock}]
  BY DEF TypeInv, TypeOK, RunnerLocated, ReleaseBlock
<1>2. uncompressed' = Released(uncompressed, runBlock)
  BY DEF ReleaseBlock, Released
<1>3. /\ uncompressed' \in [Blocks -> UncompressedBlock]
      /\ uncompressed'[runBlock].runners = <<>> /\ uncompressed'[runBlock].full = FALSE
      /\ uncompressed'[runBlock].decompressing = uncompressed[runBlock].decompressing
      /\ \A c \in Blocks \ {runBlock} : uncompressed'[c] = uncompressed[c]
  BY <1>1, <1>2, ReleaseUncompressed
<1>4. /\ waitsForRunDone' \in [Threads -> Blocks \cup {NoBlock}]
      /\ \A t \in Threads : \/ waitsForRunDone'[t] = waitsForRunDone[t]
                            \/ waitsForRunDone[t] = runBlock /\ waitsForRunDone'[t] = NoBlock
  BY <1>1 DEF ReleaseBlock, WaitersFor
<1>. QED
  BY <1>1, <1>3, <1>4

-----------------------------------------------------------------------------
(***************************************************************************)
(* Types, step by step.                                                    *)
(***************************************************************************)
LEMMA TypeInit == Init => TypeInv
<1>. SUFFICES ASSUME Init PROVE TypeInv
  OBVIOUS
<1>. USE BlocksType, StreamAssumption DEF Init
<1>1. TypeOK
  <2>1. compressed \in [Blocks -> CompressedBlock] /\ uncompressed \in [Blocks -> UncompressedBlock]
    BY DEF CompressedBlock, UncompressedBlock
  <2>2. /\ lastRead \in 0..StreamBlocks /\ runId \in 0..StreamBlocks + 1
        /\ decompressionQueue \in Seq(Blocks) /\ executed \in Seq(Commands)
    OBVIOUS
  <2>3. /\ waitsForRunDone \in [Threads -> Blocks \cup {NoBlock}]
        /\ decompressor \in [Threads -> {"fetch", "waitRead", "waitRun", "decompress", "exited"}]
        /\ held \in [Threads -> Blocks \cup {NoBlock}]
    OBVIOUS
  <2>. QED
    BY <2>1, <2>2, <2>3 DEF TypeOK
<1>2. ReaderLocated /\ QueueLocated /\ HeldLocated
  BY DEF ReaderLocated, QueueLocated, HeldLocated, Working
<1>3. FullLocated /\ RunnerLocated
  BY DEF FullLocated, RunnerLocated
<1>. QED
  BY <1>1, <1>2, <1>3 DEF TypeInv

LEMMA ReadSizeType == TypeInv /\ ReadSize => TypeInv'
<1>. SUFFICES ASSUME TypeInv, ReadSize PROVE TypeInv'
  OBVIOUS
<1>. USE StreamAssumption DEF TypeInv, ReadSize, EndOfStream, decompressVars, runVars
<1>1. TypeOK'
  BY DEF TypeOK
<1>2. ReaderLocated'
  BY DEF ReaderLocated, TypeOK
<1>3. QueueLocated' /\ HeldLocated' /\ FullLocated' /\ RunnerLocated'
  BY DEF QueueLocated, HeldLocated, Working, FullLocated, RunnerLocated
<1>. QED
  BY <1>1, <1>2, <1>3

LEMMA FindBlockForReadType == TypeInv /\ FindBlockForRead => TypeInv'
<1>. SUFFICES ASSUME TypeInv, FindBlockForRead PROVE TypeInv'
  OBVIOUS
<1>. USE DEF TypeInv, FindBlockForRead, FreeBlocks, decompressVars, runVars
<1>1. TypeOK'
  BY DEF TypeOK
<1>2. ReaderLocated'
  BY DEF ReaderLocated
<1>3. QueueLocated' /\ HeldLocated' /\ FullLocated' /\ RunnerLocated'
  BY DEF QueueLocated, HeldLocated, Working, FullLocated, RunnerLocated
<1>. QED
  BY <1>1, <1>2, <1>3

\* Who is notified does not hold a block.
LEMMA NotifyOneHolds ==
  ASSUME TypeOK, NotifyOneReadDone
  PROVE  /\ decompressor' \in [Threads -> {"fetch", "waitRead", "waitRun", "decompress", "exited"}]
         /\ \A t \in Threads : /\ Working(t)' <=> Working(t)
                               /\ (decompressor'[t] = "waitRun") <=> (decompressor[t] = "waitRun")
                               /\ (decompressor'[t] = "decompress")
                                    <=> (decompressor[t] = "decompress")
BY DEF TypeOK, NotifyOneReadDone, Working

LEMMA AllReadersHold ==
  ASSUME TypeOK, decompressor' = AllReadersWoken
  PROVE  /\ decompressor' \in [Threads -> {"fetch", "waitRead", "waitRun", "decompress", "exited"}]
         /\ \A t \in Threads : /\ Working(t)' <=> Working(t)
                               /\ (decompressor'[t] = "waitRun") <=> (decompressor[t] = "waitRun")
                               /\ (decompressor'[t] = "decompress")
                                    <=> (decompressor[t] = "decompress")
BY DEF TypeOK, AllReadersWoken, Working

LEMMA ReadBlockType == TypeInv /\ ReadBlock => TypeInv'
<1>. SUFFICES ASSUME TypeInv, ReadBlock PROVE TypeInv'
  OBVIOUS
<1>. USE ReadBlockEffect DEF TypeInv
<1>1. /\ decompressor' \in [Threads -> {"fetch", "waitRead", "waitRun", "decompress", "exited"}]
      /\ \A t \in Threads : Working(t)' <=> Working(t)
  BY NotifyOneHolds DEF ReadBlock
<1>2. TypeOK'
  <2>1. lastRead' \in 0..StreamBlocks
    BY StreamAssumption
  <2>2. compressed' \in [Blocks -> CompressedBlock] /\ decompressionQueue' \in Seq(Blocks)
    OBVIOUS
  <2>. QED
    BY <1>1, <2>1, <2>2 DEF TypeOK, ReadBlock, runVars
<1>3. ASSUME NEW b \in Blocks, compressed[b].id \in 1..lastRead
      PROVE  compressed'[b].id \in 1..lastRead'
  BY <1>3
<1>4. ReaderLocated'
  BY DEF ReaderLocated, ReadBlock
<1>5. QueueLocated'
  <2>. SUFFICES ASSUME NEW i \in DOMAIN decompressionQueue'
                PROVE  compressed'[decompressionQueue'[i]].id \in 1..lastRead'
    BY DEF QueueLocated
  <2>1. CASE i \in DOMAIN decompressionQueue
    <3>1. decompressionQueue[i] \in Blocks
      BY <2>1 DEF TypeOK
    <3>2. decompressionQueue'[i] = decompressionQueue[i]
      BY <2>1
    <3>. QED
      BY <2>1, <3>1, <3>2, <1>3 DEF QueueLocated
  <2>2. CASE i \notin DOMAIN decompressionQueue
    BY <2>2
  <2>. QED
    BY <2>1, <2>2
<1>6. HeldLocated'
  BY <1>1, <1>3 DEF HeldLocated, ReadBlock
<1>7. FullLocated'
  BY DEF FullLocated, TypeOK, UncompressedBlock, ReadBlock
<1>8. RunnerLocated'
  BY DEF RunnerLocated, TypeOK, ReadBlock, runVars
<1>. QED
  BY <1>2, <1>4, <1>5, <1>6, <1>7, <1>8

LEMMA FinishReadingType == TypeInv /\ FinishReading => TypeInv'
<1>. SUFFICES ASSUME TypeInv, FinishReading PROVE TypeInv'
  OBVIOUS
<1>. USE DEF TypeInv, FinishReading, runVars
<1>1. /\ decompressor' \in [Threads -> {"fetch", "waitRead", "waitRun", "decompress", "exited"}]
      /\ \A t \in Threads : Working(t)' <=> Working(t)
  BY AllReadersHold
<1>2. TypeOK'
  BY <1>1 DEF TypeOK
<1>3. ReaderLocated' /\ QueueLocated' /\ FullLocated' /\ RunnerLocated'
  BY DEF ReaderLocated, QueueLocated, FullLocated, RunnerLocated
<1>4. HeldLocated'
  BY <1>1 DEF HeldLocated
<1>. QED
  BY <1>2, <1>3, <1>4

LEMMA FetchBlockType == ASSUME TypeInv, NEW t \in Threads, FetchBlock(t) PROVE TypeInv'
<1>. DEFINE b == Head(decompressionQueue)
<1>. USE FetchBlockEffect DEF TypeInv
<1>1. TypeOK'
  <2>1. /\ compressed' \in [Blocks -> CompressedBlock] /\ decompressionQueue' \in Seq(Blocks)
        /\ uncompressed' \in [Blocks -> UncompressedBlock]
        /\ held' \in [Threads -> Blocks \cup {NoBlock}] /\ b \in Blocks
    OBVIOUS
  <2>2. waitsForRunDone' \in [Threads -> Blocks \cup {NoBlock}]
    BY <2>1 DEF TypeOK, FetchBlock
  <2>3. decompressor' \in [Threads -> {"fetch", "waitRead", "waitRun", "decompress", "exited"}]
    BY DEF TypeOK, FetchBlock
  <2>4. UNCHANGED <<readFinished, runFinished, closed, lastRead, reader, readBlock, early,
                    runner, runId, runBlock, runNext, executed>>
    BY DEF FetchBlock, DecompressVars
  <2>. QED
    BY <2>1, <2>2, <2>3, <2>4 DEF TypeOK
<1>2. ReaderLocated'
  BY DEF ReaderLocated, FetchBlock, DecompressVars
<1>3. lastRead' = lastRead
  BY DEF FetchBlock, DecompressVars
<1>4. QueueLocated'
  BY <1>3 DEF QueueLocated
<1>5. HeldLocated'
  <2>. SUFFICES ASSUME NEW u \in Threads, Working(u)'
                PROVE  held'[u] \in Blocks /\ compressed'[held'[u]].id \in 1..lastRead'
    BY DEF HeldLocated
  <2>1. CASE u = t
    BY <2>1, <1>3 DEF QueueLocated
  <2>2. CASE u # t
    BY <2>2, <1>3 DEF HeldLocated, Working
  <2>. QED
    BY <2>1, <2>2
<1>6. FullLocated'
  BY <1>3 DEF FullLocated
<1>7. RunnerLocated'
  BY <1>3 DEF RunnerLocated, FetchBlock, DecompressVars
<1>. QED
  BY <1>1, <1>2, <1>4, <1>5, <1>6, <1>7

LEMMA FetchNothingType == ASSUME TypeInv, NEW t \in Threads, FetchNothing(t) PROVE TypeInv'
<1>. USE DEF TypeInv, FetchNothing, readVars, runVars
<1>1. TypeOK'
  BY DEF TypeOK
<1>2. ReaderLocated' /\ QueueLocated' /\ FullLocated' /\ RunnerLocated'
  BY DEF ReaderLocated, QueueLocated, FullLocated, RunnerLocated
<1>3. HeldLocated'
  BY DEF TypeOK, HeldLocated, Working
<1>. QED
  BY <1>1, <1>2, <1>3

LEMMA LeaveWaitType ==
  ASSUME TypeInv, NEW t \in Threads, LeaveWait(t), early' \in BOOLEAN PROVE TypeInv'
<1>. USE LeaveWaitEffect DEF TypeInv
<1>1. TypeOK'
  <2>1. decompressor' \in [Threads -> {"fetch", "waitRead", "waitRun", "decompress", "exited"}]
    BY DEF TypeOK, LeaveWait
  <2>2. uncompressed' \in [Blocks -> UncompressedBlock]
    BY LeaveWaitEffect
  <2>3. UNCHANGED <<compressed, decompressionQueue, held, waitsForRunDone, readVars, runVars>>
    BY DEF LeaveWait
  <2>. QED
    BY <2>1, <2>2, <2>3 DEF TypeOK, readVars, runVars
<1>2. ReaderLocated' /\ QueueLocated'
  BY DEF ReaderLocated, QueueLocated, LeaveWait, readVars
<1>3. HeldLocated'
  BY DEF TypeOK, HeldLocated, Working, LeaveWait, readVars
<1>4. FullLocated' /\ RunnerLocated'
  BY DEF FullLocated, RunnerLocated, LeaveWait, readVars, runVars
<1>. QED
  BY <1>1, <1>2, <1>3, <1>4

LEMMA DecompressBlockType == ASSUME TypeInv, NEW t \in Threads, DecompressBlock(t) PROVE TypeInv'
<1>. USE DecompressEffect DEF TypeInv
<1>1. TypeOK'
  BY DEF TypeOK, DecompressBlock, DecompressVars, ReaderWoken
<1>2. lastRead' = lastRead /\ \A c \in Blocks : compressed'[c].id = compressed[c].id
  BY DEF DecompressBlock, DecompressVars
<1>3. ReaderLocated'
  BY DEF ReaderLocated, DecompressBlock, DecompressVars, ReaderWoken
<1>4. QueueLocated'
  <2>1. decompressionQueue' = decompressionQueue /\ decompressionQueue \in Seq(Blocks)
    BY DEF TypeOK, DecompressBlock
  <2>2. \A i \in DOMAIN decompressionQueue : decompressionQueue[i] \in Blocks
    BY <2>1
  <2>. QED
    BY <1>2, <2>1, <2>2 DEF QueueLocated
<1>5. HeldLocated'
  <2>1. \A u \in Threads : Working(u)' => u # t /\ Working(u) /\ held'[u] = held[u]
    <3>1. /\ decompressor' = [decompressor EXCEPT ![t] = "fetch"]
          /\ held' = [held EXCEPT ![t] = NoBlock]
      BY DEF DecompressBlock
    <3>2. DOMAIN decompressor = Threads /\ DOMAIN held = Threads
      BY DEF TypeOK
    <3>. QED
      BY ONLY <3>1, <3>2, t \in Threads DEF Working
  <2>. QED
    BY <1>2, <2>1 DEF HeldLocated
<1>6. FullLocated'
  BY <1>2 DEF FullLocated
<1>7. RunnerLocated'
  <2>1. runner = "run" => runNext \in 1..Len(uncompressed'[runBlock].runners)
    <3>. SUFFICES ASSUME runner = "run" PROVE runNext \in 1..Len(uncompressed'[runBlock].runners)
      OBVIOUS
    <3>1. runBlock \in Blocks /\ runNext \in 1..Len(uncompressed[runBlock].runners)
      BY DEF RunnerLocated
    <3>2. Len(uncompressed'[runBlock].runners) \in Nat /\ Len(uncompressed[runBlock].runners) \in Nat
      BY <3>1 DEF TypeOK, UncompressedBlock
    <3>3. CASE runBlock = held[t]
      <4>1. Len(uncompressed'[held[t]].runners) >= Len(uncompressed[held[t]].runners)
        OBVIOUS
      <4>. QED
        BY <3>1, <3>2, <3>3, <4>1
    <3>4. CASE runBlock # held[t]
      BY <3>1, <3>4
    <3>. QED
      BY <3>3, <3>4
  <2>. QED
    BY <2>1, <1>2 DEF RunnerLocated, DecompressBlock, DecompressVars
<1>. QED
  BY <1>1, <1>3, <1>4, <1>5, <1>6, <1>7

\* What a search leaves alone, and where it ends.
LEMMA FindBlockForRunEffect ==
  ASSUME TypeOK, NEW id, FindBlockForRun(id)
  PROVE  \/ /\ runner' = "run" /\ runBlock' \in Blocks
            /\ uncompressed[runBlock'].full /\ uncompressed[runBlock'].id = id
         \/ runner' = "wait" /\ runBlock' = runBlock
BY DEF FindBlockForRun, IsNext

LEMMA SearchType ==
  ASSUME TypeInv, NEW id \in 0..StreamBlocks + 1, id <= lastRead + 1, FindBlockForRun(id),
         runNext = 1, runId' = id,
         UNCHANGED <<RunVars, uncompressed, waitsForRunDone, runNext, executed, closed,
                     runFinished>>
  PROVE  TypeInv'
<1>. USE DEF TypeInv, RunVars, readVars
<1>1. \/ /\ runner' = "run" /\ runBlock' \in Blocks
         /\ uncompressed[runBlock'].full /\ uncompressed[runBlock'].id = id
      \/ runner' = "wait" /\ runBlock' = runBlock
  BY FindBlockForRunEffect
<1>2. TypeOK'
  BY <1>1 DEF TypeOK
<1>3. ReaderLocated' /\ QueueLocated' /\ HeldLocated' /\ FullLocated'
  BY DEF ReaderLocated, QueueLocated, HeldLocated, Working, FullLocated
<1>4. RunnerLocated'
  <2>1. CASE runner' = "wait"
    BY <2>1 DEF RunnerLocated
  <2>2. CASE runner' = "run"
    <3>1. /\ runBlock' \in Blocks /\ uncompressed[runBlock'].id \in 1..lastRead
          /\ uncompressed[runBlock'].runners # <<>>
      BY <1>1, <2>2 DEF FullLocated
    <3>2. uncompressed[runBlock'].runners \in Seq(Commands)
      BY <3>1 DEF TypeOK, UncompressedBlock
    <3>3. 1 \in 1..Len(uncompressed[runBlock'].runners)
      BY <3>1, <3>2
    <3>. QED
      BY <1>1, <2>2, <3>1, <3>3 DEF RunnerLocated, TypeOK
  <2>. QED
    BY <2>1, <2>2, <1>1
<1>. QED
  BY <1>2, <1>3, <1>4

LEMMA StartBlockType == TypeInv /\ StartBlock => TypeInv'
<1>. SUFFICES ASSUME TypeInv, StartBlock PROVE TypeInv'
  OBVIOUS
<1>1. PICK id : id = runId + 1
  OBVIOUS
<1>2. /\ id \in 0..StreamBlocks + 1 /\ id <= lastRead + 1 /\ runNext = 1 /\ runId' = id
      /\ UNCHANGED <<RunVars, uncompressed, waitsForRunDone, runNext, executed, closed,
                     runFinished>>
  BY <1>1, StreamAssumption DEF TypeInv, TypeOK, RunnerLocated, StartBlock
<1>3. CASE FindBlockForRun(id)
  BY <1>2, <1>3, SearchType
<1>4. CASE runner' = "finish" /\ UNCHANGED runBlock
  <2>. USE DEF TypeInv, RunVars, readVars
  <2>1. TypeOK'
    BY <1>2, <1>4 DEF TypeOK
  <2>2. ReaderLocated' /\ QueueLocated' /\ HeldLocated' /\ FullLocated'
    BY <1>2 DEF ReaderLocated, QueueLocated, HeldLocated, Working, FullLocated
  <2>3. RunnerLocated'
    BY <1>4 DEF RunnerLocated
  <2>. QED
    BY <2>1, <2>2, <2>3
<1>. QED
  BY <1>1, <1>2, <1>3, <1>4 DEF StartBlock

LEMMA ResumeSearchType == TypeInv /\ ResumeSearch => TypeInv'
<1>. SUFFICES ASSUME TypeInv, ResumeSearch PROVE TypeInv'
  OBVIOUS
<1>1. PICK id : id = runId
  OBVIOUS
<1>2. /\ id \in 0..StreamBlocks + 1 /\ id <= lastRead + 1 /\ runNext = 1 /\ runId' = id
      /\ FindBlockForRun(id)
      /\ UNCHANGED <<RunVars, uncompressed, waitsForRunDone, runNext, executed, closed,
                     runFinished>>
  BY <1>1, StreamAssumption DEF TypeInv, TypeOK, RunnerLocated, ResumeSearch
<1>. QED
  BY <1>2, SearchType

LEMMA RunCommandType == TypeInv /\ RunCommand => TypeInv'
<1>. SUFFICES ASSUME TypeInv, RunCommand PROVE TypeInv'
  OBVIOUS
<1>. DEFINE runners == uncompressed[runBlock].runners
<1>. USE DEF TypeInv, RunVars, readVars
<1>1. /\ runBlock \in Blocks /\ runners \in Seq(Commands) /\ runNext \in 1..Len(runners)
      /\ runId <= lastRead
  BY DEF TypeOK, RunnerLocated, UncompressedBlock, RunCommand
<1>2. runners[runNext] \in Commands
  <2>. HIDE DEF runners
  <2>. QED
    BY <1>1
<1>3. /\ executed' = Append(executed, runners[runNext]) /\ closed' \in BOOLEAN
      /\ runNext' = runNext + 1
      /\ runner' = "done" \/ (runner' = "run" /\ runNext # Len(runners))
  BY DEF RunCommand
<1>4. UNCHANGED <<RunVars, uncompressed, waitsForRunDone, runId, runBlock, runFinished>>
  BY DEF RunCommand
<1>5. executed' \in Seq(Commands) /\ runNext' \in Nat
  <2>. HIDE DEF runners
  <2>. QED
    BY <1>1, <1>2, <1>3 DEF TypeOK
<1>6. TypeOK'
  BY <1>3, <1>4, <1>5 DEF TypeOK
<1>7. ReaderLocated' /\ QueueLocated' /\ HeldLocated' /\ FullLocated'
  BY <1>4 DEF ReaderLocated, QueueLocated, HeldLocated, Working, FullLocated
<1>8. runner' = "run" => runNext' \in 1..Len(runners)
  <2>. HIDE DEF runners
  <2>. QED
    BY <1>1, <1>3
<1>9. RunnerLocated'
  BY <1>1, <1>3, <1>4, <1>8 DEF RunnerLocated
<1>. QED
  BY <1>6, <1>7, <1>9

LEMMA ReleaseBlockType == TypeInv /\ ReleaseBlock => TypeInv'
<1>. SUFFICES ASSUME TypeInv, ReleaseBlock PROVE TypeInv'
  OBVIOUS
<1>. USE ReleaseEffect DEF TypeInv
<1>1. /\ runner' = "loop" /\ runNext' = 1
      /\ UNCHANGED <<RunVars, runId, runBlock, executed, closed, runFinished>>
  BY DEF ReleaseBlock
<1>2. TypeOK'
  <2>1. /\ uncompressed' \in [Blocks -> UncompressedBlock]
        /\ waitsForRunDone' \in [Threads -> Blocks \cup {NoBlock}]
    OBVIOUS
  <2>. QED
    BY <1>1, <2>1 DEF TypeOK, RunVars, readVars
<1>3. ReaderLocated' /\ QueueLocated' /\ HeldLocated'
  BY <1>1 DEF ReaderLocated, QueueLocated, HeldLocated, Working, RunVars, readVars
<1>4. FullLocated'
  BY <1>1 DEF FullLocated, RunVars, readVars
<1>5. RunnerLocated'
  BY <1>1 DEF RunnerLocated, ReleaseBlock, RunVars, readVars
<1>. QED
  BY <1>2, <1>3, <1>4, <1>5

LEMMA EndOfRunType == TypeInv /\ (LeaveLoop \/ FinishRunning \/ JoinThreads) => TypeInv'
<1>. SUFFICES ASSUME TypeInv, LeaveLoop \/ FinishRunning \/ JoinThreads PROVE TypeInv'
  OBVIOUS
<1>. USE DEF TypeInv, LeaveLoop, FinishRunning, JoinThreads, RunVars, readVars
<1>1. TypeOK'
  BY DEF TypeOK
<1>2. ReaderLocated' /\ QueueLocated' /\ HeldLocated' /\ FullLocated'
  BY DEF ReaderLocated, QueueLocated, HeldLocated, Working, FullLocated
<1>3. RunnerLocated'
  BY DEF RunnerLocated
<1>. QED
  BY <1>1, <1>2, <1>3

LEMMA WakeType == TypeInv /\ WakeSpuriously => TypeInv'
<1>. SUFFICES ASSUME TypeInv, WakeSpuriously PROVE TypeInv'
  OBVIOUS
<1>. USE DEF TypeInv, WakeSpuriously, DecompressVars
<1>1. TypeOK'
  BY DEF TypeOK
<1>2. ReaderLocated' /\ QueueLocated' /\ FullLocated' /\ RunnerLocated'
  BY DEF ReaderLocated, QueueLocated, FullLocated, RunnerLocated
<1>3. HeldLocated'
  BY DEF TypeOK, HeldLocated, Working
<1>. QED
  BY <1>1, <1>2, <1>3

LEMMA TypeStep == TypeInv /\ [Next]_vars => TypeInv'
<1>. SUFFICES ASSUME TypeInv, [Next]_vars PROVE TypeInv'
  OBVIOUS
<1>1. CASE ReaderStep
  BY <1>1, ReadSizeType, FindBlockForReadType, ReadBlockType, FinishReadingType DEF ReaderStep
<1>2. ASSUME NEW t \in Threads, DecompressorStep(t)
      PROVE  TypeInv'
  <2>1. CASE FetchBlock(t) \/ FetchNothing(t) \/ DecompressBlock(t)
    BY <2>1, FetchBlockType, FetchNothingType, DecompressBlockType
  <2>2. CASE ResumeDecompression(t)
    BY <2>2, LeaveWaitType DEF ResumeDecompression, TypeInv, TypeOK
  <2>. QED
    BY <1>2, <2>1, <2>2 DEF DecompressorStep
<1>3. CASE RunnerStep
  BY <1>3, StartBlockType, ResumeSearchType, RunCommandType, ReleaseBlockType, EndOfRunType
     DEF RunnerStep
<1>4. CASE WakeSpuriously
  BY <1>4, WakeType
<1>5. CASE UNCHANGED vars
  BY <1>5 DEF TypeInv, TypeOK, ReaderLocated, QueueLocated, HeldLocated, Working, FullLocated,
              RunnerLocated, vars, readVars, decompressVars, runVars
<1>6. ASSUME NEW t \in Threads, ReturnEarly(t)
      PROVE  TypeInv'
  BY <1>6, LeaveWaitType DEF ReturnEarly
<1>. QED
  BY <1>1, <1>2, <1>3, <1>4, <1>5, <1>6 DEF Next

(***************************************************************************)
(* Every variable of the reader keeps its type, for any threads and any    *)
(* stream, also if WaitForRunDone returns early: in particular Run never   *)
(* reads beyond the commands of the block that it runs.                    *)
(***************************************************************************)
THEOREM ReaderTypeCorrect == Spec => []TypeOK
<1>1. Spec => []TypeInv
  BY TypeInit, TypeStep, PTL DEF Spec
<1>2. TypeInv => TypeOK
  BY DEF TypeInv
<1>. QED
  BY <1>1, <1>2, PTL
-----------------------------------------------------------------------------
(***************************************************************************)
(* Exclusive blocks, also after WaitForRunDone has returned early.         *)
(***************************************************************************)
\* The threads that hold a block still hold it.
HoldersKept ==
  /\ held' = held
  /\ \A t \in Threads : /\ Working(t)' <=> Working(t)
                        /\ (decompressor'[t] = "waitRun") <=> (decompressor[t] = "waitRun")
                        /\ (decompressor'[t] = "decompress") <=> (decompressor[t] = "decompress")

LEMMA HoldersStay ==
  ASSUME TypeInv, \/ ReaderStep \/ RunnerStep \/ WakeSpuriously
                  \/ \E t \in Threads : FetchNothing(t)
                  \/ UNCHANGED vars
  PROVE  HoldersKept
<1>0. TypeOK
  BY DEF TypeInv
<1>1. CASE ReadSize \/ FindBlockForRead
  BY <1>1 DEF HoldersKept, Working, ReadSize, FindBlockForRead, decompressVars
<1>2. CASE ReadBlock
  BY <1>0, <1>2, NotifyOneHolds DEF HoldersKept, ReadBlock
<1>3. CASE FinishReading
  BY <1>0, <1>3, AllReadersHold DEF HoldersKept, FinishReading
<1>4. CASE RunnerStep
  BY <1>4 DEF HoldersKept, Working, RunnerStep, StartBlock, ResumeSearch, RunCommand, ReleaseBlock,
              LeaveLoop, FinishRunning, JoinThreads, RunVars
<1>5. CASE WakeSpuriously
  BY <1>0, <1>5 DEF HoldersKept, Working, WakeSpuriously, TypeOK
<1>6. ASSUME NEW t \in Threads, FetchNothing(t)
      PROVE  HoldersKept
  BY <1>0, <1>6 DEF HoldersKept, Working, FetchNothing, TypeOK
<1>7. CASE UNCHANGED vars
  BY <1>7 DEF HoldersKept, Working, vars, decompressVars
<1>. QED
  BY <1>1, <1>2, <1>3, <1>4, <1>5, <1>6, <1>7 DEF ReaderStep

\* A step that leaves the compressed blocks and those who hold them alone.
LEMMA QuietExclusive ==
  ASSUME ExclusiveInv, TypeInv', HoldersKept, FillExclusive',
         UNCHANGED <<compressed, decompressionQueue>>
  PROVE  ExclusiveInv'
<1>1. QueueExclusive'
  BY DEF ExclusiveInv, QueueExclusive
<1>2. HeldExclusive'
  BY DEF ExclusiveInv, HeldExclusive, HoldersKept
<1>. QED
  BY <1>1, <1>2 DEF ExclusiveInv

LEMMA ExclusiveInit == Init => ExclusiveInv
<1>. SUFFICES ASSUME Init PROVE ExclusiveInv
  OBVIOUS
<1>1. TypeInv
  BY TypeInit
<1>2. QueueExclusive /\ HeldExclusive /\ FillExclusive
  BY BlocksType DEF Init, QueueExclusive, HeldExclusive, FillExclusive, Working
<1>. QED
  BY <1>1, <1>2 DEF ExclusiveInv

LEMMA ReadBlockExclusive == ASSUME ExclusiveInv, TypeInv', ReadBlock PROVE ExclusiveInv'
<1>0. TypeInv /\ TypeOK /\ HoldersKept /\ FillExclusive
  BY HoldersStay DEF ExclusiveInv, TypeInv, ReaderStep
<1>1. /\ readBlock \in Blocks /\ ~compressed[readBlock].full /\ ~compressed[readBlock].decompressing
      /\ compressed'[readBlock].full = TRUE
      /\ compressed'[readBlock].decompressing = compressed[readBlock].decompressing
      /\ \A c \in Blocks \ {readBlock} : compressed'[c] = compressed[c]
      /\ \A i \in DOMAIN decompressionQueue' :
           IF i \in DOMAIN decompressionQueue
           THEN decompressionQueue'[i] = decompressionQueue[i]
           ELSE decompressionQueue'[i] = readBlock /\ i = Len(decompressionQueue) + 1
  BY <1>0, ReadBlockEffect DEF FillExclusive, ReadBlock
<1>3. ASSUME NEW i \in DOMAIN decompressionQueue
      PROVE  /\ decompressionQueue[i] \in Blocks \ {readBlock}
             /\ compressed'[decompressionQueue[i]] = compressed[decompressionQueue[i]]
  <2>1. decompressionQueue[i] \in Blocks
    BY <1>0 DEF TypeOK
  <2>2. compressed[decompressionQueue[i]].full
    BY DEF ExclusiveInv, QueueExclusive
  <2>3. decompressionQueue[i] # readBlock
    BY <1>1, <2>2
  <2>. QED
    BY <1>1, <2>1, <2>3
<1>4. QueueExclusive'
  <2>. SUFFICES ASSUME NEW i \in DOMAIN decompressionQueue'
                PROVE  /\ compressed'[decompressionQueue'[i]].full
                       /\ ~compressed'[decompressionQueue'[i]].decompressing
                       /\ \A j \in DOMAIN decompressionQueue' :
                            decompressionQueue'[i] = decompressionQueue'[j] => i = j
    BY DEF QueueExclusive
  <2>1. CASE i \in DOMAIN decompressionQueue
    BY <2>1, <1>1, <1>3 DEF ExclusiveInv, QueueExclusive
  <2>2. CASE i \notin DOMAIN decompressionQueue
    BY <2>2, <1>1, <1>3
  <2>. QED
    BY <2>1, <2>2
<1>5. ASSUME NEW t \in Threads, Working(t)
      PROVE  held[t] \in Blocks \ {readBlock}
  <2>1. held[t] \in Blocks /\ compressed[held[t]].decompressing
    BY <1>5 DEF ExclusiveInv, TypeInv, HeldLocated, HeldExclusive
  <2>. QED
    BY <1>1, <2>1
<1>6. HeldExclusive'
  BY <1>0, <1>1, <1>5 DEF ExclusiveInv, HeldExclusive, HoldersKept
<1>7. FillExclusive'
  BY DEF FillExclusive, ReadBlock
<1>. QED
  BY <1>4, <1>6, <1>7 DEF ExclusiveInv

LEMMA FetchBlockExclusive ==
  ASSUME ExclusiveInv, TypeInv', NEW t \in Threads, FetchBlock(t) PROVE ExclusiveInv'
<1>. DEFINE b == Head(decompressionQueue)
<1>0. TypeInv /\ TypeOK
  BY DEF ExclusiveInv, TypeInv
<1>1. /\ b \in Blocks /\ 1 \in DOMAIN decompressionQueue /\ b = decompressionQueue[1]
      /\ \A i \in DOMAIN decompressionQueue' :
           /\ i + 1 \in DOMAIN decompressionQueue /\ i + 1 # 1
           /\ decompressionQueue'[i] = decompressionQueue[i + 1]
           /\ decompressionQueue[i + 1] \in Blocks
      /\ held'[t] = b
      /\ \A u \in Threads \ {t} : held'[u] = held[u] /\ decompressor'[u] = decompressor[u]
  BY <1>0, FetchBlockEffect
<1>2. \A c \in Blocks :
        /\ compressed'[c].full = compressed[c].full
        /\ compressed'[c].decompressing = (c = b \/ compressed[c].decompressing)
  BY <1>0, FetchBlockEffect
<1>3. UNCHANGED <<readBlock, reader>>
  BY DEF FetchBlock, DecompressVars
<1>6. /\ compressed[b].full /\ ~compressed[b].decompressing
      /\ \A i \in DOMAIN decompressionQueue : i # 1 => decompressionQueue[i] # b
  BY <1>1 DEF ExclusiveInv, QueueExclusive
<1>7. ASSUME NEW u \in Threads \ {t}, Working(u)
      PROVE  held[u] \in Blocks \ {b}
  <2>1. held[u] \in Blocks /\ compressed[held[u]].decompressing
    BY <1>7 DEF ExclusiveInv, TypeInv, HeldLocated, HeldExclusive
  <2>. QED
    BY <1>6, <2>1
<1>8. \A u \in Threads \ {t} : Working(u)' <=> Working(u)
  BY <1>1 DEF Working
<1>. HIDE DEF b
<1>9. QueueExclusive'
  <2>. SUFFICES ASSUME NEW i \in DOMAIN decompressionQueue'
                PROVE  /\ compressed'[decompressionQueue'[i]].full
                       /\ ~compressed'[decompressionQueue'[i]].decompressing
                       /\ \A j \in DOMAIN decompressionQueue' :
                            decompressionQueue'[i] = decompressionQueue'[j] => i = j
    BY DEF QueueExclusive
  <2>1. /\ i + 1 \in DOMAIN decompressionQueue
        /\ decompressionQueue'[i] = decompressionQueue[i + 1]
        /\ decompressionQueue[i + 1] \in Blocks \ {b}
    BY <1>1, <1>6
  <2>2. compressed'[decompressionQueue'[i]].full /\ ~compressed'[decompressionQueue'[i]].decompressing
    BY <2>1, <1>2 DEF ExclusiveInv, QueueExclusive
  <2>3. ASSUME NEW j \in DOMAIN decompressionQueue', decompressionQueue'[i] = decompressionQueue'[j]
        PROVE  i = j
    <3>1. /\ j + 1 \in DOMAIN decompressionQueue
          /\ decompressionQueue[i + 1] = decompressionQueue[j + 1]
      BY <2>1, <2>3, <1>1
    <3>2. i + 1 = j + 1
      BY <2>1, <3>1 DEF ExclusiveInv, QueueExclusive
    <3>3. i \in Nat /\ j \in Nat
      BY <1>0 DEF TypeOK, FetchBlock
    <3>. QED
      BY <3>2, <3>3
  <2>. QED
    BY <2>2, <2>3
<1>10. HeldExclusive'
  <2>. SUFFICES ASSUME NEW u \in Threads, Working(u)'
                PROVE  /\ compressed'[held'[u]].full /\ compressed'[held'[u]].decompressing
                       /\ \A v \in Threads : Working(v)' /\ held'[u] = held'[v] => u = v
    BY DEF HeldExclusive
  <2>1. CASE u = t
    <3>1. held'[u] = b /\ compressed'[b].full /\ compressed'[b].decompressing
      BY <2>1, <1>1, <1>2, <1>6
    <3>2. ASSUME NEW v \in Threads \ {t}, Working(v)' PROVE held'[v] # b
      BY <3>2, <1>1, <1>7, <1>8
    <3>. QED
      BY <2>1, <3>1, <3>2
  <2>2. CASE u # t
    <3>1. Working(u) /\ held'[u] = held[u] /\ held[u] \in Blocks \ {b}
      BY <2>2, <1>1, <1>7, <1>8
    <3>2. compressed[held[u]].full /\ compressed[held[u]].decompressing
      BY <3>1 DEF ExclusiveInv, HeldExclusive
    <3>3. ASSUME NEW v \in Threads, Working(v)', held'[u] = held'[v]
          PROVE  u = v
      <4>1. v # t
        BY <3>1, <3>3, <1>1
      <4>. QED
        BY <4>1, <3>1, <3>3, <1>1, <1>8 DEF ExclusiveInv, HeldExclusive
    <3>. QED
      BY <3>1, <3>2, <3>3, <1>2
  <2>. QED
    BY <2>1, <2>2
<1>11. FillExclusive'
  <2>1. reader = "fill" => readBlock \in Blocks /\ readBlock # b
    BY <1>6 DEF ExclusiveInv, FillExclusive, TypeInv, ReaderLocated
  <2>. QED
    BY <2>1, <1>2, <1>3 DEF ExclusiveInv, FillExclusive
<1>. QED
  BY <1>9, <1>10, <1>11 DEF ExclusiveInv

LEMMA LeaveWaitExclusive ==
  ASSUME ExclusiveInv, TypeInv', NEW t \in Threads, LeaveWait(t) PROVE ExclusiveInv'
<1>1. UNCHANGED <<compressed, decompressionQueue, held, reader, readBlock>>
  BY DEF LeaveWait, readVars
<1>2. \A u \in Threads : Working(u)' <=> Working(u)
  BY DEF LeaveWait, Working, ExclusiveInv, TypeInv, TypeOK
<1>3. QueueExclusive' /\ FillExclusive'
  BY <1>1 DEF ExclusiveInv, QueueExclusive, FillExclusive
<1>4. HeldExclusive'
  BY <1>1, <1>2 DEF ExclusiveInv, HeldExclusive
<1>. QED
  BY <1>3, <1>4 DEF ExclusiveInv

LEMMA DecompressBlockExclusive ==
  ASSUME ExclusiveInv, TypeInv', NEW t \in Threads, DecompressBlock(t) PROVE ExclusiveInv'
<1>. DEFINE b == held[t]
<1>0. TypeInv /\ TypeOK
  BY DEF ExclusiveInv, TypeInv
<1>1. /\ b \in Blocks
      /\ compressed'[b].full = FALSE /\ compressed'[b].decompressing = FALSE
      /\ \A c \in Blocks \ {b} : compressed'[c] = compressed[c]
  BY <1>0, DecompressEffect
<1>2. /\ UNCHANGED <<decompressionQueue, readBlock>>
      /\ reader' = "fill" => reader = "fill"
  BY DEF DecompressBlock, DecompressVars, ReaderWoken
<1>3. /\ decompressor[t] = "decompress" /\ decompressor'[t] = "fetch"
      /\ \A u \in Threads \ {t} : decompressor'[u] = decompressor[u] /\ held'[u] = held[u]
  BY <1>0 DEF DecompressBlock, TypeOK
<1>4. /\ ~Working(t)' /\ Working(t)
      /\ \A u \in Threads \ {t} : Working(u)' <=> Working(u)
  BY <1>3 DEF Working
<1>5. ASSUME NEW u \in Threads \ {t}, Working(u)
      PROVE  held[u] \in Blocks \ {b}
  BY <1>0, <1>4, <1>5 DEF ExclusiveInv, TypeInv, HeldLocated, HeldExclusive
<1>6. compressed[b].full /\ compressed[b].decompressing
  BY <1>4 DEF ExclusiveInv, HeldExclusive
<1>7. QueueExclusive'
  <2>1. ASSUME NEW i \in DOMAIN decompressionQueue
        PROVE  decompressionQueue[i] \in Blocks \ {b}
    BY <1>0, <1>6 DEF TypeOK, ExclusiveInv, QueueExclusive
  <2>. QED
    BY <2>1, <1>1, <1>2 DEF ExclusiveInv, QueueExclusive
<1>. HIDE DEF b
<1>8. HeldExclusive'
  <2>. SUFFICES ASSUME NEW u \in Threads, Working(u)'
                PROVE  /\ compressed'[held'[u]].full /\ compressed'[held'[u]].decompressing
                       /\ \A v \in Threads : Working(v)' /\ held'[u] = held'[v] => u = v
    BY DEF HeldExclusive
  <2>1. u # t /\ Working(u) /\ held'[u] = held[u] /\ held[u] \in Blocks \ {b}
    BY <1>3, <1>4, <1>5
  <2>. QED
    BY <2>1, <1>1, <1>3, <1>4 DEF ExclusiveInv, HeldExclusive
<1>9. FillExclusive'
  <2>1. reader = "fill" => readBlock \in Blocks
    BY <1>0 DEF TypeInv, ReaderLocated
  <2>. QED
    BY <2>1, <1>1, <1>2 DEF ExclusiveInv, FillExclusive
<1>. QED
  BY <1>7, <1>8, <1>9 DEF ExclusiveInv

LEMMA ExclusiveStep == ExclusiveInv /\ [Next]_vars => ExclusiveInv'
<1>. SUFFICES ASSUME ExclusiveInv, [Next]_vars PROVE ExclusiveInv'
  OBVIOUS
<1>0. TypeInv /\ TypeOK /\ TypeInv'
  BY TypeStep DEF ExclusiveInv, TypeInv
<1>1. CASE ReadBlock
  BY <1>0, <1>1, ReadBlockExclusive
<1>2. ASSUME NEW t \in Threads, FetchBlock(t) \/ DecompressBlock(t)
      PROVE  ExclusiveInv'
  BY <1>0, <1>2, FetchBlockExclusive, DecompressBlockExclusive
<1>3. ASSUME NEW t \in Threads, ResumeDecompression(t) \/ ReturnEarly(t)
      PROVE  ExclusiveInv'
  BY <1>0, <1>3, LeaveWaitExclusive DEF ResumeDecompression, ReturnEarly
<1>4. CASE FindBlockForRead
  <2>1. HoldersKept
    BY <1>0, <1>4, HoldersStay DEF ReaderStep
  <2>2. FillExclusive' /\ UNCHANGED <<compressed, decompressionQueue>>
    BY <1>4 DEF FillExclusive, FindBlockForRead, FreeBlocks, ExclusiveInv
  <2>. QED
    BY <1>0, <2>1, <2>2, QuietExclusive
<1>5. CASE \/ ReadSize \/ FinishReading \/ WakeSpuriously \/ RunnerStep \/ UNCHANGED vars
           \/ \E t \in Threads : FetchNothing(t)
  <2>1. HoldersKept
    BY <1>0, <1>5, HoldersStay DEF ReaderStep
  <2>2. /\ UNCHANGED <<compressed, decompressionQueue, readBlock>>
        /\ reader' = "fill" => reader = "fill"
    <3>1. CASE ReadSize \/ FinishReading \/ WakeSpuriously
      BY <3>1 DEF ReadSize, FinishReading, WakeSpuriously, DecompressVars
    <3>2. CASE RunnerStep
      BY <3>2 DEF RunnerStep, StartBlock, ResumeSearch, RunCommand, ReleaseBlock, LeaveLoop,
                  FinishRunning, JoinThreads, RunVars, readVars
    <3>3. ASSUME NEW t \in Threads, FetchNothing(t)
          PROVE  /\ UNCHANGED <<compressed, decompressionQueue, readBlock>>
                 /\ reader' = "fill" => reader = "fill"
      BY <3>3 DEF FetchNothing, readVars
    <3>4. CASE UNCHANGED vars
      BY <3>4 DEF vars, readVars
    <3>. QED
      BY <1>5, <3>1, <3>2, <3>3, <3>4
  <2>3. FillExclusive'
    BY <2>2 DEF FillExclusive, ExclusiveInv
  <2>. QED
    BY <1>0, <2>1, <2>2, <2>3, QuietExclusive
<1>. QED
  BY <1>1, <1>2, <1>3, <1>4, <1>5 DEF Next, ReaderStep, DecompressorStep

(***************************************************************************)
(* A compressed block is never in two places of the queue, with two        *)
(* threads, or with the reading thread and one of them, for any threads    *)
(* and any stream, also after WaitForRunDone has returned early: what they *)
(* do with it outside of the mutex does not race.                          *)
(***************************************************************************)
THEOREM AlwaysOneOwner == Spec => []OneOwner
<1>1. Spec => []ExclusiveInv
  BY ExclusiveInit, ExclusiveStep, PTL DEF Spec
<1>2. ExclusiveInv => OneOwner
  <2>. SUFFICES ASSUME ExclusiveInv, NEW b \in Blocks
                PROVE  Cardinality(QueuePlaces(b)) + Cardinality(Holders(b))
                         + (IF Filling(b) THEN 1 ELSE 0) <= 1
    BY DEF OneOwner
  <2>. USE DEF ExclusiveInv
  <2>1. \A i \in QueuePlaces(b) : /\ QueuePlaces(b) = {i}
                                  /\ compressed[b].full /\ ~compressed[b].decompressing
    BY DEF QueuePlaces, QueueExclusive
  <2>2. \A t \in Holders(b) : /\ Holders(b) = {t}
                              /\ compressed[b].full /\ compressed[b].decompressing
    BY DEF Holders, Working, HeldExclusive
  <2>3. Filling(b) => ~compressed[b].full
    BY DEF Filling, FillExclusive
  <2>4. QueuePlaces(b) = {} => Cardinality(QueuePlaces(b)) = 0
    BY FS_EmptySet
  <2>5. Holders(b) = {} => Cardinality(Holders(b)) = 0
    BY FS_EmptySet
  <2>6. \A i \in QueuePlaces(b) : Cardinality(QueuePlaces(b)) = 1
    BY <2>1, FS_Singleton
  <2>7. \A t \in Holders(b) : Cardinality(Holders(b)) = 1
    BY <2>2, FS_Singleton
  <2>. DEFINE queued == Cardinality(QueuePlaces(b))
              working == Cardinality(Holders(b))
              filling == IF Filling(b) THEN 1 ELSE 0
  <2>8. \/ queued = 1 /\ working = 0 /\ filling = 0
        \/ queued = 0 /\ working = 1 /\ filling = 0
        \/ queued = 0 /\ working = 0 /\ filling \in {0, 1}
    BY <2>1, <2>2, <2>3, <2>4, <2>5, <2>6, <2>7
  <2>. HIDE DEF queued, working, filling
  <2>9. queued + working + filling <= 1
    BY <2>8
  <2>. QED
    BY <2>9 DEF queued, working, filling
<1>. QED
  BY <1>1, <1>2, PTL
-----------------------------------------------------------------------------
(***************************************************************************)
(* Targets.  What follows is about the reader until WaitForRunDone returns *)
(* without a notification, if it ever does: then no step is a ReturnEarly. *)
(***************************************************************************)
\* A step that leaves the blocks and those who hold them alone.
LEMMA QuietOwner ==
  ASSUME OwnerInv, ExclusiveInv', HoldersKept, RunSound',
         UNCHANGED <<uncompressed, waitsForRunDone, runFinished>>
  PROVE  OwnerInv'
<1>. USE DEF OwnerInv, HoldersKept
<1>3. WaitSound'
  BY DEF WaitSound
<1>4. BlockSound'
  BY DEF BlockSound
<1>5. TargetIsFree'
  BY DEF TargetIsFree
<1>. QED
  BY <1>3, <1>4, <1>5

LEMMA OwnerInit == Init => OwnerInv
<1>. SUFFICES ASSUME Init PROVE OwnerInv
  OBVIOUS
<1>1. ExclusiveInv
  BY ExclusiveInit
<1>. USE BlocksType DEF Init
<1>3. WaitSound /\ TargetIsFree
  BY DEF WaitSound, TargetIsFree
<1>4. BlockSound /\ RunSound
  BY DEF BlockSound, RunSound
<1>. QED
  BY <1>1, <1>3, <1>4 DEF OwnerInv

LEMMA ReadBlockOwner == ASSUME OwnerInv, ExclusiveInv', ReadBlock PROVE OwnerInv'
<1>0. TypeInv /\ TypeOK /\ HoldersKept
  BY HoldersStay DEF OwnerInv, ExclusiveInv, TypeInv, ReaderStep
<1>2. UNCHANGED <<uncompressed, waitsForRunDone, runFinished, runner, runId, runBlock>>
  BY DEF ReadBlock, runVars
<1>8. WaitSound' /\ BlockSound' /\ TargetIsFree'
  BY <1>0, <1>2 DEF OwnerInv, WaitSound, BlockSound, TargetIsFree, HoldersKept
<1>9. RunSound'
  BY <1>2 DEF OwnerInv, RunSound
<1>. QED
  BY <1>8, <1>9 DEF OwnerInv

LEMMA FetchBlockOwner ==
  ASSUME OwnerInv, ExclusiveInv', NEW t \in Threads, FetchBlock(t) PROVE OwnerInv'
<1>. DEFINE b == Head(decompressionQueue)
<1>0. TypeInv /\ TypeOK
  BY DEF OwnerInv, ExclusiveInv, TypeInv
<1>1. /\ b \in Blocks /\ 1 \in DOMAIN decompressionQueue /\ b = decompressionQueue[1]
      /\ held'[t] = b
      /\ \A u \in Threads \ {t} : /\ held'[u] = held[u] /\ decompressor'[u] = decompressor[u]
                                  /\ waitsForRunDone'[u] = waitsForRunDone[u]
  BY <1>0, FetchBlockEffect
<1>2. \A c \in Blocks :
        /\ uncompressed'[c].id = uncompressed[c].id
        /\ uncompressed'[c].runners = uncompressed[c].runners
        /\ uncompressed'[c].full = uncompressed[c].full
        /\ uncompressed[c].decompressing => uncompressed'[c].decompressing
  BY <1>0, FetchBlockEffect
<1>3. UNCHANGED <<readBlock, reader, runner, runId, runBlock, runFinished>>
  BY DEF FetchBlock, DecompressVars
<1>4. \/ /\ ~Busy(b) /\ decompressor'[t] = "decompress" /\ uncompressed'[b].decompressing
         /\ waitsForRunDone' = waitsForRunDone
      \/ /\ Busy(b) /\ ~runFinished /\ decompressor'[t] = "waitRun" /\ waitsForRunDone'[t] = b
      \/ /\ Busy(b) /\ runFinished /\ decompressor'[t] = "exited"
         /\ waitsForRunDone' = waitsForRunDone
  <2>1. b \in Blocks
    BY <1>1
  <2>. HIDE DEF b
  <2>. USE <2>1, <1>0 DEF TypeOK
  <2>2. CASE /\ ~Busy(b) /\ decompressor' = [decompressor EXCEPT ![t] = "decompress"]
             /\ uncompressed' = Marked(uncompressed, b) /\ UNCHANGED waitsForRunDone
    <3>1. uncompressed'[b].decompressing
      BY <2>2, MarkUncompressed
    <3>. QED
      BY <2>2, <3>1
  <2>3. CASE /\ Busy(b) /\ ~runFinished /\ decompressor' = [decompressor EXCEPT ![t] = "waitRun"]
             /\ waitsForRunDone' = [waitsForRunDone EXCEPT ![t] = b]
    BY <2>3
  <2>4. CASE /\ Busy(b) /\ runFinished /\ decompressor' = [decompressor EXCEPT ![t] = "exited"]
             /\ UNCHANGED waitsForRunDone
    BY <2>4
  <2>. QED
    BY <2>2, <2>3, <2>4 DEF FetchBlock, Marked, b
<1>5. decompressor[t] = "fetch" /\ waitsForRunDone[t] = NoBlock
  BY DEF FetchBlock, OwnerInv, WaitSound
<1>6. compressed[b].full /\ ~compressed[b].decompressing
  BY <1>1 DEF OwnerInv, ExclusiveInv, QueueExclusive
<1>7. ASSUME NEW u \in Threads \ {t}, Working(u)
      PROVE  held[u] \in Blocks \ {b}
  <2>1. held[u] \in Blocks /\ compressed[held[u]].decompressing
    BY <1>7 DEF OwnerInv, ExclusiveInv, TypeInv, HeldLocated, HeldExclusive
  <2>. QED
    BY <1>6, <2>1
<1>. HIDE DEF b
<1>12. WaitSound'
  <2>. SUFFICES ASSUME NEW u \in Threads
                PROVE  /\ waitsForRunDone'[u] # NoBlock
                            => decompressor'[u] = "waitRun" /\ waitsForRunDone'[u] = held'[u]
                       /\ decompressor'[u] = "waitRun" /\ waitsForRunDone'[u] = NoBlock /\ ~runFinished'
                            => ~uncompressed'[held'[u]].full
    BY DEF WaitSound
  <2>1. CASE u = t
    BY <2>1, <1>1, <1>4, <1>5, BlocksType
  <2>2. CASE u # t
    <3>1. decompressor[u] = "waitRun" => held[u] \in Blocks
      BY <2>2, <1>7 DEF Working
    <3>. QED
      BY <2>2, <3>1, <1>1, <1>2, <1>3 DEF OwnerInv, WaitSound
  <2>. QED
    BY <2>1, <2>2
<1>13. BlockSound'
  BY <1>2, <1>3 DEF OwnerInv, BlockSound
<1>14. RunSound'
  <2>1. runner \in {"run", "done"} => runBlock \in Blocks
    BY DEF OwnerInv, ExclusiveInv, TypeInv, RunnerLocated
  <2>. QED
    BY <2>1, <1>2, <1>3 DEF OwnerInv, RunSound
<1>15. TargetIsFree'
  <2>. SUFFICES ASSUME NEW u \in Threads, decompressor'[u] = "decompress", ~runFinished'
                PROVE  ~uncompressed'[held'[u]].full /\ uncompressed'[held'[u]].decompressing
    BY DEF TargetIsFree
  <2>1. CASE u = t
    BY <2>1, <1>1, <1>2, <1>4 DEF Busy
  <2>2. CASE u # t
    <3>1. held[u] \in Blocks /\ decompressor[u] = "decompress"
      BY <2>2, <1>1, <1>7 DEF Working
    <3>. QED
      BY <2>2, <3>1, <1>1, <1>2, <1>3 DEF OwnerInv, TargetIsFree
  <2>. QED
    BY <2>1, <2>2
<1>. QED
  BY <1>12, <1>13, <1>14, <1>15 DEF OwnerInv

LEMMA ResumeDecompressionOwner ==
  ASSUME OwnerInv, ExclusiveInv', NEW t \in Threads, ResumeDecompression(t) PROVE OwnerInv'
<1>0. TypeInv /\ TypeOK
  BY DEF OwnerInv, ExclusiveInv, TypeInv
<1>1. /\ held[t] \in Blocks
      /\ \A c \in Blocks :
           /\ uncompressed'[c].id = uncompressed[c].id
           /\ uncompressed'[c].runners = uncompressed[c].runners
           /\ uncompressed'[c].full = uncompressed[c].full
           /\ uncompressed'[c].decompressing = (c = held[t] \/ uncompressed[c].decompressing)
  BY <1>0, LeaveWaitEffect DEF ResumeDecompression
<1>2. UNCHANGED <<compressed, decompressionQueue, held, waitsForRunDone, reader, readBlock,
                  runner, runId, runBlock, runFinished>>
  BY DEF ResumeDecompression, LeaveWait, readVars, runVars
<1>3. /\ decompressor[t] = "waitRun" /\ waitsForRunDone[t] = NoBlock
      /\ decompressor'[t] = "decompress"
      /\ \A u \in Threads \ {t} : decompressor'[u] = decompressor[u]
  BY <1>0 DEF ResumeDecompression, LeaveWait, TypeOK
<1>4. \A u \in Threads : /\ Working(u)' <=> Working(u)
                         /\ Working(u) => held[u] \in Blocks
  BY <1>0, <1>3 DEF Working, TypeInv, HeldLocated
<1>7. WaitSound'
  BY <1>1, <1>2, <1>3, <1>4 DEF OwnerInv, WaitSound, Working
<1>8. BlockSound'
  BY <1>1, <1>2 DEF OwnerInv, BlockSound
<1>9. RunSound'
  <2>1. runner \in {"run", "done"} => runBlock \in Blocks
    BY <1>0 DEF TypeInv, RunnerLocated
  <2>. QED
    BY <2>1, <1>1, <1>2 DEF OwnerInv, RunSound
<1>10. TargetIsFree'
  <2>. SUFFICES ASSUME NEW u \in Threads, decompressor'[u] = "decompress", ~runFinished
                PROVE  ~uncompressed'[held[u]].full /\ uncompressed'[held[u]].decompressing
    BY <1>2 DEF TargetIsFree
  <2>1. CASE u = t
    BY <2>1, <1>1, <1>3 DEF OwnerInv, WaitSound
  <2>2. CASE u # t
    BY <2>2, <1>1, <1>3, <1>4 DEF OwnerInv, TargetIsFree, Working
  <2>. QED
    BY <2>1, <2>2
<1>. QED
  BY <1>7, <1>8, <1>9, <1>10 DEF OwnerInv

\* Decompression fills an empty block with the commands of the compressed one.
LEMMA DecompressFills ==
  ASSUME OwnerInv, NEW t \in Threads, DecompressBlock(t), ~runFinished
  PROVE  /\ ~uncompressed[held[t]].full
         /\ uncompressed'[held[t]].runners = CommandsOf(compressed[held[t]].id)
<1>0. TypeInv /\ TypeOK
  BY DEF OwnerInv, ExclusiveInv, TypeInv
<1>1. /\ held[t] \in Blocks /\ compressed[held[t]].id \in 1..lastRead
      /\ uncompressed'[held[t]].runners
           = uncompressed[held[t]].runners \o CommandsOf(compressed[held[t]].id)
  BY <1>0, DecompressEffect
<1>2. ~uncompressed[held[t]].full
  BY DEF OwnerInv, TargetIsFree, DecompressBlock
<1>3. uncompressed[held[t]].runners = <<>>
  BY <1>1, <1>2 DEF OwnerInv, BlockSound
<1>4. compressed[held[t]].id \in 1..StreamBlocks
  BY <1>0, <1>1, StreamAssumption DEF TypeOK
<1>5. CommandsOf(compressed[held[t]].id) \in Seq(Commands)
  BY <1>4, CommandsType
<1>6. <<>> \o CommandsOf(compressed[held[t]].id) = CommandsOf(compressed[held[t]].id)
  BY <1>5
<1>. QED
  BY <1>1, <1>2, <1>3, <1>6

LEMMA DecompressBlockOwner ==
  ASSUME OwnerInv, ExclusiveInv', NEW t \in Threads, DecompressBlock(t) PROVE OwnerInv'
<1>. DEFINE b == held[t]
<1>0. TypeInv /\ TypeOK
  BY DEF OwnerInv, ExclusiveInv, TypeInv
<1>1. /\ b \in Blocks
      /\ uncompressed'[b].id = compressed[b].id /\ uncompressed'[b].full = TRUE
      /\ \A c \in Blocks \ {b} : uncompressed'[c] = uncompressed[c]
  BY <1>0, DecompressEffect
<1>2. /\ UNCHANGED <<waitsForRunDone, runId, runBlock, runFinished>>
      /\ runner' = IF runner = "wait" THEN "search" ELSE runner
  BY DEF DecompressBlock, DecompressVars, ReaderWoken
<1>3. /\ decompressor[t] = "decompress" /\ decompressor'[t] = "fetch"
      /\ \A u \in Threads \ {t} : decompressor'[u] = decompressor[u] /\ held'[u] = held[u]
  BY <1>0 DEF DecompressBlock, TypeOK
<1>4. /\ ~Working(t)' /\ Working(t)
      /\ \A u \in Threads \ {t} : Working(u)' <=> Working(u)
  BY <1>3 DEF Working
<1>5. ASSUME NEW u \in Threads \ {t}, Working(u)
      PROVE  held[u] \in Blocks \ {b}
  BY <1>0, <1>4, <1>5 DEF OwnerInv, ExclusiveInv, TypeInv, HeldLocated, HeldExclusive
<1>. HIDE DEF b
<1>10. WaitSound'
  <2>. SUFFICES ASSUME NEW u \in Threads
                PROVE  /\ waitsForRunDone[u] # NoBlock
                            => decompressor'[u] = "waitRun" /\ waitsForRunDone[u] = held'[u]
                       /\ decompressor'[u] = "waitRun" /\ waitsForRunDone[u] = NoBlock /\ ~runFinished
                            => ~uncompressed'[held'[u]].full
    BY <1>2 DEF WaitSound
  <2>1. CASE u = t
    BY <2>1, <1>3 DEF OwnerInv, WaitSound
  <2>2. CASE u # t
    <3>1. decompressor[u] = "waitRun" => held[u] \in Blocks \ {b}
      BY <2>2, <1>5 DEF Working
    <3>. QED
      BY <2>2, <3>1, <1>1, <1>3 DEF OwnerInv, WaitSound
  <2>. QED
    BY <2>1, <2>2
<1>11. BlockSound'
  <2>. SUFFICES ASSUME ~runFinished, NEW c \in Blocks
                PROVE  uncompressed'[c].runners = IF uncompressed'[c].full
                                                  THEN CommandsOf(uncompressed'[c].id) ELSE <<>>
    BY <1>2 DEF BlockSound
  <2>1. CASE c = b
    <3>1. uncompressed'[b].runners = CommandsOf(compressed[b].id)
      BY DecompressFills DEF b
    <3>. QED
      BY <2>1, <3>1, <1>1
  <2>2. CASE c # b
    BY <2>2, <1>1 DEF OwnerInv, BlockSound
  <2>. QED
    BY <2>1, <2>2
<1>12. RunSound'
  <2>1. (runFinished' <=> runner' \in {"join", "returned"})
    BY <1>2 DEF OwnerInv, RunSound
  <2>2. ASSUME runner' \in {"run", "done"}
        PROVE  uncompressed'[runBlock].full /\ uncompressed'[runBlock].id = runId
    <3>1. runner \in {"run", "done"} /\ runBlock \in Blocks
      BY <2>2, <1>0, <1>2 DEF TypeInv, RunnerLocated
    <3>2. uncompressed[runBlock].full /\ uncompressed[runBlock].id = runId /\ ~runFinished
      BY <3>1 DEF OwnerInv, RunSound
    <3>3. runBlock # b
      BY <3>2, DecompressFills DEF b
    <3>. QED
      BY <3>1, <3>2, <3>3, <1>1
  <2>. QED
    BY <2>1, <2>2, <1>2 DEF RunSound
<1>13. TargetIsFree'
  <2>. SUFFICES ASSUME NEW u \in Threads, decompressor'[u] = "decompress", ~runFinished
                PROVE  ~uncompressed'[held'[u]].full /\ uncompressed'[held'[u]].decompressing
    BY <1>2 DEF TargetIsFree
  <2>1. u # t /\ decompressor[u] = "decompress" /\ held'[u] = held[u] /\ held[u] \in Blocks \ {b}
    BY <1>3, <1>5 DEF Working
  <2>. QED
    BY <2>1, <1>1 DEF OwnerInv, TargetIsFree
<1>. QED
  BY <1>10, <1>11, <1>12, <1>13 DEF OwnerInv

\* Starting to run a block, or to wait for it.
LEMMA SearchOwner ==
  ASSUME OwnerInv, ExclusiveInv', HoldersKept, runFinished' = runFinished, NEW id, runId' = id,
         FindBlockForRun(id), runner \in {"loop", "search"},
         UNCHANGED <<uncompressed, waitsForRunDone>>
  PROVE  OwnerInv'
<1>1. \/ runner' = "run" /\ uncompressed[runBlock'].full /\ uncompressed[runBlock'].id = id
      \/ runner' = "wait"
  BY FindBlockForRunEffect DEF OwnerInv, ExclusiveInv, TypeInv
<1>2. RunSound'
  BY <1>1 DEF OwnerInv, RunSound
<1>. QED
  BY <1>2, QuietOwner

LEMMA ReleaseBlockOwner == ASSUME OwnerInv, ExclusiveInv', ReleaseBlock PROVE OwnerInv'
<1>0. TypeInv /\ TypeOK /\ HoldersKept
  BY HoldersStay DEF OwnerInv, ExclusiveInv, TypeInv, RunnerStep
<1>1. /\ runBlock \in Blocks
      /\ uncompressed'[runBlock].runners = <<>> /\ uncompressed'[runBlock].full = FALSE
      /\ uncompressed'[runBlock].decompressing = uncompressed[runBlock].decompressing
      /\ \A c \in Blocks \ {runBlock} : uncompressed'[c] = uncompressed[c]
      /\ \A t \in Threads : \/ waitsForRunDone'[t] = waitsForRunDone[t]
                            \/ waitsForRunDone[t] = runBlock /\ waitsForRunDone'[t] = NoBlock
  BY <1>0, ReleaseEffect
<1>2. /\ UNCHANGED runFinished
      /\ runner = "done" /\ runner' = "loop"
  BY DEF ReleaseBlock, RunVars, readVars
<1>3. \A t \in Threads : Working(t) => held[t] \in Blocks
  BY <1>0 DEF TypeInv, HeldLocated
<1>6. WaitSound'
  <2>. SUFFICES ASSUME NEW t \in Threads
                PROVE  /\ waitsForRunDone'[t] # NoBlock
                            => decompressor'[t] = "waitRun" /\ waitsForRunDone'[t] = held'[t]
                       /\ decompressor'[t] = "waitRun" /\ waitsForRunDone'[t] = NoBlock /\ ~runFinished
                            => ~uncompressed'[held'[t]].full
    BY <1>2 DEF WaitSound
  <2>1. /\ (decompressor'[t] = "waitRun") <=> (decompressor[t] = "waitRun")
        /\ held'[t] = held[t]
        /\ decompressor[t] = "waitRun" => held[t] \in Blocks
    BY <1>0, <1>3 DEF HoldersKept, Working
  <2>2. CASE waitsForRunDone'[t] = waitsForRunDone[t]
    BY <2>1, <2>2, <1>1 DEF OwnerInv, WaitSound
  <2>3. CASE waitsForRunDone[t] = runBlock /\ waitsForRunDone'[t] = NoBlock
    <3>1. held[t] = runBlock
      BY <2>3, <1>1, BlocksType DEF OwnerInv, WaitSound
    <3>. QED
      BY <2>1, <2>3, <3>1, <1>1
  <2>. QED
    BY <2>2, <2>3, <1>1
<1>7. BlockSound'
  <2>. SUFFICES ASSUME ~runFinished, NEW c \in Blocks
                PROVE  uncompressed'[c].runners = IF uncompressed'[c].full
                                                  THEN CommandsOf(uncompressed'[c].id) ELSE <<>>
    BY <1>2 DEF BlockSound
  <2>1. CASE c = runBlock
    BY <2>1, <1>1
  <2>2. CASE c # runBlock
    BY <2>2, <1>1 DEF OwnerInv, BlockSound
  <2>. QED
    BY <2>1, <2>2
<1>8. RunSound'
  BY <1>2 DEF OwnerInv, RunSound
<1>9. TargetIsFree'
  <2>. SUFFICES ASSUME NEW t \in Threads, decompressor'[t] = "decompress", ~runFinished
                PROVE  ~uncompressed'[held'[t]].full /\ uncompressed'[held'[t]].decompressing
    BY <1>2 DEF TargetIsFree
  <2>1. decompressor[t] = "decompress" /\ held'[t] = held[t] /\ held[t] \in Blocks
    BY <1>0, <1>3 DEF HoldersKept, Working
  <2>2. ~uncompressed[held[t]].full /\ uncompressed[held[t]].decompressing
    BY <2>1 DEF OwnerInv, TargetIsFree
  <2>. QED
    BY <2>1, <2>2, <1>1
<1>. QED
  BY <1>6, <1>7, <1>8, <1>9 DEF OwnerInv

LEMMA FinishRunningOwner == ASSUME OwnerInv, ExclusiveInv', FinishRunning PROVE OwnerInv'
<1>1. /\ runFinished' = TRUE /\ runner' = "join"
      /\ waitsForRunDone' = [t \in Threads |-> NoBlock]
  BY DEF FinishRunning, RunVars, readVars
<1>4. WaitSound' /\ BlockSound' /\ RunSound' /\ TargetIsFree'
  BY <1>1 DEF WaitSound, BlockSound, RunSound, TargetIsFree
<1>. QED
  BY <1>4 DEF OwnerInv

LEMMA OwnerStep == ASSUME OwnerInv, [Next]_vars, ~early' PROVE OwnerInv'
<1>0. TypeInv /\ TypeOK /\ ExclusiveInv'
  BY ExclusiveStep DEF OwnerInv, TypeInv, ExclusiveInv
<1>1. CASE FindBlockForRead
  <2>1. HoldersKept
    BY <1>0, <1>1, HoldersStay DEF ReaderStep
  <2>2. RunSound'
    BY <1>1 DEF FindBlockForRead, OwnerInv, RunSound, runVars
  <2>. QED
    BY <1>0, <1>1, <2>1, <2>2, QuietOwner DEF FindBlockForRead, decompressVars, runVars
<1>2. CASE ReadBlock
  BY <1>0, <1>2, ReadBlockOwner
<1>3. CASE ReadSize \/ FinishReading \/ WakeSpuriously
  <2>1. HoldersKept
    BY <1>0, <1>3, HoldersStay DEF ReaderStep
  <2>2. UNCHANGED <<uncompressed, waitsForRunDone, runFinished, runId, runBlock>>
    BY <1>3 DEF ReadSize, FinishReading, WakeSpuriously, decompressVars, DecompressVars, runVars
  <2>3. runner' = runner \/ (runner = "wait" /\ runner' = "search")
    BY <1>3 DEF ReadSize, FinishReading, WakeSpuriously, runVars
  <2>4. RunSound'
    BY <2>2, <2>3 DEF OwnerInv, RunSound
  <2>. QED
    BY <1>0, <2>1, <2>2, <2>4, QuietOwner
<1>4. ASSUME NEW t \in Threads, FetchNothing(t)
      PROVE  OwnerInv'
  <2>1. HoldersKept
    BY <1>0, <1>4, HoldersStay
  <2>2. RunSound'
    BY <1>4 DEF FetchNothing, runVars, OwnerInv, RunSound
  <2>. QED
    BY <1>0, <1>4, <2>1, <2>2, QuietOwner DEF FetchNothing, runVars
<1>5. ASSUME NEW t \in Threads, FetchBlock(t) \/ ResumeDecompression(t) \/ DecompressBlock(t)
      PROVE  OwnerInv'
  BY <1>0, <1>5, FetchBlockOwner, ResumeDecompressionOwner, DecompressBlockOwner
<1>6. ASSUME RunnerStep
      PROVE  OwnerInv'
  <2>0. HoldersKept
    BY <1>0, <1>6, HoldersStay
  <2>1. CASE (StartBlock \/ ResumeSearch) /\ FindBlockForRun(runId')
    BY <1>0, <2>0, <2>1, SearchOwner DEF StartBlock, ResumeSearch
  <2>2. CASE \/ StartBlock /\ runner' = "finish"
             \/ RunCommand \/ LeaveLoop \/ JoinThreads
    <3>1. UNCHANGED <<uncompressed, waitsForRunDone, runFinished>>
      BY <2>2 DEF StartBlock, RunCommand, LeaveLoop, JoinThreads
    <3>2. RunSound'
      <4>1. CASE RunCommand
        BY <4>1, <3>1 DEF OwnerInv, RunSound, RunCommand
      <4>2. CASE (StartBlock /\ runner' = "finish") \/ LeaveLoop
        <5>1. runner = "loop" /\ runner' = "finish"
          BY <4>2 DEF StartBlock, LeaveLoop
        <5>. QED
          BY <5>1, <3>1 DEF OwnerInv, RunSound
      <4>3. CASE JoinThreads
        BY <4>3, <3>1 DEF OwnerInv, RunSound, JoinThreads
      <4>. QED
        BY <2>2, <4>1, <4>2, <4>3
    <3>. QED
      BY <1>0, <2>0, <3>1, <3>2, QuietOwner
  <2>3. CASE ReleaseBlock
    BY <1>0, <2>3, ReleaseBlockOwner
  <2>4. CASE FinishRunning
    BY <1>0, <2>4, FinishRunningOwner
  <2>. QED
    BY <1>6, <2>1, <2>2, <2>3, <2>4 DEF RunnerStep, StartBlock, ResumeSearch
<1>7. CASE UNCHANGED vars
  <2>1. HoldersKept
    BY <1>0, <1>7, HoldersStay
  <2>2. RunSound'
    BY <1>7 DEF vars, runVars, OwnerInv, RunSound
  <2>. QED
    BY <1>0, <1>7, <2>1, <2>2, QuietOwner DEF vars, decompressVars, runVars
<1>8. ~ \E t \in Threads : ReturnEarly(t)
  BY DEF ReturnEarly
<1>. QED
  BY <1>1, <1>2, <1>3, <1>4, <1>5, <1>6, <1>7, <1>8 DEF Next, ReaderStep, DecompressorStep

\* An early return of WaitForRunDone is not forgotten.
LEMMA EarlyStays == ASSUME TypeOK, [Next]_vars, early PROVE early'
<1>1. CASE ReaderStep \/ WakeSpuriously \/ UNCHANGED vars
  BY <1>1 DEF ReaderStep, ReadSize, FindBlockForRead, ReadBlock, FinishReading, WakeSpuriously,
              DecompressVars, decompressVars, vars
<1>2. ASSUME NEW t \in Threads, DecompressorStep(t) \/ ReturnEarly(t)
      PROVE  early'
  BY <1>2 DEF DecompressorStep, FetchBlock, FetchNothing, ResumeDecompression, ReturnEarly,
              DecompressBlock, DecompressVars
<1>3. CASE RunnerStep
  BY <1>3 DEF RunnerStep, StartBlock, ResumeSearch, RunCommand, ReleaseBlock, LeaveLoop,
              FinishRunning, JoinThreads, RunVars
<1>. QED
  BY <1>1, <1>2, <1>3 DEF Next

LEMMA OwnerAlways == Spec => [](early \/ OwnerInv)
<1>1. TypeInv /\ (early \/ OwnerInv) /\ [Next]_vars => TypeInv' /\ (early \/ OwnerInv)'
  BY TypeStep, OwnerStep, EarlyStays DEF TypeInv
<1>2. Init => TypeInv /\ (early \/ OwnerInv)
  BY TypeInit, OwnerInit
<1>. QED
  BY <1>1, <1>2, PTL DEF Spec

(***************************************************************************)
(* As long as every return of WaitForRunDone was notified, no thread       *)
(* decodes into a block whose commands Run has not run yet, although it    *)
(* does not look at the block again, for any threads, any stream and any   *)
(* commands that close the reader.                                         *)
(***************************************************************************)
THEOREM TargetAlwaysFree == Spec => []TargetIsFreeIfNotified
<1>1. early \/ OwnerInv => TargetIsFreeIfNotified
  BY DEF OwnerInv, TargetIsFreeIfNotified
<1>. QED
  BY <1>1, OwnerAlways, PTL
-----------------------------------------------------------------------------
(***************************************************************************)
(* How many commands have run, by where Run is.                            *)
(***************************************************************************)
EndSound ==
  /\ readFinished => reader = "exited"
  /\ reader \in {"finish", "exited"} => closed \/ lastRead = StreamBlocks

InOrder == \A i \in DOMAIN executed : executed[i] = i

Progress ==
  /\ runner \in {"wait", "search", "run"} => ~closed
  /\ runner \in {"loop", "done"} /\ ~closed => Len(executed) = runId * BlockCommands
  /\ runner \in {"wait", "search"} => Len(executed) = (runId - 1) * BlockCommands
  /\ runner = "run" => Len(executed) = (runId - 1) * BlockCommands + (runNext - 1)
  /\ runner \in {"finish", "join", "returned"}
       => closed \/ Len(executed) = StreamBlocks * BlockCommands

PlayInv == OwnerInv /\ EndSound /\ InOrder /\ Progress
-----------------------------------------------------------------------------
LEMMA PlayInit == Init => PlayInv
<1>. SUFFICES ASSUME Init PROVE PlayInv
  OBVIOUS
<1>1. OwnerInv
  BY OwnerInit
<1>2. EndSound /\ InOrder
  BY DEF Init, EndSound, InOrder
<1>3. Progress
  <2>1. 0 = 0 * BlockCommands
    BY StreamAssumption
  <2>. QED
    BY <2>1 DEF Init, Progress
<1>. QED
  BY <1>1, <1>2, <1>3 DEF PlayInv

\* Only the run of a command changes what has run, or closes.
LEMMA OnlyRunRuns ==
  ASSUME [Next]_vars, ~RunCommand
  PROVE  UNCHANGED <<executed, closed>>
<1>1. CASE ReaderStep
  BY <1>1 DEF ReaderStep, ReadSize, FindBlockForRead, ReadBlock, FinishReading, runVars
<1>2. ASSUME NEW t \in Threads, DecompressorStep(t) \/ ReturnEarly(t)
      PROVE  UNCHANGED <<executed, closed>>
  BY <1>2 DEF DecompressorStep, FetchBlock, FetchNothing, ResumeDecompression, ReturnEarly,
              LeaveWait, DecompressBlock, DecompressVars, runVars
<1>3. CASE RunnerStep
  BY <1>3 DEF RunnerStep, StartBlock, ResumeSearch, ReleaseBlock, LeaveLoop, FinishRunning,
              JoinThreads
<1>4. CASE WakeSpuriously \/ UNCHANGED vars
  BY <1>4 DEF WakeSpuriously, DecompressVars, vars, runVars
<1>. QED
  BY <1>1, <1>2, <1>3, <1>4 DEF Next

\* The steps of the other threads, as Run sees them.
LEMMA OthersLeaveRun ==
  ASSUME [Next]_vars, ~RunnerStep
  PROVE  /\ UNCHANGED <<runId, runNext, executed, closed>>
         /\ runner' = runner \/ (runner = "wait" /\ runner' = "search")
<1>1. CASE ReaderStep
  BY <1>1 DEF ReaderStep, ReadSize, FindBlockForRead, ReadBlock, FinishReading, runVars
<1>2. ASSUME NEW t \in Threads, DecompressorStep(t) \/ ReturnEarly(t)
      PROVE  /\ UNCHANGED <<runId, runNext, executed, closed>>
             /\ runner' = runner \/ (runner = "wait" /\ runner' = "search")
  BY <1>2 DEF DecompressorStep, FetchBlock, FetchNothing, ResumeDecompression, ReturnEarly,
              LeaveWait, DecompressBlock, DecompressVars, runVars
<1>3. CASE WakeSpuriously \/ UNCHANGED vars
  BY <1>3 DEF WakeSpuriously, DecompressVars, vars, runVars
<1>. QED
  BY <1>1, <1>2, <1>3 DEF Next

\* The end of the stream, as the reading thread tells it, stays the end.
LEMMA EndSoundStep == ASSUME PlayInv, [Next]_vars PROVE EndSound'
<1>1. CASE ReadSize
  BY <1>1, OnlyRunRuns DEF PlayInv, EndSound, ReadSize, EndOfStream, runVars
<1>2. CASE FindBlockForRead \/ ReadBlock \/ FinishReading
  BY <1>2 DEF PlayInv, EndSound, FindBlockForRead, ReadBlock, FinishReading, runVars
<1>3. ASSUME NEW t \in Threads, DecompressorStep(t) \/ ReturnEarly(t)
      PROVE  EndSound'
  <2>1. /\ UNCHANGED <<lastRead, readFinished, closed>>
        /\ reader' = reader \/ (reader = "wait" /\ reader' = "find")
    BY <1>3 DEF DecompressorStep, FetchBlock, FetchNothing, ResumeDecompression, ReturnEarly,
                LeaveWait, DecompressBlock, DecompressVars, ReaderWoken, readVars, runVars
  <2>. QED
    BY <2>1 DEF PlayInv, EndSound
<1>4. CASE RunnerStep
  <2>1. UNCHANGED readVars
    BY <1>4 DEF RunnerStep, StartBlock, ResumeSearch, RunCommand, ReleaseBlock, LeaveLoop,
                FinishRunning, JoinThreads, RunVars
  <2>2. closed => closed'
    <3>1. CASE RunCommand
      BY <3>1 DEF RunCommand, PlayInv, Progress
    <3>2. CASE ~RunCommand
      BY <3>2, OnlyRunRuns
    <3>. QED
      BY <3>1, <3>2
  <2>. QED
    BY <2>1, <2>2 DEF PlayInv, EndSound, readVars
<1>5. CASE WakeSpuriously \/ UNCHANGED vars
  BY <1>5 DEF PlayInv, EndSound, WakeSpuriously, DecompressVars, vars, readVars, runVars
<1>. QED
  BY <1>1, <1>2, <1>3, <1>4, <1>5 DEF Next, ReaderStep

(***************************************************************************)
(* The command that Run runs is the next of the stream.                    *)
(***************************************************************************)
LEMMA NextCommand ==
  ASSUME PlayInv, RunCommand
  PROVE  LET runners == uncompressed[runBlock].runners
         IN  /\ Len(runners) = BlockCommands /\ runNext \in 1..BlockCommands
             /\ runId \in 1..StreamBlocks
             /\ runners[runNext] = (runId - 1) * BlockCommands + runNext
             /\ runners[runNext] = Len(executed) + 1
             /\ Len(executed) < StreamBlocks * BlockCommands
             /\ executed' = Append(executed, Len(executed) + 1)
             /\ closed' \in IF Len(executed) + 1 \in Closing THEN BOOLEAN ELSE {FALSE}
             /\ ~closed
<1>. DEFINE runners == uncompressed[runBlock].runners
<1>0. OwnerInv /\ TypeInv /\ TypeOK /\ Progress
  BY DEF PlayInv, OwnerInv, ExclusiveInv, TypeInv
<1>1. /\ runBlock \in Blocks /\ runNext \in 1..Len(runners) /\ ~runFinished
      /\ uncompressed[runBlock].full /\ uncompressed[runBlock].id = runId
  BY <1>0 DEF OwnerInv, TypeInv, RunnerLocated, RunSound, RunCommand
<1>2. runId \in 1..StreamBlocks
  BY <1>0, <1>1, StreamAssumption DEF TypeInv, TypeOK, FullLocated
<1>3. runners = CommandsOf(runId)
  BY <1>0, <1>1 DEF OwnerInv, BlockSound
<1>4. /\ Len(runners) = BlockCommands
      /\ \A i \in 1..BlockCommands : runners[i] = (runId - 1) * BlockCommands + i
  BY <1>2, <1>3, CommandsType
<1>5. runners[runNext] = (runId - 1) * BlockCommands + runNext
  BY <1>1, <1>4
<1>6. Len(executed) = (runId - 1) * BlockCommands + (runNext - 1) /\ ~closed
  BY <1>0 DEF Progress, RunCommand
<1>7. PICK before \in Nat : before = (runId - 1) * BlockCommands
  BY <1>2, StreamAssumption
<1>8. PICK after \in Nat : after = (StreamBlocks - runId) * BlockCommands
  BY <1>2, StreamAssumption
<1>9. StreamBlocks * BlockCommands = before + BlockCommands + after
  BY <1>2, <1>7, <1>8, StreamAssumption
<1>10. runNext \in 1..BlockCommands /\ BlockCommands \in Nat
  BY <1>1, <1>4, StreamAssumption
<1>11. Len(executed) + 1 = before + runNext /\ Len(executed) < StreamBlocks * BlockCommands
  BY <1>6, <1>7, <1>9, <1>10
<1>12. runners[runNext] = Len(executed) + 1
  BY <1>5, <1>7, <1>11
<1>13. /\ executed' = Append(executed, runners[runNext])
       /\ closed' \in IF runners[runNext] \in Closing THEN BOOLEAN ELSE {FALSE}
  BY DEF RunCommand
<1>. HIDE DEF runners
<1>14. /\ executed' = Append(executed, Len(executed) + 1)
       /\ closed' \in IF Len(executed) + 1 \in Closing THEN BOOLEAN ELSE {FALSE}
  BY <1>12, <1>13
<1>. QED
  BY <1>2, <1>4, <1>5, <1>6, <1>10, <1>11, <1>12, <1>14 DEF runners

LEMMA InOrderStep == ASSUME PlayInv, [Next]_vars PROVE InOrder'
<1>0. executed \in Seq(Commands) /\ InOrder
  BY DEF PlayInv, OwnerInv, ExclusiveInv, TypeInv, TypeOK
<1>1. CASE RunCommand
  <2>1. executed' = Append(executed, Len(executed) + 1)
    BY <1>1, NextCommand
  <2>. QED
    BY <1>0, <2>1 DEF InOrder
<1>2. CASE ~RunCommand
  BY <1>0, <1>2, OnlyRunRuns DEF InOrder
<1>. QED
  BY <1>1, <1>2

LEMMA ProgressStep == ASSUME PlayInv, [Next]_vars PROVE Progress'
<1>0. TypeInv /\ TypeOK /\ Progress /\ EndSound
  BY DEF PlayInv, OwnerInv, ExclusiveInv, TypeInv
<1>1. CASE ~RunnerStep
  BY <1>0, <1>1, OthersLeaveRun DEF Progress
<1>2. CASE StartBlock
  <2>1. /\ runner = "loop" /\ ~closed /\ closed' = closed /\ executed' = executed
        /\ runId' = runId + 1 /\ runNext' = runNext
    BY <1>2 DEF StartBlock
  <2>2. runNext = 1 /\ runId \in Nat /\ runId <= lastRead
    BY <1>0, <2>1, StreamAssumption DEF TypeInv, TypeOK, RunnerLocated
  <2>3. Len(executed) = runId * BlockCommands
    BY <1>0, <2>1 DEF Progress
  <2>4. runId' - 1 = runId
    BY <2>1, <2>2
  <2>5. CASE FindBlockForRun(runId')
    <3>1. runner' \in {"run", "wait"}
      BY <2>5 DEF FindBlockForRun
    <3>2. Len(executed') = (runId' - 1) * BlockCommands
      BY <2>1, <2>3, <2>4
    <3>3. Len(executed) \in Nat /\ runNext' - 1 = 0
      BY <1>0, <2>1, <2>2 DEF TypeOK
    <3>4. Len(executed') = (runId' - 1) * BlockCommands + (runNext' - 1)
      BY <2>1, <3>2, <3>3
    <3>. QED
      BY <2>1, <3>1, <3>2, <3>4 DEF Progress
  <2>6. CASE readFinished /\ runId' > lastRead /\ runner' = "finish"
    <3>1. lastRead = StreamBlocks
      BY <1>0, <2>1, <2>6 DEF EndSound
    <3>2. runId = StreamBlocks
      BY <2>1, <2>2, <2>6, <3>1, StreamAssumption
    <3>. QED
      BY <2>1, <2>3, <2>6, <3>2 DEF Progress
  <2>. QED
    BY <1>2, <2>5, <2>6 DEF StartBlock
<1>3. CASE ResumeSearch
  <2>1. /\ runner = "search" /\ ~closed /\ runner' \in {"run", "wait"}
        /\ UNCHANGED <<closed, executed, runId, runNext>>
    BY <1>0, <1>3 DEF ResumeSearch, FindBlockForRun, Progress
  <2>2. runNext = 1 /\ Len(executed) \in Nat /\ Len(executed) = (runId - 1) * BlockCommands
    BY <1>0, <2>1 DEF TypeInv, TypeOK, RunnerLocated, Progress
  <2>3. Len(executed) = (runId - 1) * BlockCommands + (runNext - 1)
    BY <2>2
  <2>. QED
    BY <2>1, <2>2, <2>3 DEF Progress
<1>4. CASE RunCommand
  <2>. DEFINE runners == uncompressed[runBlock].runners
  <2>1. /\ Len(runners) = BlockCommands /\ runNext \in 1..BlockCommands /\ runId \in 1..StreamBlocks
        /\ executed' = Append(executed, Len(executed) + 1)
    BY <1>4, NextCommand
  <2>2. /\ runNext' = runNext + 1 /\ runId' = runId /\ runner = "run"
        /\ \/ runner' = "done" /\ (closed' \/ runNext = Len(runners))
           \/ runner' = "run" /\ ~closed'
    BY <1>4 DEF RunCommand
  <2>3. Len(executed) = (runId - 1) * BlockCommands + (runNext - 1)
    BY <1>0, <2>2 DEF Progress
  <2>4. PICK before \in Nat : before = (runId - 1) * BlockCommands
    BY <2>1, StreamAssumption
  <2>5. runId * BlockCommands = before + BlockCommands /\ BlockCommands \in Nat
    BY <2>1, <2>4, StreamAssumption
  <2>6. Len(executed') = before + runNext
    <3>1. Len(executed') = Len(executed) + 1
      BY <1>0, <2>1 DEF TypeOK
    <3>. QED
      BY <2>1, <2>3, <2>4, <3>1
  <2>7. CASE runner' = "done"
    <3>1. ~closed' => Len(executed') = runId' * BlockCommands
      BY <2>1, <2>2, <2>5, <2>6, <2>7
    <3>. QED
      BY <2>7, <3>1 DEF Progress
  <2>8. CASE runner' = "run" /\ ~closed'
    <3>1. runNext' - 1 = runNext
      BY <2>1, <2>2
    <3>2. Len(executed') = (runId' - 1) * BlockCommands + (runNext' - 1)
      BY <2>2, <2>4, <2>6, <3>1
    <3>. QED
      BY <2>8, <3>2 DEF Progress
  <2>. QED
    BY <2>2, <2>7, <2>8
<1>5. CASE ReleaseBlock
  <2>1. runner = "done" /\ runner' = "loop" /\ UNCHANGED <<closed, executed, runId>>
    BY <1>5 DEF ReleaseBlock
  <2>. QED
    BY <1>0, <2>1 DEF Progress
<1>6. CASE LeaveLoop \/ FinishRunning \/ JoinThreads
  <2>1. /\ UNCHANGED <<closed, executed>> /\ runner' \in {"finish", "join", "returned"}
        /\ (runner = "loop" /\ closed) \/ runner \in {"finish", "join"}
    BY <1>6 DEF LeaveLoop, FinishRunning, JoinThreads
  <2>. QED
    BY <1>0, <2>1 DEF Progress
<1>. QED
  BY <1>1, <1>2, <1>3, <1>4, <1>5, <1>6 DEF RunnerStep

LEMMA PlayAlways == Spec => [](TypeInv /\ (early \/ PlayInv))
<1>1. TypeInv /\ (early \/ PlayInv) /\ [Next]_vars => TypeInv' /\ (early \/ PlayInv)'
  <2>1. ASSUME PlayInv, [Next]_vars, ~early'
        PROVE  PlayInv'
    BY <2>1, OwnerStep, EndSoundStep, InOrderStep, ProgressStep DEF PlayInv
  <2>. QED
    BY <2>1, TypeStep, EarlyStays DEF TypeInv
<1>2. Init => TypeInv /\ (early \/ PlayInv)
  BY TypeInit, PlayInit
<1>. QED
  BY <1>1, <1>2, PTL DEF Spec

\* Every step of the reader is a step of the playback, or none.
LEMMA PlaybackStep ==
  ASSUME PlayInv, [Next]_vars
  PROVE  [Player!RunNext \/ Player!Return]_<<executed, closed, runner = "returned">>
<1>1. CASE RunCommand
  <2>1. runner = "run" /\ runner' # "returned"
    BY <1>1 DEF RunCommand
  <2>2. Player!RunNext
    BY <1>1, <2>1, NextCommand DEF Player!RunNext
  <2>. QED
    BY <2>2
<1>2. CASE JoinThreads
  <2>1. Player!Return
    BY <1>2 DEF JoinThreads, Player!Return, PlayInv, Progress
  <2>. QED
    BY <2>1
<1>3. CASE ~RunCommand /\ ~JoinThreads
  <2>1. UNCHANGED <<executed, closed>>
    BY <1>3, OnlyRunRuns
  <2>2. runner' = "returned" <=> runner = "returned"
    <3>1. CASE ~RunnerStep
      BY <3>1, OthersLeaveRun
    <3>2. CASE RunnerStep
      BY <1>3, <3>2 DEF RunnerStep, StartBlock, FindBlockForRun, ResumeSearch, ReleaseBlock,
                        LeaveLoop, FinishRunning
    <3>. QED
      BY <3>1, <3>2
  <2>. QED
    BY <2>1, <2>2
<1>. QED
  BY <1>1, <1>2, <1>3

(***************************************************************************)
(* The reader implements Playback until WaitForRunDone returns without a   *)
(* notification, if it ever does: for any number of threads, blocks and    *)
(* commands, Run runs the commands of the stream one by one in their       *)
(* order, each once, and returns only at the end of the stream or after a  *)
(* command closed the reader.                                              *)
(***************************************************************************)
THEOREM ReaderPlaysUntilEarly == Spec => PlaysUntilEarly
<1>1. Init => Player!PlaybackInit
  BY DEF Init, Player!PlaybackInit
<1>2. TypeInv /\ (early \/ PlayInv) /\ [Next]_vars
        => [early' \/ Player!RunNext \/ Player!Return]_<<executed, closed, runner = "returned">>
  BY PlaybackStep, EarlyStays DEF TypeInv
<1>. QED
  BY <1>1, <1>2, PlayAlways, PTL DEF Spec, PlaysUntilEarly
-----------------------------------------------------------------------------
(***************************************************************************)
(* The blocks between the reading thread and Run.                          *)
(***************************************************************************)
Running == runner \in {"loop", "wait", "search", "run", "done"}
First == IF runner = "loop" THEN runId + 1 ELSE runId

CompressedOnce ==
  \A b \in Blocks : compressed[b].full =>
    /\ compressed[b].id \in First..lastRead
    /\ \A c \in Blocks : compressed[c].full /\ compressed[c].id = compressed[b].id => c = b
    /\ \A c \in Blocks : uncompressed[c].full => uncompressed[c].id # compressed[b].id

UncompressedOnce ==
  \A b \in Blocks : uncompressed[b].full =>
    /\ uncompressed[b].id \in First..lastRead
    /\ \A c \in Blocks : uncompressed[c].full /\ uncompressed[c].id = uncompressed[b].id => c = b

NoneLost ==
  \A k \in First..lastRead : \E b \in Blocks : \/ compressed[b].full /\ compressed[b].id = k
                                               \/ uncompressed[b].full /\ uncompressed[b].id = k

OnceInv == OwnerInv /\ (Running => CompressedOnce /\ UncompressedOnce /\ NoneLost)

LEMMA OnceInit == Init => OnceInv
<1>. SUFFICES ASSUME Init PROVE OnceInv
  OBVIOUS
<1>1. OwnerInv
  BY OwnerInit
<1>2. CompressedOnce /\ UncompressedOnce
  BY DEF Init, CompressedOnce, UncompressedOnce
<1>3. NoneLost
  BY DEF Init, NoneLost, First
<1>. QED
  BY <1>1, <1>2, <1>3 DEF OnceInv

\* A step that changes neither what is full, nor which blocks are due.
SameBlocks ==
  /\ Running' => Running /\ First' = First
  /\ lastRead' = lastRead
  /\ \A b \in Blocks : /\ compressed'[b].id = compressed[b].id
                       /\ compressed'[b].full = compressed[b].full
                       /\ uncompressed'[b].id = uncompressed[b].id
                       /\ uncompressed'[b].full = uncompressed[b].full

LEMMA SameBlocksOnce ==
  ASSUME OnceInv, SameBlocks, Running'
  PROVE  CompressedOnce' /\ UncompressedOnce' /\ NoneLost'
<1>0. CompressedOnce /\ UncompressedOnce /\ NoneLost /\ First' = First /\ lastRead' = lastRead
  BY DEF OnceInv, SameBlocks
<1>1. CompressedOnce'
  BY <1>0 DEF SameBlocks, CompressedOnce
<1>2. UncompressedOnce'
  BY <1>0 DEF SameBlocks, UncompressedOnce
<1>3. NoneLost'
  BY <1>0 DEF SameBlocks, NoneLost
<1>. QED
  BY <1>1, <1>2, <1>3

LEMMA BlocksStay ==
  ASSUME OwnerInv, [Next]_vars, ~ReadBlock, ~ReleaseBlock,
         \A t \in Threads : ~DecompressBlock(t)
  PROVE  SameBlocks
<1>0. TypeInv /\ TypeOK
  BY DEF OwnerInv, ExclusiveInv, TypeInv
<1>1. CASE ReadSize \/ FindBlockForRead \/ FinishReading
  BY <1>1 DEF ReadSize, FindBlockForRead, FinishReading, runVars, SameBlocks, Running, First
<1>2. ASSUME NEW t \in Threads, FetchBlock(t)
      PROVE  SameBlocks
  <2>1. UNCHANGED <<runner, runId, lastRead>>
    BY <1>2 DEF FetchBlock, DecompressVars
  <2>2. \A b \in Blocks : /\ compressed'[b].id = compressed[b].id
                          /\ compressed'[b].full = compressed[b].full
                          /\ uncompressed'[b].id = uncompressed[b].id
                          /\ uncompressed'[b].full = uncompressed[b].full
    BY <1>0, <1>2, FetchBlockEffect
  <2>. QED
    BY <2>1, <2>2 DEF SameBlocks, Running, First
<1>3. ASSUME NEW t \in Threads, LeaveWait(t)
      PROVE  SameBlocks
  <2>1. UNCHANGED <<runner, runId, lastRead, compressed>>
    BY <1>3 DEF LeaveWait, readVars, runVars
  <2>2. \A b \in Blocks : /\ uncompressed'[b].id = uncompressed[b].id
                          /\ uncompressed'[b].full = uncompressed[b].full
    BY <1>0, <1>3, LeaveWaitEffect
  <2>. QED
    BY <2>1, <2>2 DEF SameBlocks, Running, First
<1>4. ASSUME NEW t \in Threads, FetchNothing(t)
      PROVE  SameBlocks
  BY <1>4 DEF FetchNothing, readVars, runVars, SameBlocks, Running, First
<1>5. CASE StartBlock \/ ResumeSearch
  <2>1. UNCHANGED <<compressed, uncompressed, lastRead>>
    BY <1>5 DEF StartBlock, ResumeSearch, RunVars, readVars
  <2>2. Running' => Running /\ First' = First
    BY <1>5 DEF StartBlock, ResumeSearch, FindBlockForRun, Running, First
  <2>. QED
    BY <2>1, <2>2 DEF SameBlocks
<1>6. CASE RunCommand \/ LeaveLoop \/ FinishRunning \/ JoinThreads
  <2>1. UNCHANGED <<compressed, uncompressed, lastRead, runId>>
    BY <1>6 DEF RunCommand, LeaveLoop, FinishRunning, JoinThreads, RunVars, readVars
  <2>2. Running' => Running /\ First' = First
    BY <1>6 DEF RunCommand, LeaveLoop, FinishRunning, JoinThreads, Running, First
  <2>. QED
    BY <2>1, <2>2 DEF SameBlocks
<1>7. CASE WakeSpuriously \/ UNCHANGED vars
  BY <1>7 DEF WakeSpuriously, DecompressVars, vars, readVars, runVars, SameBlocks, Running, First
<1>. QED
  BY <1>1, <1>2, <1>3, <1>4, <1>5, <1>6, <1>7
     DEF Next, ReaderStep, DecompressorStep, ResumeDecompression, ReturnEarly, RunnerStep

LEMMA ReadBlockOnce ==
  ASSUME OnceInv, ReadBlock, Running'
  PROVE  CompressedOnce' /\ UncompressedOnce' /\ NoneLost'
<1>0. TypeInv /\ TypeOK
  BY DEF OnceInv, OwnerInv, ExclusiveInv, TypeInv
<1>1. UNCHANGED <<runner, runId, uncompressed>>
  BY DEF ReadBlock, runVars
<1>2. CompressedOnce /\ UncompressedOnce /\ NoneLost /\ First' = First /\ First \in Nat
  BY <1>0, <1>1 DEF OnceInv, Running, First, TypeOK
<1>3. First <= lastRead + 1
  BY <1>0, <1>1, StreamAssumption DEF First, Running, TypeInv, TypeOK, RunnerLocated
<1>4. PICK n \in Nat : n = lastRead + 1
  BY <1>0, StreamAssumption DEF TypeOK
<1>5. /\ readBlock \in Blocks /\ lastRead \in Nat /\ lastRead' = n
      /\ compressed'[readBlock].id = n /\ compressed'[readBlock].full = TRUE
      /\ \A c \in Blocks \ {readBlock} : compressed'[c] = compressed[c]
  BY <1>0, <1>4, ReadBlockEffect
<1>6. ~compressed[readBlock].full
  BY DEF OnceInv, OwnerInv, ExclusiveInv, FillExclusive, ReadBlock
<1>7. \A b \in Blocks : /\ compressed[b].full => compressed[b].id \in First..lastRead
                        /\ uncompressed[b].full => uncompressed[b].id \in First..lastRead
  BY <1>2 DEF CompressedOnce, UncompressedOnce
<1>8. ASSUME NEW k \in First..lastRead
      PROVE  k \in First..n /\ k # n
  BY <1>2, <1>4, <1>5
<1>9. n \in First..n
  BY <1>2, <1>3, <1>4
<1>10. CompressedOnce'
  <2>. SUFFICES ASSUME NEW b \in Blocks, compressed'[b].full
                PROVE  /\ compressed'[b].id \in First..n
                       /\ \A c \in Blocks : compressed'[c].full /\ compressed'[c].id = compressed'[b].id
                                              => c = b
                       /\ \A c \in Blocks : uncompressed[c].full
                                              => uncompressed[c].id # compressed'[b].id
    BY <1>1, <1>2, <1>5 DEF CompressedOnce
  <2>1. CASE b = readBlock
    BY <2>1, <1>5, <1>7, <1>8, <1>9
  <2>2. CASE b # readBlock
    <3>1. compressed'[b] = compressed[b] /\ compressed[b].full
      BY <2>2, <1>5
    <3>2. compressed[b].id \in First..n /\ compressed[b].id # n
      BY <3>1, <1>7, <1>8
    <3>3. ASSUME NEW c \in Blocks, compressed'[c].full, compressed'[c].id = compressed[b].id
          PROVE  c = b
      <4>1. c # readBlock
        BY <3>2, <3>3, <1>5
      <4>. QED
        BY <4>1, <3>1, <3>3, <1>2, <1>5 DEF CompressedOnce
    <3>. QED
      BY <3>1, <3>2, <3>3, <1>2 DEF CompressedOnce
  <2>. QED
    BY <2>1, <2>2
<1>11. UncompressedOnce'
  BY <1>1, <1>2, <1>5, <1>7, <1>8 DEF UncompressedOnce
<1>12. NoneLost'
  <2>. SUFFICES ASSUME NEW k \in First..n
                PROVE  \E b \in Blocks : \/ compressed'[b].full /\ compressed'[b].id = k
                                         \/ uncompressed[b].full /\ uncompressed[b].id = k
    BY <1>1, <1>2, <1>5 DEF NoneLost
  <2>1. CASE k = n
    BY <2>1, <1>5
  <2>2. CASE k # n
    <3>1. k \in First..lastRead
      BY <2>2, <1>2, <1>4, <1>5
    <3>2. PICK b \in Blocks : \/ compressed[b].full /\ compressed[b].id = k
                              \/ uncompressed[b].full /\ uncompressed[b].id = k
      BY <3>1, <1>2 DEF NoneLost
    <3>3. CASE compressed[b].full /\ compressed[b].id = k
      BY <3>3, <1>5, <1>6
    <3>4. CASE uncompressed[b].full /\ uncompressed[b].id = k
      BY <3>4
    <3>. QED
      BY <3>2, <3>3, <3>4
  <2>. QED
    BY <2>1, <2>2
<1>. QED
  BY <1>10, <1>11, <1>12

LEMMA DecompressBlockOnce ==
  ASSUME OnceInv, NEW t \in Threads, DecompressBlock(t), Running'
  PROVE  CompressedOnce' /\ UncompressedOnce' /\ NoneLost'
<1>. DEFINE b == held[t]
<1>0. OwnerInv /\ TypeInv /\ TypeOK
  BY DEF OnceInv, OwnerInv, ExclusiveInv, TypeInv
<1>1. /\ UNCHANGED <<runId, lastRead, runFinished>>
      /\ runner' = IF runner = "wait" THEN "search" ELSE runner
  BY DEF DecompressBlock, DecompressVars
<1>2. /\ CompressedOnce /\ UncompressedOnce /\ NoneLost
      /\ First' = First /\ lastRead' = lastRead /\ ~runFinished
  BY <1>0, <1>1 DEF OnceInv, Running, First, OwnerInv, RunSound
<1>3. /\ b \in Blocks /\ compressed'[b].full = FALSE
      /\ \A c \in Blocks \ {b} : compressed'[c] = compressed[c]
      /\ uncompressed'[b].id = compressed[b].id /\ uncompressed'[b].full = TRUE
      /\ \A c \in Blocks \ {b} : uncompressed'[c] = uncompressed[c]
  BY <1>0, DecompressEffect
<1>4. compressed[b].full /\ ~uncompressed[b].full
  BY <1>0, <1>2, DecompressFills DEF OwnerInv, ExclusiveInv, HeldExclusive, Working,
                                            DecompressBlock
<1>. HIDE DEF b
<1>5. CompressedOnce'
  <2>. SUFFICES ASSUME NEW c \in Blocks, compressed'[c].full
                PROVE  /\ compressed'[c].id \in First..lastRead
                       /\ \A d \in Blocks : compressed'[d].full /\ compressed'[d].id = compressed'[c].id
                                              => d = c
                       /\ \A d \in Blocks : uncompressed'[d].full
                                              => uncompressed'[d].id # compressed'[c].id
    BY <1>2 DEF CompressedOnce
  <2>1. c # b /\ compressed'[c] = compressed[c]
    BY <1>3
  <2>2. \A d \in Blocks : compressed'[d].full => d # b /\ compressed'[d] = compressed[d]
    BY <1>3
  <2>3. ASSUME NEW d \in Blocks, uncompressed'[d].full
        PROVE  uncompressed'[d].id # compressed[c].id
    <3>1. CASE d = b
      BY <3>1, <2>1, <1>2, <1>3, <1>4 DEF CompressedOnce
    <3>2. CASE d # b
      BY <3>2, <2>1, <2>3, <1>2, <1>3 DEF CompressedOnce
    <3>. QED
      BY <3>1, <3>2
  <2>. QED
    BY <2>1, <2>2, <2>3, <1>2 DEF CompressedOnce
<1>6. UncompressedOnce'
  <2>. SUFFICES ASSUME NEW c \in Blocks, uncompressed'[c].full
                PROVE  /\ uncompressed'[c].id \in First..lastRead
                       /\ \A d \in Blocks : uncompressed'[d].full
                                              /\ uncompressed'[d].id = uncompressed'[c].id => d = c
    BY <1>2 DEF UncompressedOnce
  <2>1. \A d \in Blocks : uncompressed[d].full => uncompressed[d].id # compressed[b].id
    BY <1>2, <1>3, <1>4 DEF CompressedOnce
  <2>2. CASE c = b
    BY <2>1, <2>2, <1>2, <1>3, <1>4 DEF CompressedOnce
  <2>3. CASE c # b
    BY <2>1, <2>3, <1>2, <1>3 DEF UncompressedOnce
  <2>. QED
    BY <2>2, <2>3
<1>7. NoneLost'
  <2>. SUFFICES ASSUME NEW k \in First..lastRead
                PROVE  \E c \in Blocks : \/ compressed'[c].full /\ compressed'[c].id = k
                                         \/ uncompressed'[c].full /\ uncompressed'[c].id = k
    BY <1>2 DEF NoneLost
  <2>1. PICK c \in Blocks : \/ compressed[c].full /\ compressed[c].id = k
                            \/ uncompressed[c].full /\ uncompressed[c].id = k
    BY <1>2 DEF NoneLost
  <2>2. CASE c = b
    BY <2>1, <2>2, <1>3, <1>4
  <2>3. CASE c # b
    BY <2>1, <2>3, <1>3
  <2>. QED
    BY <2>2, <2>3
<1>. QED
  BY <1>5, <1>6, <1>7

LEMMA ReleaseBlockOnce ==
  ASSUME OnceInv, ReleaseBlock, Running'
  PROVE  CompressedOnce' /\ UncompressedOnce' /\ NoneLost'
<1>0. OwnerInv /\ TypeInv /\ TypeOK
  BY DEF OnceInv, OwnerInv, ExclusiveInv, TypeInv
<1>1. /\ runner = "done" /\ runner' = "loop"
      /\ UNCHANGED <<compressed, lastRead, runId>>
  BY DEF ReleaseBlock, RunVars, readVars
<1>2. PICK n \in Nat : n = runId
  BY <1>0, StreamAssumption DEF TypeOK
<1>3. /\ CompressedOnce /\ UncompressedOnce /\ NoneLost
      /\ First = n /\ First' = n + 1 /\ lastRead' = lastRead /\ lastRead \in Nat
  BY <1>0, <1>1, <1>2, StreamAssumption DEF OnceInv, Running, First, TypeOK
<1>4. /\ runBlock \in Blocks /\ uncompressed'[runBlock].full = FALSE
      /\ \A c \in Blocks \ {runBlock} : uncompressed'[c] = uncompressed[c]
  BY <1>0, ReleaseEffect
<1>5. uncompressed[runBlock].full /\ uncompressed[runBlock].id = n
  BY <1>0, <1>1, <1>2 DEF OwnerInv, RunSound
<1>6. ASSUME NEW k \in n..lastRead, k # n
      PROVE  k \in n + 1..lastRead
  BY <1>3, <1>6
<1>7. CompressedOnce'
  <2>. SUFFICES ASSUME NEW b \in Blocks, compressed[b].full
                PROVE  /\ compressed[b].id \in n + 1..lastRead
                       /\ \A c \in Blocks : compressed[c].full /\ compressed[c].id = compressed[b].id
                                              => c = b
                       /\ \A c \in Blocks : uncompressed'[c].full
                                              => uncompressed'[c].id # compressed[b].id
    BY <1>1, <1>3 DEF CompressedOnce
  <2>1. compressed[b].id \in n..lastRead /\ compressed[b].id # n
    BY <1>3, <1>4, <1>5 DEF CompressedOnce
  <2>2. ASSUME NEW c \in Blocks, uncompressed'[c].full
        PROVE  uncompressed'[c].id # compressed[b].id
    BY <2>2, <1>3, <1>4 DEF CompressedOnce
  <2>. QED
    BY <2>1, <2>2, <1>3, <1>6 DEF CompressedOnce
<1>8. UncompressedOnce'
  <2>. SUFFICES ASSUME NEW b \in Blocks, uncompressed'[b].full
                PROVE  /\ uncompressed'[b].id \in n + 1..lastRead
                       /\ \A c \in Blocks : uncompressed'[c].full
                                              /\ uncompressed'[c].id = uncompressed'[b].id => c = b
    BY <1>3 DEF UncompressedOnce
  <2>1. b # runBlock /\ uncompressed'[b] = uncompressed[b]
    BY <1>4
  <2>2. uncompressed[b].id \in n..lastRead /\ uncompressed[b].id # n
    BY <2>1, <1>3, <1>4, <1>5 DEF UncompressedOnce
  <2>3. ASSUME NEW c \in Blocks, uncompressed'[c].full, uncompressed'[c].id = uncompressed[b].id
        PROVE  c = b
    BY <2>1, <2>3, <1>3, <1>4 DEF UncompressedOnce
  <2>. QED
    BY <2>1, <2>2, <2>3, <1>6
<1>9. NoneLost'
  <2>. SUFFICES ASSUME NEW k \in n + 1..lastRead
                PROVE  \E c \in Blocks : \/ compressed[c].full /\ compressed[c].id = k
                                         \/ uncompressed'[c].full /\ uncompressed'[c].id = k
    BY <1>1, <1>3 DEF NoneLost
  <2>1. k \in n..lastRead /\ k # n
    BY <1>2, <1>3
  <2>2. PICK c \in Blocks : \/ compressed[c].full /\ compressed[c].id = k
                            \/ uncompressed[c].full /\ uncompressed[c].id = k
    BY <2>1, <1>3 DEF NoneLost
  <2>3. CASE c = runBlock
    BY <2>1, <2>2, <2>3, <1>5
  <2>4. CASE c # runBlock
    BY <2>2, <2>4, <1>4
  <2>. QED
    BY <2>3, <2>4
<1>. QED
  BY <1>7, <1>8, <1>9

LEMMA OnceAlways == Spec => [](TypeInv /\ (early \/ OnceInv))
<1>1. ASSUME OnceInv, [Next]_vars, ~early'
      PROVE  OnceInv'
  <2>1. OwnerInv'
    BY <1>1, OwnerStep DEF OnceInv
  <2>2. ASSUME Running'
        PROVE  CompressedOnce' /\ UncompressedOnce' /\ NoneLost'
    <3>1. CASE ReadBlock
      BY <1>1, <2>2, <3>1, ReadBlockOnce
    <3>2. ASSUME NEW t \in Threads, DecompressBlock(t)
          PROVE  CompressedOnce' /\ UncompressedOnce' /\ NoneLost'
      BY <1>1, <2>2, <3>2, DecompressBlockOnce
    <3>3. CASE ReleaseBlock
      BY <1>1, <2>2, <3>3, ReleaseBlockOnce
    <3>4. CASE ~ReadBlock /\ ~ReleaseBlock /\ \A t \in Threads : ~DecompressBlock(t)
      <4>1. SameBlocks
        BY <1>1, <3>4, BlocksStay DEF OnceInv
      <4>. QED
        BY <1>1, <2>2, <4>1, SameBlocksOnce
    <3>. QED
      BY <3>1, <3>2, <3>3, <3>4
  <2>. QED
    BY <2>1, <2>2 DEF OnceInv
<1>2. TypeInv /\ (early \/ OnceInv) /\ [Next]_vars => TypeInv' /\ (early \/ OnceInv)'
  BY <1>1, TypeStep, EarlyStays DEF TypeInv
<1>3. Init => TypeInv /\ (early \/ OnceInv)
  BY TypeInit, OnceInit
<1>. QED
  BY <1>2, <1>3, PTL DEF Spec

(***************************************************************************)
(* What is waiting is in one-to-one correspondence with what is due.       *)
(***************************************************************************)
LEMMA CountOfBijection ==
  ASSUME NEW S, IsFiniteSet(S), NEW T,
         \A p \in T : p[1] \in S,
         \A p, q \in T : p[1] = q[1] => p = q,
         \A k \in S : \E p \in T : p[1] = k
  PROVE  IsFiniteSet(T) /\ Cardinality(T) = Cardinality(S)
<1>. DEFINE f == [k \in S |-> CHOOSE p \in T : p[1] = k]
<1>1. \A k \in S : f[k] \in T /\ f[k][1] = k
  OBVIOUS
<1>2. f \in [S -> T]
  BY <1>1
<1>. HIDE DEF f
<1>3. \A k, l \in S : f[k] = f[l] => k = l
  BY <1>1
<1>4. \A p \in T : \E k \in S : f[k] = p
  BY <1>1
<1>5. ExistsBijection(S, T)
  BY <1>2, <1>3, <1>4 DEF ExistsBijection, Bijection, Injection, Surjection, IsInjective
<1>. QED
  BY <1>5, FS_Bijection

LEMMA OnceMeans == OnceInv => EveryBlockOnce
<1>. DEFINE waiting == FullIds(compressed)
            done == FullIds(uncompressed)
            due == First..lastRead
<1>. SUFFICES ASSUME OnceInv, Running
              PROVE  /\ {p[1] : p \in waiting \cup done} = due
                     /\ Cardinality(waiting) + Cardinality(done) = lastRead + 1 - First
  BY DEF EveryBlockOnce, Running, First
<1>0. /\ CompressedOnce /\ UncompressedOnce /\ NoneLost
      /\ TypeInv /\ TypeOK
  BY DEF OnceInv, OwnerInv, ExclusiveInv, TypeInv
<1>1. /\ \A p \in waiting : \E b \in Blocks : compressed[b].full /\ p = <<compressed[b].id, b>>
      /\ \A b \in Blocks : compressed[b].full => <<compressed[b].id, b>> \in waiting
  BY DEF FullIds
<1>2. /\ \A p \in done : \E b \in Blocks : uncompressed[b].full /\ p = <<uncompressed[b].id, b>>
      /\ \A b \in Blocks : uncompressed[b].full => <<uncompressed[b].id, b>> \in done
  BY DEF FullIds
<1>3. First \in Nat /\ lastRead \in Nat /\ First <= lastRead + 1
  BY <1>0, StreamAssumption DEF First, Running, TypeInv, TypeOK, RunnerLocated
<1>4. IsFiniteSet(due) /\ Cardinality(due) = lastRead + 1 - First
  <2>1. IsFiniteSet(due) /\ Cardinality(due) = IF First > lastRead THEN 0 ELSE lastRead - First + 1
    BY <1>3, FS_Interval
  <2>. QED
    BY <1>3, <2>1
<1>. HIDE DEF waiting, done
<1>5. \A p \in waiting \cup done : p[1] \in due
  <2>1. \A p \in waiting : p[1] \in due
    BY <1>0, <1>1 DEF CompressedOnce
  <2>2. \A p \in done : p[1] \in due
    BY <1>0, <1>2 DEF UncompressedOnce
  <2>. QED
    BY <2>1, <2>2
<1>6. \A p \in waiting, q \in done : p[1] # q[1]
  BY <1>0, <1>1, <1>2 DEF CompressedOnce
<1>7. \A p, q \in waiting \cup done : p[1] = q[1] => p = q
  <2>1. \A p, q \in waiting : p[1] = q[1] => p = q
    BY <1>0, <1>1 DEF CompressedOnce
  <2>2. \A p, q \in done : p[1] = q[1] => p = q
    BY <1>0, <1>2 DEF UncompressedOnce
  <2>. QED
    BY <2>1, <2>2, <1>6
<1>8. \A k \in due : \E p \in waiting \cup done : p[1] = k
  <2>. SUFFICES ASSUME NEW k \in due PROVE \E p \in waiting \cup done : p[1] = k
    OBVIOUS
  <2>1. PICK b \in Blocks : \/ compressed[b].full /\ compressed[b].id = k
                            \/ uncompressed[b].full /\ uncompressed[b].id = k
    BY <1>0 DEF NoneLost
  <2>2. CASE compressed[b].full /\ compressed[b].id = k
    <3>1. <<k, b>> \in waiting
      BY <2>2, <1>1
    <3>. QED
      BY <3>1
  <2>3. CASE uncompressed[b].full /\ uncompressed[b].id = k
    <3>1. <<k, b>> \in done
      BY <2>3, <1>2
    <3>. QED
      BY <3>1
  <2>. QED
    BY <2>1, <2>2, <2>3
<1>. HIDE DEF due
<1>9. IsFiniteSet(waiting \cup done) /\ Cardinality(waiting \cup done) = Cardinality(due)
  BY <1>4, <1>5, <1>7, <1>8, CountOfBijection
<1>10. IsFiniteSet(waiting) /\ IsFiniteSet(done) /\ waiting \cap done = {}
  <2>1. waiting \in SUBSET (waiting \cup done) /\ done \in SUBSET (waiting \cup done)
    OBVIOUS
  <2>2. IsFiniteSet(waiting) /\ IsFiniteSet(done)
    BY <1>9, <2>1, FS_Subset
  <2>3. waiting \cap done = {}
    BY <1>6
  <2>. QED
    BY <2>2, <2>3
<1>11. Cardinality(waiting) + Cardinality(done) = Cardinality(due)
  <2>1. Cardinality(waiting \cup done)
          = Cardinality(waiting) + Cardinality(done) - Cardinality(waiting \cap done)
    BY <1>10, FS_Union
  <2>2. Cardinality(waiting \cap done) = 0
    BY <1>10, FS_EmptySet
  <2>3. Cardinality(waiting) \in Nat /\ Cardinality(done) \in Nat
    BY <1>10, FS_CardinalityType
  <2>. QED
    BY <1>9, <2>1, <2>2, <2>3
<1>12. {p[1] : p \in waiting \cup done} = due
  BY <1>5, <1>8
<1>. QED
  BY <1>4, <1>11, <1>12

(***************************************************************************)
(* Every block that was read and not yet run is in one place, for any      *)
(* threads and any stream: neither the free choice of a block to read      *)
(* into, nor decompression in any order, nor the release by Run loses a    *)
(* block or leaves it twice, as long as every return of WaitForRunDone was *)
(* notified.                                                               *)
(***************************************************************************)
THEOREM BlocksNeitherLostNorTwice == Spec => []EveryBlockOnce
<1>1. early => EveryBlockOnce
  BY DEF EveryBlockOnce
<1>. QED
  BY <1>1, OnceAlways, OnceMeans, PTL
=============================================================================
