-------------------------- MODULE StreamWriterProofs --------------------------
(***************************************************************************)
(* Theorems about StreamWriter, for any compression threads, any commands  *)
(* of any sizes and any block sizes: types, that a block is used by one    *)
(* thread at a time, and that the file is what CommandFile promises.       *)
(***************************************************************************)
EXTENDS StreamWriter, SequenceTheorems, FiniteSetTheorems, TLAPS

(***************************************************************************)
(* Where the recording thread is says something about what it records.     *)
(***************************************************************************)
RecorderLocated ==
  /\ recorder \in {"idle", "copy", "publish"} => ~stopThreads
  /\ recorder \in {"notify", "joinWriter", "joinThreads", "closed"} => stopThreads
  /\ recorder \in {"wait", "search", "copy"} /\ ~stopThreads
       => size \in Sizes /\ accepted < MaxCommands

TypeInv == TypeOK /\ RecorderLocated

(***************************************************************************)
(* An uncompressed block is free, being filled, in the queue or held by    *)
(* one thread.                                                             *)
(***************************************************************************)
Working(t) == compressor[t] \in {"waitWrite", "compress"}

QueueExclusive ==
  \A i \in DOMAIN compressionQueue :
    /\ uncompressed[compressionQueue[i]].full
    /\ \A j \in DOMAIN compressionQueue : compressionQueue[i] = compressionQueue[j] => i = j
    /\ \A t \in Threads : held[t] # compressionQueue[i]

HeldExclusive ==
  \A t \in Threads :
    /\ (held[t] # NoBlock) <=> Working(t)
    /\ Working(t) => /\ uncompressed[held[t]].full
                     /\ \A u \in Threads : held[u] = held[t] => u = t

FullOwned ==
  \A b \in Blocks : uncompressed[b].full =>
    \/ \E i \in DOMAIN compressionQueue : compressionQueue[i] = b
    \/ \E t \in Threads : held[t] = b

\* The block that Record copies into has no other owner.
CurrentFree == recorder \in {"copy", "publish"} => ~uncompressed[currentRecordBlock].full

\* A thread whose wait is over finds the block free, although it does not look.
WaitSound ==
  \A t \in Threads :
    /\ waitsForWriteDone[t] # NoBlock
         => compressor[t] = "waitWrite" /\ waitsForWriteDone[t] = held[t]
    /\ compressor[t] = "waitWrite" /\ waitsForWriteDone[t] = NoBlock => ~compressed[held[t]].full
    /\ compressor[t] = "compress"
         => ~compressed[held[t]].full /\ compressed[held[t]].compressing

WriterSound == writer = "write" => IsNext(blockIndex)

(***************************************************************************)
(* Every number that was published and not yet written is on one block.    *)
(***************************************************************************)
Pending == writtenBlockId + 1 .. recordedBlockId

IdsPending ==
  /\ writtenBlockId <= recordedBlockId
  /\ \A b \in Blocks : uncompressed[b].full =>
       /\ uncompressed[b].id \in Pending
       /\ \A c \in Blocks : uncompressed[c].full /\ uncompressed[c].id = uncompressed[b].id => c = b
       /\ \A c \in Blocks : compressed[c].full => compressed[c].id # uncompressed[b].id
  /\ \A b \in Blocks : compressed[b].full =>
       /\ compressed[b].id \in Pending
       /\ \A c \in Blocks : compressed[c].full /\ compressed[c].id = compressed[b].id => c = b

OwnerInv ==
  /\ TypeInv
  /\ QueueExclusive /\ HeldExclusive /\ FullOwned /\ CurrentFree
  /\ WaitSound /\ WriterSound /\ IdsPending /\ DataFits
-----------------------------------------------------------------------------
(***************************************************************************)
(* Blocks and sizes.                                                       *)
(***************************************************************************)
LEMMA BlocksType ==
  /\ NUMBER_OF_BLOCKS \in Nat /\ Blocks \subseteq Nat /\ NoBlock \notin Blocks /\ 0 \in Blocks
  /\ NUMBER_OF_BLOCKS > 0
<1>1. Cardinality(Threads) \in Nat /\ Cardinality(Threads) # 0
  BY ThreadsAssumption, FS_CardinalityType, FS_EmptySet
<1>. QED
  BY <1>1 DEF NUMBER_OF_BLOCKS, Blocks, NoBlock

\* Whatever the search finds is a free block.
LEMMA SearchEffect ==
  ASSUME TypeOK, NEW s, SearchBlock(s)
  PROVE  \/ /\ recorder' = "wait"
            /\ UNCHANGED <<currentRecordBlock, recordedBlockId, uncompressed, compressionQueue,
                           compressor>>
         \/ \E b \in Blocks : ~uncompressed[b].full /\ UseBlock(b)
BY DEF SearchBlock, First, Fitting, Largest, FreeBlocks

LEMMA FindEffect ==
  ASSUME TypeOK, NEW s, FindBlockForRecord(s)
  PROVE  \/ /\ recorder' = "wait" /\ uncompressed[currentRecordBlock].full
            /\ UNCHANGED <<currentRecordBlock, recordedBlockId, uncompressed, compressionQueue,
                           compressor>>
         \/ \E b \in Blocks :
              /\ ~uncompressed[b].full /\ UseBlock(b)
              /\ uncompressed[currentRecordBlock].full \/ b = currentRecordBlock
<1>1. CASE uncompressed[currentRecordBlock].full
  BY <1>1, SearchEffect DEF FindBlockForRecord
<1>2. CASE ~uncompressed[currentRecordBlock].full
  BY <1>2 DEF FindBlockForRecord, TypeOK
<1>. QED
  BY <1>1, <1>2
-----------------------------------------------------------------------------
(***************************************************************************)
(* What a step does to the records of the blocks.                          *)
(***************************************************************************)
CompressorPlaces == {"fetch", "waitRecord", "waitWrite", "compress", "notify", "exited"}

\* Who is notified of a full block does not hold one.
LEMMA NotifyOneHolds ==
  ASSUME compressor \in [Threads -> CompressorPlaces], NotifyOneRecordDone
  PROVE  /\ compressor' \in [Threads -> CompressorPlaces]
         /\ \A t \in Threads : /\ (compressor'[t] = "waitWrite") <=> (compressor[t] = "waitWrite")
                               /\ (compressor'[t] = "compress") <=> (compressor[t] = "compress")
BY DEF NotifyOneRecordDone, CompressorPlaces

LEMMA PublishEffect ==
  ASSUME TypeOK, NEW b \in Blocks, PublishBlock(b)
  PROVE  /\ recordedBlockId' = recordedBlockId + 1
         /\ uncompressed' \in [Blocks -> Block]
         /\ uncompressed'[b].id = recordedBlockId + 1 /\ uncompressed'[b].full = TRUE
         /\ uncompressed'[b].data = uncompressed[b].data
         /\ uncompressed'[b].dataSize = uncompressed[b].dataSize
         /\ uncompressed'[b].dataAlloc = uncompressed[b].dataAlloc
         /\ \A c \in Blocks \ {b} : uncompressed'[c] = uncompressed[c]
         /\ compressionQueue' \in Seq(Blocks)
         /\ \A i \in DOMAIN compressionQueue : i \in DOMAIN compressionQueue'
         /\ \A i \in DOMAIN compressionQueue' :
              IF i \in DOMAIN compressionQueue
              THEN compressionQueue'[i] = compressionQueue[i]
              ELSE compressionQueue'[i] = b /\ i = Len(compressionQueue) + 1
         /\ \E i \in DOMAIN compressionQueue' : compressionQueue'[i] = b
         /\ compressor' \in [Threads -> CompressorPlaces]
         /\ \A t \in Threads : /\ (compressor'[t] = "waitWrite") <=> (compressor[t] = "waitWrite")
                               /\ (compressor'[t] = "compress") <=> (compressor[t] = "compress")
<1>1. /\ uncompressed \in [Blocks -> Block] /\ compressionQueue \in Seq(Blocks)
      /\ recordedBlockId \in Nat /\ compressor \in [Threads -> CompressorPlaces]
  BY DEF TypeOK, CompressorPlaces
<1>2. PICK n \in Nat : n = recordedBlockId + 1
  BY <1>1
<1>3. /\ recordedBlockId' = n
      /\ uncompressed' = [uncompressed EXCEPT ![b].id = n, ![b].full = TRUE]
      /\ compressionQueue' = Append(compressionQueue, b)
      /\ NotifyOneRecordDone
  BY <1>2 DEF PublishBlock
<1>4. uncompressed' \in [Blocks -> Block]
  BY <1>1, <1>3 DEF Block
<1>5. uncompressed'[b].id = n
  BY <1>1, <1>3 DEF Block
<1>6. uncompressed'[b].full = TRUE
  BY <1>1, <1>3 DEF Block
<1>7. uncompressed'[b].data = uncompressed[b].data
  BY <1>1, <1>3 DEF Block
<1>8. uncompressed'[b].dataSize = uncompressed[b].dataSize
  BY <1>1, <1>3 DEF Block
<1>9. uncompressed'[b].dataAlloc = uncompressed[b].dataAlloc
  BY <1>1, <1>3 DEF Block
<1>10. \A c \in Blocks \ {b} : uncompressed'[c] = uncompressed[c]
  BY <1>1, <1>3 DEF Block
<1>11. compressionQueue' \in Seq(Blocks)
  BY <1>1, <1>3
<1>12. /\ \A i \in DOMAIN compressionQueue : i \in DOMAIN compressionQueue'
       /\ \A i \in DOMAIN compressionQueue' :
            IF i \in DOMAIN compressionQueue
            THEN compressionQueue'[i] = compressionQueue[i]
            ELSE compressionQueue'[i] = b /\ i = Len(compressionQueue) + 1
  BY <1>1, <1>3
<1>13. \E i \in DOMAIN compressionQueue' : compressionQueue'[i] = b
  <2>1. Len(compressionQueue) + 1 \in DOMAIN compressionQueue'
    BY <1>1, <1>3
  <2>2. compressionQueue'[Len(compressionQueue) + 1] = b
    BY <1>1, <1>3
  <2>. QED
    BY <2>1, <2>2
<1>14. /\ compressor' \in [Threads -> CompressorPlaces]
       /\ \A t \in Threads : /\ (compressor'[t] = "waitWrite") <=> (compressor[t] = "waitWrite")
                             /\ (compressor'[t] = "compress") <=> (compressor[t] = "compress")
  BY <1>1, <1>3, NotifyOneHolds
<1>. QED
  BY <1>2, <1>3, <1>4, <1>5, <1>6, <1>7, <1>8, <1>9, <1>10, <1>11, <1>12, <1>13, <1>14

Marked(f, b, mark) == [f EXCEPT ![b].compressing = mark]

LEMMA MarkUncompressed ==
  ASSUME NEW f \in [Blocks -> Block], NEW b \in Blocks, NEW mark \in BOOLEAN
  PROVE  LET g == Marked(f, b, mark)
         IN  /\ g \in [Blocks -> Block]
             /\ \A c \in Blocks : /\ g[c].id = f[c].id /\ g[c].data = f[c].data
                                  /\ g[c].dataSize = f[c].dataSize
                                  /\ g[c].dataAlloc = f[c].dataAlloc
                                  /\ g[c].full = f[c].full
<1>. DEFINE g == Marked(f, b, mark)
<1>1. g \in [Blocks -> Block]
  BY DEF Block, Marked
<1>2. \A c \in Blocks : g[c].id = f[c].id
  BY DEF Block, Marked
<1>3. \A c \in Blocks : g[c].data = f[c].data
  BY DEF Block, Marked
<1>4. \A c \in Blocks : g[c].dataSize = f[c].dataSize
  BY DEF Block, Marked
<1>5. \A c \in Blocks : g[c].dataAlloc = f[c].dataAlloc
  BY DEF Block, Marked
<1>6. \A c \in Blocks : g[c].full = f[c].full
  BY DEF Block, Marked
<1>. QED
  BY <1>1, <1>2, <1>3, <1>4, <1>5, <1>6

LEMMA MarkCompressed ==
  ASSUME NEW f \in [Blocks -> CompressedBlock], NEW b \in Blocks
  PROVE  LET g == Marked(f, b, TRUE)
         IN  /\ g \in [Blocks -> CompressedBlock]
             /\ g[b].compressing = TRUE
             /\ \A c \in Blocks : /\ g[c].id = f[c].id /\ g[c].data = f[c].data
                                  /\ g[c].full = f[c].full
                                  /\ f[c].compressing => g[c].compressing
<1>. DEFINE g == Marked(f, b, TRUE)
<1>1. g \in [Blocks -> CompressedBlock]
  BY DEF CompressedBlock, Marked
<1>2. g[b].compressing = TRUE
  BY DEF CompressedBlock, Marked
<1>3. \A c \in Blocks : g[c].id = f[c].id
  BY DEF CompressedBlock, Marked
<1>4. \A c \in Blocks : g[c].data = f[c].data
  BY DEF CompressedBlock, Marked
<1>5. \A c \in Blocks : g[c].full = f[c].full
  BY DEF CompressedBlock, Marked
<1>6. \A c \in Blocks : f[c].compressing => g[c].compressing
  BY DEF CompressedBlock, Marked
<1>. QED
  BY <1>1, <1>2, <1>3, <1>4, <1>5, <1>6

Grown(block, k, n, m) == [block EXCEPT !.data = Append(@, k), !.dataSize = n, !.dataAlloc = m]

LEMMA GrowUncompressed ==
  ASSUME NEW block \in Block, NEW k \in Commands, NEW n \in Nat, NEW m \in Nat
  PROVE  LET g == Grown(block, k, n, m)
         IN  /\ g \in Block /\ g.id = block.id /\ g.data = Append(block.data, k)
             /\ g.dataSize = n /\ g.dataAlloc = m /\ g.full = block.full
<1>. DEFINE g == Grown(block, k, n, m)
<1>1. block.data \in Seq(Commands)
  BY DEF Block
<1>2. Append(block.data, k) \in Seq(Commands)
  BY <1>1
<1>3. g \in Block
  <2>. DEFINE d == Append(block.data, k)
  <2>1. g = [block EXCEPT !.data = d, !.dataSize = n, !.dataAlloc = m]
    BY DEF Grown
  <2>2. d \in Seq(Commands)
    BY <1>2
  <2>. HIDE DEF d, g
  <2>. QED
    BY <2>1, <2>2 DEF Block
<1>4. g.id = block.id
  BY DEF Block, Grown
<1>5. g.data = Append(block.data, k)
  BY DEF Block, Grown
<1>6. g.dataSize = n
  BY DEF Block, Grown
<1>7. g.dataAlloc = m
  BY DEF Block, Grown
<1>8. g.full = block.full
  BY DEF Block, Grown
<1>. QED
  BY <1>3, <1>4, <1>5, <1>6, <1>7, <1>8

Emptied(block) ==
  [block EXCEPT !.data = <<>>, !.dataSize = 0, !.full = FALSE, !.compressing = FALSE]

LEMMA EmptyUncompressed ==
  ASSUME NEW block \in Block
  PROVE  LET g == Emptied(block)
         IN  /\ g \in Block /\ g.id = block.id /\ g.data = <<>> /\ g.dataSize = 0
             /\ g.dataAlloc = block.dataAlloc /\ g.full = FALSE
<1>. DEFINE g == Emptied(block)
<1>1. g \in Block
  <2>1. <<>> \in Seq(Commands)
    OBVIOUS
  <2>. DEFINE e == <<>>
  <2>2. g = [block EXCEPT !.data = e, !.dataSize = 0, !.full = FALSE, !.compressing = FALSE]
    BY DEF Emptied
  <2>3. e \in Seq(Commands)
    BY <2>1
  <2>. HIDE DEF e, g
  <2>. QED
    BY <2>2, <2>3 DEF Block
<1>2. g.id = block.id
  BY DEF Block, Emptied
<1>3. g.data = <<>>
  BY DEF Block, Emptied
<1>4. g.dataSize = 0
  BY DEF Block, Emptied
<1>5. g.dataAlloc = block.dataAlloc
  BY DEF Block, Emptied
<1>6. g.full = FALSE
  BY DEF Block, Emptied
<1>. QED
  BY <1>1, <1>2, <1>3, <1>4, <1>5, <1>6

Written(block) == [block EXCEPT !.data = <<>>, !.full = FALSE]

LEMMA WriteCompressed ==
  ASSUME NEW block \in CompressedBlock
  PROVE  Written(block) \in CompressedBlock /\ Written(block).full = FALSE
<1>1. Written(block) \in CompressedBlock
  <2>1. <<>> \in Seq(Commands)
    OBVIOUS
  <2>. DEFINE e == <<>>
  <2>2. Written(block) = [block EXCEPT !.data = e, !.full = FALSE]
    BY DEF Written
  <2>3. e \in Seq(Commands)
    BY <2>1
  <2>. HIDE DEF e
  <2>. QED
    BY <2>2, <2>3 DEF CompressedBlock
<1>2. Written(block).full = FALSE
  BY DEF CompressedBlock, Written
<1>. QED
  BY <1>1, <1>2

(***************************************************************************)
(* The same for the steps.                                                 *)
(***************************************************************************)
LEMMA CopyEffect ==
  ASSUME TypeInv, CopyCommand
  PROVE  LET b == currentRecordBlock
             block == uncompressed[b]
         IN  /\ b \in Blocks /\ size \in Sizes /\ accepted < MaxCommands
             /\ uncompressed' \in [Blocks -> Block]
             /\ uncompressed'[b].id = block.id /\ uncompressed'[b].full = block.full
             /\ uncompressed'[b].data = Append(block.data, accepted + 1)
             /\ uncompressed'[b].dataSize = block.dataSize + size
             /\ block.dataSize <= block.dataAlloc
                  => uncompressed'[b].dataSize <= uncompressed'[b].dataAlloc
             /\ \A c \in Blocks \ {b} : uncompressed'[c] = uncompressed[c]
             /\ accepted' = accepted + 1 /\ accepted' \in Nat
<1>. DEFINE b == currentRecordBlock
            block == uncompressed[b]
            old == block.dataSize
            alloc == block.dataAlloc
<1>1. /\ b \in Blocks /\ block \in Block /\ uncompressed \in [Blocks -> Block]
      /\ size \in Sizes /\ size \in Nat /\ accepted \in Nat /\ accepted < MaxCommands
  BY SizesAssumption DEF TypeInv, TypeOK, RecorderLocated, CopyCommand
<1>2. old \in Nat /\ alloc \in Nat
  BY <1>1 DEF Block
<1>3. PICK n \in Nat : n = old + size
  BY <1>1, <1>2
<1>4. PICK m \in Nat : m = GrownAlloc(block)
  BY <1>1, <1>2 DEF GrownAlloc
<1>5. old <= alloc => n <= m
  <2>1. m = IF alloc - old < size THEN old + size ELSE alloc
    BY <1>4 DEF GrownAlloc
  <2>. HIDE DEF old, alloc
  <2>. QED
    BY <1>1, <1>2, <1>3, <2>1
<1>6. PICK k \in Commands : k = accepted + 1
  BY <1>1, MaxCommandsAssumption DEF Commands
<1>7. uncompressed' = [uncompressed EXCEPT ![b] = Grown(block, k, n, m)]
  BY <1>3, <1>4, <1>6 DEF CopyCommand, Grown
<1>8. LET g == Grown(block, k, n, m)
      IN  /\ g \in Block /\ g.id = block.id /\ g.data = Append(block.data, k)
          /\ g.dataSize = n /\ g.dataAlloc = m /\ g.full = block.full
  BY <1>1, GrowUncompressed
<1>9. /\ uncompressed' \in [Blocks -> Block] /\ uncompressed'[b] = Grown(block, k, n, m)
      /\ \A c \in Blocks \ {b} : uncompressed'[c] = uncompressed[c]
  <2>. HIDE DEF b, block
  <2>. QED
    BY <1>1, <1>7, <1>8
<1>10. accepted' = accepted + 1 /\ accepted' \in Nat
  BY <1>1 DEF CopyCommand
<1>. QED
  BY <1>1, <1>3, <1>5, <1>6, <1>8, <1>9, <1>10

\* While a block is full, there is something to write: nobody leaves.
LEMMA FullIsPending ==
  ASSUME OwnerInv, NEW b \in Blocks, uncompressed[b].full
  PROVE  ~AllWritten
<1>1. uncompressed[b].id \in writtenBlockId + 1 .. recordedBlockId
  BY DEF OwnerInv, IdsPending, Pending
<1>2. writtenBlockId \in Nat /\ recordedBlockId \in Nat
  BY DEF OwnerInv, TypeInv, TypeOK
<1>. QED
  BY <1>1, <1>2 DEF AllWritten

LEMMA FetchEffect ==
  ASSUME OwnerInv, NEW t \in Threads, FetchBlock(t)
  PROVE  LET b == Head(compressionQueue)
         IN  /\ b \in Blocks /\ 1 \in DOMAIN compressionQueue /\ b = compressionQueue[1]
             /\ compressionQueue' \in Seq(Blocks)
             /\ \A i \in DOMAIN compressionQueue' :
                  /\ i \in Nat /\ i + 1 \in DOMAIN compressionQueue /\ i + 1 # 1
                  /\ compressionQueue'[i] = compressionQueue[i + 1]
                  /\ compressionQueue[i + 1] \in Blocks
             /\ \A i \in DOMAIN compressionQueue :
                  i # 1 => i - 1 \in DOMAIN compressionQueue'
                           /\ compressionQueue'[i - 1] = compressionQueue[i]
             /\ uncompressed' \in [Blocks -> Block]
             /\ \A c \in Blocks :
                  /\ uncompressed'[c].id = uncompressed[c].id
                  /\ uncompressed'[c].data = uncompressed[c].data
                  /\ uncompressed'[c].dataSize = uncompressed[c].dataSize
                  /\ uncompressed'[c].dataAlloc = uncompressed[c].dataAlloc
                  /\ uncompressed'[c].full = uncompressed[c].full
             /\ compressed' \in [Blocks -> CompressedBlock]
             /\ \A c \in Blocks :
                  /\ compressed'[c].id = compressed[c].id
                  /\ compressed'[c].data = compressed[c].data
                  /\ compressed'[c].full = compressed[c].full
                  /\ compressed[c].compressing => compressed'[c].compressing
             /\ held' \in [Threads -> Blocks \cup {NoBlock}] /\ held'[t] = b
             /\ compressor' \in [Threads -> CompressorPlaces]
             /\ waitsForWriteDone' \in [Threads -> Blocks \cup {NoBlock}]
             /\ \A u \in Threads \ {t} :
                  /\ held'[u] = held[u] /\ compressor'[u] = compressor[u]
                  /\ waitsForWriteDone'[u] = waitsForWriteDone[u]
             /\ \/ /\ ~compressed[b].full /\ compressed'[b].compressing
                   /\ compressor'[t] = "compress"
                   /\ waitsForWriteDone'[t] = waitsForWriteDone[t]
                \/ compressor'[t] = "waitWrite" /\ waitsForWriteDone'[t] = b
             /\ recorder' = recorder /\ writer' = writer
<1>. DEFINE b == Head(compressionQueue)
<1>1. /\ uncompressed \in [Blocks -> Block] /\ compressed \in [Blocks -> CompressedBlock]
      /\ compressionQueue \in Seq(Blocks) /\ compressionQueue # <<>>
      /\ held \in [Threads -> Blocks \cup {NoBlock}]
      /\ compressor \in [Threads -> CompressorPlaces]
      /\ waitsForWriteDone \in [Threads -> Blocks \cup {NoBlock}]
  BY DEF OwnerInv, TypeInv, TypeOK, FetchBlock, CompressorPlaces
<1>2. b \in Blocks /\ 1 \in DOMAIN compressionQueue /\ b = compressionQueue[1]
  BY <1>1
<1>3. compressionQueue' = Tail(compressionQueue) /\ held' = [held EXCEPT ![t] = b]
  BY DEF FetchBlock
<1>4. /\ compressionQueue' \in Seq(Blocks)
      /\ \A i \in DOMAIN compressionQueue' :
           /\ i \in Nat /\ i + 1 \in DOMAIN compressionQueue /\ i + 1 # 1
           /\ compressionQueue'[i] = compressionQueue[i + 1]
           /\ compressionQueue[i + 1] \in Blocks
  BY <1>1, <1>3
<1>5. \A i \in DOMAIN compressionQueue :
        i # 1 => i - 1 \in DOMAIN compressionQueue'
                 /\ compressionQueue'[i - 1] = compressionQueue[i]
  BY <1>1, <1>3
<1>6. uncompressed[b].full
  BY <1>2 DEF OwnerInv, QueueExclusive
<1>7. ~AllWritten
  BY <1>2, <1>6, FullIsPending
<1>8. PICK mark \in BOOLEAN : mark = ~(Busy(b) /\ AllWritten)
  BY Zenon
<1>9. uncompressed' = Marked(uncompressed, b, mark)
  BY <1>8 DEF FetchBlock, Marked
<1>10. /\ uncompressed' \in [Blocks -> Block]
       /\ \A c \in Blocks :
            /\ uncompressed'[c].id = uncompressed[c].id
            /\ uncompressed'[c].data = uncompressed[c].data
            /\ uncompressed'[c].dataSize = uncompressed[c].dataSize
            /\ uncompressed'[c].dataAlloc = uncompressed[c].dataAlloc
            /\ uncompressed'[c].full = uncompressed[c].full
  <2>. HIDE DEF b
  <2>. QED
    BY <1>1, <1>2, <1>9, MarkUncompressed
<1>11. /\ held' \in [Threads -> Blocks \cup {NoBlock}] /\ held'[t] = b
       /\ \A u \in Threads \ {t} : held'[u] = held[u]
  BY <1>1, <1>2, <1>3
<1>12. CASE ~Busy(b)
  <2>1. /\ compressed' = Marked(compressed, b, TRUE)
        /\ compressor' = [compressor EXCEPT ![t] = "compress"]
        /\ UNCHANGED <<waitsForWriteDone, recorder, writer>>
    BY <1>7, <1>12 DEF FetchBlock, StartCompression, GoTo, Marked
  <2>2. /\ compressed' \in [Blocks -> CompressedBlock] /\ compressed'[b].compressing = TRUE
        /\ \A c \in Blocks :
             /\ compressed'[c].id = compressed[c].id
             /\ compressed'[c].data = compressed[c].data
             /\ compressed'[c].full = compressed[c].full
             /\ compressed[c].compressing => compressed'[c].compressing
    <3>. HIDE DEF b
    <3>1. b \in Blocks /\ compressed \in [Blocks -> CompressedBlock]
      BY <1>1, <1>2
    <3>2. compressed' = Marked(compressed, b, TRUE)
      BY <2>1
    <3>. QED
      BY <3>1, <3>2, MarkCompressed
  <2>3. /\ compressor' \in [Threads -> CompressorPlaces] /\ compressor'[t] = "compress"
        /\ \A u \in Threads \ {t} : compressor'[u] = compressor[u]
    BY <1>1, <2>1 DEF CompressorPlaces
  <2>4. ~compressed[b].full
    BY <1>12 DEF Busy
  <2>. HIDE DEF b
  <2>. QED
    BY <1>1, <1>2, <1>4, <1>5, <1>10, <1>11, <2>1, <2>2, <2>3, <2>4 DEF b
<1>13. CASE Busy(b)
  <2>1. /\ compressor' = [compressor EXCEPT ![t] = "waitWrite"]
        /\ waitsForWriteDone' = [waitsForWriteDone EXCEPT ![t] = b]
        /\ UNCHANGED <<compressed, recorder, writer>>
    BY <1>7, <1>13 DEF FetchBlock, GoTo
  <2>2. /\ compressor' \in [Threads -> CompressorPlaces] /\ compressor'[t] = "waitWrite"
        /\ waitsForWriteDone' \in [Threads -> Blocks \cup {NoBlock}]
        /\ waitsForWriteDone'[t] = b
        /\ \A u \in Threads \ {t} : /\ compressor'[u] = compressor[u]
                                    /\ waitsForWriteDone'[u] = waitsForWriteDone[u]
    <3>. HIDE DEF b
    <3>. QED
      BY <1>1, <1>2, <2>1 DEF CompressorPlaces
  <2>. HIDE DEF b
  <2>. QED
    BY <1>1, <1>2, <1>4, <1>5, <1>10, <1>11, <2>1, <2>2 DEF b
<1>. QED
  BY <1>12, <1>13

LEMMA ResumeEffect ==
  ASSUME OwnerInv, NEW t \in Threads, ResumeCompression(t)
  PROVE  /\ held[t] \in Blocks
         /\ compressed' \in [Blocks -> CompressedBlock]
         /\ compressed'[held[t]].compressing = TRUE
         /\ \A c \in Blocks :
              /\ compressed'[c].id = compressed[c].id
              /\ compressed'[c].data = compressed[c].data
              /\ compressed'[c].full = compressed[c].full
              /\ compressed[c].compressing => compressed'[c].compressing
         /\ compressor' \in [Threads -> CompressorPlaces] /\ compressor'[t] = "compress"
         /\ \A u \in Threads \ {t} : compressor'[u] = compressor[u]
         /\ recorder' = recorder /\ writer' = writer
<1>1. compressed \in [Blocks -> CompressedBlock] /\ compressor \in [Threads -> CompressorPlaces]
  BY DEF OwnerInv, TypeInv, TypeOK, CompressorPlaces
<1>2. held[t] \in Blocks /\ uncompressed[held[t]].full
  BY DEF OwnerInv, TypeInv, TypeOK, HeldExclusive, Working, ResumeCompression
<1>3. ~AllWritten
  BY <1>2, FullIsPending
<1>4. /\ compressed' = Marked(compressed, held[t], TRUE)
      /\ compressor' = [compressor EXCEPT ![t] = "compress"]
      /\ UNCHANGED <<recorder, writer>>
  BY <1>3 DEF ResumeCompression, StartCompression, GoTo, Marked
<1>5. /\ compressed' \in [Blocks -> CompressedBlock] /\ compressed'[held[t]].compressing = TRUE
      /\ \A c \in Blocks :
           /\ compressed'[c].id = compressed[c].id
           /\ compressed'[c].data = compressed[c].data
           /\ compressed'[c].full = compressed[c].full
           /\ compressed[c].compressing => compressed'[c].compressing
  BY <1>1, <1>2, <1>4, MarkCompressed
<1>6. /\ compressor' \in [Threads -> CompressorPlaces] /\ compressor'[t] = "compress"
      /\ \A u \in Threads \ {t} : compressor'[u] = compressor[u]
  BY <1>1, <1>4 DEF CompressorPlaces
<1>. QED
  BY <1>2, <1>4, <1>5, <1>6

LEMMA CompressEffect ==
  ASSUME OwnerInv, NEW t \in Threads, CompressBlock(t)
  PROVE  LET b == held[t]
         IN  /\ b \in Blocks
             /\ uncompressed' \in [Blocks -> Block]
             /\ uncompressed'[b].data = <<>> /\ uncompressed'[b].dataSize = 0
             /\ uncompressed'[b].dataAlloc = uncompressed[b].dataAlloc
             /\ uncompressed'[b].full = FALSE
             /\ \A c \in Blocks \ {b} : uncompressed'[c] = uncompressed[c]
             /\ compressed' \in [Blocks -> CompressedBlock]
             /\ compressed'[b].id = uncompressed[b].id
             /\ compressed'[b].data = uncompressed[b].data
             /\ compressed'[b].full = TRUE
             /\ \A c \in Blocks \ {b} : compressed'[c] = compressed[c]
             /\ held' \in [Threads -> Blocks \cup {NoBlock}] /\ held'[t] = NoBlock
             /\ compressor' \in [Threads -> CompressorPlaces] /\ compressor'[t] = "notify"
             /\ \A u \in Threads \ {t} : held'[u] = held[u] /\ compressor'[u] = compressor[u]
<1>. DEFINE b == held[t]
            new == [id |-> uncompressed[b].id, data |-> uncompressed[b].data,
                    full |-> TRUE, compressing |-> FALSE]
<1>1. /\ uncompressed \in [Blocks -> Block] /\ compressed \in [Blocks -> CompressedBlock]
      /\ held \in [Threads -> Blocks \cup {NoBlock}]
      /\ compressor \in [Threads -> CompressorPlaces]
  BY DEF OwnerInv, TypeInv, TypeOK, CompressorPlaces
<1>2. b \in Blocks
  BY DEF OwnerInv, TypeInv, TypeOK, HeldExclusive, Working, CompressBlock
<1>3. uncompressed[b] \in Block
  BY <1>1, <1>2
<1>4. new \in CompressedBlock
  BY <1>3 DEF Block, CompressedBlock
<1>5. /\ uncompressed' = [uncompressed EXCEPT ![b] = Emptied(uncompressed[b])]
      /\ compressed' = [compressed EXCEPT ![b] = new]
      /\ held' = [held EXCEPT ![t] = NoBlock]
      /\ compressor' = [compressor EXCEPT ![t] = "notify"]
  BY DEF CompressBlock, Emptied, GoTo
<1>6. LET g == Emptied(uncompressed[b])
      IN  /\ g \in Block /\ g.data = <<>> /\ g.dataSize = 0
          /\ g.dataAlloc = uncompressed[b].dataAlloc /\ g.full = FALSE
  BY <1>3, EmptyUncompressed
<1>7. /\ uncompressed' \in [Blocks -> Block] /\ uncompressed'[b] = Emptied(uncompressed[b])
      /\ \A c \in Blocks \ {b} : uncompressed'[c] = uncompressed[c]
  <2>. HIDE DEF b
  <2>. QED
    BY <1>1, <1>2, <1>5, <1>6
<1>8. new.id = uncompressed[b].id /\ new.data = uncompressed[b].data /\ new.full = TRUE
  OBVIOUS
<1>9. /\ compressed' \in [Blocks -> CompressedBlock] /\ compressed'[b] = new
      /\ \A c \in Blocks \ {b} : compressed'[c] = compressed[c]
  <2>. HIDE DEF b, new
  <2>. QED
    BY <1>1, <1>2, <1>4, <1>5
<1>10. /\ held' \in [Threads -> Blocks \cup {NoBlock}] /\ held'[t] = NoBlock
       /\ compressor' \in [Threads -> CompressorPlaces] /\ compressor'[t] = "notify"
       /\ \A u \in Threads \ {t} : held'[u] = held[u] /\ compressor'[u] = compressor[u]
  BY <1>1, <1>5 DEF CompressorPlaces
<1>. HIDE DEF new
<1>. QED
  BY <1>2, <1>6, <1>7, <1>8, <1>9, <1>10

LEMMA WriteEffect ==
  ASSUME TypeOK, WriteBlock
  PROVE  LET b == blockIndex
         IN  /\ b \in Blocks /\ writtenBlockId' = writtenBlockId + 1
             /\ compressed' \in [Blocks -> CompressedBlock] /\ compressed'[b].full = FALSE
             /\ \A c \in Blocks \ {b} : compressed'[c] = compressed[c]
             /\ file' = file \o compressed[b].data /\ file' \in Seq(Commands)
             /\ waitsForWriteDone' \in [Threads -> Blocks \cup {NoBlock}]
             /\ \A t \in Threads :
                  \/ waitsForWriteDone'[t] = waitsForWriteDone[t]
                  \/ waitsForWriteDone[t] = b /\ waitsForWriteDone'[t] = NoBlock
<1>1. /\ blockIndex \in Blocks /\ compressed \in [Blocks -> CompressedBlock]
      /\ waitsForWriteDone \in [Threads -> Blocks \cup {NoBlock}] /\ file \in Seq(Commands)
  BY DEF TypeOK
<1>2. /\ writtenBlockId' = writtenBlockId + 1
      /\ compressed' = [compressed EXCEPT ![blockIndex] = Written(compressed[blockIndex])]
      /\ file' = file \o compressed[blockIndex].data
  BY DEF WriteBlock, Written
<1>3. Written(compressed[blockIndex]) \in CompressedBlock
      /\ Written(compressed[blockIndex]).full = FALSE
  BY <1>1, WriteCompressed
<1>4. /\ compressed' \in [Blocks -> CompressedBlock] /\ compressed'[blockIndex].full = FALSE
      /\ \A c \in Blocks \ {blockIndex} : compressed'[c] = compressed[c]
  BY <1>1, <1>2, <1>3
<1>5. file' \in Seq(Commands)
  <2>1. compressed[blockIndex].data \in Seq(Commands)
    BY <1>1 DEF CompressedBlock
  <2>. QED
    BY <1>1, <1>2, <2>1
<1>6. /\ waitsForWriteDone' \in [Threads -> Blocks \cup {NoBlock}]
      /\ \A t \in Threads :
           \/ waitsForWriteDone'[t] = waitsForWriteDone[t]
           \/ waitsForWriteDone[t] = blockIndex /\ waitsForWriteDone'[t] = NoBlock
  BY <1>1 DEF WriteBlock, WaitersFor
<1>. QED
  BY <1>1, <1>2, <1>4, <1>5, <1>6
-----------------------------------------------------------------------------
(***************************************************************************)
(* The invariant, step by step.                                            *)
(***************************************************************************)
LEMMA OwnerInit == Init => OwnerInv
<1>. SUFFICES ASSUME Init PROVE OwnerInv
  OBVIOUS
<1>. USE BlocksType, AllocAssumption DEF Init
<1>1. TypeOK
  <2>1. uncompressed \in [Blocks -> Block] /\ compressed \in [Blocks -> CompressedBlock]
    BY DEF Block, CompressedBlock
  <2>2. /\ compressionQueue \in Seq(Blocks) /\ file \in Seq(Commands)
        /\ waitsForWriteDone \in [Threads -> Blocks \cup {NoBlock}]
        /\ held \in [Threads -> Blocks \cup {NoBlock}]
        /\ compressor \in [Threads -> {"fetch", "waitRecord", "waitWrite", "compress",
                                       "notify", "exited"}]
    OBVIOUS
  <2>. QED
    BY <2>1, <2>2 DEF TypeOK
<1>2. RecorderLocated
  BY DEF RecorderLocated
<1>3. QueueExclusive /\ HeldExclusive /\ FullOwned /\ CurrentFree
  BY DEF QueueExclusive, HeldExclusive, Working, FullOwned, CurrentFree
<1>4. WaitSound /\ WriterSound /\ IdsPending
  BY DEF WaitSound, WriterSound, IdsPending
<1>5. DataFits
  BY DEF DataFits
<1>. QED
  BY <1>1, <1>2, <1>3, <1>4, <1>5 DEF OwnerInv, TypeInv

\* The threads that hold a block still hold it, and nobody else does.
HoldersKept ==
  /\ held' = held
  /\ \A t \in Threads : /\ (compressor'[t] = "waitWrite") <=> (compressor[t] = "waitWrite")
                        /\ (compressor'[t] = "compress") <=> (compressor[t] = "compress")

\* A step that leaves the blocks and those who hold them alone.
LEMMA QuietOwner ==
  ASSUME OwnerInv, TypeInv', HoldersKept, CurrentFree', WriterSound',
         UNCHANGED <<compressed, uncompressed, compressionQueue, waitsForWriteDone,
                     recordedBlockId, writtenBlockId>>
  PROVE  OwnerInv'
<1>. USE DEF OwnerInv, HoldersKept
<1>1. QueueExclusive'
  BY DEF QueueExclusive
<1>2. HeldExclusive'
  BY DEF HeldExclusive, Working
<1>3. FullOwned'
  BY DEF FullOwned
<1>4. WaitSound'
  BY DEF WaitSound
<1>5. IdsPending'
  BY DEF IdsPending, Pending
<1>6. DataFits'
  BY DEF DataFits
<1>. QED
  BY <1>1, <1>2, <1>3, <1>4, <1>5, <1>6

\* A block that is published is in the queue and nowhere else.
LEMMA PublishOwner ==
  ASSUME OwnerInv, TypeInv', NEW b \in Blocks, ~uncompressed[b].full, PublishBlock(b),
         recorder' \notin {"copy", "publish"},
         UNCHANGED <<compressed, held, waitsForWriteDone, writtenBlockId, writer, blockIndex>>
  PROVE  OwnerInv'
<1>0. TypeInv /\ TypeOK
  BY DEF OwnerInv, TypeInv
<1>1. /\ recordedBlockId \in Nat /\ writtenBlockId \in Nat /\ writtenBlockId <= recordedBlockId
      /\ compressionQueue \in Seq(Blocks)
  BY <1>0 DEF TypeOK, OwnerInv, IdsPending
<1>2. /\ recordedBlockId' = recordedBlockId + 1
      /\ uncompressed'[b].id = recordedBlockId + 1 /\ uncompressed'[b].full = TRUE
      /\ \A c \in Blocks \ {b} : uncompressed'[c] = uncompressed[c]
  BY <1>0, PublishEffect
<1>3. /\ \A i \in DOMAIN compressionQueue : i \in DOMAIN compressionQueue'
      /\ \A i \in DOMAIN compressionQueue' :
           IF i \in DOMAIN compressionQueue
           THEN compressionQueue'[i] = compressionQueue[i]
           ELSE compressionQueue'[i] = b /\ i = Len(compressionQueue) + 1
      /\ \E i \in DOMAIN compressionQueue' : compressionQueue'[i] = b
  BY <1>0, PublishEffect
<1>4. HoldersKept
  BY <1>0, PublishEffect DEF HoldersKept
<1>5. ASSUME NEW i \in DOMAIN compressionQueue
      PROVE  compressionQueue[i] \in Blocks \ {b}
  BY <1>1 DEF OwnerInv, QueueExclusive
<1>6. ASSUME NEW t \in Threads, held[t] # NoBlock
      PROVE  held[t] \in Blocks \ {b}
  BY <1>0, <1>6 DEF OwnerInv, HeldExclusive, TypeOK
<1>7. QueueExclusive'
  <2>. SUFFICES ASSUME NEW i \in DOMAIN compressionQueue'
                PROVE  /\ uncompressed'[compressionQueue'[i]].full
                       /\ \A j \in DOMAIN compressionQueue' :
                            compressionQueue'[i] = compressionQueue'[j] => i = j
                       /\ \A t \in Threads : held[t] # compressionQueue'[i]
    BY DEF QueueExclusive
  <2>1. CASE i \in DOMAIN compressionQueue
    BY <2>1, <1>2, <1>3, <1>5 DEF OwnerInv, QueueExclusive
  <2>2. CASE i \notin DOMAIN compressionQueue
    <3>1. compressionQueue'[i] = b /\ i = Len(compressionQueue) + 1
      BY <2>2, <1>3
    <3>2. \A t \in Threads : held[t] # b
      BY <1>6, BlocksType
    <3>. QED
      BY <3>1, <3>2, <1>2, <1>3, <1>5
  <2>. QED
    BY <2>1, <2>2
<1>8. HeldExclusive'
  <2>1. \A t \in Threads : Working(t)' <=> Working(t)
    BY <1>4 DEF HoldersKept, Working
  <2>2. \A t \in Threads : Working(t) => held[t] \in Blocks \ {b}
    BY <1>6 DEF OwnerInv, HeldExclusive
  <2>. QED
    BY <2>1, <2>2, <1>2 DEF OwnerInv, HeldExclusive
<1>9. FullOwned'
  <2>. SUFFICES ASSUME NEW c \in Blocks, uncompressed'[c].full
                PROVE  \/ \E i \in DOMAIN compressionQueue' : compressionQueue'[i] = c
                       \/ \E t \in Threads : held[t] = c
    BY DEF FullOwned
  <2>1. CASE c = b
    BY <2>1, <1>3
  <2>2. CASE c # b
    BY <2>2, <1>2, <1>3 DEF OwnerInv, FullOwned
  <2>. QED
    BY <2>1, <2>2
<1>10. CurrentFree' /\ WriterSound' /\ WaitSound'
  BY <1>4 DEF CurrentFree, OwnerInv, WriterSound, IsNext, WaitSound, HoldersKept
<1>11. IdsPending'
  <2>1. writtenBlockId <= recordedBlockId'
    BY <1>1, <1>2
  <2>2. /\ recordedBlockId + 1 \in Pending' /\ recordedBlockId + 1 \notin Pending
        /\ \A n \in Pending : n \in Pending'
    BY <1>1, <1>2 DEF Pending
  <2>3. ASSUME NEW c \in Blocks, uncompressed'[c].full
        PROVE  /\ uncompressed'[c].id \in Pending'
               /\ \A d \in Blocks : uncompressed'[d].full /\ uncompressed'[d].id = uncompressed'[c].id
                    => d = c
               /\ \A d \in Blocks : compressed[d].full => compressed[d].id # uncompressed'[c].id
    <3>1. CASE c = b
      BY <3>1, <2>2, <1>2 DEF OwnerInv, IdsPending
    <3>2. CASE c # b
      BY <3>2, <2>2, <2>3, <1>2 DEF OwnerInv, IdsPending
    <3>. QED
      BY <3>1, <3>2
  <2>4. ASSUME NEW c \in Blocks, compressed[c].full
        PROVE  /\ compressed[c].id \in Pending'
               /\ \A d \in Blocks : compressed[d].full /\ compressed[d].id = compressed[c].id => d = c
    BY <2>2, <2>4 DEF OwnerInv, IdsPending
  <2>. QED
    BY <2>1, <2>3, <2>4 DEF IdsPending
<1>12. DataFits'
  <2>1. \A c \in Blocks : /\ uncompressed'[c].dataSize = uncompressed[c].dataSize
                          /\ uncompressed'[c].dataAlloc = uncompressed[c].dataAlloc
    BY <1>0, PublishEffect
  <2>. QED
    BY <2>1 DEF OwnerInv, DataFits
<1>. QED
  BY <1>7, <1>8, <1>9, <1>10, <1>11, <1>12 DEF OwnerInv

\* What Record and Close go on with.
Asked ==
  /\ stopThreads' \in BOOLEAN /\ size' \in Sizes \cup {0}
  /\ ~stopThreads' => size' \in Sizes /\ accepted < MaxCommands

LEMMA UseOwner ==
  ASSUME OwnerInv, Asked, NEW b \in Blocks, ~uncompressed[b].full, UseBlock(b),
         UNCHANGED RecordVars
  PROVE  OwnerInv'
<1>0. TypeOK
  BY DEF OwnerInv, TypeInv
<1>1. /\ UNCHANGED <<compressed, held, waitsForWriteDone, writer, blockIndex, ready,
                     writtenBlockId, file, accepted>>
      /\ currentRecordBlock' = b
      /\ recorder' = IF stopThreads' THEN "notify" ELSE "copy"
  BY DEF RecordVars, writeVars, UseBlock
<1>2. RecorderLocated'
  BY <1>1 DEF RecorderLocated, Asked
<1>3. CASE PublishBlock(b) /\ stopThreads'
  <2>1. /\ recordedBlockId' = recordedBlockId + 1 /\ uncompressed' \in [Blocks -> Block]
        /\ compressionQueue' \in Seq(Blocks) /\ compressor' \in [Threads -> CompressorPlaces]
    BY <1>0, <1>3, PublishEffect
  <2>2. TypeOK'
    BY <1>0, <1>1, <2>1 DEF TypeOK, Asked, CompressorPlaces
  <2>. QED
    BY <1>1, <1>2, <1>3, <2>2, PublishOwner DEF TypeInv
<1>4. CASE UNCHANGED <<recordedBlockId, uncompressed, compressionQueue, compressor>>
  <2>1. TypeOK'
    BY <1>0, <1>1, <1>4 DEF TypeOK, Asked
  <2>2. HoldersKept /\ CurrentFree' /\ WriterSound'
    BY <1>1, <1>4 DEF HoldersKept, CurrentFree, OwnerInv, WriterSound, IsNext
  <2>. QED
    BY <1>1, <1>2, <1>4, <2>1, <2>2, QuietOwner DEF TypeInv
<1>. QED
  BY <1>3, <1>4 DEF UseBlock

LEMMA WaitOwner ==
  ASSUME OwnerInv, Asked, recorder' = "wait", UNCHANGED RecordVars,
         UNCHANGED <<currentRecordBlock, recordedBlockId, uncompressed, compressionQueue,
                     compressor>>
  PROVE  OwnerInv'
<1>1. UNCHANGED <<compressed, held, waitsForWriteDone, writer, blockIndex, ready,
                  writtenBlockId, file, accepted>>
  BY DEF RecordVars, writeVars
<1>2. TypeOK'
  BY <1>1 DEF OwnerInv, TypeInv, TypeOK, Asked
<1>3. RecorderLocated'
  BY <1>1 DEF RecorderLocated, Asked
<1>4. HoldersKept /\ CurrentFree' /\ WriterSound'
  BY <1>1 DEF HoldersKept, CurrentFree, OwnerInv, WriterSound, IsNext
<1>. QED
  BY <1>1, <1>2, <1>3, <1>4, QuietOwner DEF TypeInv

LEMMA AskOwner ==
  ASSUME OwnerInv, RecordCommand \/ CloseStream \/ ResumeSearch
  PROVE  OwnerInv'
<1>1. Asked /\ UNCHANGED RecordVars
  BY DEF OwnerInv, TypeInv, TypeOK, RecorderLocated, Asked, RecordCommand, CloseStream,
         ResumeSearch
<1>2. PICK s : FindBlockForRecord(s) \/ SearchBlock(s)
  BY DEF RecordCommand, CloseStream, ResumeSearch
<1>3. \/ /\ recorder' = "wait"
         /\ UNCHANGED <<currentRecordBlock, recordedBlockId, uncompressed, compressionQueue,
                        compressor>>
      \/ \E b \in Blocks : ~uncompressed[b].full /\ UseBlock(b)
  BY <1>2, FindEffect, SearchEffect DEF OwnerInv, TypeInv
<1>. QED
  BY <1>1, <1>3, UseOwner, WaitOwner

LEMMA CopyOwner == ASSUME OwnerInv, CopyCommand PROVE OwnerInv'
<1>. DEFINE b == currentRecordBlock
<1>0. TypeInv /\ TypeOK
  BY DEF OwnerInv, TypeInv
<1>1. /\ b \in Blocks /\ uncompressed' \in [Blocks -> Block]
      /\ uncompressed'[b].id = uncompressed[b].id
      /\ uncompressed'[b].full = uncompressed[b].full
      /\ uncompressed[b].dataSize <= uncompressed[b].dataAlloc
           => uncompressed'[b].dataSize <= uncompressed'[b].dataAlloc
      /\ \A c \in Blocks \ {b} : uncompressed'[c] = uncompressed[c]
      /\ accepted' \in Nat
  BY <1>0, CopyEffect
<1>2. /\ UNCHANGED <<stopThreads, recordedBlockId, compressed, compressionQueue, size,
                     currentRecordBlock, compressor, held, waitsForWriteDone, writer,
                     blockIndex, ready, writtenBlockId, file>>
      /\ recorder = "copy" /\ recorder' \in {"publish", "idle"}
  BY DEF CopyCommand, compressVars, writeVars
<1>3. \A c \in Blocks : /\ uncompressed'[c].id = uncompressed[c].id
                        /\ uncompressed'[c].full = uncompressed[c].full
  BY <1>1
<1>4. TypeInv'
  <2>1. TypeOK'
    BY <1>0, <1>1, <1>2 DEF TypeOK
  <2>2. RecorderLocated'
    BY <1>0, <1>2 DEF TypeInv, RecorderLocated
  <2>. QED
    BY <2>1, <2>2 DEF TypeInv
<1>5. QueueExclusive'
  BY <1>0, <1>2, <1>3 DEF OwnerInv, QueueExclusive, TypeOK
<1>6. HeldExclusive'
  <2>1. \A t \in Threads : Working(t) => held[t] \in Blocks
    BY <1>0 DEF OwnerInv, HeldExclusive, TypeOK
  <2>. QED
    BY <2>1, <1>2, <1>3 DEF OwnerInv, HeldExclusive, Working
<1>7. FullOwned' /\ CurrentFree'
  BY <1>1, <1>2, <1>3 DEF OwnerInv, FullOwned, CurrentFree
<1>8. WaitSound' /\ WriterSound'
  BY <1>2 DEF OwnerInv, WaitSound, WriterSound, IsNext
<1>9. IdsPending'
  BY <1>2, <1>3 DEF OwnerInv, IdsPending, Pending
<1>10. DataFits'
  BY <1>1 DEF OwnerInv, DataFits
<1>. QED
  BY <1>4, <1>5, <1>6, <1>7, <1>8, <1>9, <1>10 DEF OwnerInv

LEMMA PublishCurrentOwner == ASSUME OwnerInv, Publish PROVE OwnerInv'
<1>0. TypeInv /\ TypeOK
  BY DEF OwnerInv, TypeInv
<1>1. /\ currentRecordBlock \in Blocks /\ ~uncompressed[currentRecordBlock].full
      /\ PublishBlock(currentRecordBlock) /\ recorder = "publish" /\ recorder' = "idle"
      /\ UNCHANGED <<compressed, held, waitsForWriteDone, writer, blockIndex, ready,
                     writtenBlockId, file, accepted, stopThreads, size, currentRecordBlock>>
  BY <1>0 DEF Publish, RecordVars, writeVars, TypeOK, OwnerInv, CurrentFree
<1>2. /\ recordedBlockId' = recordedBlockId + 1 /\ uncompressed' \in [Blocks -> Block]
      /\ compressionQueue' \in Seq(Blocks) /\ compressor' \in [Threads -> CompressorPlaces]
  BY <1>0, <1>1, PublishEffect
<1>3. TypeOK'
  BY <1>0, <1>1, <1>2 DEF TypeOK, CompressorPlaces
<1>4. RecorderLocated'
  BY <1>0, <1>1 DEF TypeInv, RecorderLocated
<1>. QED
  BY <1>1, <1>3, <1>4, PublishOwner DEF TypeInv

LEMMA FetchOwner == ASSUME OwnerInv, NEW t \in Threads, FetchBlock(t) PROVE OwnerInv'
<1>. DEFINE b == Head(compressionQueue)
<1>0. TypeInv /\ TypeOK
  BY DEF OwnerInv, TypeInv
<1>1. /\ b \in Blocks /\ 1 \in DOMAIN compressionQueue /\ b = compressionQueue[1]
      /\ compressionQueue' \in Seq(Blocks)
      /\ \A i \in DOMAIN compressionQueue' :
           /\ i \in Nat /\ i + 1 \in DOMAIN compressionQueue /\ i + 1 # 1
           /\ compressionQueue'[i] = compressionQueue[i + 1]
           /\ compressionQueue[i + 1] \in Blocks
      /\ \A i \in DOMAIN compressionQueue :
           i # 1 => i - 1 \in DOMAIN compressionQueue'
                    /\ compressionQueue'[i - 1] = compressionQueue[i]
  BY FetchEffect
<1>2. /\ uncompressed' \in [Blocks -> Block] /\ compressed' \in [Blocks -> CompressedBlock]
      /\ \A c \in Blocks : /\ uncompressed'[c].id = uncompressed[c].id
                           /\ uncompressed'[c].dataSize = uncompressed[c].dataSize
                           /\ uncompressed'[c].dataAlloc = uncompressed[c].dataAlloc
                           /\ uncompressed'[c].full = uncompressed[c].full
                           /\ compressed'[c].id = compressed[c].id
                           /\ compressed'[c].full = compressed[c].full
                           /\ compressed[c].compressing => compressed'[c].compressing
  BY FetchEffect
<1>3. /\ held' \in [Threads -> Blocks \cup {NoBlock}] /\ held'[t] = b
      /\ compressor' \in [Threads -> CompressorPlaces]
      /\ waitsForWriteDone' \in [Threads -> Blocks \cup {NoBlock}]
      /\ \A u \in Threads \ {t} : /\ held'[u] = held[u] /\ compressor'[u] = compressor[u]
                                  /\ waitsForWriteDone'[u] = waitsForWriteDone[u]
      /\ recorder' = recorder /\ writer' = writer
  BY FetchEffect
<1>4. \/ /\ ~compressed[b].full /\ compressed'[b].compressing /\ compressor'[t] = "compress"
         /\ waitsForWriteDone'[t] = waitsForWriteDone[t]
      \/ compressor'[t] = "waitWrite" /\ waitsForWriteDone'[t] = b
  BY FetchEffect
<1>5. UNCHANGED <<stopThreads, recordedBlockId, size, currentRecordBlock, accepted, blockIndex,
                  ready, writtenBlockId, file>>
  BY DEF FetchBlock, CompressVars
<1>6. TypeInv'
  <2>1. TypeOK'
    BY <1>0, <1>1, <1>2, <1>3, <1>5 DEF TypeOK, CompressorPlaces
  <2>2. RecorderLocated'
    BY <1>0, <1>3, <1>5 DEF TypeInv, RecorderLocated
  <2>. QED
    BY <2>1, <2>2 DEF TypeInv
<1>7. compressor[t] = "fetch" /\ waitsForWriteDone[t] = NoBlock
  BY DEF FetchBlock, OwnerInv, WaitSound
<1>8. /\ uncompressed[b].full /\ \A u \in Threads : held[u] # b
      /\ \A i \in DOMAIN compressionQueue : i # 1 => compressionQueue[i] # b
  BY <1>1 DEF OwnerInv, QueueExclusive
<1>9. /\ Working(t)' /\ ~Working(t)
      /\ \A u \in Threads \ {t} : Working(u)' <=> Working(u)
      /\ \A u \in Threads : Working(u) => held[u] \in Blocks
  BY <1>0, <1>3, <1>4, <1>7 DEF Working, OwnerInv, HeldExclusive, TypeOK
<1>. HIDE DEF b
<1>10. QueueExclusive'
  <2>. SUFFICES ASSUME NEW i \in DOMAIN compressionQueue'
                PROVE  /\ uncompressed'[compressionQueue'[i]].full
                       /\ \A j \in DOMAIN compressionQueue' :
                            compressionQueue'[i] = compressionQueue'[j] => i = j
                       /\ \A u \in Threads : held'[u] # compressionQueue'[i]
    BY DEF QueueExclusive
  <2>1. /\ i \in Nat /\ i + 1 \in DOMAIN compressionQueue
        /\ compressionQueue'[i] = compressionQueue[i + 1]
        /\ compressionQueue[i + 1] \in Blocks \ {b}
    BY <1>1, <1>8
  <2>2. uncompressed'[compressionQueue'[i]].full
    BY <2>1, <1>2 DEF OwnerInv, QueueExclusive
  <2>3. ASSUME NEW j \in DOMAIN compressionQueue', compressionQueue'[i] = compressionQueue'[j]
        PROVE  i = j
    <3>1. /\ j \in Nat /\ j + 1 \in DOMAIN compressionQueue
          /\ compressionQueue[i + 1] = compressionQueue[j + 1]
      BY <2>1, <2>3, <1>1
    <3>2. i + 1 = j + 1
      BY <2>1, <3>1 DEF OwnerInv, QueueExclusive
    <3>. QED
      BY <2>1, <3>1, <3>2
  <2>4. ASSUME NEW u \in Threads
        PROVE  held'[u] # compressionQueue'[i]
    BY <2>1, <1>3 DEF OwnerInv, QueueExclusive
  <2>. QED
    BY <2>2, <2>3, <2>4
<1>11. HeldExclusive'
  <2>. SUFFICES ASSUME NEW u \in Threads
                PROVE  /\ (held'[u] # NoBlock) <=> Working(u)'
                       /\ Working(u)' => /\ uncompressed'[held'[u]].full
                                         /\ \A v \in Threads : held'[v] = held'[u] => v = u
    BY DEF HeldExclusive
  <2>1. CASE u = t
    <3>1. held'[u] = b /\ uncompressed'[b].full /\ b # NoBlock
      BY <2>1, <1>1, <1>2, <1>3, <1>8, BlocksType
    <3>2. \A v \in Threads : held'[v] = b => v = u
      BY <2>1, <1>3, <1>8
    <3>. QED
      BY <2>1, <3>1, <3>2, <1>9
  <2>2. CASE u # t
    <3>1. held'[u] = held[u] /\ (Working(u)' <=> Working(u))
      BY <2>2, <1>3, <1>9
    <3>2. (held[u] # NoBlock) <=> Working(u)
      BY DEF OwnerInv, HeldExclusive
    <3>3. ASSUME Working(u)
          PROVE  /\ uncompressed'[held[u]].full
                 /\ \A v \in Threads : held'[v] = held[u] => v = u
      <4>1. held[u] \in Blocks /\ uncompressed[held[u]].full
        BY <3>3, <1>9 DEF OwnerInv, HeldExclusive
      <4>2. ASSUME NEW v \in Threads, held'[v] = held[u]
            PROVE  v = u
        <5>1. v # t
          BY <4>2, <1>3, <1>8
        <5>. QED
          BY <5>1, <4>2, <3>3, <1>3 DEF OwnerInv, HeldExclusive
      <4>. QED
        BY <4>1, <4>2, <1>2
    <3>. QED
      BY <3>1, <3>2, <3>3
  <2>. QED
    BY <2>1, <2>2
<1>12. FullOwned'
  <2>. SUFFICES ASSUME NEW c \in Blocks, uncompressed'[c].full
                PROVE  \/ \E i \in DOMAIN compressionQueue' : compressionQueue'[i] = c
                       \/ \E u \in Threads : held'[u] = c
    BY DEF FullOwned
  <2>1. uncompressed[c].full
    BY <1>2
  <2>2. CASE c = b
    BY <2>2, <1>3
  <2>3. ASSUME NEW i \in DOMAIN compressionQueue, compressionQueue[i] = c, c # b
        PROVE  \E j \in DOMAIN compressionQueue' : compressionQueue'[j] = c
    <3>1. i # 1
      BY <2>3, <1>1
    <3>. QED
      BY <2>3, <3>1, <1>1
  <2>4. ASSUME NEW u \in Threads, held[u] = c, c # b
        PROVE  \E v \in Threads : held'[v] = c
    <3>1. u # t
      BY <2>4, <1>9, BlocksType DEF OwnerInv, HeldExclusive
    <3>. QED
      BY <2>4, <3>1, <1>3
  <2>. QED
    BY <2>1, <2>2, <2>3, <2>4 DEF OwnerInv, FullOwned
<1>13. CurrentFree'
  BY <1>0, <1>2, <1>3, <1>5 DEF OwnerInv, CurrentFree, TypeOK
<1>14. WaitSound'
  <2>. SUFFICES ASSUME NEW u \in Threads
                PROVE  /\ waitsForWriteDone'[u] # NoBlock
                            => compressor'[u] = "waitWrite" /\ waitsForWriteDone'[u] = held'[u]
                       /\ compressor'[u] = "waitWrite" /\ waitsForWriteDone'[u] = NoBlock
                            => ~compressed'[held'[u]].full
                       /\ compressor'[u] = "compress"
                            => ~compressed'[held'[u]].full /\ compressed'[held'[u]].compressing
    BY DEF WaitSound
  <2>1. CASE u = t
    BY <2>1, <1>1, <1>2, <1>3, <1>4, <1>7, BlocksType
  <2>2. CASE u # t
    <3>1. compressor[u] \in {"waitWrite", "compress"} => held[u] \in Blocks
      BY <1>9 DEF Working
    <3>. QED
      BY <2>2, <3>1, <1>2, <1>3 DEF OwnerInv, WaitSound
  <2>. QED
    BY <2>1, <2>2
<1>15. WriterSound'
  BY <1>0, <1>2, <1>3, <1>5 DEF OwnerInv, WriterSound, IsNext, TypeOK
<1>16. IdsPending'
  BY <1>2, <1>5 DEF OwnerInv, IdsPending, Pending
<1>17. DataFits'
  BY <1>2 DEF OwnerInv, DataFits
<1>. QED
  BY <1>6, <1>10, <1>11, <1>12, <1>13, <1>14, <1>15, <1>16, <1>17 DEF OwnerInv

LEMMA ResumeOwner == ASSUME OwnerInv, NEW t \in Threads, ResumeCompression(t) PROVE OwnerInv'
<1>0. TypeInv /\ TypeOK
  BY DEF OwnerInv, TypeInv
<1>1. /\ held[t] \in Blocks /\ compressed' \in [Blocks -> CompressedBlock]
      /\ compressed'[held[t]].compressing = TRUE
      /\ \A c \in Blocks : /\ compressed'[c].id = compressed[c].id
                           /\ compressed'[c].full = compressed[c].full
                           /\ compressed[c].compressing => compressed'[c].compressing
      /\ compressor' \in [Threads -> CompressorPlaces] /\ compressor'[t] = "compress"
      /\ \A u \in Threads \ {t} : compressor'[u] = compressor[u]
      /\ recorder' = recorder /\ writer' = writer
  BY ResumeEffect
<1>2. /\ UNCHANGED <<stopThreads, recordedBlockId, size, currentRecordBlock, accepted, blockIndex,
                     ready, writtenBlockId, file, uncompressed, compressionQueue, held,
                     waitsForWriteDone>>
      /\ compressor[t] = "waitWrite" /\ waitsForWriteDone[t] = NoBlock
  BY DEF ResumeCompression, CompressVars
<1>3. TypeInv'
  <2>1. TypeOK'
    BY <1>0, <1>1, <1>2 DEF TypeOK, CompressorPlaces
  <2>2. RecorderLocated'
    BY <1>0, <1>1, <1>2 DEF TypeInv, RecorderLocated
  <2>. QED
    BY <2>1, <2>2 DEF TypeInv
<1>4. \A u \in Threads : /\ Working(u)' <=> Working(u)
                         /\ Working(u) => held[u] \in Blocks
  BY <1>0, <1>1, <1>2 DEF Working, OwnerInv, HeldExclusive, TypeOK
<1>5. QueueExclusive' /\ HeldExclusive' /\ FullOwned'
  BY <1>2, <1>4 DEF OwnerInv, QueueExclusive, HeldExclusive, FullOwned
<1>6. CurrentFree' /\ DataFits'
  BY <1>1, <1>2 DEF OwnerInv, CurrentFree, DataFits
<1>7. WaitSound'
  <2>. SUFFICES ASSUME NEW u \in Threads
                PROVE  /\ waitsForWriteDone[u] # NoBlock
                            => compressor'[u] = "waitWrite" /\ waitsForWriteDone[u] = held[u]
                       /\ compressor'[u] = "waitWrite" /\ waitsForWriteDone[u] = NoBlock
                            => ~compressed'[held[u]].full
                       /\ compressor'[u] = "compress"
                            => ~compressed'[held[u]].full /\ compressed'[held[u]].compressing
    BY <1>2 DEF WaitSound
  <2>1. CASE u = t
    BY <2>1, <1>1, <1>2 DEF OwnerInv, WaitSound
  <2>2. CASE u # t
    BY <2>2, <1>1, <1>4 DEF OwnerInv, WaitSound, Working
  <2>. QED
    BY <2>1, <2>2
<1>8. WriterSound'
  BY <1>0, <1>1, <1>2 DEF OwnerInv, WriterSound, IsNext, TypeOK
<1>9. IdsPending'
  BY <1>1, <1>2 DEF OwnerInv, IdsPending, Pending
<1>. QED
  BY <1>3, <1>5, <1>6, <1>7, <1>8, <1>9 DEF OwnerInv

LEMMA CompressOwner == ASSUME OwnerInv, NEW t \in Threads, CompressBlock(t) PROVE OwnerInv'
<1>. DEFINE b == held[t]
<1>0. TypeInv /\ TypeOK
  BY DEF OwnerInv, TypeInv
<1>1. /\ b \in Blocks /\ uncompressed' \in [Blocks -> Block]
      /\ uncompressed'[b].dataSize = 0 /\ uncompressed'[b].full = FALSE
      /\ \A c \in Blocks \ {b} : uncompressed'[c] = uncompressed[c]
      /\ compressed' \in [Blocks -> CompressedBlock]
      /\ compressed'[b].id = uncompressed[b].id /\ compressed'[b].full = TRUE
      /\ \A c \in Blocks \ {b} : compressed'[c] = compressed[c]
  BY CompressEffect
<1>2. /\ held' \in [Threads -> Blocks \cup {NoBlock}] /\ held'[t] = NoBlock
      /\ compressor' \in [Threads -> CompressorPlaces] /\ compressor'[t] = "notify"
      /\ \A u \in Threads \ {t} : held'[u] = held[u] /\ compressor'[u] = compressor[u]
  BY CompressEffect
<1>3. /\ UNCHANGED <<stopThreads, recordedBlockId, size, currentRecordBlock, accepted, blockIndex,
                     ready, writtenBlockId, file, compressionQueue, waitsForWriteDone,
                     recorder, writer>>
      /\ compressor[t] = "compress"
  BY DEF CompressBlock, CompressVars, GoTo
<1>4. TypeInv'
  <2>1. TypeOK'
    BY <1>0, <1>1, <1>2, <1>3 DEF TypeOK, CompressorPlaces
  <2>2. RecorderLocated'
    BY <1>0, <1>3 DEF TypeInv, RecorderLocated
  <2>. QED
    BY <2>1, <2>2 DEF TypeInv
<1>5. /\ Working(t) /\ ~Working(t)'
      /\ \A u \in Threads \ {t} : Working(u)' <=> Working(u)
  BY <1>2, <1>3 DEF Working
<1>6. uncompressed[b].full /\ ~compressed[b].full /\ b # NoBlock
  BY <1>3, <1>5 DEF OwnerInv, HeldExclusive, WaitSound
<1>7. ASSUME NEW u \in Threads \ {t}, held[u] # NoBlock
      PROVE  held[u] \in Blocks \ {b}
  BY <1>0, <1>5, <1>6, <1>7 DEF OwnerInv, HeldExclusive, TypeOK
<1>8. QueueExclusive'
  <2>. SUFFICES ASSUME NEW i \in DOMAIN compressionQueue
                PROVE  /\ uncompressed'[compressionQueue[i]].full
                       /\ \A j \in DOMAIN compressionQueue :
                            compressionQueue[i] = compressionQueue[j] => i = j
                       /\ \A u \in Threads : held'[u] # compressionQueue[i]
    BY <1>3 DEF QueueExclusive
  <2>1. compressionQueue[i] \in Blocks \ {b}
    BY <1>0 DEF TypeOK, OwnerInv, QueueExclusive
  <2>2. \A u \in Threads : held'[u] # compressionQueue[i]
    BY <2>1, <1>2, BlocksType DEF OwnerInv, QueueExclusive
  <2>. QED
    BY <2>1, <2>2, <1>1 DEF OwnerInv, QueueExclusive
<1>9. HeldExclusive'
  <2>. SUFFICES ASSUME NEW u \in Threads
                PROVE  /\ (held'[u] # NoBlock) <=> Working(u)'
                       /\ Working(u)' => /\ uncompressed'[held'[u]].full
                                         /\ \A v \in Threads : held'[v] = held'[u] => v = u
    BY DEF HeldExclusive
  <2>1. CASE u = t
    BY <2>1, <1>2, <1>5
  <2>2. CASE u # t
    <3>1. held'[u] = held[u] /\ (Working(u)' <=> Working(u))
      BY <2>2, <1>2, <1>5
    <3>2. (held[u] # NoBlock) <=> Working(u)
      BY DEF OwnerInv, HeldExclusive
    <3>3. ASSUME Working(u)
          PROVE  /\ uncompressed'[held[u]].full
                 /\ \A v \in Threads : held'[v] = held[u] => v = u
      <4>1. held[u] \in Blocks \ {b} /\ uncompressed[held[u]].full
        BY <2>2, <3>2, <3>3, <1>7 DEF OwnerInv, HeldExclusive
      <4>2. ASSUME NEW v \in Threads, held'[v] = held[u]
            PROVE  v = u
        <5>1. v # t
          BY <4>1, <4>2, <1>2, BlocksType
        <5>. QED
          BY <5>1, <4>2, <3>3, <1>2 DEF OwnerInv, HeldExclusive
      <4>. QED
        BY <4>1, <4>2, <1>1
    <3>. QED
      BY <3>1, <3>2, <3>3
  <2>. QED
    BY <2>1, <2>2
<1>10. FullOwned'
  <2>. SUFFICES ASSUME NEW c \in Blocks, uncompressed'[c].full
                PROVE  \/ \E i \in DOMAIN compressionQueue : compressionQueue[i] = c
                       \/ \E u \in Threads : held'[u] = c
    BY <1>3 DEF FullOwned
  <2>1. c # b /\ uncompressed[c].full
    BY <1>1
  <2>. QED
    BY <2>1, <1>2 DEF OwnerInv, FullOwned
<1>11. CurrentFree'
  <2>1. recorder \in {"copy", "publish"} => currentRecordBlock \in Blocks \ {b}
    BY <1>0, <1>6 DEF OwnerInv, CurrentFree, TypeOK
  <2>. QED
    BY <2>1, <1>1, <1>3 DEF OwnerInv, CurrentFree
<1>12. WaitSound'
  <2>. SUFFICES ASSUME NEW u \in Threads
                PROVE  /\ waitsForWriteDone[u] # NoBlock
                            => compressor'[u] = "waitWrite" /\ waitsForWriteDone[u] = held'[u]
                       /\ compressor'[u] = "waitWrite" /\ waitsForWriteDone[u] = NoBlock
                            => ~compressed'[held'[u]].full
                       /\ compressor'[u] = "compress"
                            => ~compressed'[held'[u]].full /\ compressed'[held'[u]].compressing
    BY <1>3 DEF WaitSound
  <2>1. CASE u = t
    BY <2>1, <1>2, <1>3 DEF OwnerInv, WaitSound
  <2>2. CASE u # t
    <3>1. compressor[u] \in {"waitWrite", "compress"} => held[u] \in Blocks \ {b}
      BY <2>2, <1>7 DEF Working, OwnerInv, HeldExclusive
    <3>. QED
      BY <2>2, <3>1, <1>1, <1>2 DEF OwnerInv, WaitSound
  <2>. QED
    BY <2>1, <2>2
<1>13. WriterSound'
  <2>1. writer = "write" => blockIndex \in Blocks \ {b}
    BY <1>0, <1>6 DEF OwnerInv, WriterSound, IsNext, TypeOK
  <2>. QED
    BY <2>1, <1>1, <1>3 DEF OwnerInv, WriterSound, IsNext
<1>. HIDE DEF b
<1>14. IdsPending'
  <2>1. ASSUME NEW c \in Blocks, uncompressed'[c].full
        PROVE  /\ uncompressed'[c].id \in Pending
               /\ \A d \in Blocks : uncompressed'[d].full /\ uncompressed'[d].id = uncompressed'[c].id
                    => d = c
               /\ \A d \in Blocks : compressed'[d].full => compressed'[d].id # uncompressed'[c].id
    <3>1. c # b /\ uncompressed[c].full /\ uncompressed'[c].id = uncompressed[c].id
      BY <2>1, <1>1
    <3>2. /\ uncompressed[c].id \in Pending
          /\ \A d \in Blocks : uncompressed[d].full /\ uncompressed[d].id = uncompressed[c].id => d = c
          /\ \A d \in Blocks : compressed[d].full => compressed[d].id # uncompressed[c].id
      BY <3>1 DEF OwnerInv, IdsPending
    <3>3. ASSUME NEW d \in Blocks, uncompressed'[d].full, uncompressed'[d].id = uncompressed'[c].id
          PROVE  d = c
      BY <3>1, <3>2, <3>3, <1>1
    <3>4. ASSUME NEW d \in Blocks, compressed'[d].full
          PROVE  compressed'[d].id # uncompressed'[c].id
      <4>1. CASE d = b
        BY <4>1, <3>1, <3>2, <1>1, <1>6
      <4>2. CASE d # b
        BY <4>2, <3>1, <3>2, <3>4, <1>1
      <4>. QED
        BY <4>1, <4>2
    <3>. QED
      BY <3>1, <3>2, <3>3, <3>4
  <2>2. ASSUME NEW c \in Blocks, compressed'[c].full
        PROVE  /\ compressed'[c].id \in Pending
               /\ \A d \in Blocks : compressed'[d].full /\ compressed'[d].id = compressed'[c].id => d = c
    <3>1. CASE c = b
      BY <3>1, <1>1, <1>6 DEF OwnerInv, IdsPending
    <3>2. CASE c # b
      <4>1. compressed[c].full /\ compressed'[c].id = compressed[c].id
        BY <2>2, <3>2, <1>1
      <4>2. compressed[c].id # uncompressed[b].id
        BY <4>1, <1>1, <1>6 DEF OwnerInv, IdsPending
      <4>. QED
        BY <3>2, <4>1, <4>2, <1>1 DEF OwnerInv, IdsPending
    <3>. QED
      BY <3>1, <3>2
  <2>3. writtenBlockId' <= recordedBlockId' /\ Pending' = Pending
    BY <1>3 DEF OwnerInv, IdsPending, Pending
  <2>. QED
    BY <2>1, <2>2, <2>3 DEF IdsPending
<1>15. DataFits'
  <2>1. uncompressed'[b].dataAlloc \in Nat
    BY <1>1 DEF Block
  <2>. QED
    BY <2>1, <1>1 DEF OwnerInv, DataFits
<1>. QED
  BY <1>4, <1>8, <1>9, <1>10, <1>11, <1>12, <1>13, <1>14, <1>15 DEF OwnerInv

LEMMA NextBlockEffect ==
  ASSUME TypeOK, NEW isReady \in BOOLEAN, NextBlock(isReady)
  PROVE  /\ blockIndex' \in Blocks /\ ready' \in BOOLEAN
         /\ writer' \in {"scan", "wait", "exited"}
<1>1. blockIndex \in Blocks /\ ready \in BOOLEAN
  BY DEF TypeOK
<1>2. ~AtLastBlock => blockIndex + 1 \in Blocks
  BY <1>1, BlocksType DEF AtLastBlock, Blocks
<1>3. CASE stopThreads /\ writtenBlockId' = recordedBlockId
  BY <1>1, <1>3 DEF NextBlock
<1>4. CASE ~(stopThreads /\ writtenBlockId' = recordedBlockId)
  <2>1. blockIndex' \in Blocks
    BY <1>2, <1>4, BlocksType DEF NextBlock
  <2>2. ready' \in BOOLEAN
    BY <1>4 DEF NextBlock
  <2>3. writer' \in {"scan", "wait", "exited"}
    BY <1>4 DEF NextBlock
  <2>. QED
    BY <2>1, <2>2, <2>3
<1>. QED
  BY <1>3, <1>4

LEMMA WriteOwner == ASSUME OwnerInv, WriteBlock PROVE OwnerInv'
<1>. DEFINE b == blockIndex
<1>0. TypeInv /\ TypeOK
  BY DEF OwnerInv, TypeInv
<1>1. /\ b \in Blocks /\ writtenBlockId' = writtenBlockId + 1
      /\ compressed' \in [Blocks -> CompressedBlock] /\ compressed'[b].full = FALSE
      /\ \A c \in Blocks \ {b} : compressed'[c] = compressed[c]
      /\ file' \in Seq(Commands)
      /\ waitsForWriteDone' \in [Threads -> Blocks \cup {NoBlock}]
      /\ \A t \in Threads : \/ waitsForWriteDone'[t] = waitsForWriteDone[t]
                            \/ waitsForWriteDone[t] = b /\ waitsForWriteDone'[t] = NoBlock
  BY <1>0, WriteEffect
<1>2. UNCHANGED <<stopThreads, recordedBlockId, uncompressed, compressionQueue, recorder, size,
                  currentRecordBlock, accepted, compressor, held>>
  BY DEF WriteBlock, WriteVars, recordVars
<1>3. /\ blockIndex' \in Blocks /\ ready' \in BOOLEAN
      /\ writer' \in {"scan", "wait", "exited"}
  BY <1>0, NextBlockEffect DEF WriteBlock
<1>4. compressed[b].full /\ compressed[b].id = writtenBlockId + 1
  BY DEF OwnerInv, WriterSound, IsNext, WriteBlock
<1>5. writtenBlockId \in Nat /\ recordedBlockId \in Nat /\ writtenBlockId + 1 \in Pending
  BY <1>0, <1>1, <1>4 DEF OwnerInv, IdsPending, TypeOK
<1>6. TypeInv'
  <2>1. writtenBlockId' \in Nat
    BY <1>1, <1>5
  <2>2. TypeOK'
    BY <1>0, <1>1, <1>2, <1>3, <2>1 DEF TypeOK
  <2>3. RecorderLocated'
    BY <1>0, <1>2 DEF TypeInv, RecorderLocated
  <2>. QED
    BY <2>2, <2>3 DEF TypeInv
<1>7. QueueExclusive' /\ HeldExclusive' /\ FullOwned'
  BY <1>2 DEF OwnerInv, QueueExclusive, HeldExclusive, Working, FullOwned
<1>8. CurrentFree' /\ DataFits'
  BY <1>2 DEF OwnerInv, CurrentFree, DataFits
<1>9. WriterSound'
  BY <1>3 DEF WriterSound
<1>. HIDE DEF b
<1>10. WaitSound'
  <2>. SUFFICES ASSUME NEW t \in Threads
                PROVE  /\ waitsForWriteDone'[t] # NoBlock
                            => compressor[t] = "waitWrite" /\ waitsForWriteDone'[t] = held[t]
                       /\ compressor[t] = "waitWrite" /\ waitsForWriteDone'[t] = NoBlock
                            => ~compressed'[held[t]].full
                       /\ compressor[t] = "compress"
                            => ~compressed'[held[t]].full /\ compressed'[held[t]].compressing
    BY <1>2 DEF WaitSound
  <2>1. compressor[t] \in {"waitWrite", "compress"} => held[t] \in Blocks
    BY <1>0 DEF OwnerInv, HeldExclusive, Working, TypeOK
  <2>2. waitsForWriteDone'[t] # NoBlock
          => compressor[t] = "waitWrite" /\ waitsForWriteDone'[t] = held[t]
    BY <1>1 DEF OwnerInv, WaitSound
  <2>3. ASSUME compressor[t] = "waitWrite", waitsForWriteDone'[t] = NoBlock
        PROVE  ~compressed'[held[t]].full
    <3>1. CASE waitsForWriteDone[t] = NoBlock
      <4>1. ~compressed[held[t]].full /\ held[t] \in Blocks
        BY <2>1, <2>3, <3>1 DEF OwnerInv, WaitSound
      <4>. QED
        BY <4>1, <1>1, <1>4
    <3>2. CASE waitsForWriteDone[t] # NoBlock
      <4>1. waitsForWriteDone[t] = b /\ waitsForWriteDone[t] = held[t]
        BY <2>3, <3>2, <1>1 DEF OwnerInv, WaitSound
      <4>. QED
        BY <4>1, <1>1
    <3>. QED
      BY <3>1, <3>2
  <2>4. ASSUME compressor[t] = "compress"
        PROVE  ~compressed'[held[t]].full /\ compressed'[held[t]].compressing
    <3>1. ~compressed[held[t]].full /\ compressed[held[t]].compressing /\ held[t] \in Blocks
      BY <2>1, <2>4 DEF OwnerInv, WaitSound
    <3>. QED
      BY <3>1, <1>1, <1>4
  <2>. QED
    BY <2>2, <2>3, <2>4
<1>11. IdsPending'
  <2>1. /\ writtenBlockId' <= recordedBlockId'
        /\ \A n \in Pending : n # writtenBlockId + 1 => n \in Pending'
    BY <1>1, <1>2, <1>5 DEF Pending
  <2>2. ASSUME NEW c \in Blocks, uncompressed[c].full
        PROVE  /\ uncompressed[c].id \in Pending'
               /\ \A d \in Blocks : uncompressed[d].full /\ uncompressed[d].id = uncompressed[c].id
                    => d = c
               /\ \A d \in Blocks : compressed'[d].full => compressed'[d].id # uncompressed[c].id
    <3>1. uncompressed[c].id \in Pending /\ uncompressed[c].id # writtenBlockId + 1
      BY <2>2, <1>1, <1>4 DEF OwnerInv, IdsPending
    <3>2. \A d \in Blocks : uncompressed[d].full /\ uncompressed[d].id = uncompressed[c].id => d = c
      BY <2>2 DEF OwnerInv, IdsPending
    <3>3. ASSUME NEW d \in Blocks, compressed'[d].full
          PROVE  compressed'[d].id # uncompressed[c].id
      BY <2>2, <3>3, <1>1 DEF OwnerInv, IdsPending
    <3>. QED
      BY <3>1, <3>2, <3>3, <2>1
  <2>3. ASSUME NEW c \in Blocks, compressed'[c].full
        PROVE  /\ compressed'[c].id \in Pending'
               /\ \A d \in Blocks : compressed'[d].full /\ compressed'[d].id = compressed'[c].id => d = c
    <3>1. c # b /\ compressed'[c] = compressed[c]
      BY <2>3, <1>1
    <3>2. compressed[c].id \in Pending /\ compressed[c].id # writtenBlockId + 1
      BY <2>3, <3>1, <1>1, <1>4 DEF OwnerInv, IdsPending
    <3>3. ASSUME NEW d \in Blocks, compressed'[d].full, compressed'[d].id = compressed'[c].id
          PROVE  d = c
      <4>1. d # b /\ compressed'[d] = compressed[d]
        BY <3>3, <1>1
      <4>. QED
        BY <2>3, <3>1, <3>3, <4>1 DEF OwnerInv, IdsPending
    <3>. QED
      BY <3>1, <3>2, <3>3, <2>1
  <2>. QED
    BY <2>1, <2>2, <2>3, <1>2 DEF IdsPending
<1>. QED
  BY <1>6, <1>7, <1>8, <1>9, <1>10, <1>11 DEF OwnerInv

(***************************************************************************)
(* The steps that touch no block.                                          *)
(***************************************************************************)
LEMMA WritingTypes ==
  ASSUME OwnerInv, StartWrite \/ PassBlock
  PROVE  /\ OwnerInv'
         /\ UNCHANGED <<stopThreads, recordedBlockId, writtenBlockId, uncompressed, compressed,
                        compressionQueue, recorder, size, currentRecordBlock, accepted,
                        compressor, held, waitsForWriteDone, file>>
<1>0. TypeInv /\ TypeOK
  BY DEF OwnerInv, TypeInv
<1>1. UNCHANGED <<stopThreads, recordedBlockId, writtenBlockId, uncompressed, compressed,
                  compressionQueue, recorder, size, currentRecordBlock, accepted, compressor,
                  held, waitsForWriteDone, file>>
  BY DEF StartWrite, PassBlock, WriteVars, recordVars
<1>2. /\ blockIndex' \in Blocks /\ ready' \in BOOLEAN
      /\ writer' \in {"scan", "wait", "exited"}
         \/ (writer' = "write" /\ IsNext(blockIndex) /\ blockIndex' = blockIndex)
  <2>1. CASE StartWrite
    BY <2>1, <1>0 DEF StartWrite, TypeOK
  <2>2. CASE PassBlock
    <3>1. compressed[blockIndex].full \in BOOLEAN /\ ready \in BOOLEAN
      BY <1>0 DEF TypeOK, CompressedBlock
    <3>2. PICK isReady \in BOOLEAN : isReady = (ready \/ compressed[blockIndex].full)
      BY Zenon
    <3>3. NextBlock(isReady)
      BY <2>2, <3>2 DEF PassBlock
    <3>. QED
      BY <3>3, <1>0, NextBlockEffect
  <2>. QED
    BY <2>1, <2>2
<1>3. TypeInv'
  <2>1. TypeOK'
    BY <1>0, <1>1, <1>2 DEF TypeOK
  <2>2. RecorderLocated'
    BY <1>0, <1>1 DEF TypeInv, RecorderLocated
  <2>. QED
    BY <2>1, <2>2 DEF TypeInv
<1>4. HoldersKept /\ CurrentFree' /\ WriterSound'
  BY <1>1, <1>2 DEF HoldersKept, OwnerInv, CurrentFree, WriterSound, IsNext
<1>. QED
  BY <1>1, <1>3, <1>4, QuietOwner

LEMMA MovingOwner ==
  ASSUME OwnerInv,
         \/ CloseNotify \/ CloseJoinWriter \/ CloseJoinThreads \/ WakeSpuriously
         \/ \E t \in Threads : FetchNothing(t) \/ NotifyCompressed(t)
         \/ UNCHANGED vars
  PROVE  /\ OwnerInv'
         /\ UNCHANGED <<stopThreads, recordedBlockId, writtenBlockId, uncompressed, compressed,
                        compressionQueue, size, currentRecordBlock, accepted, held,
                        waitsForWriteDone, blockIndex, ready, file>>
<1>0. TypeInv /\ TypeOK /\ compressor \in [Threads -> CompressorPlaces]
  BY DEF OwnerInv, TypeInv, TypeOK, CompressorPlaces
<1>1. UNCHANGED <<stopThreads, recordedBlockId, writtenBlockId, uncompressed, compressed,
                  compressionQueue, size, currentRecordBlock, accepted, held,
                  waitsForWriteDone, blockIndex, ready, file>>
  BY DEF CloseNotify, CloseJoinWriter, CloseJoinThreads, WakeSpuriously, FetchNothing,
         NotifyCompressed, vars, CloseVars, CompressVars, recordVars, compressVars, writeVars
<1>2. /\ compressor' \in [Threads -> CompressorPlaces]
      /\ \A t \in Threads : /\ (compressor'[t] = "waitWrite") <=> (compressor[t] = "waitWrite")
                            /\ (compressor'[t] = "compress") <=> (compressor[t] = "compress")
  <2>1. CASE CloseNotify \/ CloseJoinThreads \/ UNCHANGED vars
    BY <2>1, <1>0 DEF CloseNotify, CloseJoinThreads, vars, compressVars
  <2>2. CASE CloseJoinWriter
    BY <2>2, <1>0 DEF CloseJoinWriter, AllRecordWaitersWoken, CompressorPlaces
  <2>3. CASE WakeSpuriously
    BY <2>3, <1>0 DEF WakeSpuriously, GoTo, CompressorPlaces
  <2>4. ASSUME NEW t \in Threads, FetchNothing(t) \/ NotifyCompressed(t)
        PROVE  /\ compressor' \in [Threads -> CompressorPlaces]
               /\ \A u \in Threads :
                    /\ (compressor'[u] = "waitWrite") <=> (compressor[u] = "waitWrite")
                    /\ (compressor'[u] = "compress") <=> (compressor[u] = "compress")
    BY <2>4, <1>0 DEF FetchNothing, NotifyCompressed, GoTo, Leave, CompressorPlaces
  <2>. QED
    BY <2>1, <2>2, <2>3, <2>4
<1>3. /\ \/ recorder' = recorder
         \/ recorder = "wait" /\ recorder' = "search"
         \/ /\ recorder \in {"notify", "joinWriter", "joinThreads"}
            /\ recorder' \in {"joinWriter", "joinThreads", "closed"}
      /\ writer' = writer \/ writer' = "scan"
  BY DEF CloseNotify, CloseJoinWriter, CloseJoinThreads, WakeSpuriously, FetchNothing,
         NotifyCompressed, vars, recordVars, writeVars, GoTo, Leave, NotifyCompressionDone,
         RecorderWoken, WriterWoken
<1>4. TypeInv'
  <2>1. TypeOK'
    BY <1>0, <1>1, <1>2, <1>3 DEF TypeOK, CompressorPlaces
  <2>2. RecorderLocated'
    BY <1>0, <1>1, <1>3 DEF TypeInv, RecorderLocated
  <2>. QED
    BY <2>1, <2>2 DEF TypeInv
<1>5. HoldersKept /\ CurrentFree' /\ WriterSound'
  BY <1>1, <1>2, <1>3 DEF HoldersKept, OwnerInv, CurrentFree, WriterSound, IsNext
<1>. QED
  BY <1>1, <1>4, <1>5, QuietOwner

LEMMA OwnerStep == OwnerInv /\ [Next]_vars => OwnerInv'
<1>. SUFFICES ASSUME OwnerInv, [Next]_vars PROVE OwnerInv'
  OBVIOUS
<1>1. CASE RecordCommand \/ CloseStream \/ ResumeSearch
  BY <1>1, AskOwner
<1>2. CASE CopyCommand \/ Publish
  BY <1>2, CopyOwner, PublishCurrentOwner
<1>3. CASE CloseNotify \/ CloseJoinWriter \/ CloseJoinThreads \/ WakeSpuriously
           \/ UNCHANGED vars
  BY <1>3, MovingOwner
<1>4. ASSUME NEW t \in Threads, CompressorStep(t)
      PROVE  OwnerInv'
  BY <1>4, FetchOwner, ResumeOwner, CompressOwner, MovingOwner DEF CompressorStep
<1>5. CASE WriterStep
  BY <1>5, WritingTypes, WriteOwner DEF WriterStep
<1>. QED
  BY <1>1, <1>2, <1>3, <1>4, <1>5 DEF Next, RecorderStep, Terminated

LEMMA OwnerAlways == Spec => []OwnerInv
BY OwnerInit, OwnerStep, PTL DEF Spec

(***************************************************************************)
(* Every variable of the writer keeps its type, for any threads, sizes and *)
(* bounds: in particular the file only holds recorded commands.            *)
(***************************************************************************)
THEOREM WriterTypeCorrect == Spec => []TypeOK
<1>1. OwnerInv => TypeOK
  BY DEF OwnerInv, TypeInv
<1>. QED
  BY <1>1, OwnerAlways, PTL

(***************************************************************************)
(* For any number of threads and blocks, a full block has one owner and    *)
(* any other block none: Record and the compression threads, which work on *)
(* blocks outside of the mutex, never work on the same one.                *)
(***************************************************************************)
THEOREM AlwaysOneOwner == Spec => []OneOwner
<1>1. ASSUME OwnerInv, NEW b \in Blocks
      PROVE  Cardinality(QueuePlaces(b)) + Cardinality(Holders(b))
               = IF uncompressed[b].full THEN 1 ELSE 0
  <2>. DEFINE places == QueuePlaces(b)
              holders == Holders(b)
  <2>0. /\ compressionQueue \in Seq(Blocks) /\ DOMAIN compressionQueue = 1..Len(compressionQueue)
        /\ b # NoBlock
    BY <1>1, BlocksType DEF OwnerInv, TypeInv, TypeOK
  <2>1. \A i, j \in places : i = j
    BY <1>1, <2>0 DEF OwnerInv, QueueExclusive, QueuePlaces
  <2>2. \A t, u \in holders : t = u
    BY <1>1, <2>0 DEF OwnerInv, HeldExclusive, Holders
  <2>3. places # {} => holders = {}
    BY <1>1, <2>0 DEF OwnerInv, QueueExclusive, QueuePlaces, Holders
  <2>4. uncompressed[b].full <=> (places # {} \/ holders # {})
    <3>1. uncompressed[b].full => places # {} \/ holders # {}
      BY <1>1, <2>0 DEF OwnerInv, FullOwned, QueuePlaces, Holders
    <3>2. places # {} => uncompressed[b].full
      BY <1>1, <2>0 DEF OwnerInv, QueueExclusive, QueuePlaces
    <3>3. holders # {} => uncompressed[b].full
      BY <1>1, <2>0 DEF OwnerInv, HeldExclusive, Holders
    <3>. QED
      BY <3>1, <3>2, <3>3
  <2>. HIDE DEF places, holders
  <2>5. places = {} \/ \E i : places = {i}
    BY <2>1
  <2>6. holders = {} \/ \E t : holders = {t}
    BY <2>2
  <2>7. Cardinality(places) = IF places = {} THEN 0 ELSE 1
    BY <2>5, FS_EmptySet, FS_Singleton
  <2>8. Cardinality(holders) = IF holders = {} THEN 0 ELSE 1
    BY <2>6, FS_EmptySet, FS_Singleton
  <2>9. Cardinality(places) + Cardinality(holders) = IF uncompressed[b].full THEN 1 ELSE 0
    <3>1. CASE places = {}
      BY <3>1, <2>4, <2>7, <2>8
    <3>2. CASE places # {}
      BY <3>2, <2>3, <2>4, <2>7, <2>8
    <3>. QED
      BY <3>1, <3>2
  <2>. QED
    BY <2>9 DEF places, holders
<1>2. OwnerInv => OneOwner
  BY <1>1 DEF OneOwner
<1>. QED
  BY <1>2, OwnerAlways, PTL

(***************************************************************************)
(* No thread compresses into a block that the writing thread still needs,  *)
(* although it does not look again after it waited.                        *)
(***************************************************************************)
THEOREM TargetAlwaysFree == Spec => []TargetIsFree
<1>1. ASSUME OwnerInv, NEW t \in Threads, compressor[t] = "compress"
      PROVE  /\ ~compressed[held[t]].full /\ compressed[held[t]].compressing
             /\ ~(writer = "write" /\ blockIndex = held[t])
  BY <1>1 DEF OwnerInv, WaitSound, WriterSound, IsNext
<1>2. OwnerInv => TargetIsFree
  BY <1>1 DEF TargetIsFree
<1>. QED
  BY <1>2, OwnerAlways, PTL

(***************************************************************************)
(* No compression thread ever leaves with a block in its hands: the exits  *)
(* of Compress after it took one from the queue are dead code.             *)
(***************************************************************************)
THEOREM BlocksNeverAbandoned == Spec => []NoBlockAbandoned
<1>1. OwnerInv => NoBlockAbandoned
  BY DEF OwnerInv, HeldExclusive, Working, NoBlockAbandoned
<1>. QED
  BY <1>1, OwnerAlways, PTL

(***************************************************************************)
(* Record never copies past the end of a block, whatever the sizes of the  *)
(* commands, of the first allocation and of the trigger.                   *)
(***************************************************************************)
THEOREM DataAlwaysFits == Spec => []DataFits
<1>1. OwnerInv => DataFits
  BY DEF OwnerInv
<1>. QED
  BY <1>1, OwnerAlways, PTL
-----------------------------------------------------------------------------
(***************************************************************************)
(* StreamWriter implements CommandFile, for any compression threads, any   *)
(* commands of any sizes and any block sizes: the commands reach the file  *)
(* in the order of the calls of Record, each once, and all of them before  *)
(* Close returns.                                                          *)
(***************************************************************************)

(***************************************************************************)
(* The blocks cut the commands into batches: block number n holds those    *)
(* after cut[n - 1] up to cut[n], and the block that is being filled those *)
(* after the last cut.                                                     *)
(***************************************************************************)
Batch(from, to) == [i \in 1 .. to - from |-> from + i]

\* No block holds commands that are not published.
Sealed ==
  stopThreads \/ recorder \in {"wait", "search"} \/ uncompressed[currentRecordBlock].full

Cuts(cut) ==
  /\ cut \in [0..recordedBlockId -> Nat] /\ cut[0] = 0
  /\ \A n \in 0..recordedBlockId : cut[n] <= accepted
  /\ \A n \in 1..recordedBlockId : cut[n - 1] <= cut[n]

BlocksHold(cut) ==
  \A b \in Blocks :
    /\ uncompressed[b].full
         => uncompressed[b].data = Batch(cut[uncompressed[b].id - 1], cut[uncompressed[b].id])
    /\ compressed[b].full
         => compressed[b].data = Batch(cut[compressed[b].id - 1], cut[compressed[b].id])

\* Of the other blocks, only the given one may hold commands.
FillsOnly(cut, b) ==
  \A c \in Blocks : ~uncompressed[c].full =>
    uncompressed[c].data = IF c = b THEN Batch(cut[recordedBlockId], accepted) ELSE <<>>

CutInto(cut) ==
  /\ Cuts(cut) /\ BlocksHold(cut) /\ FillsOnly(cut, currentRecordBlock)
  /\ Sealed => cut[recordedBlockId] = accepted
  /\ file = Batch(0, cut[writtenBlockId])

SizesCount == \A b \in Blocks : (uncompressed[b].dataSize = 0) <=> (uncompressed[b].data = <<>>)

WriterStops == writer = "exited" => AllWritten
RecorderStops == recorder \in {"joinThreads", "closed"} => writer = "exited"

FileInv == OwnerInv /\ (\E cut : CutInto(cut)) /\ SizesCount /\ WriterStops /\ RecorderStops
-----------------------------------------------------------------------------
(***************************************************************************)
(* Batches.                                                                *)
(***************************************************************************)
LEMMA BatchType ==
  ASSUME NEW a \in Nat, NEW b \in Nat, a <= b
  PROVE  /\ Batch(a, b) \in Seq(Nat) /\ Len(Batch(a, b)) = b - a
         /\ \A i \in 1 .. b - a : Batch(a, b)[i] = a + i
<1>1. b - a \in Nat
  OBVIOUS
<1>2. \A i \in 1 .. b - a : a + i \in Nat
  OBVIOUS
<1>3. Batch(a, b) \in Seq(Nat)
  BY <1>1, <1>2 DEF Batch
<1>4. Len(Batch(a, b)) = b - a
  BY <1>1, <1>3 DEF Batch
<1>5. \A i \in 1 .. b - a : Batch(a, b)[i] = a + i
  BY DEF Batch
<1>. QED
  BY <1>3, <1>4, <1>5

LEMMA BatchEmpty ==
  ASSUME NEW a \in Nat, NEW b \in Nat, a <= b
  PROVE  (Batch(a, b) = <<>>) <=> (a = b)
<1>1. Batch(a, b) \in Seq(Nat) /\ Len(Batch(a, b)) = b - a
  BY BatchType
<1>2. (Batch(a, b) = <<>>) <=> (Len(Batch(a, b)) = 0)
  BY <1>1
<1>. QED
  BY <1>1, <1>2

LEMMA BatchAppend ==
  ASSUME NEW a \in Nat, NEW b \in Nat, a <= b
  PROVE  Append(Batch(a, b), b + 1) = Batch(a, b + 1)
<1>. DEFINE s == Batch(a, b)
            r == Batch(a, b + 1)
<1>1. s \in Seq(Nat) /\ Len(s) = b - a /\ \A i \in 1 .. b - a : s[i] = a + i
  BY BatchType
<1>2. /\ r \in Seq(Nat) /\ Len(r) = b + 1 - a
      /\ \A i \in 1 .. b + 1 - a : r[i] = a + i
  <2>1. b + 1 \in Nat /\ a <= b + 1
    OBVIOUS
  <2>. QED
    BY <2>1, BatchType
<1>. HIDE DEF s, r
<1>3. Append(s, b + 1) \in Seq(Nat) /\ Len(Append(s, b + 1)) = Len(r)
  BY <1>1, <1>2
<1>4. \A i \in 1..Len(r) : Append(s, b + 1)[i] = r[i]
  BY <1>1, <1>2
<1>5. Append(s, b + 1) = r
  BY <1>2, <1>3, <1>4, SeqEqual
<1>. QED
  BY <1>5 DEF s, r

LEMMA BatchConcat ==
  ASSUME NEW a \in Nat, NEW b \in Nat, a <= b
  PROVE  Batch(0, a) \o Batch(a, b) = Batch(0, b)
<1>. DEFINE s == Batch(0, a)
            q == Batch(a, b)
            r == Batch(0, b)
<1>1. s \in Seq(Nat) /\ Len(s) = a /\ \A i \in 1..a : s[i] = i
  <2>1. a - 0 = a /\ \A i \in 1..a : 0 + i = i
    OBVIOUS
  <2>. QED
    BY <2>1, BatchType
<1>2. q \in Seq(Nat) /\ Len(q) = b - a /\ \A i \in 1 .. b - a : q[i] = a + i
  BY BatchType
<1>3. r \in Seq(Nat) /\ Len(r) = b /\ \A i \in 1..b : r[i] = i
  <2>1. b - 0 = b /\ \A i \in 1..b : 0 + i = i
    OBVIOUS
  <2>. QED
    BY <2>1, BatchType
<1>. HIDE DEF s, q, r
<1>4. s \o q \in Seq(Nat) /\ Len(s \o q) = Len(r)
  BY <1>1, <1>2, <1>3
<1>5. \A i \in 1..Len(r) : (s \o q)[i] = r[i]
  BY <1>1, <1>2, <1>3
<1>6. s \o q = r
  BY <1>3, <1>4, <1>5, SeqEqual
<1>. QED
  BY <1>6 DEF s, q, r

LEMMA BatchFromZero == ASSUME NEW n \in Nat PROVE Batch(0, n) = [i \in 1..n |-> i]
<1>1. n - 0 = n /\ \A i \in 1..n : 0 + i = i
  OBVIOUS
<1>. QED
  BY <1>1 DEF Batch

\* The cuts that a block's number stands for.
LEMMA CutTypes ==
  ASSUME OwnerInv, NEW cut, Cuts(cut)
  PROVE  /\ recordedBlockId \in Nat /\ writtenBlockId \in 0..recordedBlockId /\ accepted \in Nat
         /\ cut[recordedBlockId] \in Nat /\ cut[recordedBlockId] <= accepted
         /\ cut[writtenBlockId] \in Nat
         /\ \A n \in Pending : /\ n \in 1..recordedBlockId /\ n - 1 \in 0..recordedBlockId
                               /\ cut[n] \in Nat /\ cut[n - 1] \in Nat /\ cut[n - 1] <= cut[n]
                               /\ cut[n] <= accepted
<1>1. /\ recordedBlockId \in Nat /\ writtenBlockId \in Nat /\ accepted \in Nat
      /\ writtenBlockId <= recordedBlockId
  BY DEF OwnerInv, TypeInv, TypeOK, IdsPending
<1>2. recordedBlockId \in 0..recordedBlockId /\ writtenBlockId \in 0..recordedBlockId
  BY <1>1
<1>3. \A n \in Pending : n \in 1..recordedBlockId /\ n - 1 \in 0..recordedBlockId
                         /\ n \in 0..recordedBlockId
  BY <1>1 DEF Pending
<1>. QED
  BY <1>1, <1>2, <1>3 DEF Cuts
-----------------------------------------------------------------------------
(***************************************************************************)
(* The invariant, step by step.                                            *)
(***************************************************************************)
LEMMA FileInit == Init => FileInv
<1>. SUFFICES ASSUME Init PROVE FileInv
  OBVIOUS
<1>. DEFINE cut == [n \in 0..0 |-> 0]
<1>1. OwnerInv
  BY OwnerInit
<1>2. Batch(0, 0) = <<>>
  BY BatchEmpty
<1>3. Cuts(cut)
  BY DEF Init, Cuts
<1>4. BlocksHold(cut) /\ FillsOnly(cut, currentRecordBlock)
  BY <1>2 DEF Init, BlocksHold, FillsOnly
<1>5. CutInto(cut)
  <2>1. cut[recordedBlockId] = accepted /\ file = Batch(0, cut[writtenBlockId])
    BY <1>2 DEF Init
  <2>. QED
    BY <1>3, <1>4, <2>1 DEF CutInto
<1>6. SizesCount
  BY DEF Init, SizesCount
<1>7. WriterStops /\ RecorderStops
  BY DEF Init, WriterStops, RecorderStops
<1>. HIDE DEF cut
<1>. QED
  BY <1>1, <1>5, <1>6, <1>7 DEF FileInv

\* A step that leaves the numbers and the contents alone, and fills no sealed block.
LEMMA SameCut ==
  ASSUME OwnerInv, NEW cut, CutInto(cut), Sealed' => Sealed,
         UNCHANGED <<recordedBlockId, writtenBlockId, accepted, file, currentRecordBlock>>,
         \A b \in Blocks : /\ uncompressed'[b].id = uncompressed[b].id
                           /\ uncompressed'[b].data = uncompressed[b].data
                           /\ uncompressed'[b].full = uncompressed[b].full
                           /\ compressed'[b].id = compressed[b].id
                           /\ compressed'[b].data = compressed[b].data
                           /\ compressed'[b].full = compressed[b].full
  PROVE  CutInto(cut)'
<1>1. Cuts(cut)'
  BY DEF CutInto, Cuts
<1>2. BlocksHold(cut)' /\ FillsOnly(cut, currentRecordBlock)'
  BY DEF CutInto, BlocksHold, FillsOnly
<1>. QED
  BY <1>1, <1>2 DEF CutInto

\* Publishing cuts after the last command accepted.
LEMMA PublishCut ==
  ASSUME OwnerInv, OwnerInv', NEW cut, CutInto(cut), NEW b \in Blocks, ~uncompressed[b].full,
         FillsOnly(cut, b), PublishBlock(b), currentRecordBlock' = b,
         UNCHANGED <<compressed, writtenBlockId, accepted, file>>
  PROVE  \E new : CutInto(new)'
<1>. DEFINE longer == [n \in 0..recordedBlockId + 1 |->
                         IF n = recordedBlockId + 1 THEN accepted ELSE cut[n]]
<1>0. TypeOK
  BY DEF OwnerInv, TypeInv
<1>1. /\ recordedBlockId \in Nat /\ writtenBlockId \in 0..recordedBlockId /\ accepted \in Nat
      /\ cut[recordedBlockId] \in Nat /\ cut[recordedBlockId] <= accepted
      /\ \A n \in Pending : n \in 1..recordedBlockId /\ n - 1 \in 0..recordedBlockId
  BY CutTypes DEF CutInto
<1>2. /\ recordedBlockId' = recordedBlockId + 1
      /\ uncompressed'[b].id = recordedBlockId + 1 /\ uncompressed'[b].full = TRUE
      /\ uncompressed'[b].data = uncompressed[b].data
      /\ \A c \in Blocks \ {b} : uncompressed'[c] = uncompressed[c]
  BY <1>0, PublishEffect
<1>. PICK new : new = longer
  OBVIOUS
<1>3. /\ new[recordedBlockId + 1] = accepted
      /\ \A n \in 0..recordedBlockId : new[n] = cut[n]
  BY <1>1
<1>4. recordedBlockId \in 0..recordedBlockId /\ 0 \in 0..recordedBlockId
  BY <1>1
<1>5. Cuts(new)'
  <2>1. new \in [0..recordedBlockId + 1 -> Nat]
    BY <1>1 DEF CutInto, Cuts
  <2>2. new[0] = 0
    BY <1>3, <1>4 DEF CutInto, Cuts
  <2>3. \A n \in 0..recordedBlockId + 1 : new[n] <= accepted
    <3>1. \A n \in 0..recordedBlockId + 1 : n = recordedBlockId + 1 \/ n \in 0..recordedBlockId
      BY <1>1
    <3>2. accepted <= accepted
      BY <1>1
    <3>. QED
      BY <1>3, <3>1, <3>2 DEF CutInto, Cuts
  <2>4. \A n \in 1..recordedBlockId + 1 : new[n - 1] <= new[n]
    <3>1. ASSUME NEW n \in 1..recordedBlockId + 1
          PROVE  \/ n = recordedBlockId + 1 /\ n - 1 = recordedBlockId
                 \/ n \in 1..recordedBlockId /\ n - 1 \in 0..recordedBlockId
                    /\ n \in 0..recordedBlockId
      BY <1>1
    <3>. QED
      BY <1>1, <1>3, <1>4, <3>1 DEF CutInto, Cuts
  <2>. QED
    BY <2>1, <2>2, <2>3, <2>4, <1>2 DEF Cuts
<1>. HIDE DEF longer
<1>6. \A n \in Pending : new[n] = cut[n] /\ new[n - 1] = cut[n - 1]
  <2>1. \A n \in Pending : n \in 0..recordedBlockId /\ n - 1 \in 0..recordedBlockId
    BY <1>1
  <2>. QED
    BY <2>1, <1>3
<1>7. BlocksHold(new)'
  <2>1. ASSUME NEW c \in Blocks, uncompressed'[c].full
        PROVE  uncompressed'[c].data
                 = Batch(new[uncompressed'[c].id - 1], new[uncompressed'[c].id])
    <3>1. CASE c = b
      <4>1. uncompressed[b].data = Batch(cut[recordedBlockId], accepted)
        BY DEF FillsOnly
      <4>2. uncompressed'[b].id - 1 = recordedBlockId
        BY <1>1, <1>2
      <4>. QED
        BY <3>1, <4>1, <4>2, <1>2, <1>3, <1>4
    <3>2. CASE c # b
      <4>1. uncompressed'[c] = uncompressed[c] /\ uncompressed[c].full
        BY <2>1, <3>2, <1>2
      <4>2. uncompressed[c].id \in Pending
        BY <4>1 DEF OwnerInv, IdsPending
      <4>3. uncompressed[c].data = Batch(cut[uncompressed[c].id - 1], cut[uncompressed[c].id])
        BY <4>1 DEF CutInto, BlocksHold
      <4>. QED
        BY <4>1, <4>2, <4>3, <1>6
    <3>. QED
      BY <3>1, <3>2
  <2>2. ASSUME NEW c \in Blocks, compressed[c].full
        PROVE  compressed[c].data = Batch(new[compressed[c].id - 1], new[compressed[c].id])
    <3>1. compressed[c].id \in Pending
      BY <2>2 DEF OwnerInv, IdsPending
    <3>2. compressed[c].data = Batch(cut[compressed[c].id - 1], cut[compressed[c].id])
      BY <2>2 DEF CutInto, BlocksHold
    <3>. QED
      BY <3>1, <3>2, <1>6
  <2>. QED
    BY <2>1, <2>2 DEF BlocksHold
<1>8. FillsOnly(new, currentRecordBlock)'
  BY <1>2 DEF FillsOnly
<1>9. new[recordedBlockId'] = accepted' /\ file' = Batch(0, new[writtenBlockId'])
  BY <1>1, <1>2, <1>3 DEF CutInto
<1>10. CutInto(new)'
  BY <1>5, <1>7, <1>8, <1>9 DEF CutInto
<1>. QED
  BY <1>10

\* While no block is being filled, the free ones are empty.
LEMMA SealedIsEmpty ==
  ASSUME OwnerInv, NEW cut, CutInto(cut), Sealed
  PROVE  /\ Batch(cut[recordedBlockId], accepted) = <<>>
         /\ \A b \in Blocks : ~uncompressed[b].full => uncompressed[b].data = <<>>
<1>1. /\ cut[recordedBlockId] = accepted /\ cut[recordedBlockId] \in Nat
      /\ cut[recordedBlockId] <= accepted /\ accepted \in Nat
  BY CutTypes DEF CutInto
<1>2. Batch(cut[recordedBlockId], accepted) = <<>>
  BY <1>1, BatchEmpty
<1>3. \A b \in Blocks : ~uncompressed[b].full => uncompressed[b].data = <<>>
  BY <1>2 DEF CutInto, FillsOnly
<1>. QED
  BY <1>2, <1>3

LEMMA PublishSizes ==
  ASSUME TypeOK, SizesCount, NEW b \in Blocks, PublishBlock(b)
  PROVE  SizesCount'
<1>1. \A c \in Blocks : /\ uncompressed'[c].data = uncompressed[c].data
                        /\ uncompressed'[c].dataSize = uncompressed[c].dataSize
  <2>1. /\ uncompressed'[b].data = uncompressed[b].data
        /\ uncompressed'[b].dataSize = uncompressed[b].dataSize
        /\ \A c \in Blocks \ {b} : uncompressed'[c] = uncompressed[c]
    BY PublishEffect
  <2>. QED
    BY <2>1
<1>. QED
  BY <1>1 DEF SizesCount

LEMMA UseCut ==
  ASSUME OwnerInv, OwnerInv', NEW cut, CutInto(cut), SizesCount, NEW b \in Blocks,
         ~uncompressed[b].full, UseBlock(b), UNCHANGED RecordVars,
         Sealed \/ b = currentRecordBlock
  PROVE  /\ \E new : CutInto(new)'
         /\ SizesCount'
         /\ Sealed => recordedBlockId' = recordedBlockId
<1>0. TypeOK
  BY DEF OwnerInv, TypeInv
<1>1. /\ UNCHANGED <<compressed, writtenBlockId, accepted, file>>
      /\ currentRecordBlock' = b /\ recorder' \in {"notify", "copy"}
  BY DEF RecordVars, writeVars, UseBlock
<1>2. FillsOnly(cut, b)
  <2>1. CASE b = currentRecordBlock
    BY <2>1 DEF CutInto
  <2>2. CASE Sealed
    BY <2>2, SealedIsEmpty DEF FillsOnly
  <2>. QED
    BY <2>1, <2>2
<1>3. /\ uncompressed[b].dataSize \in Nat
      /\ (uncompressed[b].dataSize = 0) <=> (uncompressed[b].data = <<>>)
      /\ uncompressed[b].data = Batch(cut[recordedBlockId], accepted)
  BY <1>0, <1>2 DEF TypeOK, Block, SizesCount, FillsOnly
<1>4. CASE stopThreads' /\ uncompressed[b].dataSize > 0
  <2>1. PublishBlock(b)
    BY <1>4 DEF UseBlock
  <2>2. \E new : CutInto(new)'
    BY <1>1, <1>2, <2>1, PublishCut
  <2>3. ~Sealed
    BY <1>3, <1>4, SealedIsEmpty
  <2>4. SizesCount'
    BY <1>0, <2>1, PublishSizes
  <2>. QED
    BY <2>2, <2>3, <2>4
<1>5. CASE ~(stopThreads' /\ uncompressed[b].dataSize > 0)
  <2>1. UNCHANGED <<recordedBlockId, uncompressed>>
    BY <1>5 DEF UseBlock
  <2>2. Cuts(cut)' /\ BlocksHold(cut)' /\ FillsOnly(cut, currentRecordBlock)'
    BY <1>1, <1>2, <2>1 DEF CutInto, Cuts, BlocksHold, FillsOnly
  <2>3. Sealed' => cut[recordedBlockId'] = accepted'
    <3>1. Sealed' => stopThreads'
      BY <1>1, <2>1 DEF Sealed
    <3>2. stopThreads' => uncompressed[b].data = <<>>
      BY <1>3, <1>5
    <3>3. /\ cut[recordedBlockId] \in Nat /\ accepted \in Nat
          /\ cut[recordedBlockId] <= accepted
      BY CutTypes DEF CutInto
    <3>4. uncompressed[b].data = <<>> => cut[recordedBlockId] = accepted
      BY <1>3, <3>3, BatchEmpty
    <3>. QED
      BY <1>1, <2>1, <3>1, <3>2, <3>4
  <2>4. CutInto(cut)'
    BY <1>1, <2>1, <2>2, <2>3 DEF CutInto
  <2>5. SizesCount'
    BY <2>1 DEF SizesCount
  <2>. QED
    BY <2>1, <2>4, <2>5
<1>. QED
  BY <1>4, <1>5

LEMMA AskFile ==
  ASSUME FileInv, RecordCommand \/ CloseStream \/ ResumeSearch
  PROVE  FileInv'
<1>1. PICK cut : CutInto(cut)
  BY DEF FileInv
<1>2. OwnerInv /\ OwnerInv' /\ TypeOK /\ SizesCount
  BY AskOwner DEF FileInv, OwnerInv, TypeInv
<1>3. UNCHANGED RecordVars /\ (stopThreads => stopThreads')
  BY DEF RecordCommand, CloseStream, ResumeSearch
<1>4. UNCHANGED <<compressed, writtenBlockId, accepted, file, writer>>
  BY <1>3 DEF RecordVars, writeVars
<1>5. \/ /\ recorder' = "wait" /\ Sealed
         /\ UNCHANGED <<currentRecordBlock, recordedBlockId, uncompressed, compressionQueue,
                        compressor>>
      \/ \E b \in Blocks :
           ~uncompressed[b].full /\ UseBlock(b) /\ (Sealed \/ b = currentRecordBlock)
  <2>1. CASE RecordCommand \/ CloseStream
    <3>1. PICK s : FindBlockForRecord(s)
      BY <2>1 DEF RecordCommand, CloseStream
    <3>. QED
      BY <1>2, <3>1, FindEffect DEF Sealed
  <2>2. CASE ResumeSearch
    <3>1. SearchBlock(size) /\ Sealed
      BY <2>2 DEF ResumeSearch, Sealed
    <3>. QED
      BY <1>2, <3>1, SearchEffect
  <2>. QED
    BY <2>1, <2>2
<1>6. /\ \E new : CutInto(new)'
      /\ SizesCount'
      /\ Sealed => recordedBlockId' = recordedBlockId
  <2>1. CASE /\ recorder' = "wait" /\ Sealed
             /\ UNCHANGED <<currentRecordBlock, recordedBlockId, uncompressed, compressionQueue,
                            compressor>>
    <3>1. CutInto(cut)'
      BY <1>1, <1>2, <1>4, <2>1, SameCut
    <3>2. SizesCount'
      BY <1>2, <2>1 DEF SizesCount
    <3>. QED
      BY <2>1, <3>1, <3>2
  <2>2. ASSUME NEW b \in Blocks, ~uncompressed[b].full, UseBlock(b),
               Sealed \/ b = currentRecordBlock
        PROVE  /\ \E new : CutInto(new)'
               /\ SizesCount'
               /\ Sealed => recordedBlockId' = recordedBlockId
    BY <1>1, <1>2, <1>3, <2>2, UseCut
  <2>. QED
    BY <1>5, <2>1, <2>2
<1>7. WriterStops'
  BY <1>3, <1>4, <1>6 DEF FileInv, WriterStops, AllWritten, Sealed
<1>8. RecorderStops'
  <2>1. recorder' \in {"wait", "notify", "copy"}
    BY <1>5 DEF UseBlock
  <2>. QED
    BY <2>1 DEF RecorderStops
<1>. QED
  BY <1>2, <1>6, <1>7, <1>8 DEF FileInv

LEMMA CopyFile == ASSUME FileInv, CopyCommand PROVE FileInv'
<1>. DEFINE b == currentRecordBlock
<1>1. PICK cut : CutInto(cut)
  BY DEF FileInv
<1>2. OwnerInv /\ OwnerInv' /\ TypeInv /\ TypeOK /\ SizesCount
  BY CopyOwner DEF FileInv, OwnerInv, TypeInv
<1>3. /\ b \in Blocks /\ size \in Sizes
      /\ uncompressed' \in [Blocks -> Block]
      /\ uncompressed'[b].id = uncompressed[b].id
      /\ uncompressed'[b].full = uncompressed[b].full
      /\ uncompressed'[b].data = Append(uncompressed[b].data, accepted + 1)
      /\ uncompressed'[b].dataSize = uncompressed[b].dataSize + size
      /\ \A c \in Blocks \ {b} : uncompressed'[c] = uncompressed[c]
      /\ accepted' = accepted + 1
  BY <1>2, CopyEffect
<1>4. /\ UNCHANGED <<stopThreads, recordedBlockId, compressed, currentRecordBlock, writer,
                     writtenBlockId, file>>
      /\ recorder = "copy" /\ recorder' \in {"publish", "idle"} /\ ~stopThreads
      /\ ~uncompressed[b].full
  BY <1>2 DEF CopyCommand, compressVars, writeVars, TypeInv, RecorderLocated, OwnerInv, CurrentFree
<1>5. /\ cut[recordedBlockId] \in Nat /\ accepted \in Nat /\ cut[recordedBlockId] <= accepted
      /\ recordedBlockId \in Nat
  BY <1>1, <1>2, CutTypes DEF CutInto
<1>6. Cuts(cut)'
  <2>1. \A n \in 0..recordedBlockId : cut[n] <= accepted'
    <3>1. ASSUME NEW n \in 0..recordedBlockId
          PROVE  cut[n] <= accepted'
      <4>1. cut[n] \in Nat /\ cut[n] <= accepted
        BY <1>1 DEF CutInto, Cuts
      <4>. QED
        BY <4>1, <1>3, <1>5
    <3>. QED
      BY <3>1
  <2>. QED
    BY <2>1, <1>1, <1>4 DEF CutInto, Cuts
<1>7. BlocksHold(cut)'
  BY <1>1, <1>3, <1>4 DEF CutInto, BlocksHold
<1>8. uncompressed'[b].data = Batch(cut[recordedBlockId], accepted + 1)
  <2>1. uncompressed[b].data = Batch(cut[recordedBlockId], accepted)
    BY <1>1, <1>3, <1>4 DEF CutInto, FillsOnly
  <2>. QED
    BY <2>1, <1>3, <1>5, BatchAppend
<1>9. FillsOnly(cut, currentRecordBlock)'
  BY <1>1, <1>3, <1>4, <1>8 DEF CutInto, FillsOnly
<1>10. CutInto(cut)'
  BY <1>1, <1>3, <1>4, <1>6, <1>7, <1>9 DEF CutInto, Sealed
<1>11. SizesCount'
  <2>1. uncompressed[b].dataSize \in Nat /\ uncompressed[b].data \in Seq(Commands)
    BY <1>2, <1>3 DEF TypeOK, Block
  <2>2. uncompressed'[b].dataSize # 0
    BY <2>1, <1>3, SizesAssumption
  <2>3. uncompressed'[b].data # <<>>
    BY <2>1, <1>3
  <2>. QED
    BY <2>2, <2>3, <1>2, <1>3 DEF SizesCount
<1>12. WriterStops' /\ RecorderStops'
  BY <1>4 DEF FileInv, WriterStops, AllWritten, RecorderStops
<1>. QED
  BY <1>2, <1>10, <1>11, <1>12 DEF FileInv

LEMMA PublishFile == ASSUME FileInv, Publish PROVE FileInv'
<1>1. PICK cut : CutInto(cut)
  BY DEF FileInv
<1>2. OwnerInv /\ OwnerInv' /\ TypeInv /\ TypeOK /\ SizesCount
  BY PublishCurrentOwner DEF FileInv, OwnerInv, TypeInv
<1>3. /\ currentRecordBlock \in Blocks /\ ~uncompressed[currentRecordBlock].full
      /\ PublishBlock(currentRecordBlock) /\ recorder = "publish" /\ recorder' = "idle"
      /\ UNCHANGED <<compressed, writer, writtenBlockId, file, accepted, currentRecordBlock>>
      /\ ~stopThreads
  BY <1>2 DEF Publish, RecordVars, writeVars, TypeOK, OwnerInv, CurrentFree, TypeInv,
              RecorderLocated
<1>4. \E new : CutInto(new)'
  BY <1>1, <1>2, <1>3, PublishCut DEF CutInto
<1>5. SizesCount'
  BY <1>2, <1>3, PublishSizes
<1>6. WriterStops' /\ RecorderStops'
  BY <1>3 DEF FileInv, WriterStops, AllWritten, RecorderStops
<1>. QED
  BY <1>2, <1>4, <1>5, <1>6 DEF FileInv

LEMMA CompressFile == ASSUME FileInv, NEW t \in Threads, CompressBlock(t) PROVE FileInv'
<1>. DEFINE b == held[t]
<1>1. PICK cut : CutInto(cut)
  BY DEF FileInv
<1>2. OwnerInv /\ OwnerInv' /\ TypeOK /\ SizesCount
  BY CompressOwner DEF FileInv, OwnerInv, TypeInv
<1>3. /\ b \in Blocks
      /\ uncompressed'[b].data = <<>> /\ uncompressed'[b].dataSize = 0
      /\ uncompressed'[b].full = FALSE
      /\ \A c \in Blocks \ {b} : uncompressed'[c] = uncompressed[c]
      /\ compressed'[b].id = uncompressed[b].id
      /\ compressed'[b].data = uncompressed[b].data
      /\ \A c \in Blocks \ {b} : compressed'[c] = compressed[c]
  BY <1>2, CompressEffect
<1>4. /\ UNCHANGED <<stopThreads, recordedBlockId, currentRecordBlock, accepted,
                     writtenBlockId, file, recorder, writer>>
      /\ compressor[t] = "compress"
  BY DEF CompressBlock, CompressVars, GoTo
<1>5. uncompressed[b].full
  BY <1>2, <1>4 DEF OwnerInv, HeldExclusive, Working
<1>. HIDE DEF b
<1>6. Cuts(cut)'
  BY <1>1, <1>4 DEF CutInto, Cuts
<1>7. BlocksHold(cut)'
  <2>1. ASSUME NEW c \in Blocks, uncompressed'[c].full
        PROVE  uncompressed'[c].data
                 = Batch(cut[uncompressed'[c].id - 1], cut[uncompressed'[c].id])
    <3>1. c # b
      BY <2>1, <1>3
    <3>. QED
      BY <2>1, <3>1, <1>1, <1>3 DEF CutInto, BlocksHold
  <2>2. ASSUME NEW c \in Blocks, compressed'[c].full
        PROVE  compressed'[c].data
                 = Batch(cut[compressed'[c].id - 1], cut[compressed'[c].id])
    <3>1. CASE c = b
      <4>1. uncompressed[b].data = Batch(cut[uncompressed[b].id - 1], cut[uncompressed[b].id])
        BY <1>1, <1>3, <1>5 DEF CutInto, BlocksHold
      <4>. QED
        BY <3>1, <4>1, <1>3
    <3>2. CASE c # b
      BY <2>2, <3>2, <1>1, <1>3 DEF CutInto, BlocksHold
    <3>. QED
      BY <3>1, <3>2
  <2>. QED
    BY <2>1, <2>2 DEF BlocksHold
<1>8. FillsOnly(cut, currentRecordBlock)'
  <2>. SUFFICES ASSUME NEW c \in Blocks, ~uncompressed'[c].full
                PROVE  uncompressed'[c].data = IF c = currentRecordBlock
                                               THEN Batch(cut[recordedBlockId], accepted)
                                               ELSE <<>>
    BY <1>4 DEF FillsOnly
  <2>1. CASE c = b
    <3>1. c = currentRecordBlock => Batch(cut[recordedBlockId], accepted) = <<>>
      BY <2>1, <1>1, <1>2, <1>5, SealedIsEmpty DEF Sealed
    <3>. QED
      BY <2>1, <3>1, <1>3
  <2>2. CASE c # b
    BY <2>2, <1>1, <1>3 DEF CutInto, FillsOnly
  <2>. QED
    BY <2>1, <2>2
<1>9. Sealed' => Sealed
  <2>1. currentRecordBlock \in Blocks
    BY <1>2 DEF TypeOK
  <2>. QED
    BY <2>1, <1>3, <1>4 DEF Sealed
<1>10. CutInto(cut)'
  BY <1>1, <1>4, <1>6, <1>7, <1>8, <1>9 DEF CutInto
<1>11. SizesCount'
  BY <1>2, <1>3 DEF SizesCount
<1>12. WriterStops' /\ RecorderStops'
  BY <1>4 DEF FileInv, WriterStops, AllWritten, RecorderStops
<1>. QED
  BY <1>2, <1>10, <1>11, <1>12 DEF FileInv

\* What is written is the batch after those in the file.
LEMMA WrittenBatch ==
  ASSUME OwnerInv, NEW cut, CutInto(cut), WriteBlock
  PROVE  /\ file' = Batch(0, cut[writtenBlockId + 1])
         /\ writtenBlockId + 1 \in 1..recordedBlockId
<1>1. TypeOK /\ blockIndex \in Blocks
  BY DEF OwnerInv, TypeInv, TypeOK
<1>2. compressed[blockIndex].full /\ compressed[blockIndex].id = writtenBlockId + 1
  BY DEF OwnerInv, WriterSound, IsNext, WriteBlock
<1>3. compressed[blockIndex].id \in Pending
  BY <1>1, <1>2 DEF OwnerInv, IdsPending
<1>4. PICK n \in 1..recordedBlockId : n = writtenBlockId + 1 /\ n \in Pending
  BY <1>2, <1>3, CutTypes DEF CutInto
<1>5. n - 1 = writtenBlockId
  BY <1>1, <1>4 DEF TypeOK
<1>6. compressed[blockIndex].data = Batch(cut[n - 1], cut[n])
  BY <1>1, <1>2, <1>4 DEF CutInto, BlocksHold
<1>7. file' = Batch(0, cut[n - 1]) \o Batch(cut[n - 1], cut[n])
  BY <1>1, <1>5, <1>6, WriteEffect DEF CutInto
<1>8. cut[n - 1] \in Nat /\ cut[n] \in Nat /\ cut[n - 1] <= cut[n]
  BY <1>4, CutTypes DEF CutInto
<1>9. file' = Batch(0, cut[n])
  BY <1>7, <1>8, BatchConcat
<1>. QED
  BY <1>4, <1>9

LEMMA WriteFile == ASSUME FileInv, WriteBlock PROVE FileInv'
<1>1. PICK cut : CutInto(cut)
  BY DEF FileInv
<1>2. OwnerInv /\ OwnerInv' /\ TypeOK /\ SizesCount
  BY WriteOwner DEF FileInv, OwnerInv, TypeInv
<1>3. /\ blockIndex \in Blocks /\ writtenBlockId' = writtenBlockId + 1
      /\ compressed'[blockIndex].full = FALSE
      /\ \A c \in Blocks \ {blockIndex} : compressed'[c] = compressed[c]
  BY <1>2, WriteEffect
<1>4. /\ UNCHANGED <<stopThreads, recordedBlockId, uncompressed, recorder, currentRecordBlock,
                     accepted>>
      /\ writer = "write" /\ NextBlock(TRUE)
  BY DEF WriteBlock, WriteVars, recordVars
<1>5. Cuts(cut)' /\ FillsOnly(cut, currentRecordBlock)' /\ (Sealed' => Sealed)
  BY <1>1, <1>4 DEF CutInto, Cuts, FillsOnly, Sealed
<1>6. BlocksHold(cut)'
  <2>1. ASSUME NEW c \in Blocks, compressed'[c].full
        PROVE  compressed'[c].data
                 = Batch(cut[compressed'[c].id - 1], cut[compressed'[c].id])
    <3>1. c # blockIndex
      BY <2>1, <1>3
    <3>. QED
      BY <2>1, <3>1, <1>1, <1>3 DEF CutInto, BlocksHold
  <2>. QED
    BY <2>1, <1>1, <1>4 DEF CutInto, BlocksHold
<1>7. file' = Batch(0, cut[writtenBlockId'])
  BY <1>1, <1>2, <1>3, WrittenBatch
<1>8. CutInto(cut)'
  BY <1>1, <1>4, <1>5, <1>6, <1>7 DEF CutInto
<1>9. SizesCount'
  BY <1>2, <1>4 DEF SizesCount
<1>10. WriterStops'
  BY <1>4 DEF NextBlock, WriterStops, AllWritten
<1>11. RecorderStops'
  BY <1>4 DEF FileInv, RecorderStops
<1>. QED
  BY <1>2, <1>8, <1>9, <1>10, <1>11 DEF FileInv

(***************************************************************************)
(* The steps that change neither the numbers nor the contents.             *)
(***************************************************************************)
StillSteps ==
  \/ CloseNotify \/ CloseJoinWriter \/ CloseJoinThreads \/ WakeSpuriously
  \/ \E t \in Threads : \/ FetchNothing(t) \/ NotifyCompressed(t)
                        \/ FetchBlock(t) \/ ResumeCompression(t)
  \/ StartWrite \/ PassBlock
  \/ UNCHANGED vars

LEMMA StillEffect ==
  ASSUME OwnerInv, StillSteps
  PROVE  /\ OwnerInv'
         /\ UNCHANGED <<stopThreads, recordedBlockId, writtenBlockId, currentRecordBlock,
                        accepted, file>>
         /\ \A b \in Blocks : /\ uncompressed'[b].id = uncompressed[b].id
                              /\ uncompressed'[b].data = uncompressed[b].data
                              /\ uncompressed'[b].dataSize = uncompressed[b].dataSize
                              /\ uncompressed'[b].full = uncompressed[b].full
                              /\ compressed'[b].id = compressed[b].id
                              /\ compressed'[b].data = compressed[b].data
                              /\ compressed'[b].full = compressed[b].full
<1>1. CASE \/ CloseNotify \/ CloseJoinWriter \/ CloseJoinThreads \/ WakeSpuriously
           \/ \E t \in Threads : FetchNothing(t) \/ NotifyCompressed(t)
           \/ UNCHANGED vars
  BY <1>1, MovingOwner
<1>2. CASE StartWrite \/ PassBlock
  BY <1>2, WritingTypes
<1>3. ASSUME NEW t \in Threads, FetchBlock(t)
      PROVE  /\ OwnerInv'
             /\ UNCHANGED <<stopThreads, recordedBlockId, writtenBlockId, currentRecordBlock,
                            accepted, file>>
             /\ \A b \in Blocks : /\ uncompressed'[b].id = uncompressed[b].id
                                  /\ uncompressed'[b].data = uncompressed[b].data
                                  /\ uncompressed'[b].dataSize = uncompressed[b].dataSize
                                  /\ uncompressed'[b].full = uncompressed[b].full
                                  /\ compressed'[b].id = compressed[b].id
                                  /\ compressed'[b].data = compressed[b].data
                                  /\ compressed'[b].full = compressed[b].full
  <2>1. OwnerInv'
    BY <1>3, FetchOwner
  <2>2. UNCHANGED <<stopThreads, recordedBlockId, writtenBlockId, currentRecordBlock, accepted,
                    file>>
    BY <1>3 DEF FetchBlock, CompressVars
  <2>. QED
    BY <1>3, <2>1, <2>2, FetchEffect
<1>4. ASSUME NEW t \in Threads, ResumeCompression(t)
      PROVE  /\ OwnerInv'
             /\ UNCHANGED <<stopThreads, recordedBlockId, writtenBlockId, currentRecordBlock,
                            accepted, file, uncompressed>>
             /\ \A b \in Blocks : /\ compressed'[b].id = compressed[b].id
                                  /\ compressed'[b].data = compressed[b].data
                                  /\ compressed'[b].full = compressed[b].full
  <2>1. OwnerInv'
    BY <1>4, ResumeOwner
  <2>2. UNCHANGED <<stopThreads, recordedBlockId, writtenBlockId, currentRecordBlock, accepted,
                    file, uncompressed>>
    BY <1>4 DEF ResumeCompression, CompressVars
  <2>. QED
    BY <1>4, <2>1, <2>2, ResumeEffect
<1>. QED
  BY <1>1, <1>2, <1>3, <1>4 DEF StillSteps

\* Where they take the recording and the writing thread.
LEMMA StillMoves ==
  ASSUME OwnerInv, StillSteps
  PROVE  /\ \/ recorder' = recorder
            \/ recorder = "wait" /\ recorder' = "search"
            \/ recorder = "notify" /\ recorder' = "joinWriter"
            \/ recorder = "joinWriter" /\ recorder' = "joinThreads" /\ writer = "exited"
            \/ recorder = "joinThreads" /\ recorder' = "closed" /\ CloseJoinThreads
         /\ \/ writer' = writer
            \/ writer # "exited" /\ (writer' = "exited" => AllWritten')
<1>1. CASE \/ CloseNotify \/ CloseJoinWriter \/ CloseJoinThreads \/ WakeSpuriously
           \/ \E t \in Threads : FetchNothing(t) \/ NotifyCompressed(t)
           \/ UNCHANGED vars
  BY <1>1 DEF CloseNotify, CloseJoinWriter, CloseJoinThreads, WakeSpuriously, FetchNothing,
              NotifyCompressed, vars, recordVars, writeVars, GoTo, Leave, NotifyCompressionDone,
              RecorderWoken, WriterWoken
<1>2. ASSUME NEW t \in Threads, FetchBlock(t) \/ ResumeCompression(t)
      PROVE  recorder' = recorder /\ writer' = writer
  BY <1>2, FetchEffect, ResumeEffect
<1>3. CASE StartWrite \/ PassBlock
  BY <1>3 DEF StartWrite, PassBlock, NextBlock, WriteVars, recordVars, AllWritten
<1>. QED
  BY <1>1, <1>2, <1>3 DEF StillSteps

LEMMA StillFile == ASSUME FileInv, StillSteps PROVE FileInv'
<1>1. PICK cut : CutInto(cut)
  BY DEF FileInv
<1>2. OwnerInv /\ OwnerInv' /\ TypeOK /\ SizesCount
  BY StillEffect DEF FileInv, OwnerInv, TypeInv
<1>3. Sealed' => Sealed
  <2>1. currentRecordBlock \in Blocks
    BY <1>2 DEF TypeOK
  <2>2. /\ UNCHANGED <<stopThreads, currentRecordBlock>>
        /\ \A b \in Blocks : uncompressed'[b].full = uncompressed[b].full
    BY <1>2, StillEffect
  <2>3. recorder' \in {"wait", "search"} => recorder \in {"wait", "search"}
    BY <1>2, StillMoves
  <2>. QED
    BY <2>1, <2>2, <2>3 DEF Sealed
<1>4. CutInto(cut)'
  BY <1>1, <1>2, <1>3, SameCut, StillEffect
<1>5. SizesCount'
  BY <1>2, StillEffect DEF SizesCount
<1>6. WriterStops'
  <2>1. UNCHANGED <<stopThreads, writtenBlockId, recordedBlockId>>
    BY <1>2, StillEffect
  <2>. QED
    BY <2>1, <1>2, StillMoves DEF FileInv, WriterStops, AllWritten
<1>7. RecorderStops'
  BY <1>2, StillMoves DEF FileInv, RecorderStops
<1>. QED
  BY <1>2, <1>4, <1>5, <1>6, <1>7 DEF FileInv

LEMMA FileStep == FileInv /\ [Next]_vars => FileInv'
<1>. SUFFICES ASSUME FileInv, [Next]_vars PROVE FileInv'
  OBVIOUS
<1>1. CASE RecordCommand \/ CloseStream \/ ResumeSearch
  BY <1>1, AskFile
<1>2. CASE CopyCommand \/ Publish \/ WriteBlock
  BY <1>2, CopyFile, PublishFile, WriteFile
<1>3. ASSUME NEW t \in Threads, CompressBlock(t)
      PROVE  FileInv'
  BY <1>3, CompressFile
<1>4. CASE StillSteps
  BY <1>4, StillFile
<1>. QED
  BY <1>1, <1>2, <1>3, <1>4 DEF Next, RecorderStep, CompressorStep, WriterStep, Terminated,
                                StillSteps

LEMMA FileAlways == Spec => []FileInv
BY FileInit, FileStep, PTL DEF Spec
-----------------------------------------------------------------------------
(***************************************************************************)
(* Every step of the writer is a step of the command file, or none.        *)
(***************************************************************************)
LEMMA WriteFlushes ==
  ASSUME FileInv, WriteBlock
  PROVE  /\ UNCHANGED <<accepted, recorder>>
         /\ Output!Flush \/ file' = file
<1>1. PICK cut : CutInto(cut)
  BY DEF FileInv
<1>2. OwnerInv /\ TypeOK
  BY DEF FileInv, OwnerInv, TypeInv
<1>3. /\ file' = Batch(0, cut[writtenBlockId + 1])
      /\ writtenBlockId + 1 \in 1..recordedBlockId
  BY <1>1, <1>2, WrittenBatch
<1>4. PICK n \in Pending : n = writtenBlockId + 1 /\ n - 1 = writtenBlockId
  <2>1. writtenBlockId \in Nat /\ recordedBlockId \in Nat
    BY <1>2 DEF TypeOK
  <2>. QED
    BY <2>1, <1>3 DEF Pending
<1>5. /\ cut[n] \in Nat /\ cut[n - 1] \in Nat /\ cut[n - 1] <= cut[n] /\ cut[n] <= accepted
      /\ accepted \in Nat
  BY <1>1, <1>2, CutTypes DEF CutInto
<1>6. PICK last \in Nat : last = cut[n]
  BY <1>5
<1>7. PICK before \in Nat : before = cut[n - 1]
  BY <1>5
<1>8. file = Batch(0, before) /\ file' = Batch(0, last)
  BY <1>1, <1>3, <1>4, <1>6, <1>7 DEF CutInto
<1>9. Len(file) = before
  <2>1. Len(Batch(0, before)) = before - 0 /\ before - 0 = before
    BY BatchType
  <2>. QED
    BY <2>1, <1>8
<1>10. file' = [i \in 1..last |-> i]
  BY <1>8, BatchFromZero
<1>11. UNCHANGED <<accepted, recorder>> /\ writer = "write"
  BY DEF WriteBlock, WriteVars, recordVars
<1>12. recorder # "closed"
  BY <1>11 DEF FileInv, RecorderStops
<1>13. CASE last = before
  BY <1>8, <1>11, <1>13
<1>14. CASE last # before
  <2>1. last \in Len(file) + 1 .. accepted
    BY <1>5, <1>6, <1>7, <1>9, <1>14
  <2>2. Output!Flush
    BY <2>1, <1>10, <1>11, <1>12 DEF Output!Flush
  <2>. QED
    BY <2>2, <1>11
<1>. QED
  BY <1>13, <1>14

LEMMA CloseFinishes == ASSUME FileInv, CloseJoinThreads PROVE Output!Finish
<1>1. PICK cut : CutInto(cut)
  BY DEF FileInv
<1>2. OwnerInv /\ TypeInv
  BY DEF FileInv, OwnerInv
<1>3. /\ recorder = "joinThreads" /\ recorder' = "closed"
      /\ UNCHANGED <<accepted, file>>
  BY DEF CloseJoinThreads, CloseVars
<1>4. writtenBlockId = recordedBlockId /\ Sealed
  BY <1>2, <1>3 DEF FileInv, RecorderStops, WriterStops, AllWritten, TypeInv, RecorderLocated, Sealed
<1>5. file = Batch(0, accepted) /\ accepted \in Nat
  BY <1>1, <1>2, <1>4, CutTypes DEF CutInto
<1>6. Len(file) = accepted
  <2>1. Len(Batch(0, accepted)) = accepted - 0 /\ accepted - 0 = accepted
    BY <1>5, BatchType
  <2>. QED
    BY <2>1, <1>5
<1>. QED
  BY <1>3, <1>6 DEF Output!Finish

LEMMA OutputStep ==
  ASSUME FileInv, [Next]_vars
  PROVE  [Output!Accept \/ Output!Flush \/ Output!Finish]_<<accepted, file, recorder = "closed">>
<1>0. OwnerInv /\ TypeInv
  BY DEF FileInv, OwnerInv
<1>1. CASE CopyCommand
  <2>1. Output!Accept
    BY <1>1 DEF CopyCommand, writeVars, Output!Accept
  <2>. QED
    BY <2>1
<1>2. CASE WriteBlock
  BY <1>2, WriteFlushes
<1>3. CASE CloseJoinThreads
  BY <1>3, CloseFinishes
<1>4. CASE RecordCommand \/ CloseStream \/ ResumeSearch \/ Publish
  <2>1. UNCHANGED <<accepted, file>>
    BY <1>4 DEF RecordCommand, CloseStream, ResumeSearch, Publish, RecordVars, writeVars
  <2>2. recorder # "closed"
    BY <1>4 DEF RecordCommand, CloseStream, ResumeSearch, Publish
  <2>3. recorder' # "closed"
    BY <1>4 DEF RecordCommand, CloseStream, ResumeSearch, Publish, FindBlockForRecord,
                SearchBlock, UseBlock
  <2>. QED
    BY <2>1, <2>2, <2>3
<1>5. ASSUME NEW t \in Threads, CompressBlock(t)
      PROVE  UNCHANGED <<accepted, file, recorder>>
  BY <1>5 DEF CompressBlock, CompressVars, GoTo
<1>6. CASE StillSteps /\ ~CloseJoinThreads
  <2>1. UNCHANGED <<accepted, file>>
    BY <1>0, <1>6, StillEffect
  <2>2. (recorder' = "closed") <=> (recorder = "closed")
    BY <1>0, <1>6, StillMoves
  <2>. QED
    BY <2>1, <2>2
<1>. QED
  BY <1>1, <1>2, <1>3, <1>4, <1>5, <1>6
     DEF Next, RecorderStep, CompressorStep, WriterStep, Terminated, StillSteps

(***************************************************************************)
(* The writer implements CommandFile: for any number of threads that       *)
(* compress in any order and notify whoever they notify, the commands      *)
(* reach the file once each in the order of the calls of Record, and all   *)
(* of them are in the file when Close returns.                             *)
(***************************************************************************)
THEOREM WriterImplementsCommandFile == Spec => ImplementsCommandFile
<1>1. Init => Output!FileInit
  BY DEF Init, Output!FileInit
<1>. QED
  BY <1>1, FileAlways, OutputStep, PTL DEF Spec, ImplementsCommandFile, Output!FileSpec
=============================================================================
