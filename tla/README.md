# A TLA+ development of GITS

GITS intercepts the graphics and compute calls of an application, records them
into a *stream*, and replays the stream later, on the same or another machine.
This directory holds TLA+ models of the concurrent core of that pipeline, the
TLC configurations that check them on small instances, and theorems about them
that TLAPS checks for every value of the constants. Paths are relative to the
root of the sources; `stream/` stands for `common/stream/src/`.

## 1. Inventory

### 1.1 How a call travels

```
 application threads          worker            compression threads      writing thread
 intercepted call --queue--> OrderingRecorder --blocks--> StreamWriter --blocks--> stream file
   mint key, call driver,     restores the                                             |
   Record(key) / Skip(key)    order of keys                                            v
                                     running thread <--blocks-- StreamReader <--- reading thread
                                     Run: player layers           decompression threads
                                           |
                                           +-- creation of pipeline states: pool of workers
                                           +-- waits for fences: trackers of what the GPU will do
                                           +-- subcapture: state tracked, restored, recorded again
```

The interceptor wraps every API object. A call mints a key, goes through the
pre-layers, the driver and the post-layers, and the encoder layer hands the
serialized command with its key to the `OrderingRecorder`. Its worker feeds the
`StreamWriter`, whose threads compress blocks of commands and write them. The
player mirrors this: `StreamReader` reads and decompresses blocks ahead while
`Run` executes the commands, each of which runs through the player's layers.

### 1.2 Components

| Component | State | Operations | What is hard | Correct when |
|---|---|---|---|---|
| **Ordering recorder** `stream/orderingRecorder.cpp`; **command keys** in `DirectX/recorder/captureManager.h` and the layers that record or skip them | concurrent queue, `m_NextKey`, ranges of skipped keys, heap of early commands, three byte counters, `m_Closed` | `Record`, `Skip`, `Close`, worker `ProcessQueue` | keys arrive in any order, keys are skipped, skipped-then-recorded or replaced; spin on atomics; close from any thread | the stream has the commands in the order of the calls, without gaps; memory is bounded; nothing waits for ever; closing drains and saves |
| **Stream writer** `stream/streamWriter.cpp` | uncompressed and compressed blocks, queue, block ids, four kinds of waits | `Record`, `Close`, compression threads, writing thread | work outside of the mutex, notifications, stopping while blocks are in flight | blocks have one owner, the file is the sequence of the recorded commands, `Record` and `Close` return |
| **Stream reader** `stream/streamReader.cpp` | compressed and uncompressed blocks, queue, per-thread waits, finished flags | `Run`, `Close`, reading thread, decompression threads | as above, the end of the stream, closing from inside `Run` | commands run once each, in order; `Run` returns |
| **Multithreaded object creation** `DirectX/player/multithreadedObjectCreationService.cpp` and its two layers | tasks, task queue, deferred reference counts, dependencies, outputs collected early | `Schedule`, `Complete`, `CompleteAll`, `ScheduleUpdateRefCount`, `Shutdown`, workers | references counted before the object exists, tasks taken back from the pool, providers released meanwhile | objects are created once, from live providers, and end up with the recorded references |
| **Stream player** `player/streamPlayer.cpp` | window message loop, frame counters | main loop, frame-end hook that may close the reader | closes the reader from inside the reader's `Run` | playback stops at the exit frame |
| **Legacy stream reader** `stream/streamLegacyReader.cpp` | blocks with commands spanning them, one decompression thread | `Run`, reading, decompression | flags set outside of the lock that waiters hold; commands spread over blocks | as the stream reader |
| **GPU execution tracker** `DirectX/common/utils/gpuExecutionTracker.cpp` | queue events, signalled fences, ready executables | `CommandQueueWait`, `CommandQueueSignal`, `FenceSignal`, `Execute` | waits and signals that enable one another across queues; what is tracked is ahead of the GPU | work becomes ready in an order the GPU allows, and none is held back |
| **Execution serialization** `DirectX/layers/execution_serialization/` | commands of each list, the executions | record, execute, signal, wait | a list moves into its execution; lists are recorded again while executions wait | the serialized stream has every execution, in an order the GPU allows |
| **Waits of the DirectX player** `DirectX/player/replayCustomizationLayer.cpp`, `DirectX/layers/subcapture/gpuExecutionFlusher.cpp` | a tracker each, the queues with executions | `WaitForFence`, `FlushCommandQueues` | waits for values and queues of a GPU that runs at its own speed | every call returns |
| **Vulkan synchronization** `Vulkan/subcapture/syncStateService.cpp`, `Vulkan/player/fencePendingSignalService.cpp`, the layers that feed them | what is signaled at the cut, the fences with a pending signal | submits, presents, acquires, resets, queries; the restore; catch-up waits | state is tracked by call and restored in place of work that is not done yet; a slower or faster GPU in the replay | the replay sees what the recording saw, and does not hang |
| **Fence service** `DirectX/recorder/fenceService.cpp` | fence values, events waited for | set, signal, wait | state used after unlock | a wait is recorded with the value it waited for |
| **Legacy scheduler** `common/legacy/scheduler.cpp` | token lists, producer/consumer queue | register, run, checkpoint | two threads on one queue, end of stream | tokens run once, in order |
| **Message bus, process exit** `common/legacy/messageBus.cpp`, `recorder/recorderDLL.cpp` | subscribers by topic | publish, subscribe | exit from any thread, re-entrancy | the recorder is closed before the process ends |
| **Fast output** `common/fastOutput/` | shared ring buffer | write, drain | two processes, one ring | traces are complete |
| Capture and replay layers, coders `DirectX/` | per-object state of the recorded API | one handler per call | breadth; mostly generated and sequential | commands describe the calls |
| Vulkan `Vulkan/`, the rest | handle maps, objects and contents of subcapture | as above | as above; shares the stream components | as above |
| OpenGL, OpenCL, Level Zero, old Vulkan, `ocloc` | per-API state | wrappers | as above | as above |
| Launcher, plugins, build files, scripts, third party | – | – | – | – |

There are next to no unit tests in the repository, and a failure of the
concurrent parts shows up as a hang or a corrupt stream of one recording in
many. `PROJECT.json` lists the hazards with the line at which each bites and the
properties that watch it.

## 2. Modules

| Module | Kind | Models |
|---|---|---|
| `OrderedStream` | abstract | what the recorder promises: a gap-free stream in key order |
| `OrderingRecorder` | detailed | key minting, the layers' submissions, `OrderingRecorder` |
| `OrderingRecorderProofs` | proofs | `OrderingRecorder`: types, order, byte counters |
| `OrderingRecorderRefinement` | proofs | `OrderingRecorder` implements `OrderedStream`; ranges, closing |
| `CommandFile` | abstract | what the writer promises: the file is a prefix of the commands, and all of them once closed |
| `StreamWriter` | detailed | `StreamWriter` |
| `StreamWriterProofs` | proofs | `StreamWriter`: types, ownership of blocks; it implements `CommandFile` |
| `Playback` | abstract | what the reader promises: commands run one by one, in order |
| `StreamReader` | detailed | `StreamReader` |
| `StreamReaderProofs` | proofs | `StreamReader`: types, ownership of blocks; it implements `Playback` |
| `ObjectCreation` | detailed | the object creation service and its layers |
| `ObjectCreationProofs` | proofs | all safety properties of `ObjectCreation` |
| `GpuEvents` | data | what is given to the queues of a GPU |
| `GpuQueues` | abstract | queues that perform in order and stop at waits |
| `GpuExecutionTracker` | detailed | `GpuExecutionTracker` |
| `GpuExecutionTrackerProofs` | proofs | `GpuExecutionTracker`: types, nothing is held back |
| `CommandListExecutionService` | detailed, composed | the execution serialization, on the tracker; implements `GpuQueues` |
| `GpuReplay` | composition | player, trackers, serialization and a GPU |
| `GpuReplayProofs` | proofs | `GpuReplay`: types, the serialization implements `GpuQueues`, the GPU settles as tracked |
| `VulkanSyncState` | functions | `SyncStateService` and the handlers that feed it |
| `VulkanReplay` | composition | an application, its subcapture and the replay of that, each with a GPU |
| `VulkanReplayProofs` | proofs | `VulkanReplay`: types, what was seen is reproduced, the replay does not starve |
| `MC...` | checking | small instances of the detailed modules |

The grain of atomicity is the same everywhere: one action is one critical
section, one access to an atomic, or the work a thread does on data it owns
between two of those. A `wait` releases the mutex and is a state of its own, so
a notification sent while nobody waits is lost, as it is in the code. Waits in a
loop may also end spuriously. Commands, blocks and objects are numbers or model
values; sizes are kept where the code decides by them. A history variable records
what happened and steers nothing; the properties name it to say until when they hold.

### OrderingRecorder

- `commandUniqueKey` is the atomic counter of `CaptureManager`. A thread's `todo`
  is what the layers still submit for its current call: `CallTasks` lists the
  kinds of calls found in the layers (plain; a key replaced by
  `UpdateCommandKey`; a repeated `GetCompletedValue`, which one layer skips and
  the next records; `Present`, whose encoder skips its key and mints a range of
  two).
- `SubmitClosed`, `SubmitOpen`, `ScheduleBytes`, `PushTask` are the steps of
  `Record` and `Skip`, apart because `m_Closed` is tested long before the task is
  pushed. `ReadLastChecked` ... `StoreLastChecked` are the accesses of
  `ConditionalFlush`, in the order of the code.
- `SkipCurrent`, `SkipAhead`, `RecordCurrent`, `RecordAhead`, `RecordSkipped` are
  the cases of one popped task, `UpdateNextKey` and `CheckPendingSerializers` the
  iterations of the two loops that follow.
- `CloseCheck`, `CloseSet`, `CloseJoin`, `CloseRecorder` are the steps of `Close`;
  several threads may be inside it.
- `recorded`, `skipped`, `late` are history variables: the keys pushed as commands
  or as skips, and those pushed after `m_Closed` was set.

### StreamWriter

The thread that calls `Record` (the worker above) and `Close`, the compression
threads and the writing thread. `FreeBlocks`, `Fitting`, `Largest` and
`SearchBlock` are the block choice of `FindBlockForRecord`; `FetchBlock`,
`ResumeCompression`, `CompressBlock`, `NotifyCompressed` one turn of `Compress`;
`StartWrite`, `PassBlock`, `WriteBlock` one step of the scan of
`WriteCompressedBlocks`, which releases the mutex between two blocks. The
contents of a block are the commands in it.

### StreamReader

`ReadSize`, `FindBlockForRead`, `ReadBlock`, `FinishReading` are the reading
thread; `FetchBlock`, `FetchNothing`, `ResumeDecompression`, `ReturnEarly`,
`DecompressBlock` one turn of `Decompress`; the rest is `Run`. `Close` only sets
`m_Closed`, and the commands in `Closing` may call it: in the player it is called at
the end of a frame by a command that `Run` itself is running. `ReturnEarly` is the
return of `WaitForRunDone` without a notification: its wait has no predicate and no
loop (`streamReader.cpp:267`; the twin in the writer has a predicate). The thread then
decodes into a block that `Run` may be running, a data race after which nothing is
defined; the model keeps going with the blocks as both have left them, and the
history variable `early` tells the properties, which claim nothing about `Run` from
there on.

### ObjectCreation

The replaying thread runs the calls that the recorded application could have
made (`Create`, `UpdateRefCount`, `LastRelease`, `Use`, `StateRestoreEnd`):
`captured` is the number of references it held. A call first collects in
`toComplete` the objects it has to wait for, gets each of them (`NoTask`,
`Complete`, `AwaitResult`, or `CreateHere` and `CountHere` when the pool has not
started the task), and then ends (`Schedule`, `FinishUpdate`, ...). The workers
take tasks, create, and apply the deferred references. `count` is the reference
count of the real object.

### GpuExecutionTracker, CommandListExecutionService, GpuReplay

The tracker is used by one thread. A call is one action, but `FenceSignal` goes on
in steps: `TakeEvent` and `LeaveQueue` are one turn of the loop over a queue,
`NextSignal` the end of one signal; the queues come in any order, as from the hash
map. `issued` is a history variable: what a GPU that was given the same calls has
still to do. `CommandListExecutionService` adds the commands of each list, as the
number of its last recording, and the executions in the serialized stream.

The refinement of `GpuQueues` maps the queues of the abstract GPU to `issued`, its
executions to the serialized stream followed by what is ready, and its fences to
the tracked ones *with the signals that the loop has still to apply*
(`SettledFences`): a signal taken from a queue is already performed.

`GpuReplay` gives the calls also to a GPU which performs them later, one event of
one queue at a time. The layers of the player have a tracker each that see the same
calls, so one stands for all. `WaitForFence` polls until the fence has one of
`AwaitedValues`, exactly the tracked value or any above the one asked for;
`FlushCommandQueues` waits for the queues that the tracker does not hold. The
application signals a fence from one place at a time, and lowers it only when
nothing is left to be done with it.

### VulkanSyncState, VulkanReplay

What is tracked is a record of what is signaled, and a handler of
`SyncStateService` a function on it. `VulkanReplay` runs the recording and its
replay side by side, which is sound because nothing goes from the replay to the
recording: an action is a call of the application on the recording's GPU and, in
the range, its replay on the other GPU. At any present the range may begin
(`QueuePresentAndRestoreState`): the replay's GPU gets the restored state, and the
fences that are created signaled have a pending signal. Each call that asks for
something (`GetFenceStatus`, `PollFences`, ...) sets `catchUp`, what the replay
then waits for, if the recording has seen it and the replay does not. The
application keeps the rules of Vulkan: a fence is reset before it is used again, a
binary semaphore is signaled again only after a wait for it that is known to be
over, an event is set or reset by the host only if no submit is going to do the
opposite, and the host signals the timeline only with a value above its own and below
those that submits waiting for it will signal (`MaySignal`). These rules hold whatever
the speed of the recording's GPU. `known` is what the application has seen.

The events have the least reliable tracking. A submit has an `effect` on events, that
of the commands recorded in its primary command buffers, which the code applies to the
tracked state at once, sets and resets alike, ahead of the GPU
(`ApplyCommandBufferEventStates`); what its secondary command buffers do is `inner`,
which the GPU performs and the code does not merge (`subcaptureLayer.cpp:1983`).
`FollowedEvents` are those that neither are reset by a command buffer nor set by a
secondary one; for these the code keeps its promise, for the others it does not
(section 4). `invalid` says that the replay has made a call that Vulkan forbids: a
host signal of the timeline not above its value (`SignalSemaphore`, section 4). What such
a call does is not defined; in the model the value is afterwards the one asked for or the
old one.

## 3. Runs

All runs are small enough to be exhaustive; `reader` is so up to the early returns that
it does not follow.

| Run | Instance | Question |
|---|---|---|
| `ordering` | 2 threads, 1 closer, 4 keys, throttled as soon as two bytes were scheduled | is the stream ordered and gap-free (`ImplementsOrderedStream`, `WrittenInOrder`), does the worker hold nothing it could write (`NothingDueIsHeld`), are the merged ranges exactly the skips processed (`RangesAreProcessedSkips`), is everything due written at the end (`DrainedOnExit`) and nothing after it (`NothingWrittenAfterSave`), are the bytes in flight bounded (`BytesInFlightBounded`) and the unsigned differences sound (`ScheduledCoversProcessed`) |
| `ordering_live` | 2 threads, 3 keys, fair | does a command whose predecessors are submitted reach the stream, do `Record` and `Close` return |
| `writer` | 2 compression threads, 4 blocks, 10 commands, two to a block, the first of which does not fit into a new block, fair | block ownership, no overwriting, no loss, no overrun, the file is right (`ImplementsCommandFile`); `Record` and `Close` return, unless `Stalled` (`CallReturnsOrStalls`) |
| `writer_close` | 1 compression thread, 2 commands | *violated*: `Close` hangs on a lost wakeup |
| `reader` | 2 threads, 4 blocks, a stream of 5 blocks of 1 command, the second of which may close, fair, up to the first early return of `WaitForRunDone` (`BeforeEarly`) | compressed blocks have one owner (`OneOwner`); no overwriting, no loss, and commands in order (`PlaysUntilEarly`); `Run` returns, unless `HangsAtEnd` or `HangsOnClose` |
| `reader_spurious` | 1 thread, a stream of 3 blocks | *violated*: a block that is to be run is overwritten |
| `reader_end` | 1 thread, a stream of 2 blocks | *violated*: `Run` waits for the block after the last one |
| `object_creation` | 2 workers, 3 objects, one used by another, 1 root signature, up to 2 references | references, live providers, single creation, arguments present, calls return |
| `gpu_settles` | 2 queues, 2 fences with values up to 2, 1 list with 2 recordings, 5 calls, fair | is every execution serialized in an order the GPU allows (`ImplementsGpuQueues`), is nothing held back (`NothingHeldBack`), does the GPU come to what was tracked (`GpuSettlesAsTracked`), do the waits for fences and queues return (`CallsReturn`) |
| `gpu_resubmit` | the same, lists may be executed twice with one recording | *violated*: the second execution is missing |
| `vulkan_cut` | 2 queues, 2 fences, 1 binary semaphore, a timeline up to 2, 2 events, 5 kinds of submits, 2 calls before the cut and 3 after it, fair | does the replay see what the recording saw of fences, the timeline and followed events (`SeenIsReproduced`), is nothing stuck in it that is not in the recording, until it makes an invalid call (`ReplayDoesNotStarve`), do catch-up waits return, unless `HangsOnAny`, `HangsOnEvent` or `invalid` |
| `vulkan_any` | the same, the cut at the first present, 3 calls in the range | *violated*: a catch-up wait for a fence hangs |

**Why the bounds are enough.** In `ordering`, four keys let a key be overtaken by
three others, ranges grow, merge and be consumed from both ends, and `Present`
mint two keys in the middle of others; what matters to the worker is the order in
which tasks arrive, and two threads produce every order the protocol allows while
one of them holds back the first key. The thresholds are so small that throttling
happens. In `writer` and `reader`, the code has as many blocks as twice the
threads, so two threads have four blocks; five blocks of data make the first one
be reused while its earlier contents are still on their way, and fill the
pipeline so that the first stage waits; in `writer`, blocks grow at either command, and
`Close` finds the last one full, half full or empty. An early return of `WaitForRunDone`
is a step of the `reader` run too, but not followed: its properties but `OneOwner` say
nothing beyond it, and `OneOwner` holds there by the theorem (section 5).
In `object_creation`, three objects keep
two tasks in the queue while a third is created, and two references make deferred
updates of both signs. In `gpu_settles`, five calls are a wait of each queue for
the other, two signals that release them in turn and an execution behind them, or
a fence lowered below a value once waited for; a list recorded twice has its first
recording waiting while the second is made. In `vulkan_cut` a signal, its wait, the
submit between them and the poll of its fence fall on either side of the cut in
every way, one event is followed and the other is not, and three calls in the range make
the shortest hang on a fence. Symmetry of the
threads is used in `ordering` only, which has no liveness property.

**Fairness.** The operating system schedules every thread: weak fairness of the
steps of each thread that is inside a call, of each worker, compression,
decompression, reading or writing thread. The application owes nothing: minting a
key, calling `Record`, `Close`, `Create` or `Shutdown` is never fair, nor is a
spurious wakeup or an early return of `WaitForRunDone`. Of the GPUs, each queue performs what it may; the calls of a
stream are never fair, so a wait that needs a later call hangs, as it does in the
code. In `VulkanReplay` only the replay's GPU is fair: the recording's may be as
slow as it likes. No property needs strong fairness: the mutex is not modelled as
a place where a thread can starve, and a GPU event that has become possible stays
so.

**Mutants.** Each property of a passing run has a plausible bug (the operators
named `Fault...` beside the definitions they replace) that makes it fail.

## 4. What the runs found

1. `writer_close` (`streamWriter.cpp:286`). The writing thread scans the blocks
   and releases the mutex between two of them. A block it has passed may become
   full, with its notification, before the end of the scan; then the thread waits,
   and if no other block follows, for ever, and `Close` with it. `writer`
   shows that this is the only way to hang. It can also happen in the middle of a
   recording, when all blocks fill up behind the one that was missed.
2. `reader_end` (`streamReader.cpp:204`). `Run` tests the end of the stream before
   it searches the next block, and the search waits in a loop that does not. If
   the reading thread reports the end after the test, `Run` waits for ever.
   `reader` shows that, unless `WaitForRunDone` returns early, the only other way
   to hang is `HangsOnClose` (`streamReader.cpp:133`): after `Close` the decompression threads may all leave
   with the compressed blocks full; the reading thread waits for a free one for
   ever, and `Run` for the reading thread.
3. `reader_spurious` (`streamReader.cpp:267`). `WaitForRunDone` waits once and its
   caller does not look again. A wakeup without a notification, which C++ allows,
   makes the thread decode into a block that `Run` has not run: the runners of both
   contents end up in one list, which `Run` may be iterating over, and the number that
   `Run` looks for is gone.
4. `gpu_resubmit` (`commandListExecutionService.cpp:37`). An execution takes the
   commands of its lists along and erases their entries. A list that is executed
   again without a new recording is passed over: the serialized stream lacks the
   execution.
5. `vulkan_any` (`Vulkan/player/replayCustomizationLayer.cpp:341`). A
   `vkWaitForFences` that has returned for one of several fences is caught up with
   by a wait for *all* of them that have a pending signal. One whose submit waits
   for a timeline value that the application signals later never comes.
   `vulkan_cut` shows that, of the catch-up waits of a replay that has made no invalid
   call, only this one hangs, and those for events that are not followed
   (`HangsOnEvent`, below).

More facts are stated as exceptions that properties make. `FlushReturns` excepts
`LeftTooMuch`: a thread that saw the recorder open just before it was closed may
push its task after the worker has left; if more bytes than
`BYTES_ALLOWED_DIFFERENCE` (256 MiB) are left like that, `ConditionalFlush` spins
for ever. `DrainedOnExit` excepts the same late tasks, which are lost.

`CatchUpReturnsOrHangs` excepts `HangsOnEvent` and `invalid`; without either, the
instance of `vulkan_cut` fails.

- What a submit does to an event is tracked at the submit (`syncStateService.cpp:172`),
  so an event that a command buffer resets is unset in what is restored although the
  recording's GPU may not have come to the reset. If the application then sees the event
  set in the range, the loop at `replayCustomizationLayer.cpp:235`, which waits for the
  same answer, never ends.
- `vkCmdExecuteCommands` folds the queries and layouts of a secondary command buffer into
  the primary, and not the events it sets (`subcaptureLayer.cpp:1983`). An event that is
  set there and seen set before the cut is not restored.
- The replay's GPU may have reset an event again before the poll, and so ahead of the
  recording's.
- The timeline semaphore is restored to the highest value that any submit so far is going
  to signal (`stateTrackingService.cpp:2078`). If the submit waits for a value that the
  host signals in the range, that `vkSignalSemaphore` is below the counter in the replay,
  which Vulkan forbids: `invalid`, on which `ReplayDoesNotStarve` depends too.

`FlushCommandQueues` does not wait for a queue that the tracker holds at a wait, so
executions given to the queue *before* that wait may still run while the state is
read (`gpuExecutionFlusher.cpp:40`, `stateTrackingLayer.cpp:113`). Of the other
queues it does wait, and `CallsReturn` says that it comes back.

**Limits of the passing runs.** A second `Close` of the recorder returns while the first
is still saving (`orderingRecorder.cpp:62`); the runs have one closer, so nothing is
shown about two. `OrderingRecorder` takes the calls of the writer, `Record` and `Close`,
as steps that return, although finding 1 shows that they may hang: `ordering_live` says
what holds while the writer does not stall, and `writer` in which case it does.
`gpu_settles` has no list that is executed twice with one recording: what happens then is
covered by `gpu_resubmit` alone, which fails.

## 5. Proofs

Each theorem holds for every value of the constants that the named assumptions of
its module allow, in every behaviour of its specification. Types, and what is
listed here:

| Module | Theorem | Says |
|---|---|---|
| `OrderingRecorderProofs` | `OrderCorrect` | the stream is in the order of the keys (`WrittenInOrder`) |
| | `CountersNeverWrap` | the unsigned differences of the byte counters are sound (`ScheduledCoversProcessed`) |
| | `FlightIsBounded` | the bytes in flight are bounded (`BytesInFlightBounded`) |
| `OrderingRecorderRefinement` | `RecorderImplementsStream` | the recorder implements `OrderedStream` |
| | `StreamIsGapFree` | hence: whatever is in the stream, all that precedes it is too |
| | `NothingDueIsEverHeld`, `RangesExact` | the worker holds nothing it could write; its ranges are the skips it has processed |
| | `ExitDrains`, `SavedIsFinal` | closing drains what is due, and nothing is written after it |
| `StreamWriterProofs` | `AlwaysOneOwner`, `TargetAlwaysFree`, `BlocksNeverAbandoned`, `DataAlwaysFits` | a block has one owner, is not overwritten, is not dropped, and is not overrun |
| | `WriterImplementsCommandFile` | the writer implements `CommandFile` |
| `StreamReaderProofs` | `AlwaysOneOwner` | a compressed block of the reader has one owner |
| | `TargetAlwaysFree`, `BlocksNeitherLostNorTwice` | until `WaitForRunDone` returns early, its blocks are not overwritten, lost or duplicated |
| | `ReaderPlaysUntilEarly` | until then, the reader implements `Playback` |
| `ObjectCreationProofs` | `ProvidersStayAlive`, `CountsAlwaysAgree`, `NothingCreatedTwice`, `ArgumentsAlwaysFound` | all safety properties of object creation |
| `GpuExecutionTrackerProofs` | `TrackerHoldsNothingBack` | between two calls nothing is held back that could be done |
| `GpuReplayProofs` | `ReplayImplementsGpuQueues` | the executions serialized are those of a GPU that was given the same calls |
| | `ReplaySettlesAsTracked` | the GPU comes to rest with the fences and the work that were tracked |
| | `ReplayHoldsNothingBack` | nothing is held back in the replay |
| `VulkanReplayProofs` | `SeenIsAlwaysReproduced` | what the application has seen of fences, the timeline and the followed events is signaled in the replay |
| | `ReplayNeverStarves` | until the replay makes an invalid call, nothing is stuck in it that is not stuck in the recording |

None of these is inductive. The invariants, and why they hold:

**Recorder, order.** A command is appended when its key equals `nextKey`, so all keys
written so far have to be smaller and `nextKey` may never move back. `OrderInv` adds
what is typed about a submission in progress (`Submitting`), that no range ends
before it starts (`RangesForward`), and that written keys are below `nextKey`, or
equal to it only between the write and the update (`WrittenBehind`).

**Recorder, refinement.** `StreamInv` has two more parts. `Protocol` is what the layers
do with the keys: one thread submits a key, at most once as skipped and then once as
recorded, and in that order also in the queue. Without it the refinement fails: a key
skipped after it was recorded could be in the stream already. `Bookkeeping` accounts
for every key: one that was skipped is in the queue, in a range or past; one that was
recorded is in the queue, skipped, in the heap or in the stream; ranges lie apart and
ahead of `nextKey`, and a key that is past is skipped or in the stream. A write then is
the write of the next due command, and everything else stutters. `CloseInv` adds that
the worker leaves only late submissions in the queue, and that `m_Recorder` is closed
after it has left.

**Recorder, bytes.** `processed <= scheduled` needs that the bytes processed, queued and
about to be pushed are together no more than those scheduled. A sum over threads and a
queue would need induction; instead every scheduled byte has a number and at most one
owner (`BytesOwned`), and only cardinalities are compared. `CheckedClose` and
`AheadBounded` carry the bound: a thread that has passed the check saw the counters
close to one another, and every thread since adds one task. `ThreadsAssumption`, that
the threads are finitely many, is needed for the bound.

**Writer.** `OwnerInv` says for each uncompressed block that it is free, being filled,
once in the queue or with one thread, and for each thread whose `WaitForWriteDone` is
over that its target is free, *although it does not look again* (`WaitSound`): the
wait names the block, and only the writing thread, which clears it, ends the wait.
`IdsPending`: a number that was published and is not written is on one block. From it
follows that the two exits of `Compress` below the queue are never taken.
`FileInv` adds that the blocks *cut* the commands into batches: there is a cut such that
block number n holds the commands between its cuts and the file those before the cut of
the number written last. Steps of the compression threads move batches and keep the
cut, so the order in which they run cannot matter. `ThreadsAssumption`, that there is a
compression thread, is needed: without any there are no blocks.

**Reader.** `ExclusiveInv`, types and ownership, needs nothing of `WaitForRunDone`: an
early return lets a thread touch an uncompressed block that is not its own, but the
compressed one is. The rest of `OwnerInv` is the mirror image of the writer's, and an
early return breaks it, so what is invariant is `early \/ OwnerInv`; in the same way the
two invariants that follow. None of the theorems has a hypothesis. `PlayInv` says how
many commands have run by where `Run` is,
which makes the order of the stream the order of execution; `OnceInv` that while `Run`
is running each number read and not yet run is on one block.

**Object creation.** `CreationInv` follows an object through the service. `QueueInv`,
`JobInv`, `CurrentInv`, `OutputInv`: it is issued, queued or taken by one thread, which
is a worker or the player, and created by that one. `CountInv`: what the application
held before the call in progress (`Held`) is the count of the object plus what is
deferred, or one plus what is deferred before it is created. `KeptInv`: an object that
is alive is outstanding, put aside or known, and in one of these places. `NeedInv`: what
the call in progress names is found, or is still on its list to be completed. `UseInv`:
whatever an outstanding creation uses is found and has it among its dependencies,
unless its last release is completing that creation right now. Together they make the
order in which workers, `Complete` and deferred updates interleave irrelevant. The
assumptions say that no object has the reserved key 0 (`NoneAssumption`: keys are minted
from 1, `captureManager.h:103`) and bound the references.

**Tracker.** `NothingHeldBack` speaks about the time between two calls and has to be
re-established by the loop of `FenceSignal`. `TrackerInv` adds `ScannedAreHeld`, that a
queue which the scan has left is held with the fences as they are now, and `LoopEnds`,
that no queue is left to scan when no signal is left to apply: only a signal changes a
fence, and it puts all queues back into the scan, also when its new value is lower; an
event is appended only behind another one or as a wait that is not satisfied.

**GPU replay.** `ReplayInv` has to relate three views of the same calls: the tracker's
`queueEvents`, from which a wait that is satisfied is dropped at once while one behind
other events stays; `issued`, what the abstract GPU has still to do; and `gpuTodo`, of a
GPU that may not have begun. The relation, `GpuFollows`, is that there is a number d[q] for
each queue such that the first d[q] events of `gpuTodo[q]` are done in the tracker's view
and the others are `issued[q]`, and

- each fence of the tracker is what the last done signal makes of it (`SettlesAt`);
- the done events can be performed: they have ranks that do not fall along a queue, and a
  wait is for a value that the fence has or gets from a done signal of a lower rank
  (`Ranked`). So a GPU at rest has performed all of them, since the one of least rank
  could go on;
- what is not done begins, on each queue, with something that the tracker holds (`Held`);
  so the GPU stops there too;
- the tracker's events are found among those of the GPU in the same order, and nothing
  that is not done is missing there but satisfied waits (`Matches`).

All this would be lost if a done wait could become unsatisfied again before the GPU has
come to it. That it cannot is the application's part: a fence is signalled by one queue at
a time (`OneSource`), with rising values (`Rising`), and not lowered while somebody waits
for it (`WaitsRise`); these follow from the guards of the calls and are part of the
invariant. While `FenceSignal` runs, a value taken from a queue and not yet applied counts
as settled, and `LoopRises` says that the loop never lowers a fence that is waited for. The
theorems have the hypothesis `~Resubmits`: a list is executed once per recording. With
`Resubmits`, `ImplementsGpuQueues` is false (finding 4). `WorksAssumption` says that `Works`
has every work that lists submitted with a recording can give, `MaxRecordingsAssumption`
that recordings are counted by numbers.

**Vulkan.** `SeenIsReproduced` has to hold at the restore, where what was seen before the
range must be in what is restored, and after each catch-up wait. For the first,
`TrackedAhead` and `FencesFollowed`: what is tracked is behind neither the GPU nor what
its queues have still to do, so it covers what was seen (`KnownIsSo`). For the second,
a fence that is in use has a pending signal in the replay, so that dropping the fences
without one from the wait drops none that the recording has seen. `FencesOnce`, that
a fence which a queue is going to signal is not signaled and no other submit signals
it, is what keeps this true when fences are reset. Of events, all of this speaks only of
`FollowedEvents`, and needs that no submit in a queue resets one of these or sets it
unnoticed (`QueuesHarmless`), which follows from what `FollowedEvents` is.

`ReplayDoesNotStarve` compares the queues of two GPUs, of which either may be ahead, and
needs the order in which the recording performed its submits. The model keeps no such
history; the invariant (`OrderInv`, on top of the one above) says instead that some order
exists, as long as the replay is not `invalid`: a host signal that is below the counter of
the replay may lower it. The queues of the two end with the same submits (`SameStream`); what only the
recording has performed can be performed by the replay in the order of ranks that rise
along each queue (`Ranked`): a semaphore that one of these submits waits for is there or is
signaled by one of a lower rank, and likewise the value that it has to reach. What the
recording performs gets the highest rank. That nobody takes a semaphore from the submit it
is meant for is the application's rule, which `SemaphoresKept` spells out for both GPUs: a
semaphore is signaled, or going to be, by one submit and for one that waits for it, in
accordance with `stage`. In the replay this has an exception. What the recording has
learned of a fence makes semaphores idle which the replay still waits for, but only while
a catch-up wait is for that fence (`Awaited`); `FencesKept` says that a fence a queue of the
replay is going to signal is not signaled yet, and so no longer pending once the wait is
over. At the restore `RestoreComplete` counts: the semaphores that are tracked are exactly
those which are owed, and `TrackedAhead` covers the timeline. The submit of the least rank
can be performed, so a replay at rest has performed all that the recording has.
`StagesAssumption` says that no fence is one of the two marks of `stage`.

*Only model-checked.* Liveness, which is out of the provers' reach: `SubmittedIsWritten`
and the other properties of `ordering_live`, `CallReturnsOrStalls`, `CallsReturn`,
`CatchUpReturnsOrHangs`, `RunReturnsOrHangs`.

## 6. Plan

In this order; each item is a module with its run, composed or refined as stated.

1. *Done:* `OrderingRecorder` over `OrderedStream`, with proofs.
2. *Done:* `StreamWriter` over `CommandFile`.
3. *Done:* `StreamReader` over `Playback`.
4. *Done:* `ObjectCreation`.
5. *Done:* `GpuExecutionTracker`, `CommandListExecutionService` and `GpuReplay` over
   `GpuQueues`, with proofs.
6. *Done:* `VulkanSyncState` and `VulkanReplay`, with proofs.
7. `StreamLegacyReader`, a variant of the reader whose flags change outside of the
   mutex, over the same `Playback`.
8. The recorder end to end: `OrderingRecorder` feeding `StreamWriter`, and the exit
   sequence with the message bus and the process exit hooks.
9. The fence service, the legacy producer/consumer queue of token lists and the
   shared ring buffer of fast output.

Every safety property that a passing run checks is a theorem (section 5).

## 7. Not modelled, and why

- The contents of commands, coders, layers and per-API libraries: sequential, broad
  and mostly generated; their correctness is about data, not about orders of steps.
- Compression, the file header, allocation sizes of the reader, I/O errors and
  corrupt streams: pure I/O or library calls.
- In the writer, the rewriting of the header by `WriteApi`, which seeks in the
  stream under the mutex while the writing thread writes without it: no recorder in
  the sources writes a block of commands before the first API command.
- In object creation, pipeline libraries (the same object loaded again under the
  same key, with a count of its own) and `AddToStateObject`.
- In Vulkan synchronization: query pools, which are caught up with by
  `vkDeviceWaitIdle`; the offscreen acquire, which signals by a submit to the first
  queue, and the rewinding of presents to get the recorded image, both of
  `swapchainImageSyncService.cpp`; the semaphores of sparse binds, which the code leaves
  untracked on purpose (`subcaptureLayer.cpp:546`), so that a submit that waits for one
  across the cut would starve.
- In both replays, calls of several threads: the recording orders commands by a key
  that is minted before the real call, so a query may be recorded before the signal
  it has seen, and the wait of the replay would hang on it. The models make calls one
  after the other.
- In the DirectX player, waits with a deadline (a wait that does not return ends
  after 60 seconds, with an error), fences that `CreateFence` has not created, for which
  the tracker has no value, and the
  incremental wait.
- The fence service of the recorder (`DirectX/recorder/fenceService.cpp`). What it does
  depends on Windows events and on the order of the wrappers' layers. Where it looks
  fragile: an event armed again for the same fence loses the earlier value (29-34); a
  wait for a single event records without looking at the value and removes an event
  that was armed again (71-84); with a manual-reset event a second waiter may return
  before the wait of the first is recorded (90-92); the fence is used after the mutex
  is released (102).
- The legacy reader, scheduler and libraries, kept for old streams.
- Launcher, plugins, scripts, build files, third-party code.
