# Verification of the player: buffers, rings, streams and events

The repository holds the drivers and applications of set-top boxes with ST's SH4
chips.  Its largest piece of original, concurrent logic is the media player,
`src/tdt/cvs/driver/player2_191`: coded data is collated, parsed, decoded and
shown by four processes per stream, which hand reference-counted buffers to each
other through rings.  This directory specifies that core in TLA+ (the containers,
the four processes with their markers and control messages, re-ordering, native
times, the time mapping that streams agree on and the events that user space sees), checks it with TLC on small instances
and proves theorems about it with TLAPS.

Paths below are relative to `src/tdt/cvs/driver/player2_191` unless they start
with `src/`.

## 1. Inventory

| Part | State | Operations | Interacts with | Hard behaviour | What makes it correct |
|---|---|---|---|---|---|
| Ring (`components/infrastructure/ring_generic.cpp`) | storage, two indices, lock, event | Insert, Extract, Flush, NonEmpty | every process of a stream; free list of a pool | unlocked reads, undo of a refused insertion, wake-up | it is a bounded queue; no wake-up is lost |
| Events and mutexes (`linux/components/inline/osinline.c`) | Valid flag, wait queue | set, reset, wait with time-out | all parts | manual reset by one of several waiters | (modelled in its users) |
| Allocator (`components/infrastructure/allocator_simple.cpp`) | table of free blocks, highest used index, event, two flags | Allocate, AllocateLargest, Free, ExtendToLargest, destructor | pools | stale index, table full, blocking for ever, deletion under a caller | every unit in one place; no block crosses 64 Mb; allocations end |
| Buffer pool and buffers (`player/buffer/*.cpp`) | ring of free buffers, counts, attachments, flags | GetBuffer, abort, reference counts, attach, detach, release | all stages; rings; allocator | several processes decrement, chains of attachments, locks across calls, abort flag per pool, failed allocation | count = references; one release; getters and aborts end |
| Memory of a pool (same files) | offset and size of each buffer, data sizes, two totals | get, set data size, shrink, extend, partition, release | allocator; collators, codecs | unlocked totals, unsigned wrap, rounding | no memory shared or lost; totals agree |
| Player events (`player/player/player_events.cpp`) | event list, signal table | SetEventSignal, GetEventRecord, SignalEvent | all stages, user space | unlocked clearing, full list, deleted playbacks | queue per criteria; no signal lost |
| In-sequence control (`player/player/player_in_sequence.cpp`) | two tables of messages per process | call, accumulate, process | stream processes | full ring or table, shared pool | each call once, at its place |
| Stream processes (`player/player/player_process_*.cpp`, `player_playback.cpp`, `player_switch.cpp`) | four rings, non-decoded table, discard flags, markers | four loops; drain, switch, terminate | all of the above | re-ordering, markers racing time-outs, termination | every frame shown or discarded once, in order; drains end |
| Output coordinator, output timer (`player/output_coordinator`, `player/output_timer`) | a mapping of the playback and one per stream, their versions and jumps, counts of streams | register, synchronize, follow jumps, impose and reset mappings, wait for decode windows, adjust rates | two processes of each stream, the application | several streams wait for each other, mappings replaced under a waiter, contexts deleted | whoever makes a mapping waited for all; jumps are followed; nobody waits for ever or for an old mapping |
| Collators, frame parsers, codecs, manifestors, demultiplexor | syntax and hardware state | parse, decode, show | pools, rings | formats, firmware | (hardly any control of their own) |
| DVB, sound, sysfs devices (`linux/drivers`) | device states | ioctls | player | concurrent ioctls | states follow the player |
| Other drivers (`src/tdt/cvs/driver/*`) and applications (`src/tdt/cvs/apps`) | hardware, remote control, playback of files | | kernel | interrupts, retries | |

`PROJECT.json` lists every part with its status, and under `hazards` each place
where the code can go wrong in a way a test would hardly reach.

## 2. Modules

| Module | Models | Composed with |
|---|---|---|
| `BoundedFifo` | what a ring promises: a queue of bounded length, whose operations take effect at one step | |
| `RingGeneric` | the ring, with every step the lock does not make indivisible | implements `BoundedFifo` |
| `RingGeneric_proofs` | theorems about `RingGeneric` | |
| `BufferPool` | pools, buffers, references, attachments, aborts; the free list is a queue (the ring used under a lock and without blocking is exactly that, by the theorem above) | |
| `BufferPool_proofs` | theorems about `BufferPool` | |
| `AllocatorSimple` | the table of free memory | |
| `AllocatorSimple_proofs` | theorems about `AllocatorSimple` | |
| `PoolMemory` | which memory the buffers of a pool have and the totals kept of it; the allocator is a set of free units | |
| `PoolMemory_proofs` | theorems about `PoolMemory` | |
| `EventQueue` | what the player promises of its event records: a queue from which the oldest match is taken | |
| `PlayerEvents` | the linked list of records, the table of signals, `SignalEvent`, `GetEventRecord`, `SetEventSignal`, and the thread that waits for signals | implements `EventQueue` |
| `PlayerEvents_proofs` | theorems about `PlayerEvents` | |
| `StreamProcesses` | the four processes of a stream, their rings, calls in sequence, drains and switches, for streams that are not re-ordered | rings are queues (`BoundedFifo`'s promise) |
| `StreamProcesses_proofs`, `StreamCalls_proofs` | theorems about `StreamProcesses`; the second goes on from the invariant of the first | |
| `FrameReorder` | display indices given by the parser, frames that are not decoded, the re-ordering loop of the third process | the same |
| `PlaybackTime` | native times that wrap, translated by several streams that share one time | |
| `OutputCoordinator` | the mapping from playback to system time: registration, synchronization, jumps, resets, decode windows | its frames are those that leave `StreamProcesses`' third process |
| `Presentation_proofs` | theorems about `PlaybackTime`, `OutputCoordinator` and `FrameReorder`, all of which it extends: so the specification of the first is `TimeSpec` and its type invariant `TimeTypeOK`, those of the last `ReorderSpec` and `ReorderTypeOK`; no two declare a constant or variable of the same name | |
| `MCRing`, `MCPool`, `MCAllocator`, `MCMemory`, `MCEvents`, `MCStreams`, `MCReorder`, `MCPlaybackTime`, `MCCoordinator` | small instances for TLC | |

How state and actions correspond to the code:

* A variable has the name of the code's variable where there is one, and a
  comment that names it.  Local variables that live across steps are functions of
  the thread (`pc`, `buf`, `outer`, ...).
* A section under a lock that calls nothing is one step, enabled while the lock is
  free.  Where a lock is held across calls or a wait, holding it is a variable
  (`lock`, `poolLock`, `bufLock`).  What is read or written without a lock is a
  step of its own: that is where all the interesting behaviours come from.
* The event is its `Valid` flag.  `OS_WaitForEvent` returns when it sees the flag
  set, even if the flag is reset afterwards: `...Wake` needs it set at one moment,
  `...TimeOut` needs it clear.
* Operators with the comment `Mutant` are wrong versions of the definition that
  follows.  No specification uses them; each shows that a property can fail.

What each module abstracts:

* `RingGeneric`: words are model values, and each is inserted once at a time; a
  period is "none", "finite" or "infinite".  The destructor is not modelled: rings
  are deleted after their processes have ended.
* `BufferPool`: client variables are `Holders`; a client uses a buffer through one
  of them, leaves it alone during the call and gives the reference up with it.
  This is the discipline of the player, and it makes the checks
  `AssertNonZeroReferenceCount` hold (`CountsReferences` implies it).  Clients do
  not attach and detach the same two buffers at the same time.  Owner identifiers
  (read by `Dump` and `GetOwnerList`), metadata, events for a release and pools
  without a fixed number of buffers are left out.
* `AllocatorSimple`: sizes are counted in segments (pools use segments of one
  byte); `Boundary` stands for 64 Mb.  The destructor runs when no client is
  inside `Free`, which holds because a pool is deleted with its last buffer.
* `PoolMemory`: one process works on a buffer at a time.  Which buffer is free is
  not its subject, nor are boundaries.  A total that is changed without a lock is
  read in one step and stored in another.
* `PlayerEvents`: what criteria tell apart in a record (playback, stream, code) is
  one kind.  `SignalEvent` keeps the player's lock while it goes through the table
  of signals, one entry per step, because others clear entries without the lock.
  `ScanEventListForMatch` follows an index pointer without the lock: it reads the
  index once to see whether it is valid and again to use it, and so does the model;
  what goes wrong then is the place `fault`.  With `Quiet`, registrations change
  only while nobody else is inside.  That is what the code needs, and what its one
  client does (`havana_player.cpp:206`, before there is a stream, and `:83`).
* `StreamProcesses`: a step of a process is one turn of its loop, cut where it may
  have to wait with a buffer in its hands (for a decode buffer) and where it passes
  the buffer on before it makes the calls due after it; other processes act in
  between.  The discard flags, `NextBufferSequenceNumber` and the drain's fields are
  shared as in the code.  The codec is a queue of decodes in flight with the marker
  that waits for the last of them; the manifestor a queue that may keep its last
  frame.  The client is the thread that holds the device's lock; each of its calls
  (the flags, the codec, the manifestor, the number, the marker, each control
  message) is a step.  `Patient` says that a client drains only when its last drain
  is complete, `Still` that nothing is injected during one of its calls.
* `FrameReorder`: frames of video are numbered in decode order.  A frame of
  reference is given its display index when the next one comes, others at once; a
  discontinuity purges the one deferred.  The output timer may drop any frame that
  is not a reference, before it is decoded.  The re-ordering loop is one step per
  part: the scan of the table, the indices that will not come, the next buffer, and
  what is done with the frame chosen.
* `PlaybackTime`: a baseline is a number of wraps, and the range of native times is
  `4 * Quarter`.  The true times are history variables: how often a stream's time has
  really wrapped.  Streams follow one clock: what a stream's next time and its first
  time may be is stated by `NextTime` and `FirstTime`, assumptions on the source.
* `OutputCoordinator`: a section under the coordinator's lock is one step, and what
  `GenerateFrameTiming` and `PerformEntryIntoDecodeWindowWait` read or set without it
  are steps of their own.  Of a mapping the model keeps whether it is established,
  whether it is the master's newest version and by which jumps it was moved, so that
  two mappings of one version are the same when their jumps are; whether a time is in
  some range is open.  `EstablishTimeMapping` clears `MasterTimeMappingEstablished` for
  a moment, and streams that read it then are sent to `SynchronizeStreams`.  `Prompt`
  says that a context is deleted only when no frame of its stream is being timed outside
  `SynchronizeStreams` and none awaits its decode window.

## 3. What is checked

Each run ends within about two minutes on two workers.  Names in parentheses are
the configurations.  The type invariants `TypeOK` of `RingGeneric`, `BufferPool`,
`PlayerEvents` and `OutputCoordinator` and `TimeTypeOK` of `PlaybackTime` are proved (see 5) and not checked again; those of
the other modules were checked on the instances below and can be added to the
configurations.

**Ring.**
`RingIsFifo`: each step of the code is a step of the bounded queue or
leaves it alone, where an insertion takes effect when it gives back the lock and
an extraction when it advances its index; `NoLostWakeup`: an extracting process
does not wait on a ring with something in it unless a signal is on its way;
`NonEmptyIsAPromise`: what the only extracting process was told by `NonEmpty`
stays true; `WaitEnds` under fairness.
`RingRoomy` has two inserting processes, one extracting one, two words and two
entries: the ring gets empty and full and its indices wrap again and again, but a
word never finds it full.  `RingOverfull` has more words than entries and two
extracting processes, and checks `RingIsFifo`.  `RingOverfullWait` shows that
`NoLostWakeup` fails on a ring that can be full (see 4).

**Buffers.**
`CountsReferences`: the reference count of a buffer is the number of places that
refer to it, whatever calls are half done; `OneSituation`: a buffer is in one
place of the free list, in the hands of one getter, referenced, being released by
one call, or lost, and only one of these; `ReleaseWakesGetter`; under fairness `GetEnds`, `AbortEndsGet`, `DecrementEnds`.
`PoolAttach` has one frame and two parameter buffers in two pools, two attachment
slots, two threads and three holders, aborts, both values of `NonBlocking` and
failing allocations.  That is enough for two processes to decrement one count
together, for an attachment to be the last reference, for a release to release
attached buffers, for the slots to be full and for a getter to wait, be woken,
time out and be aborted; more threads or holders repeat these situations.
`PoolLive` checks the waiting: one frame, one parameter buffer, one getter for
each pool.  `PoolAbortTwoGetters` shows a lost abort.

**Allocator.**
`EachUnitOnce`: a unit of memory is in one usable free block, in one client's
block, in one block on its way back, or in one that `Free` has refused because its
table is full (the history variable `refused`); `CrossesNoBoundary`; `Coalesced`:
free blocks that touch are joined except at a boundary; `AllocateEnds`,
`DeleteEnds`.  `Allocator` has one process that allocates, one that
frees, shrinks and extends and one that deletes the allocator; six segments with a
boundary in the middle, requests of one to three segments and a table of three
entries, which is too few for the worst case: the table does get full.
`AllocatorTwoFreers` shows that `EachUnitOnce` fails with two freeing processes.
`Allocator` turns the deadlock check off: memory that a full table refuses may be
what the allocating process waits for, and nothing is left to do once the
allocator is gone.

**Memory.**
`MemoryOnce`: no unit of memory belongs to two buffers or to a buffer and the
allocator, and none is lost; `UsedAgrees`: between calls the total of the data is
the sum of the data sizes, modulo the width.  `Memory` has one process, three
buffers, four units, an allocation unit of two and unsigned ints of three bits:
sizes are rounded, partitions of partitions happen, differences wrap.  Its
requests and sizes follow the player: shrinking to a size that rounding would
bring above what a partition has would break `MemoryOnce` (a hazard in
`PROJECT.json`), and no client does it.  `MemoryShrinkTotal`, `MemoryTwoThreads` and
`MemoryPartitionData` are findings; the first violates `AllocatedAgrees`, between
calls `TotalAllocatedMemory` is the memory the buffers have.

**Events.**
`ListIsChain`: the links from the head go through exactly the records in use and end
at the tail; `EventsAreAQueue`: each step is a step of the queue, or leaves it
alone; `NoLostSignal`: a thread does not wait for its event while a record it
registered for is in the list, unless the event is set or about to be; under
fairness `GetterEnds` (a blocking call ends when a record stays)
and `LifeEndsGet` (no call outlasts the player, or the playback it names).
`Events` has a signaller, a getter and a watcher, two kinds, criteria for one and
for both, two records and two signals.  Two records are enough for the list to be
full, for the discarded one to be the only one but the last, and for records to be
taken from its head, its end and out of turn; the proof has no such bound.

**Streams.**
`DrainedMeansPassed`: when the event of a drain is set, what was injected before its
marker has left; `BehindMarkerIsKept`: nothing behind the marker is discarded;
`ResetOnTime`: a frame is timed after exactly the resets of the time mapping that
drains before it ordered; `PartsMatch`: a frame is parsed and decoded by the parts of
its own stream; `OldPartsUnused`: what a switch replaced is in
nobody's hands when the next one has been accepted; under fairness `DrainEnds`,
`FrameLeaves`.
`Streams` has two frames and two calls of the client, each a drain that waits, one that
does not, or a switch, and each discarding or not; tables of two messages and two
decode buffers.  Each frame may come before, between or behind the calls, the codec
may have none, one or two decodes in flight, and the parser may have to wait for the
codec while the codec's process waits for a decode buffer.  `StreamsDrainOverlap` shows
`DrainedMeansPassed` fail when drains overlap.

**Re-ordering.**
`InDisplayOrder`; `CallsWait`: a call in sequence is made when no frame with a lower
number is left to be shown; under fairness `DecodeGoesOn` (the codec gets a decode
buffer again), `MarkerLeaves`.
`Reorder` has up to seven frames of any types, up to two ahead of the decoder, with one
jump or discarding drain (which takes the place of two frames), four decode buffers
and a table for one frame that is not decoded.  Four buffers are one more than the
loop needs; with fewer it gives up the order, as `ReorderAssumption` says.  Seven
frames are enough for two groups of a reference and others after a jump, for holes at
the beginning, in the middle and at the end of a group, and for the full table.

**Times.**
`StreamsAgree`: streams of a playback count the same wraps, and the time they share is
right for the next; `MovesWithTheClock`.  `PlaybackTime` has two streams, eight native
times and up to two wraps, forwards and backwards.

**Coordinator.**
`StartsTogether`: the step that makes a mapping is taken when every registered stream is
waiting in `SynchronizeStreams`, or after the maximum of waits; `WindowWaitAborted`: a
process that awaits a decode window of a mapping that was reset, replaced or re-scaled
since it looked is woken; `NobodyInside`: a context is not deleted while a process is in
`SynchronizeStreams` with it; `SynchronizeEnds` and `JumpIsSettled` under fairness: no
stream stays in `SynchronizeStreams`, and once the jumps are over a stream that goes on
having frames agrees with the master's mapping, or the mapping is gone.
`Coordinator` has two streams, two waits, jumps in one direction, up to two of them, one
decode window, and mappings imposed, reset and re-scaled at any moment.  Two streams are
enough for one to make the mapping while the other is in each place of the code; with two
jumps a stream can be behind by more than its own.  `CoordinatorBothWays`, run by hand,
has jumps both ways and also checks `TypeOK`.

**Fairness.**  A thread inside a call keeps running, because the kernel's scheduler
runs a runnable thread.  In `RingGeneric` and `BufferPool` this is strong fairness of
the thread's steps: a mutex is a kernel semaphore, whose waiters queue, so a thread
that finds it free again and again gets it.  In `AllocatorSimple` no thread keeps
the lock across steps until the destructor takes it for good, and weak fairness is
enough.  In `PlayerEvents` it is strong fairness again (`SignalEvent` keeps the lock).
In `StreamProcesses` and `FrameReorder` it is weak fairness of each process, of the
client inside a call, and of the accelerator, which completes every decode it has
(the player depends on it as much as the model); the manifestor gives back every
frame but the last one, which may stay on display.  In `OutputCoordinator` it is weak
fairness of the process that is timing a frame; the lock is only held for a step, and the
wait in `SynchronizeStreams` has a period.  No frame need ever be injected,
dropped or drained.  Nothing makes a client start a
call, and an infinite wait has no time-out; the time-outs of waits with a period
do happen, as steps of the waiting thread.

## 4. Findings

One is a run of `PROJECT.json`: `player_playback.cpp:1050`, where a stream has one event
for all its drains; the marker of a drain that was not waited for ends the next one's wait
(`StreamsDrainOverlap`, `DrainedMeansPassed`).

The others have a configuration here that TLC ends with the counterexample, run by
hand (`tlc -config <name>.cfg <module>`):

| Configuration, module | Property | Shows |
|---|---|---|
| `RingOverfullWait`, `MCRing` | `NoLostWakeup` | `ring_generic.cpp:90`: the unlocked test of `Extract` sees the index of an insertion that is about to be refused, and waits on a full ring |
| `AllocatorTwoFreers`, `MCAllocator` | `EachUnitOnce` | `allocator_simple.cpp:322`: an index read before the lock makes two concurrent `Free`s lose memory, although "this loop does concatenation of free blocks as well as freeing the current block" (:327) |
| `PoolAbortTwoGetters`, `MCPool` | `AbortEndsGet` | `buffer_pool_generic.cpp:510`: entering `GetBuffer` clears the abort of another process's `GetBuffer` |
| `MemoryShrinkTotal`, `MCMemory` | `AllocatedAgrees` | `buffer_pool_generic.cpp:1527`: shrinking does not update `TotalAllocatedMemory`, which drifts upwards |
| `MemoryTwoThreads`, `MCMemory` | `UsedAgrees` | `buffer_individual_generic.cpp:338`: `TotalUsedMemory` is changed without the lock and loses changes |
| `MemoryPartitionData`, `MCMemory` | `DataFits` | `buffer_individual_generic.cpp:464`: a buffer partitioned before its data size is set gives a second partition with a data size of almost 2^32 |
| `EventsUnlocked`, `MCEvents` | `NoLostSignal` | `player_events.cpp:340`: the scan without the lock may miss a record, or use an index that is no longer valid |
| `SwitchInjected`, `MCStreams` | `PartsMatch` | `dvb_video.c:1121`: a frame injected while `SwitchStream` makes its calls has the new collator and the old parser |
| `ReorderMarker`, `MCReorder` | `CallsWait` | `player_process_decode_to_manifest.cpp:203` says "we have emptied our accumulated list"; in a drain that plays out the last frame of reference has no display index yet and stays behind |
| `ReorderCollapse`, `MCReorder` | `InDisplayOrder` | `player_process_decode_to_manifest.cpp:656`: frames of reference dropped around a jump raise `DisplayIndicesCollapse` beyond frames still being decoded |
| `CoordinatorTornDown`, `MCCoordinator` | `NobodyInside` | `output_coordinator_base.cpp:418` says "Make sure no one is trying to synchronize this stream"; a process that is about to, or that awaits a decode window, goes on with a deleted context |
| `CoordinatorAlternate`, `MCCoordinator` | `AlternateIsSettled` | `output_coordinator_base.cpp:948`: a stream that takes the master's mapping, which contains its jumps, is recorded as having made none, and is later said not to have followed them: everything is reset once more |
| `CoordinatorLoss`, `MCCoordinator` | `LossAborts` | `output_coordinator.h:362` says the wait for a decode window is aborted by "a loss of time mapping"; `SynchronizeStreams` (:974) invalidates the mapping without waking anybody |

## 5. What is proved

`RingGeneric_proofs`, for any number of entries, any words and any finite or
infinite sets of inserting and extracting processes:

* `TypeCorrect == Spec => []TypeOK`;
* `RingImplementsFifo == Spec => RingIsFifo`, that is, the ring implements the
  bounded queue under the refinement mapping `Queue`;
* `RingKeepsWordsOnce == Spec => []OnceInv`: no word is stored twice, or stored while
  a client has it;
* `RoomyKeepsWakeups == Roomy /\ SoleExtractor => (Spec => []NoLostWakeup)`;
* `RoomyKeepsPromises == Roomy /\ SoleExtractor => (Spec => []NonEmptyIsAPromise)`.

The assumption is `RingAssumption` of `RingGeneric` (a positive number of entries,
disjoint sets of processes).  `TypeOK` is not inductive: `NextInsert` is advanced,
wrapped and perhaps undone in three steps, and it is out of range in between.  The
inductive invariant says of the process that has the lock where in its section it
is, what it has saved, and that nobody else is inside one; from it each step of
the code is shown to be a step of the queue or to leave `Queue` alone.  The
arithmetic of the mapping (what advancing an index does to the sequence of the
entries between the two indices) is in lemmas of its own.

`Roomy` says that there are at least as many entries as words, `SoleExtractor` that one
process extracts.  Both hold of the rings between the processes of a stream, which are
as large as the pools their words come from and are read by one process each; without
the first, `RingOverfullWait` violates `NoLostWakeup` (section 4).  With `Roomy`, `OnceInv` leaves a free entry for the word that an inserter
is storing (`RoomyNotFull`), so that no insertion is undone and the unlocked tests of
`Extract` and `NonEmpty` read indices that differ only if there is something
(`WakeInv`, `PromiseInv`).

`BufferPool_proofs`, for any finite sets of threads, buffers,
client variables, any pools and any number of attachment slots:

* `TypeCorrect == Spec => []TypeOK`;
* `ReferencesAreCounted == Spec => []CountsReferences`;
* `BuffersHaveOneSituation == Spec => []OneSituation`;
* `ReleasesWakeGetters == Spec => []ReleaseWakesGetter`.

The assumption is `PoolAssumption` of `BufferPool`: finitely many threads, buffers
and client variables, each buffer in one pool.  `TypeOK` becomes inductive with
what a thread has in its variables at each point (`PointInv`) and who holds which
lock (`LockInv`).  The two other properties need each other, and more; the
inductive invariant is `PoolInv`:

* `ThreadsInv`: what a call has in hand.  In particular a call that works on a
  buffer does so through a client variable that refers to it, which keeps its count
  above zero, and the buffer that a release works on is the last of its stack;
* `PairInv`: calls of different threads use different client variables and slots,
  and no pair of buffers is attached and detached at the same time.  This is the
  client's discipline; without it a detachment could take away a reference that its
  attachment has not counted yet;
* `SituationInv`, of which `OneSituation` is the numerical form, and `CountInv`;
* `AttachedInv`: a buffer that is not referenced has attachments only while it is
  being released, and none when it goes back to the ring.  `GetInitialize`
  forgets the attachments of the buffer it got without looking at them, so this is
  what keeps references from disappearing;
* `HomeInv`: a buffer is only in the ring of its own pool.  With `SituationInv` it
  gives that the ring has room for a buffer that is put back, although
  `ReleaseBuffer` does not look at the result of `Insert`.

The proof has one lemma for each action (and one for those that move neither a
reference nor a buffer).  The core of the argument is in
`DecrementInv` (the thread that takes the count to zero finds nobody else who has
the buffer) and `CountPositive`, `StackIsReleased`, `PendingIsCounted` (nothing can
be attached to, or counted for, a buffer that is being released).
`ReleaseWakesGetter` needs only what the loop of `GetBuffer` knows (`LoopInv`: it has
the lock while it looks at the ring and resets the event, and finds nothing only in an
empty ring) and `WakeInv`.

`PlayerEvents_proofs`, for any sizes of the two tables and any sets of signallers,
getters and watchers, also without `Quiet`:

* `TypeCorrect == Spec => []TypeOK`;
* `ListIsAlwaysAChain == Spec => []ListIsChain`;
* `PlayerEventsImplementEventQueue == Spec => EventsAreAQueue`;
* `QuietLosesNoSignal == Quiet => (Spec => []NoLostSignal)`.

The assumption is `EventsAssumption`.  The inductive invariant is `TypeOK`,
`ListIsChain` and `Carries` (what a signaller has in hand).  `chain`, the list as a
sequence, is a history variable: `ListIsChain` says that it is what the links say, the
refinement mapping `Queue` reads it, and each step is shown to append to it, to remove
from it or to leave it alone.  That a record is dropped only from a queue of full
length needs a counting argument: as many different entries in use as there are
entries (`FullWhenNoneFree`).  `NoLostSignal` needs `Quiet`: signals are set and cleared
only while no event is being signalled; without it the run `EventsUnlocked` violates it
(section 4).  Its invariant, `SignalInv`, follows a watcher through its scan of the list:
of the records that match what it waits for none lies behind it unless its event is
set (`Scans`), and a signaller that has put a record into the list has not yet passed
the signal of a watcher that has not been told (`Told`).

`AllocatorSimple_proofs`, for any size of the memory, of the segments and of the table,
wherever the memory begins, and any requests:

* `TypeCorrect == Spec => []TypeOK`;
* `NeverCrossesABoundary == Spec => []CrossesNoBoundary`;
* `NothingLostOrShared == OneFreer /\ RoomForCuts => (Spec => []EachUnitOnce)`;
* `FreeBlocksAreJoined == OneFreer /\ RoomForCuts => (Spec => []Coalesced)`.

The first two assume `AllocatorAssumption` and hold with any number of processes that
free.  Their invariant, `IInv`, says of every block (in the table, with a client, in the
hands of a call) that it is `Whole`, which splitting and joining keep.  `OneFreer` (at
most one process frees, shrinks or extends) is necessary: `AllocatorTwoFreers` violates
`EachUnitOnce` without it.  `RoomForCuts` (the table has an entry for each
stretch between boundaries into which the constructor cuts the memory) is so in the code
for up to 64 Mb times the size of the table.  `TableInv` adds to `IInv` that the index
which `Free` read before it took the lock is still past the highest used one
(`Reading`), that no entry beyond the highest index is in use (`Beyond`), where each
unit is (`Placed`), and that no two entries would be joined (`Joined`).  The loop of
`Free` is a recursive function of the index.  The proof first shows that this function
exists, by its least counterexample, then what each turn keeps (`Turning`: the block in
hand, together with what is left of the table, covers what both covered before the loop,
and touches nothing it has passed).

`PoolMemory_proofs`, for any size of the memory, any allocation unit, any width of an
unsigned int and any buffers:

* `TypeCorrect == Shrinking => (Spec => []TypeOK)`;
* `EveryUnitInOnePlace == Shrinking => (Spec => []MemoryOnce)`, for any threads;
* `OneThreadKeepsTheTotal == OneThread /\ IsFiniteSet(Buffers) /\ Shrinking =>
  (Spec => []UsedAgrees)`.

`Shrinking` stands for `AlignedShrinks \/ AlignedBlocks`: the sizes that buffers are shrunk
to are multiples of the allocation unit, or no buffer is partitioned, extended or got
with a lower bound.  It is necessary, since `ShrinkMemoryBlock` rounds the new size up
after it was compared with the old one: with a unit of 3 and shrinks to 1, 2 and 3 TLC
finds `MemoryOnce` violated.  The player satisfies it: the stream of `collator2`,
whose buffers are partitioned and extended, only shrinks to 0
(`player/player/player_process_parse_to_decode.cpp:355`, `codec/codec_mme_base.cpp:1197`), and
the older collators, which shrink to any size (`collator/collator_base.cpp:383`,
`collator/collator_pes_audio.cpp:415`), do nothing of the rest.  The inductive invariant
says which thread has which buffer (`Hands`), that blocks are within the memory and
multiples of the unit where they have to be, and who owns each unit (`Placed`);
two threads may work on two buffers at every point.  `OneThread` is necessary:
`MemoryTwoThreads` violates `UsedAgrees` without it (section 4).  The theorem says that
the unlocked reading and storing is the only reason: neither the order of the calls nor
a partition that makes a data size wrap below zero spoils the total.  Its invariant,
`UsedInv`, adds that a buffer that is free has no data.  The sum over the buffers is a
fold, whose recursive function is shown to exist for finite sets; from it follows that
the sum changes by as much as one of its terms (`TotalChanges`), and the rest is
arithmetic of remainders (`SameRemainder`, `RemainderLast`).

`Presentation_proofs`, of `PlaybackTime`, for any number of streams, any range and any number of wraps:

* `TimesTypeCorrect == TimeSpec => []TimeTypeOK`;
* `StreamsAlwaysAgree == TimeSpec => []StreamsAgree`;
* `StreamsMoveWithTheClock == TimeSpec => MovesWithTheClock`.

The assumption is `TimeAssumption`, and what `NextTime` and `FirstTime` say of the
source.  The inductive invariant adds `SharesATime` (a stream that is about to share has
translated).  The arithmetic is in two lemmas: `NearestAgrees` (rounding the
difference to the shared time finds the wraps of a time within half of the range) and
`WrappedIsTheWrap` (the test of the two top bits finds a wrap exactly when there is
one, for steps of up to a quarter of the range).

`Presentation_proofs`, of `OutputCoordinator`, for any finite set of streams, any limit of waits and any jumps:

* `TypeCorrect == Prompt => (Spec => []TypeOK)`;
* `StreamsStartTogether == Prompt => (Spec => StartsTogether)`;
* `ContextsAreKept == Prompt => (Spec => []NobodyInside)`;
* `OutdatedWaitsEnd == Prompt => (Spec => []WindowWaitAborted)`.

The assumptions are `CoordinatorAssumption` and `Prompt`: a stream that is taken down with
a frame between the look at the mapping and `SynchronizeStreams` comes back with a deleted
context and spoils the counts.  The code compares `StreamsInSynchronize` with
`StreamCount`; the inductive invariant adds to `TypeOK` that each is the number of its
streams (`CountsAgree`) and that the two flags of a context say where its process is
(`FlagsAgree`), which is what keeps a registered stream from being deleted between the
two counts.  From two equal counts, one set being part of the other, follows that the sets
are the same.  `WindowsAgree` adds that only the process of a registered stream awaits a
window.

`Presentation_proofs`, of `FrameReorder`, for any numbers of frames, jumps, drains, decode contexts
and decode buffers, and whatever is dropped:

* `CallsWaitForFrames == ~PlaysOut => (ReorderSpec => []CallsWait)`;
* `FramesAreInOrder == ~PlaysOut /\ ~DropsReferences /\ TwoWait => (ReorderSpec => InDisplayOrder)`.

The assumptions are `ReorderAssumption` and the hypotheses.  `~PlaysOut` (drains discard) is
necessary for the first, since a drain that plays out inserts its marker while the last
frame of reference has no display index yet: `ReorderMarker` violates `CallsWait` without it
(section 4).  The inductive invariant, `ReorderIInv`, says that what is on its way from the parser
to the loop is in order (`InLine`: a frame's number is below that of the next, a marker's
is above those of the frames before it and not above that of the next), that what the
loop has was before all of it (`Ahead`), that every frame but the deferred one has an index
(`Indexed`), and so has every frame before a marker (`Numbered`, `Closed`): when the scan
comes back with a marker and nothing to take, the table is empty (`Looping`).  For a
frame that leaves the table out of order, the minimum that the scan took before it
removed the frame bounds what stays behind; a frame that goes out directly is
bounded by the minimum of the scan before, whose table it never entered.

`InDisplayOrder` needs all three hypotheses.  `ReorderCollapse` violates it when frames of
reference are dropped (section 4); with a table that holds one frame, or a drain that plays
out followed by more frames (its marker lets the deferred frame overtake one that comes
behind it), TLC finds it violated too.  `TwoWait`, that `MaxDecodesOutOfOrder` is at least 2,
holds in the code, which works with at least 3 buffers.  Its invariant, `OInv`, knows who may
overtake whom (`Displaying`): a frame is displayed before one that was coded before it
only if that is a frame of reference, and no other and no marker lies between.  From this
it follows that the lowest index of the table is the next one whenever the loop takes it
(`ScanTakesTheNext`): if two frames are there, whatever comes behind both cannot overtake
the lower one, also when the other has no index yet; if the lowest is the one desired, because
no frame that will be manifested has an index below `DesiredFrameIndex` or
`DisplayIndicesCollapse` (`Beyond`), though the loop passes over indices of frames that are not
decoded (`CollapseRises`, `DesiredAdvances`).  While a drain discards that holds only of frames
behind its marker (`Doomed`), and `PassMarker` ends the drain when no others are left.

`StreamProcesses_proofs` (the first two) and `StreamCalls_proofs`, for any numbers of frames and of
calls, any sizes of rings and tables, and any number of decode buffers:

* `BehindMarkerKept == Spec => []BehindMarkerIsKept`;
* `DrainsWait == Patient => (Spec => []DrainedMeansPassed)`;
* `ResetsInTime == Patient /\ Still => (Spec => []ResetOnTime)`;
* `SwitchesApart == Patient /\ Still => (Spec => []OldPartsUnused)`;
* `PartsMatchFrames == Patient /\ Still => (Spec => PartsMatch)`.

The assumption is `StreamAssumption`.  The first holds for every client.  Its invariant,
`KInv`, looks at the stream as one line, from the hands of the third process back through
its ring, the codec with the marker it keeps, the second process and the ring of the first
(`Line`): frames and markers stand in it in the order in which they were injected
(`InOrder`), and a process that discards for the last drain has that drain's marker
before it, or in its hands (`Discards`).  Each step takes something out of the line, moves
it past nothing, or adds it at the end (`Removes`, `Moves`, `Adds`), which is why a second
marker that replaces the one kept in the codec does no harm.

The second needs `Patient`, that the client drains only when its last drain is complete:
the run `StreamsDrainOverlap` violates it without (section 4).  Its invariant, `PInv`, adds
that there is at most one marker, and that whatever is behind it has not passed it
(`OneMarker`); that no drain's call is left over when the next marker comes
(`DrainsComplete`), because a call of a kind is made once for each drain (`CallsOnce`); that
`NextBufferSequenceNumber` stays below the number of a marker that is still to come, also
if all frames are injected before it (`Numbers`, where `RingSize >= MaxFrames` is used);
and that the number of a drain, which its marker and its calls carry, separates the numbers
of frames injected before and after (`Agree`): a process that has seen it has passed the marker.  So the
last process makes the call of `SetDrained` when the marker is gone, whether the marker or the call arrives first.

The others also need `Still`, that nothing is injected while the client drains or switches:
every frame was injected before the marker of the drain in progress or after all its calls
(`StillFrames`).  Each has an invariant that says where a call is among the frames.

* `RInv`, for the reset of the time mapping, which the third process makes: the resets that
  are still to be made are those of the drains after the last one counted, one for each
  (`ResetsCounted`); one that waits has a number the process has yet to see (`ResetsHeld`),
  and what stands before one, in the ring or in hand, was injected before its drain
  (`ResetsQueued`, `ResetsAhead`).  So they are made in order, each when the frames before its
  drain have gone, and before any frame behind it is timed, though a reset may come before
  its marker or long after it.
* `SInv`, for the calls that replace the parser and the codec: what has passed the process, and
  what stands before the call, was injected before the call's drain (`CallsInTime`,
  `CallsInPlace`); one that waits is for a number still to be seen, or for the buffer in hand
  (`Tabled`).  So when the last process clears `SwitchStreamInProgress` no call of the switch
  is left in any process (`SwitchFlag`), the calls that are left are of one switch
  (`SwitchNumber`), and each part is the collator's, or the one before it exactly while its
  call is still to be made (`SwitchParts`).
* `MInv`, for the frames themselves: one that is in front of a process, or further back, is of
  the old collator exactly if the call has not been made and comes behind it
  (`FramesMatch`); what the second process has in hand has the codec's collator
  (`HandMatch`).  With `SwitchParts` the frame that a process sees is of its part, since
  any call still pending is behind that frame.

All safety properties of the runs are proved, except the one that `streams_drain_overlap`
refutes; what is only model-checked is liveness, which is out of the prover's reach.

## 6. Plan

In this order; each module gets its properties, its instances and its place here.

1. The rest of the coordinator: mappings as pairs of times, which are rebased without the
   lock; the election of a master clock; re-timing by a second process.
2. The end of a stream: `CleanUpAfterStream`, `TidyUp` of its pools, owner identifiers.
3. `StreamProcesses` over `FrameReorder`: markers that meet re-ordered frames.
4. `MemoryMap`: an abstract allocator (a set of free units) that `AllocatorSimple`
   with one freeing process implements, from `EachUnitOnce` and `Coalesced`.

## 7. Not modelled

The parts marked so in `PROJECT.json`: collators, parsers, codecs and manifestors are
mostly syntax, arithmetic and hardware registers, and of them only what takes part in
the stream's control is modelled; the other drivers talk to devices the repository does
not describe.  By far most of the repository's C files are vendored: the wireless
drivers (`src/tdt/cvs/driver/wireless`, about half of all lines), the frame buffer
and multicom libraries of the chip's maker, compressed memory and file systems.  They
have their own homes, and specifying them would say nothing of this project's code.
Within the modelled files: metadata blocks, dumps, usage reports, error texts, and what
each module's header says is left out.
