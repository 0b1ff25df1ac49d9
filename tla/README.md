# Verification of OpenXIL's core

OpenXIL (XIL 1.3) is an imaging library.  An application calls operations on
images; the library may defer an operation, put it on an operation queue next
to the images it reads and writes, and execute it, or a chain of operations
merged into one "molecule", only when pixels are asked for, tile by tile and on
several threads.  Compressed sequences, tiled storage and regions of interest
work the same way: the state the application sees is kept apart from the state
the library has reached.  This directory holds TLA+ models of that core, the TLC
runs that check them and the theorems TLAPS proves about them.

All paths below are relative to `src/src/libxil` unless they start with `src/`.

## 1. The system

| Component | Source | State it keeps | Operations |
|---|---|---|---|
| Operation scheduler | `lib/XiliScheduler.cc`, `include/XiliScheduler.hh` | per operation: mutex, `completeCond`, `operationComplete`, `status`, `contextList`, `emptyFlushList`; per context: box list, `listPosition`, `isDone`, `isReady`; the `readyList` | `execute`, `executeWithNoSplit`, `startThreads`, `execOperation`, `startComputeOperation`, `callPreprocess`, `recoverFailure`, worker loop, constructor, destructor |
| Operation flush | `lib/XilOpPrivate.cc` (`flush`, `updateStatus`, `finishEmptyFlush`, `forwardStartOp`), `lib/XilTileList.cc`, `include/XilTileListPrivate.hh` | tile states DEFERRED / EXECUTING / EVALUATED of every queue entry, the tile list's shared iterator, `opStatusCondVar`, the op's reference count | `flush(tile)`, `flush(tile_list)`, `flushAllTiles` |
| Operation queue | `lib/XilDeferrableObject.cc`, `lib/XiliOpQueueEntry.cc`, `lib/XiliDependentList.cc` | a ring of 16 entries per image or CIS, head, tail, length; per entry the op, its tile states and the list of dependent ops | `qNewEntry`, `qRemove`, `qFlushQueueHead`, `addDependent`, `flushDependents`, `setOpStatus` |
| Op DAG and its lock | `lib/XilObject.cc`, `lib/XiliDagManager.cc`, `include/XiliDag.hh` | `dagRef`, `oldDagRef`, one mutex per DAG | `lock`, `unlock`, `mergeDAGs`, `setupAndLockDAG` |
| Operations | `lib/XilOp.cc`, `ops/*` | sources, destinations, parameters, versions, function data | `insert`, `execute`, `isSameAs`, `checkFuncData`, ROI geometry per operation |
| Molecule lookup | `lib/XiliOpTreeNode.cc`, `lib/XiliOpCache.cc` | tree of op sequences with their function lists; a small cache of ROIs | `findLongestOpChain`, function list insertion |
| Images and storage | `lib/XilImage.cc`, `lib/XilStorage.cc`, `lib/XilStorageAPI.cc`, `lib/XilTile.cc` | tiles, formats, attached storage devices, exported state | `getStorage`, `setStorage`, `export_`, `import_` |
| CIS and its buffer | `lib/XilCis.cc`, `lib/XilCisBuffer.cc`, `lib/XilCisBufferManager.cc`, `lib/XiliCisBufferLList.cc`, `lib/XilDeviceCompression.cc` | frame numbers, buffer list, read and write frames, keep and max frames | `seek`, `putBits`, `getBits`, `addBuffer`, `removeBuffer` |
| Global and system state | `lib/XilGlobalState.cc`, `lib/XilSystemState.cc`, `lib/XiliOpen.cc`, `lib/XiliProcessEnv.cc` | device tables, object tables, handler lists, configuration | `xil_open`, `xil_close`, lookups, attribute setting |
| Containers and threads | `lib/XiliBag.cc`, `lib/XiliCharHashTable.cc`, `lib/XiliObjectHashTable.cc`, `lib/XilMutex.cc`, `lib/XilCondVar.cc`, `lib/XiliThread.cc` | lists, tables, owner and count of a mutex | insert, remove, iterate, lock, wait |
| Regions and geometry | `lib/XilRoi.cc`, `lib/XiliRoiRect.cc`, `lib/XilRectList.cc`, `lib/XiliConvexRegion.cc`, `lib/XilBoxList.cc` | rectangle lists, convex regions, boxes | intersect, union, translate, scale, box iteration |
| Non-deferrable objects | `lib/XilNonDeferrableObject.cc`, `lib/XilKernel.cc`, `lib/XilLookup*.cc`, `lib/XilDitherMask.cc`, ... | attribute data, version, reference count | copy on write, versioning |
| Errors | `lib/XilError.cc` | error object, handler chain | report, call handlers |
| C bindings | `lib/c_bindings.cc` | none | lock, call, unlock |
| Codecs, compute and I/O devices | `src/src/IHV` | pixels, device state | the compute routines the scheduler calls |

How they interact.  An API thread inserts an `XilOp`; it takes the DAG lock of
the objects involved (`setupAndLockDAG`), queues the op on its destinations and
makes it a dependent of its sources.  When pixels are needed,
`XilOp::flush(tile_list)` decides per tile whether somebody else computes it
already, looks for the longest molecule, and calls the scheduler.  The
scheduler splits each tile into strips, runs them on worker threads and on the
caller's own thread, and answers success or failure; on failure the flush
tries a shorter molecule.  Tile states are protected by the tile list's mutex,
which the scheduler gives up while it computes; sleepers wait on the op's
`opStatusCondVar`.

What is hard here: hand-over of stack objects to worker threads; check-then-act
on tile states across an unlock; an iterator shared by nested loops; failure
paths that leave a mutex, a reference count or an iterator different from the
success paths; wake-ups that only one thread can give; bounded rings and lists
that are edited while they are walked.  `PROJECT.json` lists each at its line
under "hazards".

## 2. Modules

| Module | Models |
|---|---|
| `OpScheduler` | the scheduler: calls, strips, workers, ready list, preprocess routines, failure recovery, destructor |
| `OpFlush` | `XilOp::flush(tile_list)`, `updateStatus()`, `finishEmptyFlush()`: threads that need tiles of one deferred destination |
| `FlushContract` | what `flush()` promises, without locks, functions and reference counts; `OpFlush` is shown to implement it |
| `OpQueue` | the rings of entries between objects and operations: insertion, dependents, flushing both ways, clean-up, toss, sync, destroy |
| `ImmediateMode` | what deferred execution has to look like: every operation executed at once; `OpQueue` is shown to implement it |
| `DagLock` | DAG references, DAG mutexes, the DAG manager: `setupAndLockDAG()`, `mergeDAGs()`, `lock()`, `unlock()` |
| `CisBuffer`, `CisBufferManager`, `Cis` | a compressed sequence: one buffer (`XilCisBuffer`), the list of buffers (`XilCisBufferManager`), the calls and their deferred operations (`XilCis`, `XilOpCompress`, `XilOpDecompress`) |
| `ImageStorage` | tiles and their storage on several devices, export, import, storage given to and taken from compute routines |
| `RoiRect` | regions of interest as lists of rectangles: add, subtract, unite, intersect, translate |
| `OpSchedulerProof`, `OpFlushProof`, `OpQueueProof`, `OpQueueLinksProof`, `DagLockProof`, `ImageStorageProof`, `CisProof`, `CisFramesProof` | inductive invariants and theorems |
| `MC...` | symmetry sets, calls, tile lists, boxes for the runs |

How they fit together.  `OpQueue` flushes an object as a whole: inside one such
flush `OpFlush` shows the tiles and the threads.  `OpFlush` sees
`XiliScheduler::execute()` as "compute the next tile, which may fail; then take
the mutex back", and `OpScheduler` shows what happens inside that call, with its
caller holding no mutex (`tileLock`).  `DagLock` justifies that the calls of
`OpQueue` and `Cis` run one at a time on connected objects: the thread that
inserts or synchronizes holds the DAG's mutex (where that fails, section 6).
`ImageStorage` is what a compute routine finds when it asks for the pixels;
`RoiRect` computes the regions that `OpFlush` and `OpScheduler` see as "all",
"part" or "none" of a tile.

### OpScheduler

A caller `c` stands for an API thread inside `execute()` together with the
`XiliOperation` and the primary context on its stack; a context `w` for a heap
`XiliExecContext` with its thread.  `pc` names the place in the code.  A
critical section under `readyListMutex` is one step; the operation's mutex is
explicit (`opLock`), because `startThreads()` holds it across many steps and
`startComputeOperation()` holds it across a preprocess call.

| Variables | Code |
|---|---|
| `opLock`, `status`, `complete`, `contextList`, `emptyFlush` | `XiliOperation` members |
| `tile`, `tileLock` | `XilTileList::currentEntry`, the tile list's mutex |
| `y2`, `next`, `started`, `emptySeg`, `newContext` | locals of `execute`, `startThreads`, `execOperation` |
| `operation`, `rows`, `func`, `ctxStatus`, `listed`, `isDone` | `XiliExecContext` members; `rows` is its box list |
| `readyList`, `joining`, `scheduler` | the scheduler and the progress of its destructor |
| `asleep` | threads inside a condition variable's `wait()` |
| `xilOp`, `preStatus` | the XilOp a call works for; what `checkFuncData()` finds in each XilOp |
| `done`, `void` | history: rows of the current tile computed, rows found empty |

The results of preprocess routines belong to the XilOp and outlive the call; the
mutex under which they are checked and made belongs to the `XiliOperation` on one
caller's stack.  Several callers may work for one XilOp (`XilOps`), as the flushes
of `OpFlush` do.  A new call may find the XilOp without results or with some of an
earlier call, unless somebody else is working for it (`InUse`).

`recoverFailure()` ends the threads of a failed operation with SIGTERM.  The model
takes this as the code means it, as the end of those threads; without a handler
the signal ends the process (section 7).

Not modelled: the strip arithmetic for `double` bounding boxes (planned as a
module of its own); boxes within a strip (a strip is one box, so a routine
does all or nothing of it); the wording of errors and `show_action` output.
The geometry calls are free to answer anything, which is what the many
`ops/*` implementations allow.

### OpFlush

Threads come with a tile list each (`Wants`) for the same destination.  They
share its storage mutex (`mutex`), which `flush()` gives up in four places:
asleep on `opStatusCondVar`, inside the scheduler, and while `syncForWriting()`
flushes other operations for a display molecule or for a tile without area.
Everything between two such places is one step, because nothing else of this
destination can run in between.

| Actions | Code |
|---|---|
| `Enter`, `NothingToFlush`, `FoundDeferred`, `FoundExecuting`, `Wake` | `getStorage()` to `syncForReading()`; the loop of `updateStatus()` over the tile list, its `wait()` |
| `UseFunction`, `FindFunction`, `NoListForMolecule`, `RejectMolecule`, `SwitchToAlternateOp`, `GiveUp` | the retry loop of `flush()` up to the scheduler: cached `funcDef`, `findLongestOpChain()`, the tests of a molecule, the list of all tiles it may need, the alternate operation, the failure path |
| `SyncDevice` | `syncForWriting()` for a molecule that ends in a display operation |
| `ExecuteTile`, `EndOfList`, `ExecuteWhole`, `Relock` | what `flush()` sees of `execute()` and `executeWithNoSplit()` |
| `NextEmptyTile`, `FinishEmptyTile`, `FinishEmptyList` | both `finishEmptyFlush()` |
| `Retry`, `Finish` | a failed function: shorten and try again; success |

| Variables | Code |
|---|---|
| `operation` | the `XilOp` and what the op tree holds for it: chosen once from `Operations` |
| `opStatusOf` | `opStatusArray` of the queue entry: deferred, executing, evaluated |
| `refCount`, `evaluated`, `alive` | `XilOp::refCount`, `opStatus`, not yet deleted |
| `funcDef`, `funcLength`, `opList`, `switched` | members shared by all threads |
| `whole`, `pos`, `length`, `failed`, `empties`, `answer` | locals: which list `tl` is, its `currentEntry`, `cop.functionLength`, `exec_status`, `cop.emptyFlushList`, the return value |
| `valid` | the destination has not been marked as invalid |
| `computed` | history: tiles with nothing left to compute |

What may fail besides compute routines is in `Failures`: `syncForWriting()`
("sync"), and memory for a box list ("boxes") or for the list of all tiles that
operations and molecules need which cannot be split ("list").  In the last case
`flush()` returns before it has acquired anything, or (for a molecule) after.

`ExecuteTile` allows what `execute()` does with a tile under any geometry: a failure
of the threads started for it ends the loop (`XiliScheduler.cc` 392-412), a failure of
the caller's own part does not, and a tile of which one part is empty may or may not
be put on `emptyFlushList`: it is when the caller's part is empty, whether or not
threads work on the rest (345-383), or when no thread was started because a strip
was empty (777-785).  Without `Split` no thread is ever started.

A function of the op tree is represented by the number of operations it
replaces, since that is all `flush()` compares.  `computed` is what makes
`SuccessMeansComputed` and the contract say more than the status array does.

`FlushContract` has four variables: tiles are computed, computed tiles become
evaluated for ever, a thread gets success when what it needs is evaluated, or
failure, which invalidates the destination.  The refinement maps `evaluated` to
the tiles with status evaluated and is the identity on the rest.

### OpQueue

The calls are mutually recursive and change the rings their callers walk, so the
model has an explicit `stack` of calls: a frame names where it is (`at`), its
operation, its object and its loop variables; what the code keeps in local
variables across a call is in the frame, what it reads again afterwards is not.

| Actions | Code |
|---|---|
| `Insert`, `TossCovered`, `FlushHead`, `SyncHead`, `SetOp`, `DestroyFlushed` | `XilOp::execute()` and `insert()`: dependents, toss what is covered, make room in a full ring, enter the queue, flush at once |
| `StartFlush`, `ReadSource`, `WriteDestination`, `Compute`, `FinishFlush` | `XilOp::flush()`: `syncForReading()` of the sources, `syncForWriting()` of the destination, the routine, the status |
| `NextEntry`, `FlushCreator`, `AdvanceEntry`, `Evaluate`, `Evaluated` | `syncForWriting()` over the older entries and `XiliOpQueueEntry::evaluate()` over their dependents |
| `FlushDependents` | `flushDependents()` |
| `DeleteSource`, `DeleteDestination` | the destructor of an operation, `cleanup()`, `creatorCleanup()`, `qRemove()` |
| `Sync`, `Synced`, `TossContents`, `Destroy`, `SyncAllDependents`, `DestroyedObject` | `xil_sync()`, `xil_toss()`, `xil_destroy()` |

`q` is the ring of each object with `head`, `tail` and `length` as in the code,
`ops` the members of `XilOp`.  `content` says which operation's result an object
holds, `wanted` what it would hold if nothing was deferred; an operation that
reads another instance than it was inserted for produces `Spoiled`.  In
`ImmediateMode` operations are executed when they are called.  Where the code
would use freed memory or an entry that does not exist (`Undefined`) the model
stops; two such places are reachable, section 6.

### DagLock

A thread's record says where it is in `setupAndLockDAG()`, `mergeDAGs()`,
`XiliDag::lock()` or `XilObject::lock()`.  A mutex is the thread that holds it, as
the code sees it: `unlock()` frees it whoever holds it.  Waiting for a DAG's
mutex gives up the manager's (`Sleep`), so every such wait is a step boundary
and everything sampled before it is kept in the thread's record (`samples`,
`dag1`, `dag2`).  `dagRef`, `refCount`, `dagOf` are the members of the same
name.

### CisBuffer, CisBufferManager, Cis

The two lower modules are operators on records, because the calls of the buffer
manager are sequential code without calls back: a buffer is the frames in its
memory, the read pointer and the list of frame infos with a position in it; the
manager has the list, the start, read and write buffers (`s`, `r`, `w`) and the
frame numbers.  `Cis` has one action per call of the API and per flush of a
deferred operation: `Compress`, `Sync`, `Put`, `Decompress`, `FlushDecompress`,
`GetBits`, `CisSeek`, `Query`, `SetKeepFrames`, `SetMaxFrames`, `Reset`.  Its
variables are the members of `XilCis`; `cbm.wid` is the manager's
`write_frame_id`, which lags behind `writeFrame` while a compression is pending.
A frame is known by its number and by the number of resets before it, which is
what lets `FrameDelivered` say that every image gets its own frame.

What the code leaves to its caller is in `WaitsFor`: to have images computed before
their frames may go ("images"), to synchronize a pending compression before frames
are put or taken by number ("compression"), and to decompress only frames that are
there ("frames", `FrameIsThere`: `xil_cis_has_frame()`); `Decompress` itself asks for
none of these.

### ImageStorage

| Actions | Code |
|---|---|
| `GetStorage`, `GetTiledStorage`, `ReleaseStorage`, `Compute` | what a routine does through `XilStorage`, with the decisions of `getStorage()` which device is permitted, and `getToDevice()` that moves tiles |
| `Export`, `Import`, `SetStorageMovement`, `ExportAll`, `GetMemoryStorage`, `GetChildMemoryStorage`, `WritePixel` | the calls by which an application gets a pointer and uses it |
| `SetMemoryStorage`, `SetTileStorage`, `SetStorageWithCopy`, `GetStorageWithCopy`, `SetTileSize` | storage replaced, copied, cut in other tiles |

`heap` is the set of blocks with the device that has allocated them and their
pixels; `tileArray` and `exportedImageStorage` are the members; `content` is
history.  Exporting may lay several tiles together into one "cobbled" block that
is written back on import.  A tile whose storage the user has set has no
device (`SetByUser`); when it is moved, the user's block is overwritten in the tile
and nothing else happens to it, so that it stays in `heap` with owner `User`.
With `Careful` the application avoids the calls that
go wrong (section 6), with `OneDevice` the threads of one routine agree on a
device.

### RoiRect

The variable `roi` holds, for each ROI of the application, the list of rectangles
and the bounding box; every call is an operator on these (`Added`, `Subtracted`,
`United`, `Intersection`, `Translated`) and an action that applies it.  The
operators follow the code's single walk over the list (`CutBy`, `Merged`,
`IntersectBands`, recursive as the walk restarts).

## 3. Runs

| Run | Question | Bounds | Distinct states |
|---|---|---|---|
| `sched_live` | is every row of a tile computed once or reported; is a preprocess routine called once while one call works for the XilOp; is no wake-up lost | one caller, two contexts, three processors, two tiles of 2 (too thin) or 6 rows, two functions of which one has a preprocess routine, strips may fail; weak fairness | 114 553 |
| `sched_pair` | does an operation outlive its workers, is the ready list exact | two callers, three contexts, one tile of 4 rows, strips that cannot be set up and box lists that cannot be reset; symmetry of callers and of contexts | 1 612 671 |
| `flush_contract` | does the code keep the abstract promise; is no tile left executing; are references exact; do functions that cannot be split get the whole destination | three threads with lists <1,2>, <2,3>, <3>; a molecule and an atomic function that may both fail, a tile without area; an operation without area at all; molecules of which one cannot be split; tiles are not split | 63 093 |
| `flush_retry` | is an operation that can be executed always executed; is it alive until the last thread leaves; does every thread return | three threads that need the same two tiles; chains of 1, 2 and 3 operations, one rejected, the longer ones failing; a tile partly outside; weak fairness | 5 585 |
| `flush_failures` | does nobody sleep for a tile that is not being executed, on any path out of an execution | three threads, two of which wait for the third; no-split operations and molecules, alternates, display molecules; `syncForWriting()`, `generateBoxList()` and `makeTileListForEntireDst()` fail; tiles are split | 166 711 |
| `queue_covering` | does no call go on with something deleted; do rings and operations point at each other; is everything computed from what it was called for | two objects of which one has borrowed storage, rings of 2, one dependent, three operations that cover their destination, in place or flushed at once; sync, toss, destroy | 692 036 |
| `queue_partial` | does a full ring keep its entries; does sync show what immediate execution shows; does every call return | two objects, one of them temporary, rings of 2, four operations that leave part of their destination, routines may fail; weak fairness | 512 429 |
| `queue_lost_dependent` (violated) | section 6, finding 1 | three objects, two dependents | |
| `dag_meeting` | does a thread work alone on its objects; will every mutex that is held be unlocked; are references balanced; does every call end | two threads that join three objects in one DAG from both sides, four insertions, one lock, operations destroyed at any time; weak fairness | 149 577 |
| `cis_careful` | does every image get its own frame; can every frame be reached | buffers of 2, frames up to 3, keep 1, max 2, one decompression and one compression pending, one reset, both kinds of compressor; a caller who waits for all three of `WaitsFor` | 221 077 |
| `image_storage` | is no pixel lost; do pointers and handles stay valid; has every block of a device one owner | two areas as one tile or two, a child image, memory that may run out and one other device, two threads, two values, five blocks; symmetry of threads, values and blocks | 140 666 |
| `roi_rects` | do the lists stay in bands; does every call give the right pixels after every sequence of calls | two ROIs, four rectangles on a grid of 3 by 3 that overlap, cross, and touch side by side and one above the other, shift by one (which makes them meet in other ways); symmetry of the ROIs | 40 735 |

The bounds suffice for the interesting cases.  Scheduler: two contexts for three
strips let a strip finish before, while and after the next is handed out, and let
`startThreads()` want a third; two callers let a context change hands; two tiles
let the state of one leak into the next; a height that is not a multiple of the
number of processors exercises the remainder.  Flush: two threads are enough for
every race between a flush and a waiter, the third shows a broadcast against a
signal; three tiles allow lists that overlap pairwise without being equal;
chains up to three allow one molecule to be rejected and the next to fail;
`MaxLength` is 4, so that the unsigned length wraps to a value longer than any
chain.  Queue: rings of 2 instead of 16 are full after two operations and wrap
at once; three or four operations allow a dependent of a dependent and an
operation that overwrites what both read.  More objects or dependents reach
finding 1, which is why the passing runs have one dependent.  DAG: two threads
that share two of three objects merge in either direction, one lock and one
operation in each phase of it.  CIS: capacity 2 and three frames make one full
and one partial buffer, and keep 1 against max 2 moves the start into and past
them.  Storage: a layout of one tile and one of two exercise exporting with and
without a cobbled block; the blocks suffice for a copy of each tile, a cobbled
block for the application and one for a routine.  Regions: four
rectangles on nine pixels, with what shifting, cutting and uniting makes of them,
give lists of several bands with cuts on every side.

Symmetry is used in safety runs only.  Contexts, threads and values are never
compared with a fixed one; neither are blocks: `New` picks free blocks with `CHOOSE`,
which free ones it picks makes no difference to anything, so that permuting them
gives the same behaviours up to the names.

Fairness (`FairSpec`): weak fairness of every thread that can run.  Nothing is
assumed about new calls, closing the library or spurious wake-ups, and compute
routines are assumed to return.  The code justifies it: every step is ordinary
code of a running thread, mutexes are held for finitely many steps, and a
broadcast makes every sleeper runnable.  In `OpQueue` it is the one thread's
`Step` (the call in progress goes on); in `DagLock` it is each thread's `Step`,
where a mutex that is never free again would break it.

Deadlock is checked except where the application really stops: `OpQueue` and
`DagLock` allow a bounded number of operations.  Threads that have all returned,
and a closed scheduler, stutter by an action of their own (`AllReturned`,
`Closed`).

The remaining `.cfg` files (`sched_close_race`, `sched_tile_lock`, `sched_shared_op`,
`flush_partial`, `flush_overlap`, `flush_deleted`, `flush_no_list`,
`dag_merge_cycle`, `dag_stale_sample`, `cis_keep_frames`, `cis_past_end`,
`image_user_storage`) reproduce counterexamples of section 6 and are not among the
runs of `PROJECT.json`.

## 4. Proofs

`OpSchedulerProof` proves `Spec => []TypeOK` and
`Spec => []OperationOutlivesWorkers` for all values of the constants allowed by
`SchedulerAssumption`, including both kinds of failure.  The property is not
inductive: that the caller waits long enough depends on `operationComplete`
being set only when the context list is empty, on that list holding exactly
the contexts at work except the one `startThreads()` has just created, and on
the caller holding the operation's mutex while such a context exists.  `IInv`
collects these facts (`RolesInv`, `LockInv`, `ListInv`, `NewContextInv`,
`CompleteInv`, `PoolInv`); `TypeStep` and `ControlStep` show that every action
preserves it.

Its second half builds on `IInv` in three parts:

- `ReadyListExact`.  `PoolInv` says that what is on the list
  waits; the other direction is that nothing which waits is missing.
- `RowsComputedOnce` with both kinds of failure, and `TileCovered`
  when `resetFromFailed()` does not run out of memory (a routine that has left
  boxes uncomputed could report success otherwise).  `Upto(c)` is the row below
  which `startThreads()` has given everything away; `RowsInv` says that the rows
  below it are computed, empty or with a thread, that they are with one of these
  only, and that none is lost unless the operation has failed; `SuccessInv` that
  a thread reports success only without rows left.  What can happen to rows is
  five lemmas (`Kept`, `GivenToThread`, `FoundEmpty`, `RowsWritten`,
  `ThreadLeaves`), and every action is one of them.
- `PreprocessCalledOnce`, an action property, for behaviours in which no two calls
  work for the same XilOp (`PreprocessOnce`: `Spec /\ []Apart`).  A thread that
  calls a preprocess routine holds its operation's lock since it has found no
  result (`PreInv`), so the call never overwrites one.  Without `Apart` the property
  is false: `sched_shared_op`, section 6.

`OpFlushProof` proves `TypeOK`, `SleepersHaveReason` and `OneExecutesWhole` for any
set of threads, tiles, tile lists and operations, split or not, with every kind of
failure, and `NoSplitRespected` as long as there is memory for the list of all tiles
(without it a thread leaves a function behind that others use on a part).  Two facts carry the argument: a tile
never becomes deferred again (`StatusMonotone`), and between `updateStatus()`
and the marking of its tiles a thread holds the storage mutex, so that nothing
it has found changes (`MutexExcludes`).  From them `ListInv`: a thread that
executes has no deferred tile on its list.  Then a cached molecule that cannot
be split has left no deferred tile at all, while a thread on its way to a cached
function has found one (`CacheInv`), so that nobody uses such a molecule on a
part of the destination; and an operation that cannot be split admits one
thread (`WholeInv`).  `SleepersHaveReason` rests on `BroadcastWakes`: whoever
takes a tile out of the executing state wakes every sleeper in the same
critical section.

Its second part builds on that.  `ReferencesCorrect` assumes that
`syncForWriting()` does not fail and that there is memory for the list of all tiles
(section 6 says why it must) and counts: every
step adds its thread to the holders of a reference, removes it, or does neither,
and the count follows.  `NoOrphanCorrect` and `ContractCorrect` assume moreover
that a tile is not split among threads and that `generateBoxList()` does not
fail either, without which both are false.  The first needs that a thread which leaves
is at the beginning of its list (`PosInv`), so that it marks all of it.  The
second adds what the threads have left behind them (`DoneInv`, `ScanInv`), that
empty tiles have nothing left to compute (`EmptiesInv`), and that an evaluated
operation has evaluated tiles or an invalid destination (`EvalInv`), which
justifies the early return after the operation is gone.  `SuccessCorrect` needs
the same facts and gives `SuccessMeansComputed`: whatever a thread slept for and
whoever computed its tiles, a success leaves none of them without result.

Its third part is about three properties that are false in general
(section 6) and hold when one flush at a time executes the operation.
`OneTileSet` says when that is so: all threads need the same tiles, or no
operation can be split, so that every flush is for the whole destination.
`OneFlushCorrect` proves it, as long as there is memory for the list of all tiles (`SelectInv`: a thread that selects a function holds
the storage mutex and has found a deferred tile; `ExecutingInv`: a thread that
executes has every tile of the set marked).  From there `MoleculeListCorrect`
needs no further assumption; `ExecutableCorrect` adds, if `syncForWriting()` does
not fail, that the shared `funcLength` is the length the executing thread works
with, so that no function is skipped on the way down from a molecule; and
`OutlivesCorrect` that a thread that gives up has marked all tiles it counted as
its own, if tiles are not split or every operation has a function that does not
fail.

`OpQueueProof` proves `RingsOK` for any objects, operations and ring length, with
failing routines and every request: head, tail and length of a ring agree after
every insertion, removal and clean-up, also inside a call.  That is what makes
the index arithmetic of `qNewEntry()` and `qRemove()` safe at the wrap.  The
inductive invariant adds the shape of a ring, so that a change of an entry is
known to leave the pointers alone (`DataRing`); `NewEntryRing` needs that the ring
is not full, which only `SetOp` guarantees, and `RemoveRing` covers removal at
both ends and in the middle, where nothing is removed.

From there `OpQueueProof` and `OpQueueLinksProof` prove what the calls of `OpQueue`
rely on, for the same constants.  The model stops where the code would go on with
freed memory (section 6); the theorems are about everything up to there.

- `LinksCorrect`: `LinksAgree` holds.  It speaks of the moments between calls and
  is false during them (a destructor takes an operation off its sources one by
  one, a flush finds its destination's entry removed), so that the invariant
  `QInv` is a statement about the whole stack.  `FrameOK` is what a call relies on
  where it stands: that its operation exists, has an entry, is being executed or
  has no references left.  `FramesOK` adds what a call knows of the operation it
  waits for, and `StackOrder` why the calls above leave all this alone: no operation
  is executed twice at a time, and destructors only lead to destructors of older
  operations, so that the recursion of `cleanup()` never comes back.
  `AllOpLinks` and `AllEntryLinks` are the two directions of the links, less the
  sources a destructor has already left (`Passed`).  Each action is one of three
  moves of the stack (`GoesOn`, `MakesCall`, returning), and one of a few
  changes of the links (an entry gets an operation, a dependent, loses one of them,
  or is removed); `Without`, what `cleanupDependents()` leaves of a list, is proved to
  keep all others.
- `OperationsOutliveCalls`: no call of the recursion between `flush()`,
  `syncForWriting()`, `evaluate()` and the destructors goes on with an operation that
  is gone.  It follows from `QInv`.
- `ObjectsOutliveCalls`: no call works on a deleted object, unless its storage is
  borrowed from the application.  `CInv` adds to `QInv` which object each call works on
  (`ObjectOK`), that only what the application has destroyed is deleted, and not before
  its ring is empty; TLC has checked it on instances with temporary, with
  borrowed and with plain objects.
- `CallersCorrect`: hence `CallersLive`, when no object is borrowed.  With borrowed objects
  it is false in general (section 6).

`DagLockProof` proves `WalksAlone`: a thread that walks the references of its
objects holds the manager's mutex, although `mergeDAGs()`, `lockDag()` and the
waits inside them give it up and take it again.  It is inductive once the shape
of a thread's record is added (`IsThread`): each action either keeps the mutex
where the thread has it, or hands it over at a place that is not walking.

`RefCountsCorrect` and `NoLockLeftLocked` prove `RefCountsExact` and
`NoLockLeaked` for any threads, objects and insertions under `OwnLocks`: no two
threads `lock()` the same object.  (Without it both are false, section 6.)  `NoLockLeaked`
speaks of all mutexes: the manager's, every DAG's and every object's is free or
with a thread at a place from which the code goes on to unlock it.  For the manager
and the objects that is `HeldInv`, inductive by itself and without `OwnLocks`; for
the DAGs it needs everything else.  The
invariant `CountingInv` has a clause per hazard: where a thread is determines
which references it holds of its own (`CallInv`), which of its objects it has
locked and through which DAG (`LockedInv`); whoever holds a reference keeps the DAG
it leads to from being deleted or given out again (`KnownInv`); and `LeakInv` ties
every DAG's locked mutex to a thread on its way to unlock it.  The count itself is
`CountInv`: holders are objects, operations, samples of `setupAndLockDAG()`, threads
in `mergeDAGs()` and threads in `lock()`, five finite sets whose cardinalities add
up to `refCount`.  Every action is shown to add or remove the same number of members
as it adds to or takes from the count (`Balance`); for `mergeDAGs()`, which moves
references one by one, that is one lemma for each way a reference moves.

`ImageStorageProof` proves all properties of the storage of images, for any
areas, layouts, devices, threads, blocks and values, under `Discipline`: the
application avoids the calls that go wrong (`Careful`), the threads of a routine
ask for one device (`OneDevice`), and of the devices only memory may fail.
Without each of the three one of the properties is false (section 6).  The
invariant `StorageInv`, which TLC has checked on the instance of the run before,
says where a tile's storage comes from and that no two tiles share it
(`TilesSound`), what the exported storage is while there is one (`ExportedInv`:
the only tile or a block of its own, all tiles in memory), who knows it
(`KeptInv`), what a thread holds (`HandleOK`, one clause for each way
`getStorage()` answers), that every block a device has allocated is used by somebody
(`UsedInv`; a user's block need not be, section 6), and
that a thread finds in its storage what it has written (`WriterInv`); without
the last one `releaseStorage()` could lose pixels when it copies a block back.
`Relocated` sums up what `getToDevice()` does to the tiles it moves, and with
that one lemma every caller of it is treated: the pixels of each area stay, a
block in use is not touched unless it is that of a moved tile, and a tile
somebody uses on the device asked for is not moved (`NotMoved`).  Calls of the
application that leave nothing but tiles behind end in `OnlyTilesStep`.
`ContentCorrect`, `PointersCorrect`, `HandlesCorrect`, `RequestsCorrect` and
`OneUseCorrect` follow, and the two that no run has: `OwnersCorrect` and, for
steps, `HandOutCorrect`.

`CisProof` proves `TypeOK` and `CountsAgree` of compressed sequences for every
capacity, every size of a put, every limit and whatever the caller waits for:
the two modules below `Cis` may be told to go anywhere, so the invariant
`CountsInv` says no more of a buffer than that its position is in its list
(`Buffers`) and of the manager that its three buffers are in its own or that
there is none (`Manager`).  Each method has a lemma that it keeps this and what
it adds to `write_frame_id`, from a method of a buffer (`SplitType`,
`AddFramesType`, ...) to a compression that first gives its space back
(`CompressedType`).  Burning frames and counting the frames of a list of infos
are recursive functions; that they have values is by the least number of steps
without one (`LeastNat`, from the well-founded order of the numbers).

`CisFramesProof` proves what the frames are: `FrameDelivered`, `BuffersContiguous`,
`WindowKept` and, beyond the runs, `ReadPositionsAgree`, for every capacity, size
of a put, limit and kind of compressor, under `CarefulCaller`: the caller has images
computed before their frames may go, and the pending compression before frames are
put or taken by number, and decompresses only frames that are there.  Without the
first or the last `FrameDelivered` is false, without the second `WindowKept`
(section 6; the counterexamples are TLC's).  None of the
properties is inductive.  What a seek does depends on the order of the infos, on
the read pointer, on `next_decompress_frame` (which it goes to first and which must
not lie inside an info) and on the read position being at a frame unless
nothing is left to read.  `FramesInv` therefore says of a buffer that its infos are
in order, continue each other and point at the frames with their numbers (`Sound`);
of the manager that its buffers do so too (`Chain`), where it reads (`ReadKept`) and
where it may seek from (`NextKnown`); and of `XilCis` that its window of frames is
inside the manager's (`Window`), that the pending compression is of the frame that
comes next, and that the decompressions still to be done are of frames that are
kept.  TLC has checked it as an invariant of the instance of `cis_careful`.

The lemmas go from a buffer to the calls.  A seek reaches the info of the frame
(`SeekReaches`, from both directions, inside a buffer and across buffers), reading
goes on to the next frame and splits an info where it must (`SplitSound`,
`DecompressedFrameReads`), writing adds frames at the end only (`AddFramesSound`,
`BufferExtends`, `BufferFollows`), space that is asked for and given back leaves
no trace (`SpaceGivenBack`), and dropping the start keeps every frame from the new
start on (`AdjustStartSound`).  With them each call of `Cis` is a lemma of its own
(`FramesCompress` to `FramesReset`).

The proofs use `FlushAssumption`, `SchedulerAssumption`, `QueueAssumption`,
`LockAssumption`, `CisAssumption`, `DevicesAssumption` and `LayoutsAssumption`, and
the hypotheses named above.  The last two say that devices and "none" differ, and that a layout
is a partition of finitely many areas.  The one clause
that is not a type is that a tile list with as many entries as the destination
has tiles names all of them (`XilTileList::getTileList()` repeats none);
`flush()` relies on it when it compares the lengths.

Model-checked only: liveness (out of the prover's reach); what holds under the
restrictions of a run and not in general (`InstancesKept`, `InsertedIsQueued`,
`ShowsImmediateMode`, `MutualExclusion`); `CallersLive` for objects with borrowed storage, likewise; and
whatever `RoiRect` computes, since it is recursive.  Of the scheduler and of the flush only liveness
(`ExecuteReturns`, `CloseEnds`, `FlushReturns`) is left to TLC, of the compressed
sequences and of the storage of images nothing.

## 5. Plan

Done: the scheduler, the flush of an operation, the queues, the DAG lock, the
compressed sequences, the storage of images, regions as lists of rectangles.
What would add most now:

1. `TileNotify` (`XiliOpQueueEntry::setOpStatus`, `notify`): a tile of a
   temporary is released exactly when its dependents are evaluated.
2. `StripSplit`: the strip arithmetic for int and double boxes against a
   partition of the rows, on all boxes up to a bound.
3. The bitmask and convex forms of a ROI and the conversions between them;
   `XilRectList`, `XilBoxList`.
4. `NonDeferrable` (versions, copies and references of lookup tables, kernels and
   masks that operations keep), child images in `OpQueue`, emulated storage.

Compositions left: `OpFlush` over two destinations connected by `OpQueue`
(`syncForWriting()` then is a flush of its own), `OpQueue` with the threads of
`DagLock`.

## 6. What the checks found

The run `queue_lost_dependent` is a finding of `PROJECT.json`.

1. `InstancesKept` fails: `evaluate()` walks the dependents of an entry by index
   while each flush may delete the dependent and take it off the array
   (`XiliOpQueueEntry.cc` 426); the next one is skipped.  Operation 1 copies A to
   B, 2 copies A to C, 3 covers A: synchronizing A flushes 1, skips 2 and
   overwrites what 2 still has to read.

Each of the following has a `.cfg` of its name that reproduces it; each contradicts
a comment of the source.

- `sched_close_race`: the scheduler's destructor joins the contexts on the
   ready list.  A worker that has signalled the end of its operation
   (`XiliScheduler.cc` 1334) and not yet reached line 87 is not on it.
- `sched_tile_lock`: `execute()` returns at line 339 without the tile list's
   mutex when `startThreads()` fails.
- `flush_partial`: a tile with an empty strip is marked as evaluated before
   `flush()` looks whether the rest of it was computed; after a failure the
   next function skips it and the flush succeeds.
- `flush_overlap`: `updateStatus()` answers at the first deferred tile; tiles
   of the list that another thread is executing are executed again.
- `sched_shared_op` (`PreprocessCalledOnce`): two flushes of one operation for
  different tiles both look for the result of its preprocess routine.  The
  results are in the XilOp (`XilOpPrivate.hh` 272-332, where each access is locked),
  the mutex is in the `XiliOperation` on each caller's stack (`XiliScheduler.cc`
  1100): both find nothing and both call it.  The comment at 1096-1099 says
  that only one thread should.
- `flush_no_list` (`ReferencesExact`): `flush()` has acquired its reference when it
  finds that a molecule cannot be split; without memory for the list of all tiles
  it returns XIL_FAILURE without giving it back (`XilOpPrivate.cc` 1318-1327), and
  with the molecule as the operation's function.  The operation is never deleted,
  and the next thread uses the molecule for the tiles it came for, which
  violates `NoSplitRespected` as well.  The comments around `aquire()` and
  `release()` (691, 855) count on their balance.
- `flush_deleted`: a flush that gives up marks the whole operation as
   evaluated; a waiter's `release()` in `updateStatus()` then deletes it before
   the waiter has looked at the rest of its list.

- `dag_merge_cycle` (`NoLockCycle`): with three DAGs merged pairwise two threads may
  wait for each other's DAG.  A thread locks the DAG with the lower number first
  and sleeps for the other one; when that one is merged into a DAG with a still
  lower number, the thread now waits for a lower one than it holds.  The comment at
  `XiliDagManager.cc` 86-90 relies on the order.
- `dag_stale_sample` (`MutualExclusion`): `setupAndLockDAG()` goes back to its loop
  after a merge with the references it has sampled before
  (`XilOpPrivate.cc` 1790); an object that had none, and has been given one by another
  thread while this one slept, gets this thread's reference over it, and both work
  on the object (comment at 1818-1820).
- `cis_past_end` (`FrameDelivered`): `XilOpDecompress::create()` does not ask whether the
  frame is there and moves the read frame beyond the write frame.  The seek to it
  fails with an error (`XilCisBufferManager.cc` 1422-1431), which
  `XilDeviceCompression::seek()` ignores (298-301), and the decompressor delivers the frame at
  which it stands, under the number of another.  Seven steps: put, decompress past
  the end, seek back, flush.  The manual leaves the check to the caller
  (`xil_cis_has_frame()`), which is why the run and the theorem have such a caller.
- `image_user_storage` (`NoUserStorageForgotten`): a tile whose storage the
  application has set is moved to another device.  `getToDevice()` overwrites
  the pointer in the tile (`XilImage.cc` 4500-4516, `XilTilePrivate.hh` 99-102): the
  `XilStorage` is not deleted and the release routine the application gave with its
  memory is never called, as `deallocateTileStorage()` (`XilImagePrivate.hh` 710-760)
  would.  Five states: export, set memory storage, import, ask for the other device.
- `cis_keep_frames` (`FrameDelivered`): `flushPriorDecompressOps()` walks the array
  `dependents`, which nothing fills (`XilCis.cc` 418), so that keep_frames drops
  the frame of a pending decompression; the comment at `XilOpCompress.cc` 261
  counts on it.

Also seen while modelling, and part of the models, without a run of their own
(the properties named hold in the passing runs because of the constants there):

- `NoOrphanTile` fails with `Split = TRUE` and functions that all fail: the
  scheduler leaves `currentEntry` behind the failed tile, and the give-up path
  marks only the rest of the list (`XilOpPrivate.cc` 1171).  The same happens
  when `syncForWriting()` fails (882, 1446).
- `ReferencesExact` fails with `"sync" \in Failures`: `finishEmptyFlush(tile)`
  releases the reference its caller releases again (827).
- `ExecutableIsExecuted` fails when two threads execute the same molecule for
  different tiles and both fail: the shared `funcLength` is shortened twice
  (1516).  The one that fails first also deletes `opList` under the other (1508).
- A box list that cannot be allocated is taken for a tile without area
  (`XiliScheduler.cc` 365), and the flush succeeds.
- `TileCovered` fails with `"reset" \in Failures`: a routine that succeeded
  with failed boxes whose list cannot be reset counts as a success (1299).
- A tile is put on `emptyFlushList` although rows of it are computed (785);
  this is what `flush_partial` starts from.

`OpQueue`:

- An operation that leaves part of its destination over a result that is not
  evaluated yet, whose own dependent is then tossed: `cleanup()`
  (`XilDeferrableObject.cc` 514-528) destroys the creator although somebody still
  builds on it.
- `DestroyedTwice`: `evaluate()` destroys a dependent whose flush has failed, which
  `flush()` has done already.  `FlushedWithoutEntry`: an operation that found no
  room is flushed without an entry.  The model stops there.
- An entry removed in the middle of the ring stays as an entry without operation
  until the ends reach it (comment at `XilDeferrableObjectPrivate.hh` 591-596 says
  otherwise).  An empty queue does not always leave its DAG
  (`XilDeferrableObject.cc` 462).
- `CallersLive` fails for an object with borrowed storage in larger instances (rings
  and lists of dependents of three, eight operations, routines that fail, found by
  simulation after 110 states): `allSync()` (`XilDeferrableObject.cc` 161) flushes the
  dependents of all entries and the creator of the last one only.  When the last entry
  has lost its creator, an older operation that still writes the object stays
  queued; the object is deleted (`XilImage.cc` 6416), and later a flush that has to
  evaluate what that operation reads executes it.
- `InsertedIsQueued` fails with two dependents per entry and four operations: the
  flush of the head leaves a full ring full.

`DagLock`:

- `lock()` on an object outside every DAG takes `objectMutex` only, which
  `insert()` ignores: `MutualExclusion` fails in seven steps when a thread locks an
  object another one inserts (comment at `XilObjectPrivate.hh` 65-68).
- `unlock()` releases whatever the object refers to by then, other threads' locks
  included (comment at `XilObject.cc` 594-597).  When two threads lock the same
  object and it joins a DAG in between, `oldDagRef` is overwritten as well, and
  `RefCountsExact` fails: that is why its theorem assumes `OwnLocks`; `lock()` waits for `objectMutex`
  with the manager locked (518), and everybody else waits with it.
- `refCount--` in the destructor of an operation is not protected (`XilOp.cc` 248,
  against `XiliDag.hh` 162-163); the model takes it as atomic.
- When no DAG can be created, `setupAndLockDAG()` returns with the manager locked
  (`XilOpPrivate.cc` 1788).

CIS (`WaitsFor` leaves out what a caller would have to do to avoid them):

- putBits, putBitsPtr and getBitsPtr do not wait for a pending compression, so that
  frames and numbers are exchanged; reset() does not flush pending
  decompressions; max_frames of 1 with a pending compression drops the frame that
  is to come (comment at `XilCis.cc` 473-477); `adjustStartToRFrame()` at the end
  of the list keeps the count of frames it has dropped; the position is not
  restored on an error path of the same call; the condition of setMaxFrames is
  the reverse of what xil_cis_get_max_frames(3) says.

`ImageStorage`:

- `Unreliable <- DeviceUnreliable` violates `DeallocatedByOwner` in four states:
  when a device fails after a tile was copied to memory, `getToDevice()` deletes
  the storage the tile still refers to (`XilImage.cc` 4700-4722), although the
  comment in `getStorage()` lets the routine "look for another storage device".
- `Careful = FALSE` violates `PointersValid`: a tile size set while the storage is
  exported, memory storage set on an image whose child is exported (3303-3310,
  against the comment near 2135).  Copies ignore exported storage.
- `OneDevice = FALSE` violates `HandlesValid`: a routine moves a tile the other
  thread's handle points into.
- Read, not modelled: a tile size that is set calls the storage device of tiles that
  have none (storage of the user's), does not look at the result of `allocate()`
  (1511), and returns with half of the old tiles gone when `decobble()` fails
  (1562-1578); device blocks that a failed copy leaves behind; error returns keep
  `storageMutex` locked (2414, 2717-2726, 3040); changing one dimension of the tile size only is ignored; the device name
  of emulated storage survives a move.

`RoiRect`:

- `BoxesBound` fails in five states: `intersect()` updates the bounding box
  (`XiliRoiRect.cc` 1736) before it stores its only rectangle, and the box stays
  (0,0)-(0,0).  The header calls it "the bounding box of the rectlist
  representation" (`XilRoiPrivate.hh` 88) and the scheduler clips tiles by it
  (`XiliScheduler.cc` 240, 451), so that they count as empty.
- `Careful = FALSE` violates `Banded` in four states: `unite()` puts the list of a
  ROI whose box does not meet the other's behind it, also when they are side by
  side.  Adding a rectangle to such a list then covers pixels that belong to
  neither, so that `KeepsPixels` fails too.  The comment at 1918-1925 admits it
  for `unite_disjoint()` only.
- Read, not modelled: adding an image mask to a ROI passes its right edge as a width;
  copying a ROI's list does not copy its box.

Hazards that are covered by a description only: a context that is not joined
(`XiliScheduler.cc` 168), a tile executed twice by overlapping lists
(`XilOpPrivate.cc` 676), the return without mutex (`XiliScheduler.cc` 339), a copy
of the CIS attributes while a flush is pending (`XilCis.cc` 94).

## 7. Not modelled

- Scheduler: the signal by which `recoverFailure()` ends threads is SIGTERM
  (`XiliThread.cc` 176-190), whose default action ends the whole process; the model
  has the threads end, as `recoverFailure()` means it.  Strips of `double` boxes.
- Flush: forward-mapping operations (`flushStartOp`), the list that
  `reorderTileProcessing()` makes for XilOpCopy and its failures
  (`XilOpPrivate.cc` 1018-1039; the tiles keep the caller's order), operations without
  destination, tile lists without a mutex, an operation list of a molecule that
  cannot be allocated.
- Queue: child images, device (capture) operations, molecules, notifications of
  tiles, an entry transferred to another object.  DAG lock: `trylock()`,
  references of non-deferrable parameters.
- CIS: partial and unknown frames, frame types and key frames, error recovery,
  decompression without frame boundaries, failing allocations.  Frames are untyped:
  the identity codec, which the compressor of the "next buffer" kind stands for, passes
  the type of its frames to `seek()` and `adjustStart()`
  (`XilDeviceCompressionIdentity.cc` 283-320), which may change how many frames
  the manager keeps before the start and burns on the way to a frame.
- Storage: emulation, direct transfers between devices (`transferToDescription()`),
  a tile size set for tiles without a device or without memory for the new tiles, one strip as storage of all
  tiles, data supply functions, `releaseTile()`, single pixels, requests for one
  band or a format, `storageMutex`, pointers to single tiles, destruction, an
  `XilStorage` that cannot be allocated.
- Regions: bitmask and convex forms, calls in place, `unite_disjoint()`, an
  allocation that fails.
- Containers and object tables: hash tables filled when the library opens; the bag
  of a DAG is represented by the objects that refer to it.
- Non-deferrable objects, errors, op tree construction, device and global state:
  values, reports and tables without interaction of their own.
- Codecs, compute routines (most of the repository's lines), device I/O, the C
  bindings, utilities, manual pages and build files: pixel arithmetic,
  generated tables, or pure input and output.
