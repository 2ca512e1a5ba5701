# TLA+ models of the YSE sound engine

This directory holds TLA+ models of the concurrent core of the YSE sound engine
(`src/YseEngine`), TLC configurations that check them on small instances, and
proofs that TLAPS checks for every value of the constants.

The engine is a C++ library. A **control thread** (the host's) creates, moves and
destroys interface objects: sounds, channels, patchers. An **audio callback**
renders blocks of samples and owns every list it walks. A pool of **render
workers** helps it inside a block. A **slow pool**, of one thread, loads files and
allocates and frees what the callback must not. The four share almost everything,
the callback may never wait for a lock, and so most of the protocol between them
is a handful of atomic words per object. That is what is modelled here: each
model's step is one access to such a word, or a stretch of code no other thread
can look into.

## 1. Inventory

The components of the engine, the state each keeps, its operations, how it
interacts with the others, and what makes it correct. The ones in bold have a
model; the lines are under `src/YseEngine`.

| component | state | operations | talks to | what makes it correct |
|---|---|---|---|---|
| **render scheduler** `internal/renderScheduler.*` | leaf lists and cursors, a counter per task, `openGen`, `inFlight`, `parked`, `running` | build the graph, `run()` a block, claim, arrive, spin, park, wake, start and stop workers | called by the channel manager's `render()`; runs channel tasks | each task once per block after what it waits for; a block ends; nobody is inside between blocks; no wake is lost |
| **thread pool** `internal/threadPool.*` | ring of jobs, a count per job, `active` | `addJob`, worker loop, `join`, `isQueued`, `shutdown`, `startup` | every manager and the file scheduler push; jobs call back into managers | `join()` means done; no request is lost; stopping ends |
| **MPMC queue** `utils/mpmcQueue.hpp` | cells with sequence numbers, two positions | `try_push`, `try_pop` | the ring of the thread pool | a FIFO; one owner per cell |
| **sound lifecycle** `sound/*`, `internal/managerJobs.hpp` | `objectStatus`, `head`, `pimpl`, the lists `toLoad` and `inUse`, an inbox, `runDelete` | `create`, refusal, mutators, destructor; `update()`; setup and delete jobs | control thread, audio callback, slow pool | nothing linked is freed; what is marked is freed; pointers agree |
| **file scheduler** `patcher/io/fileScheduler.*` | slots with a state word | `Arm`, `RunSlot`, `DeliverComplete` | patcher objects ask; the slow pool runs; the callback delivers | one owner per slot; each request answered once, truthfully |
| **channel sends and returns** `channel/*` | wiring graph and generations (control), mailboxes, send slots and registries (audio) | `create`, `makeReturn`, `send`, `clearSend`, destructor; `update()`, `detachSends` | posts to the callback; feeds the render scheduler's graph | acyclic; no slot outlives its return; counts match arrivals |
| **channel tree**, voice slices `channel/*` | parent, children, sounds per slice | `MOVE`, `connect`, `disconnect`, `childrenToParent` | sounds and sends | nothing points at a freed channel; both ends of a link agree; in the end the tree the host asked for |
| **patcher graph** `patcher/patcherImplementation.*`, `pHandle.cpp` | published snapshot, objects and their graph ids, retired lists with epochs, pins, waiting parameter plans | edit, publish, render, reclaim, destroy | thread pool, control-side readers | a snapshot or object is freed after its last reader; ids are unique and none is lost; destruction frees alone (which it may not: section 5) |
| **sound streams** `internal/abstractSoundFile.*`, `lsfSoundfile.cpp` | front and back buffer, three flags, a generation | `read`, `seek`, `reset`, refill, destroy | thread pool, the sound's `dsp` | no buffer skipped, filled while read, or waited for in vain; what is played is what comes next |
| sample buffers `patcher/sampling/*` | storage with readers, a retired list | read, replace, `collect()` | patcher, `system::update()` | storage is freed after its last reader |
| named bus, log queue `internal/namedBus.*`, `rtLogQueue.*` | queues, subscribers | publish, drain | render threads to control thread | nothing lost or delivered to what is gone |
| system, global `system.cpp`, `internal/global.*` | `active`, the session's device | `init`, `update`, `close` | starts and stops all of the above | sounds destroyed before channels, pools joined before either |
| devices and watchdog `device/*`, `system.cpp` | missed callbacks, start-up grace, attempts | `update`, `pause`, `resume` | backends | a healthy device is not torn down |
| reverb, player `reverb/*`, `player/*` | as sounds, without files | as sounds | managers | as sounds |
| synth, clocks, clips, MIDI | voices, transports, event queues | note on and off, launch, send | sounds, patcher | voices freed, events in order |
| DSP, patcher objects, C API, scripting | | | | sequential or numeric: the repository's tests |

What is hard in this code, with the line each item bites at and the properties
aimed at it, is listed in `PROJECT.json` under `hazards`. Most of it falls under
five headings: a thread suspended between a read and the compare-and-swap that
relies on it; an object freed by the slow pool while a list, a slot or a pointer
still names it; a message that arrives after what it is about has gone; a wake or
a request that falls between a test and a store; a pool stopped under a call that
is half made.

## 2. Modules

| module | models | checked by |
|---|---|---|
| `RenderScheduler` | `renderScheduler.cpp`: build, block, claim, arrive, park, stop | `render_return`, `render_windows` |
| `RenderBlock` | what the scheduler promises: a block opens, runs its tasks once in order, closes | refined by `RenderScheduler` (`ImplementsBlock`) |
| `Rendering_proofs` | of `RenderScheduler`: type correctness, the block invariant, `NoWorkerInside`, `NoLostWake`, `RunsOnce`, and the safety part of the refinement of `RenderBlock`; of `ChannelTree`: `PointersLive`, `ListsAgree`, `TreeFollowsHost` | TLAPS |
| `ThreadPool` | `threadPool.cpp`, and the reclaim jobs that add each other | `pool` |
| `ThreadPool_proofs` | `TypeOK`, `JoinMeansDone` (one worker), `QueuedCoversRing` | TLAPS |
| `MpmcQueue` | `mpmcQueue.hpp` | `mpmc_queue` |
| `MpmcQueue_proofs` | `CellsOwnedOnce`, and that the queue implements `BoundedFifo` | TLAPS |
| `BoundedFifo` | what the queue promises: places claimed in order, published later | refined by `MpmcQueue` (`ImplementsFifo`) |
| `SoundLifecycle` | `soundInterface.cpp`, `soundManager.cpp`, `soundImplementation.cpp`, `managerJobs.hpp` | `sounds`, `sound_invalid` |
| `SoundLifecycle_proofs` | `DeleteMeansUnlinked`, `SetupAlone`, `PointersAgree`, `SafeUnlessInvalid` | TLAPS |
| `FileScheduler` | `fileScheduler.cpp` | `files` |
| `FileScheduler_proofs` | `SlotHeldByOne`, `ResultIsTrue`, `AnsweredOnce` | TLAPS |
| `SendGraph` | the sends and returns of `channel/` | `sends` |
| `SendGraph_proofs` | `NodesAlive`, `RegistryAgrees`, `GraphCurrent`, `NoDanglingSend`, `Layered`, `AudioFollowsHost` | TLAPS |
| `ChannelTree` | channels and sounds in the tree: create, move, destroy; `connect`, `disconnect`, `childrenToParent` | `channel_tree` |
| `PatcherReclaim` | the snapshots of `patcherImplementation.cpp`: edit, publish, pin, retire, reclaim, destroy | `patcher` |
| `PatcherReclaim_proofs` | `NoUseAfterFree`, `IdsAreUnique`, `NoIdLost` | TLAPS |
| `StreamRefill` | `abstractSoundFile.cpp`, `lsfSoundfile.cpp` and what a streaming sound's `dsp` and destruction add | `stream`, `stream_delete` |
| `StreamRefill_proofs` | `FillAlone`, `PlaysWhereItSays` | TLAPS |
| `MC...` | graphs, callers and symmetry sets for TLC | |

How they fit: `MpmcQueue` implements the FIFO whose elements are claimed first and
published later, and `ThreadPool` uses its ring as exactly that. `SoundLifecycle`
and `FileScheduler` use the pool as its users see it (a queue and a count per
job), and `PatcherReclaim` and `StreamRefill` as a ring and a count too. `SendGraph` computes the dependency counts that `buildRenderGraph()` gives to
the scheduler, and shows that they are the arrivals that will come;
`RenderScheduler` takes a graph whose counts are its arrivals (`GraphAssumption`) and shows what
rendering it does.

### RenderScheduler

Thread 0 is the rendering thread, 1..NumWorkers are workers, `pc` says where each
is. `head`, `tail`, `leafNext` and `cursor` are the leaf lists; `pending` is the
tasks' counters; `stack` holds the tasks a thread is inside, since `arrive()` runs a
task inline. Each action is one access to a shared atomic: `LoadCursor` and
`ClaimLeaf`/`ClaimLost` are the two halves of `claim()`; `Arrive` is the `fetch_sub`
and `ResetAndRun` the store that rearms the counter; `Announce`, `ReadGen`, `Leave`,
`SampleEpoch`, `PrePark`, `Recheck`, `ParkOn`, `Unpark` are the worker loop. The epoch
a park compares with is represented by `fresh`, which says whether it has been
raised since the worker sampled it; the value itself is never used otherwise. A
futex or `WaitOnAddress` may return early (`SpuriousWake`). `WakeExact` chooses
between the platforms that wake a given number of workers and Windows, where each
worker passes the wake on.

### ThreadPool

`ring` is the queue (each element with its claimer until it is published),
`queued` the count of every job, `running` and `taken` what a worker has in hand.
`Looks` and `Sibling` describe the call sites: the jobs a site tests with
`isQueued()` before it asks, and the job a run may end by adding. `owed` and
`dropped` are history: which requests no run has followed yet, and whether a
request was refused. `try_push()` refuses in two cases (`PushFull`): the ring is full, or
the cell it would use is still held by a consumer that has claimed it and not yet
freed it (`StillHeld`).

### SoundLifecycle

The status word, the head and the flags of each implementation, the lists of the
manager, and where each of the three threads is (`audio`, `worker`, `ctl`). Freed
implementations stay as `FREED` so that a pointer to one can be seen. The control
thread's calls through `pimpl` are two steps, the test and the call.

### FileScheduler

One state word per slot; `arm`, `worker` and `deliver` are the three places a slot can
be handled. `asked`, `ran`, `rejected` and `outcome` are history.

### SendGraph

`mirror`, `nodes`, `edges`, `posted` are the control side; `target`, `registry`, `gen`
the audio side; `mail` lies between. `built` is the dependency counts of the
render graph, and `None` while the scheduler's dirty flag is set, when nothing reads
them. What is released takes its mail and its generation with it. Creating a channel, and each half of `send()`, `clearSend()` and the
destructor that another thread can see, is a step.

### ChannelTree

`life` and `under` are the host's: what there is, and what each was last asked to
be below (`Lasting` is where that leaves it once channels above are gone). `mail` is a mailbox
per implementation. `parent` and `children` are the audio thread's; a channel's
`children` here are those of the code and the sounds in its slices. `waiting` is
`toLoad` and its inbox, `inUse` the list of each manager, in its order, and `audio` walks
`update()`, the sounds' manager and then the channels': promote, then visit
what is in use one by one. Whether an interface is gone is read once (`ReadsHead`), so a
destructor may come between that and the mail. A `Patient` host destroys nothing that
unread mail, or something not yet linked, still names, and nothing whose own mail
is unread; with another what section 5 describes happens. It may have moved any number of
channels before the first of these messages is read, and they are read in the order of
the list, not in that of the calls.

### PatcherReclaim

Snapshots and objects are addresses, and any free one may be handed out, so that one that
was freed may come back at once; `heapG` and `heapO` say which are allocated. `patch` is
`objects`, `active` the published snapshot, `block` the one the callback has loaded,
`heldG` and `heldO` what a pinned thread has. The block count and the epochs are
only ever compared by distance, so a retired thing has an age in blocks, counted up
to the two blocks of `Grace`. The editing thread goes through `RebuildAndPublish`,
the retirement and `ScheduleReclaim` in the order of the code, with `mtx` held from
beginning to end (`editor`); a pass holds `reclaimMtx_` (`ReclaimLocked`) and is its
load of the block count and the pins, the graphs, the objects, the test of
`shuttingDown_` and the sibling's enqueue. Tests of `shuttingDown_` and of `isQueued()` may
be stale when the job is added, and the destructor stores and joins regardless. Inlets and outlets of one object are
represented by one id: `AssignGraphIds`, `RecycleObjectIds` and
`CompactGraphIdsIfEmpty` treat the two ranges alike. `stale` are the retired objects
whose generation of ids is over.

### StreamRefill

`audio` walks through `requestRefill`, `streamSwap`, and the stores of `reset` and
`seek`, one access to a shared word at a time; `worker` through `fillBackBuffer` and
the pool's epilogue. A buffer is the frame it starts at and how many frames of it
count; frames are numbered modulo the file. `base` is the position the sound
believes the front buffer to have, so that "what is played comes next" is
`frontStart = base`. A generation is only compared with the present one, so each is
a flag: `frontFresh`, `backFresh`, `current`. `crossed` is history: a fill has come
between two accesses of the audio thread that take for granted it does not (section 5
names the three pairs), and no stop or seek has armed a reset since. A fade that ends
stops the sound where it is (`FadedOut`), with no reset. The host's play, pause, stop,
seek and restart reach the sound where `dsp` reads them; destruction goes through `sync`,
the manager's `runDelete`, and the delete job on the same worker.

## 3. What the runs check

States are distinct states; every number is a bound of the configuration.

* **`render_return`**: one worker; a master with a slice, a child channel with a
  slice, and a return. Five tasks, two leaves, one task with three arrivals, one
  continuation that is run inline from another. Leaf costs 1 and 3, so that every
  gate occurs; the generation wraps after 2; the control thread stops and restarts
  the workers. One worker is enough for each pair of threads the code
  distinguishes (rendering thread and worker); the pairs of workers are in the
  next run. Shows: the block invariant, that nobody is inside between blocks,
  that blocks and shutdowns end (a counter that is not rearmed would leave a block
  without its root), and that the scheduler implements `RenderBlock`.
* **`render_windows`**: two workers and two leaves, no stop, the Windows wake. Costs are
  measured as 1, the least the code stores (`renderScheduler.cpp:368`), so that a block is
  followed by another without a rebuild, which would rewrite the counters. Shows
  that a task runs once among three threads, that the counters are rearmed for the
  next block, and no lost wake when each worker has to pass it on.
* **`pool`**: two callers and one worker (the engine's slow pool has one), three jobs:
  one asked for by both callers without a guard, one asked for behind `isQueued()`,
  one that adds another from its run. A ring of two cells, so that it fills; stops
  and restarts. Callers ask only while the ring holds fewer than two elements,
  which leaves room for a full ring through the concurrent push; a push is refused, too, by
  a cell whose consumer has not freed it.
* **`mpmc_queue`**: three threads, two cells, positions up to 4: every cell is used
  for a second round while threads of the first are still suspended.
* **`sounds`**: one interface that may be refused and try again, so that it has two
  implementations in turn which meet in the lists and in the jobs; files and other
  sources, loads that may fail. Safety, and liveness: marked implementations are
  freed; an orphan is freed, provided it keeps being rendered. That a call through
  `pimpl` reaches a live implementation is checked for those whose file did not
  turn out invalid; the others are `sound_invalid`'s.
* **`files`**: one slot, two threads, three requests, one shutdown. One slot makes the
  threads compete for it; more slots only let them miss one another.
* **`sends`**: one source channel, two returns, one slot each, three calls of `send()`
  or `clearSend()` (those refused for a cycle change nothing and are not counted), and
  any order of creation and destruction. Two returns are enough for a cycle, for a generation that rises and falls, and for a return that sends to one
  that is destroyed; three calls are enough to turn an edge around or to retarget and
  clear a slot; two slots, which find nothing new, take five times as long. A host
  does not destroy a return while a message that names it is unread: section 5 says what happens otherwise.
  Shows, besides the registries and counts: the edges of the wiring are the host's sends slot by slot, and
  once it is quiet every send of a return is heard.
* **`channel_tree`**: three channels, one sound and two calls of `moveTo()`, with every
  order of creation and destruction; a `Patient` host. Three
  channels are enough for a child that changes parents, for a chain
  in which the parent and its own parent go in one pass, in either order of the list,
  and for a move out of a subtree that is going. Shows: nothing points at what was
  released; each is in the list of its parent and in no other, although two moves read
  in the other order make the links a circle for a while (`MCTreeMoves.cfg`); once everything is read and released, the tree is the host's.
* **`patcher`**: one handle, two object addresses and three snapshot addresses, so that
  an object is replaced while the old one is retired and addresses come back;
  one thread that reads under a pin, one parameter plan waiting. Every edit, any
  number of blocks and passes, and at last the destruction, which may meet a pass that
  tested `shuttingDown_` too early. Shows: nobody is left with freed memory, no id is handed out
  twice, and every id below the high-water mark is in use or can be handed
  out again. A deadlock would be reported: the joins of the destructor always return.
* **`stream`**: a file of three frames through buffers of two, so that buffers end
  inside, at and past the end of the file, with and without looping; seeks to the
  first and the second frame; one shutdown of the pool; every interleaving of the audio
  thread's accesses and the worker's. A seek past the end, with which `Fed` takes too long
  to check, is left to the theorems, which hold for any seeks. Shows: fills have their
  buffer to themselves; a buffer that waits follows the front one of its generation
  exactly (`Gapless`), whatever crosses; the front one begins at the position until
  a fill is `crossed`; and a sound that ran out of frames gets more or stops.

### Runs that TLC finds violated

Each checks a sentence of the code's own documentation (`findings` quotes it).

* **`sound_invalid`**: a file that turns out invalid after `create()` succeeded. The
  slow pool frees the implementation under an interface that is alive and may be
  inside a call.
* **`stream_delete`**: a delete job that was queued, for another sound, before a
  stopping stream queued its refill finds that stream marked and destroys it.
  `~soundFile` joins the refill, which waits behind the delete job for the only
  worker of the slow pool. The worker spins for ever, holding
  `implementationsMutex`: no file is loaded, nothing is freed, and the next sound
  that is created blocks the control thread.

### Fairness

`FairSpec` of `RenderScheduler`, `ThreadPool` and `StreamRefill`, `Live` of the others: every thread
that can take a step eventually does, because the operating system schedules all
of them and no modelled step waits for a lock. Nothing obliges the device to ask
for a block, a caller to ask for a job, or the control thread to stop or restart
anything. Two assumptions go further. In `RenderScheduler` a park ends by itself
only finitely often, so that progress is not owed to spurious wakes: a stronger
demand on the code, not a weaker one. In `SoundLifecycle`, `Audible` says that no
sound is virtual for ever; the code frees an orphaned sound only once its own
rendering has stopped it, and without this assumption `OrphanIsFreed` fails (see
section 5). In `StreamRefill` the device does keep asking for blocks, since `Fed`
is about a sound that plays; both the audio thread and the worker are weakly fair.

## 4. What is proved

`Rendering_proofs`, of the scheduler, for any number of workers, any costs and any generation limit. The
first four hold of any graph, from `RenderAssumption` alone:

* `TypeCorrect`: `Spec => []TypeOK`. It includes that no compare-and-swap of
  `claim()` is reached with a null leaf. The proof has one lemma per group of
  variables, each with one step per action that disturbs it.
* `BlockInvariant`: `Spec => []BlockInv`. `inFlight` is exactly the number of workers
  between their announcement and their departure, `parked` the number of those in
  their park, across stops, restarts, and every way out of a park; a block is open
  only while the rendering thread is inside `run()`; and a worker drains only a
  block that is open or whose closing waits for it.
* `NoWakeIsLost`: `Spec => []NoLostWake`. A worker may be anywhere between its look at the
  generation and its park when the block opens. `WakeInv` says what the epoch does for one that has
  passed its second look: after the bump it returns from the park at once or has joined the
  block (`WillNotSleep`), so a wake call that finds nobody asleep leaves them all up, and one
  that finds somebody wakes at least one (`GateInv`: the number wanted is not 0). `CountsExact`
  covers the block that makes no call, since nobody is parked. One worker at least then stays up
  or joins for as long as the block is open (`OneStaysUp`).
* `NobodyInside`: `Spec => []NoWorkerInside`. Between blocks, and while the lists are
  rebuilt, no worker is where it can read them.

`NoWorkerInside` is not inductive: the rendering thread passes from waiting to idle
when `inFlight` reads 0, so the count must be known to be exact (`CountsExact`); a
worker enters only when it reads an open generation, so an open block must imply
that the rendering thread is inside `run()` (`OpenDuringRun`); and a worker
inside needs a block to belong to (`DrainsOpenBlock`). `BlockInv` is the
conjunction, with `DownExited` for the restart. The argument counts with
`Cardinality`: `MoveCounts` says what one worker's move does to the size of a set of
workers, and `CountsStep` applies it to each action.

Two more use `GraphAssumption`: a task is given the number of arrivals that
will come, its leaves are the tasks nobody arrives at, every task leads to the root, and none to
itself. `buildRenderGraph()` makes such graphs: `GraphCurrent` and `Layered` of `SendGraph`
are the counts and the order among channels, and `addLeaf()` is called for exactly what waits for nobody.

* `TasksRunOnce`: `Spec => []RunsOnce`.
* `BlocksAsPromised`: `Spec => StepsOfBlock`, the refinement of `RenderBlock` without its
  fairness: every step is `Open`, `Begin` or `End` of a task, `Close`, or a stutter.

The counters say nothing by themselves of who arrived. The invariant `RunsInv` reads the arrivals
that are still to come off the threads' stacks (`Missing`: those of tasks that have not started, and those
the frames of the others are still before), and its parts are: no two frames have the same task, a
task that runs misses nothing, one that misses nothing has a frame or has run (`Orderly`); a
counter is the number of arrivals its task misses, until it is rearmed (`Counted`); the lists hold
the leaves in the order they were dealt, and each cursor is behind those that ran
(`Dealt`, `Claimed`). The steps are proved first on the set of frames, then on the stacks, then as
actions. That a block ends with every task run has two proofs, since it ends in two ways: an open
block after the root, which ran last (`RootIsLast`); a serial one when the rendering thread finds every list
empty, which leaves nothing to wait for (`ScanEmpty`, `AllHaveRun`).

`SendGraph_proofs`, for any channels, returns, slots and number of calls, and for
hosts that do and do not destroy a return whose `ADD_SEND` is unread (where not said otherwise), from
`SendAssumption` alone:

* `NodesStayAlive`: `Spec => []NodesAlive`. The inductive invariant `LifeInv` says why:
  what is alive keeps its head, what has its head is not released, and the
  destructor takes a return out of the graph before it lets go of the head.
* `RegistriesMirrorSlots`: `Spec => []RegistryAgrees`. By itself it is inductive only
  for messages that name a slot and a return, so `Typed` carries their form
  through the mailboxes and the call under way; `Agree` is the property slot by slot.
  It holds for the host of `MCSendsPrompt.cfg` too: what goes wrong there is not the
  registry but when the message is applied.

* `GraphIsCurrent`: `Spec => []GraphCurrent`. The counts are those of the graph or marked
  dirty at every moment, not between blocks only (`CurrentInv`).
* `SendsReachTheLiving`: `Spec => []NoDanglingSend`, for a host that destroys no return while
  mail that will be read names it (`~Prompt`); without it the property is false (section 5).
  `PatientInv` extends that to the whole time until the mail is read: a return some unread
  `ADD_SEND` names is alive and not in its destructor. A message posted later names one as alive,
  since one host thread makes the calls (`HostInv`). `Release` cuts off every sender because
  registries mirror slots.
* `AudioArrives`: `Spec => []AudioFollowsHost`, for the same host. The property speaks of empty
  mailboxes only; its invariant says at every moment what a mailbox adds up to. The last message
  about a slot is the mirror's choice, and without a message the slot has it, or was cut off from
  a return that is gone (`SlotInv`); a call between its change of the mirror and its post is ahead
  of both (`Pending`). Generations have the same (`GenInv`), and what was not created yet has
  neither (`AbsentInv`).
  The last part of the property, that generations rise along every slot of a return, since
  `accumulateSend()` is silent where they do not, is `Layered` carried over to the audio thread.
* `SendsAreLayered`: `Spec => []Layered`, for both kinds of host. `Generations` is a recursive function
  over passes. It is the function that its own definition describes because one can be made, pass after
  pass, out of what a pass does (`PassesAre`). No generation exceeds the number of its pass (`PassBounds`),
  and where some rank rises along all edges the passes come to rest at the rank
  (`PassesSettle`), so that no generation changes in the last pass and each is above those before it
  (`GenerationsRise`). The code makes one pass for each return: a rank is therefore first
  packed below the number of returns (`RanksPacked`), as the number of those that rank lower. There
  always is a rank. What was posted is one after an edge is gone, and for a new edge the one below
  raises what was posted for all that its target reaches (`SendLayers`), which leaves out where it comes
  from, or it would have been refused. `EdgeInv` has the second half: an edge is
  added before the slot is rewritten and dropped with it, so that the counts are those of the slots, and one more during the
  call; a return that is gone has neither.

Both need induction, over numbers and over finite sets. The library's theorems about it cannot be
instantiated here, but the set of the numbers with a property can be shown to be all of them from its
least missing member (`AllNumbers`).

`Rendering_proofs`, of the tree, for any channels, sounds and bound on the moves, and for the
host of the run `channel_tree` (`Patient`):

* `LinksStayLive`: `TreeSpec => []PointersLive`, and `BothEndsAgree`: `TreeSpec => []ListsAgree`. Both
  are parts of `TreeInv`: the two ends of every link agree (`Linked`), and what a mailbox or something
  not yet linked names is alive (`Mailboxes`). One step could break it: a channel that goes
  connects its children to its parent, and if that is one of them, it would be connected to itself.
  Circles do form, since a channel may be moved below one whose own mail is not read
  yet. `Entangled` says of any channels whose parents are all among them (`Closed`) that one of
  them has mail that is being read, or will be before another of them is visited (`Due`, `Before`):
  whoever closes a circle was read after that one. A channel
  that goes has no mail, since its host waited for it, and a circle of it and its parent would need the
  parent's mail to be read before the channel's own visit, which is now (`HeirIsAnother`).
  `InOrder` ties what an update has yet to visit to the order of the manager's list, which new channels
  join at the front.
* `HostGetsItsTree`: `TreeSpec => []TreeFollowsHost`. One without mail is
  where it was asked to be or above that and past what is gone (`Lifted`), and with mail
  the last message says where the host put it (`Asked`); when nothing that is gone is left
  there is one such place. `Lasting` is a
  recursive function along `under`; one that does what its definition says exists (`LastingIs`), and what
  it gives is what every set closed under that step holds.

`ThreadPool_proofs`, for any callers, jobs, call sites and size of the ring, any number of
shutdowns, from `PoolAssumption` alone (no job adds itself from its run: line 647 of
`patcherImplementation.h` says why none could):

* `PoolTypeCorrect`: `Spec => []TypeOK`, for any number of workers. It includes that no count of
  starts goes below zero.
* `JoinIsSafe`: `Spec => []JoinMeansDone` with one worker, which every pool of the engine has; with
  two it is false (section 5). `JoinMeansDone` is about a count of 0 and says nothing of the counts before. `CountCovers`
  does: a request nobody has followed is in the count on top of what the run in progress will take off, and
  while the pool is up that is in the count too. `AddsSibling` keeps the worker's own request
  apart from the run it is made in, and `CallersWhenUp` every other request out of a shutdown,
  which zeroes counts under a run.
* `QueuedCoversTheRing`: `Spec => []QueuedCoversRing`, for any number of workers. `Sole` says that
  a guarded job is in one place at a time: a cell, a worker's hand, the drain of `shutdown()`, or
  a caller between its test and its push; and that it is counted in all but the last. Without the
  exclusion a finishing run, a drain or a request taken back would clear the count of an element
  that is still in the ring.

`StreamRefill_proofs`, for any file, any size of buffer, any seeks and any number of
shutdowns of the pool:

* `AloneInBuffer`: `Spec => []FillAlone`. The inductive invariant `RefillInv` follows a
  refill through the four places it can be: the audio thread's hands between the
  claim and the push, the ring, the worker's hands, nowhere. The claim flag
  is up in the first three and no two of them hold at once (`ClaimGuards`); the
  pool's count of the job is 1 in the ring and in the worker's hands until its last
  store (`CountsRefill`), which is why a claim that leaked can be told from one that
  is at work and why the destructor's join is enough (`MarkedIsLeft`); and a buffer
  that waits to be played is looked for after the claim, when no fill can
  publish one any more (`BufferFree`). `RingPushed` and `RingPopped` say what a push
  and a pop do to the refills in the ring. No `ASSUME` is used: the argument
  does not depend on what a file holds.
* `PlaysWhatIsDue`: `Spec => []PlaysWhereItSays`, from `StreamAssumption`, with no assumption about the
  scheduling. It has two invariants. `GapInv` is about generations, whatever crosses: a front buffer of
  the present one has no reset before it, and a fill or a full back buffer of it none behind it
  (`NoneBehind`), and the file is read on where the last fill ended (`ReadOn`). `PlayInv` holds until a fill is `crossed`. In it
  the frame that is to follow the front
  buffer (`Due`) is always somewhere: in the seek's target while a reset is armed, or will be
  by a fill that consumed it too early (`ResetInv`), in a back buffer that is current
  (`ReadyInv`), or where the fill under way or the next one will read (`SourceInv`). Positions
  are remainders, so the proof starts from division: `ModAdd` and `AfterFollows` say that a
  fill, around the end of the file or not, ends where the next one begins.

`MpmcQueue_proofs`, for any number of threads and of cells, from `QueueAssumption` alone:

* `CellsHaveOneOwner`: `Spec => []CellsOwnedOnce`. A cell's sequence number alone does not
  say who may touch it: a thread suspended after it claimed a position still owns the
  cell while the positions go round. `QueueInv` numbers every cell by the position it
  is for and where in its cycle it is (`CellsNumbered`), ties what each thread has
  claimed to the numbers that say so (`ClaimsHold`, `ClaimedOnce`), and bounds what a thread
  read before its compare-and-swap by what the positions are now (`ReadsFresh`): this
  is why a stale read can only lose.
* `QueueIsFifo`: `Spec => ImplementsFifo`, the refinement of `BoundedFifo`. Every step
  maps to one claim, one publication, one removal or a stutter; `ValuesCarried` says that the cell
  of a position holds what its claimer brought until somebody takes it.
* `QueueTypeCorrect`: `Spec => []TypeOK`.

`SoundLifecycle_proofs`, for any interfaces, implementations, kinds of sound and
outcomes of their loads, from `SoundAssumption` alone, one lemma per thread and one step per
action:

* `UnlinkedBeforeDeleted` (`DeleteMeansUnlinked`), `SetupIsAlone` (`SetupAlone`),
  `PointersAlwaysAgree` (`PointersAgree`) and `CallsReachTheLiving` (`SafeUnlessInvalid`). The
  inductive invariant `LifeInv` says in which lists an implementation of each status may
  be (`ListsApart`), what the audio thread is about to do to the one it is at
  (`AudioVisits`), what the control thread has made and not published
  (`HeldByControl`), what the worker has claimed (`WorkerAlone`), and when the pointers
  between an interface and its implementation are there at all (`PointersKept`, `OutForAReason`).
  Without the last, an interface alive could lose its implementation to the delete job; the only
  way left is the invalid file that `sound_invalid` shows.

`FileScheduler_proofs`, for any slots, threads, requests and shutdowns:

* `OneHolder` (`SlotHeldByOne`), `AnswersAreTrue` (`ResultIsTrue`) and, as an action
  property, `AnswersAreFinal` (`AnsweredOnce`). `FileInv` follows a request through the places
  it can be (`OnePlace`), gives every state of a slot its owner (`Owners`) and says what has been
  done for a request in each place (`Progress`). The late completion in `Arm()`, which can hit a
  slot that holds another request by then, is the case that shapes it: `COMPLETE` does not imply that the
  operation ran, and the theorems hold all the same, since that request is answered
  as failed and its operation never carried out.

`PatcherReclaim_proofs`, for any heap, handles and readers, from
`PatcherAssumption` alone:

* `NothingUsedIsFreed` (`NoUseAfterFree`) and `IdsStayUnique` (`IdsAreUnique`). What keeps a
  snapshot from outliving its objects is the order of retirement: a snapshot is as old as any
  retired object it names (`Contents`), so that a pass that takes the object takes the snapshot
  first (`Passing`). What a block has loaded is one block old at most, and two are needed
  (`Rendering`). A reader that a pass did not see came after the pass had chosen what to free,
  and can only load what was not retired then (`Readers`). Ids need `StaleRetired`: the ids of an
  older numbering are those of retired objects, so that what is doomed or in the patch never
  has one. `Phases` follows the destructor.
* `NoIdIsLost` (`NoIdLost`): every id below the high-water mark is in use or can be handed out
  again. It is inductive with the others, and needs them: a pass gives back the ids of
  what it frees unless they are of an older numbering, which must therefore be
  none of the present one.

Checked by TLC only: the liveness properties, since the prover has no `ENABLED`, and with them the
fairness of the refinement of `RenderBlock`. Every invariant and every other action property of the runs
is a theorem.

## 5. What the models leave out

* Weak memory: every step is sequentially consistent. The code's acquire and
  release annotations are taken to be enough; the barriers in `wakeWorkers()` and
  `workerLoop()` are the places where this matters.
* Samples, gains, positions and file contents; logging; timing except as "may
  happen at any time".
* `MpmcQueue`: the wrap of 64-bit positions. `RenderScheduler`: the cost arithmetic,
  beyond costs out of a small set.
* `SoundLifecycle`: buffer sources, layout changes, sound files shared by several
  sounds, and `destroy()` at close; moving to another channel is in `ChannelTree`.
* `SendGraph`: moves, sub-channels (every source is a child of the master), voice
  slices, levels, layout changes other than the fresh setup they cause. Setup
  happens at any time after it may, and what is marked for deletion counts as
  freed; how the manager asks for both is in `SoundLifecycle`, whose manager has the
  same code. An address that was freed is
  not used again; the mirror of a slot keeps the address of a return that is
  gone (`channelInterface.cpp:261`), so a new return there could lose an edge.
* `ChannelTree`: how a channel's sounds are spread over slices, layout changes, the
  returns, `destroy()` at close. Setup ends at any time, what is marked counts as
  freed, and no address is used again.
* `PatcherReclaim`: connections, values, files, OSC and what a block renders. One
  control thread edits; the host stops the audio and starts nothing new before it
  destroys the patcher, and uses no handle it is deleting. The pool stays up.
* `StreamRefill`: the load job, whose front buffer is there from the start, and what
  is not streamed. The loop flag is any value where it is stored.
* The type invariants (`TypeOK`) of `RenderScheduler` and `ThreadPool` say something
  of the code (a generation that wraps, a count that must not) and belong to runs;
  those of the other modules document the variables.

### What the models left behind

Disagreements with comments or hazards that came up while modelling and that are
not among the regular runs, each with the place to look at. Where a configuration
and a property are named, TLC shows the case with them:

* `channelImplementation.cpp:841`: an `ADD_SEND` is applied without knowing whether the
  return it names still exists. One destroyed before its sender reads the message is
  released and detached first; the sender then links its slot to it, although
  `channelManager.cpp:146` "guarantees no live send slot dereferences the freed impl"
  (`MCSendsPrompt.cfg`, `NoDanglingSend`).
* `channelImplementation.cpp:783`, `soundImplementation.cpp:440`: what is promoted connects to the parent its
  interface was created under. A channel destroyed before its child
  is ready knows nothing of that child and is released; the child is then linked to
  freed memory, and so is what a `MOVE` still unread sends there.
  `03_channels.rst:75` says that "custom channels can be torn down cleanly. Sounds and
  subchannels move up to the parent" (`MCTreeDestroyed.cfg`, `PointersLive`).
* `channelImplementation.cpp:805`: each mailbox is read when the list reaches it. Of
  two channels moved one after the other, the second may read its mail in the pass
  before the first, and between them they form a cycle that the master does
  not reach, where `channelInterface.hpp:39` has "a tree rooted at MainMix". Blocks
  rendered in between are without their sounds (`MCTreeMoves.cfg`, `Rooted`).
* `channelImplementation.cpp:888-891`: if one of that cycle is destroyed before its
  own mail is read, `childrenToParent()` connects the other to itself. `connect()` then
  only clears a pointer, the list keeps its first child, and the loop does not end: the
  callback hangs (`MCTreeHangs.cfg`, `TornDown`). Nothing in
  `moveTo()` keeps a host from moving a channel below itself either.
* `soundInterface.cpp:597`: `moveTo()` of a sound does nothing if the new channel's
  address is the one it was last given. A channel destroyed and another created
  at its address is such a channel, and the sound stays where the old one left it.
* `threadPool.cpp:104`: with two workers, two elements of one job run at once and the
  later release takes the other's count away. Latent: every pool of the engine has
  one worker.
* `threadPool.cpp:153-158`: a request dropped for a full ring takes its count back; if
  the worker accounted for it meanwhile, the count taken is that of a later
  request. `JoinMeansDone` and `Served` stop promising once a request was dropped.
* `threadPool.cpp:148`: `addJob()` tests `active` and then pushes. The reclaim pass
  calls it from the worker while `shutdown()` drains, and its job remains queued in
  a pool without workers, where its owner's `join()` spins, although line 129 says
  that a pending `join()` returns (`MCPoolReclaimStop.cfg`, `DownMeansIdle`).
* `patcherImplementation.cpp:303-310`: "`shuttingDown_` guarantees neither re-arms"
  does not hold of a pass that tested `shuttingDown_` before it was stored and adds
  its sibling after the destructor has joined that sibling: `FreeAllRetired` then
  runs while a pass is queued, on lists and a job that are being destroyed
  (`MCPatcherDestroyed.cfg`, `FreedAlone`).
* `patcherImplementation.h:664-668`: the chain of passes goes on "while the audio
  epoch keeps advancing", but the sibling usually runs within the same block, finds
  the epoch where the pass before it left it, and ends the chain. What the last
  edit retired then waits for the next edit.
* `patcherImplementation.cpp:1105-1114`: a parameter plan that is drained by a block
  whose snapshot is older than the plan's object is dropped, for an object that
  is in the patch.
* `patcherImplementation.cpp:2298`: `ScheduleReclaim()` tests and then adds, and the
  reclaim pass adds from the worker, so that one pass may be queued twice. The first `activate()`
  then takes both counts away (`threadPool.cpp:104`) while a second element of the ring still
  names the job: the destructor's `join()` returns, and the worker later runs, and counts
  down, a job that is gone with the patcher.
* `abstractSoundFile.cpp:525-531`: `streamSwap` loads `_backReady` twice. A fill that
  began before a seek and publishes between the two loads is swapped in, although
  `abstractSoundFile.h:182-184` says a swap is accepted only when the tag matches
  (`MCStreamStale.cfg`, `AcceptsOnlyCurrent`). `PlaysWhereItSays` excludes it by name (`crossed`).
* `abstractSoundFile.cpp:857-859`: a fill that begins and ends between the stores of
  `_needsReset` and `_fillGen` consumes the reset, is dropped, and does not arm it
  again, so the next one skips a buffer; one that does so between `_fillGen` and
  `_backReady` is current, and is dropped all the same. Both need a worker that
  does a whole fill between two stores; these are the other cases of `crossed`.
* `abstractSoundFile.cpp:154`: the loop flag is stored for the next fill; a buffer
  that has been filled keeps the end of the flag before. A sound set to loop while
  its last buffer waits stops once more, and one set not to loop plays on into the
  buffer that went around.
* `lsfSoundfile.cpp:153-164`: an empty file that loops is read for ever, on the slow
  pool's only worker.
* `soundImplementation.cpp:752`: a virtual sound is not rendered, and only rendering
  moves an orphaned sound to the state in which `sync()` releases it. A sound
  destroyed while virtual stays as long as it is virtual.
* `fileScheduler.cpp:124`: the check `Arm()` makes after it has added its job can meet
  a slot that has been freed and armed again by another thread, and fails a request
  that nothing rejected, although `fileScheduler.h:289-290` says there is no ABA to
  guard against (`MCFileSpurious.cfg`, `FailsOnlyWhenRejected`).
* `fileScheduler.cpp:124` with `threadPool.cpp:129`: a shutdown drops a queued job
  whose slot stays armed. `EveryRequestAnswered` names those requests (`Stranded`)
  and leaves them out.
* `renderScheduler.cpp:584`: "either the worker sees the open block, or we see it
  parked" holds for waking at all; a block that opens without waking leaves a
  sleeping worker asleep by design.

## 6. Plan

In this order. Each step names what would be modelled, what would be checked and,
where it pays, proved.

1. `SampleBuffer`: readers, replacement and `collect()`.
2. `SessionClose`: the order of `close()` against the callback, the pools and the
   managers; then the watchdog of `system::update()`.
3. `NamedBus` and `RtLogQueue` over a single-consumer queue; then synth voices,
   clocks and MIDI as far as they are concurrent.
4. Proofs: of the modules above.

## 7. Running

    tlc -workers 4 -config MCSends.cfg MCSendGraph
    tlapm Rendering_proofs.tla     (and every other *_proofs module)

Each run of `PROJECT.json` names its module and configuration. `PROJECT.json` also maps
every definition to the lines it models, and names for every property a mutant: a
plausible slip in one definition under which the property fails.
