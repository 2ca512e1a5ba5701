--------------------------- MODULE PatcherReclaim ---------------------------
(***************************************************************************)
(* How a patcher publishes and frees its snapshots.  The control thread    *)
(* edits the objects under a lock, builds a snapshot of them and publishes *)
(* it with one store; the audio thread loads the snapshot at the start of  *)
(* each block; other control threads read a snapshot, or one object, under *)
(* a pin.  What an edit replaces is retired with the block count of that   *)
(* moment, and a pass on the slow pool frees it two blocks later unless    *)
(* somebody holds a pin.  Two jobs run the passes in turn.                 *)
(*                                                                         *)
(* The block count and the epochs are never compared but by distance, so   *)
(* each retired thing has an age in blocks instead, counted up to Grace.   *)
(* An edit holds mtx until its last ScheduleReclaim returns; a             *)
(* pass holds reclaimMtx_ from its load of the block count to its last     *)
(* free.  One control thread edits.  The allocator hands out any free      *)
(* address, so that one that was freed may come back at once.              *)
(***************************************************************************)
EXTENDS Integers, Sequences, FiniteSets

CONSTANTS
  Objects, Graphs,  \* addresses
  Handles,          \* what the host calls an object by
  Users,            \* control threads that read without the patcher's lock
  PlanCap,          \* bound: scalar parameter plans waiting for a block
  None

Grace == 2
Jobs == {0, 1}
Sibling(j) == 1 - j

ASSUME PatcherAssumption ==
  /\ PlanCap \in Nat
  /\ None \notin Objects \union Graphs \union Handles

VARIABLES
  \* the heap
  heapG, heapO,      \* allocated snapshots and objects
  holds,             \* per snapshot, the objects it names
  id,                \* per object, its graph id
  \* the patcher
  active, patch,     \* active_; objects: what each handle stands for
  freeIds, nextId,
  plans,             \* paramQueue_: the objects the plans are for
  pins, shuttingDown,
  \* the retire lists, under reclaimMtx_
  retiredG, retiredO,
  ageG, ageO,        \* blocks begun since each was retired
  stale,             \* retired objects whose id is of an older numbering
  moved,             \* a block has begun since lastReclaimEpoch_
  \* the editing thread
  editor, doomed, emptied, old, after,
  \* the audio thread
  audio, block,      \* block: the snapshot it has loaded
  \* the other control threads
  reader,            \* those inside a pin
  heldG, heldO,      \* the snapshot or the object each has loaded under it
  \* the slow pool's worker and the two reclaim jobs
  ring, queued, worker, job, taken,
  dueG, dueO, again   \* dueG, dueO: what the pass frees

heap == <<heapG, heapO, holds, id>>
content == <<active, patch, freeIds, nextId>>
retireLists == <<retiredG, retiredO, ageG, ageO, stale>>
editing == <<editor, doomed, emptied, old, after>>
rendering == <<audio, block>>
reading == <<reader, heldG, heldO>>
pool == <<ring, queued>>
passing == <<worker, job, taken, dueG, dueO, again>>
vars == <<heap, content, plans, pins, shuttingDown, retireLists, moved, editing,
          rendering, reading, pool, passing>>

FreeG == Graphs \ heapG
FreeO == Objects \ heapO
Live(p) == {p[h] : h \in {k \in Handles : p[k] # None}}
Named == {h \in Handles : patch[h] # None}

ReclaimLocked == worker \in {"freeGraphs", "freeObjects"}
IsQueued(j) == queued[j] # 0

(***************************************************************************)
(* The editing thread: CreateObject, SetObjectParams, DeleteObject, Clear  *)
(***************************************************************************)

\* The edit itself, up to the new snapshot, seen by others only under mtx; a
\* handle's own pointer is stored before the snapshot is published.
Edit(newPatch, gone, numbers, top, none) ==
  /\ patch' = newPatch
  /\ freeIds' = numbers
  /\ nextId' = top
  /\ doomed' = gone
  /\ emptied' = none
  /\ editor' = "publish"

\* A fresh object for handle h: CreateObject, or a structural SetParams.  It
\* takes a recycled id if there is one (AssignGraphIds).
Place(h) ==
  /\ editor = "idle" /\ ~shuttingDown /\ ~ReclaimLocked
  /\ Cardinality(FreeG) > 1
  /\ \E o \in FreeO :
       LET put(i, numbers, top) ==
             /\ heapO' = heapO \union {o}
             /\ id' = [id EXCEPT ![o] = i]
             /\ Edit([patch EXCEPT ![h] = o], {patch[h]} \ {None}, numbers, top, FALSE)
       IN IF freeIds = {}
          THEN put(nextId, {}, nextId + 1)
          ELSE \E i \in freeIds : put(i, freeIds \ {i}, nextId)
  /\ after' = "idle"
  /\ UNCHANGED <<heapG, holds, active, plans, pins, shuttingDown, retireLists, moved, old,
                 rendering, reading, pool, passing>>

\* CompactGraphIdsIfEmpty, with the generation captured before it.
Compacts(p) == Live(p) = {}

Remove(S) ==
  LET rest == [h \in Handles |-> IF h \in S THEN None ELSE patch[h]] IN
  /\ ~ReclaimLocked
  /\ IF Compacts(rest)
     THEN /\ Edit(rest, {patch[h] : h \in S}, {}, 0, TRUE)
          /\ stale' = retiredO
     ELSE /\ Edit(rest, {patch[h] : h \in S}, freeIds, nextId, FALSE)
          /\ UNCHANGED stale
  /\ UNCHANGED <<heap, active, plans, pins, retiredG, retiredO, ageG, ageO, moved, old,
                 rendering, reading, pool, passing>>

\* DeleteObject of a handle and what it contains, or Clear.
Delete(S) ==
  /\ editor = "idle" /\ ~shuttingDown
  /\ S # {} \/ Named = {}
  /\ Cardinality(FreeG) > 1
  /\ Remove(S)
  /\ after' = "idle"
  /\ UNCHANGED shuttingDown

\* SetObjectParams of a scalar: the plan waits for the next block.
SetParams(h) ==
  /\ editor = "idle" /\ ~shuttingDown /\ h \in Named
  /\ Len(plans) < PlanCap
  /\ plans' = Append(plans, patch[h])
  /\ UNCHANGED <<heap, content, pins, shuttingDown, retireLists, moved, editing, rendering,
                 reading, pool, passing>>

\* BuildGraph, and the store that publishes it.
Publish ==
  /\ editor = "publish"
  /\ \E g \in FreeG :
       /\ heapG' = heapG \union {g}
       /\ holds' = [holds EXCEPT ![g] = Live(patch)]
       /\ active' = g
  /\ old' = active
  /\ editor' = "retireGraph"
  /\ UNCHANGED <<heapO, id, patch, freeIds, nextId, plans, pins, shuttingDown, retireLists,
                 moved, doomed, emptied, after, rendering, reading, pool, passing>>

RetireGraph ==
  /\ editor = "retireGraph" /\ ~ReclaimLocked
  /\ retiredG' = retiredG \union ({old} \ {None})
  /\ ageG' = [g \in Graphs |-> IF g = old THEN 0 ELSE ageG[g]]
  /\ old' = None
  /\ editor' = "look0"
  /\ UNCHANGED <<heap, content, plans, pins, shuttingDown, retiredO, ageO, stale, moved, doomed,
                 emptied, after, rendering, reading, pool, passing>>

\* ScheduleReclaim returns: the objects are retired next, then it is called
\* again.
Scheduled == editor' = IF doomed # {} THEN "retireObjects" ELSE after

Look0 ==
  /\ editor = "look0"
  /\ IF shuttingDown \/ IsQueued(0) THEN Scheduled ELSE editor' = "look1"
  /\ UNCHANGED <<heap, content, plans, pins, shuttingDown, retireLists, moved, doomed, emptied,
                 old, after, rendering, reading, pool, passing>>

\* addSlowJob
AddJob(j) ==
  /\ queued' = [queued EXCEPT ![j] = @ + 1]
  /\ ring' = Append(ring, j)

Look1 ==
  /\ editor = "look1"
  /\ IF IsQueued(1) THEN UNCHANGED pool ELSE AddJob(0)
  /\ Scheduled
  /\ UNCHANGED <<heap, content, plans, pins, shuttingDown, retireLists, moved, doomed, emptied,
                 old, after, rendering, reading, passing>>

\* faulty: an object is retired without a generation
StaleUntagged == stale \union doomed

\* What is retired has the generation captured before the edit.
StaleTagged == IF emptied THEN stale \union doomed ELSE stale \ doomed

RetireObjects ==
  /\ editor = "retireObjects" /\ ~ReclaimLocked
  /\ retiredO' = retiredO \union doomed
  /\ ageO' = [o \in Objects |-> IF o \in doomed THEN 0 ELSE ageO[o]]
  /\ stale' = StaleTagged
  /\ doomed' = {} /\ emptied' = FALSE
  /\ editor' = "look0"
  /\ UNCHANGED <<heap, content, plans, pins, shuttingDown, retiredG, ageG, moved, old,
                 after, rendering, reading, pool, passing>>

(***************************************************************************)
(* ~patcherImplementation, on the editing thread; the audio thread has     *)
(* been stopped and the host starts nothing new                            *)
(***************************************************************************)
Closing == shuttingDown \/ editor = "dead"

ShutDown ==
  /\ editor = "idle" /\ audio = "idle" /\ ~shuttingDown
  /\ shuttingDown' = TRUE
  /\ editor' = "clear"
  /\ UNCHANGED <<heap, content, plans, pins, retireLists, moved, doomed, emptied, old, after,
                 rendering, reading, pool, passing>>

FinalClear ==
  /\ editor = "clear"
  /\ Remove(Named)
  /\ after' = "join0"
  /\ UNCHANGED shuttingDown

\* The joins of the two jobs, then the wait for the pins.
Waited ==
  \/ editor = "join0" /\ ~IsQueued(0) /\ editor' = "join1"
  \/ editor = "join1" /\ ~IsQueued(1) /\ editor' = "unpinned"
  \/ editor = "unpinned" /\ pins = 0 /\ editor' = "freeAll"

Wait ==
  /\ Waited
  /\ UNCHANGED <<heap, content, plans, pins, shuttingDown, retireLists, moved, doomed, emptied,
                 old, after, rendering, reading, pool, passing>>

FreeAllRetired ==
  /\ editor = "freeAll"
  /\ heapG' = heapG \ (retiredG \union {active})
  /\ heapO' = heapO \ retiredO
  /\ retiredG' = {} /\ retiredO' = {}
  /\ active' = None
  /\ editor' = "dead"
  /\ UNCHANGED <<holds, id, patch, freeIds, nextId, plans, pins, shuttingDown, ageG, ageO, stale,
                 moved, doomed, emptied, old, after, rendering, reading, pool, passing>>

(***************************************************************************)
(* The audio thread: Calculate                                             *)
(***************************************************************************)
AudioUnchanged == UNCHANGED <<heap, content, pins, shuttingDown, retiredG, retiredO, stale,
                              editing, reading, pool, passing>>

LoadActive ==
  /\ audio = "idle" /\ ~Closing
  /\ block' = active
  /\ audio' = "loaded"
  /\ UNCHANGED <<plans, ageG, ageO, moved>> /\ AudioUnchanged

Older(a) == IF a < Grace THEN a + 1 ELSE Grace

\* audioBlock_ is counted up after the load.
CountBlock ==
  /\ audio = "loaded"
  /\ ageG' = [g \in Graphs |-> IF g \in retiredG THEN Older(ageG[g]) ELSE 0]
  /\ ageO' = [o \in Objects |-> IF o \in retiredO THEN Older(ageO[o]) ELSE 0]
  /\ moved' = TRUE
  /\ audio' = "drain"
  /\ UNCHANGED <<plans, block>> /\ AudioUnchanged

\* ApplyPendingParams: the plan's target is looked for among the block's
\* objects by its address.
ApplyPlan ==
  /\ audio = "drain" /\ plans # <<>>
  /\ plans' = Tail(plans)
  /\ UNCHANGED <<ageG, ageO, moved, rendering>> /\ AudioUnchanged

Drained ==
  /\ audio = "drain" /\ plans = <<>>
  /\ audio' = "render"
  /\ UNCHANGED <<plans, ageG, ageO, moved, block>> /\ AudioUnchanged

EndBlock ==
  /\ audio = "render"
  /\ block' = None
  /\ audio' = "idle"
  /\ UNCHANGED <<plans, ageG, ageO, moved>> /\ AudioUnchanged

(***************************************************************************)
(* The other control threads: a send's graphReadScope, a handle's          *)
(* pinnedRead, a lookup under an objectPin                                 *)
(***************************************************************************)
ReadUnchanged == UNCHANGED <<heap, content, plans, shuttingDown, retireLists, moved, editing,
                             rendering, pool, passing>>

Pin(u) ==
  /\ u \notin reader /\ ~Closing
  /\ reader' = reader \union {u}
  /\ pins' = pins + 1
  /\ UNCHANGED <<heldG, heldO>> /\ ReadUnchanged

\* A reader makes one of the loads it may make under its pin: what it keeps of
\* another is kept by the same reader in the behaviour where it makes only that.
Fresh(u) == u \in reader /\ heldG[u] = None /\ heldO[u] = None

\* A send loads the published snapshot when it begins, or later (Latest).
ReadActive(u) ==
  /\ Fresh(u)
  /\ heldG' = [heldG EXCEPT ![u] = active]
  /\ UNCHANGED <<reader, pins, heldO>> /\ ReadUnchanged

\* A getter loads its handle's pointer without a lock, at any moment of an
\* edit (a lookup by id takes mtx, which only leaves it fewer moments).
ReadObject(u) ==
  /\ Fresh(u)
  /\ \E h \in Named : heldO' = [heldO EXCEPT ![u] = patch[h]]
  /\ UNCHANGED <<reader, pins, heldG>> /\ ReadUnchanged

Unpin(u) ==
  /\ u \in reader
  /\ reader' = reader \ {u}
  /\ pins' = pins - 1
  /\ heldG' = [heldG EXCEPT ![u] = None]
  /\ heldO' = [heldO EXCEPT ![u] = None]
  /\ ReadUnchanged

(***************************************************************************)
(* The pool's worker: activate(), and the pass RunReclaimPass              *)
(***************************************************************************)
WorkUnchanged == UNCHANGED <<active, patch, nextId, plans, pins, shuttingDown, editing,
                             rendering, reading>>

\* faulty: the pins are not looked at
ElapsedAnyway(retired, age) == {x \in retired : age[x] = Grace}

\* What was retired at least two blocks ago, and nothing when there is a pin.
Elapsed(retired, age) == {x \in retired : pins = 0 /\ age[x] = Grace}

\* A popped job whose requests have been served already is left alone.  The
\* pass takes reclaimMtx_, then loads the block count and the pins: a block or
\* a pin that comes in between only leaves it less to free.
BeginPass ==
  /\ worker = "idle" /\ ring # <<>>
  /\ ring' = Tail(ring)
  /\ IF IsQueued(Head(ring))
     THEN /\ job' = Head(ring) /\ taken' = queued[Head(ring)]
          /\ dueG' = Elapsed(retiredG, ageG)
          /\ dueO' = Elapsed(retiredO, ageO)
          /\ again' = moved
          /\ moved' = FALSE
          /\ worker' = "freeGraphs"
     ELSE UNCHANGED <<passing, moved>>
  /\ UNCHANGED <<heap, freeIds, retireLists, queued>> /\ WorkUnchanged

FreeGraphs ==
  /\ worker = "freeGraphs"
  /\ heapG' = heapG \ dueG
  /\ holds' = [g \in Graphs |-> IF g \in dueG THEN {} ELSE holds[g]]
  /\ ageG' = [g \in Graphs |-> IF g \in dueG THEN 0 ELSE ageG[g]]
  /\ retiredG' = retiredG \ dueG
  /\ worker' = "freeObjects"
  /\ dueG' = {}
  /\ UNCHANGED <<heapO, id, freeIds, retiredO, ageO, stale, moved, pool, job, taken, dueO,
                 again>> /\ WorkUnchanged

\* faulty: the generation of the ids is not compared
RecycledAll(S) == {id[o] : o \in S}

\* RecycleObjectIds
Recycled(S) == {id[o] : o \in S \ stale}

\* The objects; then reclaimMtx_ is released, and another pass may be worth it.
FreeObjects ==
  /\ worker = "freeObjects"
  /\ heapO' = heapO \ dueO
  /\ id' = [o \in Objects |-> IF o \in dueO THEN 0 ELSE id[o]]
  /\ ageO' = [o \in Objects |-> IF o \in dueO THEN 0 ELSE ageO[o]]
  /\ retiredO' = retiredO \ dueO
  /\ stale' = stale \ dueO
  /\ freeIds' = freeIds \union Recycled(dueO)
  /\ worker' = IF again /\ (retiredG # {} \/ retiredO' # {}) /\ ~shuttingDown
               THEN "rearm" ELSE "finish"
  /\ dueO' = {} /\ again' = FALSE
  /\ UNCHANGED <<heapG, holds, retiredG, ageG, moved, pool, job, taken, dueG>>
  /\ WorkUnchanged

Rearm ==
  /\ worker = "rearm"
  /\ AddJob(Sibling(job))
  /\ worker' = "finish"
  /\ UNCHANGED <<heap, freeIds, retireLists, moved, job, taken, dueG, dueO,
                 again>> /\ WorkUnchanged

\* release(): the last store into the job.
Finish ==
  /\ worker = "finish"
  /\ queued' = [queued EXCEPT ![job] = @ - taken]
  /\ worker' = "idle"
  /\ taken' = 0 /\ job' = 0
  /\ UNCHANGED <<heap, freeIds, retireLists, moved, ring, dueG, dueO, again>>
  /\ WorkUnchanged

\* The patcher is gone.
Destroyed == editor = "dead" /\ UNCHANGED vars

(***************************************************************************)
(* The specification                                                       *)
(***************************************************************************)
Init ==
  /\ heapG = {} /\ heapO = {} /\ holds = [g \in Graphs |-> {}] /\ id = [o \in Objects |-> 0]
  /\ active = None /\ patch = [h \in Handles |-> None] /\ freeIds = {} /\ nextId = 0
  /\ plans = <<>> /\ pins = 0 /\ shuttingDown = FALSE
  /\ retiredG = {} /\ retiredO = {} /\ stale = {}
  /\ ageG = [g \in Graphs |-> 0] /\ ageO = [o \in Objects |-> 0] /\ moved = FALSE
  /\ editor = "idle" /\ doomed = {} /\ emptied = FALSE /\ old = None /\ after = "idle"
  /\ audio = "idle" /\ block = None
  /\ reader = {}
  /\ heldG = [u \in Users |-> None] /\ heldO = [u \in Users |-> None]
  /\ ring = <<>> /\ queued = [j \in Jobs |-> 0]
  /\ worker = "idle" /\ job = 0 /\ taken = 0
  /\ dueG = {} /\ dueO = {} /\ again = FALSE

StartEdit ==
  \/ \E h \in Handles : Place(h) \/ SetParams(h)
  \/ \E S \in SUBSET Named : Delete(S)
FinishEdit ==
  \/ Publish \/ RetireGraph \/ Look0 \/ Look1 \/ RetireObjects
  \/ FinalClear \/ Wait \/ FreeAllRetired
FinishBlock == CountBlock \/ ApplyPlan \/ Drained \/ EndBlock
Read(u) == Pin(u) \/ ReadActive(u) \/ ReadObject(u) \/ Unpin(u)
Work == BeginPass \/ FreeGraphs \/ FreeObjects \/ Rearm \/ Finish

Next ==
  \/ StartEdit \/ FinishEdit \/ ShutDown
  \/ LoadActive \/ FinishBlock
  \/ \E u \in Users : Read(u)
  \/ Work
  \/ Destroyed

Spec == Init /\ [][Next]_vars

(***************************************************************************)
(* Properties                                                              *)
(***************************************************************************)

\* Every variable keeps its type; a job's count of requests never wraps.
TypeOK ==
  /\ heapG \subseteq Graphs /\ heapO \subseteq Objects
  /\ holds \in [Graphs -> SUBSET Objects] /\ id \in [Objects -> Nat]
  /\ active \in Graphs \union {None} /\ patch \in [Handles -> Objects \union {None}]
  /\ freeIds \subseteq Nat /\ nextId \in Nat
  /\ plans \in Seq(Objects) /\ pins \in Nat /\ shuttingDown \in BOOLEAN
  /\ retiredG \subseteq Graphs /\ retiredO \subseteq Objects /\ stale \subseteq Objects
  /\ ageG \in [Graphs -> 0..Grace] /\ ageO \in [Objects -> 0..Grace] /\ moved \in BOOLEAN
  /\ editor \in {"idle", "publish", "retireGraph", "look0", "look1", "retireObjects",
                 "clear", "join0", "join1", "unpinned", "freeAll", "dead"}
  /\ doomed \subseteq Objects /\ emptied \in BOOLEAN
  /\ old \in Graphs \union {None} /\ after \in {"idle", "join0"}
  /\ audio \in {"idle", "loaded", "drain", "render"} /\ block \in Graphs \union {None}
  /\ reader \subseteq Users
  /\ heldG \in [Users -> Graphs \union {None}] /\ heldO \in [Users -> Objects \union {None}]
  /\ ring \in Seq(Jobs) /\ queued \in [Jobs -> Nat]
  /\ worker \in {"idle", "freeGraphs", "freeObjects", "rearm", "finish"}
  /\ job \in Jobs /\ taken \in Nat
  /\ dueG \subseteq Graphs /\ dueO \subseteq Objects /\ again \in BOOLEAN

\* Nobody is left holding freed memory: the snapshot of the block in progress
\* and the snapshots and objects a pinned control thread has loaded are
\* allocated, and no snapshot, retired or not, outlives an object it names,
\* whatever edits and passes run in the meantime
\* (patcherImplementation.cpp:178-199, 2305-2342).  A parameter plan is compared
\* with the block's objects by address: its target is not freed, nor its address
\* given to another object, before a block has taken the plan from the queue.
InUse(g) == g = block \/ \E u \in Users : g = heldG[u]
NoUseAfterFree ==
  /\ \A g \in Graphs : InUse(g) => g \in heapG
  /\ \A g \in heapG : holds[g] \subseteq heapO
  /\ \A u \in Users : heldO[u] # None => heldO[u] \in heapO
  /\ editor # "dead" => \A i \in DOMAIN plans : plans[i] \in heapO

\* What has an id of the present numbering.
Numbered == Live(patch) \union (IF emptied THEN {} ELSE doomed) \union (retiredO \ stale)

\* Ids index the tables of every snapshot built from now on: the objects of the
\* patch have different ids, none of them is waiting to be handed out again,
\* and all of them fit the tables.  Recycling races with compaction.
IdsAreUnique ==
  /\ \A o, p \in Numbered : id[o] = id[p] => o = p
  /\ \A o \in Numbered : id[o] \notin freeIds /\ id[o] < nextId
  /\ \A i \in freeIds : i < nextId

\* And none is lost: every id below the high-water mark is somebody's or waits to be
\* handed out, so that the tables grow with what exists at one time and not with
\* what was ever created (patcherImplementation.cpp:2059-2064), whichever of an
\* edit, a compaction and a pass of the pool comes first.
NoIdLost == \A i \in 0..nextId - 1 : i \in freeIds \/ \E o \in Numbered : id[o] = i

\* "`shuttingDown_` guarantees neither re-arms" (patcherImplementation.cpp:306): when
\* the destructor frees what is left, no pass is running or waiting.
FreedAlone ==
  editor \in {"freeAll", "dead"} => worker = "idle" /\ ring = <<>>

=============================================================================
