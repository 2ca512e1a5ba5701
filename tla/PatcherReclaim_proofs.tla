------------------------ MODULE PatcherReclaim_proofs ------------------------
(***************************************************************************)
(* For any heap, any handles and any number of readers: nobody is left     *)
(* holding freed memory, and the ids of what a snapshot is built from are  *)
(* unique and come back.  Nothing is assumed of when the tests that come   *)
(* before an enqueue of a reclaim job are used.                            *)
(***************************************************************************)
EXTENDS PatcherReclaim, FiniteSetTheorems, TLAPS

(***************************************************************************)
(* What is allocated is in the patcher's hands: a snapshot is published,   *)
(* about to be retired or retired, an object is in the patch, doomed or    *)
(* retired.  A snapshot is retired before the objects that only it names,  *)
(* so that it is older than they are and is due whenever one of them is.   *)
(* What a block in progress has loaded, or a plan is for, is too young to  *)
(* be due, and what a reader has loaded is in use as long as its pin,      *)
(* which a pass sees unless the reader came after it began.                *)
(***************************************************************************)

\* What the argument needs of the types.
Types ==
  /\ heapG \subseteq Graphs /\ heapO \subseteq Objects
  /\ holds \in [Graphs -> SUBSET Objects] /\ id \in [Objects -> Nat]
  /\ active \in Graphs \union {None} /\ patch \in [Handles -> Objects \union {None}]
  /\ freeIds \subseteq Nat /\ nextId \in Nat /\ plans \in Seq(Objects)
  /\ ageG \in [Graphs -> 0..Grace] /\ ageO \in [Objects -> 0..Grace]
  /\ old \in Graphs \union {None} /\ block \in Graphs \union {None}
  /\ heldG \in [Users -> Graphs \union {None}] /\ heldO \in [Users -> Objects \union {None}]
  /\ dueG \subseteq Graphs /\ dueO \subseteq Objects

\* Where the editing thread is on its way through the destructor.
Closed == shuttingDown /\ editor # "clear"
Phases ==
  /\ after \in {"idle", "join0"}
  /\ editor \in {"clear", "join0", "join1", "unpinned", "freeAll", "dead"} \/ after = "join0" =>
       shuttingDown
  /\ editor \in {"idle", "clear", "join0", "join1", "unpinned", "freeAll", "dead"} => doomed = {}
  /\ old # None => editor = "retireGraph"
  /\ shuttingDown => audio = "idle"
  /\ editor = "dead" => active = None /\ retiredG = {} /\ retiredO = {}
  /\ Closed => nextId = 0 /\ freeIds = {} /\ Live(patch) = {}

\* The allocated snapshots and objects.
Snapshots ==
  /\ heapG = retiredG \union ({active, old} \ {None})
  /\ active \notin retiredG /\ old \notin retiredG
  /\ active = old => old = None
Allocated ==
  /\ heapO = Live(patch) \union doomed \union retiredO
  /\ Live(patch) \intersect (doomed \union retiredO) = {} /\ doomed \intersect retiredO = {}
  /\ \A h, k \in Handles : patch[h] = patch[k] => h = k \/ patch[h] = None

\* What a snapshot names.
Contents ==
  /\ \A g \in heapG : holds[g] \subseteq heapO
  /\ active # None =>
       holds[active] \subseteq Live(patch) \union IF editor = "publish" THEN doomed ELSE {}
  /\ old # None => holds[old] \subseteq Live(patch) \union doomed
  /\ \A g \in retiredG : \A o \in retiredO \intersect holds[g] : ageO[o] <= ageG[g]

\* What a pass means to free.
Passing ==
  /\ worker = "freeGraphs" /\ editor # "dead" =>
       /\ dueG \subseteq retiredG /\ \A g \in dueG : ageG[g] = Grace
       /\ \A g \in retiredG : holds[g] \intersect dueO # {} => g \in dueG
  /\ ReclaimLocked /\ editor # "dead" =>
       dueO \subseteq retiredO /\ \A o \in dueO : ageO[o] = Grace
  /\ worker = "freeObjects" /\ editor # "dead" =>
       \A g \in heapG : holds[g] \intersect dueO = {}
  /\ ReclaimLocked /\ editor = "dead" => dueO \subseteq stale

\* What the block in progress, and the plans that wait for one, rely on.
Rendering ==
  /\ audio = "idle" => block = None
  /\ block # None => block \in heapG
  /\ block \in retiredG => ageG[block] <= IF audio = "loaded" THEN 0 ELSE 1
  /\ editor # "dead" => \A i \in DOMAIN plans :
       /\ plans[i] \in heapO
       /\ plans[i] \in retiredO => ageO[plans[i]] <= IF audio = "drain" THEN 1 ELSE 0

\* What the readers hold.
Readers ==
  /\ IsFiniteSet(reader) /\ pins = Cardinality(reader)
  /\ editor \in {"freeAll", "dead"} => reader = {}
  /\ \A u \in Users :
       /\ u \notin reader => heldG[u] = None /\ heldO[u] = None
       /\ heldG[u] # None => heldG[u] \in heapG
       /\ heldO[u] # None => heldO[u] \in heapO
       /\ worker = "freeGraphs" => heldG[u] \notin dueG
       /\ ReclaimLocked => heldO[u] \notin dueO

StaleRetired == editor # "dead" => stale \subseteq retiredO

\* The ids of the present numbering.
Ids == IdsAreUnique /\ NoIdLost

ReclaimInv ==
  /\ Types /\ Phases /\ Snapshots /\ Allocated /\ Contents
  /\ Passing /\ Rendering /\ Readers /\ StaleRetired /\ Ids

----------------------------------------------------------------------------

\* Each part reads only some of the variables.
LEMMA Untouched ==
  /\ Types /\ UNCHANGED <<heapG, heapO, holds, id, active, patch, freeIds, nextId,
                          plans, ageG, ageO, old, block, heldG, heldO, dueG, dueO>> => Types'
  /\ Phases /\ UNCHANGED <<active, patch, freeIds, nextId, shuttingDown, retiredG,
                           retiredO, editor, doomed, old, after, audio>> => Phases'
  /\ Snapshots /\ UNCHANGED <<heapG, active, retiredG, old>> => Snapshots'
  /\ Allocated /\ UNCHANGED <<heapO, patch, retiredO, doomed>> => Allocated'
  /\ Contents /\ UNCHANGED <<heapG, heapO, holds, active, patch, retiredG, retiredO,
                             ageG, ageO, editor, doomed, old>> => Contents'
  /\ Passing /\ UNCHANGED <<heapG, holds, retiredG, retiredO, ageG, ageO, stale,
                            editor, worker, dueG, dueO>> => Passing'
  /\ Rendering /\ UNCHANGED <<heapG, heapO, plans, retiredG, retiredO, ageG, ageO,
                              editor, audio, block>> => Rendering'
  /\ Readers /\ UNCHANGED <<heapG, heapO, pins, editor, reader, heldG, heldO, worker,
                            dueG, dueO>> => Readers'
  /\ StaleRetired /\ UNCHANGED <<retiredO, stale, editor>> => StaleRetired'
  /\ Ids /\ UNCHANGED <<id, patch, freeIds, nextId, retiredO, stale, doomed,
                        emptied>> => Ids'
<1>1. ASSUME Types, UNCHANGED <<heapG, heapO, holds, id, active, patch, freeIds,
                                nextId, plans, ageG, ageO, old, block, heldG, heldO,
                                dueG, dueO>>
      PROVE  Types'
  BY <1>1 DEF Types
<1>2. ASSUME Phases, UNCHANGED <<active, patch, freeIds, nextId, shuttingDown,
                                 retiredG, retiredO, editor, doomed, old, after, audio>>
      PROVE  Phases'
  BY <1>2 DEF Phases, Closed, Live
<1>4. ASSUME Snapshots, UNCHANGED <<heapG, active, retiredG, old>>
      PROVE  Snapshots'
  BY <1>4 DEF Snapshots
<1>5. ASSUME Allocated, UNCHANGED <<heapO, patch, retiredO, doomed>>
      PROVE  Allocated'
  BY <1>5 DEF Allocated, Live
<1>6. ASSUME Contents, UNCHANGED <<heapG, heapO, holds, active, patch, retiredG,
                                   retiredO, ageG, ageO, editor, doomed, old>>
      PROVE  Contents'
  BY <1>6 DEF Contents, Live
<1>7. ASSUME Passing, UNCHANGED <<heapG, holds, retiredG, retiredO, ageG, ageO,
                                  stale, editor, worker, dueG, dueO>>
      PROVE  Passing'
  BY <1>7 DEF Passing, ReclaimLocked
<1>8. ASSUME Rendering, UNCHANGED <<heapG, heapO, plans, retiredG, retiredO, ageG,
                                    ageO, editor, audio, block>>
      PROVE  Rendering'
  BY <1>8 DEF Rendering
<1>9. ASSUME Readers, UNCHANGED <<heapG, heapO, pins, editor, reader, heldG, heldO,
                                  worker, dueG, dueO>>
      PROVE  Readers'
  BY <1>9 DEF Readers, ReclaimLocked
<1>10. ASSUME StaleRetired, UNCHANGED <<retiredO, stale, editor>>
      PROVE  StaleRetired'
  BY <1>10 DEF StaleRetired
<1>11. ASSUME Ids, UNCHANGED <<id, patch, freeIds, nextId, retiredO, stale, doomed,
                               emptied>>
      PROVE  Ids'
  BY <1>11 DEF Ids, IdsAreUnique, NoIdLost, Numbered, Live
<1> QED BY <1>1, <1>2, <1>4, <1>5, <1>6, <1>7, <1>8, <1>9, <1>10, <1>11

\* A fresh object takes the place of what the handle stood for, which is doomed.
LEMMA PlaceKeeps == ASSUME NEW h \in Handles, ReclaimInv, Place(h) PROVE ReclaimInv'
<1> USE PatcherAssumption DEF ReclaimInv, Types
<1>0. PICK o \in FreeO, i \in Nat :
        /\ heapO' = heapO \union {o} /\ patch' = [patch EXCEPT ![h] = o]
        /\ doomed' = {patch[h]} \ {None} /\ emptied' = FALSE /\ editor' = "publish"
        /\ id' = [id EXCEPT ![o] = i]
        /\ \/ freeIds = {} /\ i = nextId /\ freeIds' = {} /\ nextId' = nextId + 1
           \/ i \in freeIds /\ freeIds' = freeIds \ {i} /\ nextId' = nextId
  BY DEF Place, Edit
<1>1. o \in Objects /\ o \notin heapO BY DEF FreeO
<1>2. /\ heapO' = heapO \union {o} /\ patch' = [patch EXCEPT ![h] = o]
      /\ doomed' = {patch[h]} \ {None} /\ emptied' = FALSE /\ editor' = "publish"
  BY <1>0
<1>3. /\ id' = [id EXCEPT ![o] = i]
      /\ \/ freeIds = {} /\ i = nextId /\ freeIds' = {} /\ nextId' = nextId + 1
         \/ i \in freeIds /\ freeIds' = freeIds \ {i} /\ nextId' = nextId
  BY <1>0
<1>4. ~shuttingDown /\ editor = "idle" /\ after' = "idle" /\ ~ReclaimLocked BY DEF Place
<1>5. UNCHANGED <<heapG, holds, active, plans, pins, shuttingDown, retireLists, moved, old,
                  rendering, reading, pool, passing>>
  BY DEF Place
<1>6. Live(patch)' = (Live(patch) \ {patch[h]}) \union {o}
  BY <1>1, <1>2 DEF Allocated, Live
<1>7. Types'
  <2>1. patch' \in [Handles -> Objects \union {None}] BY <1>1, <1>2
  <2>2. id' \in [Objects -> Nat] BY <1>1, <1>3
  <2>3. freeIds' \subseteq Nat /\ nextId' \in Nat
    <3>1. CASE freeIds = {} /\ freeIds' = {} /\ nextId' = nextId + 1 BY <3>1
    <3>2. CASE freeIds' = freeIds \ {i} /\ nextId' = nextId BY <3>2
    <3> QED BY <1>3, <3>1, <3>2
  <2>4. heapO' \subseteq Objects BY <1>1, <1>2
  <2> QED BY <2>1, <2>2, <2>3, <2>4, <1>5 DEF retireLists, rendering, reading, passing
<1>8. Phases' BY <1>2, <1>3, <1>4, <1>5 DEF Phases, Closed, retireLists, rendering
<1>10. Snapshots' BY <1>5 DEF Snapshots, retireLists
<1>11. Allocated'
  <2>1. doomed = {} BY <1>4 DEF Phases
  <2>2. patch[h] # None => patch[h] \in Live(patch) BY DEF Live
  <2>3. None \notin Live(patch) BY DEF Live
  <2>4. \A k \in Handles : patch[k] # o BY <1>1 DEF Allocated, Live
  <2>5. \A k, l \in Handles : patch'[k] = patch'[l] => k = l \/ patch'[k] = None
    BY <1>2, <2>4 DEF Allocated
  <2>6. /\ heapO = Live(patch) \union retiredO /\ Live(patch) \intersect retiredO = {}
        /\ retiredO' = retiredO
    BY <1>5, <2>1 DEF Allocated, retireLists
  <2>7. patch[h] # None => doomed' = {patch[h]} BY <1>2
  <2>8. patch[h] = None => doomed' = {} BY <1>2
  <2>9. heapO' = Live(patch)' \union doomed' \union retiredO'
    <3>1. heapO' = Live(patch) \union retiredO \union {o} BY <1>2, <2>6
    <3>2. CASE patch[h] = None BY <1>6, <2>3, <2>6, <2>8, <3>1, <3>2
    <3>3. CASE patch[h] # None BY <1>6, <2>2, <2>6, <2>7, <3>1, <3>3
    <3> QED BY <3>2, <3>3
  <2>10. Live(patch)' \intersect (doomed' \union retiredO') = {}
    BY <1>1, <1>6, <2>2, <2>6, <2>7, <2>8
  <2>11. doomed' \intersect retiredO' = {} BY <2>2, <2>6, <2>7, <2>8
  <2> QED BY <2>5, <2>9, <2>10, <2>11 DEF Allocated
<1>12. Contents'
  <2>1. doomed = {} BY <1>4 DEF Phases
  <2>2. old = None BY <1>4 DEF Phases
  <2>3. patch[h] # None => patch[h] \in doomed' BY <1>2
  <2>4. Live(patch) \subseteq Live(patch)' \union doomed'
    <3>1. CASE patch[h] = None BY <1>6, <3>1 DEF Live
    <3>2. CASE patch[h] # None BY <1>6, <2>3, <3>2
    <3> QED BY <3>1, <3>2
  <2>5. active # None => holds[active] \subseteq Live(patch) BY <1>4, <2>1 DEF Contents
  <2>6. /\ heapG' = heapG /\ holds' = holds /\ active' = active /\ old' = None
        /\ retiredG' = retiredG /\ retiredO' = retiredO /\ ageG' = ageG /\ ageO' = ageO
    BY <1>5, <2>2 DEF retireLists
  <2>7. heapO \subseteq heapO' /\ editor' = "publish" BY <1>2
  <2> QED BY <2>4, <2>5, <2>6, <2>7 DEF Contents
<1>13. Passing' BY <1>4, <1>5, <1>2 DEF Passing, ReclaimLocked, passing, retireLists
<1>14. Rendering' BY <1>2, <1>4, <1>5 DEF Rendering, retireLists, rendering
<1>15. Readers' BY <1>2, <1>4, <1>5 DEF Readers, ReclaimLocked, reading, passing
<1>16. StaleRetired' BY <1>2, <1>4, <1>5 DEF StaleRetired, retireLists
<1>17. Ids'
  <2> DEFINE cur == Live(patch) \union (retiredO \ stale)
  <2>1. doomed = {} BY <1>4 DEF Phases
  <2>2. Numbered = cur BY <2>1 DEF Numbered
  <2>3. /\ \A p, q \in cur : id[p] = id[q] => p = q
        /\ \A p \in cur : id[p] \notin freeIds /\ id[p] < nextId
        /\ \A j \in freeIds : j < nextId
        /\ \A j \in 0..nextId - 1 : j \in freeIds \/ \E p \in cur : id[p] = j
    BY <2>2 DEF Ids, IdsAreUnique, NoIdLost
  <2>4. cur \subseteq Objects BY DEF Allocated
  <2>5. cur \subseteq heapO BY DEF Allocated
  <2>6. patch[h] # None => patch[h] \in Live(patch) BY DEF Live
  <2> DEFINE new == Numbered'
  <2>7. new = cur \union {o}
    <3>1. new = Live(patch)' \union doomed' \union (retiredO \ stale)
      BY <1>2, <1>5 DEF Numbered, retireLists
    <3>2. CASE patch[h] = None
      <4>1. None \notin Live(patch) BY DEF Live
      <4> QED BY <1>2, <1>6, <3>1, <3>2, <4>1
    <3>3. CASE patch[h] # None BY <1>2, <1>6, <2>6, <3>1, <3>3
    <3> QED BY <3>2, <3>3
  <2>8. id'[o] = i /\ \A p \in cur : id'[p] = id[p] BY <1>1, <1>3, <2>4, <2>5
  <2>9. \A p \in cur : id[p] \in Nat BY <2>4
  <2> HIDE DEF cur, new
  <2>10. \A p \in cur : id[p] # i
    BY <1>3, <2>3, <2>9
  <2>11. i < nextId' /\ i \notin freeIds' /\ freeIds' \subseteq freeIds BY <1>3, <2>3
  <2>12. \A j \in Nat : j < nextId => j < nextId' BY <1>3
  <2>13. /\ \A p, q \in new : id'[p] = id'[q] => p = q
         /\ \A p \in new : id'[p] \notin freeIds' /\ id'[p] < nextId'
         /\ \A j \in freeIds' : j < nextId'
    <3>1. \A p, q \in cur : id[p] = id[q] => p = q BY <2>3
    <3>2. \A p, q \in new : id'[p] = id'[q] => p = q
      BY ONLY <3>1, <2>7, <2>8, <2>10
    <3>3. \A p \in cur : id[p] \notin freeIds' /\ id[p] < nextId'
      BY <2>3, <2>9, <2>11, <2>12
    <3>4. \A p \in new : id'[p] \notin freeIds' /\ id'[p] < nextId'
      BY ONLY <3>3, <2>7, <2>8, <2>11
    <3>5. \A j \in freeIds' : j < nextId' BY <2>3, <2>11, <2>12
    <3> QED BY <3>2, <3>4, <3>5
  <2>14. ASSUME NEW j \in 0..nextId' - 1
         PROVE  j \in freeIds' \/ \E p \in new : id'[p] = j
    <3>1. j = i \/ (j \in 0..nextId - 1 /\ (j \in freeIds => j \in freeIds')) BY <1>3
    <3>2. CASE j = i BY <2>7, <2>8, <3>2
    <3>3. CASE j \in 0..nextId - 1 /\ (j \in freeIds => j \in freeIds')
      BY <2>3, <2>7, <2>8, <3>3
    <3> QED BY <3>1, <3>2, <3>3
  <2> QED BY <2>13, <2>14 DEF new, Ids, IdsAreUnique, NoIdLost
<1> QED BY <1>7, <1>8, <1>10, <1>11, <1>12, <1>13, <1>14, <1>15, <1>16, <1>17

\* What is removed is doomed; when nothing is left, the ids start again from 0 and
\* those of what is doomed or retired will not be handed out.
LEMMA RemoveKeeps ==
  ASSUME NEW S \in SUBSET Named, ReclaimInv, Delete(S) \/ (FinalClear /\ S = Named)
  PROVE  ReclaimInv'
<1> USE PatcherAssumption DEF ReclaimInv, Types
<1>1. /\ Remove(S) /\ UNCHANGED shuttingDown
      /\ editor \in {"idle", "clear"} /\ after' \in {"idle", "join0"}
      /\ ~shuttingDown => after' = "idle"
      /\ shuttingDown => editor = "clear" /\ S = Named
  BY DEF Delete, FinalClear, Phases
<1>2. /\ ~ReclaimLocked /\ editor' = "publish"
      /\ patch' = [h \in Handles |-> IF h \in S THEN None ELSE patch[h]]
      /\ doomed' = {patch[h] : h \in S}
      /\ UNCHANGED <<heap, active, plans, pins, retiredG, retiredO, ageG, ageO, moved, old,
                     rendering, reading, pool, passing>>
  BY <1>1 DEF Remove, Edit
<1>3. \/ /\ Live(patch)' = {} /\ freeIds' = {} /\ nextId' = 0 /\ emptied' = TRUE
         /\ stale' = retiredO
      \/ /\ Live(patch)' # {} /\ UNCHANGED <<freeIds, nextId, stale>> /\ emptied' = FALSE
  <2>1. Live(patch)' = Live([h \in Handles |-> IF h \in S THEN None ELSE patch[h]])
    BY <1>2 DEF Live
  <2> QED BY <1>1, <2>1 DEF Remove, Edit, Compacts
<1>4. doomed' \subseteq Live(patch) BY <1>2 DEF Live, Named
<1>5. Live(patch)' = Live(patch) \ doomed'
  <2>1. \A h, k \in Handles : patch[h] = patch[k] => h = k \/ patch[h] = None BY DEF Allocated
  <2> QED BY ONLY <1>2, <2>1 DEF Live, Named
<1>6. doomed = {} /\ old = None /\ (shuttingDown => Live(patch)' = {})
  <2>1. S = Named => Live(patch)' = {} BY <1>2 DEF Live, Named
  <2> QED BY <1>1, <2>1 DEF Phases
<1>7. Types'
  <2>1. patch' \in [Handles -> Objects \union {None}] BY <1>2
  <2>2. CASE UNCHANGED <<freeIds, nextId>>
    BY <2>2, <2>1, <1>2 DEF heap, rendering, reading, passing
  <2>3. CASE freeIds' = {} /\ nextId' = 0
    BY <2>3, <2>1, <1>2 DEF heap, rendering, reading, passing
  <2> QED BY <1>3, <2>2, <2>3
<1>8. Phases' BY <1>1, <1>2, <1>3, <1>6 DEF Phases, Closed, rendering
<1>10. Snapshots' BY <1>2 DEF Snapshots, heap
<1>11. Allocated'
  <2>1. \A h, k \in Handles : patch'[h] = patch'[k] => h = k \/ patch'[h] = None
    BY <1>2 DEF Allocated
  <2> QED BY <2>1, <1>2, <1>4, <1>5, <1>6 DEF Allocated, heap
<1>12. Contents' BY <1>1, <1>2, <1>4, <1>5, <1>6 DEF Contents, heap
<1>13. Passing' BY <1>2 DEF Passing, ReclaimLocked, heap, passing
<1>14. Rendering' BY <1>1, <1>2 DEF Rendering, heap, rendering
<1>15. Readers' BY <1>1, <1>2 DEF Readers, ReclaimLocked, heap, reading, passing
<1>16. StaleRetired' BY <1>1, <1>2, <1>3 DEF StaleRetired
<1>17. Ids'
  <2>1. CASE Live(patch)' = {} /\ freeIds' = {} /\ nextId' = 0 /\ emptied' = TRUE
               /\ stale' = retiredO
    <3>1. Numbered' = {} BY <1>2, <2>1 DEF Numbered
    <3> QED BY <2>1, <3>1 DEF Ids, IdsAreUnique, NoIdLost
  <2>2. CASE UNCHANGED <<freeIds, nextId, stale>> /\ emptied' = FALSE
    <3>1. Live(patch)' \union doomed' = Live(patch) \union doomed BY <1>4, <1>5, <1>6
    <3>2. UNCHANGED <<id, freeIds, nextId, retiredO, stale>> BY <1>2, <2>2 DEF heap
    <3>3. Numbered' = Numbered BY <1>6, <2>2, <3>1, <3>2 DEF Numbered
    <3> QED BY <3>2, <3>3 DEF Ids, IdsAreUnique, NoIdLost
  <2> QED BY <1>3, <2>1, <2>2
<1> QED BY <1>7, <1>8, <1>10, <1>11, <1>12, <1>13, <1>14, <1>15, <1>16, <1>17

\* The new snapshot names what is in the patch only.
LEMMA PublishKeeps == ASSUME ReclaimInv, Publish PROVE ReclaimInv'
<1> USE PatcherAssumption DEF ReclaimInv, Types, retireLists, rendering, reading, pool, passing
<1>0. PICK g \in FreeG :
        /\ heapG' = heapG \union {g} /\ holds' = [holds EXCEPT ![g] = Live(patch)]
        /\ active' = g
  BY DEF Publish
<1>1. g \in Graphs /\ g \notin heapG BY DEF FreeG
<1>2. /\ editor = "publish" /\ editor' = "retireGraph" /\ old = None
      /\ heapG' = heapG \union {g} /\ holds' = [holds EXCEPT ![g] = Live(patch)]
      /\ active' = g /\ old' = active
  BY <1>0 DEF Publish, Phases
<1>3. UNCHANGED <<heapO, id, patch, freeIds, nextId, plans, pins, shuttingDown, retireLists,
                  moved, doomed, emptied, after, rendering, reading, pool, passing>>
  BY DEF Publish
<1>4. Live(patch)' = Live(patch) BY <1>3 DEF Live
<1>5. Live(patch) \subseteq heapO /\ Live(patch) \intersect retiredO = {} BY DEF Allocated
<1>6. g \notin retiredG BY <1>1 DEF Snapshots
<1>7. Types' BY <1>1, <1>2, <1>3, <1>5
<1>8. Snapshots' BY <1>1, <1>2, <1>3, <1>6 DEF Snapshots
<1>9. Contents' BY <1>1, <1>2, <1>3, <1>4, <1>5, <1>6 DEF Contents
<1>10. Passing'
  <2>1. \A k \in heapG : holds'[k] = holds[k] BY <1>1, <1>2
  <2>2. retiredG \subseteq heapG BY DEF Snapshots
  <2>3. ReclaimLocked => dueO \intersect Live(patch) = {} BY <1>2, <1>5 DEF Passing
  <2>4. ReclaimLocked => holds'[g] \intersect dueO = {} BY <1>1, <1>2, <2>3
  <2>5. UNCHANGED <<retiredG, retiredO, ageG, ageO, stale, worker, dueG, dueO>>
    BY <1>3
  <2> QED BY <1>2, <2>1, <2>2, <2>4, <2>5 DEF Passing, ReclaimLocked
<1>11. Phases' BY DEF Publish, Phases, Closed
<1>13. Rendering' BY DEF Publish, Rendering
<1>14. Readers' BY DEF Publish, Readers, ReclaimLocked
<1>15. StaleRetired' BY DEF Publish, StaleRetired
<1>16. Allocated' /\ Ids'
  BY Untouched DEF Publish
<1> QED BY <1>7, <1>8, <1>9, <1>10, <1>11, <1>13, <1>14, <1>15, <1>16

\* A ScheduleReclaim returns to the objects that wait to be retired, or to where
\* the edit came from.
LEMMA LookKeeps == ASSUME ReclaimInv, Look0 \/ Look1 PROVE ReclaimInv'
<1> USE PatcherAssumption DEF ReclaimInv, Types, heap, content, retireLists, rendering, reading,
      pool, passing
<1>1. /\ editor \in {"look0", "look1"}
      /\ \/ editor' = "look1"
         \/ doomed # {} /\ editor' = "retireObjects"
         \/ doomed = {} /\ editor' = after
      /\ UNCHANGED <<heap, content, plans, pins, shuttingDown, retireLists, moved, doomed,
                     emptied, old, after, rendering, reading, passing>>
  BY DEF Look0, Look1, Scheduled
<1>2. Live(patch)' = Live(patch) BY <1>1 DEF Live
<1>3. Phases' BY <1>1, <1>2 DEF Phases, Closed
<1>5. Passing' BY <1>1 DEF Passing, Phases, ReclaimLocked
<1>6. Readers' BY <1>1 DEF Readers, Phases, ReclaimLocked
<1>7. Rendering' BY <1>1 DEF Rendering, Phases
<1>8. StaleRetired' BY <1>1 DEF StaleRetired, Phases
<1>9. Contents' BY <1>1 DEF Contents
<1>10. Types' /\ Snapshots' /\ Allocated' /\ Ids' BY <1>1, Untouched
<1> QED BY <1>3, <1>5, <1>6, <1>7, <1>8, <1>9, <1>10

\* The other steps of the editing thread.
LEMMA EditKeeps == ASSUME ReclaimInv, StartEdit \/ FinishEdit \/ ShutDown PROVE ReclaimInv'
<1> USE PatcherAssumption DEF ReclaimInv, Types, heap, content, retireLists, editing,
      rendering, reading, pool, passing
<1>1. ASSUME NEW h \in Handles, SetParams(h) PROVE ReclaimInv'
  <2>1. Types'
    <3>1. patch[h] \in Objects /\ plans \in Seq(Objects) BY <1>1 DEF SetParams, Named
    <3>2. plans' \in Seq(Objects) BY <1>1, <3>1 DEF SetParams
    <3> QED BY <1>1, <3>2 DEF SetParams
  <2>2. Rendering'
    <3>1. patch[h] \in Live(patch) BY <1>1 DEF SetParams, Named, Live
    <3>2. patch[h] \in heapO /\ patch[h] \notin retiredO BY <3>1 DEF Allocated
    <3>3. plans' = Append(plans, patch[h]) BY <1>1 DEF SetParams
    <3>4. \A n \in DOMAIN plans' :
            plans'[n] = patch[h] \/ (n \in DOMAIN plans /\ plans'[n] = plans[n])
      BY <3>3
    <3>5. UNCHANGED <<audio, block, heapG, heapO, retiredG, retiredO, ageG, ageO, editor>>
      BY <1>1 DEF SetParams
    <3> QED BY ONLY Rendering, <3>2, <3>4, <3>5 DEF Rendering
  <2>3. /\ Phases' /\ Snapshots' /\ Allocated' /\ Contents'
        /\ Passing' /\ Readers' /\ StaleRetired' /\ Ids'
    BY <1>1, Untouched DEF SetParams
  <2> QED BY <2>1, <2>2, <2>3
<1>2. ASSUME RetireGraph PROVE ReclaimInv'
  <2>1. ageG' \in [Graphs -> 0..Grace] BY <1>2 DEF RetireGraph, Grace
  <2>2. Types' BY <1>2, <2>1 DEF RetireGraph
  <2>3. Phases' BY <1>2 DEF RetireGraph, Phases, Closed
  <2>5. Snapshots' BY <1>2 DEF RetireGraph, Snapshots
  <2>6. Contents' BY <1>2 DEF RetireGraph, Contents, Snapshots, Allocated
  <2>7. Passing' BY <1>2 DEF RetireGraph, ReclaimLocked, Passing
  <2>8. Rendering' BY <1>2 DEF RetireGraph, Rendering, Snapshots
  <2>9. Readers' BY <1>2 DEF RetireGraph, ReclaimLocked, Readers
  <2>10. StaleRetired' BY <1>2 DEF RetireGraph, StaleRetired
  <2>11. Allocated' /\ Ids'
    BY <1>2, Untouched DEF RetireGraph
  <2> QED BY <2>2, <2>3, <2>5, <2>6, <2>7, <2>8, <2>9, <2>10, <2>11
<1>3. ASSUME RetireObjects PROVE ReclaimInv'
  <2>1. ageO' \in [Objects -> 0..Grace] BY <1>3 DEF RetireObjects, Grace
  <2>2. Types' BY <1>3, <2>1 DEF RetireObjects
  <2>3. Phases' BY <1>3 DEF RetireObjects, Phases, Closed
  <2>5. Allocated' BY <1>3 DEF RetireObjects, Allocated
  <2>6. Contents' BY <1>3 DEF RetireObjects, Contents, Phases, Snapshots
  <2>7. Passing' BY <1>3 DEF RetireObjects, ReclaimLocked, Passing
  <2>8. Rendering' BY <1>3 DEF RetireObjects, Rendering
  <2>9. Readers' BY <1>3 DEF RetireObjects, ReclaimLocked, Readers
  <2>10. StaleRetired' BY <1>3 DEF RetireObjects, StaleTagged, StaleRetired, Phases
  <2>11. Ids'
    <3>1. Numbered' = Numbered
      BY <1>3 DEF RetireObjects, StaleTagged, Numbered, Allocated, Live
    <3> QED BY <1>3, <3>1 DEF RetireObjects, Ids, IdsAreUnique, NoIdLost
  <2>12. Snapshots' BY <1>3, Untouched DEF RetireObjects
  <2> QED BY <2>2, <2>3, <2>5, <2>6, <2>7, <2>8, <2>9, <2>10, <2>11, <2>12
<1>4. ASSUME Wait PROVE ReclaimInv'
  <2>1. editor' \in {"freeAll", "dead"} => reader = {}
    BY <1>4, FS_EmptySet DEF Wait, Waited, Readers
  <2>2. UNCHANGED <<reading, pins, heap, passing>> BY <1>4 DEF Wait
  <2>3. Readers' BY <1>4, <2>1, <2>2 DEF Readers, ReclaimLocked, Wait
  <2>4. Phases' BY <1>4 DEF Wait, Waited, Phases, Closed
  <2>6. Contents' BY <1>4 DEF Wait, Waited, Contents
  <2>7. Passing' BY <1>4 DEF Wait, Waited, Passing, ReclaimLocked
  <2>8. Rendering' BY <1>4 DEF Wait, Waited, Rendering
  <2>9. StaleRetired' BY <1>4 DEF Wait, Waited, StaleRetired
  <2>10. Types' /\ Snapshots' /\ Allocated' /\ Ids'
    BY <1>4, Untouched DEF Wait
  <2> QED BY <2>3, <2>4, <2>6, <2>7, <2>8, <2>9, <2>10
<1>5. ASSUME FreeAllRetired PROVE ReclaimInv'
  <2>1. Types' BY <1>5 DEF FreeAllRetired, Snapshots, Allocated
  <2>2. Phases' BY <1>5 DEF FreeAllRetired, Phases, Closed
  <2>4. Snapshots' BY <1>5 DEF FreeAllRetired, Snapshots
  <2>5. Allocated' BY <1>5 DEF FreeAllRetired, Allocated
  <2>6. Contents' BY <1>5 DEF FreeAllRetired, Contents, Snapshots, Allocated
  <2>7. Passing' BY <1>5 DEF FreeAllRetired, Passing, ReclaimLocked, Ids, IdsAreUnique,
          Numbered, Phases, Closed
  <2>8. Rendering' BY <1>5 DEF FreeAllRetired, Rendering, Phases
  <2>9. Readers' BY <1>5 DEF FreeAllRetired, Readers, ReclaimLocked
  <2>10. StaleRetired' BY <1>5 DEF FreeAllRetired, StaleRetired
  <2>11. Ids'
    <3>1. nextId' = 0 /\ freeIds' = {} BY <1>5 DEF FreeAllRetired, Phases, Closed
    <3>2. Numbered' \subseteq Numbered BY <1>5 DEF FreeAllRetired, Numbered, Live
    <3>3. id' = id /\ nextId' = nextId /\ freeIds' = freeIds BY <1>5 DEF FreeAllRetired
    <3> QED BY <3>1, <3>2, <3>3 DEF Ids, IdsAreUnique, NoIdLost
  <2> QED BY <2>1, <2>2, <2>4, <2>5, <2>6, <2>7, <2>8, <2>9, <2>10, <2>11
<1>6. ASSUME ShutDown PROVE ReclaimInv'
  <2>1. Phases' BY <1>6 DEF ShutDown, Phases, Closed
  <2>3. Contents' BY <1>6 DEF ShutDown, Contents
  <2>4. Passing' BY <1>6 DEF ShutDown, Passing, ReclaimLocked
  <2>5. Rendering' BY <1>6 DEF ShutDown, Rendering
  <2>6. Readers' BY <1>6 DEF ShutDown, Readers, ReclaimLocked
  <2>7. StaleRetired' BY <1>6 DEF ShutDown, StaleRetired
  <2>8. Types' /\ Snapshots' /\ Allocated' /\ Ids'
    BY <1>6, Untouched DEF ShutDown
  <2> QED BY <2>1, <2>3, <2>4, <2>5, <2>6, <2>7, <2>8
<1>7. ASSUME NEW S \in SUBSET Named, Delete(S) PROVE ReclaimInv' BY <1>7, RemoveKeeps
<1>8. ASSUME FinalClear PROVE ReclaimInv'
  <2>1. Named \in SUBSET Named OBVIOUS
  <2> QED BY <1>8, <2>1, RemoveKeeps
<1> QED BY <1>1, <1>2, <1>3, <1>4, <1>5, <1>6, <1>7, <1>8, PlaceKeeps, PublishKeeps,
    LookKeeps
  DEF StartEdit, FinishEdit

\* A retired thing's age goes up by one, to no more than Grace.
LEMMA OlderIs ==
  \A a \in 0..Grace : /\ Older(a) \in 0..Grace /\ a <= Older(a) /\ Older(a) <= a + 1
                      /\ \A b \in 0..Grace : a <= b => Older(a) <= Older(b)
BY DEF Older, Grace

\* So do the ages of a whole retire list.
LEMMA Aged ==
  ASSUME NEW T, NEW R \in SUBSET T, NEW age \in [T -> 0..Grace], NEW next,
         next = [x \in T |-> IF x \in R THEN Older(age[x]) ELSE 0]
  PROVE  /\ next \in [T -> 0..Grace]
         /\ \A x \in R : /\ age[x] \in 0..Grace /\ next[x] \in 0..Grace
                         /\ age[x] <= next[x] /\ next[x] <= age[x] + 1
<1>1. \A x \in T : age[x] \in 0..Grace OBVIOUS
<1>2. \A x \in T : next[x] = IF x \in R THEN Older(age[x]) ELSE 0 OBVIOUS
<1>3. \A x \in R : x \in T /\ next[x] = Older(age[x]) BY <1>2
<1>4. \A x \in R : /\ next[x] \in 0..Grace /\ age[x] <= next[x] /\ next[x] <= age[x] + 1
  BY <1>1, <1>3, OlderIs
<1>5. 0 \in 0..Grace BY DEF Grace
<1>6. \A x \in T : next[x] \in 0..Grace BY <1>2, <1>4, <1>5
<1> QED BY <1>1, <1>3, <1>4, <1>6

\* The snapshot stays as old as the objects only it names; what the block has
\* loaded is one block old at most.
LEMMA CountKeeps == ASSUME ReclaimInv, CountBlock PROVE ReclaimInv'
<1> USE PatcherAssumption DEF ReclaimInv, Types, heap, content, editing, reading, pool, passing
<1>1. /\ ageG' = [g \in Graphs |-> IF g \in retiredG THEN Older(ageG[g]) ELSE 0]
      /\ ageO' = [o \in Objects |-> IF o \in retiredO THEN Older(ageO[o]) ELSE 0]
      /\ audio = "loaded" /\ audio' = "drain" /\ block' = block /\ plans' = plans
      /\ UNCHANGED <<heap, content, pins, shuttingDown, retiredG, retiredO, stale, editing,
                     reading, pool, passing>>
  BY DEF CountBlock, AudioUnchanged
<1>2. retiredG \subseteq Graphs /\ retiredO \subseteq Objects BY DEF Snapshots, Allocated
<1>3. /\ ageG' \in [Graphs -> 0..Grace]
      /\ \A g \in retiredG : /\ ageG[g] \in 0..Grace /\ ageG'[g] \in 0..Grace
                             /\ ageG[g] <= ageG'[g] /\ ageG'[g] <= ageG[g] + 1
  <2>1. ageG \in [Graphs -> 0..Grace] /\ retiredG \in SUBSET Graphs BY <1>2
  <2> QED BY ONLY <1>1, <2>1, Aged
<1>4. /\ ageO' \in [Objects -> 0..Grace]
      /\ \A o \in retiredO : /\ ageO[o] \in 0..Grace /\ ageO'[o] \in 0..Grace
                             /\ ageO[o] <= ageO'[o] /\ ageO'[o] <= ageO[o] + 1
  <2>1. ageO \in [Objects -> 0..Grace] /\ retiredO \in SUBSET Objects BY <1>2
  <2> QED BY ONLY <1>1, <2>1, Aged
<1>5. Types' BY <1>1, <1>3, <1>4
<1>6. Live(patch)' = Live(patch) BY <1>1 DEF Live
<1>7. \A g \in retiredG, o \in retiredO : ageO[o] <= ageG[g] => ageO'[o] <= ageG'[g]
  BY <1>1, <1>2, OlderIs
<1>8. Contents' BY <1>1, <1>6, <1>7 DEF Contents
<1>9. /\ \A g \in retiredG : ageG[g] = Grace => ageG'[g] = Grace
      /\ \A o \in retiredO : ageO[o] = Grace => ageO'[o] = Grace
  BY ONLY <1>3, <1>4 DEF Grace
<1>10. Passing'
  <2>1. worker = "freeGraphs" /\ editor # "dead" => \A g \in dueG : ageG'[g] = Grace
    BY <1>9 DEF Passing
  <2>2. ASSUME ReclaimLocked, editor # "dead", NEW o \in dueO PROVE ageO'[o] = Grace
    <3>1. o \in retiredO /\ ageO[o] = Grace BY <2>2 DEF Passing
    <3> QED BY ONLY <3>1, <1>9
  <2> QED BY <1>1, <2>1, <2>2 DEF Passing, ReclaimLocked
<1>11. Rendering'
  <2>1. block \in retiredG => ageG[block] <= 0 BY <1>1 DEF Rendering
  <2>2. block \in retiredG => ageG'[block] <= 1 BY <1>3, <2>1
  <2>3. \A o \in retiredO : ageO[o] <= 0 => ageO'[o] <= 1 BY <1>4
  <2> QED BY <1>1, <2>2, <2>3 DEF Rendering
<1>12. Phases' BY DEF CountBlock, AudioUnchanged, Phases, Closed
<1>13. Snapshots' /\ Allocated' /\ Readers' /\ StaleRetired' /\ Ids'
  BY Untouched DEF CountBlock, AudioUnchanged
<1> QED BY <1>5, <1>8, <1>10, <1>11, <1>12, <1>13

\* The other steps of the audio thread.
LEMMA AudioKeeps == ASSUME ReclaimInv, LoadActive \/ FinishBlock PROVE ReclaimInv'
<1> USE PatcherAssumption DEF ReclaimInv, Types, heap, content, retireLists, editing,
      rendering, reading, pool, passing
<1>1. ASSUME LoadActive PROVE ReclaimInv'
  <2>1. Types' BY <1>1 DEF LoadActive, AudioUnchanged
  <2>2. Phases' BY <1>1 DEF LoadActive, Closing, AudioUnchanged, Phases, Closed
  <2>3. Rendering' BY <1>1 DEF LoadActive, AudioUnchanged, Rendering, Snapshots
  <2>4. /\ Snapshots' /\ Allocated' /\ Contents'
        /\ Passing' /\ Readers' /\ StaleRetired' /\ Ids'
    BY <1>1, Untouched DEF LoadActive, AudioUnchanged
  <2> QED BY <2>1, <2>2, <2>3, <2>4
<1>2. ASSUME ApplyPlan PROVE ReclaimInv'
  <2>1. plans' \in Seq(Objects)
    <3>1. plans \in Seq(Objects) /\ plans # <<>> /\ plans' = Tail(plans)
      BY <1>2 DEF ApplyPlan
    <3> QED BY ONLY <3>1
  <2>2. Types' BY <1>2, <2>1 DEF ApplyPlan, AudioUnchanged
  <2>3. Rendering'
    <3>1. plans \in Seq(Objects) /\ plans # <<>> /\ plans' = Tail(plans)
      BY <1>2 DEF ApplyPlan
    <3>2. \A n \in DOMAIN plans' : n + 1 \in DOMAIN plans /\ plans'[n] = plans[n + 1]
      BY ONLY <3>1
    <3>3. UNCHANGED <<audio, block, heapG, heapO, retiredG, retiredO, ageG, ageO, editor>>
      BY <1>2 DEF ApplyPlan, AudioUnchanged
    <3> QED BY ONLY Rendering, <3>2, <3>3 DEF Rendering
  <2>4. /\ Phases' /\ Snapshots' /\ Allocated' /\ Contents'
        /\ Passing' /\ Readers' /\ StaleRetired' /\ Ids'
    BY <1>2, Untouched DEF ApplyPlan, AudioUnchanged
  <2> QED BY <2>2, <2>3, <2>4
<1>3. ASSUME Drained PROVE ReclaimInv'
  <2>1. Phases' BY <1>3 DEF Drained, AudioUnchanged, Phases, Closed
  <2>2. Rendering' BY <1>3 DEF Drained, AudioUnchanged, Rendering
  <2>3. /\ Types' /\ Snapshots' /\ Allocated' /\ Contents'
        /\ Passing' /\ Readers' /\ StaleRetired' /\ Ids'
    BY <1>3, Untouched DEF Drained, AudioUnchanged
  <2> QED BY <2>1, <2>2, <2>3
<1>4. ASSUME EndBlock PROVE ReclaimInv'
  <2>1. Types' BY <1>4 DEF EndBlock, AudioUnchanged
  <2>2. Phases' BY <1>4 DEF EndBlock, AudioUnchanged, Phases, Closed
  <2>3. Rendering' BY <1>4 DEF EndBlock, AudioUnchanged, Rendering, Snapshots
  <2>4. /\ Snapshots' /\ Allocated' /\ Contents'
        /\ Passing' /\ Readers' /\ StaleRetired' /\ Ids'
    BY <1>4, Untouched DEF EndBlock, AudioUnchanged
  <2> QED BY <2>1, <2>2, <2>3, <2>4
<1> QED BY <1>1, <1>2, <1>3, <1>4, CountKeeps DEF FinishBlock

\* The readers: what one loads is allocated, and due to no pass, for a pass that
\* did not see its pin began before it, and what it frees was retired by then.
LEMMA ReadsKeep == ASSUME ReclaimInv, NEW v \in Users, Read(v) PROVE ReclaimInv'
<1> USE PatcherAssumption DEF ReclaimInv, Types, heap, content, retireLists, editing,
      rendering, reading, pool, passing
<1>1. ASSUME NEW u \in Users, Pin(u) PROVE ReclaimInv'
  <2>1. IsFiniteSet(reader') /\ pins' = Cardinality(reader')
    BY <1>1, FS_AddElement DEF Pin, Readers
  <2>2. editor \notin {"freeAll", "dead"} \/ reader' = {} BY <1>1 DEF Pin, Closing, Phases
  <2>3. UNCHANGED <<heldG, heldO, heap, editing, passing>> /\ reader \subseteq reader'
    BY <1>1 DEF Pin, ReadUnchanged
  <2>4. Readers' BY <1>1, <2>1, <2>2, <2>3 DEF Readers, ReclaimLocked, Pin
  <2>5. /\ Types' /\ Phases' /\ Snapshots' /\ Allocated'
        /\ Contents' /\ Passing' /\ Rendering' /\ StaleRetired' /\ Ids'
    BY <1>1, Untouched DEF Pin, ReadUnchanged
  <2> QED BY <2>4, <2>5
<1>2. ASSUME NEW u \in Users, ReadActive(u) PROVE ReclaimInv'
  <2>1. Types' BY <1>2 DEF ReadActive, ReadUnchanged
  <2>2. Readers' BY <1>2 DEF ReadActive, ReadUnchanged, Fresh, Readers,
          ReclaimLocked, Snapshots, Passing
  <2>3. /\ Phases' /\ Snapshots' /\ Allocated' /\ Contents'
        /\ Passing' /\ Rendering' /\ StaleRetired' /\ Ids'
    BY <1>2, Untouched DEF ReadActive, ReadUnchanged
  <2> QED BY <2>1, <2>2, <2>3
<1>3. ASSUME NEW u \in Users, ReadObject(u) PROVE ReclaimInv'
  <2>1. PICK h \in Named : heldO' = [heldO EXCEPT ![u] = patch[h]] BY <1>3 DEF ReadObject
  <2>2. patch[h] \in Live(patch) /\ patch[h] \in Objects BY DEF Live, Named
  <2>3. patch[h] \in heapO /\ patch[h] \notin retiredO BY <2>2 DEF Allocated
  <2>4. u \in reader /\ UNCHANGED <<reader, pins, heldG>> /\ ReadUnchanged
    BY <1>3 DEF ReadObject, Fresh
  <2>5. ReclaimLocked => patch[h] \notin dueO BY <2>3, <2>4 DEF Passing, Readers
  <2>6. Readers' BY <2>1, <2>3, <2>4, <2>5 DEF Readers, ReclaimLocked, ReadUnchanged
  <2>7. Types' BY <2>1, <2>2, <2>4 DEF ReadUnchanged
  <2>8. /\ Phases' /\ Snapshots' /\ Allocated' /\ Contents'
        /\ Passing' /\ Rendering' /\ StaleRetired' /\ Ids'
    BY <1>3, Untouched DEF ReadObject, ReadUnchanged
  <2> QED BY <2>6, <2>7, <2>8
<1>4. ASSUME NEW u \in Users, Unpin(u) PROVE ReclaimInv'
  <2>1. IsFiniteSet(reader') /\ pins' = Cardinality(reader')
    BY <1>4, FS_RemoveElement DEF Unpin, Readers
  <2>2. reader' = reader \ {u} BY <1>4 DEF Unpin
  <2>3. Readers' BY <1>4, <2>1, <2>2 DEF Readers, ReclaimLocked, Unpin, ReadUnchanged
  <2>4. Types' BY <1>4 DEF Unpin, ReadUnchanged
  <2>5. /\ Phases' /\ Snapshots' /\ Allocated' /\ Contents'
        /\ Passing' /\ Rendering' /\ StaleRetired' /\ Ids'
    BY <1>4, Untouched DEF Unpin, ReadUnchanged
  <2> QED BY <2>3, <2>4, <2>5
<1> QED BY <1>1, <1>2, <1>3, <1>4 DEF Read

\* A pass that takes an object takes every retired snapshot that names it; one that
\* sees no pin has no reader to fear.
LEMMA BeginKeeps == ASSUME ReclaimInv, BeginPass PROVE ReclaimInv'
<1> USE PatcherAssumption DEF ReclaimInv, Types, Grace, heap, content, retireLists, editing,
      rendering, reading, passing
<1>1. /\ worker = "idle"
      /\ UNCHANGED <<heap, freeIds, retireLists, queued, active, patch, nextId, plans, pins,
                     shuttingDown, editing, rendering, reading>>
  BY DEF BeginPass, WorkUnchanged
<1>2. ASSUME UNCHANGED passing PROVE Types' /\ Passing' /\ Readers'
  <2>1. Types' BY <1>1, <1>2
  <2>2. Passing' BY <1>1, <1>2 DEF Passing, ReclaimLocked
  <2>3. Readers' BY <1>1, <1>2 DEF Readers, ReclaimLocked
  <2> QED BY <2>1, <2>2, <2>3
<1>3. ASSUME dueG' = Elapsed(retiredG, ageG), dueO' = Elapsed(retiredO, ageO),
             worker' = "freeGraphs"
      PROVE  Types' /\ Passing' /\ Readers'
  <2>1. dueG' \subseteq retiredG /\ \A g \in retiredG : g \in dueG' <=> pins = 0 /\ ageG[g] = Grace
    BY <1>3 DEF Elapsed
  <2>2. dueO' \subseteq retiredO /\ \A o \in retiredO : o \in dueO' <=> pins = 0 /\ ageO[o] = Grace
    BY <1>3 DEF Elapsed
  <2>3. retiredG \subseteq heapG /\ retiredO \subseteq heapO BY DEF Snapshots, Allocated
  <2>4. Types' BY <1>1, <2>1, <2>2, <2>3
  <2>5. \A g \in retiredG : holds[g] \intersect dueO' # {} => g \in dueG'
    <3> SUFFICES ASSUME NEW g \in retiredG, NEW o \in dueO', o \in holds[g]
                 PROVE  g \in dueG'
      OBVIOUS
    <3>1. pins = 0 /\ ageO[o] = Grace /\ ageO[o] <= ageG[g] BY <2>2 DEF Contents
    <3>2. ageG[g] \in 0..Grace BY <2>3
    <3> QED BY <2>1, <3>1, <3>2
  <2>6. editor = "dead" => dueO' = {} BY <2>2 DEF Phases
  <2>7. Passing' BY <1>1, <1>3, <2>1, <2>2, <2>5, <2>6 DEF Passing, ReclaimLocked
  <2>8. pins = 0 => reader = {} BY FS_EmptySet DEF Readers
  <2>9. None \notin dueG' /\ None \notin dueO' BY <2>4
  <2>10. pins = 0 => \A u \in Users : heldG[u] = None /\ heldO[u] = None
    BY <2>8 DEF Readers
  <2>11. \A u \in Users : heldG[u] \notin dueG' /\ heldO[u] \notin dueO'
    BY <2>1, <2>2, <2>9, <2>10
  <2>12. UNCHANGED <<heapG, heapO, pins, editor, reader, heldG, heldO>> BY <1>1
  <2>13. Readers' BY <2>11, <2>12 DEF Readers, ReclaimLocked
  <2> QED BY <2>4, <2>7, <2>13
<1>4. Types' /\ Passing' /\ Readers' BY <1>2, <1>3 DEF BeginPass, passing
<1>5. /\ Phases' /\ Snapshots' /\ Allocated'
      /\ Contents' /\ Rendering' /\ StaleRetired' /\ Ids'
  BY Untouched DEF BeginPass, WorkUnchanged
<1> QED BY <1>2, <1>3, <1>4, <1>5

\* The snapshots go first, so that none is left that names an object that is due.
LEMMA FreeGraphsKeeps == ASSUME ReclaimInv, FreeGraphs PROVE ReclaimInv'
<1> USE PatcherAssumption DEF ReclaimInv, Types, Grace, editing, rendering, reading, pool
<1> DEFINE D == dueG
<1>1. D = dueG OBVIOUS
<1>2. /\ worker = "freeGraphs" /\ worker' = "freeObjects"
      /\ heapG' = heapG \ D /\ retiredG' = retiredG \ D
      /\ holds' = [g \in Graphs |-> IF g \in D THEN {} ELSE holds[g]]
      /\ ageG' = [g \in Graphs |-> IF g \in D THEN 0 ELSE ageG[g]]
      /\ dueG' = {}
      /\ UNCHANGED <<heapO, id, freeIds, retiredO, ageO, stale, moved, pool, job, taken,
                     dueO, again, active, patch, nextId, plans, pins, shuttingDown,
                     editing, rendering, reading>>
  BY DEF FreeGraphs, WorkUnchanged
<1> HIDE DEF D
<1>3. editor # "dead" => D \subseteq retiredG /\ \A g \in D : ageG[g] = Grace
  BY <1>1, <1>2 DEF Passing
<1>4. editor = "dead" => heapG = {} BY DEF Phases, Snapshots
<1>5. Live(patch)' = Live(patch) BY <1>2 DEF Live
<1>6. Types'
  <2>1. holds' \in [Graphs -> SUBSET Objects] BY <1>2
  <2>2. ageG' \in [Graphs -> 0..Grace] BY <1>2
  <2>3. heapG' \subseteq Graphs BY <1>2
  <2> QED BY <1>2, <2>1, <2>2, <2>3
<1>7. Snapshots' BY <1>2, <1>3, <1>4 DEF Snapshots, Phases
<1>8. Passing'
  <2>1. CASE editor # "dead"
    <3>1. /\ dueO \subseteq retiredO
          /\ \A g \in retiredG : holds[g] \intersect dueO # {} => g \in dueG
      BY <1>2, <2>1 DEF Passing, ReclaimLocked
    <3>2. \A g \in heapG : g \notin retiredG => holds[g] \intersect dueO = {}
      BY <2>1, <3>1 DEF Snapshots, Contents, Allocated
    <3>3. \A g \in heapG \ D : holds[g] \intersect dueO = {} BY <1>1, <2>1, <3>1, <3>2
    <3> QED BY <1>2, <2>1, <3>3 DEF Passing, ReclaimLocked
  <2>2. CASE editor = "dead" BY <1>2, <2>2 DEF Passing, ReclaimLocked
  <2> QED BY <2>1, <2>2
<1>9. Phases' BY <1>2, <1>5 DEF Phases, Closed
<1>10. Contents' BY <1>2, <1>3, <1>4, <1>5 DEF Contents, Snapshots
<1>11. Rendering' BY <1>2, <1>3, <1>4 DEF Rendering, Snapshots
<1>12. Readers' BY <1>2, <1>1, <1>3, <1>4 DEF Readers, ReclaimLocked
<1>14. Allocated' /\ StaleRetired' /\ Ids'
  BY Untouched DEF FreeGraphs, WorkUnchanged
<1> QED BY <1>6, <1>7, <1>8, <1>9, <1>10, <1>11, <1>12, <1>14

\* Of the objects that go, those whose id is of the present numbering give it back.
LEMMA FreeObjectsKeeps == ASSUME ReclaimInv, FreeObjects PROVE ReclaimInv'
<1> USE PatcherAssumption DEF ReclaimInv, Types, Grace, editing, rendering, reading, pool
<1> DEFINE D == dueO
<1>1. D = dueO OBVIOUS
<1>2. /\ worker = "freeObjects" /\ worker' \notin {"freeGraphs", "freeObjects"}
      /\ heapO' = heapO \ D /\ retiredO' = retiredO \ D /\ stale' = stale \ D
      /\ id' = [o \in Objects |-> IF o \in D THEN 0 ELSE id[o]]
      /\ ageO' = [o \in Objects |-> IF o \in D THEN 0 ELSE ageO[o]]
      /\ freeIds' = freeIds \union {id[o] : o \in D \ stale} /\ dueO' = {}
      /\ UNCHANGED <<heapG, holds, retiredG, ageG, moved, pool, job, taken, dueG, active,
                     patch, nextId, plans, pins, shuttingDown, editing, rendering, reading>>
  BY DEF FreeObjects, WorkUnchanged, Recycled
<1> HIDE DEF D
<1>3. D \subseteq Objects BY <1>1
<1>4. editor # "dead" => /\ D \subseteq retiredO /\ \A o \in D : ageO[o] = Grace
                         /\ \A g \in heapG : holds[g] \intersect D = {}
  BY <1>1, <1>2 DEF Passing, ReclaimLocked
<1>5. editor = "dead" => /\ D \subseteq stale /\ heapG = {} /\ heapO = {}
                         /\ Live(patch) = {} /\ doomed = {} /\ retiredO = {}
  BY <1>1, <1>2 DEF Passing, ReclaimLocked, Phases, Snapshots, Allocated, Closed
<1>6. Live(patch)' = Live(patch) BY <1>2 DEF Live
<1>7. Types'
  <2>1. id' \in [Objects -> Nat] BY <1>2
  <2>2. ageO' \in [Objects -> 0..Grace] BY <1>2
  <2>3. freeIds' \subseteq Nat
    <3>1. \A o \in D : id[o] \in Nat BY <1>3
    <3>2. {id[o] : o \in D \ stale} \subseteq Nat BY ONLY <3>1
    <3>3. freeIds \subseteq Nat OBVIOUS
    <3> QED BY ONLY <1>2, <3>2, <3>3
  <2>4. heapO' \subseteq Objects BY <1>2
  <2> QED BY <1>2, <2>1, <2>2, <2>3, <2>4
<1>8. Allocated' BY <1>2, <1>4, <1>5, <1>6 DEF Allocated
<1>9. Contents' BY <1>2, <1>4, <1>5, <1>6 DEF Contents, Snapshots
<1>10. Rendering'
  <2> SUFFICES ASSUME editor # "dead", NEW i \in DOMAIN plans
               PROVE  /\ plans[i] \notin D
                      /\ plans[i] \in retiredO' => ageO'[plans[i]] = ageO[plans[i]]
    BY <1>2 DEF Rendering
  <2>1. plans[i] \in Objects OBVIOUS
  <2>2. ageO[plans[i]] \in 0..Grace BY <2>1
  <2>3. plans[i] \in retiredO => ageO[plans[i]] <= IF audio = "drain" THEN 1 ELSE 0
    BY DEF Rendering
  <2>4. plans[i] \in retiredO => ageO[plans[i]] # Grace BY <2>2, <2>3
  <2> QED BY <1>2, <1>4, <2>1, <2>4
<1>11. Readers' BY <1>1, <1>2, <1>3, <1>4 DEF Readers, ReclaimLocked
<1>12. StaleRetired' BY <1>2 DEF StaleRetired
<1>13. Snapshots' /\ Passing'
  BY <1>2 DEF Snapshots, Passing, ReclaimLocked
<1> DEFINE cur == Numbered
<1>14. /\ \A p, q \in cur : id[p] = id[q] => p = q
       /\ \A p \in cur : id[p] \notin freeIds /\ id[p] < nextId
       /\ \A j \in freeIds : j < nextId
       /\ \A j \in 0..nextId - 1 : j \in freeIds \/ \E p \in cur : id[p] = j
  BY DEF Ids, IdsAreUnique, NoIdLost
<1>15. D \ stale \subseteq cur BY <1>4, <1>5 DEF Numbered
<1>16. cur \subseteq Objects BY DEF Numbered, Allocated
<1>17. Numbered' = cur \ D /\ cur \intersect D \subseteq D \ stale
  <2>1. Live(patch) \intersect D = {} /\ doomed \intersect D = {}
    BY <1>4, <1>5 DEF Allocated
  <2> QED BY <1>2, <1>6, <2>1 DEF Numbered
<1> HIDE DEF cur
<1>18. Ids'
  <2>1. \A p \in cur \ D : id'[p] = id[p] /\ id'[p] \notin freeIds' /\ id'[p] < nextId'
    <3> SUFFICES ASSUME NEW p \in cur, p \notin D
                 PROVE  id'[p] = id[p] /\ id'[p] \notin freeIds' /\ id'[p] < nextId'
      OBVIOUS
    <3>1. id'[p] = id[p] BY <1>2, <1>16
    <3>2. ASSUME NEW q \in D \ stale PROVE id[q] # id[p] BY <1>14, <1>15
    <3>3. id[p] \notin freeIds /\ id[p] < nextId BY <1>14
    <3>4. freeIds' = freeIds \union {id[q] : q \in D \ stale} /\ nextId' = nextId BY <1>2
    <3>5. id[p] \notin freeIds' BY ONLY <3>2, <3>3, <3>4
    <3> QED BY ONLY <3>1, <3>3, <3>4, <3>5
  <2>2. \A p, q \in cur \ D : id'[p] = id'[q] => p = q BY <1>14, <2>1
  <2>3. \A j \in freeIds' : j < nextId' BY <1>2, <1>14, <1>15
  <2>4. ASSUME NEW j \in 0..nextId' - 1
        PROVE  j \in freeIds' \/ \E p \in cur \ D : id'[p] = j
    <3>1. j \in freeIds \/ \E p \in cur : id[p] = j BY <1>2, <1>14
    <3>2. ASSUME NEW p \in cur, id[p] = j PROVE j \in freeIds' \/ p \in cur \ D
      BY <1>2, <1>17, <3>2
    <3> QED BY <1>2, <2>1, <3>1, <3>2
  <2> QED BY <1>17, <2>1, <2>2, <2>3, <2>4 DEF Ids, IdsAreUnique, NoIdLost
<1>19. Phases'
  <2>1. \A p \in D \ stale : id[p] \in Nat /\ id[p] < nextId BY <1>3, <1>14, <1>15
  <2>2. nextId = 0 => D \ stale = {} BY <2>1
  <2>3. D \ stale = {} => freeIds' = freeIds BY <1>2
  <2>4. Closed => freeIds' = freeIds BY <2>2, <2>3 DEF Phases
  <2>5. editor = "dead" => retiredO' = {} BY <1>2, <1>5
  <2> QED BY <1>2, <1>6, <2>4, <2>5 DEF Phases, Closed
<1> QED BY <1>7, <1>8, <1>9, <1>10, <1>11, <1>12, <1>13, <1>18, <1>19

\* The other steps of the worker.
LEMMA WorkKeeps == ASSUME ReclaimInv, Work PROVE ReclaimInv'
<1> USE PatcherAssumption DEF ReclaimInv, Types, heap, content, retireLists, editing,
      rendering, reading, pool, passing
<1>1. ASSUME Rearm PROVE ReclaimInv'
  <2>1. Passing' BY <1>1 DEF Rearm, Passing, ReclaimLocked
  <2>2. Readers' BY <1>1 DEF Rearm, WorkUnchanged, Readers, ReclaimLocked
  <2>3. /\ Types' /\ Phases' /\ Snapshots' /\ Allocated'
        /\ Contents' /\ Rendering' /\ StaleRetired' /\ Ids'
    BY <1>1, Untouched DEF Rearm, WorkUnchanged
  <2> QED BY <2>1, <2>2, <2>3
<1>2. ASSUME Finish PROVE ReclaimInv'
  <2>1. Types' BY <1>2 DEF Finish, WorkUnchanged
  <2>2. Passing' BY <1>2 DEF Finish, Passing, ReclaimLocked
  <2>3. Readers' BY <1>2 DEF Finish, WorkUnchanged, Readers, ReclaimLocked
  <2>4. /\ Phases' /\ Snapshots' /\ Allocated'
        /\ Contents' /\ Rendering' /\ StaleRetired' /\ Ids'
    BY <1>2, Untouched DEF Finish, WorkUnchanged
  <2> QED BY <2>1, <2>2, <2>3, <2>4
<1> QED BY <1>1, <1>2, BeginKeeps, FreeGraphsKeeps, FreeObjectsKeeps DEF Work

\* Nothing is there at first.
LEMMA InitEstablishesInv == Init => ReclaimInv
<1> SUFFICES ASSUME Init PROVE ReclaimInv OBVIOUS
<1> USE PatcherAssumption DEF Init
<1>1. Live(patch) = {} BY DEF Live
<1>2. Types BY DEF Types, Grace
<1>3. Phases BY <1>1 DEF Phases, Closed
<1>4. Snapshots /\ Allocated /\ Contents BY <1>1 DEF Snapshots, Allocated, Contents
<1>5. Passing /\ Rendering BY DEF Passing, ReclaimLocked, Rendering
<1>6. Readers BY FS_EmptySet DEF Readers, ReclaimLocked
<1>7. StaleRetired /\ Ids BY <1>1 DEF StaleRetired, Ids, IdsAreUnique, NoIdLost, Numbered
<1> QED BY <1>2, <1>3, <1>4, <1>5, <1>6, <1>7 DEF ReclaimInv

\* The invariant is inductive.
LEMMA StepKeepsInv == ReclaimInv /\ [Next]_vars => ReclaimInv'
<1>1. ASSUME ReclaimInv, UNCHANGED vars PROVE ReclaimInv'
  BY <1>1, Untouched
  DEF ReclaimInv, vars, heap, content, retireLists, editing, rendering, reading, pool, passing
<1> QED BY <1>1, EditKeeps, AudioKeeps, ReadsKeep, WorkKeeps DEF Next, Destroyed

\* The invariant holds in every state of every behaviour.
THEOREM ReclaimInvHolds == Spec => []ReclaimInv
BY InitEstablishesInv, StepKeepsInv, PTL DEF Spec

\* Nobody is left holding freed memory: not the block in progress, not a reader
\* under its pin, not a snapshot, not a parameter plan that waits for a block.
THEOREM NothingUsedIsFreed == Spec => []NoUseAfterFree
<1>1. ReclaimInv => NoUseAfterFree
  <2> SUFFICES ASSUME ReclaimInv PROVE NoUseAfterFree OBVIOUS
  <2>1. \A g \in Graphs : InUse(g) => g \in heapG
    BY PatcherAssumption DEF ReclaimInv, InUse, Rendering, Readers
  <2>2. \A u \in Users : heldO[u] # None => heldO[u] \in heapO BY DEF ReclaimInv, Readers
  <2>3. /\ \A g \in heapG : holds[g] \subseteq heapO
        /\ editor # "dead" => \A i \in DOMAIN plans : plans[i] \in heapO
    BY DEF ReclaimInv, Contents, Rendering
  <2> QED BY <2>1, <2>2, <2>3 DEF NoUseAfterFree
<1> QED BY <1>1, ReclaimInvHolds, PTL

\* The ids of what a snapshot is built from differ, fit its tables, and are not
\* waiting to be handed out again.
THEOREM IdsStayUnique == Spec => []IdsAreUnique
<1>1. ReclaimInv => IdsAreUnique BY DEF ReclaimInv, Ids
<1> QED BY <1>1, ReclaimInvHolds, PTL

\* No id is lost: each below the high-water mark is somebody's or waits to be handed
\* out, in every state between an edit, a compaction and a pass.
THEOREM NoIdIsLost == Spec => []NoIdLost
<1>1. ReclaimInv => NoIdLost BY DEF ReclaimInv, Ids
<1> QED BY <1>1, ReclaimInvHolds, PTL

=============================================================================
