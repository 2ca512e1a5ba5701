-------------------------- MODULE RenderScheduler --------------------------
(***************************************************************************)
(* The task-graph render scheduler: one rendering thread (the audio        *)
(* callback, thread 0) opens a block, every thread claims leaf tasks from  *)
(* per-thread lists, a finished task decrements the counters of the tasks  *)
(* that wait for it and runs inline the one it brought to zero, and the    *)
(* rendering thread closes the block once the root ran and no worker is    *)
(* inside.  Between blocks the rendering thread may rebuild the lists and  *)
(* the control thread may stop and restart the workers.                    *)
(*                                                                         *)
(* Each step is one access to a shared atomic.  Memory is sequentially     *)
(* consistent: weaker orderings of the code are not modelled.              *)
(***************************************************************************)
EXTENDS Integers, Sequences, FiniteSets

CONSTANTS
  NumWorkers,     \* render workers besides the rendering thread
  Tasks,          \* the tasks of the graph
  Root,           \* its single sink, the task run() is given
  LeafOrder,      \* the leaves, in the order the builder adds them
  Dependencies,   \* per task, the count given to setDependencies (0: a leaf)
  Arrivals,       \* per task, the tasks its execute() arrives at, in order
  Costs,          \* measured costs a leaf may have; 0: not measured yet
  WakeExact,      \* WAKE_COUNT_IS_EXACT: futex (TRUE) or WaitOnAddress
  GenLimit,       \* block generations wrap after this one (2^32 - 1)
  None            \* nullptr

Workers == 1..NumWorkers
Threads == 0..NumWorkers
LeafCount == Len(LeafOrder)
OrNone(S) == S \union {None}

ASSUME RenderAssumption ==
  /\ NumWorkers \in Nat
  /\ GenLimit \in Nat \ {0}
  /\ Costs \subseteq Nat
  /\ WakeExact \in BOOLEAN
  /\ Root \in Tasks /\ None \notin Tasks
  /\ LeafOrder \in Seq(Tasks)
  /\ Dependencies \in [Tasks -> Nat]
  /\ Arrivals \in [Tasks -> Seq(Tasks)]

\* Who arrives at a task, and at which of its own arrivals.
Prerequisites(task) == {t \in Tasks : \E i \in DOMAIN Arrivals[t] : Arrivals[t][i] = task}
ArrivalsAt(task) ==
  {e \in UNION {{t} \X DOMAIN Arrivals[t] : t \in Tasks} : Arrivals[e[1]][e[2]] = task}

\* What buildRenderGraph() makes: the leaves are the tasks nobody arrives at, a
\* task is given the number of arrivals that will come, every task leads to the
\* root, and none to itself.
ASSUME GraphAssumption ==
  /\ \A task \in Tasks :
       /\ IsFiniteSet(ArrivalsAt(task))
       /\ Dependencies[task] = Cardinality(ArrivalsAt(task))
       /\ Dependencies[task] = 0 <=> \E i \in 1..LeafCount : task = LeafOrder[i]
  /\ \A i, j \in 1..LeafCount : LeafOrder[i] = LeafOrder[j] => i = j
  /\ \A S \in SUBSET Tasks :
       Root \in S /\ (\A task \in S : Prerequisites(task) \subseteq S) => S = Tasks
  /\ \A S \in SUBSET Tasks :
       (\A task \in Tasks : Prerequisites(task) \subseteq S => task \in S) => S = Tasks

VARIABLES
  head, tail, leafNext,   \* the leaf lists, linked through leafNext
  assigned,               \* cost dealt to each list by this build
  added,                  \* leaves added so far by this build
  buildUnmeasured,        \* this build dealt a leaf blind
  rebalance, dirty,       \* rebalanceAfterSample, dirty
  costKnown,              \* some block was measured (blockCostNs >= 0)
  cursor,                 \* next unclaimed leaf of each list
  pending,                \* arrivals each task still waits for
  root, rootDone,
  openGen, lastOpened,    \* the open block's generation, 0 when closed
  inFlight, parked,       \* workers announced in a block, and in their park
  running,                \* cleared to stop the workers
  control,                \* where the control thread is in shutdown()
  wakeCount,              \* workers this block wants awake, 0 if none
  pc,                     \* per thread
  lastGen, woken,         \* per worker: last block joined; just unparked
  fresh,                  \* per worker: no epoch bump since it sampled it
  scan, loaded,           \* per thread: list offset; leaf read by claim()
  stack,                  \* per thread: the tasks it is inside, innermost first
  runs                    \* history: executions of each task in this block

listVars == <<head, tail, leafNext>>
buildVars == <<listVars, assigned, added, buildUnmeasured>>
costVars == <<rebalance, dirty, costKnown>>
genVars == <<openGen, lastOpened>>
rootVars == <<root, rootDone>>
controlVars == <<running, control>>
workerVars == <<lastGen, woken, fresh>>
claimVars == <<scan, loaded>>
taskVars == <<stack, runs, pending>>
vars == <<buildVars, costVars, cursor, taskVars, rootVars, genVars, inFlight,
          parked, controlVars, wakeCount, pc, workerVars, claimVars>>

\* Labels of a thread inside drainLeaves(): it may touch the leaf lists.
DrainLabels == {"load", "cas", "passRead", "passWake", "run"}
AudioLabels == DrainLabels \union
  {"idle", "build", "open", "readParked", "bump", "wake", "closeSerial",
   "waitRoot", "waitWorkers"}
WorkerLabels == DrainLabels \union
  {"top", "announce", "readGen", "leave", "retreat", "spin", "sample",
   "prepark", "recheck", "cancelPark", "parkOn", "asleep", "unpark", "exited"}

Phases == {"reset", "work", "arrive"}
Frames == [task : Tasks, phase : Phases, next : Nat \ {0}]
Frame(task, phase) == [task |-> task, phase |-> phase, next |-> 1]

Goto(t, label) == pc' = [pc EXCEPT ![t] = label]
At(t, label) == pc[t] = label
Asleep == {w \in Workers : pc[w] = "asleep"}
Lesser(a, b) == IF a < b THEN a ELSE b
BlockAvailable(w) == openGen # 0 /\ openGen # lastGen[w]

(***************************************************************************)
(* Building the graph, on the rendering thread between blocks              *)
(***************************************************************************)

\* render() finds the graph dirty; beginBuild() empties every list.
BeginBuild ==
  /\ At(0, "idle") /\ control \in {"up", "down"} /\ dirty
  /\ head' = [l \in Threads |-> None]
  /\ tail' = [l \in Threads |-> None]
  /\ cursor' = [l \in Threads |-> None]
  /\ assigned' = [l \in Threads |-> 0]
  /\ added' = 0
  /\ buildUnmeasured' = FALSE
  /\ Goto(0, "build")
  /\ UNCHANGED <<leafNext, costVars, taskVars, rootVars, genVars, inFlight,
                 parked, controlVars, wakeCount, workerVars, claimVars>>

\* The list with the least cost so far, lowest index on a tie.
LeastAssigned ==
  CHOOSE l \in Threads : \A m \in Threads :
    assigned[l] < assigned[m] \/ (assigned[l] = assigned[m] /\ l <= m)

\* An unmeasured leaf weighs 1.
Weight(cost) == IF cost = 0 THEN 1 ELSE cost

\* addLeaf(): the next leaf goes to the least loaded list.
AddLeaf ==
  /\ At(0, "build") /\ added < LeafCount
  /\ \E cost \in (IF costKnown THEN Costs ELSE {0}) :
       LET leaf == LeafOrder[added + 1]
           list == LeastAssigned
       IN  /\ assigned' = [assigned EXCEPT ![list] = @ + Weight(cost)]
           /\ buildUnmeasured' = (buildUnmeasured \/ cost = 0)
           /\ leafNext' = IF tail[list] = None
                          THEN [leafNext EXCEPT ![leaf] = None]
                          ELSE [leafNext EXCEPT ![leaf] = None, ![tail[list]] = leaf]
           /\ head' = IF tail[list] = None THEN [head EXCEPT ![list] = leaf] ELSE head
           /\ tail' = [tail EXCEPT ![list] = leaf]
           /\ pending' = [pending EXCEPT ![leaf] = 0]
  /\ added' = added + 1
  /\ UNCHANGED <<costVars, cursor, stack, runs, rootVars, genVars, inFlight, parked,
                 controlVars, wakeCount, pc, workerVars, claimVars>>

\* setDependencies() on every task that waits for others, then endBuild().
EndBuild ==
  /\ At(0, "build") /\ added = LeafCount
  /\ pending' = [task \in Tasks |-> IF Dependencies[task] = 0 THEN pending[task]
                                    ELSE Dependencies[task]]
  /\ leafNext' = [task \in Tasks |-> IF Dependencies[task] = 0 THEN leafNext[task]
                                     ELSE None]
  /\ dirty' = FALSE
  /\ rebalance' = buildUnmeasured
  /\ Goto(0, "idle")
  /\ UNCHANGED <<head, tail, assigned, added, buildUnmeasured, costKnown, cursor,
                 stack, runs, rootVars, genVars, inFlight, parked, controlVars,
                 wakeCount, workerVars, claimVars>>

\* A structural change of the channel graph marks it dirty between blocks.
MarkDirty ==
  /\ At(0, "idle") /\ ~dirty
  /\ dirty' = TRUE
  /\ UNCHANGED <<buildVars, rebalance, costKnown, cursor, taskVars, rootVars,
                 genVars, inFlight, parked, controlVars, wakeCount, pc,
                 workerVars, claimVars>>

(***************************************************************************)
(* run(): the rendering thread opens and closes a block                    *)
(***************************************************************************)

\* decideGate(): the gates this block may take.  Whether it is light and
\* whether blocks come back to back depends on time and is left open.
Gates ==
  IF NumWorkers = 0 \/ ~running THEN {"serial"}
  ELSE {"openAndWake"} \union
       (IF ~costKnown THEN {}
        ELSE IF parked < NumWorkers THEN {"openNoWake"} ELSE {"serial"})

\* The start of run(): gate, cursors to the list heads, root.
StartBlock(gate) ==
  /\ At(0, "idle") /\ control \in {"up", "down"} /\ ~dirty /\ LeafCount # 0
  /\ gate \in Gates
  /\ cursor' = head
  /\ root' = Root
  /\ rootDone' = FALSE
  /\ runs' = [task \in Tasks |-> 0]
  /\ wakeCount' = IF gate = "openAndWake" THEN Lesser(LeafCount - 1, NumWorkers) ELSE 0
  /\ scan' = [scan EXCEPT ![0] = 0]
  /\ Goto(0, IF gate = "serial" THEN "load" ELSE "open")
  /\ UNCHANGED <<buildVars, costVars, stack, pending, genVars, inFlight, parked,
                 controlVars, workerVars, loaded>>

\* Generations wrap past 0, which means closed.
NextGenUnwrapped == lastOpened + 1
NextGen == IF lastOpened = GenLimit THEN 1 ELSE lastOpened + 1

\* The generation store that opens the block.
OpenBlock ==
  /\ At(0, "open")
  /\ lastOpened' = NextGen
  /\ openGen' = lastOpened'
  /\ Goto(0, IF wakeCount = 0 THEN "load" ELSE "readParked")
  /\ UNCHANGED <<buildVars, costVars, cursor, taskVars, rootVars, inFlight, parked,
                 controlVars, wakeCount, workerVars, claimVars>>

\* wakeWorkers(): nothing to do when nobody is parked; otherwise how many to
\* wake: exactly as many as have a leaf, or (Windows) all or one.
ReadParked ==
  /\ At(0, "readParked")
  /\ wakeCount' = CASE parked = 0 -> wakeCount
                    [] parked # 0 /\ WakeExact -> Lesser(wakeCount, parked)
                    [] OTHER -> IF wakeCount >= parked THEN NumWorkers ELSE 1
  /\ Goto(0, IF parked = 0 THEN "load" ELSE "bump")
  /\ UNCHANGED <<buildVars, costVars, cursor, taskVars, rootVars, genVars, inFlight,
                 parked, controlVars, workerVars, claimVars>>

\* Raising the epoch makes every sample a worker took before it stale.
RaiseEpoch == fresh' = [w \in Workers |-> FALSE]

\* wakeParked(count): that many sleepers return from their park, any of them.
WakeParked(count, t, label) ==
  \E S \in SUBSET Asleep :
    /\ Cardinality(S) = Lesser(count, Cardinality(Asleep))
    /\ pc' = [u \in Threads |-> IF u \in S THEN "unpark"
                                ELSE IF u = t THEN label ELSE pc[u]]

BumpEpoch ==
  /\ At(0, "bump")
  /\ RaiseEpoch
  /\ Goto(0, "wake")
  /\ UNCHANGED <<buildVars, costVars, cursor, taskVars, rootVars, genVars, inFlight,
                 parked, controlVars, wakeCount, lastGen, woken, claimVars>>

WakeWorkers ==
  /\ At(0, "wake")
  /\ WakeParked(wakeCount, 0, "load")
  /\ UNCHANGED <<buildVars, costVars, cursor, taskVars, rootVars, genVars, inFlight,
                 parked, controlVars, wakeCount, workerVars, claimVars>>

\* The rendering thread saw the root done, and closes the block.
CloseBlock ==
  /\ At(0, "waitRoot") /\ rootDone
  /\ openGen' = 0
  /\ Goto(0, "waitWorkers")
  /\ UNCHANGED <<buildVars, costVars, cursor, taskVars, rootVars, lastOpened, inFlight,
                 parked, controlVars, wakeCount, workerVars, claimVars>>

\* finishSample(): the first block after a build is always a measured one, so
\* a deal made blind is redone after it.
FinishSample ==
  /\ costKnown' = TRUE
  /\ rebalance' = FALSE
  /\ dirty' = (dirty \/ rebalance)

\* The wait for every worker to leave the block.
WorkersForgotten == TRUE
WorkersLeft == inFlight = 0

\* Every worker left: the block is over.
FinishBlock ==
  /\ \/ At(0, "waitWorkers") /\ WorkersLeft
     \/ At(0, "closeSerial")
  /\ root' = None
  /\ wakeCount' = 0
  /\ FinishSample
  /\ Goto(0, "idle")
  /\ UNCHANGED <<buildVars, cursor, taskVars, rootDone, genVars, inFlight, parked,
                 controlVars, workerVars, claimVars>>

(***************************************************************************)
(* drainLeaves(): claim leaves and run them, own list first                *)
(***************************************************************************)
ListOf(t) == (t + scan[t]) % (NumWorkers + 1)

\* claim() loads the cursor of the list.
LoadCursor(t) ==
  /\ At(t, "load") /\ cursor[ListOf(t)] # None
  /\ loaded' = [loaded EXCEPT ![t] = cursor[ListOf(t)]]
  /\ Goto(t, "cas")
  /\ UNCHANGED <<buildVars, costVars, cursor, taskVars, rootVars, genVars, inFlight,
                 parked, controlVars, wakeCount, workerVars, scan>>

\* The list is empty: on to the next one of the rotation.
NextList(t) ==
  /\ At(t, "load") /\ cursor[ListOf(t)] = None /\ scan[t] < NumWorkers
  /\ scan' = [scan EXCEPT ![t] = @ + 1]
  /\ UNCHANGED <<buildVars, costVars, cursor, taskVars, rootVars, genVars, inFlight,
                 parked, controlVars, wakeCount, pc, workerVars, loaded>>

\* Every list is empty: the drain returns.  A serial block never opened.
DrainDone(t) ==
  /\ At(t, "load") /\ cursor[ListOf(t)] = None /\ scan[t] = NumWorkers
  /\ Goto(t, IF t # 0 THEN "leave" ELSE IF openGen = 0 THEN "closeSerial" ELSE "waitRoot")
  /\ UNCHANGED <<buildVars, costVars, cursor, taskVars, rootVars, genVars, inFlight,
                 parked, controlVars, wakeCount, workerVars, claimVars>>

\* The comparison of claim()'s compare-exchange.
ClaimHolds(t) == cursor[ListOf(t)] = loaded[t]

\* The compare-exchange of claim() moves the cursor past the leaf this thread
\* read, which it then runs; a woken worker first hands the wake on.
ClaimLeaf(t) ==
  /\ At(t, "cas") /\ ClaimHolds(t)
  /\ cursor' = [cursor EXCEPT ![ListOf(t)] = leafNext[loaded[t]]]
  /\ stack' = [stack EXCEPT ![t] = <<Frame(loaded[t], "work")>>]
  /\ runs' = [runs EXCEPT ![loaded[t]] = @ + 1]
  /\ loaded' = [loaded EXCEPT ![t] = None]
  /\ Goto(t, IF t \in Workers /\ woken[t] /\ ~WakeExact THEN "passRead" ELSE "run")
  /\ UNCHANGED <<buildVars, costVars, pending, rootVars, genVars, inFlight, parked,
                 controlVars, wakeCount, workerVars, scan>>

\* Another thread moved the cursor: retry with what it holds now.
ClaimLost(t) ==
  /\ At(t, "cas") /\ ~ClaimHolds(t)
  /\ loaded' = [loaded EXCEPT ![t] = cursor[ListOf(t)]]
  /\ Goto(t, IF cursor[ListOf(t)] = None THEN "load" ELSE "cas")
  /\ UNCHANGED <<buildVars, costVars, cursor, taskVars, rootVars, genVars, inFlight,
                 parked, controlVars, wakeCount, workerVars, scan>>

\* passWakeOn(), once per drain.
PassWakeOn(w) ==
  /\ At(w, "passRead")
  /\ woken' = [woken EXCEPT ![w] = FALSE]
  /\ IF parked = 0 THEN /\ Goto(w, "run") /\ UNCHANGED fresh
                   ELSE /\ Goto(w, "passWake") /\ RaiseEpoch
  /\ UNCHANGED <<buildVars, costVars, cursor, taskVars, rootVars, genVars, inFlight,
                 parked, controlVars, wakeCount, lastGen, claimVars>>

PassWakeCall(w) ==
  /\ At(w, "passWake")
  /\ WakeParked(1, w, "run")
  /\ UNCHANGED <<buildVars, costVars, cursor, taskVars, rootVars, genVars, inFlight,
                 parked, controlVars, wakeCount, workerVars, claimVars>>

(***************************************************************************)
(* runTask() and arrive(): the innermost task of a thread's stack          *)
(***************************************************************************)
Inside(t) == At(t, "run") /\ stack[t] # <<>>
Top(t) == Head(stack[t])
SetTop(t, frame) == stack' = [stack EXCEPT ![t] = <<frame>> \o Tail(@)]
Targets(frame) == Arrivals[frame.task]

\* The task's own work: reads what its dependencies wrote.
Work(t) ==
  /\ Inside(t) /\ Top(t).phase = "work"
  /\ SetTop(t, [Top(t) EXCEPT !.phase = "arrive"])
  /\ UNCHANGED <<buildVars, costVars, cursor, runs, pending, rootVars, genVars, inFlight,
                 parked, controlVars, wakeCount, pc, workerVars, claimVars>>

\* Whether this arrival is the one the target waited for.
EarlyArrival(target) == pending[target] \in {1, 2}
LastArrival(target) == pending[target] = 1

\* One arrive() at the end of execute(); the last arrival runs the target.
Arrive(t) ==
  /\ Inside(t) /\ Top(t).phase = "arrive" /\ Top(t).next <= Len(Targets(Top(t)))
  /\ LET target == Targets(Top(t))[Top(t).next]
         caller == [Top(t) EXCEPT !.next = @ + 1]
     IN  /\ pending' = [pending EXCEPT ![target] = @ - 1]
         /\ stack' = [stack EXCEPT ![t] =
              (IF LastArrival(target) THEN <<Frame(target, "reset"), caller>>
                                     ELSE <<caller>>) \o Tail(@)]
  /\ UNCHANGED <<buildVars, costVars, cursor, runs, rootVars, genVars, inFlight, parked,
                 controlVars, wakeCount, pc, workerVars, claimVars>>

\* The value the counter starts the next block with.
RearmSkipped(task) == pending[task]
Rearm(task) == Dependencies[task]

\* The last arrival rearms the counter for the next block, then runs the task.
ResetAndRun(t) ==
  /\ Inside(t) /\ Top(t).phase = "reset"
  /\ pending' = [pending EXCEPT ![Top(t).task] = Rearm(Top(t).task)]
  /\ runs' = [runs EXCEPT ![Top(t).task] = @ + 1]
  /\ SetTop(t, Frame(Top(t).task, "work"))
  /\ UNCHANGED <<buildVars, costVars, cursor, rootVars, genVars, inFlight, parked,
                 controlVars, wakeCount, pc, workerVars, claimVars>>

\* execute() returns; the root's runTask() reports the block done.
ReturnTask(t) ==
  /\ Inside(t) /\ Top(t).phase = "arrive" /\ Top(t).next > Len(Targets(Top(t)))
  /\ stack' = [stack EXCEPT ![t] = Tail(@)]
  /\ rootDone' = (rootDone \/ Top(t).task = root)
  /\ Goto(t, IF Tail(stack[t]) = <<>> THEN "load" ELSE "run")
  /\ UNCHANGED <<buildVars, costVars, cursor, runs, pending, root, genVars, inFlight,
                 parked, controlVars, wakeCount, workerVars, claimVars>>

(***************************************************************************)
(* workerLoop()                                                            *)
(***************************************************************************)

\* while (running)
TestRunning(w) ==
  /\ At(w, "top")
  /\ Goto(w, IF running THEN "announce" ELSE "exited")
  /\ UNCHANGED <<buildVars, costVars, cursor, taskVars, rootVars, genVars, inFlight,
                 parked, controlVars, wakeCount, workerVars, claimVars>>

Announce(w) ==
  /\ At(w, "announce")
  /\ inFlight' = inFlight + 1
  /\ Goto(w, "readGen")
  /\ UNCHANGED <<buildVars, costVars, cursor, taskVars, rootVars, genVars, parked,
                 controlVars, wakeCount, workerVars, claimVars>>

\* Only after announcing itself does a worker look for an open block.
ReadGen(w) ==
  /\ At(w, "readGen")
  /\ IF BlockAvailable(w)
     THEN /\ lastGen' = [lastGen EXCEPT ![w] = openGen]
          /\ scan' = [scan EXCEPT ![w] = 0]
          /\ Goto(w, "load")
     ELSE /\ Goto(w, "retreat")
          /\ UNCHANGED <<lastGen, scan>>
  /\ UNCHANGED <<buildVars, costVars, cursor, taskVars, rootVars, genVars, inFlight,
                 parked, controlVars, wakeCount, woken, fresh, loaded>>

\* inFlight goes down; a worker that took part spins for the next block.
Leave(w) ==
  /\ pc[w] \in {"leave", "retreat"}
  /\ inFlight' = inFlight - 1
  /\ woken' = [woken EXCEPT ![w] = FALSE]
  /\ Goto(w, IF pc[w] = "leave" THEN "spin" ELSE "sample")
  /\ UNCHANGED <<buildVars, costVars, cursor, taskVars, rootVars, genVars, parked,
                 controlVars, wakeCount, lastGen, fresh, claimVars>>

\* spinForBlock(): the next block opened, or the window (or running) is over.
Spin(w) ==
  /\ At(w, "spin")
  /\ \/ BlockAvailable(w) /\ Goto(w, "top")
     \/ Goto(w, "sample")
  /\ UNCHANGED <<buildVars, costVars, cursor, taskVars, rootVars, genVars, inFlight,
                 parked, controlVars, wakeCount, workerVars, claimVars>>

SampleEpoch(w) ==
  /\ At(w, "sample")
  /\ fresh' = [fresh EXCEPT ![w] = TRUE]
  /\ Goto(w, "prepark")
  /\ UNCHANGED <<buildVars, costVars, cursor, taskVars, rootVars, genVars, inFlight,
                 parked, controlVars, wakeCount, lastGen, woken, claimVars>>

PrePark(w) ==
  /\ At(w, "prepark")
  /\ parked' = parked + 1
  /\ Goto(w, "recheck")
  /\ UNCHANGED <<buildVars, costVars, cursor, taskVars, rootVars, genVars, inFlight,
                 controlVars, wakeCount, workerVars, claimVars>>

\* Announced as parked: look again before sleeping.
SleepUnlessStopped(w) == ~running
SleepUnlessOpened(w) == BlockAvailable(w)
MustNotSleep(w) == ~running \/ BlockAvailable(w)

Recheck(w) ==
  /\ At(w, "recheck")
  /\ Goto(w, IF MustNotSleep(w) THEN "cancelPark" ELSE "parkOn")
  /\ UNCHANGED <<buildVars, costVars, cursor, taskVars, rootVars, genVars, inFlight,
                 parked, controlVars, wakeCount, workerVars, claimVars>>

\* parkOn(): returns at once when the epoch moved since the sample.
ParkOn(w) ==
  /\ At(w, "parkOn")
  /\ Goto(w, IF fresh[w] THEN "asleep" ELSE "unpark")
  /\ UNCHANGED <<buildVars, costVars, cursor, taskVars, rootVars, genVars, inFlight,
                 parked, controlVars, wakeCount, workerVars, claimVars>>

\* The kernel may end a park by itself.
SpuriousWake(w) ==
  /\ At(w, "asleep")
  /\ Goto(w, "unpark")
  /\ UNCHANGED <<buildVars, costVars, cursor, taskVars, rootVars, genVars, inFlight,
                 parked, controlVars, wakeCount, workerVars, claimVars>>

\* Back to the top of the loop, remembering a real park.
Unpark(w) ==
  /\ pc[w] \in {"cancelPark", "unpark"}
  /\ parked' = parked - 1
  /\ woken' = [woken EXCEPT ![w] = @ \/ pc[w] = "unpark"]
  /\ Goto(w, "top")
  /\ UNCHANGED <<buildVars, costVars, cursor, taskVars, rootVars, genVars, inFlight,
                 controlVars, wakeCount, lastGen, fresh, claimVars>>

(***************************************************************************)
(* shutdown() and startup(): the control thread, while nothing renders     *)
(***************************************************************************)
Shutdown ==
  /\ control = "up" /\ At(0, "idle")
  /\ control' = "stopping"
  /\ running' = FALSE
  /\ UNCHANGED <<buildVars, costVars, cursor, taskVars, rootVars, genVars, inFlight,
                 parked, wakeCount, pc, workerVars, claimVars>>

\* The epoch bump that follows the store to running.
ShutdownBump ==
  /\ control = "stopping"
  /\ control' = "waking"
  /\ RaiseEpoch
  /\ UNCHANGED <<buildVars, costVars, cursor, taskVars, rootVars, genVars, inFlight,
                 parked, running, wakeCount, pc, lastGen, woken, claimVars>>

ShutdownWake ==
  /\ control = "waking"
  /\ control' = "joining"
  /\ WakeParked(NumWorkers, 0, pc[0])
  /\ UNCHANGED <<buildVars, costVars, cursor, taskVars, rootVars, genVars, inFlight,
                 parked, running, wakeCount, workerVars, claimVars>>

Join ==
  /\ control = "joining" /\ \A w \in Workers : pc[w] = "exited"
  /\ control' = "down"
  /\ UNCHANGED <<buildVars, costVars, cursor, taskVars, rootVars, genVars, inFlight,
                 parked, running, wakeCount, pc, workerVars, claimVars>>

\* startup(), or setWorkerCount(), which also marks the graph dirty.
Startup ==
  /\ control = "down" /\ At(0, "idle")
  /\ control' = "up"
  /\ running' = TRUE
  /\ dirty' \in {dirty, TRUE}
  /\ pc' = [t \in Threads |-> IF t = 0 THEN pc[0] ELSE "top"]
  /\ lastGen' = [w \in Workers |-> 0]
  /\ woken' = [w \in Workers |-> FALSE]
  /\ UNCHANGED <<buildVars, rebalance, costKnown, cursor, taskVars, rootVars, genVars,
                 inFlight, parked, wakeCount, fresh, claimVars>>

(***************************************************************************)
(* The specification                                                       *)
(***************************************************************************)

\* The constructor: workers started, graph not built yet.
Init ==
  /\ head = [l \in Threads |-> None]
  /\ tail = [l \in Threads |-> None]
  /\ cursor = [l \in Threads |-> None]
  /\ leafNext = [task \in Tasks |-> None]
  /\ assigned = [l \in Threads |-> 0]
  /\ added = 0 /\ buildUnmeasured = FALSE
  /\ dirty = TRUE /\ rebalance = FALSE /\ costKnown = FALSE
  /\ pending = [task \in Tasks |-> 0]
  /\ root = None /\ rootDone = FALSE
  /\ openGen = 0 /\ lastOpened = 0
  /\ inFlight = 0 /\ parked = 0
  /\ running = TRUE /\ control = "up" /\ wakeCount = 0
  /\ pc = [t \in Threads |-> IF t = 0 THEN "idle" ELSE "top"]
  /\ lastGen = [w \in Workers |-> 0]
  /\ woken = [w \in Workers |-> FALSE]
  /\ fresh = [w \in Workers |-> FALSE]
  /\ scan = [t \in Threads |-> 0]
  /\ loaded = [t \in Threads |-> None]
  /\ stack = [t \in Threads |-> <<>>]
  /\ runs = [task \in Tasks |-> 0]

BuildStep == BeginBuild \/ AddLeaf \/ EndBuild
StartStep == \E gate \in {"serial", "openNoWake", "openAndWake"} : StartBlock(gate)
BlockStep == OpenBlock \/ ReadParked \/ BumpEpoch \/ WakeWorkers \/ CloseBlock \/ FinishBlock

DrainStep(t) ==
  LoadCursor(t) \/ NextList(t) \/ DrainDone(t) \/ ClaimLeaf(t) \/ ClaimLost(t)
TaskStep(t) == Work(t) \/ Arrive(t) \/ ResetAndRun(t) \/ ReturnTask(t)
LoopStep(w) ==
  \/ TestRunning(w) \/ Announce(w) \/ ReadGen(w) \/ Leave(w)
  \/ Spin(w) \/ SampleEpoch(w) \/ PrePark(w) \/ Recheck(w)
  \/ ParkOn(w) \/ Unpark(w) \/ PassWakeOn(w) \/ PassWakeCall(w)
StopStep == ShutdownBump \/ ShutdownWake \/ Join

Next ==
  \/ BuildStep \/ StartStep \/ BlockStep \/ MarkDirty
  \/ Shutdown \/ StopStep \/ Startup
  \/ \E t \in Threads : DrainStep(t) \/ TaskStep(t)
  \/ \E w \in Workers : LoopStep(w) \/ SpuriousWake(w)

\* The operating system runs every thread that is not parked, and parks end by
\* themselves only so often.  Nothing makes the device ask for a block or the
\* control thread stop the workers.
Fairness ==
  /\ <>[][\A w \in Workers : ~SpuriousWake(w)]_vars
  /\ WF_vars(BuildStep) /\ WF_vars(BlockStep) /\ WF_vars(StopStep)
  /\ \A t \in Threads : WF_vars(DrainStep(t) \/ TaskStep(t))
  /\ \A w \in Workers : WF_vars(LoopStep(w))

Spec == Init /\ [][Next]_vars
FairSpec == Spec /\ Fairness

(***************************************************************************)
(* Properties                                                              *)
(***************************************************************************)

GraphTypes ==
  /\ head \in [Threads -> OrNone(Tasks)]
  /\ tail \in [Threads -> OrNone(Tasks)]
  /\ leafNext \in [Tasks -> OrNone(Tasks)]
  /\ assigned \in [Threads -> Nat]
  /\ added \in 0..LeafCount
  /\ buildUnmeasured \in BOOLEAN /\ rebalance \in BOOLEAN
  /\ dirty \in BOOLEAN /\ costKnown \in BOOLEAN

BlockTypes ==
  /\ cursor \in [Threads -> OrNone(Tasks)]
  /\ root \in OrNone(Tasks) /\ rootDone \in BOOLEAN
  /\ openGen \in 0..GenLimit /\ lastOpened \in 0..GenLimit
  /\ inFlight \in Int /\ parked \in Int /\ wakeCount \in Int
  /\ running \in BOOLEAN
  /\ control \in {"up", "stopping", "waking", "joining", "down"}

ThreadTypes ==
  /\ pc \in [Threads -> AudioLabels \union WorkerLabels]
  /\ pc[0] \in AudioLabels
  /\ \A w \in Workers : pc[w] \in WorkerLabels
  /\ lastGen \in [Workers -> 0..GenLimit]
  /\ woken \in [Workers -> BOOLEAN]
  /\ fresh \in [Workers -> BOOLEAN]

TaskTypes ==
  /\ scan \in [Threads -> 0..NumWorkers]
  /\ loaded \in [Threads -> OrNone(Tasks)]
  /\ pending \in [Tasks -> Int]
  /\ runs \in [Tasks -> Nat]
  /\ stack \in [Threads -> Seq(Frames)]

\* claim() never compares with nullptr.
ClaimTypes == \A t \in Threads : pc[t] = "cas" => loaded[t] # None

\* Every variable keeps its type.
TypeOK == GraphTypes /\ BlockTypes /\ ThreadTypes /\ TaskTypes /\ ClaimTypes


\* The tasks whose own work is under way on some thread.
Working ==
  {task \in Tasks : \E t \in Threads : \E i \in DOMAIN stack[t] :
     stack[t][i].task = task /\ stack[t][i].phase = "work"}
Started == {task \in Tasks : runs[task] > 0}
Finished == Started \ Working

\* However the threads race for the leaf lists and the counters, no task of a
\* block runs twice, a block that ends has run every one, and the lazily reset
\* counters are all rearmed by the time the next block may open, when nobody
\* holds a frame of the block that closed.
RunsOnce ==
  /\ \A task \in Tasks : runs[task] <= 1
  /\ pc[0] \in {"waitWorkers", "closeSerial"} => Started = Tasks
  /\ pc[0] = "idle" /\ ~dirty => pending = Dependencies
  /\ pc[0] = "idle" => \A t \in Threads : stack[t] = <<>>

\* While the rendering thread is between blocks, or rebuilding the lists, no
\* worker is where it could read a list or run a task.
NoWorkerInside ==
  pc[0] \in {"idle", "build"} => \A w \in Workers : pc[w] \notin DrainLabels

\* Workers announced in a block, and workers in their park.
AnnouncedLabels == DrainLabels \union {"readGen", "leave", "retreat"}
ParkedLabels == {"recheck", "cancelPark", "parkOn", "asleep", "unpark"}
Announced == {w \in Workers : pc[w] \in AnnouncedLabels}
ParkedWorkers == {w \in Workers : pc[w] \in ParkedLabels}

\* The two counters the rendering thread trusts, inFlight to close a block and
\* parked to choose a gate, count exactly the workers that are there, across
\* stops, restarts and every way out of a park.
CountsExact ==
  /\ inFlight = Cardinality(Announced)
  /\ parked = Cardinality(ParkedWorkers)

\* The strengthening that makes NoWorkerInside inductive: the rendering thread
\* is inside run() while a block is open, a worker drains only an open block or
\* one that waits for it, and a stopped scheduler has no worker.
OpenDuringRun ==
  openGen # 0 => pc[0] \in DrainLabels \union {"readParked", "bump", "wake", "waitRoot"}
DrainsOpenBlock ==
  \A w \in Workers : pc[w] \in DrainLabels => openGen # 0 \/ pc[0] = "waitWorkers"
DownExited == control = "down" => \A w \in Workers : pc[w] = "exited"
BlockInv == CountsExact /\ OpenDuringRun /\ DrainsOpenBlock /\ DownExited

\* wakeWorkers() and the park pair up: once a block that wants workers has
\* made its wake call, they do not all sleep through it.
NoLostWake ==
  wakeCount # 0 /\ openGen # 0 /\ pc[0] \in DrainLabels \union {"waitRoot"}
    => \E w \in Workers : pc[w] # "asleep" \/ lastGen[w] = openGen

\* A block that started ends: the rendering thread never waits forever for the
\* root or for a worker to leave.
BlockEnds == (pc[0] \notin {"idle", "build"}) ~> (pc[0] = "idle")

\* shutdown() always gets to join every worker.
ShutdownEnds == (control = "stopping") ~> (control = "down")

\* The block promised by RenderBlock that this scheduler renders.
Block == INSTANCE RenderBlock WITH
  Before <- [task \in Tasks |-> Prerequisites(task)],
  open <- pc[0] \notin {"idle", "build"},
  started <- Started,
  finished <- Finished

\* A task starts once in a block, after the work of every task it waits for has
\* ended, and a block closes after the work of the last: the safety part.
StepsOfBlock == Block!Init /\ [][Block!Next]_(Block!blockVars)

\* The scheduler renders blocks as RenderBlock promises, and ends each of them.
ImplementsBlock == Block!Spec

============================================================================
