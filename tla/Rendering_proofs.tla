-------------------------- MODULE Rendering_proofs --------------------------
(***************************************************************************)
(* What the audio thread does in one callback: the tree of channels it     *)
(* renders (ChannelTree), and the tasks the tree becomes (RenderScheduler).*)
(* The two specifications share nothing; the second part is about the      *)
(* first of them.                                                          *)
(***************************************************************************)
EXTENDS RenderScheduler, ChannelTree, FiniteSetTheorems, WellFoundedInduction, TLAPS

\* The number of leaves is one.
LEMMA LeafCountNat == LeafCount \in Nat
BY RenderAssumption DEF LeafCount

\* Adding to one entry of a function to Nat keeps it one.
LEMMA AddAt ==
  ASSUME NEW S, NEW f \in [S -> Nat], NEW x, NEW n \in Nat
  PROVE  [f EXCEPT ![x] = @ + n] \in [S -> Nat]
<1>1. ASSUME NEW y \in S PROVE [f EXCEPT ![x] = @ + n][y] \in Nat
  <2>1. CASE y = x
    BY <2>1
  <2>2. CASE y # x
    BY <2>2
  <2> QED BY <2>1, <2>2
<1> QED
  BY <1>1

\* Putting a value in one entry of a function.
LEMMA PutAt ==
  ASSUME NEW S, NEW T, NEW f \in [S -> T], NEW x, NEW v \in T
  PROVE  [f EXCEPT ![x] = v] \in [S -> T]
<1>1. ASSUME NEW y \in S PROVE [f EXCEPT ![x] = v][y] \in T
  <2>1. CASE y = x
    BY <2>1
  <2>2. CASE y # x
    BY <2>2
  <2> QED BY <2>1, <2>2
<1> QED
  BY <1>1

\* What is built keeps its types.
LEMMA GraphStep ==
  ASSUME TypeOK, [Next]_vars
  PROVE  GraphTypes'
<1> USE RenderAssumption DEF TypeOK, GraphTypes, OrNone
<1>1. CASE BeginBuild
  <2>1. /\ head' \in [Threads -> OrNone(Tasks)]
        /\ tail' \in [Threads -> OrNone(Tasks)]
    BY <1>1 DEF BeginBuild
  <2>2. assigned' \in [Threads -> Nat]
    BY <1>1 DEF BeginBuild
  <2>3. added' \in 0..LeafCount
    BY <1>1, LeafCountNat DEF BeginBuild
  <2> QED
    BY <1>1, <2>1, <2>2, <2>3 DEF BeginBuild, costVars
<1>2. CASE AddLeaf
  <2> PICK cost \in Nat :
        LET leaf == LeafOrder[added + 1]
            list == LeastAssigned
        IN  /\ assigned' = [assigned EXCEPT ![list] = @ + Weight(cost)]
            /\ buildUnmeasured' = (buildUnmeasured \/ cost = 0)
            /\ leafNext' = IF tail[list] = None
                           THEN [leafNext EXCEPT ![leaf] = None]
                           ELSE [leafNext EXCEPT ![leaf] = None, ![tail[list]] = leaf]
            /\ head' = IF tail[list] = None THEN [head EXCEPT ![list] = leaf] ELSE head
            /\ tail' = [tail EXCEPT ![list] = leaf]
    BY <1>2 DEF AddLeaf
  <2> DEFINE leaf == LeafOrder[added + 1]
  <2>1. leaf \in Tasks /\ added' \in 0..LeafCount
    BY <1>2, LeafCountNat DEF AddLeaf, LeafCount
  <2>2. head' \in [Threads -> OrNone(Tasks)] /\ tail' \in [Threads -> OrNone(Tasks)]
    BY <2>1
  <2>3. leafNext' \in [Tasks -> OrNone(Tasks)]
    BY <2>1
  <2>4. assigned' \in [Threads -> Nat]
    <3>1. Weight(cost) \in Nat
      BY DEF Weight
    <3> QED
      BY <3>1, AddAt
  <2>5. buildUnmeasured' \in BOOLEAN
    OBVIOUS
  <2> QED
    BY <1>2, <2>1, <2>2, <2>3, <2>4, <2>5 DEF AddLeaf, costVars
<1>3. CASE EndBuild
  BY <1>3 DEF EndBuild
<1>4. CASE MarkDirty
  BY <1>4 DEF MarkDirty, buildVars, listVars
<1>5. CASE FinishBlock
  BY <1>5 DEF FinishBlock, FinishSample, buildVars, listVars
<1>6. CASE Startup
  BY <1>6 DEF Startup, buildVars, listVars
<1>7. CASE UNCHANGED <<buildVars, costVars>>
  BY <1>7 DEF buildVars, costVars, listVars
<1> HIDE DEF TypeOK, GraphTypes, OrNone
<1>8. ASSUME NEW t \in Threads, DrainStep(t) \/ TaskStep(t)
      PROVE  UNCHANGED <<buildVars, costVars>>
  BY <1>8 DEF DrainStep, TaskStep, LoadCursor, NextList, DrainDone, ClaimLeaf, ClaimLost,
     Work, Arrive, ResetAndRun, ReturnTask
<1>9. ASSUME NEW w \in Workers, LoopStep(w) \/ SpuriousWake(w)
      PROVE  UNCHANGED <<buildVars, costVars>>
  BY <1>9 DEF LoopStep, TestRunning, Announce, ReadGen, Leave, Spin, SampleEpoch, PrePark,
     Recheck, ParkOn, Unpark, PassWakeOn, PassWakeCall, SpuriousWake
<1>10. CASE StartStep
  BY <1>7, <1>10 DEF StartStep, StartBlock
<1>11. CASE BlockStep
  BY <1>5, <1>7, <1>11 DEF BlockStep, OpenBlock, ReadParked, BumpEpoch, WakeWorkers, CloseBlock
<1>12. CASE Shutdown \/ StopStep
  BY <1>7, <1>12 DEF Shutdown, StopStep, ShutdownBump, ShutdownWake, Join
<1>13. CASE UNCHANGED vars
  BY <1>7, <1>13 DEF vars
<1> QED
  BY <1>1, <1>2, <1>3, <1>4, <1>6, <1>7, <1>8, <1>9, <1>10, <1>11, <1>12, <1>13
     DEF Next, BuildStep

\* The state of the block keeps its types.
LEMMA BlockTypesStep ==
  ASSUME TypeOK, [Next]_vars
  PROVE  BlockTypes'
<1> USE RenderAssumption DEF TypeOK, GraphTypes, BlockTypes, OrNone
<1>1. CASE BeginBuild
  BY <1>1 DEF BeginBuild, rootVars, genVars, controlVars
<1>2. ASSUME NEW gate, StartBlock(gate) PROVE BlockTypes'
  <2>1. wakeCount' \in Int
    BY <1>2, LeafCountNat DEF StartBlock, Lesser
  <2> QED
    BY <1>2, <2>1 DEF StartBlock, genVars, controlVars
<1>3. CASE OpenBlock
  BY <1>3 DEF OpenBlock, NextGen, rootVars, controlVars
<1>4. CASE ReadParked
  <2>1. wakeCount' \in Int
    BY <1>4 DEF ReadParked, Lesser
  <2> QED
    BY <1>4, <2>1 DEF ReadParked, rootVars, genVars, controlVars
<1>5. CASE CloseBlock
  BY <1>5 DEF CloseBlock, rootVars, controlVars
<1>6. CASE FinishBlock
  BY <1>6 DEF FinishBlock, genVars, controlVars
<1>7. CASE Shutdown \/ ShutdownBump \/ ShutdownWake \/ Join \/ Startup
  BY <1>7 DEF Shutdown, ShutdownBump, ShutdownWake, Join, Startup, rootVars, genVars
<1>8. ASSUME NEW t \in Threads, ClaimLeaf(t) PROVE BlockTypes'
  <2>1. leafNext[loaded[t]] \in OrNone(Tasks)
    BY <1>8 DEF ClaimLeaf, TaskTypes, ClaimTypes, At
  <2> QED
    BY <1>8, <2>1 DEF ClaimLeaf, rootVars, genVars, controlVars
<1>9. ASSUME NEW t \in Threads, ReturnTask(t) PROVE BlockTypes'
  BY <1>9 DEF ReturnTask, genVars, controlVars
<1>10. ASSUME NEW w \in Workers, Announce(w) \/ Leave(w) \/ PrePark(w) \/ Unpark(w)
       PROVE BlockTypes'
  <2>1. inFlight' \in Int /\ parked' \in Int
    BY <1>10 DEF Announce, Leave, PrePark, Unpark
  <2> QED
    BY <1>10, <2>1 DEF Announce, Leave, PrePark, Unpark, rootVars, genVars, controlVars
<1>11. CASE UNCHANGED <<cursor, rootVars, genVars, inFlight, parked, wakeCount, controlVars>>
  BY <1>11 DEF rootVars, genVars, controlVars
<1> QED
  BY <1>1, <1>2, <1>3, <1>4, <1>5, <1>6, <1>7, <1>8, <1>9, <1>10, <1>11 DEF Next,
     BuildStep, StartStep, BlockStep, StopStep, DrainStep, TaskStep, LoopStep, vars,
     AddLeaf, EndBuild, MarkDirty, BumpEpoch, WakeWorkers, LoadCursor, NextList,
     DrainDone, ClaimLost, Work, Arrive, ResetAndRun, TestRunning, ReadGen, Spin,
     SampleEpoch, Recheck, ParkOn, PassWakeOn, PassWakeCall, SpuriousWake

\* Moving one thread to one of its labels.
LEMMA GotoTypes ==
  ASSUME ThreadTypes, NEW t \in Threads, NEW label, Goto(t, label),
         IF t = 0 THEN label \in AudioLabels ELSE label \in WorkerLabels
  PROVE  /\ pc' \in [Threads -> AudioLabels \union WorkerLabels]
         /\ pc'[0] \in AudioLabels
         /\ \A w \in Workers : pc'[w] \in WorkerLabels
<1> 0 \in Threads /\ Workers \subseteq Threads /\ 0 \notin Workers
  BY RenderAssumption DEF Threads, Workers
<1> QED
  BY DEF ThreadTypes, Goto

\* Waking sleepers while the caller moves on.
LEMMA WakeTypes ==
  ASSUME ThreadTypes, NEW count, NEW t \in Threads, NEW label, WakeParked(count, t, label),
         IF t = 0 THEN label \in AudioLabels ELSE label \in WorkerLabels
  PROVE  /\ pc' \in [Threads -> AudioLabels \union WorkerLabels]
         /\ pc'[0] \in AudioLabels
         /\ \A w \in Workers : pc'[w] \in WorkerLabels
<1>1. 0 \in Threads /\ Workers \subseteq Threads /\ 0 \notin Workers
      /\ Threads = Workers \union {0}
  BY RenderAssumption DEF Threads, Workers
<1>2. PICK S \in SUBSET Asleep :
        pc' = [u \in Threads |-> IF u \in S THEN "unpark"
                                  ELSE IF u = t THEN label ELSE pc[u]]
  BY DEF WakeParked
<1>3. Asleep \subseteq Workers /\ "unpark" \in WorkerLabels
  BY DEF Asleep, WorkerLabels
<1>4. \A w \in Workers : pc'[w] \in WorkerLabels
  BY <1>1, <1>2, <1>3 DEF ThreadTypes
<1>5. pc'[0] \in AudioLabels
  BY <1>1, <1>2, <1>3 DEF ThreadTypes
<1> QED
  BY <1>1, <1>2, <1>4, <1>5

\* Threads stay at labels of their own.
LEMMA ThreadStep ==
  ASSUME TypeOK, [Next]_vars
  PROVE  ThreadTypes'
<1> USE RenderAssumption DEF TypeOK, BlockTypes
<1>a. 0 \in Threads /\ Workers \subseteq Threads /\ 0 \notin Workers
      /\ Threads = Workers \union {0}
  BY DEF Threads, Workers
<1>b. DrainLabels \subseteq AudioLabels \intersect WorkerLabels
  BY DEF AudioLabels, WorkerLabels
<1> DEFINE PcTypes == /\ pc' \in [Threads -> AudioLabels \union WorkerLabels]
                      /\ pc'[0] \in AudioLabels
                      /\ \A w \in Workers : pc'[w] \in WorkerLabels
<1>1. ASSUME NEW label \in AudioLabels, Goto(0, label) PROVE PcTypes
  BY <1>1, <1>a, GotoTypes
<1>2. ASSUME NEW w \in Workers, NEW label \in WorkerLabels, Goto(w, label) PROVE PcTypes
  BY <1>2, <1>a, GotoTypes
<1>3. ASSUME NEW t \in Threads, NEW label \in DrainLabels, Goto(t, label) PROVE PcTypes
  BY <1>3, <1>b, GotoTypes
<1>4. ASSUME UNCHANGED pc PROVE PcTypes
  BY <1>4 DEF ThreadTypes
<1> HIDE DEF PcTypes
<1>5. ASSUME UNCHANGED workerVars, PcTypes PROVE ThreadTypes'
  BY <1>5 DEF workerVars, ThreadTypes, PcTypes
<1>6. ASSUME lastGen' \in [Workers -> 0..GenLimit], woken' \in [Workers -> BOOLEAN],
             fresh' \in [Workers -> BOOLEAN], PcTypes
      PROVE ThreadTypes'
  BY <1>6 DEF ThreadTypes, PcTypes
<1>7. CASE BuildStep \/ StartStep \/ MarkDirty
  BY <1>7, <1>1, <1>4, <1>5 DEF BuildStep, StartStep, BeginBuild, AddLeaf, EndBuild,
     MarkDirty, StartBlock, AudioLabels, DrainLabels
<1>8. CASE OpenBlock \/ ReadParked \/ CloseBlock \/ FinishBlock
  BY <1>8, <1>1, <1>5 DEF OpenBlock, ReadParked, CloseBlock, FinishBlock, AudioLabels,
     DrainLabels
<1>9. CASE BumpEpoch
  BY <1>9, <1>1, <1>6 DEF BumpEpoch, RaiseEpoch, AudioLabels, ThreadTypes
<1>10. CASE WakeWorkers
  <2>1. PcTypes
    BY <1>10, <1>a, WakeTypes DEF WakeWorkers, AudioLabels, DrainLabels, PcTypes
  <2> QED
    BY <1>10, <2>1, <1>5 DEF WakeWorkers
<1>11. CASE Shutdown \/ Join
  BY <1>11, <1>4, <1>5 DEF Shutdown, Join
<1>12. CASE ShutdownBump
  BY <1>12, <1>4, <1>6 DEF ShutdownBump, RaiseEpoch, ThreadTypes
<1>13. CASE ShutdownWake
  <2>1. PcTypes
    BY <1>13, <1>a, WakeTypes DEF ShutdownWake, ThreadTypes, PcTypes
  <2> QED
    BY <1>13, <2>1, <1>5 DEF ShutdownWake
<1>14. CASE Startup
  <2>1. PcTypes
    BY <1>14, <1>a DEF Startup, ThreadTypes, WorkerLabels, PcTypes
  <2>2. lastGen' \in [Workers -> 0..GenLimit] /\ woken' \in [Workers -> BOOLEAN]
    BY <1>14 DEF Startup
  <2> QED
    BY <1>14, <2>1, <2>2, <1>6 DEF Startup, ThreadTypes
<1>15. ASSUME NEW t \in Threads, DrainStep(t) PROVE ThreadTypes'
  <2>1. CASE LoadCursor(t) \/ NextList(t) \/ ClaimLeaf(t) \/ ClaimLost(t)
    BY <2>1, <1>3, <1>4, <1>5 DEF LoadCursor, NextList, ClaimLeaf, ClaimLost, DrainLabels
  <2>2. CASE DrainDone(t)
    <3>1. CASE t = 0
      BY <2>2, <3>1, <1>1, <1>5 DEF DrainDone, AudioLabels
    <3>2. CASE t # 0
      BY <2>2, <3>2, <1>a, <1>2, <1>5 DEF DrainDone, WorkerLabels
    <3> QED BY <3>1, <3>2
  <2> QED
    BY <1>15, <2>1, <2>2 DEF DrainStep
<1>16. ASSUME NEW t \in Threads, TaskStep(t) PROVE ThreadTypes'
  BY <1>16, <1>3, <1>4, <1>5 DEF TaskStep, Work, Arrive, ResetAndRun, ReturnTask, DrainLabels
<1>17. ASSUME NEW w \in Workers, LoopStep(w) \/ SpuriousWake(w) PROVE ThreadTypes'
  <2>1. CASE TestRunning(w) \/ Announce(w) \/ Spin(w) \/ PrePark(w) \/ Recheck(w)
             \/ ParkOn(w) \/ SpuriousWake(w)
    BY <2>1, <1>2, <1>5 DEF TestRunning, Announce, Spin, PrePark, Recheck, ParkOn,
       SpuriousWake, WorkerLabels
  <2>2. CASE ReadGen(w)
    <3>1. PcTypes
      BY <2>2, <1>2 DEF ReadGen, WorkerLabels, DrainLabels
    <3>2. lastGen' \in [Workers -> 0..GenLimit]
      BY <2>2 DEF ReadGen, ThreadTypes
    <3> QED
      BY <2>2, <3>1, <3>2, <1>6 DEF ReadGen, ThreadTypes
  <2>3. CASE Leave(w) \/ Unpark(w)
    <3>1. PcTypes
      BY <2>3, <1>2 DEF Leave, Unpark, WorkerLabels
    <3>2. woken' \in [Workers -> BOOLEAN]
      BY <2>3 DEF Leave, Unpark, ThreadTypes
    <3> QED
      BY <2>3, <3>1, <3>2, <1>6 DEF Leave, Unpark, ThreadTypes
  <2>4. CASE SampleEpoch(w)
    BY <2>4, <1>2, <1>6 DEF SampleEpoch, WorkerLabels, ThreadTypes
  <2>5. CASE PassWakeOn(w)
    <3>1. PcTypes
      BY <2>5, <1>2 DEF PassWakeOn, WorkerLabels, DrainLabels
    <3>2. woken' \in [Workers -> BOOLEAN] /\ fresh' \in [Workers -> BOOLEAN]
      BY <2>5 DEF PassWakeOn, RaiseEpoch, ThreadTypes
    <3> QED
      BY <2>5, <3>1, <3>2, <1>6 DEF PassWakeOn, ThreadTypes
  <2>6. CASE PassWakeCall(w)
    <3>1. PcTypes
      BY <2>6, <1>a, WakeTypes DEF PassWakeCall, WorkerLabels, DrainLabels, PcTypes
    <3> QED
      BY <2>6, <3>1, <1>5 DEF PassWakeCall
  <2> QED
    BY <1>17, <2>1, <2>2, <2>3, <2>4, <2>5, <2>6 DEF LoopStep
<1>18. CASE UNCHANGED vars
  BY <1>18, <1>4, <1>5 DEF vars
<1> QED
  BY <1>7, <1>8, <1>9, <1>10, <1>11, <1>12, <1>13, <1>14, <1>15, <1>16, <1>17, <1>18
     DEF Next, BlockStep, StopStep

\* The list a thread looks at is one of them.
LEMMA ListOfThread ==
  ASSUME TaskTypes, NEW t \in Threads
  PROVE  ListOf(t) \in Threads
<1>1. t + scan[t] \in Nat /\ NumWorkers + 1 \in Nat \ {0}
  <2>1. t \in 0..NumWorkers /\ scan[t] \in 0..NumWorkers
    BY DEF TaskTypes, Threads
  <2> QED
    BY <2>1, RenderAssumption
<1>2. \A n \in Nat, d \in Nat \ {0} : n % d \in 0..(d - 1)
  OBVIOUS
<1>3. (t + scan[t]) % (NumWorkers + 1) \in 0..((NumWorkers + 1) - 1)
  BY <1>1, <1>2
<1> QED
  BY <1>3, RenderAssumption DEF ListOf, Threads

\* The stack of a thread that is inside a task.
LEMMA TopTypes ==
  ASSUME TaskTypes, NEW t \in Threads, Inside(t)
  PROVE  /\ Top(t) \in Frames
         /\ Tail(stack[t]) \in Seq(Frames)
BY DEF TaskTypes, Inside, Top

\* A frame put on a stack.
LEMMA PushTypes ==
  ASSUME NEW rest \in Seq(Frames), NEW f \in Frames, NEW g \in Frames
  PROVE  <<f>> \o rest \in Seq(Frames) /\ <<f, g>> \o rest \in Seq(Frames)
OBVIOUS

\* A new frame is one.
LEMMA FrameType ==
  ASSUME NEW task \in Tasks, NEW phase \in Phases
  PROVE  Frame(task, phase) \in Frames
BY DEF Frame, Frames

\* A drain starts at the thread's own list.
LEMMA ScanStart ==
  ASSUME NEW f \in [Threads -> 0..NumWorkers], NEW t
  PROVE  [f EXCEPT ![t] = 0] \in [Threads -> 0..NumWorkers]
<1>1. 0 \in 0..NumWorkers
  BY RenderAssumption
<1> QED
  BY <1>1, PutAt

\* Subtracting one from an entry.
LEMMA SubtractAt ==
  ASSUME NEW S, NEW f \in [S -> Int], NEW x \in S
  PROVE  [f EXCEPT ![x] = @ - 1] \in [S -> Int]
OBVIOUS

\* A frame past one more arrival is one.
LEMMA NextFrameType ==
  ASSUME NEW f \in Frames
  PROVE  [f EXCEPT !.next = @ + 1] \in Frames
BY DEF Frames

\* The stacks, counters and runs keep their types.
LEMMA TaskTypesStep ==
  ASSUME TypeOK, [Next]_vars
  PROVE  TaskTypes'
<1> USE RenderAssumption DEF TypeOK
<1>1. CASE AddLeaf
  <2>1. pending' \in [Tasks -> Int]
    <3>1. pending' = [pending EXCEPT ![LeafOrder[added + 1]] = 0]
      BY <1>1 DEF AddLeaf
    <3>2. pending \in [Tasks -> Int]
      BY DEF TaskTypes
    <3> QED
      BY <3>1, <3>2, PutAt
  <2> QED
    BY <1>1, <2>1 DEF AddLeaf, TaskTypes, claimVars
<1>2. CASE EndBuild
  BY <1>2 DEF EndBuild, TaskTypes, claimVars
<1>3. ASSUME NEW gate, StartBlock(gate) PROVE TaskTypes'
  <2>1. scan' \in [Threads -> 0..NumWorkers]
    <3>1. scan' = [scan EXCEPT ![0] = 0] /\ scan \in [Threads -> 0..NumWorkers]
      BY <1>3 DEF StartBlock, TaskTypes
    <3> QED
      BY <3>1, ScanStart
  <2>2. runs' \in [Tasks -> Nat]
    BY <1>3 DEF StartBlock
  <2> QED
    BY <1>3, <2>1, <2>2 DEF StartBlock, TaskTypes
<1>4. ASSUME NEW t \in Threads, LoadCursor(t) \/ ClaimLost(t) PROVE TaskTypes'
  BY <1>4, ListOfThread DEF LoadCursor, ClaimLost, TaskTypes, BlockTypes, taskVars
<1>5. ASSUME NEW t \in Threads, NextList(t) PROVE TaskTypes'
  BY <1>5 DEF NextList, TaskTypes, taskVars
<1>6. ASSUME NEW t \in Threads, ClaimLeaf(t) PROVE TaskTypes'
  <2>1. loaded[t] \in Tasks
    BY <1>6 DEF ClaimLeaf, ClaimTypes, TaskTypes, At, OrNone
  <2>2. runs' \in [Tasks -> Nat]
    BY <1>6, <2>1 DEF ClaimLeaf, TaskTypes
  <2>3. stack' \in [Threads -> Seq(Frames)]
    <3>1. <<Frame(loaded[t], "work")>> \in Seq(Frames)
      BY <2>1, FrameType DEF Phases
    <3> QED
      BY <1>6, <3>1 DEF ClaimLeaf, TaskTypes
  <2> QED
    BY <1>6, <2>2, <2>3 DEF ClaimLeaf, TaskTypes, OrNone
<1>7. ASSUME NEW t \in Threads, Work(t) PROVE TaskTypes'
  <2>1. [Top(t) EXCEPT !.phase = "arrive"] \in Frames
    BY <1>7, TopTypes DEF Work, Frames, Phases
  <2>2. stack' \in [Threads -> Seq(Frames)]
    BY <1>7, <2>1, TopTypes, PushTypes DEF Work, SetTop, TaskTypes
  <2> QED
    BY <1>7, <2>2 DEF Work, TaskTypes, claimVars
<1>8. ASSUME NEW t \in Threads, Arrive(t) PROVE TaskTypes'
  <2> DEFINE target == Targets(Top(t))[Top(t).next]
             caller == [Top(t) EXCEPT !.next = @ + 1]
  <2>1. Top(t) \in Frames /\ Tail(stack[t]) \in Seq(Frames)
    BY <1>8, TopTypes DEF Arrive
  <2>2. caller \in Frames
    BY <2>1, NextFrameType
  <2>3. target \in Tasks
    <3>1. Top(t).task \in Tasks /\ Top(t).next \in Nat \ {0}
      BY <2>1 DEF Frames
    <3>2. Arrivals[Top(t).task] \in Seq(Tasks) /\ Top(t).next <= Len(Arrivals[Top(t).task])
      BY <1>8, <3>1 DEF Arrive, Targets
    <3> QED
      BY <3>1, <3>2 DEF Targets
  <2>4. Frame(target, "reset") \in Frames
    BY <2>3, FrameType DEF Phases
  <2>5. stack' = [stack EXCEPT ![t] =
                    (IF LastArrival(target) THEN <<Frame(target, "reset"), caller>>
                                            ELSE <<caller>>) \o Tail(@)]
    BY <1>8 DEF Arrive
  <2> HIDE DEF target, caller
  <2>6. (IF LastArrival(target) THEN <<Frame(target, "reset"), caller>>
                                ELSE <<caller>>) \o Tail(stack[t]) \in Seq(Frames)
    BY <2>1, <2>2, <2>4, PushTypes
  <2>7. stack' \in [Threads -> Seq(Frames)]
    BY <2>5, <2>6 DEF TaskTypes
  <2>8. pending' \in [Tasks -> Int]
    <3>1. pending' = [pending EXCEPT ![target] = @ - 1]
      BY <1>8 DEF Arrive, target
    <3>2. pending \in [Tasks -> Int]
      BY DEF TaskTypes
    <3> QED
      BY <2>3, <3>1, <3>2, SubtractAt
  <2> QED
    BY <1>8, <2>7, <2>8 DEF Arrive, TaskTypes, claimVars
<1>9. ASSUME NEW t \in Threads, ResetAndRun(t) PROVE TaskTypes'
  <2>1. Top(t) \in Frames /\ Tail(stack[t]) \in Seq(Frames)
    BY <1>9, TopTypes DEF ResetAndRun
  <2>2. Top(t).task \in Tasks
    BY <2>1 DEF Frames
  <2>3. Frame(Top(t).task, "work") \in Frames
    BY <2>2, FrameType DEF Phases
  <2>4. stack' \in [Threads -> Seq(Frames)]
    BY <1>9, <2>1, <2>3, PushTypes DEF ResetAndRun, SetTop, TaskTypes
  <2>5. pending' \in [Tasks -> Int] /\ runs' \in [Tasks -> Nat]
    <3> DEFINE task == Top(t).task
    <3>1. pending' = [pending EXCEPT ![task] = Dependencies[task]]
          /\ runs' = [runs EXCEPT ![task] = @ + 1]
      BY <1>9 DEF ResetAndRun, Rearm
    <3>2. Dependencies[task] \in Int
      BY <2>2
    <3>3. pending \in [Tasks -> Int] /\ runs \in [Tasks -> Nat]
      BY DEF TaskTypes
    <3> HIDE DEF task
    <3> QED
      BY <3>1, <3>2, <3>3, PutAt, AddAt
  <2> QED
    BY <1>9, <2>4, <2>5 DEF ResetAndRun, TaskTypes, claimVars
<1>10. ASSUME NEW t \in Threads, ReturnTask(t) PROVE TaskTypes'
  <2>1. stack' \in [Threads -> Seq(Frames)]
    BY <1>10, TopTypes DEF ReturnTask, TaskTypes
  <2> QED
    BY <1>10, <2>1 DEF ReturnTask, TaskTypes, claimVars
<1>11. ASSUME NEW w \in Workers, ReadGen(w) PROVE TaskTypes'
  <2>1. scan' \in [Threads -> 0..NumWorkers]
    <3>1. (scan' = scan \/ scan' = [scan EXCEPT ![w] = 0])
          /\ scan \in [Threads -> 0..NumWorkers]
      <4>1. scan \in [Threads -> 0..NumWorkers]
        BY DEF TaskTypes
      <4>2. scan' = scan \/ scan' = [scan EXCEPT ![w] = 0]
        BY <1>11 DEF ReadGen
      <4> QED
        BY <4>1, <4>2
    <3>2. CASE scan' = scan
      BY <3>1, <3>2
    <3>3. CASE scan' = [scan EXCEPT ![w] = 0]
      BY <3>1, <3>3, ScanStart
    <3> QED
      BY <3>1, <3>2, <3>3
  <2> QED
    BY <1>11, <2>1 DEF ReadGen, TaskTypes, taskVars
<1>12. CASE UNCHANGED <<claimVars, taskVars>>
  BY <1>12 DEF claimVars, taskVars, TaskTypes
<1> QED
  BY <1>1, <1>2, <1>3, <1>4, <1>5, <1>6, <1>7, <1>8, <1>9, <1>10, <1>11, <1>12 DEF Next,
     BuildStep, StartStep, BlockStep, StopStep, DrainStep, TaskStep, LoopStep, vars,
     BeginBuild, MarkDirty, OpenBlock, ReadParked, BumpEpoch, WakeWorkers, CloseBlock,
     FinishBlock, Shutdown, ShutdownBump, ShutdownWake, Join, Startup, DrainDone,
     TestRunning, Announce, Leave, Spin, SampleEpoch, PrePark, Recheck, ParkOn, Unpark,
     PassWakeOn, PassWakeCall, SpuriousWake

\* Only claim() brings a thread to its compare-exchange.
LEMMA ClaimTypesStep ==
  ASSUME TypeOK, [Next]_vars
  PROVE  ClaimTypes'
<1> USE DEF TypeOK, ClaimTypes
<1>1. ASSUME UNCHANGED loaded, NEW t \in Threads, NEW label, label # "cas", Goto(t, label)
      PROVE ClaimTypes'
  BY <1>1 DEF Goto, ThreadTypes
<1>2. ASSUME UNCHANGED loaded, UNCHANGED pc PROVE ClaimTypes'
  BY <1>2
<1>3. ASSUME UNCHANGED loaded, NEW count, NEW t \in Threads, NEW label,
             label = pc[t] \/ label # "cas", WakeParked(count, t, label)
      PROVE ClaimTypes'
  BY <1>3 DEF WakeParked, ThreadTypes
<1>a. 0 \in Threads /\ Workers \subseteq Threads
  BY RenderAssumption DEF Threads, Workers
<1>4. CASE BuildStep \/ StartStep \/ MarkDirty
  BY <1>4, <1>a, <1>1, <1>2 DEF BuildStep, StartStep, MarkDirty, BeginBuild, AddLeaf,
     EndBuild, StartBlock, claimVars
<1>5. CASE OpenBlock \/ ReadParked \/ BumpEpoch \/ CloseBlock \/ FinishBlock
  BY <1>5, <1>a, <1>1 DEF OpenBlock, ReadParked, BumpEpoch, CloseBlock, FinishBlock, claimVars
<1>6. CASE WakeWorkers
  BY <1>6, <1>a, <1>3 DEF WakeWorkers, claimVars
<1>7. CASE Shutdown \/ ShutdownBump \/ Join
  BY <1>7, <1>2 DEF Shutdown, ShutdownBump, Join, claimVars
<1>8. CASE ShutdownWake
  BY <1>8, <1>a, <1>3 DEF ShutdownWake, claimVars
<1>9. CASE Startup
  BY <1>9 DEF Startup, claimVars
<1>10. ASSUME NEW t \in Threads, LoadCursor(t) PROVE ClaimTypes'
  BY <1>10 DEF LoadCursor, Goto, ThreadTypes, TaskTypes
<1>11. ASSUME NEW t \in Threads, NextList(t) \/ DrainDone(t) PROVE ClaimTypes'
  BY <1>11, <1>1, <1>2 DEF NextList, DrainDone, claimVars
<1>12. ASSUME NEW t \in Threads, ClaimLeaf(t) PROVE ClaimTypes'
  BY <1>12 DEF ClaimLeaf, Goto, ThreadTypes, TaskTypes
<1>13. ASSUME NEW t \in Threads, ClaimLost(t) PROVE ClaimTypes'
  BY <1>13 DEF ClaimLost, Goto, ThreadTypes, TaskTypes
<1>14. ASSUME NEW t \in Threads, TaskStep(t) PROVE ClaimTypes'
  BY <1>14, <1>1, <1>2 DEF TaskStep, Work, Arrive, ResetAndRun, ReturnTask, claimVars
<1>15. ASSUME NEW w \in Workers, PassWakeCall(w) PROVE ClaimTypes'
  BY <1>15, <1>a, <1>3 DEF PassWakeCall, claimVars
<1>16. ASSUME NEW w \in Workers, PassWakeOn(w) \/ ReadGen(w) PROVE ClaimTypes'
  BY <1>16, <1>a, <1>1 DEF PassWakeOn, ReadGen, claimVars
<1>17. ASSUME NEW w \in Workers,
              \/ TestRunning(w) \/ Announce(w) \/ Leave(w) \/ Spin(w) \/ SampleEpoch(w)
              \/ PrePark(w) \/ Recheck(w) \/ ParkOn(w) \/ Unpark(w) \/ SpuriousWake(w)
       PROVE ClaimTypes'
  BY <1>17, <1>a, <1>1 DEF TestRunning, Announce, Leave, Spin, SampleEpoch, PrePark,
     Recheck, ParkOn, Unpark, SpuriousWake, claimVars
<1>18. CASE UNCHANGED vars
  BY <1>18, <1>2 DEF vars, claimVars
<1> QED
  BY <1>4, <1>5, <1>6, <1>7, <1>8, <1>9, <1>10, <1>11, <1>12, <1>13, <1>14, <1>15, <1>16,
     <1>17, <1>18 DEF Next, BlockStep, StopStep, DrainStep, LoopStep

\* Every variable of the scheduler keeps its type in every reachable state,
\* for every number of workers and every graph.
THEOREM TypeCorrect == Spec => []TypeOK
<1>1. Init => TypeOK
  <2> SUFFICES ASSUME Init PROVE TypeOK
    OBVIOUS
  <2> USE RenderAssumption DEF Init, OrNone
  <2>1. GraphTypes
    <3>1. /\ head \in [Threads -> OrNone(Tasks)] /\ tail \in [Threads -> OrNone(Tasks)]
          /\ leafNext \in [Tasks -> OrNone(Tasks)]
      OBVIOUS
    <3>2. assigned \in [Threads -> Nat]
      OBVIOUS
    <3>3. added \in 0..LeafCount
      BY LeafCountNat
    <3> QED
      BY <3>1, <3>2, <3>3 DEF GraphTypes
  <2>2. BlockTypes
    <3>1. openGen \in 0..GenLimit /\ lastOpened \in 0..GenLimit
      OBVIOUS
    <3>2. cursor \in [Threads -> OrNone(Tasks)]
      OBVIOUS
    <3>3. inFlight \in Int /\ parked \in Int /\ wakeCount \in Int
      OBVIOUS
    <3>4. rootDone \in BOOLEAN /\ running \in BOOLEAN
      BY Zenon
    <3>5. root \in OrNone(Tasks) /\ control \in {"up", "stopping", "waking", "joining", "down"}
      BY Zenon
    <3> HIDE DEF Init, OrNone
    <3> QED
      BY <3>1, <3>2, <3>3, <3>4, <3>5 DEF BlockTypes
  <2>3. ThreadTypes
    BY DEF ThreadTypes, AudioLabels, WorkerLabels, Threads, Workers
  <2>4. TaskTypes
    BY DEF TaskTypes
  <2>5. ClaimTypes
    BY DEF ClaimTypes
  <2> QED
    BY <2>1, <2>2, <2>3, <2>4, <2>5 DEF TypeOK
<1>2. TypeOK /\ [Next]_vars => TypeOK'
  BY GraphStep, BlockTypesStep, ThreadStep, TaskTypesStep, ClaimTypesStep DEF TypeOK
<1> QED
  BY <1>1, <1>2, PTL DEF Spec

\* The sets that are counted are finite.
LEMMA CountedFinite == IsFiniteSet(Announced) /\ IsFiniteSet(ParkedWorkers)
<1>1. IsFiniteSet(Workers)
  BY RenderAssumption, FS_Interval DEF Workers
<1>2. Announced \in SUBSET Workers /\ ParkedWorkers \in SUBSET Workers
  BY DEF Announced, ParkedWorkers
<1> QED
  BY <1>1, <1>2, FS_Subset

\* A move that enters and leaves neither set of labels.
LEMMA MoveKeepsCounted ==
  ASSUME ThreadTypes, NEW t \in Threads, NEW label, Goto(t, label),
         t \in Workers => /\ pc[t] \in AnnouncedLabels <=> label \in AnnouncedLabels
                          /\ pc[t] \in ParkedLabels <=> label \in ParkedLabels
  PROVE  Announced' = Announced /\ ParkedWorkers' = ParkedWorkers
<1>1. Workers \subseteq Threads
  BY RenderAssumption DEF Threads, Workers
<1>2. \A w \in Workers : pc'[w] = IF w = t THEN label ELSE pc[w]
  BY <1>1 DEF Goto, ThreadTypes
<1> QED
  BY <1>2 DEF Announced, ParkedWorkers

\* Waking sleepers changes neither set.
LEMMA WakeKeepsCounted ==
  ASSUME ThreadTypes, NEW count, NEW t \in Threads, NEW label, WakeParked(count, t, label),
         t \in Workers => /\ pc[t] \in DrainLabels /\ label \in DrainLabels
  PROVE  Announced' = Announced /\ ParkedWorkers' = ParkedWorkers
<1>1. Workers \subseteq Threads
  BY RenderAssumption DEF Threads, Workers
<1>2. PICK S \in SUBSET Asleep :
        pc' = [u \in Threads |-> IF u \in S THEN "unpark"
                                  ELSE IF u = t THEN label ELSE pc[u]]
  BY DEF WakeParked
<1>3. ASSUME NEW w \in Workers
      PROVE  /\ pc'[w] \in AnnouncedLabels <=> pc[w] \in AnnouncedLabels
             /\ pc'[w] \in ParkedLabels <=> pc[w] \in ParkedLabels
  <2>1. CASE w \in S
    BY <1>1, <1>2, <2>1 DEF Asleep, AnnouncedLabels, ParkedLabels, DrainLabels
  <2>2. CASE w \notin S /\ w = t
    BY <1>1, <1>2, <2>2 DEF AnnouncedLabels, ParkedLabels, DrainLabels
  <2>3. CASE w \notin S /\ w # t
    BY <1>1, <1>2, <2>3
  <2> QED
    BY <2>1, <2>2, <2>3
<1> QED
  BY <1>3 DEF Announced, ParkedWorkers

\* Entering or leaving a set of labels changes its counter by one.
LEMMA MoveCounts ==
  ASSUME ThreadTypes, NEW w \in Workers, NEW label, Goto(w, label)
  PROVE  /\ pc[w] \notin AnnouncedLabels /\ label \in AnnouncedLabels
              => Cardinality(Announced') = Cardinality(Announced) + 1
         /\ pc[w] \in AnnouncedLabels /\ label \notin AnnouncedLabels
              => Cardinality(Announced') = Cardinality(Announced) - 1
         /\ pc[w] \notin ParkedLabels /\ label \in ParkedLabels
              => Cardinality(ParkedWorkers') = Cardinality(ParkedWorkers) + 1
         /\ pc[w] \in ParkedLabels /\ label \notin ParkedLabels
              => Cardinality(ParkedWorkers') = Cardinality(ParkedWorkers) - 1
         /\ (pc[w] \in AnnouncedLabels <=> label \in AnnouncedLabels) => Announced' = Announced
         /\ (pc[w] \in ParkedLabels <=> label \in ParkedLabels)
              => ParkedWorkers' = ParkedWorkers
<1>1. \A u \in Workers : pc'[u] = IF u = w THEN label ELSE pc[u]
  BY RenderAssumption DEF Goto, ThreadTypes, Threads, Workers
<1>2. /\ pc[w] \notin AnnouncedLabels /\ label \in AnnouncedLabels
           => Announced' = Announced \union {w} /\ w \notin Announced
      /\ pc[w] \in AnnouncedLabels /\ label \notin AnnouncedLabels
           => Announced' = Announced \ {w} /\ w \in Announced
      /\ (pc[w] \in AnnouncedLabels <=> label \in AnnouncedLabels) => Announced' = Announced
  BY <1>1 DEF Announced
<1>3. /\ pc[w] \notin ParkedLabels /\ label \in ParkedLabels
           => ParkedWorkers' = ParkedWorkers \union {w} /\ w \notin ParkedWorkers
      /\ pc[w] \in ParkedLabels /\ label \notin ParkedLabels
           => ParkedWorkers' = ParkedWorkers \ {w} /\ w \in ParkedWorkers
      /\ (pc[w] \in ParkedLabels <=> label \in ParkedLabels)
           => ParkedWorkers' = ParkedWorkers
  BY <1>1 DEF ParkedWorkers
<1> QED
  BY <1>2, <1>3, CountedFinite, FS_AddElement, FS_RemoveElement

\* The two counters stay exact.
LEMMA CountsStep ==
  ASSUME TypeOK, BlockInv, [Next]_vars
  PROVE  CountsExact'
<1> USE DEF TypeOK, BlockTypes, BlockInv
<1>a. 0 \in Threads /\ Workers \subseteq Threads /\ 0 \notin Workers
  BY RenderAssumption DEF Threads, Workers
<1>1. ASSUME UNCHANGED <<inFlight, parked>>, Announced' = Announced,
             ParkedWorkers' = ParkedWorkers
      PROVE CountsExact'
  BY <1>1 DEF CountsExact
<1>2. ASSUME UNCHANGED <<inFlight, parked>>, NEW t \in Threads, NEW label, Goto(t, label),
             t \in Workers => /\ pc[t] \in AnnouncedLabels <=> label \in AnnouncedLabels
                              /\ pc[t] \in ParkedLabels <=> label \in ParkedLabels
      PROVE CountsExact'
  BY <1>1, <1>2, MoveKeepsCounted
<1>3. ASSUME UNCHANGED <<inFlight, parked>>, UNCHANGED pc PROVE CountsExact'
  BY <1>1, <1>3 DEF Announced, ParkedWorkers
<1>4. ASSUME UNCHANGED <<inFlight, parked>>, NEW count, NEW t \in Threads, NEW label,
             WakeParked(count, t, label),
             t \in Workers => /\ pc[t] \in DrainLabels /\ label \in DrainLabels
      PROVE CountsExact'
  BY <1>1, <1>4, WakeKeepsCounted
<1>5. CASE BuildStep \/ StartStep \/ MarkDirty
  BY <1>5, <1>a, <1>2, <1>3 DEF BuildStep, StartStep, MarkDirty, BeginBuild, AddLeaf,
     EndBuild, StartBlock
<1>6. CASE OpenBlock \/ ReadParked \/ BumpEpoch \/ CloseBlock \/ FinishBlock
  BY <1>6, <1>a, <1>2 DEF OpenBlock, ReadParked, BumpEpoch, CloseBlock, FinishBlock
<1>7. CASE WakeWorkers
  BY <1>7, <1>a, <1>4 DEF WakeWorkers
<1>8. CASE Shutdown \/ ShutdownBump \/ Join
  BY <1>8, <1>3 DEF Shutdown, ShutdownBump, Join
<1>9. CASE ShutdownWake
  BY <1>9, <1>a, <1>4 DEF ShutdownWake
<1>10. CASE Startup
  <2>1. \A w \in Workers : pc[w] = "exited" /\ pc'[w] = "top"
    BY <1>10, <1>a DEF Startup, DownExited
  <2>2. Announced' = Announced /\ ParkedWorkers' = ParkedWorkers
    BY <2>1 DEF Announced, ParkedWorkers, AnnouncedLabels, ParkedLabels, DrainLabels
  <2> QED
    BY <1>10, <2>2, <1>1 DEF Startup
<1>11. ASSUME NEW t \in Threads, DrainStep(t) \/ TaskStep(t) PROVE CountsExact'
  <2>1. CASE NextList(t) \/ Work(t) \/ Arrive(t) \/ ResetAndRun(t)
    BY <2>1, <1>3 DEF NextList, Work, Arrive, ResetAndRun
  <2>2. ASSUME pc[t] \in DrainLabels, NEW label \in DrainLabels, Goto(t, label),
               UNCHANGED <<inFlight, parked>>
        PROVE  CountsExact'
    BY <2>2, <1>2 DEF AnnouncedLabels, ParkedLabels, DrainLabels
  <2>3. CASE LoadCursor(t) \/ ClaimLeaf(t) \/ ClaimLost(t) \/ ReturnTask(t)
    BY <2>3, <2>2 DEF LoadCursor, ClaimLeaf, ClaimLost, ReturnTask, Inside, At, DrainLabels
  <2>4. CASE DrainDone(t)
    <3>1. CASE t = 0
      BY <2>4, <3>1, <1>a, <1>2 DEF DrainDone
    <3>2. CASE t # 0
      BY <2>4, <3>2, <1>2 DEF DrainDone, At, AnnouncedLabels, ParkedLabels, DrainLabels
    <3> QED BY <3>1, <3>2
  <2> QED
    BY <1>11, <2>1, <2>3, <2>4 DEF DrainStep, TaskStep
<1>12. ASSUME NEW w \in Workers, PassWakeCall(w) PROVE CountsExact'
  BY <1>12, <1>a, <1>4 DEF PassWakeCall, At, DrainLabels
<1>13. ASSUME NEW w \in Workers,
              \/ TestRunning(w) \/ ReadGen(w) \/ Spin(w) \/ SampleEpoch(w) \/ Recheck(w)
              \/ ParkOn(w) \/ PassWakeOn(w) \/ SpuriousWake(w)
       PROVE CountsExact'
  BY <1>13, <1>a, <1>2 DEF TestRunning, ReadGen, Spin, SampleEpoch, Recheck, ParkOn,
     PassWakeOn, SpuriousWake, At, AnnouncedLabels, ParkedLabels, DrainLabels
<1>14. ASSUME NEW w \in Workers, Announce(w) \/ Leave(w) PROVE CountsExact'
  <2>1. CASE Announce(w)
    <3>1. /\ Cardinality(Announced') = Cardinality(Announced) + 1
          /\ ParkedWorkers' = ParkedWorkers
      BY <2>1, MoveCounts DEF Announce, At, AnnouncedLabels, ParkedLabels, DrainLabels
    <3> QED
      BY <2>1, <3>1 DEF Announce, CountsExact
  <2>2. CASE Leave(w)
    <3>1. /\ Cardinality(Announced') = Cardinality(Announced) - 1
          /\ ParkedWorkers' = ParkedWorkers
      BY <2>2, MoveCounts DEF Leave, AnnouncedLabels, ParkedLabels, DrainLabels
    <3> QED
      BY <2>2, <3>1 DEF Leave, CountsExact
  <2> QED
    BY <1>14, <2>1, <2>2
<1>15. ASSUME NEW w \in Workers, PrePark(w) \/ Unpark(w) PROVE CountsExact'
  <2>1. CASE PrePark(w)
    <3>1. /\ Cardinality(ParkedWorkers') = Cardinality(ParkedWorkers) + 1
          /\ Announced' = Announced
      BY <2>1, MoveCounts DEF PrePark, At, AnnouncedLabels, ParkedLabels, DrainLabels
    <3> QED
      BY <2>1, <3>1 DEF PrePark, CountsExact
  <2>2. CASE Unpark(w)
    <3>1. /\ Cardinality(ParkedWorkers') = Cardinality(ParkedWorkers) - 1
          /\ Announced' = Announced
      BY <2>2, MoveCounts DEF Unpark, AnnouncedLabels, ParkedLabels, DrainLabels
    <3> QED
      BY <2>2, <3>1 DEF Unpark, CountsExact
  <2> QED
    BY <1>15, <2>1, <2>2
<1>16. CASE UNCHANGED vars
  BY <1>16, <1>3 DEF vars
<1> QED
  BY <1>5, <1>6, <1>7, <1>8, <1>9, <1>10, <1>11, <1>12, <1>13, <1>14, <1>15, <1>16
     DEF Next, BlockStep, StopStep, LoopStep

\* The other three parts only look at where each thread is.
LEMMA PlacesStep ==
  ASSUME TypeOK, BlockInv, [Next]_vars
  PROVE  OpenDuringRun' /\ DrainsOpenBlock' /\ DownExited'
<1> DEFINE Places == OpenDuringRun /\ DrainsOpenBlock /\ DownExited
<1> SUFFICES Places'
  OBVIOUS
<1>a. 0 \in Threads /\ Workers \subseteq Threads /\ 0 \notin Workers
  BY RenderAssumption DEF Threads, Workers
<1>b. pc \in [Threads -> AudioLabels \union WorkerLabels]
  BY DEF TypeOK, ThreadTypes
<1>c. Places
  BY DEF BlockInv
<1> USE <1>a, <1>b, <1>c DEF OpenDuringRun, DrainsOpenBlock, DownExited
<1>1. CASE BuildStep \/ MarkDirty
  BY <1>1 DEF BuildStep, BeginBuild, AddLeaf, EndBuild, MarkDirty, Goto, At, genVars,
     controlVars, DrainLabels
<1>2. CASE StartStep
  BY <1>2 DEF StartStep, StartBlock, Goto, At, genVars, controlVars, DrainLabels
<1>3. CASE OpenBlock
  BY <1>3 DEF OpenBlock, Goto, At, controlVars, DrainLabels
<1>4. CASE ReadParked \/ BumpEpoch
  BY <1>4 DEF ReadParked, BumpEpoch, Goto, At, genVars, controlVars, DrainLabels
<1>5. CASE WakeWorkers
  BY <1>5 DEF WakeWorkers, WakeParked, Asleep, At, genVars, controlVars, DrainLabels
<1>6. CASE CloseBlock
  BY <1>6 DEF CloseBlock, Goto, At, controlVars, DrainLabels
<1>7. CASE FinishBlock
  <2>1. \A w \in Workers : pc[w] \notin DrainLabels
    <3>1. CASE At(0, "waitWorkers") /\ WorkersLeft
      <4>1. Announced = {}
        BY <3>1, CountedFinite, FS_EmptySet DEF WorkersLeft, BlockInv, CountsExact
      <4> QED
        BY <4>1 DEF Announced, AnnouncedLabels
    <3>2. CASE At(0, "closeSerial")
      BY <3>2 DEF At, DrainLabels
    <3> QED
      BY <1>7, <3>1, <3>2 DEF FinishBlock
  <2> QED
    BY <1>7, <2>1 DEF FinishBlock, Goto, At, genVars, controlVars, DrainLabels
<1>8. CASE Shutdown \/ ShutdownBump
  BY <1>8 DEF Shutdown, ShutdownBump, genVars
<1>9. CASE ShutdownWake
  BY <1>9 DEF ShutdownWake, WakeParked, Asleep, genVars, DrainLabels
<1>10. CASE Join \/ Startup
  BY <1>10 DEF Join, Startup, genVars, DrainLabels, At
<1>11. ASSUME NEW t \in Threads, DrainStep(t) \/ TaskStep(t) PROVE Places'
  <2>1. CASE NextList(t) \/ Work(t) \/ Arrive(t) \/ ResetAndRun(t)
    BY <2>1 DEF NextList, Work, Arrive, ResetAndRun, genVars, controlVars
  <2>2. CASE DrainDone(t)
    BY <2>2 DEF DrainDone, Goto, At, genVars, controlVars, DrainLabels
  <2>3. CASE LoadCursor(t) \/ ClaimLeaf(t) \/ ClaimLost(t) \/ ReturnTask(t)
    <3>1. pc[t] \in DrainLabels /\ \E label \in DrainLabels : Goto(t, label)
      BY <2>3 DEF LoadCursor, ClaimLeaf, ClaimLost, ReturnTask, Inside, At, DrainLabels
    <3>2. UNCHANGED <<openGen, control>>
      BY <2>3 DEF LoadCursor, ClaimLeaf, ClaimLost, ReturnTask, genVars, controlVars
    <3> QED
      BY <3>1, <3>2 DEF Goto, DrainLabels
  <2> QED
    BY <1>11, <2>1, <2>2, <2>3 DEF DrainStep, TaskStep
<1>12. ASSUME NEW w \in Workers, LoopStep(w) \/ SpuriousWake(w) PROVE Places'
  <2>1. CASE ReadGen(w)
    BY <2>1 DEF ReadGen, BlockAvailable, Goto, At, genVars, controlVars, DrainLabels
  <2>2. CASE PassWakeCall(w)
    BY <2>2 DEF PassWakeCall, WakeParked, Asleep, At, genVars, controlVars, DrainLabels
  <2>3. CASE PassWakeOn(w) \/ Leave(w) \/ Unpark(w)
    BY <2>3 DEF PassWakeOn, Leave, Unpark, Goto, At, genVars, controlVars, DrainLabels
  <2>4. CASE TestRunning(w) \/ Announce(w) \/ Spin(w) \/ SampleEpoch(w) \/ PrePark(w)
             \/ Recheck(w) \/ ParkOn(w) \/ SpuriousWake(w)
    BY <2>4 DEF TestRunning, Announce, Spin, SampleEpoch, PrePark, Recheck, ParkOn,
       SpuriousWake, Goto, At, genVars, controlVars, DrainLabels
  <2> QED
    BY <1>12, <2>1, <2>2, <2>3, <2>4 DEF LoopStep
<1>13. CASE UNCHANGED vars
  BY <1>13 DEF vars, genVars, controlVars
<1> QED
  BY <1>1, <1>2, <1>3, <1>4, <1>5, <1>6, <1>7, <1>8, <1>9, <1>10, <1>11, <1>12, <1>13
     DEF Next, BlockStep, StopStep

\* inFlight and parked count exactly the workers announced in a block and in
\* their park, and no worker drains a block the rendering thread has closed.
THEOREM BlockInvariant == Spec => []BlockInv
<1>1. Init => BlockInv
  <2> SUFFICES ASSUME Init PROVE BlockInv
    OBVIOUS
  <2>1. \A w \in Workers : pc[w] = "top"
    BY RenderAssumption DEF Init, Threads, Workers
  <2>2. Announced = {} /\ ParkedWorkers = {}
    BY <2>1 DEF Announced, ParkedWorkers, AnnouncedLabels, ParkedLabels, DrainLabels
  <2>3. CountsExact
    BY <2>2, FS_EmptySet DEF CountsExact, Init
  <2> QED
    BY <2>1, <2>3 DEF BlockInv, OpenDuringRun, DrainsOpenBlock, DownExited, Init, DrainLabels
<1>2. TypeOK /\ BlockInv /\ [Next]_vars => BlockInv'
  BY CountsStep, PlacesStep DEF BlockInv
<1> QED
  BY <1>1, <1>2, TypeCorrect, PTL DEF Spec

\* Whatever the number of workers, the rendering thread rebuilds the leaf
\* lists and resets their cursors only while no worker is inside a block.
THEOREM NobodyInside == Spec => []NoWorkerInside
<1>1. BlockInv => NoWorkerInside
  BY DEF BlockInv, OpenDuringRun, DrainsOpenBlock, NoWorkerInside, DrainLabels
<1> QED
  BY <1>1, BlockInvariant, PTL

(***************************************************************************)
(* NoLostWake                                                              *)
(***************************************************************************)

\* A worker on its way into the park has joined this block or will not sleep;
\* one asleep has joined this block.
WillNotSleep(w) == pc[w] = "parkOn" => lastGen[w] = openGen \/ ~fresh[w]
SleepsRightly(w) == pc[w] = "asleep" => lastGen[w] = openGen

\* The number of workers wanted is of workers there are, and while the wake call
\* is to come it is not 0 and the block is open.
GateInv ==
  /\ wakeCount \in Nat /\ (wakeCount # 0 => NumWorkers # 0)
  /\ pc[0] \in {"readParked", "bump", "wake"} => wakeCount # 0 /\ openGen # 0

\* Once the epoch is raised, nobody who has not joined the block goes to sleep;
\* after the wake call one worker at least is up, or has joined.
WakeInv ==
  /\ pc[0] = "wake" => \A w \in Workers : WillNotSleep(w)
  /\ wakeCount # 0 /\ openGen # 0 /\ pc[0] \in DrainLabels \union {"waitRoot"}
       => \E w \in Workers : WillNotSleep(w) /\ SleepsRightly(w)

\* A worker keeps what it has of the two as long as the block stays open.
LEMMA ParkStep ==
  ASSUME TypeOK, [Next]_vars, NEW v \in Workers, openGen # 0, openGen' = openGen,
         pc[0] # "idle", WillNotSleep(v)
  PROVE  WillNotSleep(v)' /\ (SleepsRightly(v) => SleepsRightly(v)')
<1> DEFINE Goal == WillNotSleep(v)' /\ (SleepsRightly(v) => SleepsRightly(v)')
<1> SUFFICES Goal
  OBVIOUS
<1> HIDE DEF Goal
<1>a. /\ pc \in [Threads -> AudioLabels \union WorkerLabels]
      /\ lastGen \in [Workers -> 0..GenLimit] /\ fresh \in [Workers -> BOOLEAN]
  BY DEF TypeOK, ThreadTypes
<1>b. v \in Threads /\ v # 0 /\ 0 \in Threads /\ Workers \subseteq Threads
  BY RenderAssumption DEF Threads, Workers
<1>1. ASSUME pc'[v] = pc[v], UNCHANGED lastGen, fresh'[v] = fresh[v] \/ fresh'[v] = FALSE
      PROVE  Goal
  BY <1>1 DEF Goal, WillNotSleep, SleepsRightly
<1>2. ASSUME pc'[v] \notin {"parkOn", "asleep"} PROVE Goal
  BY <1>2 DEF Goal, WillNotSleep, SleepsRightly
<1>3. ASSUME NEW t \in Threads, NEW label, Goto(t, label), label \notin {"parkOn", "asleep"},
             UNCHANGED <<lastGen, fresh>>
      PROVE  Goal
  <2>1. CASE t = v
    BY <1>2, <1>3, <1>a, <1>b, <2>1 DEF Goto
  <2>2. CASE t # v
    BY <1>1, <1>3, <1>a, <1>b, <2>2 DEF Goto
  <2> QED
    BY <2>1, <2>2
<1>4. ASSUME NEW t \in Threads, NEW label, NEW count, WakeParked(count, t, label), t # v,
             UNCHANGED <<lastGen, fresh>>
      PROVE  Goal
  <2>1. pc'[v] = pc[v] \/ pc'[v] = "unpark"
    BY <1>4, <1>b DEF WakeParked
  <2> QED
    BY <1>1, <1>2, <1>4, <2>1
<1>5. CASE BuildStep
  <2>1. CASE BeginBuild
    BY <1>3, <1>b, <2>1 DEF BeginBuild, workerVars
  <2>2. CASE AddLeaf
    <3>1. UNCHANGED <<pc, workerVars>>
      BY <2>2 DEF AddLeaf
    <3> QED
      BY <1>1, <3>1 DEF workerVars
  <2>3. CASE EndBuild
    <3>1. Goto(0, "idle") /\ UNCHANGED workerVars
      BY <2>3 DEF EndBuild
    <3> QED
      BY <1>3, <1>b, <3>1 DEF workerVars
  <2> QED
    BY <1>5, <2>1, <2>2, <2>3 DEF BuildStep
<1>6. CASE StartStep \/ Shutdown \/ Startup
  BY <1>6, <1>1 DEF StartStep, StartBlock, Shutdown, Startup, At
<1>7. CASE BlockStep
  <2>1. CASE BumpEpoch
    <3>1. pc'[v] = pc[v] /\ UNCHANGED lastGen /\ fresh'[v] = FALSE
      BY <2>1, <1>a, <1>b DEF BumpEpoch, RaiseEpoch, Goto
    <3> QED
      BY <1>1, <3>1
  <2>2. CASE WakeWorkers
    BY <1>4, <1>b, <2>2 DEF WakeWorkers, workerVars
  <2>3. CASE OpenBlock \/ ReadParked \/ CloseBlock \/ FinishBlock
    BY <1>3, <1>b, <2>3 DEF OpenBlock, ReadParked, CloseBlock, FinishBlock, workerVars
  <2> QED
    BY <1>7, <2>1, <2>2, <2>3 DEF BlockStep
<1>8. CASE MarkDirty
  BY <1>1, <1>8 DEF MarkDirty, workerVars
<1>9. CASE StopStep
  <2>1. CASE ShutdownBump
    BY <1>1, <1>a, <2>1 DEF ShutdownBump, RaiseEpoch
  <2>2. CASE ShutdownWake
    BY <1>4, <1>b, <2>2 DEF ShutdownWake, workerVars
  <2>3. CASE Join
    BY <1>1, <2>3 DEF Join, workerVars
  <2> QED
    BY <1>9, <2>1, <2>2, <2>3 DEF StopStep
<1>10. ASSUME NEW t \in Threads, DrainStep(t) PROVE Goal
  <2>1. CASE NextList(t)
    BY <1>1, <2>1 DEF NextList, workerVars
  <2>2. CASE LoadCursor(t) \/ DrainDone(t)
    BY <1>3, <2>2 DEF LoadCursor, DrainDone, workerVars
  <2>3. CASE ClaimLeaf(t) \/ ClaimLost(t)
    BY <1>3, <2>3 DEF ClaimLeaf, ClaimLost, workerVars
  <2> QED
    BY <1>10, <2>1, <2>2, <2>3 DEF DrainStep
<1>11. ASSUME NEW t \in Threads, TaskStep(t) PROVE Goal
  <2>1. CASE Work(t) \/ Arrive(t) \/ ResetAndRun(t)
    BY <1>1, <2>1 DEF Work, Arrive, ResetAndRun, workerVars
  <2>2. CASE ReturnTask(t)
    BY <1>3, <2>2 DEF ReturnTask, workerVars
  <2> QED
    BY <1>11, <2>1, <2>2 DEF TaskStep
<1>12. ASSUME NEW w \in Workers, LoopStep(w) \/ SpuriousWake(w) PROVE Goal
  <2>1. CASE TestRunning(w) \/ Announce(w) \/ Leave(w) \/ Spin(w) \/ PrePark(w) \/ Unpark(w)
    BY <1>3, <1>b, <2>1 DEF TestRunning, Announce, Leave, Spin, PrePark, Unpark, workerVars
  <2>2. CASE ReadGen(w)
    <3>1. \/ pc'[v] = pc[v] /\ lastGen'[v] = lastGen[v] /\ fresh' = fresh
          \/ pc'[v] \notin {"parkOn", "asleep"}
      BY <1>a, <1>b, <2>2 DEF ReadGen, Goto
    <3> QED
      BY <1>2, <3>1 DEF Goal, WillNotSleep, SleepsRightly
  <2>3. CASE SampleEpoch(w)
    <3>1. \/ pc'[v] = pc[v] /\ lastGen' = lastGen /\ fresh'[v] = fresh[v]
          \/ pc'[v] \notin {"parkOn", "asleep"}
      BY <1>a, <1>b, <2>3 DEF SampleEpoch, Goto
    <3> QED
      BY <1>1, <1>2, <3>1
  <2>4. CASE Recheck(w)
    <3>1. UNCHANGED <<lastGen, fresh>>
      BY <2>4 DEF Recheck, workerVars
    <3>2. CASE w # v
      BY <1>1, <1>a, <1>b, <2>4, <3>1, <3>2 DEF Recheck, Goto
    <3>3. CASE w = v /\ MustNotSleep(v)
      BY <1>2, <1>a, <1>b, <2>4, <3>3 DEF Recheck, Goto
    <3>4. CASE w = v /\ ~MustNotSleep(v)
      <4>1. lastGen[v] = openGen
        BY <3>4 DEF MustNotSleep, BlockAvailable
      <4> QED
        BY <3>1, <4>1 DEF Goal, WillNotSleep, SleepsRightly
    <3> QED
      BY <3>2, <3>3, <3>4
  <2>5. CASE ParkOn(w)
    <3>1. UNCHANGED <<lastGen, fresh>>
      BY <2>5 DEF ParkOn, workerVars
    <3>2. CASE w # v
      BY <1>1, <1>a, <1>b, <2>5, <3>1, <3>2 DEF ParkOn, Goto
    <3>3. CASE w = v
      <4>1. pc[v] = "parkOn" /\ pc'[v] = IF fresh[v] THEN "asleep" ELSE "unpark"
        BY <1>a, <1>b, <2>5, <3>3 DEF ParkOn, Goto, At
      <4> QED
        BY <3>1, <4>1 DEF Goal, WillNotSleep, SleepsRightly
    <3> QED
      BY <3>2, <3>3
  <2>6. CASE PassWakeOn(w)
    <3>1. \/ pc'[v] = pc[v] /\ lastGen' = lastGen /\ (fresh'[v] = fresh[v] \/ fresh'[v] = FALSE)
          \/ pc'[v] \notin {"parkOn", "asleep"}
      BY <1>a, <1>b, <2>6 DEF PassWakeOn, RaiseEpoch, Goto
    <3> QED
      BY <1>1, <1>2, <3>1
  <2>7. CASE PassWakeCall(w)
    <3>1. UNCHANGED <<lastGen, fresh>> /\ (pc'[v] = pc[v] \/ pc'[v] \in {"unpark", "run"})
      BY <1>b, <2>7 DEF PassWakeCall, WakeParked, workerVars
    <3> QED
      BY <1>1, <1>2, <3>1
  <2>8. CASE SpuriousWake(w)
    BY <1>3, <1>b, <2>8 DEF SpuriousWake, workerVars
  <2> QED
    BY <1>12, <2>1, <2>2, <2>3, <2>4, <2>5, <2>6, <2>7, <2>8 DEF LoopStep
<1>13. CASE UNCHANGED vars
  BY <1>1, <1>13 DEF vars, workerVars
<1> QED
  BY <1>5, <1>6, <1>7, <1>8, <1>9, <1>10, <1>11, <1>12, <1>13 DEF Next

\* Where the rendering thread can come from, in a block.
LEMMA BlockMoves ==
  ASSUME TypeOK, [Next]_vars,
         pc'[0] \in {"readParked", "bump", "wake", "waitRoot"} \union DrainLabels
  PROVE  \/ UNCHANGED <<openGen, wakeCount>> /\ pc'[0] = pc[0]
         \/ StartStep /\ wakeCount' = 0 /\ pc'[0] = "load"
         \/ OpenBlock \/ ReadParked \/ BumpEpoch \/ WakeWorkers
         \/ /\ UNCHANGED <<openGen, wakeCount>>
            /\ pc[0] \in DrainLabels /\ pc'[0] \in DrainLabels \union {"waitRoot"}
<1> DEFINE Stays == UNCHANGED <<openGen, wakeCount>> /\ pc'[0] = pc[0]
           Goes == UNCHANGED <<openGen, wakeCount>> /\ pc[0] \in DrainLabels
                     /\ pc'[0] \in DrainLabels \union {"waitRoot"}
<1>a. pc \in [Threads -> AudioLabels \union WorkerLabels]
  BY DEF TypeOK, ThreadTypes
<1>b. 0 \in Threads /\ 0 \notin Workers /\ Workers \subseteq Threads
  BY RenderAssumption DEF Threads, Workers
<1>c. pc'[0] \notin {"idle", "build", "open", "waitWorkers", "closeSerial"}
  BY DEF DrainLabels
<1>1. ASSUME NEW w \in Workers, NEW label, Goto(w, label), UNCHANGED <<openGen, wakeCount>>
      PROVE  Stays
  BY <1>1, <1>a, <1>b DEF Goto
<1>2. ASSUME NEW w \in Workers, LoopStep(w) \/ SpuriousWake(w) PROVE Stays
  <2>1. CASE PassWakeCall(w)
    <3>1. pc'[0] \in {pc[0], "unpark"}
      BY <1>b, <2>1 DEF PassWakeCall, WakeParked
    <3>2. UNCHANGED <<openGen, wakeCount>>
      BY <2>1 DEF PassWakeCall, genVars
    <3> QED
      BY <1>c, <3>1, <3>2 DEF DrainLabels
  <2>2. CASE TestRunning(w) \/ Announce(w) \/ ReadGen(w) \/ Leave(w) \/ Spin(w) \/ SampleEpoch(w)
    BY <1>1, <2>2 DEF TestRunning, Announce, ReadGen, Leave, Spin, SampleEpoch, genVars
  <2>3. CASE PrePark(w) \/ Recheck(w) \/ ParkOn(w) \/ Unpark(w) \/ PassWakeOn(w) \/ SpuriousWake(w)
    BY <1>1, <2>3 DEF PrePark, Recheck, ParkOn, Unpark, PassWakeOn, SpuriousWake, genVars
  <2> QED
    BY <1>2, <2>1, <2>2, <2>3 DEF LoopStep
<1>3. ASSUME NEW t \in Threads, DrainStep(t) \/ TaskStep(t) PROVE Stays \/ Goes
  <2>1. UNCHANGED <<openGen, wakeCount>>
    BY <1>3 DEF DrainStep, LoadCursor, NextList, DrainDone, ClaimLeaf, ClaimLost, TaskStep, Work,
       Arrive, ResetAndRun, ReturnTask, genVars
  <2>2. UNCHANGED pc \/ \E label : Goto(t, label)
    BY <1>3 DEF DrainStep, LoadCursor, NextList, DrainDone, ClaimLeaf, ClaimLost, TaskStep, Work,
       Arrive, ResetAndRun, ReturnTask
  <2>3. pc[t] \in DrainLabels
    BY <1>3 DEF DrainStep, LoadCursor, NextList, DrainDone, ClaimLeaf, ClaimLost, TaskStep, Work,
       Arrive, ResetAndRun, ReturnTask, Inside, At, DrainLabels
  <2>4. CASE t # 0
    BY <1>a, <1>b, <2>1, <2>2, <2>4 DEF Goto
  <2>5. CASE t = 0 /\ UNCHANGED pc
    BY <2>1, <2>5
  <2>6. CASE t = 0 /\ ~UNCHANGED pc
    <3>1. \E label \in DrainLabels \union {"waitRoot", "closeSerial"} : Goto(0, label)
      BY <1>3, <1>b, <2>6 DEF DrainStep, LoadCursor, NextList, DrainDone, ClaimLeaf, ClaimLost,
         TaskStep, Work, Arrive, ResetAndRun, ReturnTask, DrainLabels
    <3>2. pc'[0] \in DrainLabels \union {"waitRoot"}
      BY <1>a, <1>b, <1>c, <3>1 DEF Goto
    <3> QED
      BY <2>1, <2>3, <2>6, <3>2
  <2> QED
    BY <2>4, <2>5, <2>6
<1>4. CASE BuildStep
  <2>1. UNCHANGED pc \/ pc'[0] \in {"idle", "build"}
    BY <1>4, <1>a, <1>b DEF BuildStep, BeginBuild, AddLeaf, EndBuild, Goto
  <2>2. UNCHANGED <<openGen, wakeCount>>
    BY <1>4 DEF BuildStep, BeginBuild, AddLeaf, EndBuild, genVars
  <2> QED
    BY <1>c, <2>1, <2>2
<1>5. CASE StartStep
  <2>1. PICK gate \in {"serial", "openNoWake", "openAndWake"} : StartBlock(gate)
    BY <1>5 DEF StartStep
  <2>2. gate = "serial"
    BY <1>a, <1>b, <1>c, <2>1 DEF StartBlock, Goto
  <2> QED
    BY <1>5, <1>a, <1>b, <2>1, <2>2 DEF StartBlock, Goto
<1>6. CASE CloseBlock \/ FinishBlock
  BY <1>6, <1>a, <1>b, <1>c DEF CloseBlock, FinishBlock, Goto
<1>7. CASE MarkDirty \/ Shutdown \/ ShutdownBump \/ Join
  BY <1>7 DEF MarkDirty, Shutdown, ShutdownBump, Join, genVars
<1>8. CASE ShutdownWake
  <2>1. pc'[0] \in {pc[0], "unpark"}
    BY <1>8, <1>b DEF ShutdownWake, WakeParked
  <2> QED
    BY <1>8, <1>c, <2>1 DEF ShutdownWake, genVars, DrainLabels
<1>9. CASE Startup
  BY <1>9, <1>b DEF Startup, genVars
<1>10. CASE UNCHANGED vars
  BY <1>10 DEF vars, genVars
<1> QED
  BY <1>2, <1>3, <1>4, <1>5, <1>6, <1>7, <1>8, <1>9, <1>10 DEF Next, BlockStep, StopStep

\* The steps that set the number.
LEMMA WakeCountMoves ==
  ASSUME [Next]_vars
  PROVE  UNCHANGED wakeCount \/ StartStep \/ ReadParked \/ FinishBlock
<1>1. ASSUME NEW t \in Threads, DrainStep(t) \/ TaskStep(t) PROVE UNCHANGED wakeCount
  BY <1>1 DEF DrainStep, LoadCursor, NextList, DrainDone, ClaimLeaf, ClaimLost, TaskStep, Work,
     Arrive, ResetAndRun, ReturnTask
<1>2. ASSUME NEW w \in Workers, LoopStep(w) \/ SpuriousWake(w) PROVE UNCHANGED wakeCount
  BY <1>2 DEF LoopStep, TestRunning, Announce, ReadGen, Leave, Spin, SampleEpoch, PrePark, Recheck,
     ParkOn, Unpark, PassWakeOn, PassWakeCall, SpuriousWake
<1>3. CASE BuildStep \/ MarkDirty \/ Shutdown \/ StopStep \/ Startup
  BY <1>3 DEF BuildStep, BeginBuild, AddLeaf, EndBuild, MarkDirty, Shutdown, StopStep,
     ShutdownBump, ShutdownWake, Join, Startup
<1>4. CASE OpenBlock \/ BumpEpoch \/ WakeWorkers \/ CloseBlock
  BY <1>4 DEF OpenBlock, BumpEpoch, WakeWorkers, CloseBlock
<1>5. CASE UNCHANGED vars
  BY <1>5 DEF vars
<1> QED
  BY <1>1, <1>2, <1>3, <1>4, <1>5 DEF Next, BlockStep

\* The gate and the wake call keep it.
LEMMA GateStep ==
  ASSUME TypeOK, BlockInv, GateInv, [Next]_vars
  PROVE  GateInv'
<1>a. parked \in Nat
  BY CountedFinite, FS_CardinalityType DEF BlockInv, CountsExact
<1>b. pc \in [Threads -> AudioLabels \union WorkerLabels] /\ 0 \in Threads
  BY RenderAssumption DEF TypeOK, ThreadTypes, Threads
<1>1. wakeCount' \in Nat /\ (wakeCount' # 0 => NumWorkers # 0)
  <2>1. CASE StartStep
    BY <2>1, LeafCountNat, RenderAssumption DEF StartStep, StartBlock, Gates, Lesser
  <2>2. CASE ReadParked
    <3>1. pc[0] = "readParked"
      BY <2>2 DEF ReadParked, At
    <3>2. NumWorkers # 0
      BY <3>1 DEF GateInv
    <3>3. wakeCount' \in {wakeCount, Lesser(wakeCount, parked), NumWorkers, 1}
      BY <2>2 DEF ReadParked
    <3> QED
      BY <1>a, <3>2, <3>3, RenderAssumption DEF GateInv, Lesser
  <2>3. CASE FinishBlock
    BY <2>3 DEF FinishBlock
  <2>4. CASE UNCHANGED wakeCount
    BY <2>4 DEF GateInv
  <2> QED
    BY <2>1, <2>2, <2>3, <2>4, WakeCountMoves
<1>2. ASSUME pc'[0] \in {"readParked", "bump", "wake"} PROVE wakeCount' # 0 /\ openGen' # 0
  <2>0. pc'[0] \notin DrainLabels \union {"waitRoot"}
    BY <1>2 DEF DrainLabels
  <2>1. CASE UNCHANGED <<openGen, wakeCount>> /\ pc'[0] = pc[0]
    BY <1>2, <2>1 DEF GateInv
  <2>2. CASE OpenBlock
    <3>1. openGen' # 0
      BY <2>2, RenderAssumption DEF OpenBlock, NextGen, TypeOK, BlockTypes
    <3>2. wakeCount' = wakeCount /\ wakeCount # 0
      BY <1>2, <1>b, <2>2 DEF OpenBlock, Goto
    <3> QED
      BY <3>1, <3>2
  <2>3. CASE ReadParked
    <3>1. parked # 0
      BY <1>2, <1>b, <2>3 DEF ReadParked, Goto
    <3>2. pc[0] = "readParked" /\ UNCHANGED openGen
      BY <2>3 DEF ReadParked, At, genVars
    <3>3. wakeCount \in Nat \ {0} /\ openGen # 0 /\ NumWorkers # 0
      BY <3>2 DEF GateInv
    <3>4. wakeCount' \in {Lesser(wakeCount, parked), NumWorkers, 1}
      BY <2>3, <3>1 DEF ReadParked
    <3> QED
      BY <1>a, <3>1, <3>2, <3>3, <3>4 DEF Lesser
  <2>4. CASE BumpEpoch
    BY <2>4 DEF BumpEpoch, GateInv, At, genVars
  <2>5. CASE WakeWorkers
    BY <1>2, <1>b, <2>5 DEF WakeWorkers, WakeParked, Asleep, At, GateInv
  <2> QED
    BY <1>2, <2>0, <2>1, <2>2, <2>3, <2>4, <2>5, BlockMoves
<1> QED
  BY <1>1, <1>2 DEF GateInv

\* What one worker has, it keeps while the rendering thread is in the block.
LEMMA OneStaysUp ==
  ASSUME TypeOK, [Next]_vars, openGen # 0, openGen' = openGen, pc[0] # "idle",
         \E w \in Workers : WillNotSleep(w) /\ SleepsRightly(w)
  PROVE  \E w \in Workers : WillNotSleep(w)' /\ SleepsRightly(w)'
<1>1. PICK w \in Workers : WillNotSleep(w) /\ SleepsRightly(w)
  OBVIOUS
<1>2. WillNotSleep(w)' /\ SleepsRightly(w)'
  BY <1>1, ParkStep
<1> QED
  BY <1>2

\* The wake call leaves somebody up.
LEMMA WakeCallWakes ==
  ASSUME TypeOK, GateInv, WakeInv, WakeWorkers
  PROVE  \E w \in Workers : WillNotSleep(w)' /\ SleepsRightly(w)'
<1>a. pc[0] = "wake" /\ UNCHANGED <<openGen, lastGen, fresh>>
  BY DEF WakeWorkers, At, genVars, workerVars
<1>b. wakeCount \in Nat \ {0} /\ NumWorkers \in Nat \ {0} /\ \A w \in Workers : WillNotSleep(w)
  BY <1>a, RenderAssumption DEF GateInv, WakeInv
<1>c. Workers \subseteq Threads /\ 0 \notin Workers /\ 1 \in Workers
  BY <1>b DEF Workers, Threads
<1>1. PICK S \in SUBSET Asleep :
        /\ Cardinality(S) = Lesser(wakeCount, Cardinality(Asleep))
        /\ pc' = [u \in Threads |-> IF u \in S THEN "unpark" ELSE IF u = 0 THEN "load" ELSE pc[u]]
  BY DEF WakeWorkers, WakeParked
<1>2. \A w \in S : w \in Workers /\ pc'[w] = "unpark"
  BY <1>1, <1>c DEF Asleep
<1>3. CASE S # {}
  BY <1>2, <1>3 DEF WillNotSleep, SleepsRightly
<1>4. CASE S = {}
  <2>1. IsFiniteSet(Asleep)
    <3>1. IsFiniteSet(Workers)
      BY FS_Interval, RenderAssumption DEF Workers
    <3> QED
      BY <3>1, FS_Subset DEF Asleep
  <2>2. Cardinality(Asleep) \in Nat /\ Cardinality(S) = 0
    BY <1>4, <2>1, FS_CardinalityType, FS_EmptySet
  <2>3. Cardinality(Asleep) = 0
    BY <1>1, <1>b, <2>2 DEF Lesser
  <2>4. Asleep = {}
    BY <2>1, <2>3, FS_EmptySet
  <2>5. pc[1] # "asleep" /\ pc'[1] = pc[1]
    BY <1>1, <1>c, <1>4, <2>4 DEF Asleep
  <2>6. WillNotSleep(1)' /\ SleepsRightly(1)'
    BY <1>a, <1>b, <1>c, <2>5 DEF WillNotSleep, SleepsRightly
  <2> QED
    BY <1>c, <2>6
<1> QED
  BY <1>3, <1>4

\* Each step of the block keeps somebody up.
LEMMA WakeStep ==
  ASSUME TypeOK, BlockInv, GateInv, WakeInv, [Next]_vars
  PROVE  WakeInv'
<1>b. pc \in [Threads -> AudioLabels \union WorkerLabels] /\ 0 \in Threads
  BY RenderAssumption DEF TypeOK, ThreadTypes, Threads
<1>1. ASSUME pc'[0] = "wake", NEW w \in Workers PROVE WillNotSleep(w)'
  <2>0. pc'[0] \notin DrainLabels \union {"waitRoot", "readParked"}
    BY <1>1 DEF DrainLabels
  <2>1. CASE UNCHANGED <<openGen, wakeCount>> /\ pc'[0] = pc[0]
    BY <1>1, <2>1, ParkStep DEF WakeInv, GateInv
  <2>2. CASE BumpEpoch
    <3>1. fresh'[w] = FALSE
      BY <2>2 DEF BumpEpoch, RaiseEpoch
    <3> QED
      BY <3>1 DEF WillNotSleep
  <2>3. CASE OpenBlock \/ ReadParked \/ WakeWorkers
    BY <1>1, <1>b, <2>3 DEF OpenBlock, ReadParked, WakeWorkers, WakeParked, Asleep, Goto
  <2> QED
    BY <1>1, <2>0, <2>1, <2>2, <2>3, BlockMoves
<1>2. ASSUME wakeCount' # 0, openGen' # 0, pc'[0] \in DrainLabels \union {"waitRoot"}
      PROVE  \E w \in Workers : WillNotSleep(w)' /\ SleepsRightly(w)'
  <2>0. pc'[0] \notin {"readParked", "bump", "wake"}
    BY <1>2 DEF DrainLabels
  <2>1. CASE /\ UNCHANGED <<openGen, wakeCount>>
             /\ pc'[0] = pc[0] \/ pc[0] \in DrainLabels
    <3>1. pc[0] \in DrainLabels \union {"waitRoot"} /\ pc[0] # "idle"
      BY <1>2, <2>1 DEF DrainLabels
    <3> QED
      BY <1>2, <2>1, <3>1, OneStaysUp DEF WakeInv
  <2>2. CASE OpenBlock
    BY <1>2, <1>b, <2>0, <2>2 DEF OpenBlock, Goto
  <2>3. CASE ReadParked
    <3>1. parked = 0 /\ pc[0] = "readParked"
      BY <1>b, <2>0, <2>3 DEF ReadParked, Goto, At
    <3>2. ParkedWorkers = {}
      BY <3>1, CountedFinite, FS_EmptySet DEF BlockInv, CountsExact
    <3>3. NumWorkers \in Nat \ {0} /\ 1 \in Workers /\ 1 \in Threads
      BY <3>1, RenderAssumption DEF GateInv, Workers, Threads
    <3>4. pc[1] \notin {"parkOn", "asleep"} /\ pc'[1] = pc[1]
      BY <1>b, <2>3, <3>2, <3>3 DEF ParkedWorkers, ParkedLabels, ReadParked, Goto
    <3> QED
      BY <3>3, <3>4 DEF WillNotSleep, SleepsRightly
  <2>4. CASE BumpEpoch
    BY <1>b, <2>0, <2>4 DEF BumpEpoch, Goto
  <2>5. CASE WakeWorkers
    BY <2>5, WakeCallWakes
  <2> QED
    BY <1>2, <2>0, <2>1, <2>2, <2>3, <2>4, <2>5, BlockMoves
<1> QED
  BY <1>1, <1>2 DEF WakeInv

\* Once a block that wants workers has made its wake call, they do not all
\* sleep through it, whichever of them were on their way into the park.
THEOREM NoWakeIsLost == Spec => []NoLostWake
<1>1. Init => GateInv /\ WakeInv
  <2> SUFFICES ASSUME Init PROVE GateInv /\ WakeInv
    OBVIOUS
  <2>1. pc[0] = "idle" /\ wakeCount = 0
    BY RenderAssumption DEF Init, Threads
  <2> QED
    BY <2>1 DEF GateInv, WakeInv, DrainLabels
<1>2. TypeOK /\ BlockInv /\ GateInv /\ WakeInv /\ [Next]_vars => GateInv' /\ WakeInv'
  BY GateStep, WakeStep
<1>3. WakeInv => NoLostWake
  BY DEF WakeInv, NoLostWake, SleepsRightly
<1> QED
  BY <1>1, <1>2, <1>3, TypeCorrect, BlockInvariant, PTL DEF Spec

(***************************************************************************)
(* RunsOnce: the inductive invariant                                       *)
(***************************************************************************)

InBlock == pc[0] \notin {"idle", "build"}
RunLabels == {"run", "passRead", "passWake"}

\* The frames of all the threads.
FramesIn(st) == UNION {{st[t][i] : i \in DOMAIN st[t]} : t \in Threads}
Held == FramesIn(stack)
AtWork(H) == {f \in H : f.phase = "work"}

\* The i-th arrival of task t is made once t has started and no frame of it, in
\* the set H, is still before it; r counts the runs.
Made(H, r, t, i) ==
  r[t] > 0 /\ \A f \in H : f.task = t => f.phase = "arrive" /\ f.next > i
Missing(H, r, task) == {e \in ArrivalsAt(task) : ~Made(H, r, e[1], e[2])}

StillMissing(H, r, I, s) == \A task \in Tasks : Missing(I, s, task) = Missing(H, r, task)

\* A task runs once, when all the arrivals at it are made; what its frame says.
FrameAgrees(H, r, f) ==
  /\ f.phase # "arrive" => f.next = 1
  /\ f.phase = "reset" => /\ r[f.task] = 0 /\ Dependencies[f.task] # 0
                          /\ Missing(H, r, f.task) = {}
  /\ f.phase # "reset" => r[f.task] = 1
RunsWhenReady(H, r, task) ==
  /\ r[task] \in {0, 1}
  /\ r[task] = 1 => Missing(H, r, task) = {}
  /\ r[task] = 0 /\ Dependencies[task] # 0 /\ Missing(H, r, task) = {}
       => \E f \in H : f.task = task
Orderly(H, r) ==
  /\ \A f, g \in H : f.task = g.task => f = g
  /\ \A f \in H : FrameAgrees(H, r, f)
  /\ \A task \in Tasks : RunsWhenReady(H, r, task)

\* A counter holds the arrivals that are missing, until its task runs.
Counted(H, r, p) ==
  \A task \in Tasks :
    p[task] = IF r[task] = 0 THEN Cardinality(Missing(H, r, task)) ELSE Dependencies[task]

\* No two frames, wherever they are, have the same task.
OnePlace(st) ==
  \A t, u \in Threads : \A i \in DOMAIN st[t], j \in DOMAIN st[u] :
    st[t][i].task = st[u][j].task => t = u /\ i = j
TaskInv ==
  OnePlace(stack) /\ Orderly(Held, runs) /\ (InBlock => Counted(Held, runs, pending))

StackPlaces == \A t \in Threads : stack[t] # <<>> => pc[t] \in RunLabels

RootRuns == root \in {Root, None} /\ (rootDone => runs[Root] = 1)
AllStarted == pc[0] \in {"waitWorkers", "closeSerial"} => \A task \in Tasks : runs[task] = 1
Rearmed == pc[0] = "idle" /\ ~dirty => pending = Dependencies

\* The graph that is built.
Built ==
  /\ ~dirty => added = LeafCount
  /\ InBlock => ~dirty
  /\ pc[0] = "build" => dirty /\ \A k \in 1..added : pending[LeafOrder[k]] = 0

\* Leaf x is the first after the k-th of those of n that were dealt to list l.
FirstAfter(n, on, l, k, x) ==
  \/ x = None /\ \A j \in 1..n : on[j] = l => j <= k
  \/ \E j \in 1..n : /\ on[j] = l /\ j > k /\ x = LeafOrder[j]
                     /\ \A i \in 1..n : on[i] = l /\ i > k => i >= j
Dealt(on) ==
  /\ \A l \in Threads : FirstAfter(added, on, l, 0, head[l])
  /\ \A k \in 1..added : FirstAfter(added, on, on[k], k, leafNext[LeafOrder[k]])
  /\ \A l \in Threads :
       \/ tail[l] = None /\ \A k \in 1..added : on[k] # l
       \/ \E k \in 1..added : /\ on[k] = l /\ tail[l] = LeafOrder[k]
                              /\ \A j \in 1..added : on[j] = l => j <= k
Claimed(on) ==
  \A l \in Threads : \E k \in 0..LeafCount :
    /\ FirstAfter(added, on, l, k, cursor[l])
    /\ \A j \in 1..LeafCount : on[j] = l => runs[LeafOrder[j]] = IF j <= k THEN 1 ELSE 0
LeavesDealt ==
  \E on \in [1..LeafCount -> Threads] : Dealt(on) /\ (InBlock => Claimed(on))

\* The lists the rendering thread has been through are empty.
ScanEmpty == \A l \in Threads : l < scan[0] => cursor[l] = None

\* What a step that only moves a thread cannot disturb: all but StackPlaces.
RunsInv ==
  TaskInv /\ RootRuns /\ AllStarted /\ Rearmed /\ Built /\ LeavesDealt /\ ScanEmpty

(***************************************************************************)
(* The graph                                                               *)
(***************************************************************************)

\* Who is in ArrivalsAt.
LEMMA ArrivalMember ==
  ASSUME NEW task \in Tasks, NEW e
  PROVE  e \in ArrivalsAt(task) <=>
           \E t \in Tasks : \E i \in DOMAIN Arrivals[t] : e = <<t, i>> /\ Arrivals[t][i] = task
<1>1. ASSUME e \in ArrivalsAt(task)
      PROVE  \E t \in Tasks : \E i \in DOMAIN Arrivals[t] : e = <<t, i>> /\ Arrivals[t][i] = task
  <2>1. PICK t \in Tasks : e \in {t} \X DOMAIN Arrivals[t]
    BY <1>1 DEF ArrivalsAt
  <2>2. PICK i \in DOMAIN Arrivals[t] : e = <<t, i>>
    BY <2>1
  <2> QED
    BY <1>1, <2>2 DEF ArrivalsAt
<1>2. ASSUME NEW t \in Tasks, NEW i \in DOMAIN Arrivals[t], e = <<t, i>>, Arrivals[t][i] = task
      PROVE  e \in ArrivalsAt(task)
  <2>1. e \in {t} \X DOMAIN Arrivals[t]
    BY <1>2
  <2>2. e \in UNION {{u} \X DOMAIN Arrivals[u] : u \in Tasks}
    BY <2>1
  <2> QED
    BY <1>2, <2>2 DEF ArrivalsAt
<1> QED
  BY <1>1, <1>2

\* What is missing is finite, and all of it when nothing has run.
LEMMA MissingFinite ==
  ASSUME NEW H, NEW r, NEW task \in Tasks
  PROVE  /\ Missing(H, r, task) \subseteq ArrivalsAt(task)
         /\ IsFiniteSet(Missing(H, r, task))
         /\ Cardinality(Missing(H, r, task)) \in Nat
         /\ Cardinality(Missing(H, r, task)) = 0 <=> Missing(H, r, task) = {}
<1>1. Missing(H, r, task) \subseteq ArrivalsAt(task)
  BY DEF Missing
<1>2. IsFiniteSet(ArrivalsAt(task))
  BY GraphAssumption
<1>3. IsFiniteSet(Missing(H, r, task))
  BY <1>1, <1>2, FS_Subset
<1> QED
  BY <1>1, <1>3, FS_EmptySet, FS_CardinalityType

\* The tasks with no dependencies are those nobody arrives at.
LEMMA LeafHasNoArrivals ==
  ASSUME NEW task \in Tasks
  PROVE  Dependencies[task] = 0 <=> ArrivalsAt(task) = {}
<1>1. IsFiniteSet(ArrivalsAt(task)) /\ Dependencies[task] = Cardinality(ArrivalsAt(task))
  BY GraphAssumption
<1> QED
  BY <1>1, FS_EmptySet

\* The indices of the arrivals a task makes.
LEMMA ArrivalIndex ==
  ASSUME NEW t \in Tasks
  PROVE  /\ Len(Arrivals[t]) \in Nat /\ DOMAIN Arrivals[t] = 1..Len(Arrivals[t])
         /\ \A i \in DOMAIN Arrivals[t] : i \in Nat /\ i >= 1 /\ Arrivals[t][i] \in Tasks
<1>1. Arrivals[t] \in Seq(Tasks)
  BY RenderAssumption
<1> QED
  BY <1>1

\* What is missing depends on which arrivals are made, and on nothing else.
LEMMA SameMissing ==
  ASSUME NEW H, NEW r, NEW I, NEW s, NEW task \in Tasks,
         \A t \in Tasks : \A i \in DOMAIN Arrivals[t] :
           Arrivals[t][i] = task => (Made(I, s, t, i) <=> Made(H, r, t, i))
  PROVE  Missing(I, s, task) = Missing(H, r, task)
<1>1. ASSUME NEW e \in ArrivalsAt(task)
      PROVE  Made(I, s, e[1], e[2]) <=> Made(H, r, e[1], e[2])
  <2>1. PICK t \in Tasks : \E i \in DOMAIN Arrivals[t] : e = <<t, i>> /\ Arrivals[t][i] = task
    BY <1>1, ArrivalMember
  <2>2. PICK i \in DOMAIN Arrivals[t] : e = <<t, i>> /\ Arrivals[t][i] = task
    BY <2>1
  <2>3. e[1] = t /\ e[2] = i
    BY <2>2
  <2>4. Made(I, s, t, i) <=> Made(H, r, t, i)
    BY <2>2
  <2> QED
    BY <2>3, <2>4
<1> QED
  BY <1>1 DEF Missing

\* SameMissing, for every task.
LEMMA AllSameMissing ==
  ASSUME NEW H, NEW r, NEW I, NEW s,
         \A t \in Tasks : \A i \in DOMAIN Arrivals[t] : Made(I, s, t, i) <=> Made(H, r, t, i)
  PROVE  \A task \in Tasks : Missing(I, s, task) = Missing(H, r, task)
<1> SUFFICES ASSUME NEW task \in Tasks PROVE Missing(I, s, task) = Missing(H, r, task)
  OBVIOUS
<1>1. \A t \in Tasks : \A i \in DOMAIN Arrivals[t] :
        Arrivals[t][i] = task => (Made(I, s, t, i) <=> Made(H, r, t, i))
  OBVIOUS
<1> QED
  BY <1>1, SameMissing

(***************************************************************************)
(* The steps of a task, on the set of frames                               *)
(***************************************************************************)

\* A task's own work ends: none of its arrivals was made, and none is.
LEMMA WorkEnds ==
  ASSUME NEW H \in SUBSET Frames, NEW r \in [Tasks -> Nat], Orderly(H, r),
         NEW f \in H, f.phase = "work",
         NEW I, I = (H \ {f}) \union {[f EXCEPT !.phase = "arrive"]}
  PROVE  /\ Orderly(I, r)
         /\ StillMissing(H, r, I, r)
<1> DEFINE g == [f EXCEPT !.phase = "arrive"]
<1>1. f \in Frames /\ f.next = 1 /\ r[f.task] = 1
  BY DEF Orderly, FrameAgrees
<1>2. g.task = f.task /\ g.phase = "arrive" /\ g.next = 1
  BY <1>1 DEF Frames
<1> HIDE DEF g
<1>3. \A h \in H : h.task = f.task => h = f
  BY DEF Orderly
<1>4. \A h \in I : h = g \/ (h \in H /\ h # f /\ h.task # f.task)
  BY <1>3 DEF g
<1>5. g \in I /\ \A h \in H : h # f => h \in I
  BY DEF g
<1>6. ASSUME NEW t \in Tasks, NEW i \in DOMAIN Arrivals[t]
      PROVE  Made(I, r, t, i) <=> Made(H, r, t, i)
  <2>1. i \in Nat /\ i >= 1
    BY ArrivalIndex
  <2>2. CASE t = f.task
    BY <2>1, <2>2, <1>1, <1>2, <1>5 DEF Made
  <2>3. CASE t # f.task
    BY <2>3, <1>2, <1>4, <1>5 DEF Made
  <2> QED
    BY <2>2, <2>3
<1>7. \A task \in Tasks : Missing(I, r, task) = Missing(H, r, task)
  BY ONLY <1>6, AllSameMissing
<1>8. \A h, k \in I : h.task = k.task => h = k
  BY <1>2, <1>4 DEF Orderly
<1>9. ASSUME NEW h \in I PROVE FrameAgrees(I, r, h)
  <2>1. CASE h = g
    BY <2>1, <1>1, <1>2 DEF FrameAgrees
  <2>2. CASE h \in H
    BY <2>2, <1>7 DEF FrameAgrees, Orderly, Frames
  <2> QED
    BY <2>1, <2>2, <1>4
<1>10. ASSUME NEW task \in Tasks PROVE RunsWhenReady(I, r, task)
  BY <1>2, <1>5, <1>7 DEF RunsWhenReady, Orderly
<1> QED
  BY <1>7, <1>8, <1>9, <1>10 DEF Orderly, StillMissing

\* A task starts with the frame that held it: it made no arrival yet.
LEMMA TaskStarts ==
  ASSUME NEW H \in SUBSET Frames, NEW r \in [Tasks -> Nat], Orderly(H, r),
         NEW f \in H, f.phase = "reset", NEW s, s = [r EXCEPT ![f.task] = @ + 1],
         NEW I, I = (H \ {f}) \union {Frame(f.task, "work")}
  PROVE  /\ Orderly(I, s)
         /\ s[f.task] = 1
         /\ StillMissing(H, r, I, s)
<1> DEFINE g == Frame(f.task, "work")
<1>1. f \in Frames /\ r[f.task] = 0 /\ Missing(H, r, f.task) = {}
  BY DEF Orderly, FrameAgrees
<1>2. g.task = f.task /\ g.phase = "work" /\ g.next = 1 /\ f.task \in Tasks
  BY <1>1 DEF Frames, Frame
<1> HIDE DEF g
<1>3. \A h \in H : h.task = f.task => h = f
  BY DEF Orderly
<1>4. \A h \in I : h = g \/ (h \in H /\ h # f /\ h.task # f.task)
  BY <1>3 DEF g
<1>5. g \in I /\ \A h \in H : h # f => h \in I
  BY DEF g
<1>6. s[f.task] = 1 /\ \A t \in Tasks : t # f.task => s[t] = r[t]
  BY <1>1, <1>2
<1>7. ASSUME NEW t \in Tasks, NEW i \in DOMAIN Arrivals[t]
      PROVE  Made(I, s, t, i) <=> Made(H, r, t, i)
  <2>1. CASE t = f.task
    BY <2>1, <1>1, <1>2, <1>5 DEF Made
  <2>2. CASE t # f.task
    BY <2>2, <1>2, <1>4, <1>5, <1>6 DEF Made
  <2> QED
    BY <2>1, <2>2
<1>8. \A task \in Tasks : Missing(I, s, task) = Missing(H, r, task)
  BY ONLY <1>7, AllSameMissing
<1>9. \A h, k \in I : h.task = k.task => h = k
  BY <1>2, <1>4 DEF Orderly
<1>10. ASSUME NEW h \in I PROVE FrameAgrees(I, s, h)
  <2>1. CASE h = g
    BY <2>1, <1>2, <1>6 DEF FrameAgrees
  <2>2. CASE h \in H /\ h.task # f.task
    <3>1. h.task \in Tasks /\ FrameAgrees(H, r, h)
      BY <2>2 DEF Orderly, Frames
    <3> QED
      BY <2>2, <3>1, <1>6, <1>8 DEF FrameAgrees
  <2> QED
    BY <2>1, <2>2, <1>4
<1>11. ASSUME NEW task \in Tasks PROVE RunsWhenReady(I, s, task)
  <2>1. CASE task = f.task
    <3>1. Missing(I, s, task) = {}
      BY <2>1, <1>1, <1>8
    <3>2. s[task] = 1 /\ s[task] # 0
      BY <2>1, <1>6
    <3> QED
      BY <3>1, <3>2 DEF RunsWhenReady
  <2>2. CASE task # f.task
    <3>1. RunsWhenReady(H, r, task)
      BY DEF Orderly
    <3> QED
      BY <2>2, <3>1, <1>5, <1>6, <1>8 DEF RunsWhenReady
  <2> QED
    BY <2>1, <2>2
<1> QED
  BY <1>6, <1>8, <1>9, <1>10, <1>11 DEF Orderly, StillMissing

\* A leaf that is claimed starts: nobody arrives at it, and it made no arrival.
LEMMA LeafStarts ==
  ASSUME NEW H \in SUBSET Frames, NEW r \in [Tasks -> Nat], Orderly(H, r),
         NEW x \in Tasks, r[x] = 0, Dependencies[x] = 0,
         NEW s, s = [r EXCEPT ![x] = @ + 1],
         NEW I, I = H \union {Frame(x, "work")}
  PROVE  /\ Orderly(I, s)
         /\ s[x] = 1
         /\ \A f \in H : f.task # x
         /\ StillMissing(H, r, I, s)
<1> DEFINE g == Frame(x, "work")
<1>1. g.task = x /\ g.phase = "work" /\ g.next = 1
  BY DEF Frame
<1> HIDE DEF g
<1>2. \A h \in H : h.task # x
  BY DEF Orderly, FrameAgrees
<1>3. \A h \in I : h = g \/ (h \in H /\ h.task # x)
  BY <1>2 DEF g
<1>4. g \in I /\ \A h \in H : h \in I
  BY DEF g
<1>5. s[x] = 1 /\ \A t \in Tasks : t # x => s[t] = r[t]
  OBVIOUS
<1>6. ASSUME NEW t \in Tasks, NEW i \in DOMAIN Arrivals[t]
      PROVE  Made(I, s, t, i) <=> Made(H, r, t, i)
  <2>1. CASE t = x
    BY <2>1, <1>1, <1>4 DEF Made
  <2>2. CASE t # x
    BY <2>2, <1>1, <1>3, <1>4, <1>5 DEF Made
  <2> QED
    BY <2>1, <2>2
<1>7. \A task \in Tasks : Missing(I, s, task) = Missing(H, r, task)
  BY ONLY <1>6, AllSameMissing
<1>8. \A h, k \in I : h.task = k.task => h = k
  BY <1>1, <1>3 DEF Orderly
<1>9. ASSUME NEW h \in I PROVE FrameAgrees(I, s, h)
  <2>1. CASE h = g
    BY <2>1, <1>1, <1>5 DEF FrameAgrees
  <2>2. CASE h \in H /\ h.task # x
    <3>1. h.task \in Tasks /\ FrameAgrees(H, r, h)
      BY <2>2 DEF Orderly, Frames
    <3> QED
      BY <2>2, <3>1, <1>5, <1>7 DEF FrameAgrees
  <2> QED
    BY <2>1, <2>2, <1>3
<1>10. ASSUME NEW task \in Tasks PROVE RunsWhenReady(I, s, task)
  <2>1. CASE task = x
    <3>1. Missing(I, s, x) = {}
      BY LeafHasNoArrivals, MissingFinite
    <3> QED
      BY <2>1, <3>1, <1>5 DEF RunsWhenReady
  <2>2. CASE task # x
    <3>1. RunsWhenReady(H, r, task)
      BY DEF Orderly
    <3> QED
      BY <2>2, <3>1, <1>4, <1>5, <1>7 DEF RunsWhenReady
  <2> QED
    BY <2>1, <2>2
<1> QED
  BY <1>2, <1>5, <1>7, <1>8, <1>9, <1>10 DEF Orderly, StillMissing

\* A task that made all its arrivals returns.
LEMMA TaskEnds ==
  ASSUME NEW H \in SUBSET Frames, NEW r \in [Tasks -> Nat], Orderly(H, r),
         NEW f \in H, f.phase = "arrive", f.next > Len(Arrivals[f.task]),
         NEW I, I = H \ {f}
  PROVE  /\ Orderly(I, r)
         /\ r[f.task] = 1
         /\ StillMissing(H, r, I, r)
<1>1. f \in Frames /\ r[f.task] = 1
  BY DEF Orderly, FrameAgrees
<1>2. \A h \in H : h.task = f.task => h = f
  BY DEF Orderly
<1>3. ASSUME NEW t \in Tasks, NEW i \in DOMAIN Arrivals[t]
      PROVE  Made(I, r, t, i) <=> Made(H, r, t, i)
  <2>1. CASE t = f.task
    <3>1. f.next > i
      <4>1. i \in 1..Len(Arrivals[t]) /\ Len(Arrivals[t]) \in Nat /\ f.next \in Nat
        BY <1>1, ArrivalIndex DEF Frames
      <4> QED
        BY <4>1, <2>1
    <3> QED
      BY <2>1, <3>1, <1>1, <1>2 DEF Made
  <2>2. CASE t # f.task
    BY <2>2 DEF Made
  <2> QED
    BY <2>1, <2>2
<1>4. \A task \in Tasks : Missing(I, r, task) = Missing(H, r, task)
  BY ONLY <1>3, AllSameMissing
<1>5. ASSUME NEW h \in I PROVE FrameAgrees(I, r, h)
  <2>1. h.task \in Tasks /\ FrameAgrees(H, r, h)
    BY DEF Orderly, Frames
  <2> QED
    BY <2>1, <1>4 DEF FrameAgrees
<1>6. ASSUME NEW task \in Tasks PROVE RunsWhenReady(I, r, task)
  <2>1. RunsWhenReady(H, r, task)
    BY DEF Orderly
  <2>2. CASE task = f.task
    <3>1. r[task] = 1 /\ r[task] # 0
      BY <2>2, <1>1
    <3>2. Missing(I, r, task) = {}
      BY <2>1, <3>1, <1>4 DEF RunsWhenReady
    <3> QED
      BY <3>1, <3>2 DEF RunsWhenReady
  <2>3. CASE task # f.task
    BY <2>1, <2>3, <1>4 DEF RunsWhenReady
  <2> QED
    BY <2>2, <2>3
<1> QED
  BY <1>1, <1>4, <1>5, <1>6 DEF Orderly, StillMissing

\* Everything is in order but for one task.
OrderlyBut(I, r, target) ==
  /\ \A h, k \in I : h.task = k.task => h = k
  /\ \A h \in I : FrameAgrees(I, r, h)
  /\ \A task \in Tasks : task # target => RunsWhenReady(I, r, task)

\* What one arrival of frame f, the frames being H before it and I after, tells.
Arrived(H, r, f, target, I) ==
  /\ target \in Tasks /\ r[target] = 0 /\ Dependencies[target] # 0
  /\ \A h \in H : h.task # target
  /\ \A h \in I : h.task # target
  /\ <<f.task, f.next>> \in Missing(H, r, target)
  /\ Missing(I, r, target) = Missing(H, r, target) \ {<<f.task, f.next>>}
  /\ \A task \in Tasks : task # target => Missing(I, r, task) = Missing(H, r, task)
  /\ OrderlyBut(I, r, target)

\* One arrival: its target has not run, and misses this arrival no more.
LEMMA ArrivalMade ==
  ASSUME NEW H \in SUBSET Frames, NEW r \in [Tasks -> Nat], Orderly(H, r),
         NEW f \in H, f.phase = "arrive", f.next <= Len(Arrivals[f.task]),
         NEW target, target = Arrivals[f.task][f.next],
         NEW I, I = (H \ {f}) \union {[f EXCEPT !.next = @ + 1]}
  PROVE  Arrived(H, r, f, target, I)
<1> DEFINE g == [f EXCEPT !.next = @ + 1]
           e == <<f.task, f.next>>
<1>1. f \in Frames /\ r[f.task] = 1
  BY DEF Orderly, FrameAgrees
<1>2. g.task = f.task /\ g.phase = "arrive" /\ g.next = f.next + 1 /\ f.task \in Tasks
      /\ f.next \in Nat \ {0}
  BY <1>1 DEF Frames
<1> HIDE DEF g
<1>3. \A h \in H : h.task = f.task => h = f
  BY DEF Orderly
<1>4. \A h \in I : h = g \/ (h \in H /\ h # f /\ h.task # f.task)
  BY <1>3 DEF g
<1>5. g \in I /\ \A h \in H : h # f => h \in I
  BY DEF g
<1>6. f.next \in DOMAIN Arrivals[f.task] /\ target \in Tasks
  BY <1>2, ArrivalIndex
<1>7. e \in ArrivalsAt(target)
  BY <1>2, <1>6, ArrivalMember
<1>8. e \in Missing(H, r, target)
  <2>1. ~Made(H, r, f.task, f.next)
    BY <1>2 DEF Made
  <2> QED
    BY <1>7, <2>1 DEF Missing
<1>9. r[target] = 0 /\ Dependencies[target] # 0
  <2>1. RunsWhenReady(H, r, target)
    BY <1>6 DEF Orderly
  <2> QED
    BY <1>6, <1>7, <1>8, <2>1, LeafHasNoArrivals DEF RunsWhenReady
<1>10. \A h \in H : h.task # target
  <2> SUFFICES ASSUME NEW h \in H, h.task = target PROVE FALSE
    OBVIOUS
  <2>1. FrameAgrees(H, r, h)
    BY DEF Orderly
  <2> QED
    BY <2>1, <1>8, <1>9 DEF FrameAgrees
<1>11. \A h \in I : h.task # target
  BY <1>2, <1>4, <1>10
<1>12. ASSUME NEW t \in Tasks, NEW i \in DOMAIN Arrivals[t], <<t, i>> # e
       PROVE  Made(I, r, t, i) <=> Made(H, r, t, i)
  <2>1. CASE t = f.task
    <3>1. i \in Nat /\ i # f.next
      BY <1>12, <2>1, ArrivalIndex
    <3>2. f.next + 1 > i <=> f.next > i
      BY <3>1, <1>2
    <3>3. Made(I, r, t, i) <=> f.next + 1 > i
      BY <2>1, <1>1, <1>2, <1>4, <1>5 DEF Made
    <3>4. Made(H, r, t, i) <=> f.next > i
      BY <2>1, <1>1, <1>3 DEF Made
    <3> QED
      BY <3>2, <3>3, <3>4
  <2>2. CASE t # f.task
    BY <2>2, <1>2, <1>4, <1>5 DEF Made
  <2> QED
    BY <2>1, <2>2
<1>13. \A task \in Tasks : task # target => Missing(I, r, task) = Missing(H, r, task)
  <2> SUFFICES ASSUME NEW task \in Tasks, task # target
               PROVE  Missing(I, r, task) = Missing(H, r, task)
    OBVIOUS
  <2>1. ASSUME NEW t \in Tasks, NEW i \in DOMAIN Arrivals[t], Arrivals[t][i] = task
        PROVE  <<t, i>> # e
    BY <2>1
  <2>2. \A t \in Tasks : \A i \in DOMAIN Arrivals[t] :
          Arrivals[t][i] = task => (Made(I, r, t, i) <=> Made(H, r, t, i))
    BY <2>1, <1>12
  <2> QED
    BY ONLY <2>2, SameMissing, task \in Tasks
<1>14. Missing(I, r, target) = Missing(H, r, target) \ {e}
  <2>1. Made(I, r, f.task, f.next)
    BY <1>1, <1>2, <1>4 DEF Made
  <2>2. ASSUME NEW d \in ArrivalsAt(target), d # e
        PROVE  Made(I, r, d[1], d[2]) <=> Made(H, r, d[1], d[2])
    <3>1. PICK t \in Tasks : \E i \in DOMAIN Arrivals[t] : d = <<t, i>>
      BY <1>6, ArrivalMember
    <3>2. PICK i \in DOMAIN Arrivals[t] : d = <<t, i>>
      BY <3>1
    <3>3. Made(I, r, t, i) <=> Made(H, r, t, i)
      BY <1>12, <2>2, <3>2
    <3>4. d[1] = t /\ d[2] = i
      BY <3>2
    <3> QED
      BY <3>3, <3>4
  <2>3. e[1] = f.task /\ e[2] = f.next
    OBVIOUS
  <2> HIDE DEF e
  <2> QED
    BY <2>1, <2>2, <2>3 DEF Missing
<1>15. \A h, k \in I : h.task = k.task => h = k
  BY <1>2, <1>4 DEF Orderly
<1>16. ASSUME NEW h \in I PROVE FrameAgrees(I, r, h)
  <2>1. CASE h = g
    BY <2>1, <1>1, <1>2 DEF FrameAgrees
  <2>2. CASE h \in H
    <3>1. h.task \in Tasks /\ FrameAgrees(H, r, h) /\ h.task # target
      BY <2>2, <1>10 DEF Orderly, Frames
    <3> QED
      BY <3>1, <1>13 DEF FrameAgrees
  <2> QED
    BY <2>1, <2>2, <1>4
<1>17. ASSUME NEW task \in Tasks, task # target PROVE RunsWhenReady(I, r, task)
  <2>1. RunsWhenReady(H, r, task) /\ Missing(I, r, task) = Missing(H, r, task)
    BY <1>13, <1>17 DEF Orderly
  <2> QED
    BY <2>1, <1>2, <1>5 DEF RunsWhenReady
<1> QED
  BY <1>6, <1>8, <1>9, <1>10, <1>11, <1>13, <1>14, <1>15, <1>16, <1>17 DEF Arrived, OrderlyBut

\* The arrival was not the last one.
LEMMA MoreToCome ==
  ASSUME NEW I \in SUBSET Frames, NEW r \in [Tasks -> Nat], NEW target \in Tasks,
         r[target] = 0, Missing(I, r, target) # {},
         OrderlyBut(I, r, target)
  PROVE  Orderly(I, r)
BY DEF Orderly, OrderlyBut, RunsWhenReady

\* It was the last: the target gets a frame, which makes no arrival yet.
LEMMA NothingMissing ==
  ASSUME NEW I \in SUBSET Frames, NEW r \in [Tasks -> Nat], NEW target \in Tasks,
         r[target] = 0, Missing(I, r, target) = {}, Dependencies[target] # 0,
         \A h \in I : h.task # target,
         OrderlyBut(I, r, target),
         NEW J, J = I \union {Frame(target, "reset")}
  PROVE  /\ Orderly(J, r)
         /\ StillMissing(I, r, J, r)
<1> DEFINE g == Frame(target, "reset")
<1>1. g.task = target /\ g.phase = "reset" /\ g.next = 1
  BY DEF Frame
<1> HIDE DEF g
<1>2. g \in J /\ (\A h \in I : h \in J) /\ \A h \in J : h = g \/ h \in I
  BY DEF g
<1>3. ASSUME NEW t \in Tasks, NEW i \in DOMAIN Arrivals[t]
      PROVE  Made(J, r, t, i) <=> Made(I, r, t, i)
  BY <1>1, <1>2 DEF Made
<1>4. \A task \in Tasks : Missing(J, r, task) = Missing(I, r, task)
  BY ONLY <1>3, AllSameMissing
<1>5. \A h, k \in J : h.task = k.task => h = k
  BY <1>1, <1>2 DEF OrderlyBut
<1>6. ASSUME NEW h \in J PROVE FrameAgrees(J, r, h)
  <2>1. CASE h = g
    BY <2>1, <1>1, <1>4 DEF FrameAgrees
  <2>2. CASE h \in I
    <3>1. h.task \in Tasks /\ FrameAgrees(I, r, h)
      BY <2>2 DEF Frames, OrderlyBut
    <3> QED
      BY <3>1, <1>4 DEF FrameAgrees
  <2> QED
    BY <2>1, <2>2, <1>2
<1>7. ASSUME NEW task \in Tasks PROVE RunsWhenReady(J, r, task)
  <2>1. CASE task = target
    BY <2>1, <1>1, <1>2, <1>4 DEF RunsWhenReady
  <2>2. CASE task # target
    BY <2>2, <1>2, <1>4 DEF RunsWhenReady, OrderlyBut
  <2> QED
    BY <2>1, <2>2
<1> QED
  BY <1>4, <1>5, <1>6, <1>7 DEF Orderly, StillMissing

(***************************************************************************)
(* The steps of a task, on the stacks                                      *)
(***************************************************************************)

\* Whose frame is in FramesIn.
LEMMA FrameMember ==
  ASSUME NEW st, NEW f
  PROVE  f \in FramesIn(st) <=> \E t \in Threads : \E i \in DOMAIN st[t] : f = st[t][i]
BY DEF FramesIn

\* The frames of the stacks are frames.
LEMMA FrameTypes ==
  ASSUME NEW st \in [Threads -> Seq(Frames)]
  PROVE  FramesIn(st) \in SUBSET Frames
<1> SUFFICES ASSUME NEW f \in FramesIn(st) PROVE f \in Frames
  OBVIOUS
<1>1. PICK t \in Threads : \E i \in DOMAIN st[t] : f = st[t][i]
  BY FrameMember
<1>2. st[t] \in Seq(Frames)
  OBVIOUS
<1> QED
  BY <1>1, <1>2

Swapped(H, f, g) == (H \ {f}) \union {g}

\* The innermost task is replaced by another frame of it.
LEMMA TopReplaced ==
  ASSUME NEW st \in [Threads -> Seq(Frames)], OnePlace(st), NEW t \in Threads, st[t] # <<>>,
         NEW g \in Frames, g.task = Head(st[t]).task,
         NEW new, new = [st EXCEPT ![t] = <<g>> \o Tail(@)]
  PROVE  /\ Head(st[t]) \in FramesIn(st)
         /\ OnePlace(new)
         /\ FramesIn(new) = Swapped(FramesIn(st), Head(st[t]), g)
<1> DEFINE top == Head(st[t])
<1>1. /\ st[t] \in Seq(Frames) /\ 1 \in DOMAIN st[t] /\ st[t][1] = top
      /\ DOMAIN new[t] = DOMAIN st[t] /\ new[t][1] = g
      /\ \A i \in DOMAIN st[t] : i # 1 => new[t][i] = st[t][i]
  OBVIOUS
<1>2. \A u \in Threads : u # t => new[u] = st[u]
  OBVIOUS
<1>3. \A u \in Threads : DOMAIN new[u] = DOMAIN st[u]
  BY <1>1, <1>2
<1> HIDE DEF top
<1>4. ASSUME NEW u \in Threads, NEW i \in DOMAIN st[u]
      PROVE  /\ new[u][i].task = st[u][i].task
             /\ (u = t /\ i = 1) \/ (st[u][i] # top /\ new[u][i] = st[u][i])
  <2>1. CASE u = t /\ i = 1
    BY <2>1, <1>1 DEF top
  <2>2. CASE ~(u = t /\ i = 1)
    <3>1. new[u][i] = st[u][i]
      BY <2>2, <1>1, <1>2
    <3>2. st[u][i].task # top.task
      BY <2>2, <1>1 DEF OnePlace
    <3> QED
      BY <3>1, <3>2
  <2> QED
    BY <2>1, <2>2
<1>5. OnePlace(new)
  BY <1>3, <1>4 DEF OnePlace
<1>6. top \in FramesIn(st)
  BY <1>1, FrameMember
<1>7. ASSUME NEW f \in FramesIn(new) PROVE f \in (FramesIn(st) \ {top}) \union {g}
  <2>1. PICK u \in Threads : \E i \in DOMAIN new[u] : f = new[u][i]
    BY ONLY f \in FramesIn(new), FrameMember
  <2>2. PICK i \in DOMAIN new[u] : f = new[u][i]
    BY <2>1
  <2>3. CASE u = t /\ i = 1
    BY <2>2, <2>3, <1>1
  <2>4. CASE ~(u = t /\ i = 1)
    <3>1. i \in DOMAIN st[u] /\ f = st[u][i] /\ f # top
      BY <2>2, <2>4, <1>3, <1>4
    <3> QED
      BY <3>1, FrameMember
  <2> QED
    BY <2>3, <2>4
<1>8. g \in FramesIn(new)
  BY <1>1, FrameMember
<1>9. ASSUME NEW f \in FramesIn(st), f # top PROVE f \in FramesIn(new)
  <2>1. PICK u \in Threads : \E i \in DOMAIN st[u] : f = st[u][i]
    BY FrameMember
  <2>2. PICK i \in DOMAIN st[u] : f = st[u][i]
    BY <2>1
  <2>3. i \in DOMAIN new[u] /\ f = new[u][i]
    BY <2>2, <1>1, <1>3, <1>4, <1>9
  <2> QED
    BY <2>3, FrameMember
<1> QED
  BY <1>5, <1>6, <1>7, <1>8, <1>9 DEF top, Swapped

\* A frame of another task, which has none, is put on top of a thread's stack.
LEMMA Pushed ==
  ASSUME NEW st \in [Threads -> Seq(Frames)], OnePlace(st), NEW t \in Threads,
         NEW g \in Frames, \A f \in FramesIn(st) : f.task # g.task,
         NEW new, new = [st EXCEPT ![t] = <<g>> \o @]
  PROVE  /\ OnePlace(new)
         /\ FramesIn(new) = FramesIn(st) \union {g}
<1>1. /\ st[t] \in Seq(Frames) /\ 1 \in DOMAIN new[t] /\ new[t][1] = g
      /\ \A i \in DOMAIN st[t] : i + 1 \in DOMAIN new[t] /\ new[t][i + 1] = st[t][i]
      /\ \A i \in DOMAIN new[t] : /\ i \in Nat \ {0}
                                  /\ i # 1 => i - 1 \in DOMAIN st[t] /\ new[t][i] = st[t][i - 1]
  OBVIOUS
<1>2. \A u \in Threads : u # t => new[u] = st[u]
  OBVIOUS
<1>3. \A u \in Threads : \A i \in DOMAIN st[u] : st[u][i].task # g.task
  BY FrameMember
<1>4. OnePlace(new)
  <2> SUFFICES ASSUME NEW u \in Threads, NEW v \in Threads, NEW i \in DOMAIN new[u],
                      NEW j \in DOMAIN new[v], new[u][i].task = new[v][j].task
               PROVE  u = v /\ i = j
    BY DEF OnePlace
  <2>1. CASE u = t /\ v = t
    <3>1. CASE i = 1 \/ j = 1
      BY <2>1, <3>1, <1>1, <1>3
    <3>2. CASE i # 1 /\ j # 1
      <4>1. i - 1 = j - 1
        BY <2>1, <3>2, <1>1 DEF OnePlace
      <4> QED
        BY <2>1, <4>1, <1>1
    <3> QED
      BY <3>1, <3>2
  <2>2. CASE u = t /\ v # t
    BY <2>2, <1>1, <1>2, <1>3 DEF OnePlace
  <2>3. CASE u # t /\ v = t
    BY <2>3, <1>1, <1>2, <1>3 DEF OnePlace
  <2>4. CASE u # t /\ v # t
    BY <2>4, <1>2 DEF OnePlace
  <2> QED
    BY <2>1, <2>2, <2>3, <2>4
<1>5. ASSUME NEW f \in FramesIn(new) PROVE f \in FramesIn(st) \union {g}
  <2>1. PICK u \in Threads : \E i \in DOMAIN new[u] : f = new[u][i]
    BY ONLY f \in FramesIn(new), FrameMember
  <2>2. PICK i \in DOMAIN new[u] : f = new[u][i]
    BY <2>1
  <2>3. f = g \/ \E j \in DOMAIN st[u] : f = st[u][j]
    BY <2>2, <1>1, <1>2
  <2> QED
    BY <2>3, FrameMember
<1>6. g \in FramesIn(new)
  BY <1>1, FrameMember
<1>7. ASSUME NEW f \in FramesIn(st) PROVE f \in FramesIn(new)
  <2>1. PICK u \in Threads : \E i \in DOMAIN st[u] : f = st[u][i]
    BY FrameMember
  <2>2. PICK i \in DOMAIN st[u] : f = st[u][i]
    BY <2>1
  <2>3. CASE u = t
    <3>1. i + 1 \in DOMAIN new[t] /\ f = new[t][i + 1]
      BY <2>2, <2>3, <1>1
    <3> QED
      BY <3>1, FrameMember
  <2>4. CASE u # t
    BY <2>2, <2>4, <1>2, FrameMember
  <2> QED
    BY <2>3, <2>4
<1> QED
  BY <1>4, <1>5, <1>6, <1>7

\* The innermost task returns.
LEMMA Popped ==
  ASSUME NEW st \in [Threads -> Seq(Frames)], OnePlace(st), NEW t \in Threads, st[t] # <<>>,
         NEW new, new = [st EXCEPT ![t] = Tail(@)]
  PROVE  /\ Head(st[t]) \in FramesIn(st)
         /\ OnePlace(new)
         /\ FramesIn(new) = FramesIn(st) \ {Head(st[t])}
<1> DEFINE top == Head(st[t])
<1>1. /\ st[t] \in Seq(Frames) /\ 1 \in DOMAIN st[t] /\ st[t][1] = top
      /\ \A i \in DOMAIN st[t] : /\ i \in Nat \ {0}
                                 /\ i # 1 => i - 1 \in DOMAIN new[t] /\ new[t][i - 1] = st[t][i]
      /\ \A i \in DOMAIN new[t] : /\ i \in Nat \ {0}
                                  /\ i + 1 \in DOMAIN st[t] /\ new[t][i] = st[t][i + 1]
  OBVIOUS
<1>2. \A u \in Threads : u # t => new[u] = st[u]
  OBVIOUS
<1> HIDE DEF top
<1>3. ASSUME NEW u \in Threads, NEW i \in DOMAIN st[u], ~(u = t /\ i = 1)
      PROVE  st[u][i] # top
  BY <1>3, <1>1 DEF OnePlace
<1>4. OnePlace(new)
  <2> SUFFICES ASSUME NEW u \in Threads, NEW v \in Threads, NEW i \in DOMAIN new[u],
                      NEW j \in DOMAIN new[v], new[u][i].task = new[v][j].task
               PROVE  u = v /\ i = j
    BY DEF OnePlace
  <2>1. CASE u = t /\ v = t
    <3>1. i + 1 = j + 1
      BY <2>1, <1>1 DEF OnePlace
    <3> QED
      BY <2>1, <3>1, <1>1
  <2>2. CASE u = t /\ v # t
    BY <2>2, <1>1, <1>2 DEF OnePlace
  <2>3. CASE u # t /\ v = t
    BY <2>3, <1>1, <1>2 DEF OnePlace
  <2>4. CASE u # t /\ v # t
    BY <2>4, <1>2 DEF OnePlace
  <2> QED
    BY <2>1, <2>2, <2>3, <2>4
<1>5. top \in FramesIn(st)
  BY <1>1, FrameMember
<1>6. ASSUME NEW f \in FramesIn(new) PROVE f \in FramesIn(st) \ {top}
  <2>1. PICK u \in Threads : \E i \in DOMAIN new[u] : f = new[u][i]
    BY ONLY f \in FramesIn(new), FrameMember
  <2>2. PICK i \in DOMAIN new[u] : f = new[u][i]
    BY <2>1
  <2>3. CASE u = t
    <3>1. i + 1 \in DOMAIN st[t] /\ f = st[t][i + 1] /\ i + 1 # 1
      BY <2>2, <2>3, <1>1
    <3> QED
      BY <3>1, <1>3, FrameMember
  <2>4. CASE u # t
    BY <2>2, <2>4, <1>2, <1>3, FrameMember
  <2> QED
    BY <2>3, <2>4
<1>7. ASSUME NEW f \in FramesIn(st), f # top PROVE f \in FramesIn(new)
  <2>1. PICK u \in Threads : \E i \in DOMAIN st[u] : f = st[u][i]
    BY FrameMember
  <2>2. PICK i \in DOMAIN st[u] : f = st[u][i]
    BY <2>1
  <2>3. CASE u = t
    <3>1. i # 1 /\ i - 1 \in DOMAIN new[t] /\ f = new[t][i - 1]
      BY <2>2, <2>3, <1>1, <1>7
    <3> QED
      BY <3>1, FrameMember
  <2>4. CASE u # t
    BY <2>2, <2>4, <1>2, FrameMember
  <2> QED
    BY <2>3, <2>4
<1> QED
  BY <1>4, <1>5, <1>6, <1>7 DEF top

(***************************************************************************)
(* The steps of a task, on the scheduler                                   *)
(***************************************************************************)

\* The leaves are tasks without dependencies.
LEMMA LeafFacts ==
  ASSUME NEW i \in 1..LeafCount
  PROVE  LeafOrder[i] \in Tasks /\ Dependencies[LeafOrder[i]] = 0
<1>1. LeafOrder \in Seq(Tasks)
  BY RenderAssumption
<1>2. LeafOrder[i] \in Tasks
  BY <1>1 DEF LeafCount
<1> QED
  BY <1>2, GraphAssumption

\* Whoever drains is in a block.
LEMMA DrainerInBlock ==
  ASSUME NoWorkerInside, NEW t \in Threads, pc[t] \in DrainLabels
  PROVE  InBlock
<1>1. t = 0 \/ t \in Workers
  BY RenderAssumption DEF Threads, Workers
<1> QED
  BY <1>1 DEF NoWorkerInside, InBlock, DrainLabels

\* A thread that goes on draining stays in the block.
LEMMA MoveInBlock ==
  ASSUME ThreadTypes, NEW t \in Threads, pc[t] \in DrainLabels, NEW label \in DrainLabels,
         Goto(t, label) \/ UNCHANGED pc
  PROVE  InBlock' <=> InBlock
<1>a. 0 \in Threads
  BY RenderAssumption DEF Threads
<1>1. CASE t = 0
  BY <1>1, <1>a DEF ThreadTypes, Goto, InBlock, DrainLabels
<1>2. CASE t # 0
  <2>1. pc'[0] = pc[0]
    BY <1>2, <1>a DEF ThreadTypes, Goto
  <2> QED
    BY <2>1 DEF InBlock
<1> QED
  BY <1>1, <1>2

\* The frame on top, and what it says.
LEMMA TopFacts ==
  ASSUME TaskTypes, NEW t \in Threads, Inside(t)
  PROVE  /\ stack[t] # <<>> /\ Top(t) = Head(stack[t])
         /\ Top(t) \in Frames /\ Top(t).task \in Tasks /\ Top(t).next \in Nat
         /\ Top(t) \in Held /\ Held \in SUBSET Frames
         /\ pc[t] = "run"
<1>1. stack[t] # <<>> /\ pc[t] = "run"
  BY DEF Inside, At
<1>2. stack[t] \in Seq(Frames) /\ stack \in [Threads -> Seq(Frames)]
  BY DEF TaskTypes
<1>3. Top(t) = stack[t][1] /\ 1 \in DOMAIN stack[t] /\ Top(t) \in Frames
  BY <1>1, <1>2 DEF Top
<1>4. Top(t) \in Held
  BY <1>3, FrameMember DEF Held
<1> QED
  BY <1>1, <1>2, <1>3, <1>4, FrameTypes DEF Top, Frames, Held

\* The task's own work ends: TaskInv holds, and the frame is at work no more.
LEMMA WorkStep ==
  ASSUME TypeOK, TaskInv, NEW t \in Threads, Work(t)
  PROVE  /\ TaskInv' /\ UNCHANGED runs /\ runs[Top(t).task] = 1
         /\ Top(t) \in AtWork(Held) /\ AtWork(Held') = AtWork(Held) \ {Top(t)}
<1> DEFINE f == Top(t)
           g == [f EXCEPT !.phase = "arrive"]
<1>1. TaskTypes /\ Inside(t) /\ f.phase = "work" /\ SetTop(t, g)
      /\ UNCHANGED <<runs, pending, pc>>
  BY DEF Work, TypeOK
<1>2. /\ stack[t] # <<>> /\ f = Head(stack[t]) /\ f \in Frames /\ f \in Held
      /\ Held \in SUBSET Frames
  BY <1>1, TopFacts
<1>3. g \in Frames /\ g.task = f.task
  BY <1>2 DEF Frames, Phases
<1>4. stack' = [stack EXCEPT ![t] = <<g>> \o Tail(@)]
  BY <1>1 DEF SetTop
<1>5. stack \in [Threads -> Seq(Frames)] /\ runs \in [Tasks -> Nat]
  BY <1>1 DEF TaskTypes
<1> HIDE DEF g, f
<1>6. OnePlace(stack') /\ Held' = (Held \ {f}) \union {g}
  <2>1. OnePlace(stack) /\ g.task = Head(stack[t]).task /\ stack[t] # <<>> /\ f = Head(stack[t])
    BY <1>2, <1>3 DEF TaskInv
  <2>2. stack \in [Threads -> Seq(Frames)] /\ OnePlace(stack) /\ stack[t] # <<>>
    BY <1>5, <2>1
  <2>3. g \in Frames /\ g.task = Head(stack[t]).task
    BY <1>3, <2>1
  <2>4. OnePlace(stack')
    BY ONLY <1>4, <2>2, <2>3, t \in Threads, TopReplaced
  <2>5. FramesIn(stack') = Swapped(FramesIn(stack), Head(stack[t]), g)
    BY ONLY <1>4, <2>2, <2>3, t \in Threads, TopReplaced
  <2> QED
    BY <2>1, <2>4, <2>5 DEF Held, Swapped
<1>7. Orderly(Held', runs) /\ StillMissing(Held, runs, Held', runs)
  <2>1. f.phase = "work" /\ Orderly(Held, runs)
    BY <1>1 DEF TaskInv
  <2>2. Held' = (Held \ {f}) \union {[f EXCEPT !.phase = "arrive"]}
    BY <1>6 DEF g
  <2> QED
    BY ONLY <1>2, <1>5, <2>1, <2>2, WorkEnds
<1>8. TaskInv'
  BY <1>1, <1>6, <1>7 DEF TaskInv, Counted, InBlock, StillMissing
<1>9. f \in AtWork(Held) /\ AtWork(Held') = AtWork(Held) \ {f}
  <2>1. f.phase = "work" /\ g.phase # "work"
    BY <1>1, <1>2 DEF g, Frames
  <2> QED
    BY <2>1, <1>2, <1>6 DEF AtWork
<1>10. runs[f.task] = 1
  <2>1. FrameAgrees(Held, runs, f)
    BY <1>2 DEF TaskInv, Orderly
  <2> QED
    BY <2>1, <1>1 DEF FrameAgrees
<1> QED
  BY <1>1, <1>8, <1>9, <1>10 DEF f

\* The task whose last arrival came starts, once and with nothing missing.
LEMMA ResetStep ==
  ASSUME TypeOK, TaskInv, NEW t \in Threads, ResetAndRun(t)
  PROVE  /\ TaskInv'
         /\ Dependencies[Top(t).task] # 0
         /\ runs[Top(t).task] = 0 /\ Missing(Held, runs, Top(t).task) = {}
         /\ runs' = [runs EXCEPT ![Top(t).task] = 1]
         /\ AtWork(Held') = AtWork(Held) \union {Frame(Top(t).task, "work")}
<1> DEFINE f == Top(t)
           g == Frame(f.task, "work")
<1>1. /\ TaskTypes /\ Inside(t) /\ f.phase = "reset" /\ SetTop(t, g)
      /\ runs' = [runs EXCEPT ![f.task] = @ + 1]
      /\ pending' = [pending EXCEPT ![f.task] = Dependencies[f.task]]
      /\ UNCHANGED pc
  BY DEF ResetAndRun, TypeOK, Rearm
<1>2. /\ stack[t] # <<>> /\ f = Head(stack[t]) /\ f \in Frames /\ f \in Held
      /\ Held \in SUBSET Frames /\ f.task \in Tasks
  BY <1>1, TopFacts
<1>3. g \in Frames /\ g.task = f.task
  BY <1>2, FrameType DEF Frame, Phases
<1>4. stack' = [stack EXCEPT ![t] = <<g>> \o Tail(@)]
  BY <1>1 DEF SetTop
<1>5. stack \in [Threads -> Seq(Frames)] /\ runs \in [Tasks -> Nat] /\ pending \in [Tasks -> Int]
  BY <1>1 DEF TaskTypes
<1>a. FrameAgrees(Held, runs, f)
  BY <1>2 DEF TaskInv, Orderly
<1> HIDE DEF g, f
<1>6. OnePlace(stack') /\ Held' = (Held \ {f}) \union {g}
  <2>1. OnePlace(stack) /\ g.task = Head(stack[t]).task /\ stack[t] # <<>> /\ f = Head(stack[t])
    BY <1>2, <1>3 DEF TaskInv
  <2>2. OnePlace(stack')
    BY ONLY <1>3, <1>4, <1>5, <2>1, t \in Threads, TopReplaced
  <2>3. FramesIn(stack') = Swapped(FramesIn(stack), Head(stack[t]), g)
    BY ONLY <1>3, <1>4, <1>5, <2>1, t \in Threads, TopReplaced
  <2> QED
    BY <2>1, <2>2, <2>3 DEF Held, Swapped
<1>7. Orderly(Held', runs') /\ StillMissing(Held, runs, Held', runs') /\ runs'[f.task] = 1
  <2>1. runs' = [runs EXCEPT ![f.task] = @ + 1] /\ Orderly(Held, runs) /\ f.phase = "reset"
    BY <1>1 DEF TaskInv
  <2>2. Held' = (Held \ {f}) \union {Frame(f.task, "work")}
    BY <1>6 DEF g
  <2> QED
    BY ONLY <1>2, <1>5, <2>1, <2>2, TaskStarts
<1>8. Dependencies[f.task] # 0 /\ runs[f.task] = 0 /\ Missing(Held, runs, f.task) = {}
  BY <1>1, <1>a DEF FrameAgrees
<1>9. ASSUME InBlock', NEW task \in Tasks
      PROVE  pending'[task] = IF runs'[task] = 0 THEN Cardinality(Missing(Held', runs', task))
                                                 ELSE Dependencies[task]
  <2>1. CASE task = f.task
    BY <2>1, <1>1, <1>2, <1>5, <1>7
  <2>2. CASE task # f.task
    <3>1. pending[task] = IF runs[task] = 0 THEN Cardinality(Missing(Held, runs, task))
                                            ELSE Dependencies[task]
      BY <1>1, <1>9 DEF TaskInv, Counted, InBlock
    <3>2. pending'[task] = pending[task] /\ runs'[task] = runs[task]
      BY <2>2, <1>1, <1>2, <1>5
    <3> QED
      BY <3>1, <3>2, <1>7 DEF StillMissing
  <2> QED
    BY <2>1, <2>2
<1>10. TaskInv'
  BY <1>6, <1>7, <1>9 DEF TaskInv, Counted
<1>11. runs' = [runs EXCEPT ![f.task] = 1]
  BY <1>1, <1>2, <1>5, <1>8
<1>12. AtWork(Held') = AtWork(Held) \union {g}
  <2>1. f.phase # "work" /\ g.phase = "work"
    BY <1>1 DEF g, Frame
  <2> QED
    BY <2>1, <1>2, <1>6 DEF AtWork
<1> QED
  BY <1>8, <1>10, <1>11, <1>12 DEF f, g

\* A task returns that has run.
LEMMA ReturnStep ==
  ASSUME TypeOK, TaskInv, NEW t \in Threads, ReturnTask(t)
  PROVE  /\ TaskInv' /\ UNCHANGED runs /\ runs[Top(t).task] = 1
         /\ AtWork(Held') = AtWork(Held)
<1> DEFINE f == Top(t)
<1>1. /\ TaskTypes /\ ThreadTypes /\ Inside(t) /\ f.phase = "arrive"
      /\ f.next > Len(Arrivals[f.task])
      /\ stack' = [stack EXCEPT ![t] = Tail(@)]
      /\ UNCHANGED <<runs, pending>>
      /\ Goto(t, IF Tail(stack[t]) = <<>> THEN "load" ELSE "run")
  BY DEF ReturnTask, TypeOK, Targets
<1>2. /\ stack[t] # <<>> /\ f = Head(stack[t]) /\ f \in Frames /\ f \in Held
      /\ Held \in SUBSET Frames /\ pc[t] = "run"
  BY <1>1, TopFacts
<1>3. stack \in [Threads -> Seq(Frames)] /\ runs \in [Tasks -> Nat]
  BY <1>1 DEF TaskTypes
<1> HIDE DEF f
<1>4. OnePlace(stack') /\ Held' = Held \ {f}
  BY <1>1, <1>2, <1>3, Popped DEF TaskInv, Held
<1>5. Orderly(Held', runs) /\ StillMissing(Held, runs, Held', runs) /\ runs[f.task] = 1
  <2>1. f.phase = "arrive" /\ f.next > Len(Arrivals[f.task]) /\ Orderly(Held, runs)
    BY <1>1 DEF TaskInv
  <2> QED
    BY ONLY <1>2, <1>3, <1>4, <2>1, TaskEnds
<1>6. InBlock' <=> InBlock
  BY <1>1, <1>2, MoveInBlock DEF DrainLabels
<1>7. AtWork(Held') = AtWork(Held)
  BY <1>1, <1>4 DEF AtWork
<1> QED
  BY <1>1, <1>4, <1>5, <1>6, <1>7 DEF TaskInv, Counted, StillMissing, f

\* An arrival, the last one or not.
LEMMA ArriveStep ==
  ASSUME TypeOK, NoWorkerInside, TaskInv, NEW t \in Threads, Arrive(t)
  PROVE  TaskInv' /\ UNCHANGED runs /\ AtWork(Held') = AtWork(Held)
<1> DEFINE f == Top(t)
           target == Arrivals[f.task][f.next]
           caller == [f EXCEPT !.next = @ + 1]
           e == <<f.task, f.next>>
           g == Frame(target, "reset")
           between == [stack EXCEPT ![t] = <<caller>> \o Tail(@)]
<1>1. /\ TaskTypes /\ Inside(t) /\ f.phase = "arrive" /\ f.next <= Len(Arrivals[f.task])
      /\ UNCHANGED <<runs, pc>>
      /\ pending' = [pending EXCEPT ![target] = @ - 1]
      /\ stack' = [stack EXCEPT ![t] =
                     (IF LastArrival(target) THEN <<g, caller>> ELSE <<caller>>) \o Tail(@)]
  BY DEF Arrive, TypeOK, Targets
<1>2. /\ stack[t] # <<>> /\ f = Head(stack[t]) /\ f \in Frames /\ f \in Held
      /\ Held \in SUBSET Frames /\ pc[t] = "run"
  BY <1>1, TopFacts
<1>3. caller \in Frames /\ caller.task = f.task
  BY <1>2, NextFrameType DEF Frames
<1>4. /\ stack \in [Threads -> Seq(Frames)] /\ runs \in [Tasks -> Nat]
      /\ pending \in [Tasks -> Int]
  BY <1>1 DEF TaskTypes
<1> HIDE DEF f, target, caller, e, g, between
<1>5. OnePlace(between) /\ FramesIn(between) = (Held \ {f}) \union {caller}
  <2>1. OnePlace(stack) /\ caller.task = Head(stack[t]).task /\ stack[t] # <<>>
        /\ f = Head(stack[t])
    BY <1>2, <1>3 DEF TaskInv
  <2>2. between = [stack EXCEPT ![t] = <<caller>> \o Tail(@)]
    BY DEF between
  <2>3. OnePlace(between)
    BY ONLY <1>3, <1>4, <2>1, <2>2, t \in Threads, TopReplaced
  <2>4. FramesIn(between) = Swapped(FramesIn(stack), Head(stack[t]), caller)
    BY ONLY <1>3, <1>4, <2>1, <2>2, t \in Threads, TopReplaced
  <2> QED
    BY <2>1, <2>3, <2>4 DEF Held, Swapped
<1> DEFINE I == FramesIn(between)
<1>6. Arrived(Held, runs, f, target, I)
  <2>1. Orderly(Held, runs) /\ f.phase = "arrive" /\ f.next <= Len(Arrivals[f.task])
    BY <1>1 DEF TaskInv
  <2>2. target = Arrivals[f.task][f.next]
    BY DEF target
  <2>3. I = (Held \ {f}) \union {[f EXCEPT !.next = @ + 1]}
    BY <1>5 DEF caller
  <2> HIDE DEF I
  <2> QED
    BY ONLY <1>2, <1>4, <2>1, <2>2, <2>3, ArrivalMade
<1>a. /\ target \in Tasks /\ runs[target] = 0 /\ Dependencies[target] # 0
      /\ \A h \in I : h.task # target
      /\ e \in Missing(Held, runs, target)
      /\ Missing(I, runs, target) = Missing(Held, runs, target) \ {e}
      /\ \A task \in Tasks : task # target => Missing(I, runs, task) = Missing(Held, runs, task)
      /\ OrderlyBut(I, runs, target)
  BY <1>6 DEF Arrived, e
<1>7. InBlock /\ InBlock'
  <2>1. InBlock
    BY <1>2, DrainerInBlock DEF DrainLabels
  <2> QED
    BY <2>1, <1>1 DEF InBlock
<1>8. pending[target] = Cardinality(Missing(Held, runs, target))
  BY <1>a, <1>7 DEF TaskInv, Counted
<1>9. /\ Cardinality(Missing(I, runs, target)) = pending[target] - 1
      /\ pending[target] = 1 <=> Missing(I, runs, target) = {}
  <2>1. /\ IsFiniteSet(Missing(Held, runs, target))
        /\ Cardinality(Missing(Held, runs, target)) \in Nat
        /\ Cardinality(Missing(I, runs, target)) \in Nat
        /\ Cardinality(Missing(I, runs, target)) = 0 <=> Missing(I, runs, target) = {}
    BY <1>a, MissingFinite
  <2>2. Cardinality(Missing(I, runs, target)) = Cardinality(Missing(Held, runs, target)) - 1
    <3>1. /\ e \in Missing(Held, runs, target)
          /\ Missing(I, runs, target) = Missing(Held, runs, target) \ {e}
      BY <1>a
    <3> QED
      BY ONLY <2>1, <3>1, FS_RemoveElement
  <2> QED
    BY <2>1, <2>2, <1>8
<1>10. ASSUME StillMissing(I, runs, Held', runs)
       PROVE  Counted(Held', runs', pending')
  <2> SUFFICES ASSUME NEW task \in Tasks
               PROVE  pending'[task] = IF runs[task] = 0
                                       THEN Cardinality(Missing(Held', runs, task))
                                       ELSE Dependencies[task]
    BY <1>1 DEF Counted
  <2>1. CASE task = target
    BY <2>1, <1>1, <1>4, <1>a, <1>9, <1>10 DEF StillMissing
  <2>2. CASE task # target
    <3>1. pending[task] = IF runs[task] = 0 THEN Cardinality(Missing(Held, runs, task))
                                            ELSE Dependencies[task]
      BY <1>7 DEF TaskInv, Counted
    <3>2. pending'[task] = pending[task]
      BY <2>2, <1>1, <1>4
    <3>3. Missing(Held', runs, task) = Missing(Held, runs, task)
      BY <2>2, <1>a, <1>10 DEF StillMissing
    <3> QED
      BY <3>1, <3>2, <3>3
  <2> QED
    BY <2>1, <2>2
<1>11. between \in [Threads -> Seq(Frames)] /\ between[t] = <<caller>> \o Tail(stack[t])
  BY <1>2, <1>3, <1>4 DEF between
<1>12. I \in SUBSET Frames
  BY <1>11, FrameTypes
<1>b. AtWork(I) = AtWork(Held) /\ AtWork(I \union {g}) = AtWork(I)
  <2>1. f.phase # "work" /\ caller.phase # "work" /\ g.phase # "work"
    BY <1>1, <1>2 DEF caller, g, Frame, Frames
  <2> QED
    BY <2>1, <1>5 DEF AtWork
<1>13. CASE LastArrival(target)
  <2>1. Missing(I, runs, target) = {}
    BY <1>9, <1>13 DEF LastArrival
  <2>2. g \in Frames /\ g.task = target
    BY <1>a, FrameType DEF Phases, g, Frame
  <2>3. stack' = [between EXCEPT ![t] = <<g>> \o @]
    <3>1. <<g, caller>> \o Tail(stack[t]) = <<g>> \o (<<caller>> \o Tail(stack[t]))
      BY <1>2, <1>3, <1>4, <2>2
    <3>2. stack' = [stack EXCEPT ![t] = <<g, caller>> \o Tail(stack[t])]
      BY <1>1, <1>13
    <3> QED
      BY <3>1, <3>2, <1>4 DEF between
  <2>4. \A h \in FramesIn(between) : h.task # g.task
    BY <1>a, <2>2
  <2>5. OnePlace(stack') /\ FramesIn(stack') = FramesIn(between) \union {g}
    <3>1. between \in [Threads -> Seq(Frames)] /\ OnePlace(between)
      BY <1>5, <1>11
    <3> QED
      BY ONLY <3>1, <2>2, <2>3, <2>4, t \in Threads, Pushed
  <2> HIDE DEF I
  <2>6. /\ Orderly(Held', runs)
        /\ StillMissing(I, runs, Held', runs)
    <3>1. Held' = I \union {Frame(target, "reset")}
      BY <2>5 DEF g, I, Held
    <3>2. target \in Tasks /\ runs[target] = 0 /\ Dependencies[target] # 0
          /\ (\A h \in I : h.task # target) /\ OrderlyBut(I, runs, target)
      BY <1>a
    <3> QED
      BY ONLY <3>1, <3>2, <1>4, <1>12, <2>1, NothingMissing
  <2>7. Counted(Held', runs', pending')
    BY <2>6, <1>10
  <2>8. AtWork(Held') = AtWork(Held)
    BY <2>5, <1>b DEF Held, I
  <2> QED
    BY <1>1, <2>5, <2>6, <2>7, <2>8 DEF TaskInv
<1>14. CASE ~LastArrival(target)
  <2>1. stack' = between
    BY <1>1, <1>14 DEF between
  <2>2. Held' = I
    BY <2>1 DEF Held
  <2>3. Missing(I, runs, target) # {}
    BY <1>9, <1>14 DEF LastArrival
  <2>4. OnePlace(stack')
    BY <2>1, <1>5
  <2>5. Counted(Held', runs', pending')
    BY <2>2, <1>10 DEF StillMissing
  <2> HIDE DEF I
  <2>6. Orderly(I, runs)
    <3>1. target \in Tasks /\ runs[target] = 0 /\ OrderlyBut(I, runs, target)
      BY <1>a
    <3> QED
      BY ONLY <1>4, <1>12, <2>3, <3>1, MoreToCome
  <2> QED
    BY <1>1, <1>b, <2>2, <2>4, <2>5, <2>6 DEF TaskInv
<1> QED
  BY <1>1, <1>13, <1>14

(***************************************************************************)
(* The leaf lists                                                          *)
(***************************************************************************)

\* No task is twice in the list of leaves.
LEMMA LeavesDistinct ==
  ASSUME NEW i \in 1..LeafCount, NEW j \in 1..LeafCount, LeafOrder[i] = LeafOrder[j]
  PROVE  i = j
BY GraphAssumption

\* A set of numbers that is not empty has a least one.
LEMMA HasSmallest ==
  ASSUME NEW S \in SUBSET Nat, S # {}
  PROVE  \E x \in S : \A y \in S : x <= y
<1> DEFINE R == OpToRel(<, Nat)
<1>1. \A x, y \in Nat : <<x, y>> \in R <=> x < y
  BY DEF OpToRel
<1>2. IsWellFoundedOn(R, Nat)
  BY NatLessThanWellFounded
<1> HIDE DEF R
<1>3. PICK x \in S : \A y \in S : ~(<<y, x>> \in R)
  BY <1>2, WFMin
<1>4. ASSUME NEW y \in S PROVE x <= y
  <2>1. x \in Nat /\ y \in Nat
    OBVIOUS
  <2>2. ~(y < x)
    BY <1>1, <1>3, <2>1
  <2> QED
    BY <2>1, <2>2
<1> QED
  BY <1>4

\* The list addLeaf() chooses is one of them.
LEMMA LeastIsThread ==
  ASSUME assigned \in [Threads -> Nat]
  PROVE  LeastAssigned \in Threads
<1>1. 0 \in Threads /\ Threads \in SUBSET Nat
  BY RenderAssumption DEF Threads
<1> DEFINE Loads == {assigned[l] : l \in Threads}
<1>2. Loads \in SUBSET Nat /\ Loads # {}
  BY <1>1
<1>3. PICK load \in Loads : \A other \in Loads : load <= other
  BY <1>2, HasSmallest
<1> DEFINE Lightest == {l \in Threads : assigned[l] = load}
<1>4. Lightest \in SUBSET Nat /\ Lightest # {}
  BY <1>1, <1>3
<1>5. PICK l \in Lightest : \A m \in Lightest : l <= m
  BY <1>4, HasSmallest
<1>6. ASSUME NEW m \in Threads
      PROVE  assigned[l] < assigned[m] \/ (assigned[l] = assigned[m] /\ l <= m)
  <2>1. load <= assigned[m] /\ load \in Nat /\ assigned[m] \in Nat /\ assigned[l] = load
    BY <1>2, <1>3, <1>5
  <2>2. CASE assigned[m] = load
    BY <2>1, <2>2, <1>5
  <2>3. CASE assigned[m] # load
    BY <2>1, <2>3
  <2> QED
    BY <2>2, <2>3
<1>7. \E k \in Threads : \A m \in Threads :
        assigned[k] < assigned[m] \/ (assigned[k] = assigned[m] /\ k <= m)
  BY <1>5, <1>6
<1> QED
  BY <1>7 DEF LeastAssigned

\* A leaf is added behind the last of its list.
LEMMA AddLeafDealt ==
  ASSUME GraphTypes, NEW on \in [1..LeafCount -> Threads], Dealt(on), AddLeaf
  PROVE  \E new \in [1..LeafCount -> Threads] : Dealt(new)'
<1> DEFINE n == added + 1
           leaf == LeafOrder[n]
           list == LeastAssigned
<1>1. /\ added \in Nat /\ n \in 1..LeafCount /\ added' = n
      /\ leafNext' = IF tail[list] = None
                     THEN [leafNext EXCEPT ![leaf] = None]
                     ELSE [leafNext EXCEPT ![leaf] = None, ![tail[list]] = leaf]
      /\ head' = IF tail[list] = None THEN [head EXCEPT ![list] = leaf] ELSE head
      /\ tail' = [tail EXCEPT ![list] = leaf]
  BY LeafCountNat DEF AddLeaf, GraphTypes
<1>2. list \in Threads
  BY LeastIsThread DEF GraphTypes
<1>3. /\ head \in [Threads -> OrNone(Tasks)] /\ tail \in [Threads -> OrNone(Tasks)]
      /\ leafNext \in [Tasks -> OrNone(Tasks)] /\ None \notin Tasks
  BY RenderAssumption DEF GraphTypes
<1>4. LeafCount \in Nat /\ \A k \in 1..added : k \in 1..LeafCount /\ k # n /\ k < n /\ k \in 1..n
  BY <1>1, LeafCountNat
<1>5. PICK new \in [1..LeafCount -> Threads] :
        new[n] = list /\ \A k \in 1..added : new[k] = on[k]
  <2>1. [on EXCEPT ![n] = list] \in [1..LeafCount -> Threads]
    BY <1>1, <1>2
  <2> QED
    BY <2>1, <1>1, <1>4
<1>6. /\ leaf \in Tasks /\ leaf # None
      /\ \A k \in 1..added : LeafOrder[k] \in Tasks /\ LeafOrder[k] # leaf
  BY <1>1, <1>3, <1>4, LeafFacts, LeavesDistinct
<1>7. \A k \in 1..n : k = n \/ k \in 1..added
  BY <1>1
<1> HIDE DEF n, leaf, list
<1>8. ASSUME NEW l \in Threads, l # list, NEW k \in Nat, NEW x, FirstAfter(added, on, l, k, x)
      PROVE  FirstAfter(n, new, l, k, x)
  <2>1. CASE x = None /\ \A j \in 1..added : on[j] = l => j <= k
    <3>1. \A j \in 1..n : new[j] = l => j <= k
      BY <2>1, <1>5, <1>7, <1>8
    <3> QED
      BY <2>1, <3>1, <1>1 DEF FirstAfter
  <2>2. ASSUME NEW j \in 1..added, on[j] = l, j > k, x = LeafOrder[j],
               \A i \in 1..added : on[i] = l /\ i > k => i >= j
        PROVE  FirstAfter(n, new, l, k, x)
    <3>1. j \in 1..n /\ new[j] = l
      BY <2>2, <1>4, <1>5
    <3>2. \A i \in 1..n : new[i] = l /\ i > k => i >= j
      BY <2>2, <1>5, <1>7, <1>8
    <3> QED
      BY <2>2, <3>1, <3>2, <1>1 DEF FirstAfter
  <2> QED
    BY <2>1, <2>2, <1>8 DEF FirstAfter
<1>9. ASSUME NEW k \in Nat, NEW x, FirstAfter(added, on, list, k, x),
             NEW z \in 1..added, on[z] = list, z > k
      PROVE  FirstAfter(n, new, list, k, x)
  <2>1. PICK j \in 1..added : /\ on[j] = list /\ j > k /\ x = LeafOrder[j]
                              /\ \A i \in 1..added : on[i] = list /\ i > k => i >= j
    BY <1>9 DEF FirstAfter
  <2>2. j \in 1..n /\ new[j] = list /\ n >= j
    BY <2>1, <1>1, <1>4, <1>5
  <2>3. \A i \in 1..n : new[i] = list /\ i > k => i >= j
    BY <2>1, <2>2, <1>5, <1>7
  <2> QED
    BY <2>1, <2>2, <2>3, <1>1 DEF FirstAfter
<1>10. ASSUME NEW k \in 0..added, \A j \in 1..added : on[j] = list => j <= k
       PROVE  FirstAfter(n, new, list, k, leaf)
  <2>1. n > k /\ n \in 1..n
    BY <1>1 DEF n
  <2>2. \A i \in 1..n : new[i] = list /\ i > k => i >= n
    BY <1>1, <1>5, <1>7, <1>10
  <2> QED
    BY <2>1, <2>2, <1>1, <1>5 DEF FirstAfter, leaf
<1>11. \/ tail[list] = None /\ \A k \in 1..added : on[k] # list
       \/ tail[list] # None
          /\ \E k \in 1..added : /\ on[k] = list /\ tail[list] = LeafOrder[k]
                                 /\ \A j \in 1..added : on[j] = list => j <= k
  BY <1>2, <1>3, <1>6 DEF Dealt
<1>12. ASSUME NEW l \in Threads PROVE FirstAfter(n, new, l, 0, head'[l])
  <2>1. FirstAfter(added, on, l, 0, head[l])
    BY DEF Dealt
  <2>2. CASE l # list
    BY <2>1, <2>2, <1>1, <1>2, <1>3, <1>8
  <2>3. CASE l = list /\ tail[list] = None
    <3>1. head'[l] = leaf
      BY <2>3, <1>1, <1>2, <1>3
    <3>2. \A j \in 1..added : on[j] = list => j <= 0
      BY <2>3, <1>11
    <3> QED
      BY <2>3, <3>1, <3>2, <1>1, <1>10
  <2>4. CASE l = list /\ tail[list] # None
    <3>1. PICK k \in 1..added : on[k] = list
      BY <2>4, <1>11
    <3>2. head'[l] = head[l] /\ k > 0
      BY <2>4, <1>1
    <3> QED
      BY <2>1, <2>4, <3>1, <3>2, <1>9
  <2> QED
    BY <2>2, <2>3, <2>4
<1>13. ASSUME NEW k \in 1..n PROVE FirstAfter(n, new, new[k], k, leafNext'[LeafOrder[k]])
  <2>1. CASE k = n
    <3>1. leafNext'[leaf] = None
      <4>1. CASE tail[list] = None
        BY <4>1, <1>1, <1>3, <1>6
      <4>2. CASE tail[list] # None
        <5>1. tail[list] # leaf
          BY <4>2, <1>6, <1>11
        <5> QED
          BY <4>2, <5>1, <1>1, <1>3, <1>6
      <4> QED
        BY <4>1, <4>2
    <3>2. \A j \in 1..n : j <= n
      OBVIOUS
    <3> QED
      BY <2>1, <3>1, <3>2, <1>1 DEF FirstAfter, leaf
  <2>2. CASE k \in 1..added
    <3>1. FirstAfter(added, on, on[k], k, leafNext[LeafOrder[k]]) /\ new[k] = on[k] /\ k \in Nat
      BY <2>2, <1>5 DEF Dealt
    <3>2. CASE tail[list] # LeafOrder[k]
      <4>1. leafNext'[LeafOrder[k]] = leafNext[LeafOrder[k]]
        BY <2>2, <3>2, <1>1, <1>3, <1>6
      <4>2. CASE on[k] # list
        BY <2>2, <3>1, <4>1, <4>2, <1>4, <1>8
      <4>3. CASE on[k] = list
        <5>1. PICK z \in 1..added : /\ on[z] = list /\ tail[list] = LeafOrder[z]
                                    /\ \A j \in 1..added : on[j] = list => j <= z
          BY <2>2, <4>3, <1>11
        <5>2. z > k
          BY <2>2, <3>2, <4>3, <5>1
        <5> QED
          BY <3>1, <4>1, <4>3, <5>1, <5>2, <1>9
      <4> QED
        BY <4>2, <4>3
    <3>3. CASE tail[list] = LeafOrder[k]
      <4>1. tail[list] # None
        BY <2>2, <3>3, <1>3, <1>6
      <4>2. PICK z \in 1..added : /\ on[z] = list /\ tail[list] = LeafOrder[z]
                                  /\ \A j \in 1..added : on[j] = list => j <= z
        BY <4>1, <1>11
      <4>3. z = k
        BY <2>2, <3>3, <4>2, <1>4, LeavesDistinct
      <4>4. leafNext'[LeafOrder[k]] = leaf
        BY <2>2, <3>3, <4>1, <1>1, <1>3, <1>6
      <4>5. k \in 0..added
        BY <2>2, <1>1
      <4> QED
        BY <3>1, <4>2, <4>3, <4>4, <4>5, <1>10
    <3> QED
      BY <3>2, <3>3
  <2> QED
    BY <2>1, <2>2, <1>7
<1>14. ASSUME NEW l \in Threads
       PROVE  \/ tail'[l] = None /\ \A k \in 1..n : new[k] # l
              \/ \E k \in 1..n : /\ new[k] = l /\ tail'[l] = LeafOrder[k]
                                 /\ \A j \in 1..n : new[j] = l => j <= k
  <2>1. CASE l = list
    <3>1. tail'[l] = LeafOrder[n] /\ new[n] = l /\ n \in 1..n
      BY <2>1, <1>1, <1>2, <1>3, <1>5 DEF leaf
    <3>2. \A j \in 1..n : j <= n
      OBVIOUS
    <3> QED
      BY <3>1, <3>2
  <2>2. CASE l # list
    <3>1. tail'[l] = tail[l]
      BY <2>2, <1>1, <1>3
    <3>2. CASE tail[l] = None /\ \A k \in 1..added : on[k] # l
      BY <2>2, <3>1, <3>2, <1>5, <1>7
    <3>3. ASSUME NEW k \in 1..added, on[k] = l, tail[l] = LeafOrder[k],
                 \A j \in 1..added : on[j] = l => j <= k
          PROVE  \E i \in 1..n : /\ new[i] = l /\ tail'[l] = LeafOrder[i]
                                 /\ \A j \in 1..n : new[j] = l => j <= i
      <4>1. k \in 1..n /\ new[k] = l /\ tail'[l] = LeafOrder[k]
        BY <3>1, <3>3, <1>4, <1>5
      <4>2. \A j \in 1..n : new[j] = l => j <= k
        BY <2>2, <3>3, <1>5, <1>7
      <4> QED
        BY <4>1, <4>2
    <3> QED
      BY <3>2, <3>3 DEF Dealt
  <2> QED
    BY <2>1, <2>2
<1>15. Dealt(new)'
  BY ONLY <1>1, <1>12, <1>13, <1>14 DEF Dealt
<1> QED
  BY <1>5, <1>15

\* The step of claim() takes the first leaf of a list that has not run.
LEMMA ClaimFirst ==
  ASSUME TypeOK, NEW on \in [1..LeafCount -> Threads], Dealt(on), Claimed(on),
         added = LeafCount, NEW t \in Threads, At(t, "cas"), ClaimHolds(t)
  PROVE  \E k \in 0..LeafCount, j \in 1..LeafCount :
           /\ on[j] = ListOf(t) /\ j > k /\ loaded[t] = LeafOrder[j]
           /\ runs[LeafOrder[j]] = 0
           /\ \A i \in 1..LeafCount : on[i] = ListOf(t) /\ i > k => i >= j
           /\ \A i \in 1..LeafCount :
                on[i] = ListOf(t) => runs[LeafOrder[i]] = IF i <= k THEN 1 ELSE 0
<1> DEFINE l == ListOf(t)
<1>1. l \in Threads /\ cursor[l] = loaded[t] /\ loaded[t] # None
  BY ListOfThread DEF TypeOK, ClaimTypes, ClaimHolds, At
<1> HIDE DEF l
<1>2. PICK k \in 0..LeafCount :
        /\ FirstAfter(added, on, l, k, cursor[l])
        /\ \A j \in 1..LeafCount : on[j] = l => runs[LeafOrder[j]] = IF j <= k THEN 1 ELSE 0
  BY <1>1 DEF Claimed
<1>3. PICK j \in 1..LeafCount : /\ on[j] = l /\ j > k /\ cursor[l] = LeafOrder[j]
                                /\ \A i \in 1..LeafCount : on[i] = l /\ i > k => i >= j
  BY <1>1, <1>2 DEF FirstAfter
<1>4. k \in Int /\ j \in Int
  OBVIOUS
<1>5. runs[LeafOrder[j]] = 0
  BY <1>2, <1>3, <1>4
<1> QED
  BY <1>1, <1>2, <1>3, <1>5 DEF l

\* Claiming a leaf leaves the lists, and the leaves that ran behind the cursors.
LEMMA ClaimKeepsDealt ==
  ASSUME TypeOK, NEW on \in [1..LeafCount -> Threads], Dealt(on), Claimed(on),
         added = LeafCount, NEW t \in Threads, ClaimLeaf(t)
  PROVE  Dealt(on)' /\ Claimed(on)'
<1> DEFINE list == ListOf(t)
           x == loaded[t]
<1>1. /\ At(t, "cas") /\ ClaimHolds(t)
      /\ cursor' = [cursor EXCEPT ![list] = leafNext[x]]
      /\ runs' = [runs EXCEPT ![x] = @ + 1]
      /\ UNCHANGED <<head, tail, leafNext, added>>
  BY DEF ClaimLeaf, buildVars, listVars
<1>2. list \in Threads
  BY ListOfThread DEF TypeOK
<1>3. PICK k \in 0..LeafCount, j \in 1..LeafCount :
           /\ on[j] = list /\ j > k /\ x = LeafOrder[j]
           /\ runs[LeafOrder[j]] = 0
           /\ \A i \in 1..LeafCount : on[i] = list /\ i > k => i >= j
           /\ \A i \in 1..LeafCount :
                on[i] = list => runs[LeafOrder[i]] = IF i <= k THEN 1 ELSE 0
  BY <1>1, ClaimFirst
<1>4. /\ runs \in [Tasks -> Nat] /\ cursor \in [Threads -> OrNone(Tasks)]
      /\ LeafCount \in Nat /\ k \in Int /\ j \in Int
  BY LeafCountNat DEF TypeOK, TaskTypes, BlockTypes
<1> HIDE DEF list, x
<1>5. x \in Tasks /\ runs[x] = 0 /\ runs'[x] = 1
  BY <1>1, <1>3, <1>4, LeafFacts
<1>6. \A i \in 1..LeafCount : i # j => runs'[LeafOrder[i]] = runs[LeafOrder[i]]
  BY <1>1, <1>3, <1>4, LeafFacts, LeavesDistinct
<1>7. Dealt(on)'
  BY ONLY <1>1, Dealt(on) DEF Dealt
<1>8. ASSUME NEW l \in Threads
      PROVE  \E m \in 0..LeafCount :
               /\ FirstAfter(added, on, l, m, cursor'[l])
               /\ \A i \in 1..LeafCount :
                    on[i] = l => runs'[LeafOrder[i]] = IF i <= m THEN 1 ELSE 0
  <2>1. CASE l = list
    <3>1. cursor'[l] = leafNext[LeafOrder[j]]
      BY <2>1, <1>1, <1>2, <1>3, <1>4
    <3>2. FirstAfter(added, on, on[j], j, leafNext[LeafOrder[j]])
      BY DEF Dealt
    <3>3. FirstAfter(added, on, l, j, cursor'[l])
      BY <2>1, <3>1, <3>2, <1>1, <1>3 DEF FirstAfter
    <3>4. ASSUME NEW i \in 1..LeafCount, on[i] = l
          PROVE  runs'[LeafOrder[i]] = IF i <= j THEN 1 ELSE 0
      <4>1. CASE i = j
        BY <4>1, <1>3, <1>5
      <4>2. CASE i # j /\ i <= k
        BY <2>1, <3>4, <4>2, <1>3, <1>4, <1>6
      <4>3. CASE i # j /\ i > k
        <5>1. i > j
          BY <2>1, <3>4, <4>3, <1>3, <1>4
        <5>2. runs'[LeafOrder[i]] = 0
          BY <2>1, <3>4, <4>3, <1>3, <1>4, <1>6
        <5> QED
          BY <5>1, <5>2
      <4> QED
        BY <4>1, <4>2, <4>3
    <3>5. j \in 0..LeafCount
      BY <1>4
    <3> QED
      BY <3>3, <3>4, <3>5
  <2>2. CASE l # list
    <3>1. cursor'[l] = cursor[l]
      BY <2>2, <1>1, <1>4
    <3>2. PICK m \in 0..LeafCount :
            /\ FirstAfter(added, on, l, m, cursor[l])
            /\ \A i \in 1..LeafCount : on[i] = l => runs[LeafOrder[i]] = IF i <= m THEN 1 ELSE 0
      BY DEF Claimed
    <3>3. FirstAfter(added, on, l, m, cursor'[l])
      BY <3>1, <3>2, <1>1 DEF FirstAfter
    <3>4. \A i \in 1..LeafCount : on[i] = l => i # j
      BY <2>2, <1>3
    <3> QED
      BY <3>2, <3>3, <3>4, <1>6
  <2> QED
    BY <2>1, <2>2
<1>9. Claimed(on)'
  BY ONLY <1>1, <1>8 DEF Claimed
<1> QED
  BY <1>7, <1>9

(***************************************************************************)
(* The block                                                               *)
(***************************************************************************)

\* A thread that is inside a task stays where a task runs.
LEMMA StackPlacesStep ==
  ASSUME TypeOK, DownExited, StackPlaces, [Next]_vars
  PROVE  StackPlaces'
<1> USE DEF TypeOK, RunLabels
<1>a. 0 \in Threads /\ Workers \subseteq Threads
  BY RenderAssumption DEF Threads, Workers
<1>1. ASSUME UNCHANGED stack, UNCHANGED pc PROVE StackPlaces'
  BY <1>1 DEF StackPlaces
<1>2. ASSUME UNCHANGED stack, NEW t \in Threads, NEW label, Goto(t, label),
             pc[t] \notin RunLabels \/ label \in RunLabels
      PROVE  StackPlaces'
  BY <1>2 DEF StackPlaces, Goto, ThreadTypes
<1>3. ASSUME UNCHANGED stack, NEW count, NEW t \in Threads, NEW label,
             WakeParked(count, t, label),
             pc[t] \notin RunLabels \/ label \in RunLabels \/ label = pc[t]
      PROVE  StackPlaces'
  BY <1>3 DEF StackPlaces, WakeParked, Asleep, ThreadTypes
<1>4. CASE BuildStep \/ StartStep \/ MarkDirty
  BY <1>4, <1>a, <1>1, <1>2 DEF BuildStep, StartStep, MarkDirty, BeginBuild, AddLeaf,
     EndBuild, StartBlock, taskVars, At
<1>5. CASE OpenBlock \/ ReadParked \/ BumpEpoch \/ CloseBlock \/ FinishBlock
  BY <1>5, <1>a, <1>2 DEF OpenBlock, ReadParked, BumpEpoch, CloseBlock, FinishBlock,
     taskVars, At
<1>6. CASE WakeWorkers
  BY <1>6, <1>a, <1>3 DEF WakeWorkers, taskVars, At
<1>7. CASE Shutdown \/ ShutdownBump \/ Join
  BY <1>7, <1>1 DEF Shutdown, ShutdownBump, Join, taskVars
<1>8. CASE ShutdownWake
  BY <1>8, <1>a, <1>3 DEF ShutdownWake, taskVars
<1>9. CASE Startup
  <2>1. \A w \in Workers : stack[w] = <<>>
    BY <1>9, <1>a DEF Startup, DownExited, StackPlaces
  <2>2. Threads = Workers \union {0}
    BY RenderAssumption DEF Threads, Workers
  <2> QED
    BY <1>9, <2>1, <2>2 DEF Startup, StackPlaces, At, taskVars
<1>10. ASSUME NEW t \in Threads, LoadCursor(t) \/ NextList(t) \/ DrainDone(t) \/ ClaimLost(t)
       PROVE  StackPlaces'
  BY <1>10, <1>1, <1>2 DEF LoadCursor, NextList, DrainDone, ClaimLost, taskVars, At
<1>11. ASSUME NEW t \in Threads, ClaimLeaf(t) PROVE StackPlaces'
  BY <1>11 DEF ClaimLeaf, StackPlaces, Goto, ThreadTypes, TaskTypes
<1>12. ASSUME NEW t \in Threads, Work(t) \/ Arrive(t) \/ ResetAndRun(t) PROVE StackPlaces'
  BY <1>12 DEF Work, Arrive, ResetAndRun, SetTop, StackPlaces, Inside, At, TaskTypes
<1>13. ASSUME NEW t \in Threads, ReturnTask(t) PROVE StackPlaces'
  BY <1>13 DEF ReturnTask, StackPlaces, Goto, ThreadTypes, TaskTypes
<1>14. ASSUME NEW w \in Workers, PassWakeCall(w) PROVE StackPlaces'
  BY <1>14, <1>a, <1>3 DEF PassWakeCall, taskVars
<1>15. ASSUME NEW w \in Workers, PassWakeOn(w) PROVE StackPlaces'
  BY <1>15, <1>a, <1>2 DEF PassWakeOn, taskVars
<1>16. ASSUME NEW w \in Workers,
              \/ TestRunning(w) \/ Announce(w) \/ ReadGen(w) \/ Leave(w) \/ Spin(w)
              \/ SampleEpoch(w) \/ PrePark(w) \/ Recheck(w) \/ ParkOn(w) \/ Unpark(w)
              \/ SpuriousWake(w)
       PROVE  StackPlaces'
  BY <1>16, <1>a, <1>2 DEF TestRunning, Announce, ReadGen, Leave, Spin, SampleEpoch, PrePark,
     Recheck, ParkOn, Unpark, SpuriousWake, taskVars, At
<1>17. CASE UNCHANGED vars
  BY <1>17, <1>1 DEF vars, taskVars
<1> QED
  BY <1>4, <1>5, <1>6, <1>7, <1>8, <1>9, <1>10, <1>11, <1>12, <1>13, <1>14, <1>15, <1>16, <1>17
     DEF Next, BlockStep, StopStep, DrainStep, TaskStep, LoopStep

\* Where a thread is that renders a block.
RenderLabels ==
  {"open", "readParked", "bump", "wake", "load", "cas", "passRead", "passWake", "run",
   "waitRoot"}

\* A step that only moves threads, the rendering thread inside the block.
LEMMA Untouched ==
  ASSUME RunsInv,
         UNCHANGED <<listVars, added, dirty, cursor, taskVars, rootVars>>, scan'[0] = scan[0],
         pc'[0] = pc[0] \/ (pc[0] \in RenderLabels /\ pc'[0] \in RenderLabels)
  PROVE  RunsInv'
<1> USE DEF RunsInv
<1>1. UNCHANGED <<head, tail, leafNext, added, dirty, cursor, stack, runs, pending, root, rootDone>>
  BY DEF listVars, taskVars, rootVars
<1>2. /\ InBlock' <=> InBlock
      /\ pc'[0] = "idle" <=> pc[0] = "idle"
      /\ pc'[0] = "build" <=> pc[0] = "build"
      /\ pc'[0] \in {"waitWorkers", "closeSerial"} => pc[0] \in {"waitWorkers", "closeSerial"}
  BY DEF InBlock, RenderLabels
<1>3. TaskInv'
  BY ONLY <1>1, <1>2, TaskInv DEF TaskInv, Held
<1>4. RootRuns' /\ AllStarted' /\ Rearmed'
  BY <1>1, <1>2 DEF RootRuns, AllStarted, Rearmed
<1>5. Built'
  BY <1>1, <1>2 DEF Built
<1>6. LeavesDealt'
  <2>1. PICK on \in [1..LeafCount -> Threads] : Dealt(on) /\ (InBlock => Claimed(on))
    BY DEF LeavesDealt
  <2>2. Dealt(on)'
    BY ONLY <1>1, <2>1 DEF Dealt
  <2>3. InBlock' => Claimed(on)'
    BY ONLY <1>1, <1>2, <2>1 DEF Claimed
  <2> QED
    BY <2>2, <2>3 DEF LeavesDealt
<1>7. ScanEmpty'
  BY <1>1 DEF ScanEmpty
<1> QED
  BY <1>3, <1>4, <1>5, <1>6, <1>7

\* When nobody drains, nobody is inside a task.
LEMMA NoFrames ==
  ASSUME TaskTypes, StackPlaces, pc[0] \notin RunLabels,
         \A w \in Workers : pc[w] \notin DrainLabels
  PROVE  (\A t \in Threads : stack[t] = <<>>) /\ Held = {}
<1>1. \A t \in Threads : t = 0 \/ t \in Workers
  BY RenderAssumption DEF Threads, Workers
<1>2. \A t \in Threads : stack[t] = <<>>
  BY <1>1 DEF StackPlaces, RunLabels, DrainLabels
<1>3. Held = {}
  <2> SUFFICES ASSUME NEW f \in Held PROVE FALSE
    OBVIOUS
  <2>1. PICK t \in Threads : \E i \in DOMAIN stack[t] : f = stack[t][i]
    BY FrameMember DEF Held
  <2> QED
    BY <2>1, <1>2
<1> QED
  BY <1>2, <1>3

\* All that the root waited for has started, when the root has.
LEMMA RootIsLast ==
  ASSUME NEW H, NEW r, Orderly(H, r), r[Root] = 1
  PROVE  \A task \in Tasks : r[task] = 1
<1> DEFINE S == {task \in Tasks : r[task] = 1}
<1>1. S \in SUBSET Tasks /\ Root \in S
  BY RenderAssumption
<1>2. ASSUME NEW task \in S, NEW t \in Prerequisites(task) PROVE t \in S
  <2>1. PICK i \in DOMAIN Arrivals[t] : t \in Tasks /\ Arrivals[t][i] = task
    BY DEF Prerequisites
  <2>2. <<t, i>> \in ArrivalsAt(task)
    BY <2>1, ArrivalMember
  <2>3. Missing(H, r, task) = {}
    BY DEF Orderly, RunsWhenReady
  <2>4. Made(H, r, t, i)
    BY <2>2, <2>3 DEF Missing
  <2>5. r[t] > 0 /\ r[t] \in {0, 1}
    BY <2>1, <2>4 DEF Made, Orderly, RunsWhenReady
  <2>6. r[t] = 1
    BY <2>5
  <2> QED
    BY <2>1, <2>6
<1>3. S = Tasks
  <2> HIDE DEF S
  <2> QED
    BY <1>1, <1>2, GraphAssumption
<1> QED
  BY <1>3

\* When the leaves have run and no frame is left, every task has run.
LEMMA AllHaveRun ==
  ASSUME NEW r, Orderly({}, r),
         \A task \in Tasks : Dependencies[task] = 0 => r[task] = 1
  PROVE  \A task \in Tasks : r[task] = 1
<1> DEFINE S == {task \in Tasks : r[task] = 1}
<1>1. ASSUME NEW task \in Tasks, Prerequisites(task) \subseteq S PROVE task \in S
  <2>1. ASSUME NEW e \in ArrivalsAt(task) PROVE Made({}, r, e[1], e[2])
    <3>1. PICK t \in Tasks : \E i \in DOMAIN Arrivals[t] : e = <<t, i>> /\ Arrivals[t][i] = task
      BY ArrivalMember
    <3>2. t \in Prerequisites(task) /\ e[1] = t
      BY <3>1 DEF Prerequisites
    <3>3. r[t] = 1
      BY <3>2, <1>1
    <3> QED
      BY <3>2, <3>3 DEF Made
  <2>2. Missing({}, r, task) = {}
    BY <2>1 DEF Missing
  <2>3. RunsWhenReady({}, r, task)
    BY DEF Orderly
  <2>4. r[task] = 1
    BY <2>2, <2>3 DEF RunsWhenReady
  <2> QED
    BY <2>4
<1>2. S = Tasks
  <2>1. S \in SUBSET Tasks
    OBVIOUS
  <2> HIDE DEF S
  <2> QED
    BY <1>1, <2>1, GraphAssumption
<1> QED
  BY <1>2

\* Before a block, everything is missing and nothing runs.
LEMMA NothingStarted ==
  ASSUME NEW r, \A task \in Tasks : r[task] = 0
  PROVE  Orderly({}, r) /\ \A task \in Tasks : Missing({}, r, task) = ArrivalsAt(task)
<1>1. ASSUME NEW task \in Tasks PROVE Missing({}, r, task) = ArrivalsAt(task)
  <2>1. ASSUME NEW e \in ArrivalsAt(task) PROVE ~Made({}, r, e[1], e[2])
    <3>1. PICK t \in Tasks : \E i \in DOMAIN Arrivals[t] : e = <<t, i>> /\ Arrivals[t][i] = task
      BY ArrivalMember
    <3>2. e[1] = t
      BY <3>1
    <3> QED
      BY <3>2 DEF Made
  <2> QED
    BY <2>1 DEF Missing
<1>2. ASSUME NEW task \in Tasks PROVE RunsWhenReady({}, r, task)
  BY <1>1, LeafHasNoArrivals DEF RunsWhenReady
<1> QED
  BY <1>1, <1>2 DEF Orderly

\* The build deals the leaves and arms the counters.
LEMMA BuildSteps ==
  ASSUME TypeOK, RunsInv, BuildStep
  PROVE  RunsInv'
<1> USE DEF RunsInv, TypeOK
<1>a. /\ 0 \in Threads /\ pc \in [Threads -> AudioLabels \union WorkerLabels]
      /\ LeafCount \in Nat
  BY RenderAssumption, LeafCountNat DEF Threads, ThreadTypes
<1>b. UNCHANGED <<stack, runs, root, rootDone>>
  BY DEF BuildStep, BeginBuild, AddLeaf, EndBuild, taskVars, rootVars
<1>c. pc'[0] \in {"idle", "build"}
  BY <1>a DEF BuildStep, BeginBuild, AddLeaf, EndBuild, Goto, At
<1>1. TaskInv'
  <2>1. ~InBlock'
    BY <1>c DEF InBlock
  <2> QED
    BY ONLY <1>b, <2>1, TaskInv DEF TaskInv, Held
<1>2. RootRuns'
  BY <1>b DEF RootRuns
<1>3. AllStarted'
  BY <1>c DEF AllStarted
<1>4. PICK on \in [1..LeafCount -> Threads] : Dealt(on)
  BY DEF LeavesDealt
<1>5. CASE BeginBuild
  <2>1. /\ head' = [l \in Threads |-> None] /\ tail' = [l \in Threads |-> None]
        /\ cursor' = [l \in Threads |-> None]
        /\ added' = 0 /\ dirty' = TRUE /\ pc'[0] = "build"
    BY <1>5, <1>a DEF BeginBuild, costVars, Goto
  <2>2. Rearmed' /\ Built' /\ ScanEmpty'
    BY <2>1 DEF Rearmed, Built, InBlock, ScanEmpty
  <2>3. \A l \in Threads : FirstAfter(0, on, l, 0, None)
    BY DEF FirstAfter
  <2>4. Dealt(on)'
    BY ONLY <2>1, <2>3 DEF Dealt
  <2>5. LeavesDealt'
    BY <2>1, <2>4 DEF LeavesDealt, InBlock
  <2> QED
    BY <1>1, <1>2, <1>3, <2>2, <2>5
<1>6. CASE AddLeaf
  <2>1. /\ pc[0] = "build" /\ pc'[0] = "build" /\ dirty' = dirty
        /\ added' = added + 1 /\ added \in Nat /\ added < LeafCount
        /\ pending' = [pending EXCEPT ![LeafOrder[added + 1]] = 0]
        /\ UNCHANGED <<cursor, scan>>
    BY <1>6 DEF AddLeaf, At, GraphTypes, costVars, claimVars
  <2>2. Rearmed' /\ ScanEmpty'
    BY <2>1 DEF Rearmed, ScanEmpty
  <2>3. ASSUME NEW k \in 1..added' PROVE pending'[LeafOrder[k]] = 0
    <3>1. k \in 1..added \/ k = added + 1
      BY <2>1
    <3>2. k \in 1..LeafCount /\ LeafOrder[k] \in Tasks /\ pending \in [Tasks -> Int]
      BY <2>1, <1>a, LeafFacts DEF TaskTypes
    <3> QED
      BY <2>1, <3>1, <3>2 DEF Built
  <2>4. Built'
    BY <2>1, <2>3 DEF Built, InBlock
  <2>5. \E new \in [1..LeafCount -> Threads] : Dealt(new)'
    BY <1>4, <1>6, AddLeafDealt
  <2>6. LeavesDealt'
    BY <2>1, <2>5 DEF LeavesDealt, InBlock
  <2> QED
    BY <1>1, <1>2, <1>3, <2>2, <2>4, <2>6
<1>7. CASE EndBuild
  <2>1. /\ pc[0] = "build" /\ pc'[0] = "idle" /\ added = LeafCount
        /\ pending' = [task \in Tasks |-> IF Dependencies[task] = 0 THEN pending[task]
                                          ELSE Dependencies[task]]
        /\ leafNext' = [task \in Tasks |-> IF Dependencies[task] = 0 THEN leafNext[task]
                                           ELSE None]
        /\ UNCHANGED <<head, tail, added, cursor, scan>>
    BY <1>7, <1>a DEF EndBuild, At, Goto, claimVars
  <2>2. ASSUME NEW task \in Tasks PROVE pending'[task] = Dependencies[task]
    <3>1. CASE Dependencies[task] = 0
      <4>1. PICK i \in 1..LeafCount : task = LeafOrder[i]
        BY <3>1, GraphAssumption
      <4>2. pending[task] = 0
        BY <2>1, <4>1 DEF Built
      <4> QED
        BY <2>1, <3>1, <4>2
    <3>2. CASE Dependencies[task] # 0
      BY <2>1, <3>2
    <3> QED
      BY <3>1, <3>2
  <2>3. Rearmed'
    <3>1. pending' = Dependencies
      BY <2>1, <2>2, RenderAssumption
    <3> QED
      BY <3>1 DEF Rearmed
  <2>4. Built' /\ ScanEmpty'
    BY <2>1 DEF Built, InBlock, ScanEmpty
  <2>5. \A k \in 1..added : leafNext'[LeafOrder[k]] = leafNext[LeafOrder[k]]
    BY <2>1, LeafFacts
  <2>6. Dealt(on)'
    BY ONLY <1>4, <2>1, <2>5 DEF Dealt
  <2>7. LeavesDealt'
    BY <2>1, <2>6 DEF LeavesDealt, InBlock
  <2> QED
    BY <1>1, <1>2, <1>3, <2>3, <2>4, <2>7
<1> QED
  BY <1>5, <1>6, <1>7 DEF BuildStep

\* Marking the graph dirty between blocks.
LEMMA DirtyBetweenBlocks ==
  ASSUME RunsInv, pc[0] = "idle", pc'[0] = pc[0], dirty => dirty',
         UNCHANGED <<listVars, added, cursor, taskVars, rootVars, scan>>
  PROVE  RunsInv'
<1> USE DEF RunsInv
<1>1. UNCHANGED <<head, tail, leafNext, added, cursor, stack, runs, pending, root, rootDone, scan>>
  BY DEF listVars, taskVars, rootVars
<1>2. ~InBlock' /\ pc'[0] = "idle" /\ (~dirty' => ~dirty)
  BY DEF InBlock
<1>3. TaskInv'
  BY ONLY <1>1, <1>2, TaskInv DEF TaskInv, Held
<1>4. RootRuns' /\ AllStarted' /\ Rearmed' /\ Built' /\ ScanEmpty'
  BY <1>1, <1>2 DEF RootRuns, AllStarted, Rearmed, Built, ScanEmpty
<1>5. LeavesDealt'
  <2>1. PICK on \in [1..LeafCount -> Threads] : Dealt(on)
    BY DEF LeavesDealt
  <2>2. Dealt(on)'
    BY ONLY <1>1, <2>1 DEF Dealt
  <2> QED
    BY <1>2, <2>2 DEF LeavesDealt
<1> QED
  BY <1>3, <1>4, <1>5

\* A block starts with every leaf unclaimed and nothing missing but all.
LEMMA StartRuns ==
  ASSUME TypeOK, StackPlaces, NoWorkerInside, RunsInv, NEW gate, StartBlock(gate)
  PROVE  RunsInv'
<1> USE DEF RunsInv
<1>a. /\ 0 \in Threads /\ pc \in [Threads -> AudioLabels \union WorkerLabels]
      /\ scan \in [Threads -> 0..NumWorkers] /\ TaskTypes /\ \A l \in Threads : l \in Nat
  <2>1. 0 \in Threads /\ \A l \in Threads : l \in Nat
    BY RenderAssumption DEF Threads
  <2> QED
    BY <2>1 DEF ThreadTypes, TaskTypes, TypeOK
<1>1. /\ pc[0] = "idle" /\ pc'[0] \in {"load", "open"} /\ ~dirty
      /\ cursor' = head /\ root' = Root /\ rootDone' = FALSE
      /\ runs' = [task \in Tasks |-> 0]
      /\ scan'[0] = 0
      /\ UNCHANGED <<head, tail, leafNext, added, dirty, stack, pending>>
  BY <1>a DEF StartBlock, At, Goto, buildVars, listVars, costVars
<1>2. Held = {} /\ Held' = {}
  <2>1. Held = {}
    BY <1>a, <1>1, NoFrames DEF RunLabels, NoWorkerInside
  <2> QED
    BY <1>1, <2>1 DEF Held
<1>3. /\ Orderly({}, runs')
      /\ \A task \in Tasks : Missing({}, runs', task) = ArrivalsAt(task)
  BY <1>1, NothingStarted
<1>4. pending = Dependencies
  BY <1>1 DEF Rearmed
<1>5. Counted({}, runs', pending')
  <2> SUFFICES ASSUME NEW task \in Tasks
               PROVE  pending[task] = Cardinality(Missing({}, runs', task))
    BY <1>1 DEF Counted
  <2> QED
    BY <1>3, <1>4, GraphAssumption
<1>6. TaskInv'
  BY ONLY <1>1, <1>2, <1>3, <1>5, TaskInv DEF TaskInv
<1>7. RootRuns' /\ AllStarted' /\ Rearmed'
  BY <1>1 DEF RootRuns, AllStarted, Rearmed
<1>8. Built' /\ added = LeafCount
  BY <1>1 DEF Built, InBlock
<1>9. ScanEmpty'
  BY <1>1, <1>a DEF ScanEmpty
<1>10. LeavesDealt'
  <2>1. PICK on \in [1..LeafCount -> Threads] : Dealt(on)
    BY DEF LeavesDealt
  <2>2. Dealt(on)'
    BY ONLY <1>1, <2>1 DEF Dealt
  <2>3. ASSUME NEW l \in Threads
        PROVE  \E k \in 0..LeafCount :
                 /\ FirstAfter(added', on, l, k, cursor'[l])
                 /\ \A j \in 1..LeafCount :
                      on[j] = l => runs'[LeafOrder[j]] = IF j <= k THEN 1 ELSE 0
    <3>1. FirstAfter(added', on, l, 0, cursor'[l])
      BY <1>1, <2>1 DEF Dealt
    <3>2. \A j \in 1..LeafCount : runs'[LeafOrder[j]] = IF j <= 0 THEN 1 ELSE 0
      BY <1>1, LeafFacts
    <3>3. 0 \in 0..LeafCount
      BY LeafCountNat
    <3> QED
      BY <3>1, <3>2, <3>3
  <2>4. Claimed(on)'
    BY ONLY <2>3 DEF Claimed
  <2> QED
    BY <2>2, <2>4 DEF LeavesDealt
<1> QED
  BY <1>6, <1>7, <1>8, <1>9, <1>10

\* The root is done, so that every task has started.
LEMMA CloseRuns ==
  ASSUME TypeOK, RunsInv, CloseBlock
  PROVE  RunsInv'
<1> USE DEF RunsInv
<1>1. /\ pc[0] = "waitRoot" /\ pc'[0] = "waitWorkers" /\ rootDone
      /\ UNCHANGED <<head, tail, leafNext, added, dirty, cursor, stack, runs, pending, root,
                     rootDone, scan>>
  BY RenderAssumption DEF CloseBlock, At, Goto, Threads, ThreadTypes, TypeOK, buildVars, listVars,
     costVars, taskVars, rootVars, claimVars
<1>2. \A task \in Tasks : runs[task] = 1
  BY <1>1, RootIsLast DEF RootRuns, TaskInv
<1>3. InBlock /\ InBlock'
  BY <1>1 DEF InBlock
<1>4. TaskInv'
  BY ONLY <1>1, <1>3, TaskInv DEF TaskInv, Held
<1>5. RootRuns' /\ AllStarted' /\ Rearmed' /\ Built' /\ ScanEmpty'
  BY <1>1, <1>2, <1>3 DEF RootRuns, AllStarted, Rearmed, Built, ScanEmpty
<1>6. LeavesDealt'
  <2>1. PICK on \in [1..LeafCount -> Threads] : Dealt(on) /\ Claimed(on)
    BY <1>3 DEF LeavesDealt
  <2>2. Dealt(on)' /\ Claimed(on)'
    BY ONLY <1>1, <2>1 DEF Dealt, Claimed
  <2> QED
    BY <2>2 DEF LeavesDealt
<1> QED
  BY <1>4, <1>5, <1>6

\* Every counter was rearmed by the task that took it to zero.
LEMMA FinishRuns ==
  ASSUME TypeOK, RunsInv, FinishBlock
  PROVE  RunsInv'
<1> USE DEF RunsInv
<1>1. /\ pc[0] \in {"waitWorkers", "closeSerial"} /\ pc'[0] = "idle" /\ root' = None
      /\ UNCHANGED <<head, tail, leafNext, added, cursor, stack, runs, pending, rootDone, scan>>
  BY RenderAssumption DEF FinishBlock, At, Goto, Threads, ThreadTypes, TypeOK, buildVars, listVars,
     taskVars, claimVars
<1>2. dirty => dirty'
  BY DEF FinishBlock, FinishSample
<1>3. InBlock /\ ~InBlock' /\ ~dirty
  BY <1>1 DEF InBlock, Built
<1>4. \A task \in Tasks : pending[task] = Dependencies[task]
  BY <1>1, <1>3 DEF AllStarted, TaskInv, Counted
<1>5. pending = Dependencies
  BY <1>4, RenderAssumption DEF TypeOK, TaskTypes
<1>6. TaskInv'
  BY ONLY <1>1, <1>3, TaskInv DEF TaskInv, Held
<1>7. RootRuns' /\ AllStarted' /\ Rearmed' /\ Built' /\ ScanEmpty'
  BY <1>1, <1>2, <1>3, <1>5 DEF RootRuns, AllStarted, Rearmed, Built, ScanEmpty
<1>8. LeavesDealt'
  <2>1. PICK on \in [1..LeafCount -> Threads] : Dealt(on)
    BY DEF LeavesDealt
  <2>2. Dealt(on)'
    BY ONLY <1>1, <2>1 DEF Dealt
  <2> QED
    BY <1>3, <2>2 DEF LeavesDealt
<1> QED
  BY <1>6, <1>7, <1>8

\* The rendering thread scans the lists in their order.
LEMMA AudioList ==
  ASSUME TaskTypes
  PROVE  ListOf(0) = scan[0] /\ scan[0] \in 0..NumWorkers
<1>1. 0 \in Threads /\ scan[0] \in 0..NumWorkers
  BY RenderAssumption DEF Threads, TaskTypes
<1>2. \A n \in Nat, d \in Nat : n <= d => n % (d + 1) = n
  OBVIOUS
<1>3. scan[0] % (NumWorkers + 1) = scan[0]
  BY <1>1, <1>2, RenderAssumption
<1> QED
  BY <1>1, <1>3 DEF ListOf

\* The rendering thread leaves a list behind only when it is empty.
LEMMA NextListRuns ==
  ASSUME TypeOK, RunsInv, NextList(0)
  PROVE  RunsInv'
<1> USE DEF RunsInv
<1>1. /\ UNCHANGED <<head, tail, leafNext, added, dirty, cursor, stack, runs, pending, root,
                     rootDone, pc>>
      /\ cursor[ListOf(0)] = None /\ scan' = [scan EXCEPT ![0] = @ + 1]
  BY DEF NextList, buildVars, listVars, costVars, taskVars, rootVars
<1>2. 0 \in Threads /\ ListOf(0) = scan[0] /\ scan[0] \in Nat /\ scan'[0] = scan[0] + 1
  <2>1. 0 \in Threads
    BY RenderAssumption DEF Threads
  <2>2. scan \in [Threads -> 0..NumWorkers]
    BY DEF TypeOK, TaskTypes
  <2> QED
    BY <2>1, <2>2, <1>1, AudioList DEF TypeOK
<1>3. ScanEmpty'
  <2> SUFFICES ASSUME NEW l \in Threads, l < scan[0] + 1 PROVE cursor[l] = None
    BY <1>1, <1>2 DEF ScanEmpty
  <2>1. l \in Nat
    BY RenderAssumption DEF Threads
  <2>2. l < scan[0] \/ l = scan[0]
    BY <1>2, <2>1
  <2> QED
    BY <1>1, <1>2, <2>2 DEF ScanEmpty
<1>4. TaskInv'
  BY ONLY <1>1, TaskInv DEF TaskInv, Held, InBlock
<1>5. RootRuns' /\ AllStarted' /\ Rearmed' /\ Built'
  BY ONLY <1>1, RunsInv DEF RunsInv, RootRuns, AllStarted, Rearmed, Built, InBlock
<1>6. LeavesDealt'
  <2>1. PICK on \in [1..LeafCount -> Threads] : Dealt(on) /\ (InBlock => Claimed(on))
    BY DEF LeavesDealt
  <2>2. Dealt(on)'
    BY ONLY <1>1, <2>1 DEF Dealt
  <2>3. InBlock' => Claimed(on)'
    BY ONLY <1>1, <2>1 DEF Claimed, InBlock
  <2> QED
    BY <2>2, <2>3 DEF LeavesDealt
<1> QED
  BY <1>3, <1>4, <1>5, <1>6

\* A serial block ends when the rendering thread finds every list empty: the
\* leaves have run, and with them all the others.
LEMMA SerialDone ==
  ASSUME TypeOK, BlockInv, StackPlaces, RunsInv, DrainDone(0), openGen = 0
  PROVE  \A task \in Tasks : runs[task] = 1
<1> USE DEF RunsInv
<1>1. pc[0] = "load" /\ cursor[ListOf(0)] = None /\ scan[0] = NumWorkers
  BY DEF DrainDone, At
<1>2. \A w \in Workers : pc[w] \notin DrainLabels
  BY <1>1 DEF BlockInv, DrainsOpenBlock
<1>3. Held = {}
  BY <1>1, <1>2, NoFrames DEF TypeOK, RunLabels
<1>4. ASSUME NEW l \in Threads PROVE cursor[l] = None
  <2>1. l \in Nat /\ (l < NumWorkers \/ l = NumWorkers)
    BY RenderAssumption DEF Threads
  <2> QED
    BY <1>1, <2>1, AudioList DEF ScanEmpty, TypeOK
<1>5. InBlock /\ added = LeafCount
  BY <1>1 DEF InBlock, Built
<1>6. PICK on \in [1..LeafCount -> Threads] : Claimed(on)
  BY <1>5 DEF LeavesDealt
<1>7. ASSUME NEW i \in 1..LeafCount PROVE runs[LeafOrder[i]] = 1
  <2>1. on[i] \in Threads
    OBVIOUS
  <2>2. PICK k \in 0..LeafCount :
          /\ FirstAfter(added, on, on[i], k, None)
          /\ \A j \in 1..LeafCount :
               on[j] = on[i] => runs[LeafOrder[j]] = IF j <= k THEN 1 ELSE 0
    BY <1>4, <1>6, <2>1 DEF Claimed
  <2>3. \A j \in 1..LeafCount : LeafOrder[j] # None
    BY LeafFacts, RenderAssumption
  <2>4. i <= k
    BY <1>5, <2>2, <2>3 DEF FirstAfter
  <2> QED
    BY <2>2, <2>4
<1>8. \A task \in Tasks : Dependencies[task] = 0 => runs[task] = 1
  BY <1>7, GraphAssumption
<1> QED
  BY <1>3, <1>8, AllHaveRun DEF TaskInv

\* The rendering thread ends its drain.
LEMMA DrainDoneRuns ==
  ASSUME TypeOK, BlockInv, StackPlaces, RunsInv, DrainDone(0)
  PROVE  RunsInv'
<1> USE DEF RunsInv
<1>1. /\ pc[0] = "load" /\ pc'[0] = IF openGen = 0 THEN "closeSerial" ELSE "waitRoot"
      /\ UNCHANGED <<head, tail, leafNext, added, dirty, cursor, stack, runs, pending, root,
                     rootDone, scan>>
  BY RenderAssumption DEF DrainDone, At, Goto, Threads, ThreadTypes, TypeOK, buildVars, listVars,
     costVars, taskVars, rootVars, claimVars
<1>2. openGen = 0 => \A task \in Tasks : runs[task] = 1
  BY SerialDone
<1>3. InBlock /\ InBlock'
  BY <1>1 DEF InBlock
<1>4. TaskInv'
  BY ONLY <1>1, <1>3, TaskInv DEF TaskInv, Held
<1>5. RootRuns' /\ AllStarted' /\ Rearmed' /\ Built' /\ ScanEmpty'
  BY <1>1, <1>2, <1>3 DEF RootRuns, AllStarted, Rearmed, Built, ScanEmpty
<1>6. LeavesDealt'
  <2>1. PICK on \in [1..LeafCount -> Threads] : Dealt(on) /\ Claimed(on)
    BY <1>3 DEF LeavesDealt
  <2>2. Dealt(on)' /\ Claimed(on)'
    BY ONLY <1>1, <2>1 DEF Dealt, Claimed
  <2> QED
    BY <2>2 DEF LeavesDealt
<1> QED
  BY <1>4, <1>5, <1>6

\* A step inside a block that touches neither the lists nor the runs of leaves.
LEMMA TasksMove ==
  ASSUME RunsInv, InBlock, TaskInv', RootRuns',
         UNCHANGED <<head, tail, leafNext, added, dirty, cursor>>, scan'[0] = scan[0],
         pc'[0] = pc[0] \/ (pc[0] \in RenderLabels /\ pc'[0] \in RenderLabels),
         \A task \in Tasks : runs[task] = 1 => runs'[task] = 1,
         \A task \in Tasks : Dependencies[task] = 0 => runs'[task] = runs[task]
  PROVE  RunsInv'
<1> USE DEF RunsInv
<1>1. /\ InBlock' /\ pc'[0] # "idle" /\ pc'[0] # "build" /\ pc[0] # "build"
      /\ pc'[0] \in {"waitWorkers", "closeSerial"} => pc[0] \in {"waitWorkers", "closeSerial"}
  BY DEF InBlock, RenderLabels
<1>2. AllStarted' /\ Rearmed' /\ Built' /\ ScanEmpty'
  BY <1>1 DEF AllStarted, Rearmed, Built, ScanEmpty
<1>3. LeavesDealt'
  <2>1. PICK on \in [1..LeafCount -> Threads] : Dealt(on) /\ Claimed(on)
    BY DEF LeavesDealt
  <2>2. Dealt(on)'
    BY ONLY UNCHANGED <<head, tail, leafNext, added>>, <2>1 DEF Dealt
  <2>3. \A j \in 1..LeafCount : runs'[LeafOrder[j]] = runs[LeafOrder[j]]
    BY LeafFacts
  <2>4. Claimed(on)'
    BY ONLY UNCHANGED <<added, cursor>>, <2>1, <2>3 DEF Claimed
  <2> QED
    BY <2>2, <2>4 DEF LeavesDealt
<1> QED
  BY <1>2, <1>3

\* Work, arrivals, the start of a task and its return.
LEMMA TaskRuns ==
  ASSUME TypeOK, NoWorkerInside, RunsInv, NEW t \in Threads, TaskStep(t)
  PROVE  RunsInv'
<1>1. TaskInv /\ RootRuns
  BY DEF RunsInv
<1>2. Inside(t) /\ ThreadTypes /\ TaskTypes
  BY DEF TaskStep, Work, Arrive, ResetAndRun, ReturnTask, TypeOK
<1>3. pc[t] = "run" /\ Top(t).task \in Tasks
  BY <1>2, TopFacts
<1>4. InBlock
  BY <1>3, DrainerInBlock DEF DrainLabels
<1>5. /\ UNCHANGED <<head, tail, leafNext, added, dirty, cursor, root>> /\ scan'[0] = scan[0]
  BY DEF TaskStep, Work, Arrive, ResetAndRun, ReturnTask, buildVars, listVars, costVars,
     rootVars, claimVars
<1>6. pc'[0] = pc[0] \/ (pc[0] \in RenderLabels /\ pc'[0] \in RenderLabels)
  <2>1. UNCHANGED pc \/ \E label \in {"load", "run"} : Goto(t, label)
    BY DEF TaskStep, Work, Arrive, ResetAndRun, ReturnTask
  <2>2. 0 \in Threads
    BY RenderAssumption DEF Threads
  <2> QED
    BY <2>1, <2>2, <1>2, <1>3 DEF ThreadTypes, Goto, RenderLabels
<1>7. ASSUME TaskInv', UNCHANGED runs, RootRuns' PROVE RunsInv'
  <2>1. /\ \A task \in Tasks : runs[task] = 1 => runs'[task] = 1
        /\ \A task \in Tasks : Dependencies[task] = 0 => runs'[task] = runs[task]
    BY <1>7
  <2>2. UNCHANGED <<head, tail, leafNext, added, dirty, cursor>> /\ scan'[0] = scan[0]
    BY <1>5
  <2> QED
    BY ONLY RunsInv, <1>4, <1>6, <1>7, <2>1, <2>2, TasksMove
<1>8. CASE Work(t) \/ Arrive(t)
  <2>1. TaskInv' /\ UNCHANGED runs
    BY <1>1, <1>8, WorkStep, ArriveStep
  <2>2. UNCHANGED <<root, rootDone>>
    BY <1>8 DEF Work, Arrive, rootVars
  <2>3. RootRuns'
    BY <1>1, <2>1, <2>2 DEF RootRuns
  <2> QED
    BY <2>1, <2>3, <1>7
<1>9. CASE ReturnTask(t)
  <2>1. TaskInv' /\ UNCHANGED runs /\ runs[Top(t).task] = 1
    BY <1>1, <1>9, ReturnStep
  <2>2. root' = root /\ (rootDone' => rootDone \/ Top(t).task = root)
    BY <1>9 DEF ReturnTask
  <2>3. RootRuns'
    BY <1>1, <1>3, <2>1, <2>2, RenderAssumption DEF RootRuns
  <2> QED
    BY <2>1, <2>3, <1>7
<1>10. CASE ResetAndRun(t)
  <2>1. TaskInv' /\ Dependencies[Top(t).task] # 0 /\ runs' = [runs EXCEPT ![Top(t).task] = 1]
    BY <1>1, <1>10, ResetStep
  <2>2. runs \in [Tasks -> Nat] /\ UNCHANGED <<root, rootDone>>
    BY <1>2, <1>10 DEF TaskTypes, ResetAndRun, rootVars
  <2>3. /\ \A task \in Tasks : runs[task] = 1 => runs'[task] = 1
        /\ \A task \in Tasks : Dependencies[task] = 0 => runs'[task] = runs[task]
    BY <1>3, <2>1, <2>2
  <2>4. RootRuns'
    BY <1>1, <2>2, <2>3, RenderAssumption DEF RootRuns
  <2>5. UNCHANGED <<head, tail, leafNext, added, dirty, cursor>> /\ scan'[0] = scan[0]
    BY <1>5
  <2>6. TaskInv'
    BY <2>1
  <2> QED
    BY ONLY RunsInv, <1>4, <1>6, <2>3, <2>4, <2>5, <2>6, TasksMove
<1> QED
  BY <1>8, <1>9, <1>10 DEF TaskStep

\* The leaf that is claimed has not run, and gets the thread's only frame.
LEMMA ClaimRuns ==
  ASSUME TypeOK, NoWorkerInside, StackPlaces, RunsInv, NEW t \in Threads, ClaimLeaf(t)
  PROVE  /\ RunsInv'
         /\ loaded[t] \in Tasks /\ Dependencies[loaded[t]] = 0 /\ runs[loaded[t]] = 0
         /\ runs' = [runs EXCEPT ![loaded[t]] = 1]
         /\ AtWork(Held') = AtWork(Held) \union {Frame(loaded[t], "work")}
<1> DEFINE x == loaded[t]
           g == Frame(x, "work")
<1>1. /\ pc[t] = "cas" /\ At(t, "cas") /\ ClaimHolds(t)
      /\ cursor' = [cursor EXCEPT ![ListOf(t)] = leafNext[x]]
      /\ stack' = [stack EXCEPT ![t] = <<g>>]
      /\ runs' = [runs EXCEPT ![x] = @ + 1]
      /\ Goto(t, IF t \in Workers /\ woken[t] /\ ~WakeExact THEN "passRead" ELSE "run")
      /\ UNCHANGED <<head, tail, leafNext, added, dirty, pending, root, rootDone, scan>>
  BY DEF ClaimLeaf, At, buildVars, listVars, costVars, rootVars
<1>2. /\ stack \in [Threads -> Seq(Frames)] /\ runs \in [Tasks -> Nat] /\ ThreadTypes
      /\ cursor \in [Threads -> OrNone(Tasks)] /\ x # None
  BY <1>1 DEF TypeOK, TaskTypes, BlockTypes, ClaimTypes
<1>3. InBlock
  BY <1>1, DrainerInBlock DEF DrainLabels
<1>4. /\ TaskInv /\ Orderly(Held, runs) /\ Counted(Held, runs, pending) /\ OnePlace(stack)
      /\ RootRuns /\ AllStarted /\ Built /\ added = LeafCount /\ ScanEmpty
  BY <1>3 DEF RunsInv, TaskInv, Built
<1>5. PICK on \in [1..LeafCount -> Threads] : Dealt(on) /\ Claimed(on)
  BY <1>3 DEF RunsInv, LeavesDealt
<1>6. x \in Tasks /\ runs[x] = 0 /\ Dependencies[x] = 0
  <2>1. \E k \in 0..LeafCount, j \in 1..LeafCount :
           /\ on[j] = ListOf(t) /\ j > k /\ loaded[t] = LeafOrder[j]
           /\ runs[LeafOrder[j]] = 0
           /\ \A i \in 1..LeafCount : on[i] = ListOf(t) /\ i > k => i >= j
           /\ \A i \in 1..LeafCount :
                on[i] = ListOf(t) => runs[LeafOrder[i]] = IF i <= k THEN 1 ELSE 0
    BY <1>1, <1>4, <1>5, ClaimFirst
  <2>2. PICK j \in 1..LeafCount : x = LeafOrder[j] /\ runs[LeafOrder[j]] = 0
    BY <2>1
  <2> QED
    BY <2>2, LeafFacts
<1>7. Dealt(on)' /\ Claimed(on)'
  BY <1>4, <1>5, ClaimKeepsDealt
<1>8. g \in Frames /\ g.task = x
  BY <1>6, FrameType DEF Frame, Phases
<1>9. stack' = [stack EXCEPT ![t] = <<g>> \o @]
  <2>1. stack[t] = <<>>
    BY <1>1 DEF StackPlaces, RunLabels
  <2>2. <<g>> \o stack[t] = <<g>>
    BY <2>1, <1>8
  <2> QED
    BY <2>2, <1>1
<1> HIDE DEF x, g
<1>a. Held \in SUBSET Frames
  BY <1>2, FrameTypes DEF Held
<1>10. /\ Orderly(Held \union {g}, runs') /\ runs'[x] = 1
       /\ \A f \in Held : f.task # x
       /\ StillMissing(Held, runs, Held \union {g}, runs')
  <2> DEFINE I == Held \union {g}
  <2>1. I = Held \union {Frame(x, "work")}
    BY DEF g
  <2>2. runs' = [runs EXCEPT ![x] = @ + 1]
    BY <1>1
  <2>3. Orderly(Held, runs) /\ runs \in [Tasks -> Nat]
    BY <1>2, <1>4
  <2> HIDE DEF Held, I
  <2>4. Orderly(I, runs')
    BY ONLY <1>6, <1>a, <2>1, <2>2, <2>3, LeafStarts
  <2>5. runs'[x] = 1
    BY ONLY <1>6, <2>2, <2>3
  <2>6. \A f \in Held : f.task # x
    BY <1>4, <1>6 DEF Orderly, FrameAgrees
  <2>7. StillMissing(Held, runs, I, runs')
    BY ONLY <1>6, <1>a, <2>1, <2>2, <2>3, LeafStarts
  <2> QED
    BY <2>4, <2>5, <2>6, <2>7 DEF I
<1>11. OnePlace(stack') /\ Held' = Held \union {g}
  <2>1. stack \in [Threads -> Seq(Frames)] /\ OnePlace(stack)
    BY <1>2, <1>4
  <2>2. g \in Frames /\ \A f \in FramesIn(stack) : f.task # g.task
    BY <1>8, <1>10 DEF Held
  <2>3. OnePlace(stack') /\ FramesIn(stack') = FramesIn(stack) \union {g}
    BY ONLY <2>1, <2>2, <1>9, t \in Threads, Pushed
  <2> QED
    BY <2>3 DEF Held
<1>12. \A task \in Tasks : task # x => runs'[task] = runs[task]
  BY <1>1, <1>2
<1>13. ASSUME NEW task \in Tasks
       PROVE  pending[task] = IF runs'[task] = 0 THEN Cardinality(Missing(Held', runs', task))
                                                 ELSE Dependencies[task]
  <2>1. CASE task = x
    <3>1. pending[x] = Cardinality(Missing(Held, runs, x))
      BY <1>4, <1>6 DEF Counted
    <3>2. Cardinality(Missing(Held, runs, x)) = 0
      BY <1>6, LeafHasNoArrivals, MissingFinite
    <3>3. runs'[task] # 0
      BY <2>1, <1>10
    <3> QED
      BY <2>1, <3>1, <3>2, <3>3, <1>6
  <2>2. CASE task # x
    <3>1. Missing(Held', runs', task) = Missing(Held, runs, task)
      BY <1>10, <1>11 DEF StillMissing
    <3> QED
      BY <2>2, <3>1, <1>4, <1>12 DEF Counted
  <2> QED
    BY <2>1, <2>2
<1>14. TaskInv'
  BY <1>1, <1>10, <1>11, <1>13 DEF TaskInv, Counted
<1>15. /\ InBlock' /\ pc'[0] # "idle" /\ pc'[0] # "build"
       /\ pc'[0] \in {"waitWorkers", "closeSerial"} => pc[0] \in {"waitWorkers", "closeSerial"}
  <2>1. 0 \in Threads
    BY RenderAssumption DEF Threads
  <2>2. pc'[0] = pc[0] \/ pc'[0] \in {"passRead", "run"}
    BY <2>1, <1>1, <1>2 DEF ThreadTypes, Goto
  <2> QED
    BY <2>2, <1>3 DEF InBlock
<1>16. RootRuns' /\ AllStarted'
  BY <1>1, <1>4, <1>10, <1>12, <1>15, RenderAssumption DEF RootRuns, AllStarted
<1>17. Rearmed' /\ Built'
  BY <1>1, <1>4, <1>15, <1>3 DEF Rearmed, Built
<1>18. ScanEmpty'
  <2> SUFFICES ASSUME NEW l \in Threads, l < scan[0] PROVE cursor'[l] = None
    BY <1>1 DEF ScanEmpty
  <2>1. cursor[l] = None /\ cursor[ListOf(t)] # None
    BY <1>1, <1>2, <1>4 DEF ScanEmpty, ClaimHolds, x
  <2> QED
    BY <2>1, <1>1, <1>2
<1>19. LeavesDealt'
  BY <1>7 DEF LeavesDealt
<1>20. RunsInv'
  BY <1>14, <1>16, <1>17, <1>18, <1>19 DEF RunsInv
<1>21. AtWork(Held') = AtWork(Held) \union {g}
  BY <1>11 DEF AtWork, g, Frame
<1>22. runs' = [runs EXCEPT ![x] = 1]
  BY <1>1, <1>2, <1>6
<1> QED
  BY <1>6, <1>20, <1>21, <1>22 DEF x, g

\* No step of the scheduler disturbs RunsInv.
LEMMA RunsStep ==
  ASSUME TypeOK, BlockInv, StackPlaces, RunsInv, [Next]_vars
  PROVE  RunsInv'
<1>a. NoWorkerInside
  BY DEF BlockInv, OpenDuringRun, DrainsOpenBlock, NoWorkerInside, DrainLabels
<1>b. /\ 0 \in Threads /\ 0 \notin Workers /\ Workers \subseteq Threads
      /\ \A t \in Threads : t = 0 \/ t \in Workers
  BY RenderAssumption DEF Threads, Workers
<1>c. ThreadTypes /\ TaskTypes
  BY DEF TypeOK
<1> DEFINE Same == UNCHANGED <<listVars, added, dirty, cursor, taskVars, rootVars>>
<1>1. ASSUME Same, scan'[0] = scan[0],
             NEW t \in Threads, NEW label, Goto(t, label),
             t # 0 \/ (pc[0] \in RenderLabels /\ label \in RenderLabels)
      PROVE  RunsInv'
  <2>1. pc'[0] = pc[0] \/ (pc[0] \in RenderLabels /\ pc'[0] \in RenderLabels)
    BY <1>1, <1>b, <1>c DEF Goto, ThreadTypes
  <2> QED
    BY ONLY <1>1, <2>1, RunsInv, Untouched
<1>2. ASSUME Same, scan'[0] = scan[0],
             NEW count, NEW t \in Threads, NEW label, WakeParked(count, t, label),
             t # 0 \/ label = pc[0] \/ (pc[0] \in RenderLabels /\ label \in RenderLabels)
      PROVE  RunsInv'
  <2>1. pc'[0] = pc[0] \/ (pc[0] \in RenderLabels /\ pc'[0] \in RenderLabels)
    BY <1>2, <1>b DEF WakeParked, Asleep
  <2> QED
    BY ONLY <1>2, <2>1, RunsInv, Untouched
<1>3. ASSUME Same, scan'[0] = scan[0], pc' = pc PROVE RunsInv'
  <2>1. pc'[0] = pc[0]
    BY <1>3
  <2> QED
    BY ONLY <1>3, <2>1, RunsInv, Untouched
<1> USE DEF buildVars, costVars
<1>4. CASE BuildStep
  BY <1>4, BuildSteps
<1>5. CASE StartStep
  BY <1>5, <1>a, StartRuns DEF StartStep
<1>6. CASE CloseBlock \/ FinishBlock
  BY <1>6, CloseRuns, FinishRuns
<1>7. CASE OpenBlock \/ ReadParked \/ BumpEpoch
  BY <1>7, <1>b, <1>1 DEF OpenBlock, ReadParked, BumpEpoch, At, claimVars, RenderLabels
<1>8. CASE WakeWorkers
  BY <1>8, <1>b, <1>2 DEF WakeWorkers, At, claimVars, RenderLabels
<1>9. CASE MarkDirty
  <2>1. /\ pc[0] = "idle" /\ pc'[0] = pc[0] /\ (dirty => dirty')
        /\ UNCHANGED <<listVars, added, cursor, taskVars, rootVars, scan>>
    BY <1>9 DEF MarkDirty, At, claimVars
  <2> QED
    BY ONLY <2>1, RunsInv, DirtyBetweenBlocks
<1>10. CASE Startup
  <2>1. /\ pc[0] = "idle" /\ pc'[0] = pc[0] /\ dirty' \in {dirty, TRUE}
        /\ UNCHANGED <<listVars, added, cursor, taskVars, rootVars, scan>>
    BY <1>10, <1>b DEF Startup, At, claimVars
  <2>2. dirty => dirty'
    <3>1. dirty' = dirty \/ dirty' = TRUE
      BY <2>1
    <3> QED
      BY ONLY <3>1
  <2> QED
    BY ONLY <2>1, <2>2, RunsInv, DirtyBetweenBlocks
<1>11. CASE Shutdown \/ ShutdownBump \/ Join
  BY <1>11, <1>3 DEF Shutdown, ShutdownBump, Join, claimVars
<1>12. CASE ShutdownWake
  BY <1>12, <1>b, <1>2 DEF ShutdownWake, claimVars
<1>13. ASSUME NEW t \in Threads, TaskStep(t) PROVE RunsInv'
  BY <1>13, <1>a, TaskRuns
<1>14. ASSUME NEW t \in Threads, ClaimLeaf(t) PROVE RunsInv'
  BY <1>14, <1>a, ClaimRuns
<1>15. ASSUME NEW t \in Threads, LoadCursor(t) \/ ClaimLost(t) PROVE RunsInv'
  BY <1>15, <1>1 DEF LoadCursor, ClaimLost, At, RenderLabels
<1>16. ASSUME NEW t \in Threads, NextList(t) PROVE RunsInv'
  <2>1. CASE t = 0
    BY <1>16, <2>1, NextListRuns
  <2>2. CASE t # 0
    BY <1>16, <2>2, <1>3, <1>b, <1>c DEF NextList, TaskTypes
  <2> QED
    BY <2>1, <2>2
<1>17. ASSUME NEW t \in Threads, DrainDone(t) PROVE RunsInv'
  <2>1. CASE t = 0
    BY <1>17, <2>1, DrainDoneRuns
  <2>2. CASE t # 0
    BY <1>17, <2>2, <1>1 DEF DrainDone, claimVars
  <2> QED
    BY <2>1, <2>2
<1>18. ASSUME NEW w \in Workers, PassWakeCall(w) PROVE RunsInv'
  BY <1>18, <1>b, <1>2 DEF PassWakeCall, claimVars
<1>19. ASSUME NEW w \in Workers,
              \/ TestRunning(w) \/ Announce(w) \/ Leave(w) \/ Spin(w)
              \/ SampleEpoch(w) \/ PrePark(w) \/ Recheck(w) \/ ParkOn(w) \/ Unpark(w)
              \/ SpuriousWake(w)
       PROVE  RunsInv'
  BY <1>19, <1>b, <1>1 DEF TestRunning, Announce, Leave, Spin, SampleEpoch, PrePark,
     Recheck, ParkOn, Unpark, SpuriousWake, claimVars
<1>20. ASSUME NEW w \in Workers, ReadGen(w) \/ PassWakeOn(w) PROVE RunsInv'
  BY <1>20, <1>b, <1>c, <1>1 DEF ReadGen, PassWakeOn, claimVars, TaskTypes
<1>21. CASE UNCHANGED vars
  BY <1>21, <1>3 DEF vars, claimVars
<1> QED
  BY <1>4, <1>5, <1>6, <1>7, <1>8, <1>9, <1>10, <1>11, <1>12, <1>13, <1>14, <1>15, <1>16,
     <1>17, <1>18, <1>19, <1>20, <1>21
     DEF Next, BlockStep, StopStep, DrainStep, LoopStep

\* Nothing has run before the first build, and no leaf is dealt.
LEMMA RunsInit ==
  ASSUME Init
  PROVE  StackPlaces /\ RunsInv
<1>1. 0 \in Threads /\ pc[0] = "idle"
  BY RenderAssumption DEF Init, Threads
<1>2. StackPlaces
  BY DEF Init, StackPlaces
<1>3. Held = {}
  <2> SUFFICES ASSUME NEW f \in Held PROVE FALSE
    OBVIOUS
  <2>1. PICK t \in Threads : \E i \in DOMAIN stack[t] : f = stack[t][i]
    BY FrameMember DEF Held
  <2> QED
    BY <2>1 DEF Init
<1>4. Orderly({}, runs)
  BY NothingStarted DEF Init
<1>5. OnePlace(stack)
  BY DEF OnePlace, Init
<1>6. TaskInv
  BY <1>1, <1>3, <1>4, <1>5 DEF TaskInv, InBlock
<1>7. RootRuns /\ AllStarted /\ Rearmed /\ Built
  BY <1>1 DEF Init, RootRuns, AllStarted, Rearmed, Built, InBlock
<1>8. ScanEmpty
  BY DEF Init, ScanEmpty
<1>9. LeavesDealt
  <2> DEFINE on == [k \in 1..LeafCount |-> 0]
  <2>1. on \in [1..LeafCount -> Threads]
    BY <1>1
  <2>2. \A l \in Threads : FirstAfter(0, on, l, 0, None)
    BY DEF FirstAfter
  <2> HIDE DEF on
  <2>3. Dealt(on)
    BY <2>2 DEF Dealt, Init
  <2> QED
    BY <1>1, <2>1, <2>3 DEF LeavesDealt, InBlock
<1> QED
  BY <1>2, <1>6, <1>7, <1>8, <1>9 DEF RunsInv

\* The inductive invariant behind RunsOnce, in every reachable state.
THEOREM TasksInOrder == Spec => [](StackPlaces /\ RunsInv)
<1>1. Init => StackPlaces /\ RunsInv
  BY RunsInit
<1>2. TypeOK /\ BlockInv /\ StackPlaces /\ RunsInv /\ [Next]_vars => StackPlaces' /\ RunsInv'
  BY StackPlacesStep, RunsStep DEF BlockInv
<1> QED
  BY <1>1, <1>2, TypeCorrect, BlockInvariant, PTL DEF Spec

\* Whatever the graph and the number of workers, no task runs twice in a block,
\* a block that ends has run them all, and the counters are ready for the next.
THEOREM TasksRunOnce == Spec => []RunsOnce
<1>1. TypeOK /\ BlockInv /\ StackPlaces /\ RunsInv => RunsOnce
  <2> SUFFICES ASSUME TypeOK, BlockInv, StackPlaces, RunsInv PROVE RunsOnce
    OBVIOUS
  <2>1. \A task \in Tasks : runs[task] <= 1
    <3>1. \A task \in Tasks : runs[task] \in {0, 1}
      BY DEF RunsInv, TaskInv, Orderly, RunsWhenReady
    <3> QED
      BY <3>1
  <2>2. pc[0] \in {"waitWorkers", "closeSerial"} => Started = Tasks
    <3>1. pc[0] \in {"waitWorkers", "closeSerial"} => \A task \in Tasks : runs[task] > 0
      BY DEF RunsInv, AllStarted
    <3> QED
      BY <3>1 DEF Started
  <2>3. pc[0] = "idle" /\ ~dirty => pending = Dependencies
    BY DEF RunsInv, Rearmed
  <2>4. pc[0] = "idle" => \A t \in Threads : stack[t] = <<>>
    <3>1. pc[0] = "idle" => pc[0] \notin RunLabels /\ \A w \in Workers : pc[w] \notin DrainLabels
      BY DEF BlockInv, OpenDuringRun, DrainsOpenBlock, DrainLabels, RunLabels
    <3> QED
      BY <3>1, NoFrames DEF TypeOK
  <2> QED
    BY <2>1, <2>2, <2>3, <2>4 DEF RunsOnce
<1> QED
  BY <1>1, TypeCorrect, BlockInvariant, TasksInOrder, PTL

\* The tasks at work on the stacks st.
WorkIn(st) ==
  {task \in Tasks : \E t \in Threads : \E i \in DOMAIN st[t] :
     st[t][i].task = task /\ st[t][i].phase = "work"}

\* They are those of the frames at work.
LEMMA WorkingFrames ==
  ASSUME NEW st \in [Threads -> Seq(Frames)], NEW task
  PROVE  task \in WorkIn(st) <=> \E f \in AtWork(FramesIn(st)) : f.task = task
<1>1. ASSUME task \in WorkIn(st) PROVE \E f \in AtWork(FramesIn(st)) : f.task = task
  <2>1. PICK t \in Threads : \E i \in DOMAIN st[t] :
          st[t][i].task = task /\ st[t][i].phase = "work"
    BY <1>1 DEF WorkIn
  <2>2. PICK i \in DOMAIN st[t] : st[t][i].task = task /\ st[t][i].phase = "work"
    BY <2>1
  <2>3. st[t][i] \in FramesIn(st)
    BY FrameMember
  <2> QED
    BY <2>2, <2>3 DEF AtWork
<1>2. ASSUME NEW f \in AtWork(FramesIn(st)), f.task = task PROVE task \in WorkIn(st)
  <2>1. f \in FramesIn(st) /\ f.phase = "work"
    BY DEF AtWork
  <2>2. PICK t \in Threads : \E i \in DOMAIN st[t] : f = st[t][i]
    BY <2>1, FrameMember
  <2>3. f \in Frames
    BY <2>1, FrameTypes
  <2> QED
    BY <1>2, <2>1, <2>2, <2>3 DEF WorkIn, Frames
<1> QED
  BY <1>1, <1>2

\* The tasks at work in the scheduler are those of its frames at work.
LEMMA WorkingHeld ==
  ASSUME TypeOK
  PROVE  \A task : task \in Working <=> \E f \in AtWork(Held) : f.task = task
<1>1. stack \in [Threads -> Seq(Frames)]
  BY DEF TypeOK, TaskTypes
<1>2. Working = WorkIn(stack)
  BY DEF Working, WorkIn
<1> QED
  BY ONLY <1>1, <1>2, WorkingFrames DEF Held

\* The same after a step.
LEMMA WorkingHeldNext ==
  ASSUME TypeOK'
  PROVE  \A task : task \in Working' <=> \E f \in AtWork(Held') : f.task = task
<1>1. stack' \in [Threads -> Seq(Frames)]
  BY DEF TypeOK, TaskTypes
<1>2. Working' = WorkIn(stack')
  BY DEF Working, WorkIn
<1> QED
  BY ONLY <1>1, <1>2, WorkingFrames DEF Held

\* A task may start when nothing is missing: what it waits for is finished.
LEMMA ReadyFinished ==
  ASSUME TypeOK, NEW task \in Tasks, Missing(Held, runs, task) = {}
  PROVE  Prerequisites(task) \subseteq Finished
<1> SUFFICES ASSUME NEW t \in Prerequisites(task) PROVE t \in Finished
  OBVIOUS
<1>1. PICK i \in DOMAIN Arrivals[t] : t \in Tasks /\ Arrivals[t][i] = task
  BY DEF Prerequisites
<1>2. Made(Held, runs, t, i)
  <2>1. <<t, i>> \in ArrivalsAt(task)
    BY <1>1, ArrivalMember
  <2> QED
    BY <2>1 DEF Missing
<1>3. t \in Started
  BY <1>1, <1>2 DEF Made, Started
<1>4. t \notin Working
  <2> SUFFICES ASSUME t \in Working PROVE FALSE
    OBVIOUS
  <2>1. PICK f \in AtWork(Held) : f.task = t
    BY WorkingHeld DEF TypeOK
  <2> QED
    BY <2>1, <1>2 DEF AtWork, Made
<1> QED
  BY <1>3, <1>4 DEF Finished

\* A task starts in the abstract block.
LEMMA BeginStep ==
  ASSUME TypeOK, TypeOK', InBlock, InBlock', NEW x \in Tasks, runs[x] = 0,
         Prerequisites(x) \subseteq Finished,
         runs' = [runs EXCEPT ![x] = 1],
         AtWork(Held') = AtWork(Held) \union {Frame(x, "work")}
  PROVE  Block!Begin(x)
<1>1. runs \in [Tasks -> Nat]
  BY DEF TypeOK, TaskTypes
<1>2. x \notin Started /\ Started' = Started \union {x}
  BY <1>1 DEF Started
<1>3. ASSUME NEW task PROVE task \in Working' <=> task \in Working \/ task = x
  <2>1. task \in Working <=> \E f \in AtWork(Held) : f.task = task
    BY WorkingHeld
  <2>2. task \in Working' <=> \E f \in AtWork(Held') : f.task = task
    BY WorkingHeldNext
  <2>3. Frame(x, "work").task = x
    BY DEF Frame
  <2> QED
    BY <2>1, <2>2, <2>3
<1>4. Finished' = Finished
  BY <1>2, <1>3 DEF Finished
<1> QED
  BY <1>2, <1>4 DEF Block!Begin, InBlock

\* A task's work ends in the abstract block.
LEMMA EndStep ==
  ASSUME TypeOK, TypeOK', InBlock, InBlock', Orderly(Held, runs), UNCHANGED runs,
         NEW f \in AtWork(Held), f.task \in Tasks, runs[f.task] = 1,
         AtWork(Held') = AtWork(Held) \ {f}
  PROVE  Block!End(f.task)
<1>1. Started' = Started /\ f.task \in Started
  BY DEF Started
<1>2. f.task \in Working
  BY WorkingHeld
<1>3. \A g \in AtWork(Held) : g.task = f.task => g = f
  BY DEF Orderly, AtWork
<1>4. ASSUME NEW task PROVE task \in Working' <=> task \in Working /\ task # f.task
  <2>1. task \in Working <=> \E g \in AtWork(Held) : g.task = task
    BY WorkingHeld
  <2>2. task \in Working' <=> \E g \in AtWork(Held') : g.task = task
    BY WorkingHeldNext
  <2> QED
    BY <2>1, <2>2, <1>3
<1>5. f.task \notin Finished /\ Finished' = Finished \union {f.task}
  BY <1>1, <1>2, <1>4 DEF Finished
<1> QED
  BY <1>1, <1>5 DEF Block!End, InBlock

\* Nothing that the abstract block sees changes.
LEMMA StutterStep ==
  ASSUME TypeOK, TypeOK', InBlock' <=> InBlock, UNCHANGED runs, AtWork(Held') = AtWork(Held)
  PROVE  UNCHANGED Block!blockVars
<1>1. Started' = Started
  BY DEF Started
<1>2. ASSUME NEW task PROVE task \in Working' <=> task \in Working
  <2>1. task \in Working <=> \E g \in AtWork(Held) : g.task = task
    BY WorkingHeld
  <2>2. task \in Working' <=> \E g \in AtWork(Held') : g.task = task
    BY WorkingHeldNext
  <2> QED
    BY <2>1, <2>2
<1>3. Finished' = Finished
  BY <1>1, <1>2 DEF Finished
<1> QED
  BY <1>1, <1>3 DEF Block!blockVars, InBlock

\* The task steps of a thread.
LEMMA TaskRefines ==
  ASSUME TypeOK, TypeOK', NoWorkerInside, RunsInv, NEW t \in Threads, TaskStep(t)
  PROVE  [Block!Next]_(Block!blockVars)
<1>1. TaskInv /\ Orderly(Held, runs)
  BY DEF RunsInv, TaskInv
<1>2. Inside(t) /\ ThreadTypes /\ TaskTypes
  BY DEF TaskStep, Work, Arrive, ResetAndRun, ReturnTask, TypeOK
<1>3. pc[t] = "run" /\ Top(t).task \in Tasks
  BY <1>2, TopFacts
<1>4. InBlock /\ InBlock'
  <2>1. UNCHANGED pc \/ \E label \in {"load", "run"} : Goto(t, label)
    BY DEF TaskStep, Work, Arrive, ResetAndRun, ReturnTask
  <2>2. InBlock
    BY <1>3, DrainerInBlock DEF DrainLabels
  <2>3. InBlock' <=> InBlock
    BY <2>1, <1>2, <1>3, MoveInBlock DEF DrainLabels
  <2> QED
    BY <2>2, <2>3
<1>5. CASE Work(t)
  <2>1. /\ UNCHANGED runs /\ runs[Top(t).task] = 1
        /\ Top(t) \in AtWork(Held) /\ AtWork(Held') = AtWork(Held) \ {Top(t)}
    BY <1>1, <1>5, WorkStep
  <2>2. Block!End(Top(t).task)
    BY ONLY <1>1, <1>3, <1>4, <2>1, TypeOK, TypeOK', EndStep
  <2> QED
    BY <1>3, <2>2 DEF Block!Next, Block!Progress
<1>6. CASE Arrive(t) \/ ReturnTask(t)
  <2>1. UNCHANGED runs /\ AtWork(Held') = AtWork(Held)
    BY <1>1, <1>6, ArriveStep, ReturnStep
  <2> QED
    BY <1>4, <2>1, StutterStep
<1>7. CASE ResetAndRun(t)
  <2>1. /\ runs[Top(t).task] = 0 /\ Missing(Held, runs, Top(t).task) = {}
        /\ runs' = [runs EXCEPT ![Top(t).task] = 1]
        /\ AtWork(Held') = AtWork(Held) \union {Frame(Top(t).task, "work")}
    BY <1>1, <1>7, ResetStep
  <2>2. Prerequisites(Top(t).task) \subseteq Finished
    BY <1>3, <2>1, ReadyFinished
  <2>3. Block!Begin(Top(t).task)
    BY ONLY <1>3, <1>4, <2>1, <2>2, TypeOK, TypeOK', BeginStep
  <2> QED
    BY <1>3, <2>3 DEF Block!Next, Block!Progress
<1> QED
  BY <1>5, <1>6, <1>7 DEF TaskStep

\* A claimed leaf waits for nobody.
LEMMA ClaimRefines ==
  ASSUME TypeOK, TypeOK', NoWorkerInside, StackPlaces, RunsInv, NEW t \in Threads, ClaimLeaf(t)
  PROVE  [Block!Next]_(Block!blockVars)
<1> DEFINE x == loaded[t]
<1>1. /\ x \in Tasks /\ Dependencies[x] = 0 /\ runs[x] = 0
      /\ runs' = [runs EXCEPT ![x] = 1]
      /\ AtWork(Held') = AtWork(Held) \union {Frame(x, "work")}
  BY ClaimRuns
<1>2. InBlock /\ InBlock'
  <2>1. /\ pc[t] = "cas" /\ ThreadTypes
        /\ \E label \in {"passRead", "run"} : Goto(t, label)
    BY DEF ClaimLeaf, At, TypeOK
  <2>2. InBlock
    BY <2>1, DrainerInBlock DEF DrainLabels
  <2>3. InBlock' <=> InBlock
    BY <2>1, MoveInBlock DEF DrainLabels
  <2> QED
    BY <2>2, <2>3
<1> HIDE DEF x
<1>3. Missing(Held, runs, x) = {}
  BY <1>1, LeafHasNoArrivals, MissingFinite
<1>4. Prerequisites(x) \subseteq Finished
  BY <1>1, <1>3, ReadyFinished
<1>5. Block!Begin(x)
  BY ONLY <1>1, <1>2, <1>4, TypeOK, TypeOK', BeginStep
<1> QED
  BY <1>1, <1>5 DEF Block!Next, Block!Progress

\* A block opens with nothing started.
LEMMA StartRefines ==
  ASSUME TypeOK, TypeOK', StackPlaces, NoWorkerInside, NEW gate, StartBlock(gate)
  PROVE  Block!Open
<1>1. 0 \in Threads
  BY RenderAssumption DEF Threads
<1>2. /\ pc[0] = "idle" /\ pc'[0] \in {"load", "open"} /\ runs' = [task \in Tasks |-> 0]
  BY <1>1 DEF StartBlock, At, Goto, TypeOK, ThreadTypes
<1>3. Started' = {}
  BY <1>2 DEF Started
<1>4. Finished' = {}
  BY <1>3 DEF Finished
<1> QED
  BY <1>2, <1>3, <1>4 DEF Block!Open

\* A block closes when nobody is at work any more and every task has started.
LEMMA FinishRefines ==
  ASSUME TypeOK, TypeOK', BlockInv, StackPlaces, RunsInv, FinishBlock
  PROVE  Block!Close
<1>1. /\ pc[0] \in {"waitWorkers", "closeSerial"} /\ pc'[0] = "idle"
      /\ pc[0] = "waitWorkers" => inFlight = 0
      /\ UNCHANGED <<stack, runs>>
  BY RenderAssumption DEF FinishBlock, At, Goto, Threads, ThreadTypes, TypeOK, taskVars,
     WorkersLeft
<1>2. \A w \in Workers : pc[w] \notin DrainLabels
  <2>1. CASE pc[0] = "waitWorkers"
    <3>1. Announced = {}
      BY <1>1, <2>1, CountedFinite, FS_EmptySet DEF BlockInv, CountsExact
    <3> QED
      BY <3>1 DEF Announced, AnnouncedLabels
  <2>2. CASE pc[0] = "closeSerial"
    BY <2>2 DEF BlockInv, DrainsOpenBlock, OpenDuringRun, DrainLabels
  <2> QED
    BY <1>1, <2>1, <2>2
<1>3. Held = {}
  BY <1>1, <1>2, NoFrames DEF TypeOK, RunLabels
<1>4. Working = {}
  BY <1>3, WorkingHeld DEF AtWork
<1>5. Started = Tasks
  <2>1. \A task \in Tasks : runs[task] > 0
    BY <1>1 DEF RunsInv, AllStarted
  <2> QED
    BY <2>1 DEF Started
<1>6. Finished = Tasks /\ Started' = Started /\ Finished' = Finished
  BY <1>1, <1>4, <1>5 DEF Finished, Started, Working
<1> QED
  BY <1>1, <1>6 DEF Block!Close

\* Every step of the scheduler is one of the abstract block, or none.
LEMMA BlockRefines ==
  ASSUME TypeOK, TypeOK', BlockInv, StackPlaces, RunsInv, [Next]_vars
  PROVE  [Block!Next]_(Block!blockVars)
<1>a. NoWorkerInside
  BY DEF BlockInv, OpenDuringRun, DrainsOpenBlock, NoWorkerInside, DrainLabels
<1>b. /\ 0 \in Threads /\ 0 \notin Workers /\ Workers \subseteq Threads
      /\ \A t \in Threads : t = 0 \/ t \in Workers
  BY RenderAssumption DEF Threads, Workers
<1>c. ThreadTypes
  BY DEF TypeOK
<1>1. ASSUME UNCHANGED <<stack, runs>>, InBlock' <=> InBlock PROVE UNCHANGED Block!blockVars
  <2>1. AtWork(Held') = AtWork(Held)
    BY <1>1 DEF Held
  <2> QED
    BY <1>1, <2>1, StutterStep
<1>2. ASSUME UNCHANGED <<stack, runs>>, NEW t \in Threads, NEW label, Goto(t, label),
             t # 0 \/ (InBlock /\ label \notin {"idle", "build"})
                   \/ (~InBlock /\ label \in {"idle", "build"})
      PROVE  UNCHANGED Block!blockVars
  <2>1. InBlock' <=> InBlock
    BY <1>2, <1>b, <1>c DEF Goto, ThreadTypes, InBlock
  <2> QED
    BY ONLY <1>1, <1>2, <2>1
<1>3. ASSUME UNCHANGED <<stack, runs>>, NEW count, NEW t \in Threads, NEW label,
             WakeParked(count, t, label),
             t # 0 \/ label = pc[0] \/ (InBlock /\ label \notin {"idle", "build"})
      PROVE  UNCHANGED Block!blockVars
  <2>1. InBlock' <=> InBlock
    BY <1>3, <1>b DEF WakeParked, Asleep, InBlock
  <2> QED
    BY ONLY <1>1, <1>3, <2>1
<1>4. ASSUME UNCHANGED <<stack, runs>>, pc' = pc PROVE UNCHANGED Block!blockVars
  <2>1. InBlock' <=> InBlock
    BY <1>4 DEF InBlock
  <2> QED
    BY ONLY <1>1, <1>4, <2>1
<1> USE DEF taskVars
<1>5. CASE BuildStep
  BY <1>5, <1>b, <1>2, <1>4 DEF BuildStep, BeginBuild, AddLeaf, EndBuild, At, InBlock
<1>6. CASE StartStep
  BY <1>6, <1>a, StartRefines DEF StartStep, Block!Next
<1>7. CASE FinishBlock
  BY <1>7, FinishRefines DEF Block!Next, Block!Progress
<1>8. CASE OpenBlock \/ ReadParked \/ BumpEpoch \/ CloseBlock
  BY <1>8, <1>b, <1>2 DEF OpenBlock, ReadParked, BumpEpoch, CloseBlock, At, InBlock
<1>9. CASE WakeWorkers
  BY <1>9, <1>b, <1>3 DEF WakeWorkers, At, InBlock
<1>10. CASE MarkDirty \/ Shutdown \/ ShutdownBump \/ Join
  BY <1>10, <1>4 DEF MarkDirty, Shutdown, ShutdownBump, Join
<1>11. CASE Startup
  BY <1>11, <1>b, <1>1 DEF Startup, InBlock
<1>12. CASE ShutdownWake
  BY <1>12, <1>b, <1>3 DEF ShutdownWake
<1>13. ASSUME NEW t \in Threads, TaskStep(t) PROVE [Block!Next]_(Block!blockVars)
  BY <1>13, <1>a, TaskRefines
<1>14. ASSUME NEW t \in Threads, ClaimLeaf(t) PROVE [Block!Next]_(Block!blockVars)
  BY <1>14, <1>a, ClaimRefines
<1>15. ASSUME NEW t \in Threads, LoadCursor(t) \/ NextList(t) \/ DrainDone(t) \/ ClaimLost(t)
       PROVE  UNCHANGED Block!blockVars
  BY <1>15, <1>2, <1>4 DEF LoadCursor, NextList, DrainDone, ClaimLost, At, InBlock
<1>16. ASSUME NEW w \in Workers, PassWakeCall(w) PROVE UNCHANGED Block!blockVars
  BY <1>16, <1>b, <1>3 DEF PassWakeCall
<1>17. ASSUME NEW w \in Workers,
              \/ TestRunning(w) \/ Announce(w) \/ ReadGen(w) \/ Leave(w) \/ Spin(w)
              \/ SampleEpoch(w) \/ PrePark(w) \/ Recheck(w) \/ ParkOn(w) \/ Unpark(w)
              \/ SpuriousWake(w) \/ PassWakeOn(w)
       PROVE  UNCHANGED Block!blockVars
  BY <1>17, <1>b, <1>2 DEF TestRunning, Announce, ReadGen, Leave, Spin, SampleEpoch, PrePark,
     Recheck, ParkOn, Unpark, SpuriousWake, PassWakeOn
<1>18. CASE UNCHANGED vars
  BY <1>18, <1>4 DEF vars
<1> QED
  BY <1>5, <1>6, <1>7, <1>8, <1>9, <1>10, <1>11, <1>12, <1>13, <1>14, <1>15, <1>16, <1>17, <1>18
     DEF Next, BlockStep, StopStep, DrainStep, LoopStep

\* Whatever the graph, the number of workers and their stops and restarts, the
\* scheduler takes no step that RenderBlock forbids.
THEOREM BlocksAsPromised == Spec => StepsOfBlock
<1>1. Init => Block!Init
  <2> SUFFICES ASSUME Init PROVE Block!Init
    OBVIOUS
  <2>1. pc[0] = "idle" /\ Started = {}
    BY RenderAssumption DEF Init, Threads, Started
  <2>2. Finished = {}
    BY <2>1 DEF Finished
  <2> QED
    BY <2>1, <2>2 DEF Block!Init
<1>2. TypeOK /\ TypeOK' /\ BlockInv /\ StackPlaces /\ RunsInv /\ [Next]_vars
        => [Block!Next]_(Block!blockVars)
  BY BlockRefines
<1> QED
  BY <1>1, <1>2, TypeCorrect, BlockInvariant, TasksInOrder, PTL DEF Spec, StepsOfBlock

----------------------------------------------------------------------------

(***************************************************************************)
(* The tree, for any channels and sounds and any bound on the moves.  The  *)
(* host is one that waits for its mail.                                    *)
(***************************************************************************)

PatientHost ==
  /\ Patient /\ MaxMoves \in Nat
  /\ Channels \intersect Sounds = {}
  /\ Master \notin Things /\ Nobody \notin Things \union {Master}

\* Nothing is twice in a list.
Once(list) == \A m, n \in DOMAIN list : list[m] = list[n] => m = n
Members(list) == {list[n] : n \in DOMAIN list}

\* x is before y in a list.
Earlier(list, x, y) == \E m, n \in DOMAIN list : m < n /\ list[m] = x /\ list[n] = y

\* What unlinking a node leaves.
LEMMA WithoutIs ==
  ASSUME NEW S, NEW list \in Seq(S), Once(list), NEW i \in Members(list)
  PROVE  /\ Without(list, i) \in Seq(S) /\ Once(Without(list, i))
         /\ Members(Without(list, i)) = Members(list) \ {i}
         /\ \A x, y : Earlier(list, x, y) /\ x # i /\ y # i => Earlier(Without(list, i), x, y)
<1> DEFINE n == CHOOSE k \in DOMAIN list : list[k] = i
           w == Without(list, i)
           s == SubSeq(list, 1, n - 1)
           t == SubSeq(list, n + 1, Len(list))
<1>1. n \in DOMAIN list /\ list[n] = i BY DEF Members
<1>2. w = s \o t BY DEF Without
<1> HIDE DEF n, w
<1>3. n \in 1..Len(list) /\ Len(list) \in Nat BY <1>1
<1>4. s \in Seq(S) /\ Len(s) = n - 1 /\ \A k \in 1..(n - 1) : s[k] = list[k] BY <1>3
<1>5. /\ t \in Seq(S) /\ Len(t) = Len(list) - n
      /\ \A k \in 1..(Len(list) - n) : t[k] = list[n + k]
  BY <1>3
<1> HIDE DEF s, t
<1>6. w \in Seq(S) /\ Len(w) = Len(list) - 1
  <2>1. s \in Seq(S) /\ t \in Seq(S) BY <1>4, <1>5
  <2>2. w \in Seq(S) /\ Len(w) = Len(s) + Len(t) BY ONLY <1>2, <2>1
  <2> QED BY <1>3, <1>4, <1>5, <2>2
<1>7. ASSUME NEW k \in 1..(Len(list) - 1)
      PROVE  w[k] = IF k < n THEN list[k] ELSE list[k + 1]
  <2>1. CASE k < n
    <3>1. w[k] = s[k] BY <1>2, <1>3, <1>4, <1>5, <2>1
    <3> QED BY <1>3, <1>4, <2>1, <3>1
  <2>2. CASE ~(k < n)
    <3>1. w[k] = t[k - (n - 1)]
      <4>1. /\ s \in Seq(S) /\ t \in Seq(S) /\ Len(s) = n - 1 /\ Len(t) = Len(list) - n
            /\ k \in 1..(Len(s) + Len(t)) /\ ~(k <= Len(s))
        BY <1>3, <1>4, <1>5, <2>2
      <4>2. w[k] = t[k - Len(s)] BY ONLY <1>2, <4>1
      <4> QED BY <4>1, <4>2
    <3>2. k - (n - 1) \in 1..(Len(list) - n) /\ n + (k - (n - 1)) = k + 1 BY <1>3, <2>2
    <3> QED BY <1>3, <1>5, <2>2, <3>1, <3>2
  <2> QED BY <2>1, <2>2
<1>8. DOMAIN w = 1..(Len(list) - 1) /\ DOMAIN list = 1..Len(list) BY <1>6
<1>9. Once(w)
  <2> SUFFICES ASSUME NEW k \in DOMAIN w, NEW l \in DOMAIN w, w[k] = w[l] PROVE k = l
    BY DEF Once
  <2> DEFINE a == IF k < n THEN k ELSE k + 1
             b == IF l < n THEN l ELSE l + 1
  <2>1. a \in DOMAIN list /\ b \in DOMAIN list /\ list[a] = list[b] BY <1>3, <1>7, <1>8
  <2>2. a = b BY <2>1 DEF Once
  <2> QED BY <1>3, <1>8, <2>2
<1>10. Members(w) = Members(list) \ {i}
  <2>1. ASSUME NEW k \in DOMAIN w PROVE w[k] \in Members(list) \ {i}
    <3> DEFINE a == IF k < n THEN k ELSE k + 1
    <3>1. a \in DOMAIN list /\ a # n /\ w[k] = list[a] BY <1>3, <1>7, <1>8
    <3> QED BY <1>1, <3>1 DEF Once, Members
  <2>2. ASSUME NEW a \in DOMAIN list, list[a] # i PROVE list[a] \in Members(w)
    <3> DEFINE k == IF a < n THEN a ELSE a - 1
    <3>1. k \in DOMAIN w /\ w[k] = list[a] BY <1>1, <1>3, <1>7, <1>8, <2>2
    <3> QED BY <3>1 DEF Members
  <2> QED BY <2>1, <2>2 DEF Members
<1>11. ASSUME NEW x, NEW y, Earlier(list, x, y), x # i, y # i PROVE Earlier(w, x, y)
  <2>1. PICK a, b \in DOMAIN list : a < b /\ list[a] = x /\ list[b] = y BY <1>11 DEF Earlier
  <2> DEFINE k == IF a < n THEN a ELSE a - 1
             l == IF b < n THEN b ELSE b - 1
  <2>2. a # n /\ b # n BY <1>1, <1>11, <2>1
  <2>3. k \in DOMAIN w /\ l \in DOMAIN w /\ k < l BY <1>3, <1>8, <2>1, <2>2
  <2>4. w[k] = x /\ w[l] = y BY <1>3, <1>7, <1>8, <2>1, <2>2
  <2> HIDE DEF k, l
  <2> QED BY <2>3, <2>4 DEF Earlier
<1> QED BY <1>6, <1>9, <1>10, <1>11 DEF w

\* What a visit leaves to do.
LEMMA TailIs ==
  ASSUME NEW S, NEW list \in Seq(S), Once(list), list # <<>>
  PROVE  /\ Tail(list) \in Seq(S) /\ Once(Tail(list)) /\ Head(list) \in Members(list)
         /\ Members(Tail(list)) = Members(list) \ {Head(list)}
         /\ \A x, y : Earlier(Tail(list), x, y) => Earlier(list, x, y)
         /\ \A y \in Members(Tail(list)) : Earlier(list, Head(list), y)
<1> DEFINE t == Tail(list)
<1>1. t \in Seq(S) /\ Len(list) \in Nat \ {0} /\ Len(t) = Len(list) - 1 OBVIOUS
<1>2. \A k \in 1..(Len(list) - 1) : t[k] = list[k + 1] OBVIOUS
<1>3. Head(list) = list[1] OBVIOUS
<1>4. DOMAIN t = 1..(Len(list) - 1) /\ DOMAIN list = 1..Len(list) BY <1>1
<1> HIDE DEF t
<1>5. \A m, n \in 1..Len(list) : list[m] = list[n] => m = n BY <1>4 DEF Once
<1>6. Once(t) BY <1>1, <1>2, <1>4, <1>5 DEF Once
<1>7. 1 \in DOMAIN list BY <1>1, <1>4
<1>8. Head(list) \in Members(list) BY <1>3, <1>7 DEF Members
<1>9. Members(t) = Members(list) \ {Head(list)}
  <2>1. ASSUME NEW k \in DOMAIN t PROVE t[k] \in Members(list) \ {Head(list)}
    <3>1. k + 1 \in 1..Len(list) /\ k + 1 # 1 /\ 1 \in 1..Len(list) BY <1>1, <1>4
    <3>2. t[k] = list[k + 1] BY <1>2, <1>4
    <3>3. list[k + 1] # list[1] BY ONLY <1>5, <3>1
    <3> QED BY <1>3, <1>4, <3>1, <3>2, <3>3 DEF Members
  <2>2. ASSUME NEW n \in DOMAIN list, list[n] # Head(list) PROVE list[n] \in Members(t)
    <3>1. n - 1 \in DOMAIN t /\ t[n - 1] = list[n] BY <1>1, <1>2, <1>3, <1>4, <2>2
    <3> QED BY <3>1 DEF Members
  <2> QED BY <2>1, <2>2 DEF Members
<1>10. \A k \in DOMAIN t : k + 1 \in DOMAIN list /\ t[k] = list[k + 1] /\ k \in Int /\ 1 < k + 1
  BY <1>1, <1>2, <1>4
<1>11. ASSUME NEW x, NEW y, Earlier(t, x, y) PROVE Earlier(list, x, y)
  <2>1. PICK a, b \in DOMAIN t : a < b /\ t[a] = x /\ t[b] = y BY <1>11 DEF Earlier
  <2>2. a + 1 < b + 1 BY <1>10, <2>1
  <2> QED BY <1>10, <2>1, <2>2 DEF Earlier
<1>12. ASSUME NEW y \in Members(t) PROVE Earlier(list, Head(list), y)
  <2>1. PICK b \in DOMAIN t : t[b] = y BY <1>12 DEF Members
  <2> QED BY <1>3, <1>7, <1>10, <2>1 DEF Earlier
<1> QED BY <1>1, <1>6, <1>8, <1>9, <1>11, <1>12 DEF t

\* A list with one more at its front.
LEMMA FrontIs ==
  ASSUME NEW S, NEW list \in Seq(S), Once(list), NEW i \in S, i \notin Members(list)
  PROVE  /\ <<i>> \o list \in Seq(S) /\ Once(<<i>> \o list)
         /\ Members(<<i>> \o list) = Members(list) \union {i}
         /\ \A x, y : Earlier(list, x, y) => Earlier(<<i>> \o list, x, y)
         /\ \A y \in Members(list) : Earlier(<<i>> \o list, i, y)
<1> DEFINE w == <<i>> \o list
<1>1. w \in Seq(S) /\ Len(list) \in Nat /\ Len(w) = Len(list) + 1 OBVIOUS
<1>2. w[1] = i /\ \A k \in 1..Len(list) : w[k + 1] = list[k] OBVIOUS
<1>3. DOMAIN w = 1..(Len(list) + 1) /\ DOMAIN list = 1..Len(list) BY <1>1
<1> HIDE DEF w
<1>4. \A k \in 2..(Len(list) + 1) : k - 1 \in DOMAIN list /\ w[k] = list[k - 1]
  BY <1>1, <1>2, <1>3
<1>5. Once(w)
  <2> SUFFICES ASSUME NEW k \in DOMAIN w, NEW l \in DOMAIN w, w[k] = w[l] PROVE k = l
    BY DEF Once
  <2>1. \A m \in 2..(Len(list) + 1) : w[m] # i BY <1>4 DEF Members
  <2>2. CASE k = 1 \/ l = 1 BY <1>1, <1>2, <1>3, <2>1, <2>2
  <2>3. CASE k # 1 /\ l # 1
    <3>0. k \in 2..(Len(list) + 1) /\ l \in 2..(Len(list) + 1) BY <1>1, <1>3, <2>3
    <3>1. /\ k - 1 \in DOMAIN list /\ l - 1 \in DOMAIN list
          /\ list[k - 1] = list[l - 1]
      BY <1>4, <3>0
    <3>2. k - 1 = l - 1 BY <3>1 DEF Once
    <3> QED BY <1>1, <3>0, <3>2
  <2> QED BY <2>2, <2>3
<1>6. Members(w) = Members(list) \union {i}
  <2>1. ASSUME NEW k \in DOMAIN w PROVE w[k] \in Members(list) \union {i}
    <3>1. k = 1 \/ k \in 2..(Len(list) + 1) BY <1>1, <1>3
    <3>2. CASE k = 1 BY <1>2, <3>2
    <3>3. CASE k \in 2..(Len(list) + 1) BY <1>4, <3>3 DEF Members
    <3> QED BY <3>1, <3>2, <3>3
  <2>2. ASSUME NEW n \in DOMAIN list PROVE list[n] \in Members(w)
    <3>1. n + 1 \in DOMAIN w /\ w[n + 1] = list[n] BY <1>1, <1>2, <1>3
    <3> QED BY <3>1 DEF Members
  <2>3. i \in Members(w) BY <1>1, <1>2, <1>3 DEF Members
  <2> QED BY <2>1, <2>2, <2>3 DEF Members
<1>7. \A k \in DOMAIN list : k + 1 \in DOMAIN w /\ w[k + 1] = list[k] /\ k \in Int /\ 1 < k + 1
  BY <1>1, <1>2, <1>3
<1>8. 1 \in DOMAIN w BY <1>1, <1>3
<1>9. ASSUME NEW x, NEW y, Earlier(list, x, y) PROVE Earlier(w, x, y)
  <2>1. PICK a, b \in DOMAIN list : a < b /\ list[a] = x /\ list[b] = y BY <1>9 DEF Earlier
  <2>2. a + 1 < b + 1 BY <1>7, <2>1
  <2> QED BY <1>7, <2>1, <2>2 DEF Earlier
<1>10. ASSUME NEW y \in Members(list) PROVE Earlier(w, i, y)
  <2>1. PICK b \in DOMAIN list : list[b] = y BY <1>10 DEF Members
  <2> QED BY <1>2, <1>7, <1>8, <2>1 DEF Earlier
<1> QED BY <1>1, <1>5, <1>6, <1>9, <1>10 DEF w

\* Of two in a list, one is before the other, and only one.
LEMMA EarlierOnce ==
  ASSUME NEW S, NEW list \in Seq(S), Once(list), NEW x, NEW y
  PROVE  /\ Earlier(list, x, y) => x \in Members(list) /\ y \in Members(list) /\ x # y
         /\ ~(Earlier(list, x, y) /\ Earlier(list, y, x))
<1>1. ASSUME NEW a \in DOMAIN list, NEW b \in DOMAIN list, list[a] = list[b] PROVE a = b
  BY <1>1 DEF Once
<1>2. DOMAIN list = 1..Len(list) /\ Len(list) \in Nat OBVIOUS
<1> QED BY <1>1, <1>2 DEF Earlier, Members


(***************************************************************************)
(* The invariant.                                                          *)
(***************************************************************************)

\* The managers' lists, and what update() still visits of one.
Lists == \A k \in Kinds : Once(inUse[k]) /\ \A i \in Members(inUse[k]) : Kind(i) = k
Visits ==
  /\ Once(audio.todo)
  /\ \A i \in Members(audio.todo) : i \in InUse /\ Kind(i) = audio.of
  /\ audio.at = "read" => audio.todo # <<>>

\* What has mail is alive, and what is not linked or moved yet names only what is.
Mailboxes ==
  /\ \A i \in Things : mail[i] # <<>> => i \in Alive
  /\ \A i \in Things : \A n \in DOMAIN mail[i] :
       mail[i][n] \in Alive \union {Master} /\ mail[i][n] # i
  /\ \A i \in waiting : parent[i] \in Alive \union {Master} /\ parent[i] # i

\* Both ends of a link agree, and neither is released.
Linked ==
  /\ \A i \in released : life[i] = "gone"
  /\ InUse \intersect waiting = {} /\ (InUse \union waiting) \intersect released = {}
  /\ \A i \in InUse \union waiting : life[i] # "absent"
  /\ Alive \subseteq InUse \union waiting
  /\ \A p \in Parents : children[p] = {i \in InUse : parent[i] = p}
  /\ \A i \in InUse \union waiting :
       /\ parent[i] \in Parents \ released
       /\ parent[i] = Master \/ life[parent[i]] # "absent"

\* p is where i was asked to be, or above that and past what is gone.
Lifted(i, p) ==
  \A T \in SUBSET Parents :
    under[i] \in T /\ (\A q \in T \ {Master} : life[q] = "gone" => under[q] \in T) => p \in T

\* The last message about a thing says where it was asked to be, and a thing without
\* mail is there, or above that and past what is gone.
Asked ==
  /\ \A i \in Things : life[i] # "absent" =>
       under[i] \in Parents /\ (under[i] = Master \/ life[under[i]] # "absent")
  /\ \A i \in Things : mail[i] # <<>> => mail[i][Len(mail[i])] = under[i]
  /\ \A i \in Things : i \in InUse \union waiting /\ mail[i] = <<>> => Lifted(i, parent[i])

\* The host asks for a tree: a channel ranks above the one it was asked to be in.
Ranked(r) == \A c \in Channels : life[c] # "absent" => r[under[c]] < r[c]
Ranks == \E r \in [Parents -> Nat] : Ranked(r)

TreeInv == TreeTypeOK /\ Lists /\ Visits /\ Mailboxes /\ Linked /\ Asked /\ Ranks

(***************************************************************************)
(* The links themselves need not be a tree: mailboxes are read one after   *)
(* the other, and a channel may be moved below one whose own mail is not   *)
(* read yet.  But a circle never comes between a channel that goes and its *)
(* parent, because whoever closes it was read after somebody in it whose   *)
(* mail came earlier in the order of the visits, and is read first when    *)
(* that order comes around.                                                *)
(***************************************************************************)

Updating == audio.of = "channel" /\ audio.at \in {"sync", "read"}

\* The channels whose turn in this update is still to come.
Ahead ==
  IF ~Updating THEN {}
  ELSE IF audio.at = "read" THEN Members(audio.todo) \ {First} ELSE Members(audio.todo)

\* They are visited in the order of the list, and are at its end.
InOrder ==
  Updating =>
    /\ \A x, y \in Things : Earlier(audio.todo, x, y) => Earlier(inUse["channel"], x, y)
    /\ \A x, y \in Things :
         x \in Members(inUse["channel"]) \ Members(audio.todo) /\ y \in Members(audio.todo)
           => Earlier(inUse["channel"], x, y)

\* The mail of d is read before that of m is looked at again.
Before(d, m) ==
  \/ d \in waiting
  \/ d \in Ahead /\ m \notin Ahead
  \/ (d \in Ahead <=> m \in Ahead) /\ Earlier(inUse["channel"], d, m)

\* Channels whose parents are among them
Closed(S) == S # {} /\ \A c \in S : parent[c] \in S
\* have mail that is being read, or will be before another of them is visited.
Due(S) ==
  \/ \E d \in S, m \in S \intersect InUse : d # m /\ mail[d] # <<>> /\ Before(d, m)
  \/ \E d \in S : Reading(d) /\ mail[d] # <<>>
Entangled == \A S \in SUBSET (Channels \intersect (InUse \union waiting)) : Closed(S) => Due(S)

\* Which of the parts a step leaves alone.
LEMMA TreeUntouched ==
  /\ Lists /\ UNCHANGED inUse => Lists' /\ InUse' = InUse
  /\ Visits /\ UNCHANGED <<inUse, audio>> => Visits'
  /\ Mailboxes /\ UNCHANGED <<life, mail, waiting, parent>> => Mailboxes'
  /\ Linked /\ UNCHANGED <<life, waiting, inUse, tree, released>> => Linked'
  /\ Asked /\ UNCHANGED <<life, under, mail, waiting, inUse, parent>> => Asked'
  /\ Ranks /\ UNCHANGED <<life, under>> => Ranks'
<1>1. Lists /\ UNCHANGED inUse => Lists' /\ InUse' = InUse BY DEF Lists, InUse
<1>2. Visits /\ UNCHANGED <<inUse, audio>> => Visits' BY DEF Visits, InUse
<1>3. Mailboxes /\ UNCHANGED <<life, mail, waiting, parent>> => Mailboxes' BY DEF Mailboxes, Alive
<1>4. Linked /\ UNCHANGED <<life, waiting, inUse, tree, released>> => Linked'
  BY DEF Linked, Alive, InUse, tree
<1>5. Asked /\ UNCHANGED <<life, under, mail, waiting, inUse, parent>> => Asked'
  BY DEF Asked, InUse, Lifted
<1>6. Ranks /\ UNCHANGED <<life, under>> => Ranks' BY DEF Ranks, Ranked
<1> QED BY <1>1, <1>2, <1>3, <1>4, <1>5, <1>6

\* What connect() makes of links on which both ends agree.
LEMMA ConnectIs ==
  ASSUME PatientHost, TreeTypeOK, Linked, NEW i \in Things, NEW p \in Parents, p # i, Connect(p, i),
         i \in InUse \/ parent[i] = p
  PROVE  /\ parent' = [parent EXCEPT ![i] = p]
         /\ \A q \in Parents : children'[q] = {j \in InUse \union {i} : parent'[j] = q}
         /\ parent' \in [Things -> Parents \union {Nobody}]
         /\ children' \in [Parents -> SUBSET Things]
<1>1. /\ parent' = [parent EXCEPT ![i] = p]
      /\ children' = [q \in Parents |->
            IF q = p THEN children[q] \union {i}
            ELSE IF q = parent[i] \/ i \in Sounds THEN children[q] \ {i}
            ELSE children[q]]
  BY DEF Connect
<1>2. InUse \subseteq Things BY DEF InUse
<1>3. \A j \in Things : parent'[j] = IF j = i THEN p ELSE parent[j] BY <1>1 DEF TreeTypeOK
<1>4. \A q \in Parents : children[q] = {j \in InUse : parent[j] = q} BY DEF Linked
<1>5. ASSUME NEW q \in Parents PROVE children'[q] = {j \in InUse \union {i} : parent'[j] = q}
  <2>1. CASE q = p BY <1>1, <1>2, <1>3, <1>4, <2>1
  <2>2. CASE q # p
    <3>1. children'[q] = children[q] \ {i} BY <1>1, <1>4, <2>2
    <3> QED BY <1>2, <1>3, <1>4, <2>2, <3>1
  <2> QED BY <2>1, <2>2
<1>6. parent' \in [Things -> Parents \union {Nobody}] BY <1>1 DEF TreeTypeOK
<1>7. children' \in [Parents -> SUBSET Things]
  <2> DEFINE L(q) == IF q = p THEN children[q] \union {i}
                     ELSE IF q = parent[i] \/ i \in Sounds THEN children[q] \ {i}
                     ELSE children[q]
  <2>1. children' = [q \in Parents |-> L(q)] BY <1>1
  <2>2. \A q \in Parents : L(q) \in SUBSET Things BY DEF TreeTypeOK
  <2> HIDE DEF L
  <2> QED BY ONLY <2>1, <2>2
<1> QED BY <1>1, <1>5, <1>6, <1>7


\* What is created ranks above the channel it is created in.
LEMMA CreateKeeps ==
  ASSUME PatientHost, TreeInv, NEW i \in Things, NEW p \in Parents, Create(i, p)
  PROVE  TreeInv'
<1> USE DEF PatientHost, TreeInv, Parents, Things
<1>1. /\ life[i] = "absent" /\ p \in Alive \union {Master}
      /\ life' = [life EXCEPT ![i] = "alive"] /\ under' = [under EXCEPT ![i] = p]
      /\ parent' = [parent EXCEPT ![i] = p] /\ waiting' = waiting \union {i}
      /\ UNCHANGED <<moves, mail, inUse, audio, children, released>>
  BY DEF Create
<1>2. TreeTypeOK' BY <1>1 DEF TreeTypeOK
<1>3. Lists' /\ Visits' /\ InUse' = InUse BY <1>1, TreeUntouched
<1>4. i \notin InUse \union waiting \union released /\ p # i
  BY <1>1 DEF Linked, Alive
<1>5. /\ Alive' = Alive \union {i} /\ InUse \subseteq Things /\ waiting \subseteq Things
      /\ \A j \in Things : j # i => life'[j] = life[j] /\ under'[j] = under[j]
                                      /\ parent'[j] = parent[j]
      /\ life'[i] = "alive" /\ under'[i] = p /\ parent'[i] = p
  BY <1>1 DEF TreeTypeOK, Alive, InUse
<1>6. Mailboxes' BY <1>1, <1>4, <1>5 DEF Mailboxes
<1>7. Linked'
  <2>1. p \notin released BY <1>1 DEF Linked, Alive, TreeTypeOK
  <2>2. \A q \in Parents : children'[q] = {j \in InUse' : parent'[j] = q}
    BY <1>1, <1>3, <1>4, <1>5 DEF Linked
  <2>3. \A j \in InUse' \union waiting' :
          /\ parent'[j] \in Parents \ released'
          /\ parent'[j] = Master \/ life'[parent'[j]] # "absent"
    BY <1>1, <1>3, <1>4, <1>5, <2>1 DEF Linked, Alive
  <2>4. (InUse' \union waiting') \intersect released' = {} /\ InUse' \intersect waiting' = {}
    BY <1>1, <1>3, <1>4 DEF Linked
  <2>5. \A j \in released' : life'[j] = "gone" BY <1>1, <1>4, <1>5 DEF Linked, TreeTypeOK
  <2>6. \A j \in InUse' \union waiting' : life'[j] # "absent"
    BY <1>1, <1>3, <1>4, <1>5 DEF Linked
  <2>7. Alive' \subseteq InUse' \union waiting' BY <1>1, <1>3, <1>5 DEF Linked
  <2> QED BY <2>2, <2>3, <2>4, <2>5, <2>6, <2>7 DEF Linked
<1>8. Asked'
  <2>1. \A j \in Things : life'[j] # "absent" =>
          under'[j] \in Parents /\ (under'[j] = Master \/ life'[under'[j]] # "absent")
    BY <1>1, <1>5 DEF Asked, Alive
  <2>2. mail[i] = <<>> BY <1>1 DEF Mailboxes, Alive
  <2>3. \A j \in Things : mail'[j] # <<>> => mail'[j][Len(mail'[j])] = under'[j]
    BY <1>1, <1>5, <2>2 DEF Asked
  <2>5. ASSUME NEW c \in Things, c \in InUse' \union waiting', mail'[c] = <<>>
        PROVE  Lifted(c, parent[c])'
    <3>1. CASE c = i BY <1>5, <3>1 DEF Lifted
    <3>2. CASE c # i
      <4>1. Lifted(c, parent[c]) BY <1>1, <1>3, <2>5, <3>2 DEF Asked
      <4>2. under'[c] = under[c] /\ parent'[c] = parent[c] BY <1>5, <3>2
      <4>3. \A q \in Channels : life'[q] = "gone" <=> life[q] = "gone" BY <1>1, <1>5
      <4>4. \A q \in Channels : life[q] = "gone" => under'[q] = under[q] BY <1>1, <1>5
      <4> QED BY <4>1, <4>2, <4>3, <4>4 DEF Lifted
    <3> QED BY <3>1, <3>2
  <2> QED BY <2>1, <2>3, <2>5 DEF Asked
<1>9. Ranks'
  <2>1. PICK r \in [Parents -> Nat] : Ranked(r) BY DEF Ranks
  <2> DEFINE n == [q \in Parents |-> IF q = i THEN r[p] + 1 ELSE r[q]]
  <2>2. n \in [Parents -> Nat] /\ r[p] \in Nat /\ n[p] = r[p] BY <1>4, <2>1
  <2>3. i \in Channels => n[i] = r[p] + 1 OBVIOUS
  <2>4. \A q \in Parents : q # i => n[q] = r[q] OBVIOUS
  <2> HIDE DEF n
  <2>5. ASSUME NEW c \in Channels, life'[c] # "absent" PROVE n[under'[c]] < n[c]
    <3>1. CASE c = i BY <1>5, <2>2, <2>3, <3>1
    <3>2. CASE c # i
      <4>1. under'[c] = under[c] /\ life[c] # "absent" /\ n[c] = r[c] BY <1>5, <2>4, <2>5, <3>2
      <4>2. n[under[c]] = r[under[c]] BY <1>1, <2>4, <4>1 DEF Asked
      <4>3. r[under[c]] < r[c] BY <2>1, <4>1 DEF Ranked
      <4> QED BY <4>1, <4>2, <4>3
    <3> QED BY <3>1, <3>2
  <2>6. Ranked(n)' BY <2>5 DEF Ranked
  <2> QED BY <2>2, <2>6 DEF Ranks
<1> QED BY <1>2, <1>3, <1>6, <1>7, <1>8, <1>9

\* Only what nothing still names is destroyed.
LEMMA DestroyKeeps ==
  ASSUME PatientHost, TreeInv, NEW i \in Things, Destroy(i)
  PROVE  TreeInv'
<1> USE DEF PatientHost, TreeInv, Parents, Things
<1>1. /\ i \in Alive /\ ~Named(i) /\ ~Unread(i) /\ life' = [life EXCEPT ![i] = "gone"]
      /\ UNCHANGED <<under, moves, mail, lists, audio, tree, released>>
  BY DEF Destroy
<1>2. TreeTypeOK' BY <1>1 DEF TreeTypeOK, lists, tree
<1>3. Lists' /\ Visits' /\ InUse' = InUse BY <1>1, TreeUntouched DEF lists
<1>4. /\ Alive' = Alive \ {i} /\ life'[i] = "gone"
      /\ \A j \in Things : j # i => life'[j] = life[j]
  BY <1>1 DEF Alive, TreeTypeOK
<1>5. mail[i] = <<>> BY <1>1 DEF Unread
<1>6. \A j \in Things : mail[j] # <<>> => \A n \in DOMAIN mail[j] : mail[j][n] # i
  BY <1>1 DEF Named, Unread, Mailboxes
<1>7. \A j \in waiting : parent[j] # i BY <1>1 DEF Named
<1>8. Mailboxes'
  <2>1. \A j \in Things : \A n \in DOMAIN mail[j] : mail[j][n] # i
    <3> SUFFICES ASSUME NEW j \in Things, NEW n \in DOMAIN mail[j] PROVE mail[j][n] # i OBVIOUS
    <3>1. CASE mail[j] = <<>> BY <3>1
    <3>2. CASE mail[j] # <<>> BY <1>6, <3>2
    <3> QED BY <3>1, <3>2
  <2> QED BY <1>1, <1>4, <1>5, <1>7, <2>1 DEF Mailboxes, lists, tree
<1>9. Linked'
  <2>1. i \in Things /\ life[i] = "alive" BY <1>1 DEF Alive
  <2>2. released \subseteq Things /\ InUse \subseteq Things /\ waiting \subseteq Things
    BY DEF TreeTypeOK, InUse
  <2>3. \A j \in released' : life'[j] = "gone" BY <1>1, <1>4, <2>2 DEF Linked
  <2>4. \A j \in Things : life[j] # "absent" => life'[j] # "absent" BY <1>4
  <2>5. \A j \in InUse' \union waiting' :
          /\ life'[j] # "absent" /\ parent'[j] \in Parents \ released'
          /\ parent'[j] = Master \/ life'[parent'[j]] # "absent"
    BY <1>1, <1>3, <2>2, <2>4 DEF Linked, lists, tree
  <2> QED BY <1>1, <1>3, <1>4, <2>3, <2>5 DEF Linked, lists, tree
<1>10. Asked'
  <2>1. ASSUME NEW c \in Things, Lifted(c, parent[c]) PROVE Lifted(c, parent[c])'
    BY <1>1, <1>4, <2>1 DEF Lifted, tree
  <2>2. \A j \in Things : life[j] # "absent" <=> life'[j] # "absent" BY <1>1, <1>4 DEF Alive
  <2>3. \A c \in Things : c \in InUse' \union waiting' /\ mail'[c] = <<>> =>
          Lifted(c, parent[c])'
    BY <1>1, <1>3, <2>1 DEF Asked, lists
  <2>4. \A j \in Things : life'[j] # "absent" =>
          under'[j] \in Parents /\ (under'[j] = Master \/ life'[under'[j]] # "absent")
    BY <1>1, <2>2 DEF Asked
  <2> QED BY <1>1, <2>3, <2>4 DEF Asked
<1>11. Ranks'
  <2>1. PICK r \in [Parents -> Nat] : Ranked(r) BY DEF Ranks
  <2>2. \A j \in Things : life[j] # "absent" <=> life'[j] # "absent" BY <1>1, <1>4 DEF Alive
  <2>3. Ranked(r)' BY <1>1, <2>1, <2>2 DEF Ranked
  <2> QED BY <2>3 DEF Ranks
<1> QED BY <1>2, <1>3, <1>8, <1>9, <1>10, <1>11


\* A channel that is asked to move, and all that is below it, ranks higher than
\* where it is to go: none of that is below the channel, or the host would not ask.
LEMMA MoveToRanks ==
  ASSUME PatientHost, TreeInv, NEW i \in Channels, NEW p \in Parents, ~Within(p, i),
         life[i] # "absent", under' = [under EXCEPT ![i] = p], life' = life
  PROVE  Ranks'
<1> USE DEF PatientHost, TreeInv, Parents, Things
<1>1. PICK r \in [Parents -> Nat] : Ranked(r) BY DEF Ranks
<1> DEFINE D == {q \in Parents : Within(q, i)}
           n == [q \in Parents |-> IF q \in D THEN r[q] + (r[p] + 1) ELSE r[q]]
<1>2. i \in D /\ p \notin D /\ Master \notin D
  <2>1. Master \notin D
    <3>1. {Master} \in SUBSET Parents /\ i \notin {Master} OBVIOUS
    <3>2. ~Within(Master, i)
      <4> SUFFICES ASSUME Within(Master, i) PROVE FALSE OBVIOUS
      <4> DEFINE S == {Master}
      <4>1. S \in SUBSET Parents /\ Master \in S /\ (\A q \in S \ {Master} : under[q] \in S)
        OBVIOUS
      <4>2. i \in S BY ONLY <4>1, Within(Master, i) DEF Within
      <4> QED BY <3>1, <4>2
    <3> QED BY <3>2
  <2> QED BY <2>1 DEF Within
<1>3. ASSUME NEW c \in Channels, under[c] \in D PROVE c \in D
  <2> SUFFICES ASSUME NEW S \in SUBSET Parents, c \in S,
                      \A q \in S \ {Master} : under[q] \in S
               PROVE  i \in S
    BY DEF Within
  <2>1. under[c] \in S OBVIOUS
  <2> QED BY <1>3, <2>1 DEF Within
<1>5. n \in [Parents -> Nat] /\ r[p] \in Nat BY <1>1
<1>6. \A q \in Parents : q \in D => n[q] = r[q] + (r[p] + 1) OBVIOUS
<1>7. \A q \in Parents : q \notin D => n[q] = r[q] OBVIOUS
<1>8. D \subseteq Parents OBVIOUS
<1> HIDE DEF D, n
<1>9. ASSUME NEW x \in Parents, NEW y \in Parents, y \in D => x \in D, r[y] < r[x]
      PROVE  n[y] < n[x]
  <2>1. r[x] \in Nat /\ r[y] \in Nat BY <1>1
  <2>2. CASE x \in D BY <1>5, <1>6, <1>7, <1>9, <2>1, <2>2
  <2>3. CASE x \notin D BY <1>7, <1>9, <2>1, <2>3
  <2> QED BY <2>2, <2>3
<1>10. \A c \in Channels : c # i => under'[c] = under[c] BY DEF TreeTypeOK
<1>11. ASSUME NEW c \in Channels, life[c] # "absent" PROVE n[under'[c]] < n[c]
  <2>1. CASE c = i
    <3>1. under'[i] = p BY DEF TreeTypeOK
    <3>2. n[p] = r[p] /\ n[i] = r[i] + (r[p] + 1) /\ r[i] \in Nat
      BY <1>1, <1>2, <1>6, <1>7
    <3> QED BY <1>5, <2>1, <3>1, <3>2
  <2>2. CASE c # i
    <3>1. under[c] \in Parents /\ r[under[c]] < r[c] BY <1>1, <1>11 DEF Asked, Ranked
    <3> QED BY <1>3, <1>9, <1>10, <2>2, <3>1
  <2> QED BY <2>1, <2>2
<1>12. PICK m \in [Parents -> Nat] : m = n BY <1>5
<1>15. Ranked(m)' BY <1>11, <1>12 DEF Ranked
<1> QED BY <1>15 DEF Ranks

\* The host asks for a move.
LEMMA MoveToKeeps ==
  ASSUME PatientHost, TreeInv, NEW i \in Things, NEW p \in Parents, MoveTo(i, p)
  PROVE  TreeInv'
<1> USE DEF PatientHost, TreeInv, Parents, Things
<1>1. /\ i \in Alive /\ p \in Alive \union {Master} /\ moves < MaxMoves
      /\ i \notin Sounds => ~Within(p, i)
      /\ moves' = moves + 1 /\ under' = [under EXCEPT ![i] = p]
      /\ mail' = [mail EXCEPT ![i] = Append(@, p)]
      /\ UNCHANGED <<life, lists, audio, tree, released>>
  BY DEF MoveTo
<1>2. TreeTypeOK'
  <2>1. Append(mail[i], p) \in Seq(Parents) BY DEF TreeTypeOK
  <2> QED BY <1>1, <2>1 DEF TreeTypeOK, lists, tree
<1>3. Lists' /\ Visits' /\ InUse' = InUse /\ Linked'
  BY <1>1, TreeUntouched DEF lists
<1>4. p # i
  <2>1. Within(i, i) BY DEF Within
  <2> QED BY <1>1, <2>1
<1>5. /\ \A j \in Things : j # i => mail'[j] = mail[j] /\ under'[j] = under[j]
      /\ mail'[i] = Append(mail[i], p) /\ under'[i] = p /\ Alive' = Alive
  BY <1>1 DEF TreeTypeOK, Alive
<1>6. mail[i] \in Seq(Parents) BY DEF TreeTypeOK
<1>7. Mailboxes'
  <2>1. mail[i] \in Seq(Parents) BY DEF TreeTypeOK
  <2>2. ASSUME NEW n \in DOMAIN Append(mail[i], p)
        PROVE  Append(mail[i], p)[n] \in Alive \union {Master} /\ Append(mail[i], p)[n] # i
    <3>1. \/ n \in DOMAIN mail[i] /\ Append(mail[i], p)[n] = mail[i][n]
          \/ Append(mail[i], p)[n] = p
      BY <2>1, <2>2
    <3> QED BY <1>1, <1>4, <3>1 DEF Mailboxes
  <2>3. \A j \in Things : \A n \in DOMAIN mail'[j] :
          mail'[j][n] \in Alive \union {Master} /\ mail'[j][n] # j
    BY <1>5, <2>2 DEF Mailboxes
  <2>4. \A j \in Things : mail'[j] # <<>> => j \in Alive BY <1>1, <1>5 DEF Mailboxes
  <2>5. UNCHANGED <<waiting, parent>> BY <1>1 DEF lists, tree
  <2> QED BY <1>5, <2>3, <2>4, <2>5 DEF Mailboxes
<1>8. Asked'
  <2>1. \A j \in Things : life'[j] # "absent" =>
          under'[j] \in Parents /\ (under'[j] = Master \/ life'[under'[j]] # "absent")
    BY <1>1, <1>5 DEF Asked, Alive
  <2>2. mail'[i] # <<>> /\ mail'[i][Len(mail'[i])] = p BY <1>5, <1>6
  <2>3. \A j \in Things : mail'[j] # <<>> => mail'[j][Len(mail'[j])] = under'[j]
    BY <1>5, <2>2 DEF Asked
  <2>5. ASSUME NEW c \in Things, c \in InUse' \union waiting', mail'[c] = <<>>
        PROVE  Lifted(c, parent[c])'
    <3>1. c # i BY <2>2, <2>5
    <3>2. Lifted(c, parent[c]) BY <1>1, <1>3, <1>5, <2>5, <3>1 DEF Asked, lists
    <3>3. under'[c] = under[c] /\ parent'[c] = parent[c] /\ life' = life
      BY <1>1, <1>5, <3>1 DEF tree
    <3>4. \A q \in Channels : life[q] = "gone" => under'[q] = under[q] BY <1>1, <1>5 DEF Alive
    <3> QED BY <3>2, <3>3, <3>4 DEF Lifted
  <2> QED BY <2>1, <2>3, <2>5 DEF Asked
<1>9. Ranks'
  <2>2. CASE i \in Channels BY <1>1, <2>2, MoveToRanks DEF Alive
  <2>3. CASE i \in Sounds
    <3>1. PICK r \in [Parents -> Nat] : Ranked(r) BY DEF Ranks
    <3>2. Ranked(r)' BY <1>1, <1>5, <2>3, <3>1 DEF Ranked
    <3> QED BY <3>2 DEF Ranks
  <2> QED BY <2>2, <2>3
<1> QED BY <1>2, <1>3, <1>7, <1>8, <1>9


\* What update() does to its own position.
LEMMA VisitKeeps ==
  ASSUME PatientHost, TreeInv,
         \/ BeginUpdate \/ BeginSync \/ NextManager
         \/ \E i \in Things : ReadsHead(i) \/ Synced(i)
  PROVE  TreeInv'
<1> USE DEF PatientHost, TreeInv, Parents, Things
<1>1. UNCHANGED <<host, lists, tree, released>>
  BY DEF BeginUpdate, BeginSync, NextManager, ReadsHead, Synced
<1>2. Lists' /\ InUse' = InUse /\ Mailboxes' /\ Linked' /\ Asked' /\ Ranks'
  BY <1>1, TreeUntouched DEF host, lists, tree
<1>3. audio.todo \in Seq(Things) /\ audio.of \in Kinds BY DEF TreeTypeOK
<1>4. TreeTypeOK' /\ Visits'
  <2>1. ASSUME NEW k \in Kinds, NEW at \in {"rendered", "promote", "sync", "read"},
               NEW todo \in Seq(Things), audio' = [of |-> k, at |-> at, todo |-> todo],
               Once(todo), \A j \in Members(todo) : j \in InUse /\ Kind(j) = k,
               at = "read" => todo # <<>>
        PROVE  TreeTypeOK' /\ Visits'
    <3>1. audio'.of = k /\ audio'.at = at /\ audio'.todo = todo BY <2>1
    <3>2. TreeTypeOK' BY <1>1, <3>1 DEF TreeTypeOK, host, lists, tree
    <3>3. Visits' BY <1>2, <2>1, <3>1 DEF Visits
    <3> QED BY <3>2, <3>3
  <2>2. Once(<<>>) /\ Members(<<>>) = {} /\ <<>> \in Seq(Things) BY DEF Once, Members
  <2>3. CASE BeginUpdate
    <3>1. audio' = [of |-> "sound", at |-> "promote", todo |-> <<>>] BY <2>3 DEF BeginUpdate, Visit
    <3> QED BY <2>1, <2>2, <3>1 DEF Kinds
  <2>4. CASE NextManager
    <3>1. \E k \in Kinds, at \in {"rendered", "promote"} :
            audio' = [of |-> k, at |-> at, todo |-> <<>>]
      BY <2>4 DEF NextManager, Visit, Kinds
    <3> QED BY <2>1, <2>2, <3>1
  <2>5. CASE BeginSync
    <3>1. audio' = [of |-> audio.of, at |-> "sync", todo |-> inUse[audio.of]]
      BY <2>5 DEF BeginSync, Visit
    <3>2. inUse[audio.of] \in Seq(Things) /\ Once(inUse[audio.of]) BY <1>3 DEF TreeTypeOK, Lists
    <3>3. \A j \in Members(inUse[audio.of]) : j \in Things /\ Kind(j) = audio.of
      BY <1>3, <3>2 DEF Lists, Members
    <3>4. \A j \in Members(inUse[audio.of]) : j \in InUse BY <3>3 DEF InUse, Members
    <3> QED BY <1>3, <2>1, <3>1, <3>2, <3>3, <3>4
  <2>6. ASSUME NEW i \in Things, ReadsHead(i) PROVE TreeTypeOK' /\ Visits'
    <3>1. audio.todo # <<>> /\ audio' = [of |-> audio.of, at |-> "read", todo |-> audio.todo]
      BY <2>6 DEF ReadsHead, Syncing, Visit
    <3> QED BY <1>3, <2>1, <3>1 DEF Visits
  <2>7. ASSUME NEW i \in Things, Synced(i) PROVE TreeTypeOK' /\ Visits'
    <3>1. audio.todo # <<>> BY <2>7 DEF Synced, Syncing, Reading, Visits
    <3>2. audio' = [of |-> audio.of, at |-> "sync", todo |-> Tail(audio.todo)]
      BY <2>7 DEF Synced, Visit
    <3>3. /\ Tail(audio.todo) \in Seq(Things) /\ Once(Tail(audio.todo))
          /\ Members(Tail(audio.todo)) \subseteq Members(audio.todo)
      BY <1>3, <3>1, TailIs DEF Visits
    <3> QED BY <1>3, <2>1, <3>2, <3>3 DEF Visits
  <2> QED BY <2>3, <2>4, <2>5, <2>6, <2>7
<1> QED BY <1>2, <1>4

\* What is linked for the first time joins the parent it was created under, and is
\* at the front of its manager's list.
LEMMA PromoteIs ==
  ASSUME PatientHost, TreeInv, NEW i \in Things, Promote(i)
  PROVE  /\ i \in waiting /\ i \notin InUse /\ waiting' = waiting \ {i}
         /\ UNCHANGED <<host, audio, released>>
         /\ parent' = parent /\ parent[i] # i
         /\ \A q \in Parents : children'[q] = {j \in InUse \union {i} : parent'[j] = q}
         /\ children' \in [Parents -> SUBSET Things]
         /\ inUse' \in [Kinds -> Seq(Things)] /\ Lists' /\ InUse' = InUse \union {i}
         /\ \A k \in Kinds : \A x, y : Earlier(inUse[k], x, y) => Earlier(inUse'[k], x, y)
         /\ \A y \in Members(inUse[Kind(i)]) : Earlier(inUse'[Kind(i)], i, y)
<1> USE DEF PatientHost, TreeInv, Parents, Things
<1>1. /\ i \in waiting /\ Kind(i) = audio.of /\ waiting' = waiting \ {i}
      /\ inUse' = [inUse EXCEPT ![audio.of] = <<i>> \o @]
      /\ Connect(parent[i], i) /\ UNCHANGED <<host, audio, released>>
  BY DEF Promote
<1>2. i \notin InUse /\ parent[i] \in Parents BY <1>1 DEF Linked
<1>3. parent[i] # i BY <1>1 DEF Mailboxes
<1>4. /\ parent' = [parent EXCEPT ![i] = parent[i]]
      /\ \A q \in Parents : children'[q] = {j \in InUse \union {i} : parent'[j] = q}
      /\ children' \in [Parents -> SUBSET Things]
  BY <1>1, <1>2, <1>3, ConnectIs
<1>5. parent' = parent BY <1>4 DEF TreeTypeOK
<1>6. audio.of \in Kinds /\ inUse[audio.of] \in Seq(Things) /\ Once(inUse[audio.of])
  BY DEF TreeTypeOK, Lists
<1>7. i \notin Members(inUse[audio.of]) BY <1>1, <1>2 DEF InUse, Members
<1>8. /\ <<i>> \o inUse[audio.of] \in Seq(Things) /\ Once(<<i>> \o inUse[audio.of])
      /\ Members(<<i>> \o inUse[audio.of]) = Members(inUse[audio.of]) \union {i}
      /\ \A x, y : Earlier(inUse[audio.of], x, y) => Earlier(<<i>> \o inUse[audio.of], x, y)
      /\ \A y \in Members(inUse[audio.of]) : Earlier(<<i>> \o inUse[audio.of], i, y)
  BY <1>6, <1>7, FrontIs
<1>9. \A k \in Kinds :
        inUse'[k] = IF k = audio.of THEN <<i>> \o inUse[audio.of] ELSE inUse[k]
  BY <1>1, <1>6 DEF TreeTypeOK
<1>10. Lists' BY <1>1, <1>8, <1>9 DEF Lists, Kind
<1>11. InUse' = InUse \union {i}
  <2>1. \A j \in Things : Kind(j) \in Kinds BY DEF Kind, Kinds
  <2>2. \A j \in Things : j \in InUse <=> j \in Members(inUse[Kind(j)]) BY DEF InUse, Members
  <2>3. \A j \in Things : j \in InUse' <=> j \in Members(inUse'[Kind(j)])
    BY DEF InUse, Members, Kind
  <2>4. InUse \subseteq Things /\ InUse' \subseteq Things BY DEF InUse
  <2>5. ASSUME NEW j \in Things PROVE j \in InUse' <=> j \in InUse \/ j = i
    <3>1. CASE Kind(j) = audio.of BY <1>1, <1>8, <1>9, <2>1, <2>2, <2>3, <3>1
    <3>2. CASE Kind(j) # audio.of BY <1>1, <1>9, <2>1, <2>2, <2>3, <3>2
    <3> QED BY <3>1, <3>2
  <2> QED BY <2>4, <2>5
<1>12. inUse' \in [Kinds -> Seq(Things)] BY <1>1, <1>6, <1>8 DEF TreeTypeOK
<1>13. \A k \in Kinds : \A x, y : Earlier(inUse[k], x, y) => Earlier(inUse'[k], x, y) BY <1>8, <1>9
<1>14. \A y \in Members(inUse[Kind(i)]) : Earlier(inUse'[Kind(i)], i, y) BY <1>1, <1>6, <1>8, <1>9
<1> QED BY <1>1, <1>2, <1>3, <1>4, <1>5, <1>10, <1>11, <1>12, <1>13, <1>14

\* That is all it changes.
LEMMA PromoteKeeps ==
  ASSUME PatientHost, TreeInv, NEW i \in Things, Promote(i)
  PROVE  TreeInv'
<1> USE DEF PatientHost, TreeInv, Parents, Things
<1>1. /\ i \in waiting /\ i \notin InUse /\ waiting' = waiting \ {i}
      /\ UNCHANGED <<host, audio, released>>
      /\ parent' = parent /\ InUse' = InUse \union {i} /\ Lists'
      /\ inUse' \in [Kinds -> Seq(Things)] /\ children' \in [Parents -> SUBSET Things]
      /\ \A q \in Parents : children'[q] = {j \in InUse \union {i} : parent'[j] = q}
  BY PromoteIs
<1>2. TreeTypeOK' BY <1>1 DEF TreeTypeOK, host
<1>3. Visits' BY <1>1 DEF Visits, Kind
<1>4. Mailboxes' BY <1>1 DEF Mailboxes, host, Alive
<1>5. Linked' BY <1>1 DEF Linked, host, Alive
<1>6. Asked'
  <2>1. InUse' \union waiting' = InUse \union waiting BY <1>1
  <2> QED BY <1>1, <2>1 DEF Asked, Lifted, host
<1>7. Ranks' BY <1>1, TreeUntouched DEF host
<1> QED BY <1>1, <1>2, <1>3, <1>4, <1>5, <1>6, <1>7

\* A sound that is not linked leaves no link behind.
LEMMA ScrubKeeps ==
  ASSUME PatientHost, TreeInv, NEW s \in Things, Scrub(s)
  PROVE  TreeInv'
<1> USE DEF PatientHost, TreeInv, Parents, Things
<1>1. /\ s \in waiting /\ s \in Sounds /\ life[s] = "gone"
      /\ waiting' = waiting \ {s} /\ released' = released \union {s}
      /\ UNCHANGED <<host, inUse, audio, tree>>
  BY DEF Scrub
<1>2. TreeTypeOK' BY <1>1 DEF TreeTypeOK, host, tree
<1>3. Lists' /\ InUse' = InUse /\ Visits' BY <1>1, TreeUntouched
<1>4. Mailboxes' BY <1>1 DEF Mailboxes, Alive, host, tree
<1>5. Linked' BY <1>1, <1>3 DEF Linked, Alive, host, tree
<1>6. Asked' BY <1>1, <1>3 DEF Asked, Lifted, host, tree
<1>7. Ranks' BY <1>1, TreeUntouched DEF host
<1> QED BY <1>2, <1>3, <1>4, <1>5, <1>6, <1>7


\* What update() looks at is in use.
LEMMA FirstIsInUse ==
  ASSUME PatientHost, TreeInv, NEW i \in Things, Syncing(i) \/ Reading(i)
  PROVE  i \in InUse /\ Kind(i) = audio.of /\ audio.todo # <<>> /\ i = Head(audio.todo)
<1> USE DEF TreeInv
<1>1. audio.todo # <<>> /\ i = Head(audio.todo) BY DEF Syncing, Reading, First, Visits
<1>2. audio.todo \in Seq(Things) /\ Once(audio.todo) BY DEF TreeTypeOK, Visits
<1>3. i \in Members(audio.todo) BY <1>1, <1>2, TailIs
<1> QED BY <1>1, <1>3 DEF Visits

\* Nothing in use is before the channel that is looked at.
LEMMA FirstIsFirst ==
  ASSUME PatientHost, TreeInv, InOrder, NEW i \in Channels, Syncing(i), NEW d \in InUse
  PROVE  ~Before(d, i)
<1> USE DEF PatientHost, TreeInv, Things
<1>1. i \in InUse /\ audio.of = "channel" /\ audio.todo # <<>> /\ i = Head(audio.todo)
  BY FirstIsInUse DEF Kind
<1>2. Updating /\ Ahead = Members(audio.todo) BY <1>1 DEF Updating, Ahead, Syncing
<1>3. audio.todo \in Seq(Things) /\ Once(audio.todo) BY DEF TreeTypeOK, Visits
<1>4. /\ i \in Members(audio.todo) /\ Members(Tail(audio.todo)) = Members(audio.todo) \ {i}
      /\ \A y \in Members(Tail(audio.todo)) : Earlier(audio.todo, i, y)
  BY <1>1, <1>3, TailIs
<1>5. inUse["channel"] \in Seq(Things) /\ Once(inUse["channel"])
  BY DEF TreeTypeOK, Lists, Kinds
<1> SUFFICES ASSUME Before(d, i) PROVE FALSE OBVIOUS
<1>6. d \notin waiting /\ d \in Things BY DEF Linked, InUse
<1>7. d \in Ahead /\ Earlier(inUse["channel"], d, i) BY <1>2, <1>4, <1>6 DEF Before
<1>8. d # i /\ ~Earlier(inUse["channel"], i, d) BY <1>5, <1>7, EarlierOnce
<1>9. Earlier(audio.todo, i, d) BY <1>2, <1>4, <1>7, <1>8
<1> QED BY <1>2, <1>6, <1>8, <1>9 DEF InOrder

\* So the parent of a channel that goes is not one of its children.
LEMMA HeirIsAnother ==
  ASSUME PatientHost, TreeInv, InOrder, Entangled,
         NEW c \in Channels, NEW i \in Things, MoveUp(c, i)
  PROVE  parent[c] # i
<1> USE DEF PatientHost, TreeInv, Things, Parents
<1>1. Syncing(c) /\ audio.at = "sync" /\ life[c] = "gone" /\ i \in children[c] /\ c \in Parents
  BY DEF MoveUp, Syncing
<1>2. c \in InUse BY <1>1, FirstIsInUse
<1>3. i \in InUse /\ parent[i] = c BY <1>1 DEF Linked
<1>4. mail[c] = <<>> BY <1>1 DEF Mailboxes, Alive
<1> SUFFICES ASSUME parent[c] = i PROVE FALSE OBVIOUS
<1>5. i \in Channels BY <1>2 DEF Linked
<1> DEFINE S == {c, i}
<1>6. S \in SUBSET (Channels \intersect (InUse \union waiting)) /\ Closed(S)
  BY <1>2, <1>3, <1>5 DEF Closed
<1>7. Due(S) BY <1>6 DEF Entangled
<1>8. PICK d \in S, m \in S \intersect InUse : d # m /\ mail[d] # <<>> /\ Before(d, m)
  BY <1>1, <1>7 DEF Due, Reading
<1>9. d = i /\ m = c BY <1>4, <1>8
<1> QED BY <1>1, <1>3, <1>8, <1>9, FirstIsFirst

\* A link to something that lasts.
LEMMA Relinked ==
  ASSUME PatientHost, TreeInv, NEW i \in InUse, NEW p \in Parents \ released,
         p = Master \/ life[p] # "absent", p # i, Connect(p, i),
         UNCHANGED <<life, lists, released>>
  PROVE  /\ Linked' /\ parent' = [parent EXCEPT ![i] = p]
         /\ parent' \in [Things -> Parents \union {Nobody}]
         /\ children' \in [Parents -> SUBSET Things]
<1> USE DEF PatientHost, TreeInv, Parents, Things
<1>1. i \in Things BY DEF InUse
<1>2. /\ parent' = [parent EXCEPT ![i] = p]
      /\ \A q \in Parents : children'[q] = {j \in InUse \union {i} : parent'[j] = q}
      /\ parent' \in [Things -> Parents \union {Nobody}]
      /\ children' \in [Parents -> SUBSET Things]
  BY <1>1, ConnectIs
<1>3. InUse' = InUse /\ InUse \subseteq Things /\ waiting' = waiting
  BY DEF lists, InUse
<1>4. \A j \in Things : parent'[j] = IF j = i THEN p ELSE parent[j] BY <1>2 DEF TreeTypeOK
<1>5. waiting \subseteq Things BY DEF TreeTypeOK
<1>6. Linked' BY <1>2, <1>3, <1>4, <1>5 DEF Linked, Alive
<1> QED BY <1>2, <1>6

\* A move takes a thing to where the host asked for it to be.
LEMMA MoveKeeps ==
  ASSUME PatientHost, TreeInv, NEW i \in Things, Move(i)
  PROVE  TreeInv'
<1> USE DEF PatientHost, TreeInv, Parents, Things
<1> DEFINE p == Head(mail[i])
<1>1. /\ Reading(i) /\ mail[i] # <<>> /\ Connect(p, i)
      /\ mail' = [mail EXCEPT ![i] = Tail(@)]
      /\ UNCHANGED <<life, under, moves, lists, audio, released>>
  BY DEF Move
<1>2. i \in InUse /\ i \in Alive BY <1>1, FirstIsInUse DEF Mailboxes
<1>3. mail[i] \in Seq(Parents) BY DEF TreeTypeOK
<1>4. /\ Tail(mail[i]) \in Seq(Parents) /\ p \in Parents /\ p = mail[i][1] /\ 1 \in DOMAIN mail[i]
      /\ \A n \in DOMAIN Tail(mail[i]) : n + 1 \in DOMAIN mail[i]
                                          /\ Tail(mail[i])[n] = mail[i][n + 1]
  BY <1>1, <1>3
<1>5. p \in Alive \union {Master} /\ p # i BY <1>4 DEF Mailboxes
<1> HIDE DEF p
<1>6. p \notin released BY <1>5 DEF Linked, Alive, TreeTypeOK
<1>7. /\ Linked' /\ parent' = [parent EXCEPT ![i] = p]
      /\ parent' \in [Things -> Parents \union {Nobody}]
      /\ children' \in [Parents -> SUBSET Things]
  BY <1>1, <1>2, <1>4, <1>5, <1>6, Relinked DEF Alive
<1>8. TreeTypeOK' BY <1>1, <1>3, <1>4, <1>7 DEF TreeTypeOK, lists
<1>9. Lists' /\ Visits' /\ InUse' = InUse BY <1>1, TreeUntouched DEF lists
<1>10. /\ \A j \in Things : j # i => mail'[j] = mail[j] /\ parent'[j] = parent[j]
       /\ mail'[i] = Tail(mail[i]) /\ parent'[i] = p
  BY <1>1, <1>7 DEF TreeTypeOK
<1>11. Mailboxes'
  <2>1. Alive' = Alive /\ waiting' = waiting BY <1>1 DEF Alive, lists
  <2>2. \A j \in Things : mail'[j] # <<>> => j \in Alive BY <1>2, <1>10 DEF Mailboxes
  <2>3. ASSUME NEW j \in Things, NEW n \in DOMAIN mail'[j]
        PROVE  mail'[j][n] \in Alive \union {Master} /\ mail'[j][n] # j
    <3>1. CASE j = i
      <4>1. n + 1 \in DOMAIN mail[i] /\ mail'[j][n] = mail[i][n + 1] BY <1>4, <1>10, <2>3, <3>1
      <4>2. \A m \in DOMAIN mail[i] : mail[i][m] \in Alive \union {Master} /\ mail[i][m] # i
        BY DEF Mailboxes
      <4> QED BY ONLY <3>1, <4>1, <4>2
    <3>2. CASE j # i BY <1>10, <2>3, <3>2 DEF Mailboxes
    <3> QED BY <3>1, <3>2
  <2>4. i \notin waiting /\ waiting \subseteq Things BY <1>2 DEF Linked, TreeTypeOK
  <2>5. \A j \in waiting : parent'[j] \in Alive \union {Master} /\ parent'[j] # j
    BY <1>10, <2>4 DEF Mailboxes
  <2> QED BY <2>1, <2>2, <2>3, <2>5 DEF Mailboxes
<1>12. /\ Tail(mail[i]) # <<>> => Tail(mail[i])[Len(Tail(mail[i]))] = mail[i][Len(mail[i])]
       /\ Tail(mail[i]) = <<>> => p = mail[i][Len(mail[i])]
  <2> DEFINE t == Tail(mail[i])
  <2>1. /\ Len(t) = Len(mail[i]) - 1 /\ Len(mail[i]) \in Nat \ {0} /\ t \in Seq(Parents)
        /\ \A n \in 1..Len(t) : t[n] = mail[i][n + 1]
    BY <1>1, <1>3
  <2> HIDE DEF t
  <2>2. t = <<>> => Len(t) = 0 OBVIOUS
  <2>3. t # <<>> => Len(t) \in 1..Len(t) /\ Len(t) + 1 = Len(mail[i]) BY <2>1
  <2> QED BY <1>4, <2>1, <2>2, <2>3 DEF t
<1>13. Asked'
  <2>1. mail[i][Len(mail[i])] = under[i] BY <1>1 DEF Asked
  <2>2. ASSUME NEW c \in Things, c \in InUse' \union waiting', mail'[c] = <<>>
        PROVE  Lifted(c, parent[c])'
    <3>1. CASE c = i
      <4>1. parent'[c] = under'[c] BY <1>1, <1>10, <1>12, <2>1, <2>2, <3>1
      <4> QED BY <4>1 DEF Lifted
    <3>2. CASE c # i
      <4>1. Lifted(c, parent[c]) /\ parent'[c] = parent[c]
        BY <1>1, <1>9, <1>10, <2>2, <3>2 DEF Asked, lists
      <4> QED BY <1>1, <4>1 DEF Lifted
    <3> QED BY <3>1, <3>2
  <2>3. \A j \in Things : mail'[j] # <<>> => mail'[j][Len(mail'[j])] = under'[j]
    BY <1>1, <1>10, <1>12, <2>1 DEF Asked
  <2>4. \A j \in Things : life'[j] # "absent" =>
          under'[j] \in Parents /\ (under'[j] = Master \/ life'[under'[j]] # "absent")
    BY <1>1 DEF Asked
  <2> QED BY <2>2, <2>3, <2>4 DEF Asked
<1>14. Ranks' BY <1>1, TreeUntouched
<1> QED BY <1>7, <1>8, <1>9, <1>11, <1>13, <1>14

\* What a channel leaves to its parent is lifted past it.
LEMMA MoveUpKeeps ==
  ASSUME PatientHost, TreeInv, InOrder, Entangled,
         NEW c \in Channels, NEW i \in Things, MoveUp(c, i)
  PROVE  TreeInv'
<1> USE DEF PatientHost, TreeInv, Parents, Things
<1> DEFINE p == parent[c]
<1>1. /\ Syncing(c) /\ life[c] = "gone" /\ i \in children[c] /\ Connect(p, i)
      /\ UNCHANGED <<host, lists, audio, released>>
  BY DEF MoveUp, Heir
<1>2. c \in InUse BY <1>1, FirstIsInUse
<1>3. i \in InUse /\ parent[i] = c BY <1>1 DEF Linked
<1>4. p \in Parents \ released /\ (p = Master \/ life[p] # "absent") BY <1>2 DEF Linked
<1>8. p # i BY HeirIsAnother
<1>9. mail[c] = <<>> BY <1>1 DEF Mailboxes, Alive
<1>10. Lifted(c, p) BY <1>2, <1>9 DEF Asked
<1> HIDE DEF p
<1>11. /\ Linked' /\ parent' = [parent EXCEPT ![i] = p]
       /\ parent' \in [Things -> Parents \union {Nobody}]
       /\ children' \in [Parents -> SUBSET Things]
  BY <1>1, <1>3, <1>4, <1>8, Relinked DEF host
<1>12. TreeTypeOK' BY <1>1, <1>11 DEF TreeTypeOK, host, lists
<1>13. Lists' /\ Visits' /\ InUse' = InUse BY <1>1, TreeUntouched DEF lists
<1>14. parent'[i] = p /\ \A j \in Things : j # i => parent'[j] = parent[j] BY <1>11 DEF TreeTypeOK
<1>15. Mailboxes'
  <2>1. i \notin waiting /\ waiting \subseteq Things BY <1>3 DEF Linked, TreeTypeOK
  <2> QED BY <1>1, <1>14, <2>1 DEF Mailboxes, Alive, host, lists
<1>16. Asked'
  <2>1. ASSUME NEW d \in Things, d \in InUse' \union waiting', mail'[d] = <<>>
        PROVE  Lifted(d, parent[d])'
    <3>1. Lifted(d, parent[d]) BY <1>1, <1>13, <2>1 DEF Asked, host, lists
    <3>2. CASE d # i BY <1>1, <1>14, <3>1, <3>2 DEF Lifted, host
    <3>3. CASE d = i
      <4>1. Lifted(i, c) BY <1>3, <3>1, <3>3
      <4>2. Lifted(i, p)
        <5> SUFFICES ASSUME NEW T \in SUBSET Parents, under[i] \in T,
                            \A q \in T \ {Master} : life[q] = "gone" => under[q] \in T
                     PROVE  p \in T
          BY DEF Lifted
        <5>1. c \in T BY <4>1 DEF Lifted
        <5>2. under[c] \in T BY <1>1, <5>1
        <5> QED BY <1>10, <5>2 DEF Lifted
      <4> QED BY <1>1, <1>14, <3>3, <4>2 DEF Lifted, host
    <3> QED BY <3>2, <3>3
  <2> QED BY <1>1, <2>1 DEF Asked, host
<1>17. Ranks' BY <1>1, TreeUntouched DEF host
<1> QED BY <1>11, <1>12, <1>13, <1>15, <1>16, <1>17

\* What goes leaves its manager's list and its parent's, and takes no child along.
LEMMA ReleaseIs ==
  ASSUME PatientHost, TreeInv, NEW i \in Things, Release(i)
  PROVE  /\ Syncing(i) /\ life[i] = "gone" /\ i \in InUse /\ Kind(i) = audio.of
         /\ UNCHANGED <<host, waiting>>
         /\ audio' = [of |-> audio.of, at |-> "sync", todo |-> Tail(audio.todo)]
         /\ audio.todo # <<>> /\ i = Head(audio.todo)
         /\ released' = released \union {i} /\ parent' = parent
         /\ parent[i] \in Parents /\ children' = [children EXCEPT ![parent[i]] = @ \ {i}]
         /\ i \in Channels => children[i] = {}
         /\ inUse' \in [Kinds -> Seq(Things)] /\ Lists' /\ InUse' = InUse \ {i}
         /\ \A k \in Kinds : \A x, y :
              Earlier(inUse[k], x, y) /\ x # i /\ y # i => Earlier(inUse'[k], x, y)
<1> USE DEF PatientHost, TreeInv, Parents, Things
<1>1. /\ Syncing(i) /\ life[i] = "gone" /\ (i \in Channels => ChildrenGone(i))
      /\ inUse' = [inUse EXCEPT ![audio.of] = Without(@, i)]
      /\ parent[i] # Nobody => Disconnect(parent[i], i)
      /\ released' = released \union {i}
      /\ audio' = [of |-> audio.of, at |-> "sync", todo |-> Tail(audio.todo)]
      /\ UNCHANGED <<host, waiting>>
  BY DEF Release, Visit
<1>2. i \in InUse /\ Kind(i) = audio.of /\ audio.todo # <<>> /\ i = Head(audio.todo)
  BY <1>1, FirstIsInUse
<1>3. parent[i] \in Parents BY <1>2 DEF Linked
<1>4. parent' = parent /\ children' = [children EXCEPT ![parent[i]] = @ \ {i}]
  BY <1>1, <1>3 DEF Disconnect
<1>5. i \in Channels => children[i] = {} BY <1>1, <1>3 DEF ChildrenGone
<1>6. audio.of \in Kinds /\ inUse[audio.of] \in Seq(Things) /\ Once(inUse[audio.of])
  BY DEF TreeTypeOK, Lists
<1>7. i \in Members(inUse[audio.of]) BY <1>2 DEF InUse, Members
<1>8. /\ Without(inUse[audio.of], i) \in Seq(Things) /\ Once(Without(inUse[audio.of], i))
      /\ Members(Without(inUse[audio.of], i)) = Members(inUse[audio.of]) \ {i}
      /\ \A x, y : Earlier(inUse[audio.of], x, y) /\ x # i /\ y # i
                   => Earlier(Without(inUse[audio.of], i), x, y)
  BY <1>6, <1>7, WithoutIs
<1>9. \A k \in Kinds :
        inUse'[k] = IF k = audio.of THEN Without(inUse[audio.of], i) ELSE inUse[k]
  BY <1>1, <1>6 DEF TreeTypeOK
<1>10. Lists' BY <1>8, <1>9 DEF Lists, Kind
<1>11. InUse' = InUse \ {i}
  <2>1. \A j \in Things : Kind(j) \in Kinds BY DEF Kind, Kinds
  <2>2. \A j \in Things : j \in InUse <=> j \in Members(inUse[Kind(j)]) BY DEF InUse, Members
  <2>3. \A j \in Things : j \in InUse' <=> j \in Members(inUse'[Kind(j)])
    BY DEF InUse, Members, Kind
  <2>4. InUse \subseteq Things /\ InUse' \subseteq Things BY DEF InUse
  <2>5. ASSUME NEW j \in Things PROVE j \in InUse' <=> j \in InUse /\ j # i
    <3>1. CASE Kind(j) = audio.of BY <1>8, <1>9, <2>1, <2>2, <2>3, <3>1
    <3>2. CASE Kind(j) # audio.of BY <1>2, <1>9, <2>1, <2>2, <2>3, <3>2
    <3> QED BY <3>1, <3>2
  <2> QED BY <2>4, <2>5
<1>12. inUse' \in [Kinds -> Seq(Things)] BY <1>1, <1>6, <1>8 DEF TreeTypeOK
<1>13. \A k \in Kinds : \A x, y :
         Earlier(inUse[k], x, y) /\ x # i /\ y # i => Earlier(inUse'[k], x, y)
  BY <1>8, <1>9
<1> QED BY <1>1, <1>2, <1>3, <1>4, <1>5, <1>10, <1>11, <1>12, <1>13

\* Nothing is left in it.
LEMMA ReleaseKeeps ==
  ASSUME PatientHost, TreeInv, NEW i \in Things, Release(i)
  PROVE  TreeInv'
<1> USE DEF PatientHost, TreeInv, Parents, Things
<1>1. /\ life[i] = "gone" /\ UNCHANGED <<host, waiting>> /\ released' = released \union {i}
      /\ audio' = [of |-> audio.of, at |-> "sync", todo |-> Tail(audio.todo)]
      /\ inUse' \in [Kinds -> Seq(Things)]
  BY ReleaseIs
<1>2. i \in InUse /\ Kind(i) = audio.of /\ audio.todo # <<>> /\ i = Head(audio.todo) BY ReleaseIs
<1>3. parent[i] \in Parents BY ReleaseIs
<1>4. parent' = parent /\ children' = [children EXCEPT ![parent[i]] = @ \ {i}] BY ReleaseIs
<1>5. i \in Channels => children[i] = {} BY ReleaseIs
<1>10. Lists' BY ReleaseIs
<1>11. InUse' = InUse \ {i} BY ReleaseIs
<1>12. audio.todo \in Seq(Things) /\ Once(audio.todo) BY DEF TreeTypeOK, Visits
<1>13. /\ Tail(audio.todo) \in Seq(Things) /\ Once(Tail(audio.todo))
       /\ Members(Tail(audio.todo)) = Members(audio.todo) \ {i}
  BY <1>2, <1>12, TailIs
<1>14. audio'.of = audio.of /\ audio'.at = "sync" /\ audio'.todo = Tail(audio.todo) BY <1>1
<1>15. TreeTypeOK'
  <2>1. audio.of \in Kinds BY DEF TreeTypeOK
  <2>2. children' \in [Parents -> SUBSET Things] BY <1>4 DEF TreeTypeOK
  <2> QED BY <1>1, <1>4, <1>13, <1>14, <2>1, <2>2 DEF TreeTypeOK, host
<1>16. Visits' BY <1>11, <1>13, <1>14 DEF Visits, Kind
<1>17. Mailboxes' BY <1>1, <1>4 DEF Mailboxes, Alive, host
<1>18. Linked'
  <2>1. \A j \in InUse : parent[j] # i BY <1>3, <1>5 DEF Linked, InUse
  <2>2. \A j \in waiting : parent[j] # i BY <1>1 DEF Mailboxes, Alive
  <2>3. \A q \in Parents : children'[q] = {j \in InUse' : parent'[j] = q}
    <3>1. \A q \in Parents : children[q] = {j \in InUse : parent[j] = q} BY DEF Linked
    <3>2. \A q \in Parents : children'[q] = IF q = parent[i] THEN children[q] \ {i}
                                            ELSE children[q]
      BY <1>4 DEF TreeTypeOK
    <3> QED BY <1>4, <1>11, <3>1, <3>2
  <2> QED BY <1>1, <1>2, <1>4, <1>11, <2>1, <2>2, <2>3 DEF Linked, Alive, host
<1>19. Asked' BY <1>1, <1>4, <1>11 DEF Asked, Lifted, host
<1>20. Ranks' BY <1>1, TreeUntouched DEF host
<1> QED BY <1>10, <1>15, <1>16, <1>17, <1>18, <1>19, <1>20


\* Nothing is there at first.
LEMMA InitEstablishesInv == PatientHost /\ TreeInit => TreeInv
<1> SUFFICES ASSUME PatientHost, TreeInit PROVE TreeInv OBVIOUS
<1> USE DEF PatientHost, Parents, Things, TreeInit
<1>1. Once(<<>>) /\ Members(<<>>) = {} BY DEF Once, Members
<1>2. InUse = {} BY DEF InUse, Kinds, Kind
<1>3. Alive = {} BY DEF Alive
<1>4. TreeTypeOK BY DEF TreeTypeOK, Kinds
<1>5. Lists /\ Visits BY <1>1, <1>2 DEF Lists, Visits
<1>6. Mailboxes BY DEF Mailboxes
<1>7. Linked BY <1>2, <1>3 DEF Linked
<1>8. Asked BY <1>2 DEF Asked
<1>9. Ranks
  <2> DEFINE r == [q \in Parents |-> 0]
  <2>1. r \in [Parents -> Nat] OBVIOUS
  <2>2. Ranked(r) BY <1>2 DEF Ranked
  <2> QED BY <2>1, <2>2 DEF Ranks
<1> QED BY <1>4, <1>5, <1>6, <1>7, <1>8, <1>9 DEF TreeInv

(***************************************************************************)
(* The circles                                                             *)
(***************************************************************************)

\* What neither moves update() nor takes from the lists or from the mail keeps
\* what is due.
LEMMA DueKept ==
  ASSUME UNCHANGED <<inUse, audio>>, waiting \subseteq waiting', NEW S, Due(S),
         \A j \in S : mail[j] # <<>> => mail'[j] # <<>>
  PROVE  Due(S)'
<1>1. InUse' = InUse /\ Ahead' = Ahead BY DEF InUse, Ahead, Updating, First
<1>2. CASE \E d \in S : Reading(d) /\ mail[d] # <<>> BY <1>2 DEF Due, Reading, First
<1>3. ASSUME NEW d \in S, NEW m \in S \intersect InUse, d # m, mail[d] # <<>>, Before(d, m)
      PROVE  Due(S)'
  <2>1. Before(d, m)' BY <1>1, <1>3 DEF Before
  <2>2. mail'[d] # <<>> BY <1>3
  <2> QED BY <1>1, <1>3, <2>1, <2>2 DEF Due
<1> QED BY <1>2, <1>3 DEF Due

\* Nothing the host does closes a circle.
LEMMA HostKeepsCircles ==
  ASSUME PatientHost, TreeInv, InOrder, Entangled, Host
  PROVE  InOrder' /\ Entangled'
<1> USE DEF PatientHost, TreeInv, Parents, Things
<1>1. UNCHANGED <<inUse, audio>> BY DEF Host, Create, MoveTo, Destroy, lists
<1>2. InOrder' BY <1>1 DEF InOrder, Updating
<1>3. InUse' = InUse BY <1>1 DEF InUse
<1> SUFFICES ASSUME NEW S \in SUBSET (Channels \intersect (InUse' \union waiting')), Closed(S)'
             PROVE  Due(S)'
  BY <1>2 DEF Entangled
<1>4. S # {} /\ \A c \in S : parent'[c] \in S BY DEF Closed
<1>5. ASSUME NEW i \in Things, NEW p \in Parents, Create(i, p) PROVE Due(S)'
  <2>1. /\ life[i] = "absent" /\ p \in Alive \union {Master} /\ UNCHANGED mail
        /\ parent' = [parent EXCEPT ![i] = p] /\ waiting' = waiting \union {i}
    BY <1>5 DEF Create
  <2>2. p # i /\ i \notin InUse \union waiting BY <2>1 DEF Linked, Alive
  <2>3. parent'[i] = p /\ \A j \in Things : j # i => parent'[j] = parent[j]
    BY <2>1 DEF TreeTypeOK
  <2>4. \A c \in InUse \union waiting : parent[c] # i BY <2>1 DEF Linked
  <2> DEFINE T == S \ {i}
  <2>5. T \in SUBSET (Channels \intersect (InUse \union waiting)) BY <1>3, <2>1
  <2>6. T # {} BY <1>4, <2>2, <2>3
  <2>7. \A c \in T : parent[c] \in T BY <1>4, <2>3, <2>4, <2>5
  <2> HIDE DEF T
  <2>8. Due(T) BY <2>5, <2>6, <2>7 DEF Entangled, Closed
  <2>9. Due(T)' BY <1>1, <2>1, <2>8, DueKept
  <2> QED BY <2>9 DEF Due, T
<1>6. ASSUME NEW i \in Things, NEW p \in Parents, MoveTo(i, p) PROVE Due(S)'
  <2>1. mail' = [mail EXCEPT ![i] = Append(@, p)] /\ UNCHANGED <<waiting, parent>>
    BY <1>6 DEF MoveTo, lists, tree
  <2>2. Due(S) BY <1>3, <1>4, <2>1 DEF Entangled, Closed
  <2>3. ASSUME NEW j \in S, mail[j] # <<>> PROVE mail'[j] # <<>>
    <3>1. j \in Things /\ mail[i] \in Seq(Parents) BY DEF TreeTypeOK
    <3>2. Append(mail[i], p) # <<>> BY <3>1
    <3> QED BY <2>1, <2>3, <3>1, <3>2 DEF TreeTypeOK
  <2> QED BY <1>1, <2>1, <2>2, <2>3, DueKept
<1>7. ASSUME NEW i \in Things, Destroy(i) PROVE Due(S)'
  <2>1. UNCHANGED <<mail, waiting, parent>> BY <1>7 DEF Destroy, lists, tree
  <2>2. Due(S) BY <1>3, <1>4, <2>1 DEF Entangled, Closed
  <2> QED BY <1>1, <2>1, <2>2, DueKept
<1> QED BY <1>5, <1>6, <1>7 DEF Host

\* When the one that is looked at is done, the rest are in order.
LEMMA RestInOrder ==
  ASSUME PatientHost, TreeInv, InOrder, Updating, audio.todo # <<>>
  PROVE  /\ \A x, y \in Things : Earlier(Tail(audio.todo), x, y) => Earlier(inUse["channel"], x, y)
         /\ \A x, y \in Things :
              /\ x \in Members(inUse["channel"]) /\ x \notin Members(Tail(audio.todo))
              /\ y \in Members(Tail(audio.todo))
              => Earlier(inUse["channel"], x, y)
<1> USE DEF PatientHost, TreeInv
<1>1. audio.todo \in Seq(Things) /\ Once(audio.todo) BY DEF TreeTypeOK, Visits
<1>2. /\ Head(audio.todo) \in Members(audio.todo)
      /\ Members(Tail(audio.todo)) = Members(audio.todo) \ {Head(audio.todo)}
      /\ \A x, y : Earlier(Tail(audio.todo), x, y) => Earlier(audio.todo, x, y)
      /\ \A y \in Members(Tail(audio.todo)) : Earlier(audio.todo, Head(audio.todo), y)
  BY <1>1, TailIs
<1> QED BY <1>2 DEF InOrder

\* The order is that of the list, from where update() begins to its end.
LEMMA PassKeepsOrder ==
  ASSUME PatientHost, TreeInv, InOrder, Pass
  PROVE  InOrder'
<1> USE DEF PatientHost, TreeInv, Parents, Things
<1>1. ASSUME UNCHANGED <<inUse, audio>> PROVE InOrder' BY <1>1 DEF InOrder, Updating
<1>2. ASSUME ~Updating' PROVE InOrder' BY <1>2 DEF InOrder
<1>3. CASE BeginUpdate \/ NextManager
  BY <1>2, <1>3 DEF BeginUpdate, NextManager, Visit, Updating
<1>4. CASE BeginSync
  <2>1. audio' = [of |-> audio.of, at |-> "sync", todo |-> inUse[audio.of]] /\ inUse' = inUse
    BY <1>4 DEF BeginSync, Visit, lists
  <2> SUFFICES ASSUME Updating' PROVE InOrder' BY <1>2
  <2>2. audio'.todo = inUse'["channel"] BY <2>1 DEF Updating
  <2> QED BY <2>2 DEF InOrder
<1>5. ASSUME NEW i \in Things, Promote(i) PROVE InOrder'
  BY <1>2, <1>5 DEF Promote, Updating
<1>6. ASSUME NEW i \in Things, Scrub(i) \/ Move(i) PROVE InOrder'
  BY <1>1, <1>6 DEF Scrub, Move, lists
<1>7. ASSUME NEW c \in Channels, NEW i \in Things, MoveUp(c, i) PROVE InOrder'
  BY <1>1, <1>7 DEF MoveUp, lists
<1>8. ASSUME NEW i \in Things, ReadsHead(i) PROVE InOrder'
  <2>1. audio.at = "sync" /\ audio' = [of |-> audio.of, at |-> "read", todo |-> audio.todo]
        /\ inUse' = inUse
    BY <1>8 DEF ReadsHead, Syncing, Visit, lists
  <2> QED BY <2>1 DEF InOrder, Updating
<1>9. ASSUME NEW i \in Things, Synced(i) PROVE InOrder'
  <2>1. Syncing(i) \/ Reading(i) BY <1>9 DEF Synced
  <2>2. audio' = [of |-> audio.of, at |-> "sync", todo |-> Tail(audio.todo)] /\ inUse' = inUse
    BY <1>9 DEF Synced, Visit, lists
  <2> SUFFICES ASSUME Updating' PROVE InOrder' BY <1>2
  <2>3. Updating /\ audio.todo # <<>>
    BY <2>1, <2>2, FirstIsInUse DEF Updating, Syncing, Reading
  <2> QED BY <2>2, <2>3, RestInOrder DEF InOrder
<1>10. ASSUME NEW i \in Things, Release(i) PROVE InOrder'
  <2>1. /\ Syncing(i) /\ inUse' = [inUse EXCEPT ![audio.of] = Without(@, i)]
        /\ audio' = [of |-> audio.of, at |-> "sync", todo |-> Tail(audio.todo)]
    BY <1>10 DEF Release, Visit
  <2> SUFFICES ASSUME Updating' PROVE InOrder' BY <1>2
  <2>2. Updating /\ audio.of = "channel" BY <2>1 DEF Updating, Syncing
  <2>3. i \in InUse /\ Kind(i) = "channel" /\ audio.todo # <<>> /\ i = Head(audio.todo)
    BY <2>1, <2>2, FirstIsInUse
  <2> DEFINE list == inUse["channel"]
             t == Tail(audio.todo)
  <2>4. audio.todo \in Seq(Things) /\ Once(audio.todo) BY DEF TreeTypeOK, Visits
  <2>5. t \in Seq(Things) /\ Once(t) /\ i \notin Members(t) BY <2>3, <2>4, TailIs
  <2>6. list \in Seq(Things) /\ Once(list) /\ i \in Members(list)
    BY <2>3 DEF TreeTypeOK, Lists, Kinds, InUse, Members
  <2>7. /\ Members(Without(list, i)) = Members(list) \ {i}
        /\ \A x, y : Earlier(list, x, y) /\ x # i /\ y # i => Earlier(Without(list, i), x, y)
    BY <2>6, WithoutIs
  <2>8. inUse'["channel"] = Without(list, i) /\ audio'.todo = t
    BY <2>1, <2>2 DEF TreeTypeOK, Kinds
  <2>9. /\ \A x, y \in Things : Earlier(t, x, y) => Earlier(list, x, y)
        /\ \A x, y \in Things :
             x \in Members(list) /\ x \notin Members(t) /\ y \in Members(t) => Earlier(list, x, y)
    BY <2>2, <2>3, RestInOrder
  <2> HIDE DEF list, t
  <2>10. \A x, y \in Things : Earlier(t, x, y) => x # i /\ y # i BY <2>5, EarlierOnce
  <2>11. \A x, y \in Things : Earlier(t, x, y) => Earlier(Without(list, i), x, y)
    BY <2>7, <2>9, <2>10
  <2>12. \A x, y \in Things :
           x \in Members(Without(list, i)) /\ x \notin Members(t) /\ y \in Members(t)
             => Earlier(Without(list, i), x, y)
    BY <2>5, <2>7, <2>9
  <2> QED BY <2>8, <2>11, <2>12 DEF InOrder
<1> QED BY <1>3, <1>4, <1>5, <1>6, <1>7, <1>8, <1>9, <1>10 DEF Pass

\* A visit takes its turn from a channel that has no mail, or reads what it has.
LEMMA VisitKeepsCircles ==
  ASSUME PatientHost, TreeInv, InOrder, Entangled,
         \/ BeginUpdate \/ BeginSync \/ NextManager
         \/ \E i \in Things : ReadsHead(i) \/ Synced(i)
  PROVE  Entangled'
<1> USE DEF PatientHost, TreeInv, Parents, Things
<1>1. UNCHANGED <<mail, waiting, inUse, parent>>
  BY DEF BeginUpdate, BeginSync, NextManager, ReadsHead, Synced, host, lists, tree
<1>2. InUse' = InUse BY <1>1 DEF InUse
<1> SUFFICES ASSUME NEW S \in SUBSET (Channels \intersect (InUse \union waiting)), Closed(S), Due(S)
             PROVE  Due(S)'
  BY <1>1, <1>2 DEF Entangled, Closed
<1>3. \A d \in S : d \in Channels /\ d \in Things /\ d \in InUse \union waiting OBVIOUS
<1>4. ASSUME NEW d \in S, NEW m \in S \intersect InUse, d # m, mail[d] # <<>>, Before(d, m)'
      PROVE  Due(S)'
  BY <1>1, <1>2, <1>4 DEF Due
<1>5. CASE BeginUpdate \/ NextManager
  <2>1. Ahead = {} /\ Ahead' = {} /\ audio.at # "read"
    BY <1>5 DEF BeginUpdate, NextManager, Visit, Ahead, Updating, Members
  <2>2. PICK d \in S, m \in S \intersect InUse : d # m /\ mail[d] # <<>> /\ Before(d, m)
    BY <2>1 DEF Due, Reading
  <2>3. Before(d, m)' BY <1>1, <2>1, <2>2 DEF Before
  <2> QED BY <1>4, <2>2, <2>3
<1>6. CASE BeginSync
  <2>1. /\ audio.at = "promote"
        /\ audio' = [of |-> audio.of, at |-> "sync", todo |-> inUse[audio.of]]
    BY <1>6 DEF BeginSync, Visit
  <2>2. Ahead = {} /\ (Ahead' = {} \/ Ahead' = Members(inUse["channel"]))
    BY <2>1 DEF Ahead, Updating
  <2>3. PICK d \in S, m \in S \intersect InUse : d # m /\ mail[d] # <<>> /\ Before(d, m)
    BY <2>1 DEF Due, Reading
  <2>4. \A j \in Channels \intersect InUse : j \in Members(inUse["channel"])
    BY DEF InUse, Members, Kind
  <2>5. d \in waiting \/ Earlier(inUse["channel"], d, m) BY <2>2, <2>3 DEF Before
  <2>6. d \in waiting \/ (d \in Ahead' <=> m \in Ahead') BY <1>3, <2>2, <2>4
  <2>7. Before(d, m)' BY <1>1, <2>5, <2>6 DEF Before
  <2> QED BY <1>4, <2>3, <2>7
<1>7. ASSUME NEW i \in Things, ReadsHead(i) PROVE Due(S)'
  <2>1. /\ Syncing(i) /\ audio.at = "sync" /\ mail[i] # <<>>
        /\ audio' = [of |-> audio.of, at |-> "read", todo |-> audio.todo]
    BY <1>7 DEF ReadsHead, Syncing, Visit
  <2>2. i = First /\ i = First' BY <2>1 DEF Syncing, First
  <2>3. CASE i \in S BY <1>1, <2>1, <2>2, <2>3 DEF Due, Reading
  <2>4. CASE i \notin S
    <3>1. PICK d \in S, m \in S \intersect InUse : d # m /\ mail[d] # <<>> /\ Before(d, m)
      BY <2>1 DEF Due, Reading
    <3>2. Ahead' = Ahead \ {i} BY <2>1, <2>2 DEF Ahead, Updating
    <3>3. Before(d, m)' BY <1>1, <2>4, <3>1, <3>2 DEF Before
    <3> QED BY <1>4, <3>1, <3>3
  <2> QED BY <2>3, <2>4
<1>8. ASSUME NEW i \in Things, Synced(i) PROVE Due(S)'
  <2>1. /\ Syncing(i) \/ Reading(i)
        /\ Syncing(i) => i \in Alive \union Sounds
        /\ i \in Alive \/ Reading(i) => mail[i] = <<>>
        /\ audio' = [of |-> audio.of, at |-> "sync", todo |-> Tail(audio.todo)]
    BY <1>8 DEF Synced, Visit, Syncing, Reading
  <2>2. audio.todo # <<>> /\ i = Head(audio.todo) /\ Kind(i) = audio.of
    BY <2>1, FirstIsInUse
  <2>3. audio.todo \in Seq(Things) /\ Once(audio.todo) BY DEF TreeTypeOK, Visits
  <2>4. Members(Tail(audio.todo)) = Members(audio.todo) \ {i} BY <2>2, <2>3, TailIs
  <2>5. Ahead' = Ahead \ {i}
    BY <2>1, <2>2, <2>4 DEF Ahead, Updating, First, Syncing, Reading
  <2>6. i \in Channels => mail[i] = <<>> BY <2>1 DEF Alive
  <2>7. PICK d \in S, m \in S \intersect InUse : d # m /\ mail[d] # <<>> /\ Before(d, m)
    <3>1. \A d \in S : Reading(d) => d = i BY <2>2 DEF Reading, First
    <3> QED BY <1>3, <2>6, <3>1 DEF Due
  <2>8. d # i BY <1>3, <2>6, <2>7
  <2>9. CASE m # i
    <3>1. Before(d, m)' BY <1>1, <2>5, <2>7, <2>8, <2>9 DEF Before
    <3> QED BY <1>4, <2>7, <3>1
  <2>10. CASE m = i /\ Reading(i)
    <3>1. i \notin Ahead BY <2>10 DEF Ahead, Reading
    <3>2. Before(d, m)' BY <1>1, <2>5, <2>7, <2>8, <3>1 DEF Before
    <3> QED BY <1>4, <2>7, <3>2
  <2>11. CASE m = i /\ Syncing(i)
    <3>1. d \notin InUse BY <1>3, <2>7, <2>11, FirstIsFirst
    <3>2. Before(d, m)' BY <1>1, <1>3, <3>1 DEF Before
    <3> QED BY <1>4, <2>7, <3>2
  <2> QED BY <2>1, <2>9, <2>10, <2>11
<1> QED BY <1>5, <1>6, <1>7, <1>8

\* What is linked for the first time is at the front of the list.
LEMMA PromoteKeepsCircles ==
  ASSUME PatientHost, TreeInv, Entangled, NEW i \in Things, Promote(i)
  PROVE  Entangled'
<1> USE DEF PatientHost, Parents, Things
<1>1. /\ i \in waiting /\ waiting' = waiting \ {i} /\ parent' = parent /\ UNCHANGED <<host, audio>>
      /\ i \notin InUse /\ InUse' = InUse \union {i}
  BY PromoteIs
<1>2. "channel" \in Kinds BY DEF Kinds
<1>3. \A x, y : Earlier(inUse["channel"], x, y) => Earlier(inUse'["channel"], x, y)
  BY <1>2, PromoteIs
<1>4. i \in Channels => \A y \in Members(inUse["channel"]) : Earlier(inUse'["channel"], i, y)
  BY PromoteIs DEF Kind
<1>5. audio.at = "promote" /\ Ahead = {} /\ Ahead' = {}
  BY <1>1 DEF Promote, Ahead, Updating
<1> SUFFICES ASSUME NEW S \in SUBSET (Channels \intersect (InUse' \union waiting')), Closed(S)'
             PROVE  Due(S)'
  BY DEF Entangled
<1>6. S \in SUBSET (Channels \intersect (InUse \union waiting)) BY <1>1
<1>7. Due(S) BY <1>1, <1>6 DEF Entangled, Closed
<1>8. PICK d \in S, m \in S \intersect InUse : d # m /\ mail[d] # <<>> /\ Before(d, m)
  BY <1>5, <1>7 DEF Due, Reading
<1>9. m \in InUse' /\ m \in Members(inUse["channel"])
  BY <1>1, <1>6 DEF InUse, Members, Kind
<1>10. Before(d, m)'
  <2>1. CASE d = i BY <1>4, <1>5, <1>6, <1>9, <2>1 DEF Before
  <2>2. CASE d # i /\ d \in waiting BY <1>1, <2>2 DEF Before
  <2>3. CASE d \notin waiting BY <1>3, <1>5, <1>8, <2>3 DEF Before
  <2> QED BY <2>1, <2>2, <2>3
<1> QED BY <1>1, <1>8, <1>9, <1>10 DEF Due, host

\* In the tree the host asks for, what is lifted ranks lower.
LEMMA LiftedRanks ==
  ASSUME PatientHost, Asked, NEW r \in [Parents -> Nat], Ranked(r),
         NEW c \in Channels, life[c] # "absent", NEW p, Lifted(c, p)
  PROVE  p \in Parents /\ r[p] < r[c]
<1> USE DEF PatientHost, Parents, Things
<1> DEFINE T == {q \in Parents : r[q] < r[c]}
<1>1. under[c] \in T BY DEF Asked, Ranked
<1>2. ASSUME NEW q \in T \ {Master}, life[q] = "gone" PROVE under[q] \in T
  <2>1. q \in Channels /\ under[q] \in Parents /\ r[under[q]] < r[q] BY <1>2 DEF Asked, Ranked
  <2>2. r[under[q]] \in Nat /\ r[q] \in Nat /\ r[c] \in Nat BY <2>1
  <2> QED BY <2>1, <2>2
<1>3. T \in SUBSET Parents OBVIOUS
<1> HIDE DEF T
<1>4. p \in T BY <1>1, <1>2, <1>3 DEF Lifted
<1> QED BY <1>4 DEF T

\* Among channels there is one that ranks lowest.
LEMMA LowestRank ==
  ASSUME NEW S \in SUBSET Parents, S # {}, NEW r \in [Parents -> Nat]
  PROVE  \E c \in S : \A d \in S : ~(r[d] < r[c])
<1> DEFINE R == OpToRel(<, Nat)
           V == {r[c] : c \in S}
<1>1. \A x, y \in Nat : <<x, y>> \in R <=> x < y BY DEF OpToRel
<1>2. IsWellFoundedOn(R, Nat) BY NatLessThanWellFounded
<1>3. V \subseteq Nat /\ V # {} OBVIOUS
<1> HIDE DEF R
<1>4. PICK x \in V : \A y \in V : ~(<<y, x>> \in R) BY <1>2, <1>3, WFMin
<1>5. PICK c \in S : x = r[c] BY <1>4
<1>6. ASSUME NEW d \in S PROVE ~(r[d] < r[c])
  <2>1. r[d] \in V OBVIOUS
  <2>2. ~(<<r[d], x>> \in R) BY <1>4, <2>1
  <2>3. r[d] \in Nat /\ r[c] \in Nat OBVIOUS
  <2> QED BY <1>1, <1>5, <2>2, <2>3
<1> QED BY <1>6

\* A move that closes a circle leaves somebody in it whose mail comes earlier: if all
\* of it were read, all would be where the host wants a tree.
LEMMA MoveKeepsCircles ==
  ASSUME PatientHost, TreeInv, TreeInv', InOrder, Entangled, NEW i \in Things, Move(i)
  PROVE  Entangled'
<1> USE DEF PatientHost, Parents, Things
<1>1. /\ Reading(i) /\ UNCHANGED <<life, under, lists, audio>>
      /\ mail' = [mail EXCEPT ![i] = Tail(@)]
  BY DEF Move
<1>2. UNCHANGED <<waiting, inUse>> /\ InUse' = InUse BY <1>1 DEF lists, InUse
<1>3. i \in InUse /\ Kind(i) = audio.of /\ audio.todo # <<>> /\ i = Head(audio.todo)
  BY <1>1, FirstIsInUse
<1>4. \A j \in Things : j # i => mail'[j] = mail[j] /\ parent'[j] = parent[j]
  <2>1. \A j \in Things : j # i => mail'[j] = mail[j] BY <1>1 DEF TreeInv, TreeTypeOK
  <2>2. ASSUME NEW j \in Things, j # i PROVE parent'[j] = parent[j]
    <3>1. \E p : parent' = [parent EXCEPT ![i] = p] BY DEF Move, Connect
    <3> QED BY <2>2, <3>1 DEF TreeInv, TreeTypeOK
  <2> QED BY <2>1, <2>2
<1> SUFFICES ASSUME NEW S \in SUBSET (Channels \intersect (InUse \union waiting)), Closed(S)'
             PROVE  Due(S)'
  BY <1>2 DEF Entangled
<1>5. S # {} /\ \A c \in S : parent'[c] \in S BY DEF Closed
<1>6. CASE i \notin S
  <2>1. \A c \in S : parent[c] \in S /\ mail'[c] = mail[c] BY <1>4, <1>5, <1>6
  <2>2. Due(S) BY <1>5, <2>1 DEF Entangled, Closed
  <2> QED BY <1>1, <1>2, <2>1, <2>2, DueKept
<1>7. CASE i \in S /\ mail'[i] # <<>>
  <2>1. Reading(i)' BY <1>1 DEF Reading, First
  <2> QED BY <1>7, <2>1 DEF Due
<1>8. CASE i \in S /\ mail'[i] = <<>>
  <2>1. PICK d \in S : mail'[d] # <<>>
    <3> SUFFICES ASSUME \A c \in S : mail'[c] = <<>> PROVE FALSE OBVIOUS
    <3>1. PICK r \in [Parents -> Nat] : Ranked(r) BY DEF TreeInv, Ranks
    <3>2. Asked /\ \A c \in S : life[c] # "absent" BY DEF TreeInv, Linked
    <3>3. ASSUME NEW c \in S PROVE r[parent'[c]] < r[c]
      <4>1. Lifted(c, parent[c])' BY <1>2, <3>3 DEF TreeInv, Asked
      <4>2. Lifted(c, parent'[c]) BY <1>1, <4>1 DEF Lifted
      <4> QED BY <3>1, <3>2, <4>2, LiftedRanks
    <3>4. PICK c \in S : \A e \in S : ~(r[e] < r[c]) BY <1>5, LowestRank
    <3> QED BY <1>5, <3>3, <3>4
  <2>2. d # i /\ d \in Channels /\ i \in Channels /\ audio.of = "channel"
    BY <1>3, <1>8, <2>1 DEF Kind
  <2>3. /\ Updating /\ Updating' /\ i \in Members(audio.todo)
        /\ Ahead' = Members(audio.todo) \ {i}
    <3>1. audio.todo \in Seq(Things) /\ Once(audio.todo) BY DEF TreeInv, TreeTypeOK, Visits
    <3>2. i \in Members(audio.todo) BY <1>3, <3>1, TailIs
    <3> QED BY <1>1, <1>3, <2>2, <3>2 DEF Updating, Ahead, Reading, First
  <2>4. Before(d, i)'
    <3>1. CASE d \in waiting BY <1>2, <3>1 DEF Before
    <3>2. CASE d \in Ahead' BY <2>3, <3>2 DEF Before
    <3>3. CASE d \notin waiting /\ d \notin Ahead'
      <4>1. d \in Members(inUse["channel"]) BY <2>2, <3>3 DEF InUse, Members, Kind
      <4>2. d \notin Members(audio.todo) BY <2>2, <2>3, <3>3
      <4>3. Earlier(inUse["channel"], d, i) BY <2>2, <2>3, <4>1, <4>2 DEF InOrder
      <4> QED BY <1>2, <2>3, <3>3, <4>3 DEF Before
    <3> QED BY <3>1, <3>2, <3>3
  <2> QED BY <1>2, <1>3, <1>8, <2>1, <2>2, <2>4 DEF Due
<1> QED BY <1>6, <1>7, <1>8

\* What a channel hands up it only takes past itself, and it has no mail.
LEMMA MoveUpKeepsCircles ==
  ASSUME PatientHost, TreeInv, InOrder, Entangled,
         NEW c \in Channels, NEW i \in Things, MoveUp(c, i)
  PROVE  Entangled'
<1> USE DEF PatientHost, Parents, Things
<1>1. /\ Syncing(c) /\ audio.at = "sync" /\ life[c] = "gone" /\ i \in children[c]
      /\ Connect(parent[c], i) /\ UNCHANGED <<mail, lists, audio>>
  BY DEF MoveUp, Heir, Syncing, host
<1>2. UNCHANGED <<waiting, inUse>> /\ InUse' = InUse BY <1>1 DEF lists, InUse
<1>3. c \in InUse /\ i \in InUse /\ parent[i] = c
  <2>1. c \in InUse BY <1>1, FirstIsInUse
  <2> QED BY <1>1, <2>1 DEF TreeInv, Linked
<1>4. mail[c] = <<>> BY <1>1 DEF TreeInv, Mailboxes, Alive
<1>5. parent'[i] = parent[c] /\ \A j \in Things : j # i => parent'[j] = parent[j]
  <2>1. parent[c] # i BY HeirIsAnother
  <2> QED BY <1>1, <2>1 DEF Connect, TreeInv, TreeTypeOK
<1> SUFFICES ASSUME NEW S \in SUBSET (Channels \intersect (InUse \union waiting)), Closed(S)'
             PROVE  Due(S)'
  BY <1>2 DEF Entangled
<1>6. S # {} /\ \A j \in S : parent'[j] \in S BY DEF Closed
<1>7. CASE i \notin S
  <2>1. \A j \in S : parent[j] \in S BY <1>5, <1>6, <1>7
  <2>2. Due(S) BY <1>6, <2>1 DEF Entangled, Closed
  <2> QED BY <1>1, <1>2, <2>2, DueKept
<1>8. CASE i \in S
  <2> DEFINE T == S \union {c}
  <2>1. \A j \in T : parent[j] \in T BY <1>3, <1>5, <1>6, <1>8
  <2>2. T \in SUBSET (Channels \intersect (InUse \union waiting)) /\ T # {} BY <1>3
  <2> HIDE DEF T
  <2>3. Due(T) BY <2>1, <2>2 DEF Entangled, Closed
  <2>4. PICK d \in T, m \in T \intersect InUse : d # m /\ mail[d] # <<>> /\ Before(d, m)
    BY <1>1, <2>3 DEF Due, Reading
  <2>5. d \in S BY <1>4, <2>4 DEF T
  <2>6. Ahead' = Ahead BY <1>1 DEF Ahead, Updating, First
  <2>7. CASE m # c
    <3>1. m \in S /\ m \in InUse BY <2>4, <2>7 DEF T
    <3>2. Before(d, m)' BY <1>2, <2>4, <2>6 DEF Before
    <3> QED BY <1>1, <1>2, <2>4, <2>5, <3>1, <3>2 DEF Due
  <2>8. CASE m = c
    <3>1. d \notin InUse BY <1>1, <2>4, <2>8, FirstIsFirst
    <3>2. d \in waiting /\ d # i BY <1>3, <2>5, <3>1
    <3>3. Before(d, i)' BY <1>2, <3>2 DEF Before
    <3> QED BY <1>1, <1>2, <1>3, <1>8, <2>4, <2>5, <3>2, <3>3 DEF Due
  <2> QED BY <2>7, <2>8
<1> QED BY <1>7, <1>8

\* Nobody in a circle goes.
LEMMA ReleaseKeepsCircles ==
  ASSUME PatientHost, TreeInv, Entangled, NEW i \in Things, Release(i)
  PROVE  Entangled'
<1> USE DEF PatientHost, Parents, Things
<1>1. /\ Syncing(i) /\ Kind(i) = audio.of /\ UNCHANGED <<host, waiting>>
      /\ audio' = [of |-> audio.of, at |-> "sync", todo |-> Tail(audio.todo)]
      /\ audio.todo # <<>> /\ i = Head(audio.todo)
      /\ parent' = parent /\ InUse' = InUse \ {i}
  BY ReleaseIs
<1>2. "channel" \in Kinds BY DEF Kinds
<1>3. \A x, y : Earlier(inUse["channel"], x, y) /\ x # i /\ y # i
                  => Earlier(inUse'["channel"], x, y)
  BY <1>2, ReleaseIs
<1>4. Ahead' = Ahead \ {i}
  <2>1. audio.todo \in Seq(Things) /\ Once(audio.todo) BY DEF TreeInv, TreeTypeOK, Visits
  <2>2. Members(Tail(audio.todo)) = Members(audio.todo) \ {i} BY <1>1, <2>1, TailIs
  <2> QED BY <1>1, <2>2 DEF Ahead, Updating, Syncing
<1> SUFFICES ASSUME NEW S \in SUBSET (Channels \intersect (InUse' \union waiting')), Closed(S)'
             PROVE  Due(S)'
  BY DEF Entangled
<1>5. i \notin waiting BY ReleaseIs DEF TreeInv, Linked
<1>6. S \in SUBSET (Channels \intersect (InUse \union waiting)) /\ i \notin S BY <1>1, <1>5
<1>7. Due(S) BY <1>1, <1>6 DEF Entangled, Closed
<1>8. PICK d \in S, m \in S \intersect InUse : d # m /\ mail[d] # <<>> /\ Before(d, m)
  BY <1>1, <1>7 DEF Due, Reading, Syncing
<1>9. d # i /\ m # i /\ m \in InUse' BY <1>1, <1>6
<1>10. Before(d, m)' BY <1>1, <1>3, <1>4, <1>8, <1>9 DEF Before
<1> QED BY <1>1, <1>8, <1>9, <1>10 DEF Due, host

\* No step closes a circle without somebody to open it.
LEMMA StepKeepsCircles ==
  ASSUME PatientHost, TreeInv, TreeInv', InOrder, Entangled, [TreeNext]_treeVars
  PROVE  InOrder' /\ Entangled'
<1>1. CASE UNCHANGED treeVars
  <2>1. UNCHANGED <<inUse, audio, waiting, mail, parent>>
    BY <1>1 DEF treeVars, host, lists, tree
  <2>2. InUse' = InUse BY <2>1 DEF InUse
  <2>3. InOrder' BY <2>1 DEF InOrder, Updating
  <2>4. ASSUME NEW S \in SUBSET (Channels \intersect (InUse' \union waiting')), Closed(S)'
        PROVE  Due(S)'
    <3>1. Due(S) BY <2>1, <2>2, <2>4 DEF Entangled, Closed
    <3> QED BY <2>1, <3>1, DueKept
  <2> QED BY <2>3, <2>4 DEF Entangled
<1>2. CASE Host BY <1>2, HostKeepsCircles
<1>3. CASE Pass
  <2>1. InOrder' BY <1>3, PassKeepsOrder
  <2>2. ASSUME NEW s \in Things, Scrub(s) PROVE Entangled'
    <3>1. /\ s \in Sounds /\ waiting' = waiting \ {s} /\ UNCHANGED <<mail, parent, inUse, audio>>
      BY <2>2 DEF Scrub, host, tree
    <3>2. InUse' = InUse /\ Ahead' = Ahead BY <3>1 DEF InUse, Ahead, Updating, First
    <3> SUFFICES ASSUME NEW S \in SUBSET (Channels \intersect (InUse' \union waiting')), Closed(S)'
                 PROVE  Due(S)'
      BY DEF Entangled
    <3>3. Due(S) BY <3>1, <3>2 DEF Entangled, Closed
    <3>4. \A d \in S : d \in waiting => d \in waiting' BY <3>1 DEF PatientHost
    <3>5. CASE \E d \in S : Reading(d) /\ mail[d] # <<>>
      BY <3>1, <3>5 DEF Due, Reading, First
    <3>6. ASSUME NEW d \in S, NEW m \in S \intersect InUse, d # m, mail[d] # <<>>, Before(d, m)
          PROVE  Due(S)'
      <4>1. Before(d, m)' BY <3>1, <3>2, <3>4, <3>6 DEF Before
      <4> QED BY <3>1, <3>2, <3>6, <4>1 DEF Due
    <3> QED BY <3>3, <3>5, <3>6 DEF Due
  <2>3. ASSUME NEW i \in Things, Promote(i) \/ Move(i) \/ Release(i) PROVE Entangled'
    BY <2>3, PromoteKeepsCircles, MoveKeepsCircles, ReleaseKeepsCircles
  <2> QED BY <1>3, <2>1, <2>2, <2>3, VisitKeepsCircles, MoveUpKeepsCircles DEF Pass
<1> QED BY <1>1, <1>2, <1>3 DEF TreeNext

\* The invariant is inductive, together with what is said of circles.
LEMMA StepKeepsInv ==
  ASSUME PatientHost, TreeInv, InOrder, Entangled, [TreeNext]_treeVars
  PROVE  TreeInv'
<1>1. CASE UNCHANGED treeVars
  <2>1. TreeTypeOK' BY <1>1 DEF TreeInv, TreeTypeOK, treeVars, host, lists, tree
  <2> QED BY <1>1, <2>1, TreeUntouched DEF TreeInv, treeVars, host, lists, tree
<1>2. CASE Host BY <1>2, CreateKeeps, MoveToKeeps, DestroyKeeps DEF Host
<1>3. CASE Pass
  <2>1. ASSUME NEW i \in Things,
               Promote(i) \/ Scrub(i) \/ Move(i) \/ Release(i)
        PROVE  TreeInv'
    BY <2>1, PromoteKeeps, ScrubKeeps, MoveKeeps, ReleaseKeeps
  <2> QED BY <1>3, <2>1, VisitKeeps, MoveUpKeeps DEF Pass
<1> QED BY <1>1, <1>2, <1>3 DEF TreeNext

\* It holds in every state of every behaviour.
LEMMA TreeInvHolds == ASSUME PatientHost PROVE TreeSpec => []TreeInv
<1>1. TreeInit => TreeInv /\ InOrder /\ Entangled
  <2> SUFFICES ASSUME TreeInit PROVE TreeInv /\ InOrder /\ Entangled OBVIOUS
  <2>1. TreeInv BY InitEstablishesInv
  <2>2. InOrder BY DEF TreeInit, InOrder, Updating
  <2>3. waiting = {} /\ InUse = {}
    <3>1. \A i \in Things : Kind(i) \in Kinds BY DEF Kind, Kinds
    <3> QED BY <3>1 DEF TreeInit, InUse
  <2>4. Entangled BY <2>3 DEF Entangled, Closed
  <2> QED BY <2>1, <2>2, <2>4
<1>2. TreeInv /\ InOrder /\ Entangled /\ [TreeNext]_treeVars => TreeInv' /\ InOrder' /\ Entangled'
  BY StepKeepsInv, StepKeepsCircles
<1> QED BY <1>1, <1>2, PTL DEF TreeSpec

\* The audio thread follows no pointer to what was released.
THEOREM LinksStayLive == ASSUME Patient PROVE TreeSpec => []PointersLive
<1>1. PatientHost BY TreeAssumption DEF PatientHost
<1>2. TreeSpec => []TreeInv BY <1>1, TreeInvHolds
<1>3. TreeInv => PointersLive BY DEF TreeInv, Linked, PointersLive
<1> QED BY <1>2, <1>3, PTL

\* Both ends of a link agree, also while the links form a circle.
THEOREM BothEndsAgree == ASSUME Patient PROVE TreeSpec => []ListsAgree
<1>1. PatientHost BY TreeAssumption DEF PatientHost
<1>2. TreeSpec => []TreeInv BY <1>1, TreeInvHolds
<1>3. TreeInv => ListsAgree BY DEF TreeInv, Linked, ListsAgree
<1> QED BY <1>2, <1>3, PTL

(***************************************************************************)
(* The tree is the one the host asked for.                                 *)
(***************************************************************************)

\* Some function does what Lasting says, however the host nests its channels:
\* to everything that is gone it gives what it gives to what that was under.
LEMMA LastingIs ==
  ASSUME PatientHost, Asked
  PROVE  Lasting = [p \in Parents |->
                      IF p # Master /\ life[p] = "gone" THEN Lasting[under[p]] ELSE p]
<1> USE DEF PatientHost, Parents, Things
<1> DEFINE Gone(p) == p # Master /\ life[p] = "gone"
           Upward(T) == \A q \in T : Gone(q) => under[q] \in T
           Above(p) == {q \in Parents :
                          /\ ~Gone(q)
                          /\ \A T \in SUBSET Parents : p \in T /\ Upward(T) => q \in T}
           f == [p \in Parents |-> CHOOSE q : q \in Above(p)]
<1>1. ASSUME NEW p \in Parents, ~Gone(p) PROVE f[p] = p
  <2>1. p \in Above(p) BY <1>1
  <2>2. ASSUME NEW q \in Above(p) PROVE q = p
    <3>1. {p} \in SUBSET Parents /\ Upward({p}) BY <1>1
    <3>2. q \in {p} BY <3>1
    <3> QED BY <3>2
  <2> HIDE DEF Above
  <2> QED BY <2>1, <2>2
<1>2. ASSUME NEW p \in Parents, Gone(p) PROVE f[p] = f[under[p]]
  <2>1. under[p] \in Parents BY <1>2 DEF Asked
  <2>2. ASSUME NEW q \in Above(p) PROVE q \in Above(under[p])
    <3> SUFFICES ASSUME NEW T \in SUBSET Parents, under[p] \in T, Upward(T) PROVE q \in T
      OBVIOUS
    <3>1. T \union {p} \in SUBSET Parents /\ Upward(T \union {p}) OBVIOUS
    <3>2. q \in T \union {p} BY <3>1
    <3>3. q # p BY <1>2
    <3> QED BY <3>2, <3>3
  <2>3. ASSUME NEW q \in Above(under[p]) PROVE q \in Above(p)
    <3> SUFFICES ASSUME NEW T \in SUBSET Parents, p \in T, Upward(T) PROVE q \in T
      OBVIOUS
    <3>1. under[p] \in T BY <1>2
    <3> QED BY <3>1
  <2>4. Above(p) = Above(under[p]) BY <2>2, <2>3
  <2> HIDE DEF Above
  <2> QED BY <2>1, <2>4
<1> HIDE DEF f, Gone
<1>3. f = [p \in Parents |-> IF Gone(p) THEN f[under[p]] ELSE p]
  <2>1. f = [p \in Parents |-> f[p]] BY DEF f
  <2>2. \A p \in Parents : f[p] = IF Gone(p) THEN f[under[p]] ELSE p BY <1>1, <1>2
  <2> QED BY <2>1, <2>2
<1>4. Lasting = CHOOSE g : g = [p \in Parents |-> IF Gone(p) THEN g[under[p]] ELSE p]
  BY DEF Lasting, Gone
<1>5. Lasting = [p \in Parents |-> IF Gone(p) THEN Lasting[under[p]] ELSE p]
  BY ONLY <1>3, <1>4
<1> QED BY <1>5 DEF Gone

\* Once all is read, linked and released, the tree is the one the host asked for.
THEOREM HostGetsItsTree == ASSUME Patient PROVE TreeSpec => []TreeFollowsHost
<1>0. PatientHost BY TreeAssumption DEF PatientHost
<1>1. TreeSpec => []TreeInv BY <1>0, TreeInvHolds
<1>2. TreeInv => TreeFollowsHost
  <2> SUFFICES ASSUME TreeInv, Settled, NEW i \in Alive PROVE parent[i] = Lasting[under[i]]
    BY DEF TreeFollowsHost
  <2> USE DEF TreeInv
  <2>1. i \in Things /\ i \in InUse \union waiting /\ mail[i] = <<>>
    BY DEF Alive, Linked, Settled, Unread
  <2>2. Lifted(i, parent[i]) BY <2>1 DEF Asked
  <2>3. parent[i] \in Parents /\ ~(parent[i] # Master /\ life[parent[i]] = "gone")
    BY <2>1 DEF Linked, Settled, Parents, Things
  <2>4. under[i] \in Parents BY <2>1 DEF Asked, Alive
  <2> DEFINE T == {q \in Parents : Lasting[q] = Lasting[under[i]]}
  <2>5. \A q \in Parents :
          Lasting[q] = IF q # Master /\ life[q] = "gone" THEN Lasting[under[q]] ELSE q
    BY <1>0, LastingIs
  <2>6. \A q \in Parents \ {Master} : life[q] = "gone" => under[q] \in Parents
    BY DEF Asked, Parents, Things
  <2>7. T \in SUBSET Parents /\ under[i] \in T BY <2>4
  <2>8. \A q \in T \ {Master} : life[q] = "gone" => under[q] \in T BY <2>5, <2>6
  <2>9. parent[i] \in T
    <3> HIDE DEF T
    <3> QED BY <2>2, <2>7, <2>8 DEF Lifted
  <2> QED BY <2>3, <2>5, <2>9
<1> QED BY <1>1, <1>2, PTL

=============================================================================
