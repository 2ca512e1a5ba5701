------------------------- MODULE ThreadPool_proofs -------------------------
EXTENDS ThreadPool, TLAPS

\* What the ring holds.
Elements == [job : Jobs, claimer : OrNone(Actors)]

\* One entry of a function gets another value.
LEMMA PutAt ==
  ASSUME NEW S, NEW T, NEW f \in [S -> T], NEW x, NEW v \in T
  PROVE  [f EXCEPT ![x] = v] \in [S -> T]
<1>1. ASSUME NEW y \in S PROVE [f EXCEPT ![x] = v][y] \in T
  <2>1. CASE y = x
    BY <2>1
  <2>2. CASE y # x
    BY <2>2
  <2> QED BY <2>1, <2>2
<1> QED
  BY <1>1

\* The parts of TypeOK.
QueueTypes ==
  /\ active \in BOOLEAN
  /\ control \in {"up", "drain", "zero", "join", "down"}
  /\ drained \in OrNone(Jobs)
  /\ control = "zero" => drained \in Jobs
  /\ ring \in Seq([job : Jobs, claimer : OrNone(Actors)])
  /\ queued \in [Jobs -> Nat]
  /\ taken \in [Workers -> Nat]
  /\ owed \in [Jobs -> SUBSET Actors] /\ dropped \in BOOLEAN
ActorTypes ==
  /\ pc \in [Actors -> CallLabels \union WorkLabels]
  /\ \A c \in Callers : pc[c] \in CallLabels
  /\ \A w \in Workers : pc[w] \in WorkLabels
  /\ adding \in [Actors -> OrNone(Jobs)]
  /\ \A a \in Actors : pc[a] \in AddLabels \union {"look"} => adding[a] \in Jobs
  /\ looked \in [Actors -> Nat]
  /\ running \in [Workers -> OrNone(Jobs)]
  /\ \A w \in Workers : pc[w] \notin {"get", "pop", "exited"} => running[w] \in Jobs

\* TypeOK is the two together.
LEMMA TypeParts == TypeOK <=> QueueTypes /\ ActorTypes
BY DEF TypeOK, QueueTypes, ActorTypes

\* Who is a caller and who is a worker.
LEMMA ActorKinds ==
  /\ Workers \subseteq Actors /\ Callers \subseteq Actors
  /\ \A a \in Actors : a \in Callers <=> a \notin Workers
  /\ None \notin Jobs /\ None \notin Actors
BY PoolAssumption DEF Actors

\* An entry of a sequence is one of its elements.
LEMMA ElementOf ==
  ASSUME NEW S, NEW s \in Seq(S), NEW i \in 1..Len(s)
  PROVE  s[i] \in S
OBVIOUS

\* The head of the ring, and what is left of it.
LEMMA HeadTypes ==
  ASSUME ring \in Seq(Elements), HeadReady
  PROVE  Head(ring).job \in Jobs /\ Tail(ring) \in Seq(Elements)
<1>1. ring # <<>>
  BY DEF HeadReady
<1>2. Head(ring) \in Elements /\ Tail(ring) \in Seq(Elements)
  BY <1>1
<1> QED
  BY <1>2 DEF Elements

\* The queue, the counts and the flags keep their types.
LEMMA QueueTypesStep ==
  ASSUME TypeOK, [Next]_vars
  PROVE  QueueTypes'
<1> USE DEF Elements
<1>a. QueueTypes /\ ActorTypes
  BY TypeParts
<1>b. /\ queued \in [Jobs -> Nat] /\ taken \in [Workers -> Nat] /\ ring \in Seq(Elements)
      /\ owed \in [Jobs -> SUBSET Actors]
  BY <1>a DEF QueueTypes
<1>1. ASSUME UNCHANGED <<controlVars, ring, queued, taken, historyVars>> PROVE QueueTypes'
  BY <1>1, <1>a DEF QueueTypes, controlVars, historyVars
<1>2. ASSUME NEW c \in Callers, Look(c) \/ \E j \in Jobs : Ask(c, j) PROVE QueueTypes'
  BY <1>1, <1>2 DEF Look, Ask, workVars
<1>3. ASSUME NEW a \in Actors, Enter(a) \/ PushFull(a) PROVE QueueTypes'
  BY <1>1, <1>3 DEF Enter, PushFull, workVars
<1>4. ASSUME NEW a \in Actors, Start(a) PROVE QueueTypes'
  <2>1. adding[a] \in Jobs
    BY <1>4, <1>a DEF Start, ActorTypes, AddLabels
  <2>2. queued' \in [Jobs -> Nat]
    BY <1>4, <1>b, <2>1 DEF Start
  <2>3. owed' \in [Jobs -> SUBSET Actors]
    BY <1>4, <1>b, <2>1 DEF Start
  <2> QED
    BY <1>4, <1>a, <2>2, <2>3 DEF Start, QueueTypes, controlVars, workVars
<1>5. ASSUME NEW a \in Actors, Push(a) PROVE QueueTypes'
  <2>1. adding[a] \in Jobs
    BY <1>5, <1>a DEF Push, ActorTypes, AddLabels
  <2>2. Element(adding[a], a) \in Elements
    BY <2>1 DEF Element, OrNone
  <2>3. ring' \in Seq(Elements)
    BY <1>5, <1>b, <2>2 DEF Push
  <2> QED
    BY <1>5, <1>a, <2>3 DEF Push, QueueTypes, controlVars, workVars, historyVars
<1>6. ASSUME NEW a \in Actors, Publish(a) PROVE QueueTypes'
  <2>1. ring' = [i \in 1..Len(ring) |->
          IF ring[i].claimer = a THEN Element(ring[i].job, None) ELSE ring[i]]
    BY <1>6, <1>b DEF Publish
  <2>2. ASSUME NEW i \in 1..Len(ring)
        PROVE  (IF ring[i].claimer = a THEN Element(ring[i].job, None) ELSE ring[i]) \in Elements
    <3> HIDE DEF Elements
    <3>0. ring \in Seq(Elements)
      BY <1>b
    <3>1. ring[i] \in Elements
      BY <3>0, ElementOf
    <3>2. ring[i].job \in Jobs
      BY <3>1 DEF Elements
    <3>3. Element(ring[i].job, None) \in Elements
      BY <3>2 DEF Element, Elements, OrNone
    <3> QED
      BY <3>1, <3>3
  <2>3. ring' \in Seq(Elements)
    BY <2>1, <2>2, <1>b
  <2> QED
    BY <1>6, <1>a, <2>3 DEF Publish, QueueTypes, controlVars, workVars, historyVars
<1>7. ASSUME NEW a \in Actors, Drop(a) PROVE QueueTypes'
  <2>1. adding[a] \in Jobs
    BY <1>7, <1>a DEF Drop, ActorTypes, AddLabels
  <2>2. Release(adding[a], 1) \in Nat
    BY <1>b, <2>1 DEF Release
  <2>3. queued' \in [Jobs -> Nat]
    BY <1>7, <1>b, <2>1, <2>2 DEF Drop
  <2>4. owed' \in [Jobs -> SUBSET Actors]
    BY <1>7, <1>b, <2>1 DEF Drop
  <2> QED
    BY <1>7, <1>a, <2>3, <2>4 DEF Drop, QueueTypes, controlVars, workVars
<1>8. ASSUME NEW w \in Workers,
             GetJob(w) \/ PopNothing(w) \/ Skip(w) \/ RunReturns(w) \/ RunAddsSibling(w)
      PROVE  QueueTypes'
  BY <1>1, <1>8 DEF GetJob, PopNothing, Skip, RunReturns, RunAddsSibling, workVars
<1>9. ASSUME NEW w \in Workers, Pop(w) PROVE QueueTypes'
  BY <1>9, <1>a, <1>b, HeadTypes DEF Pop, QueueTypes, controlVars, historyVars
<1>10. ASSUME NEW w \in Workers, Run(w) PROVE QueueTypes'
  <2>1. running[w] \in Jobs
    BY <1>10, <1>a DEF Run, ActorTypes
  <2>2. taken' \in [Workers -> Nat] /\ owed' \in [Jobs -> SUBSET Actors]
    BY <1>10, <1>b, <2>1 DEF Run
  <2> QED
    BY <1>10, <1>a, <2>2 DEF Run, QueueTypes, controlVars
<1>11. ASSUME NEW w \in Workers, Finish(w) PROVE QueueTypes'
  <2>1. running[w] \in Jobs
    BY <1>11, <1>a DEF Finish, ActorTypes
  <2>2. Release(running[w], taken[w]) \in Nat
    BY <1>b, <2>1 DEF Release
  <2>3. queued' \in [Jobs -> Nat] /\ taken' \in [Workers -> Nat]
    BY <1>11, <1>b, <2>1, <2>2 DEF Finish
  <2> QED
    BY <1>11, <1>a, <2>3 DEF Finish, QueueTypes, controlVars, historyVars
<1>12. CASE Shutdown \/ DrainEnds \/ JoinWorkers \/ Startup
  BY <1>12, <1>a DEF Shutdown, DrainEnds, JoinWorkers, Startup, QueueTypes, workVars, historyVars
<1>13. CASE DrainPop
  BY <1>13, <1>a, <1>b, HeadTypes DEF DrainPop, QueueTypes, workVars, historyVars, OrNone
<1>14. CASE DrainZero
  <2>1. queued' \in [Jobs -> Nat] /\ owed' \in [Jobs -> SUBSET Actors]
    BY <1>14, <1>b DEF DrainZero
  <2> QED
    BY <1>14, <1>a, <2>1 DEF DrainZero, QueueTypes, workVars, OrNone
<1>15. CASE UNCHANGED vars
  BY <1>15, <1>1 DEF vars, workVars
<1> QED
  BY <1>2, <1>3, <1>4, <1>5, <1>6, <1>7, <1>8, <1>9, <1>10, <1>11, <1>12, <1>13, <1>14, <1>15,
     ActorKinds DEF Next, CallStep, WorkStep, AddStep, StopStep

\* Every thread stays where it has what it works on.
LEMMA ActorTypesStep ==
  ASSUME TypeOK, [Next]_vars
  PROVE  ActorTypes'
<1> USE DEF AddLabels, CallLabels, WorkLabels, OrNone
<1>a. QueueTypes /\ ActorTypes
  BY TypeParts
<1>b. /\ pc \in [Actors -> CallLabels \union WorkLabels]
      /\ adding \in [Actors -> OrNone(Jobs)] /\ looked \in [Actors -> Nat]
      /\ running \in [Workers -> OrNone(Jobs)]
  BY <1>a DEF ActorTypes
<1>1. ASSUME UNCHANGED <<pc, callVars, running>> PROVE ActorTypes'
  BY <1>1, <1>a DEF ActorTypes, callVars
<1>2. ASSUME NEW c \in Callers, NEW j \in Jobs, Ask(c, j) PROVE ActorTypes'
  BY <1>2, <1>a, ActorKinds DEF Ask, Goto, ActorTypes, workVars
<1>3. ASSUME NEW a \in Actors, Return(a), UNCHANGED running,
             a \in Workers => running[a] \in Jobs
      PROVE  ActorTypes'
  BY <1>3, <1>a, ActorKinds DEF Return, Goto, ActorTypes
<1>4. ASSUME NEW c \in Callers, Look(c) PROVE ActorTypes'
  <2>1. CASE Return(c)
    BY <1>3, <1>4, <2>1, ActorKinds DEF Look, workVars
  <2>2. CASE ~Return(c)
    BY <1>4, <2>2, <1>a, ActorKinds DEF Look, ActorTypes, workVars
  <2> QED
    BY <2>1, <2>2
<1>5. ASSUME NEW a \in Actors, NEW label \in AddLabels \ {"enter"}, Goto(a, label),
             adding[a] \in Jobs, a \in Workers => running[a] \in Jobs,
             UNCHANGED <<callVars, running>>
      PROVE  ActorTypes'
  BY <1>5, <1>a, ActorKinds DEF Goto, ActorTypes, callVars
<1>6. ASSUME NEW a \in Actors, AddStep(a), a \in Callers \/ pc[a] # "look" PROVE ActorTypes'
  <2>1. /\ adding[a] \in Jobs /\ (a \in Workers => running[a] \in Jobs)
        /\ UNCHANGED running
    BY <1>6, <1>a, ActorKinds DEF AddStep, Enter, Start, Push, PushFull, Publish, Drop,
       ActorTypes, workVars
  <2>2. \/ Return(a)
        \/ UNCHANGED callVars /\ \E label \in {"start", "push", "publish", "full"} : Goto(a, label)
    BY <1>6 DEF AddStep, Enter, Start, Push, PushFull, Publish, Drop
  <2> QED
    BY <2>1, <2>2, <1>3, <1>5
<1>7. ASSUME NEW w \in Workers, NEW label \in WorkLabels \ AddLabels, Goto(w, label),
             UNCHANGED callVars,
             running' \in [Workers -> OrNone(Jobs)],
             \A v \in Workers : v # w => running'[v] = running[v],
             label \notin {"get", "pop", "exited"} => running'[w] \in Jobs
      PROVE  ActorTypes'
  BY <1>7, <1>a, ActorKinds DEF Goto, ActorTypes, callVars
<1>8. ASSUME NEW w \in Workers, GetJob(w) \/ PopNothing(w) \/ RunReturns(w) PROVE ActorTypes'
  BY <1>7, <1>8, <1>a, <1>b DEF GetJob, PopNothing, RunReturns, workVars, ActorTypes
<1>9. ASSUME NEW w \in Workers, Run(w) PROVE ActorTypes'
  BY <1>7, <1>9, <1>a, <1>b DEF Run, ActorTypes
<1>10. ASSUME NEW w \in Workers, Skip(w) \/ Finish(w) PROVE ActorTypes'
  <2>1. running' = [running EXCEPT ![w] = None] /\ Goto(w, "get") /\ UNCHANGED callVars
    BY <1>10 DEF Skip, Finish
  <2>2. /\ running' \in [Workers -> OrNone(Jobs)]
        /\ \A v \in Workers : v # w => running'[v] = running[v]
    BY <2>1, <1>b
  <2> QED
    BY <2>1, <2>2, <1>7
<1>11. ASSUME NEW w \in Workers, Pop(w) PROVE ActorTypes'
  <2>1. /\ running' = [running EXCEPT ![w] = Head(ring).job] /\ Goto(w, "activate")
        /\ UNCHANGED callVars /\ Head(ring).job \in Jobs
    BY <1>11, <1>a, HeadTypes DEF Pop, QueueTypes, Elements
  <2>2. /\ running' \in [Workers -> OrNone(Jobs)] /\ running'[w] \in Jobs
        /\ \A v \in Workers : v # w => running'[v] = running[v]
    BY <2>1, <1>b
  <2> QED
    BY <2>1, <2>2, <1>7
<1>12. ASSUME NEW w \in Workers, RunAddsSibling(w) PROVE ActorTypes'
  <2>1. Sibling[running[w]] \in Jobs
    BY <1>12, <1>a, PoolAssumption DEF RunAddsSibling, ActorTypes
  <2> QED
    BY <1>12, <2>1, <1>a, ActorKinds DEF RunAddsSibling, Goto, ActorTypes, workVars
<1>13. CASE Shutdown \/ StopStep
  BY <1>1, <1>13 DEF Shutdown, StopStep, DrainPop, DrainZero, DrainEnds, JoinWorkers, workVars
<1>14. CASE Startup
  BY <1>14, <1>a, ActorKinds DEF Startup, ActorTypes, callVars, workVars
<1>15. CASE UNCHANGED vars
  BY <1>15, <1>1 DEF vars, workVars
<1>16. ASSUME NEW w \in Workers, AddStep(w) PROVE ActorTypes'
  <2>1. pc[w] # "look"
    BY <1>a DEF ActorTypes
  <2> QED
    BY <1>6, <1>16, <2>1, ActorKinds
<1> QED
  BY <1>2, <1>4, <1>6, <1>8, <1>9, <1>10, <1>11, <1>12, <1>13, <1>14, <1>15, <1>16, ActorKinds
     DEF Next, CallStep, WorkStep

\* The first state has the types.
LEMMA InitTypes == ASSUME Init PROVE TypeOK
<1>1. QueueTypes
  <2>1. <<>> \in Seq([job : Jobs, claimer : OrNone(Actors)])
    OBVIOUS
  <2> QED
    BY <2>1 DEF Init, QueueTypes, OrNone
<1>2. pc \in [Actors -> CallLabels \union WorkLabels]
  BY DEF Init, CallLabels, WorkLabels
<1>3. /\ \A c \in Callers : pc[c] = "idle"
      /\ \A w \in Workers : pc[w] = "get"
  BY ActorKinds DEF Init
<1>4. \A a \in Actors : pc[a] \in {"idle", "get"}
  BY DEF Init
<1>5. /\ adding \in [Actors -> OrNone(Jobs)] /\ looked \in [Actors -> Nat]
      /\ running \in [Workers -> OrNone(Jobs)]
  BY DEF Init, OrNone
<1>6. ActorTypes
  BY <1>2, <1>3, <1>4, <1>5 DEF ActorTypes, CallLabels, WorkLabels, AddLabels
<1> QED
  BY <1>1, <1>6, TypeParts

\* No count wraps and no thread is where it has no job, for any number of
\* callers, workers and jobs.
THEOREM PoolTypeCorrect == Spec => []TypeOK
<1>1. Init => TypeOK
  BY InitTypes
<1>2. TypeOK /\ [Next]_vars => TypeOK'
  <2> SUFFICES ASSUME TypeOK, [Next]_vars PROVE TypeOK'
    OBVIOUS
  <2>1. QueueTypes' /\ ActorTypes'
    BY QueueTypesStep, ActorTypesStep
  <2> QED
    BY <2>1 DEF TypeOK, QueueTypes, ActorTypes
<1> QED
  BY <1>1, <1>2, PTL DEF Spec

(***************************************************************************)
(* join() with one worker                                                  *)
(***************************************************************************)

\* The pool is active exactly while it is up, and only then is a caller past
\* the test of the flag.
CallersWhenUp ==
  /\ active <=> control = "up"
  /\ control # "up" => \A c \in Callers : pc[c] \in {"idle", "look"}

\* A worker inside addJob() adds the sibling of the job it runs.
AddsSibling ==
  \A w \in Workers : pc[w] \in AddLabels => adding[w] = Sibling[running[w]]

\* The starts that the run in progress serves.
Served1(j) == IF running[1] = j /\ Executing(1) THEN taken[1] ELSE 0

\* A start() no run has followed is in the count, on top of what the run in
\* progress will take off, and while the pool is up so are those.
CountCovers ==
  ~dropped =>
    /\ \A j \in Jobs : owed[j] # {} => queued[j] >= 1 + Served1(j)
    /\ control = "up" /\ Executing(1) => taken[1] >= 1 /\ queued[running[1]] >= taken[1]

JoinInv == CallersWhenUp /\ AddsSibling /\ CountCovers

\* Only Enter passes the flag, and only shutdown() lowers it, when no caller is in.
LEMMA CallersStep ==
  ASSUME TypeOK, CallersWhenUp, [Next]_vars
  PROVE  CallersWhenUp'
<1> USE DEF CallersWhenUp
<1>a. /\ pc \in [Actors -> CallLabels \union WorkLabels]
      /\ \A c \in Callers : pc[c] \in CallLabels
  BY DEF TypeOK
<1>1. ASSUME UNCHANGED controlVars, UNCHANGED pc PROVE CallersWhenUp'
  BY <1>1 DEF controlVars
<1>2. ASSUME NEW a \in Actors, NEW label, Goto(a, label), UNCHANGED controlVars,
             a \in Workers \/ active \/ label \in {"idle", "look"}
      PROVE  CallersWhenUp'
  BY <1>2, <1>a, ActorKinds DEF Goto, controlVars
<1>3. ASSUME NEW a \in Actors, Return(a), UNCHANGED controlVars PROVE CallersWhenUp'
  BY <1>2, <1>3, ActorKinds DEF Return
<1>4. ASSUME NEW c \in Callers, NEW j \in Jobs, Ask(c, j) PROVE CallersWhenUp'
  BY <1>2, <1>4, ActorKinds DEF Ask
<1>5. ASSUME NEW c \in Callers, Look(c) PROVE CallersWhenUp'
  BY <1>1, <1>3, <1>5, ActorKinds DEF Look
<1>6. ASSUME NEW a \in Actors, AddStep(a) PROVE CallersWhenUp'
  <2>1. a \in Workers \/ active \/ pc[a] = "look"
    BY <1>6, ActorKinds DEF AddStep, Enter, Start, Push, PushFull, Publish, Drop
  <2>2. CASE Enter(a)
    BY <1>2, <1>3, <2>2 DEF Enter
  <2>3. CASE Start(a) \/ Push(a) \/ PushFull(a)
    BY <1>2, <2>1, <2>3 DEF Start, Push, PushFull
  <2>4. CASE Publish(a) \/ Drop(a)
    BY <1>3, <2>4 DEF Publish, Drop
  <2> QED
    BY <1>6, <2>2, <2>3, <2>4 DEF AddStep
<1>7. ASSUME NEW w \in Workers, WorkStep(w) PROVE CallersWhenUp'
  <2>1. CASE AddStep(w)
    BY <1>6, <2>1, ActorKinds
  <2>2. CASE GetJob(w) \/ Pop(w) \/ PopNothing(w) \/ Skip(w) \/ Run(w)
    BY <1>2, <2>2, ActorKinds DEF GetJob, Pop, PopNothing, Skip, Run
  <2>3. CASE RunReturns(w) \/ RunAddsSibling(w) \/ Finish(w)
    BY <1>2, <2>3, ActorKinds DEF RunReturns, RunAddsSibling, Finish
  <2> QED
    BY <1>7, <2>1, <2>2, <2>3 DEF WorkStep
<1>8. CASE Shutdown
  BY <1>8 DEF Shutdown
<1>9. CASE StopStep
  BY <1>9 DEF StopStep, DrainPop, DrainZero, DrainEnds, JoinWorkers
<1>10. CASE Startup
  BY <1>10, ActorKinds DEF Startup
<1>11. CASE UNCHANGED vars
  BY <1>1, <1>11 DEF vars
<1> QED
  BY <1>4, <1>5, <1>6, <1>7, <1>8, <1>9, <1>10, <1>11, ActorKinds DEF Next, CallStep

\* A worker asks for the sibling of its job and for nothing else.
LEMMA AddsSiblingStep ==
  ASSUME TypeOK, AddsSibling, [Next]_vars
  PROVE  AddsSibling'
<1> USE DEF AddsSibling
<1>a. /\ pc \in [Actors -> CallLabels \union WorkLabels]
      /\ adding \in [Actors -> OrNone(Jobs)] /\ running \in [Workers -> OrNone(Jobs)]
      /\ \A w \in Workers : pc[w] \in WorkLabels
  BY DEF TypeOK
<1>1. ASSUME UNCHANGED pc, UNCHANGED callVars, UNCHANGED running PROVE AddsSibling'
  BY <1>1 DEF callVars
<1>2. ASSUME NEW c \in Callers, NEW label, Goto(c, label), NEW v, UNCHANGED running,
             adding' = adding \/ adding' = [adding EXCEPT ![c] = v]
      PROVE  AddsSibling'
  BY <1>2, <1>a, ActorKinds DEF Goto
<1>3. ASSUME NEW a \in Actors, NEW label, Goto(a, label), UNCHANGED <<adding, running>>,
             label \in AddLabels => a \in Callers \/ pc[a] \in AddLabels
      PROVE  AddsSibling'
  BY <1>3, <1>a, ActorKinds DEF Goto
<1>4. ASSUME NEW a \in Actors, Return(a), UNCHANGED running PROVE AddsSibling'
  BY <1>4, <1>a, ActorKinds DEF Return, Goto, AddLabels
<1>5. ASSUME NEW c \in Callers, NEW j \in Jobs, Ask(c, j) PROVE AddsSibling'
  BY <1>2, <1>5 DEF Ask, workVars
<1>6. ASSUME NEW c \in Callers, Look(c) PROVE AddsSibling'
  <2>1. CASE Return(c)
    BY <1>4, <1>6, <2>1, ActorKinds DEF Look, workVars
  <2>2. CASE ~Return(c)
    BY <1>6, <2>2 DEF Look, workVars
  <2> QED
    BY <2>1, <2>2
<1>7. ASSUME NEW a \in Actors, AddStep(a) PROVE AddsSibling'
  <2>1. CASE Enter(a)
    <3>1. a \in Callers \/ pc[a] \in AddLabels
      BY <2>1, <1>a, ActorKinds DEF Enter, AddLabels, WorkLabels
    <3> QED
      BY <1>3, <1>4, <2>1, <3>1 DEF Enter, callVars, workVars
  <2>2. CASE Start(a) \/ Push(a) \/ PushFull(a)
    BY <1>3, <2>2 DEF Start, Push, PushFull, AddLabels, callVars, workVars
  <2>3. CASE Publish(a) \/ Drop(a)
    BY <1>4, <2>3 DEF Publish, Drop, workVars
  <2> QED
    BY <1>7, <2>1, <2>2, <2>3 DEF AddStep
<1>8. ASSUME NEW w \in Workers, NEW label \in WorkLabels \ AddLabels, Goto(w, label),
             UNCHANGED adding, \A v \in Workers : v # w => running'[v] = running[v]
      PROVE  AddsSibling'
  BY <1>8, <1>a, ActorKinds DEF Goto
<1>9. ASSUME NEW w \in Workers, GetJob(w) \/ PopNothing(w) \/ Run(w) \/ RunReturns(w)
      PROVE  AddsSibling'
  <2>1. UNCHANGED <<adding, running>>
    BY <1>9 DEF GetJob, PopNothing, Run, RunReturns, callVars, workVars
  <2>2. \E label \in WorkLabels \ AddLabels : Goto(w, label)
    BY <1>9 DEF GetJob, PopNothing, Run, RunReturns, WorkLabels, AddLabels
  <2> QED
    BY <1>8, <2>1, <2>2
<1>10. ASSUME NEW w \in Workers, Pop(w) \/ Skip(w) \/ Finish(w) PROVE AddsSibling'
  <2>1. UNCHANGED adding /\ \A v \in Workers : v # w => running'[v] = running[v]
    BY <1>10, <1>a DEF Pop, Skip, Finish, callVars
  <2>2. \E label \in WorkLabels \ AddLabels : Goto(w, label)
    BY <1>10 DEF Pop, Skip, Finish, WorkLabels, AddLabels
  <2> QED
    BY <1>8, <2>1, <2>2
<1>11. ASSUME NEW w \in Workers, RunAddsSibling(w) PROVE AddsSibling'
  BY <1>11, <1>a, ActorKinds DEF RunAddsSibling, Goto, workVars
<1>12. CASE Shutdown \/ StopStep
  BY <1>12 DEF Shutdown, StopStep, DrainPop, DrainZero, DrainEnds, JoinWorkers, callVars, workVars
<1>13. CASE Startup
  BY <1>13, <1>a, ActorKinds DEF Startup, AddLabels
<1>14. CASE UNCHANGED vars
  BY <1>1, <1>14 DEF vars, workVars
<1> QED
  BY <1>5, <1>6, <1>7, <1>9, <1>10, <1>11, <1>12, <1>13, <1>14, ActorKinds
     DEF Next, CallStep, WorkStep

\* Who works when there is one worker.
LEMMA OneWorker ==
  ASSUME NumWorkers = 1
  PROVE  /\ Workers = {1} /\ 1 \in Actors /\ 1 \notin Callers
         /\ \A a \in Actors : a \in Callers \/ a = 1
BY PoolAssumption DEF Workers, Actors

\* A step that leaves the counts, and the run in progress if there is one.
LEMMA CountFrame ==
  ASSUME CountCovers, UNCHANGED <<queued, owed, dropped>>, Executing(1)' <=> Executing(1),
         Executing(1) => running'[1] = running[1] /\ taken'[1] = taken[1],
         Executing(1) => UNCHANGED control
  PROVE  CountCovers'
BY DEF CountCovers, Served1

\* Each start() and each release() keeps the counts covering what is owed.
LEMMA CountStep ==
  ASSUME NumWorkers = 1, TypeOK, JoinInv, [Next]_vars
  PROVE  CountCovers'
<1>a. /\ pc \in [Actors -> CallLabels \union WorkLabels]
      /\ queued \in [Jobs -> Nat] /\ taken \in [Workers -> Nat]
      /\ running \in [Workers -> OrNone(Jobs)] /\ owed \in [Jobs -> SUBSET Actors]
      /\ \A a \in Actors : pc[a] \in AddLabels \union {"look"} => adding[a] \in Jobs
      /\ \A w \in Workers : pc[w] \in WorkLabels
      /\ \A w \in Workers : pc[w] \notin {"get", "pop", "exited"} => running[w] \in Jobs
  BY DEF TypeOK
<1>b. CallersWhenUp /\ AddsSibling /\ CountCovers
  BY DEF JoinInv
<1>c. /\ Workers = {1} /\ 1 \in Actors /\ 1 \notin Callers
      /\ \A a \in Actors : a \in Callers \/ a = 1
  BY OneWorker
<1>d. Executing(1) => running[1] \in Jobs
  BY <1>a, <1>c DEF Executing, AddLabels
<1>1. ASSUME NEW a \in Actors, NEW label, Goto(a, label),
             a = 1 => Executing(1) /\ label \in {"inside", "release"} \union AddLabels,
             UNCHANGED <<queued, owed, dropped, workVars, controlVars>>
      PROVE  CountCovers'
  <2>1. Executing(1)' <=> Executing(1)
    BY <1>1, <1>a, <1>c DEF Goto, Executing
  <2> QED
    BY <1>1, <1>b, <2>1, CountFrame DEF workVars, controlVars
<1>2. ASSUME NEW c \in Callers, NEW j \in Jobs, Ask(c, j) PROVE CountCovers'
  BY <1>1, <1>2, <1>c, ActorKinds DEF Ask, historyVars
<1>3. ASSUME NEW a \in Actors, Return(a), a = 1 => Executing(1),
             UNCHANGED <<queued, owed, dropped, workVars, controlVars>>
      PROVE  CountCovers'
  BY <1>1, <1>3, <1>c DEF Return
<1>4. ASSUME NEW c \in Callers, Look(c) PROVE CountCovers'
  <2>1. CASE Return(c)
    BY <1>3, <1>4, <2>1, <1>c, ActorKinds DEF Look, historyVars
  <2>2. CASE ~Return(c)
    BY <1>b, <1>4, <2>2, CountFrame DEF Look, Executing, workVars, controlVars, historyVars
  <2> QED
    BY <2>1, <2>2
<1>5. ASSUME NEW a \in Actors, Enter(a) \/ Push(a) \/ PushFull(a) \/ Publish(a)
      PROVE  CountCovers'
  <2>1. a = 1 => Executing(1)
    BY <1>5, <1>a, <1>c DEF Enter, Push, PushFull, Publish, Executing, AddLabels, WorkLabels
  <2>2. UNCHANGED <<queued, owed, dropped, workVars, controlVars>>
    BY <1>5 DEF Enter, Push, PushFull, Publish, historyVars
  <2>3. Return(a) \/ \E label \in AddLabels : Goto(a, label)
    BY <1>5 DEF Enter, Push, PushFull, Publish, AddLabels
  <2> QED
    BY <1>1, <1>3, <2>1, <2>2, <2>3
<1>6. ASSUME NEW a \in Actors, Start(a) PROVE CountCovers'
  <2>1. /\ adding[a] \in Jobs /\ Goto(a, "push")
        /\ UNCHANGED <<control, running, taken, dropped>>
    BY <1>6, <1>a DEF Start, AddLabels, controlVars, workVars
  <2>2. Executing(1)' <=> Executing(1)
    BY <1>6, <2>1, <1>a, <1>c DEF Start, Goto, Executing, AddLabels
  <2>3. \A j \in Jobs : Served1(j)' = Served1(j) /\ Served1(j) \in Nat
    BY <2>1, <2>2, <1>a, <1>c DEF Served1
  <2>4. /\ queued'[adding[a]] = queued[adding[a]] + 1
        /\ \A j \in Jobs : j # adding[a] => queued'[j] = queued[j] /\ owed'[j] = owed[j]
    BY <1>6, <1>a, <2>1 DEF Start
  <2>5. ASSUME ~dropped PROVE queued[adding[a]] >= Served1(adding[a])
    <3>1. CASE running[1] = adding[a] /\ Executing(1)
      <4>1. a # 1
        BY <1>6, <3>1, <1>b, <1>c, PoolAssumption, <2>1 DEF Start, AddsSibling, AddLabels
      <4>2. control = "up"
        BY <1>6, <4>1, <1>b, <1>c DEF Start, CallersWhenUp
      <4> QED
        BY <2>5, <3>1, <4>2, <1>b DEF CountCovers, Served1
    <3>2. CASE ~(running[1] = adding[a] /\ Executing(1))
      BY <3>2, <1>a, <2>1 DEF Served1
    <3> QED
      BY <3>1, <3>2
  <2>6. ASSUME ~dropped, NEW j \in Jobs, owed'[j] # {} PROVE queued'[j] >= 1 + Served1(j)'
    <3>1. CASE j = adding[a]
      BY <2>3, <2>4, <2>5, <2>6, <3>1, <1>a
    <3>2. CASE j # adding[a]
      BY <2>3, <2>4, <2>6, <3>2, <1>b DEF CountCovers
    <3> QED
      BY <3>1, <3>2
  <2>7. ASSUME ~dropped, control = "up", Executing(1)
        PROVE  taken[1] >= 1 /\ queued'[running[1]] >= taken[1]
    <3>1. taken[1] >= 1 /\ queued[running[1]] >= taken[1] /\ running[1] \in Jobs
      BY <2>7, <1>b, <1>d DEF CountCovers
    <3> QED
      BY <3>1, <2>1, <2>4, <1>a, <1>c
  <2> QED
    BY <2>1, <2>2, <2>6, <2>7 DEF CountCovers
<1>7. ASSUME NEW a \in Actors, Drop(a) PROVE CountCovers'
  BY <1>7 DEF Drop, CountCovers
<1>8. ASSUME NEW w \in Workers, GetJob(w) \/ Pop(w) \/ PopNothing(w) \/ Skip(w)
      PROVE  CountCovers'
  <2>1. w = 1
    BY <1>8, <1>c
  <2>2. ~Executing(1)
    BY <1>8, <2>1 DEF GetJob, Pop, PopNothing, Skip, Executing, AddLabels
  <2>3. \E label \in {"pop", "exited", "activate", "get"} : Goto(1, label)
    BY <1>8, <2>1 DEF GetJob, Pop, PopNothing, Skip
  <2>4. ~Executing(1)'
    BY <2>3, <1>a, <1>c DEF Goto, Executing, AddLabels
  <2> QED
    BY <1>8, <1>b, <2>2, <2>4, CountFrame
       DEF GetJob, Pop, PopNothing, Skip, historyVars
<1>9. ASSUME NEW w \in Workers, Run(w) PROVE CountCovers'
  <2>1. w = 1 /\ running[1] \in Jobs
    BY <1>9, <1>a, <1>c DEF Run
  <2>2. /\ UNCHANGED <<queued, running, control, dropped>> /\ taken'[1] = queued[running[1]]
        /\ taken'[1] >= 1 /\ queued[running[1]] >= taken'[1]
    BY <1>9, <2>1, <1>a, <1>c DEF Run, controlVars
  <2>3. /\ owed'[running[1]] = {}
        /\ \A j \in Jobs : j # running[1] => owed'[j] = owed[j]
    BY <1>9, <2>1, <1>a DEF Run
  <2>4. \A j \in Jobs : j # running[1] => Served1(j)' = 0 /\ Served1(j) = 0
    BY <2>2 DEF Served1
  <2> QED
    BY <1>b, <2>2, <2>3, <2>4 DEF CountCovers
<1>10. ASSUME NEW w \in Workers, RunReturns(w) \/ RunAddsSibling(w) PROVE CountCovers'
  <2>1. w = 1 /\ Executing(1)
    BY <1>10, <1>c DEF RunReturns, RunAddsSibling, Executing
  <2>2. \E label \in {"inside", "release"} \union AddLabels : Goto(1, label)
    BY <1>10, <2>1 DEF RunReturns, RunAddsSibling, AddLabels
  <2>3. UNCHANGED <<queued, owed, dropped, workVars, controlVars>>
    BY <1>10 DEF RunReturns, RunAddsSibling, historyVars
  <2> QED
    BY <1>1, <1>c, <2>1, <2>2, <2>3
<1>11. ASSUME NEW w \in Workers, Finish(w) PROVE CountCovers'
  <2>1. w = 1 /\ running[1] \in Jobs /\ Executing(1)
    BY <1>11, <1>a, <1>c DEF Finish, Executing
  <2>2. UNCHANGED <<owed, dropped>> /\ Goto(1, "get")
    BY <1>11, <2>1 DEF Finish, historyVars
  <2>3. ~Executing(1)'
    BY <2>2, <1>a, <1>c DEF Goto, Executing, AddLabels
  <2>4. /\ queued'[running[1]] = Release(running[1], taken[1])
        /\ \A j \in Jobs : j # running[1] => queued'[j] = queued[j]
    BY <1>11, <2>1, <1>a DEF Finish
  <2>5. ASSUME ~dropped, NEW j \in Jobs, owed[j] # {} PROVE queued'[j] >= 1
    <3>1. queued[j] >= 1 + Served1(j)
      BY <2>5, <1>b DEF CountCovers
    <3>2. CASE j = running[1]
      <4>1. Served1(j) = taken[1] /\ taken[1] \in Nat /\ queued[j] \in Nat
        BY <3>2, <2>1, <1>a, <1>c DEF Served1
      <4> QED
        BY <2>4, <3>1, <3>2, <4>1 DEF Release
    <3>3. CASE j # running[1]
      BY <2>4, <3>1, <3>3 DEF Served1
    <3> QED
      BY <3>2, <3>3
  <2>6. \A j \in Jobs : Served1(j)' = 0
    BY <2>3 DEF Served1
  <2> QED
    BY <2>2, <2>3, <2>5, <2>6 DEF CountCovers
<1>12. CASE Shutdown
  BY <1>12, <1>b DEF Shutdown, CountCovers, Served1, Executing, workVars, historyVars
<1>13. CASE DrainPop \/ DrainEnds \/ JoinWorkers
  BY <1>13, <1>b DEF DrainPop, DrainEnds, JoinWorkers, CountCovers, Served1, Executing,
     workVars, historyVars
<1>14. CASE DrainZero
  <2>1. drained \in Jobs
    BY <1>14 DEF DrainZero, TypeOK
  <2>2. /\ owed'[drained] = {} /\ control' = "drain"
        /\ UNCHANGED <<dropped, pc, running, taken>>
        /\ \A j \in Jobs : j # drained => owed'[j] = owed[j] /\ queued'[j] = queued[j]
    BY <1>14, <1>a, <2>1 DEF DrainZero, workVars
  <2> QED
    BY <1>b, <2>2 DEF CountCovers, Served1, Executing
<1>15. CASE Startup
  <2>1. ~Executing(1)' /\ UNCHANGED <<queued, owed, dropped>>
    BY <1>15, <1>c DEF Startup, Executing, AddLabels, historyVars
  <2>2. \A j \in Jobs : Served1(j)' = 0 /\ (owed[j] # {} /\ ~dropped => queued[j] >= 1)
    BY <2>1, <1>a, <1>b, <1>c DEF CountCovers, Served1
  <2> QED
    BY <2>1, <2>2 DEF CountCovers
<1>16. CASE UNCHANGED vars
  BY <1>16, <1>b, CountFrame DEF vars, workVars, controlVars, historyVars, Executing
<1> QED
  BY <1>2, <1>4, <1>5, <1>6, <1>7, <1>8, <1>9, <1>10, <1>11, <1>12, <1>13, <1>14, <1>15, <1>16,
     ActorKinds DEF Next, CallStep, WorkStep, AddStep, StopStep

\* join() over a pool of one worker, which every pool of the engine is, returns
\* only when each accepted request was followed by a run and no worker is in
\* the job.
THEOREM JoinIsSafe == ASSUME NumWorkers = 1 PROVE Spec => []JoinMeansDone
<1>1. Init => TypeOK /\ JoinInv
  <2> SUFFICES ASSUME Init PROVE TypeOK /\ JoinInv
    OBVIOUS
  <2>1. TypeOK
    BY InitTypes
  <2>2. \A a \in Actors : pc[a] = IF a \in Workers THEN "get" ELSE "idle"
    BY DEF Init
  <2>3. CallersWhenUp /\ AddsSibling
    BY <2>2, ActorKinds DEF Init, CallersWhenUp, AddsSibling, AddLabels
  <2>4. CountCovers
    BY <2>2, OneWorker DEF Init, CountCovers, Executing, AddLabels
  <2> QED
    BY <2>1, <2>3, <2>4 DEF JoinInv
<1>2. TypeOK /\ JoinInv /\ [Next]_vars => JoinInv'
  BY CallersStep, AddsSiblingStep, CountStep DEF JoinInv
<1>3. TypeOK /\ JoinInv => JoinMeansDone
  <2> SUFFICES ASSUME TypeOK, JoinInv, control = "up", ~dropped, NEW j \in Jobs, queued[j] = 0
               PROVE  owed[j] = {} /\ ~InHand(j)
    BY DEF JoinMeansDone
  <2>1. CountCovers /\ taken \in [Workers -> Nat]
    BY DEF JoinInv, TypeOK
  <2>2. Served1(j) \in Nat
    BY <2>1, OneWorker DEF Served1
  <2>3. owed[j] = {}
    BY <2>1, <2>2 DEF CountCovers
  <2>4. ~(running[1] = j /\ Executing(1))
    BY <2>1, OneWorker DEF CountCovers
  <2> QED
    BY <2>3, <2>4, OneWorker DEF InHand
<1> QED
  BY <1>1, <1>2, <1>3, PoolTypeCorrect, PTL DEF Spec

(***************************************************************************)
(* A guarded job is in one place                                           *)
(***************************************************************************)

\* A busy caller asks for one of its jobs; an idle one has made no test.
CallerFrame ==
  \A c \in Callers : IF pc[c] = "idle" THEN looked[c] = 0 ELSE adding[c] \in Calls[c]

\* The places of a job: a cell of the ring, a worker's hand, the drain, and a
\* caller that found it idle and has not pushed it yet.
InRing(g) == \E i \in DOMAIN ring : ring[i].job = g
Worked(g) == \E w \in Workers : running[w] = g
Past(c, g) ==
  /\ adding[c] = g
  /\ \/ pc[c] \in {"start", "push", "full"}
     \/ pc[c] = "look" /\ \E i \in 1..looked[c] : Looks[g][i] = g
Asked(g) == \E c \in Callers : Past(c, g)
Pushing(g) == \E c \in Callers : adding[c] = g /\ pc[c] = "push"

OneCell(g) == \A i, k \in DOMAIN ring : ring[i].job = g /\ ring[k].job = g => i = k
OneHand(g) == \A v, w \in Workers : running[v] = g /\ running[w] = g => v = w

\* The job is in one place at most, and counted there.
Sole(g) ==
  /\ OneCell(g) /\ OneHand(g)
  /\ InRing(g) => ~Worked(g) /\ drained # g
  /\ Worked(g) => drained # g
  /\ Asked(g) => ~InRing(g) /\ ~Worked(g) /\ drained # g
  /\ InRing(g) \/ Worked(g) \/ drained = g \/ Pushing(g) => queued[g] >= 1

HolderInv == AddsSibling /\ CallerFrame /\ \A g \in Guarded : Sole(g)

\* The threads that a step leaves alone.
OthersKeep(a) ==
  \A b \in Actors \ {a} : pc'[b] = pc[b] /\ adding'[b] = adding[b] /\ looked'[b] = looked[b]

\* A caller that returns forgets its tests.
LEMMA CallerFrameStep ==
  ASSUME TypeOK, CallerFrame, [Next]_vars
  PROVE  CallerFrame'
<1> USE DEF CallerFrame
<1>a. /\ pc \in [Actors -> CallLabels \union WorkLabels]
      /\ adding \in [Actors -> OrNone(Jobs)] /\ looked \in [Actors -> Nat]
  BY DEF TypeOK
<1>1. ASSUME NEW a \in Actors, OthersKeep(a),
             a \in Callers =>
               IF pc'[a] = "idle" THEN looked'[a] = 0 ELSE adding'[a] \in Calls[a]
      PROVE  CallerFrame'
  BY <1>1, ActorKinds DEF OthersKeep
<1>2. ASSUME NEW c \in Callers, NEW j \in Jobs, Ask(c, j) PROVE CallerFrame'
  <2>1. OthersKeep(c) /\ adding'[c] = j /\ pc'[c] = "look" /\ j \in Calls[c]
    BY <1>2, <1>a, ActorKinds DEF Ask, Goto, OthersKeep
  <2> QED
    BY <1>1, <2>1, ActorKinds
<1>3. ASSUME NEW a \in Actors, Return(a) PROVE CallerFrame'
  <2>1. OthersKeep(a) /\ looked'[a] = 0 /\ (a \in Callers => pc'[a] = "idle")
    BY <1>3, <1>a, ActorKinds DEF Return, Goto, OthersKeep
  <2> QED
    BY <1>1, <2>1
<1>4. ASSUME NEW a \in Actors, NEW label, label # "idle", Goto(a, label), UNCHANGED callVars,
             a \in Callers => pc[a] # "idle"
      PROVE  CallerFrame'
  <2>1. OthersKeep(a) /\ pc'[a] = label /\ UNCHANGED adding
    BY <1>4, <1>a DEF Goto, OthersKeep, callVars
  <2> QED
    BY <1>1, <1>4, <2>1
<1>5. ASSUME NEW c \in Callers, Look(c) PROVE CallerFrame'
  <2>1. CASE Return(c)
    BY <1>3, <2>1, ActorKinds
  <2>2. CASE ~Return(c)
    <3>1. OthersKeep(c) /\ pc'[c] = "look" /\ adding'[c] = adding[c] /\ pc[c] = "look"
      BY <1>5, <2>2, <1>a DEF Look, OthersKeep
    <3> QED
      BY <1>1, <3>1, ActorKinds
  <2> QED
    BY <2>1, <2>2
<1>6. ASSUME NEW a \in Actors, AddStep(a) PROVE CallerFrame'
  <2>1. pc[a] # "idle"
    BY <1>6 DEF AddStep, Enter, Start, Push, PushFull, Publish, Drop
  <2>2. \/ Return(a)
        \/ UNCHANGED callVars /\ \E label \in {"start", "push", "publish", "full"} : Goto(a, label)
    BY <1>6 DEF AddStep, Enter, Start, Push, PushFull, Publish, Drop
  <2> QED
    BY <1>3, <1>4, <2>1, <2>2
<1>7. ASSUME NEW w \in Workers, WorkStep(w) PROVE CallerFrame'
  <2>1. CASE AddStep(w)
    BY <1>6, <2>1, ActorKinds
  <2>2. CASE ~AddStep(w)
    <3>1. OthersKeep(w)
      BY <1>7, <2>2, <1>a, ActorKinds DEF WorkStep, GetJob, Pop, PopNothing, Skip, Run, RunReturns,
         RunAddsSibling, Finish, Goto, OthersKeep, callVars
    <3> QED
      BY <1>1, <3>1, ActorKinds
  <2> QED
    BY <2>1, <2>2
<1>8. CASE Shutdown \/ StopStep
  BY <1>8 DEF Shutdown, StopStep, DrainPop, DrainZero, DrainEnds, JoinWorkers, callVars
<1>9. CASE Startup
  BY <1>9, ActorKinds DEF Startup, callVars
<1>10. CASE UNCHANGED vars
  BY <1>10 DEF vars, callVars
<1> QED
  BY <1>2, <1>5, <1>6, <1>7, <1>8, <1>9, <1>10, ActorKinds DEF Next, CallStep

\* Who can ask for a guarded job.
LEMMA GuardedJobs ==
  ASSUME NEW g \in Guarded
  PROVE  /\ g \in Jobs /\ \E i \in 1..Len(Looks[g]) : Looks[g][i] = g
         /\ \A c, d \in Callers : g \in Calls[c] /\ g \in Calls[d] => c = d
         /\ \A k \in Jobs : Sibling[k] # g
BY PoolAssumption DEF Guarded

\* A step of one thread that brings it no nearer to the job.
LEMMA AskedFrame ==
  ASSUME NEW g, NEW a, OthersKeep(a),
         a \in Callers => (Past(a, g)' => Past(a, g)) /\
                          (adding'[a] = g /\ pc'[a] = "push" => adding[a] = g /\ pc[a] = "push")
  PROVE  (Asked(g)' => Asked(g)) /\ (Pushing(g)' => Pushing(g))
<1>1. \A c \in Callers \ {a} : Past(c, g)' <=> Past(c, g)
  BY ActorKinds DEF OthersKeep, Past
<1>2. \A c \in Callers \ {a} : pc'[c] = pc[c] /\ adding'[c] = adding[c]
  BY ActorKinds DEF OthersKeep
<1> QED
  BY <1>1, <1>2 DEF Asked, Pushing

\* A step that moves no job.
LEMMA SoleFrame ==
  ASSUME NEW g, Sole(g), UNCHANGED <<ring, running, drained>>, queued'[g] = queued[g],
         Asked(g)' => Asked(g), Pushing(g)' => Pushing(g)
  PROVE  Sole(g)'
<1>1. /\ OneCell(g)' <=> OneCell(g)
      /\ OneHand(g)' <=> OneHand(g)
      /\ InRing(g)' <=> InRing(g)
      /\ Worked(g)' <=> Worked(g)
  BY DEF OneCell, OneHand, InRing, Worked
<1> QED
  BY <1>1 DEF Sole

\* The cells of the ring as jobs come and go.
LEMMA RingAppend ==
  ASSUME NEW g, ring \in Seq(Elements), NEW e \in Elements, ring' = Append(ring, e)
  PROVE  /\ InRing(g)' <=> InRing(g) \/ e.job = g
         /\ OneCell(g) /\ (e.job = g => ~InRing(g)) => OneCell(g)'
<1>1. /\ DOMAIN ring = 1..Len(ring) /\ DOMAIN ring' = 1..(Len(ring) + 1)
      /\ Len(ring) \in Nat
      /\ \A i \in 1..Len(ring) : ring'[i] = ring[i]
      /\ ring'[Len(ring) + 1] = e
  OBVIOUS
<1> QED
  BY <1>1 DEF InRing, OneCell

\* The job at the head leaves the ring, and has no other cell.
LEMMA RingTail ==
  ASSUME NEW g, ring \in Seq(Elements), ring # <<>>, ring' = Tail(ring)
  PROVE  /\ InRing(g)' => InRing(g)
         /\ Head(ring).job = g => InRing(g)
         /\ OneCell(g) => OneCell(g)' /\ (Head(ring).job = g => ~InRing(g)')
<1>1. /\ DOMAIN ring = 1..Len(ring) /\ DOMAIN ring' = 1..(Len(ring) - 1)
      /\ Len(ring) \in Nat \ {0} /\ Head(ring) = ring[1]
      /\ \A i \in 1..(Len(ring) - 1) : ring'[i] = ring[i + 1]
  OBVIOUS
<1> QED
  BY <1>1 DEF InRing, OneCell

\* Publishing moves no job.
LEMMA RingPublish ==
  ASSUME NEW g, NEW a, Publish(a)
  PROVE  (InRing(g)' <=> InRing(g)) /\ (OneCell(g) <=> OneCell(g)')
<1>1. DOMAIN ring' = DOMAIN ring /\ \A i \in DOMAIN ring : ring'[i].job = ring[i].job
  BY DEF Publish, Element
<1> QED
  BY <1>1 DEF InRing, OneCell

\* Each action moves a guarded job from one place to the next.
LEMMA SoleStep ==
  ASSUME TypeOK, HolderInv, [Next]_vars, NEW g \in Guarded
  PROVE  Sole(g)'
<1>a. /\ pc \in [Actors -> CallLabels \union WorkLabels]
      /\ adding \in [Actors -> OrNone(Jobs)] /\ looked \in [Actors -> Nat]
      /\ running \in [Workers -> OrNone(Jobs)] /\ queued \in [Jobs -> Nat]
      /\ taken \in [Workers -> Nat]
      /\ \A a \in Actors : pc[a] \in AddLabels \union {"look"} => adding[a] \in Jobs
      /\ \A w \in Workers : pc[w] \in WorkLabels
      /\ \A w \in Workers : pc[w] \notin {"get", "pop", "exited"} => running[w] \in Jobs
  BY DEF TypeOK
<1>b. ring \in Seq(Elements)
  BY DEF TypeOK, Elements
<1>c. Sole(g) /\ AddsSibling /\ CallerFrame
  BY DEF HolderInv
<1>d. /\ g \in Jobs /\ \E i \in 1..Len(Looks[g]) : Looks[g][i] = g
      /\ \A c, d \in Callers : g \in Calls[c] /\ g \in Calls[d] => c = d
      /\ \A k \in Jobs : Sibling[k] # g
  BY GuardedJobs
<1>e. \A c \in Callers : Past(c, g) => pc[c] # "idle" /\ adding[c] = g
  BY DEF Past
<1>f. \A a \in Actors : pc[a] \in AddLabels /\ adding[a] = g => a \in Callers
  <2> SUFFICES ASSUME NEW w \in Workers, pc[w] \in AddLabels, adding[w] = g PROVE FALSE
    BY ActorKinds
  <2>1. running[w] \in Jobs /\ adding[w] = Sibling[running[w]]
    BY <1>a, <1>c DEF AddsSibling, AddLabels
  <2> QED
    BY <1>d, <2>1
\* The threads that move no job, and where they go.
<1>1. ASSUME NEW a \in Actors, OthersKeep(a),
             UNCHANGED <<ring, running, drained>>, queued'[g] = queued[g],
             a \in Callers => (Past(a, g)' => Past(a, g)) /\
                              (adding'[a] = g /\ pc'[a] = "push" => adding[a] = g /\ pc[a] = "push")
      PROVE  Sole(g)'
  BY <1>1, <1>c, AskedFrame, SoleFrame
<1>2. ASSUME NEW a \in Actors, Return(a)
      PROVE  OthersKeep(a) /\ (a \in Callers => ~Past(a, g)' /\ pc'[a] # "push")
  <2>1. OthersKeep(a) /\ (a \in Callers => pc'[a] = "idle")
    BY <1>2, <1>a, ActorKinds DEF Return, Goto, OthersKeep
  <2> QED
    BY <2>1 DEF Past
<1>3. ASSUME NEW c \in Callers, NEW j \in Jobs, Ask(c, j) PROVE Sole(g)'
  <2>1. OthersKeep(c) /\ pc'[c] = "look" /\ looked'[c] = 0
    BY <1>3, <1>a, <1>c, ActorKinds DEF Ask, Goto, OthersKeep, CallerFrame
  <2>2. ~Past(c, g)'
    BY <2>1 DEF Past
  <2> QED
    BY <1>1, <1>3, <2>1, <2>2, ActorKinds DEF Ask, workVars, controlVars
<1>4. ASSUME NEW c \in Callers, Look(c) PROVE Sole(g)'
  <2>1. UNCHANGED <<ring, running, drained, queued>>
    BY <1>4 DEF Look, workVars, controlVars
  <2>2. CASE Return(c)
    BY <1>1, <1>2, <2>1, <2>2, ActorKinds
  <2>3. CASE ~Return(c)
    <3>1. /\ OthersKeep(c) /\ pc[c] = "look" /\ pc'[c] = "look" /\ adding'[c] = adding[c]
          /\ looked'[c] = looked[c] + 1
          /\ queued[Looks[adding[c]][looked[c] + 1]] = 0
      BY <1>4, <2>3, <1>a, ActorKinds DEF Look, OthersKeep, IsQueued
    <3>2. CASE adding[c] # g
      <4>1. ~Past(c, g)'
        BY <3>1, <3>2 DEF Past
      <4> QED
        BY <1>1, <2>1, <3>1, <4>1, ActorKinds
    <3>3. CASE adding[c] = g /\ Looks[g][looked[c] + 1] # g
      <4>1. Past(c, g)' => Past(c, g)
        BY <3>1, <3>3, <1>a, ActorKinds DEF Past
      <4> QED
        BY <1>1, <2>1, <3>1, <4>1, ActorKinds
    <3>4. CASE adding[c] = g /\ Looks[g][looked[c] + 1] = g
      <4>1. queued[g] = 0
        BY <3>1, <3>4
      <4>2. ~InRing(g) /\ ~Worked(g) /\ drained # g
        BY <1>c, <4>1 DEF Sole
      <4>3. Pushing(g)' => Pushing(g)
        BY <3>1, ActorKinds DEF OthersKeep, Pushing
      <4>4. /\ OneCell(g)' <=> OneCell(g)
            /\ OneHand(g)' <=> OneHand(g)
            /\ InRing(g)' <=> InRing(g)
            /\ Worked(g)' <=> Worked(g)
        BY <2>1 DEF OneCell, OneHand, InRing, Worked
      <4> QED
        BY <1>c, <2>1, <4>2, <4>3, <4>4 DEF Sole
    <3> QED
      BY <3>2, <3>3, <3>4
  <2> QED
    BY <2>2, <2>3
<1>5. ASSUME NEW a \in Actors, Enter(a) PROVE Sole(g)'
  <2>1. UNCHANGED <<ring, running, drained, queued>>
    BY <1>5 DEF Enter, workVars, controlVars
  <2>2. CASE Return(a)
    BY <1>1, <1>2, <2>1, <2>2
  <2>3. CASE ~Return(a)
    <3>1. OthersKeep(a) /\ pc'[a] = "start" /\ UNCHANGED callVars
      BY <1>5, <2>3, <1>a DEF Enter, Goto, OthersKeep, callVars
    <3>2. ASSUME a \in Callers, adding[a] = g PROVE Past(a, g)
      <4>1. pc[a] = "look" /\ looked[a] = Len(Looks[g])
        BY <1>5, <3>2, <1>a DEF Enter, TypeOK, CallLabels, AddLabels
      <4> QED
        BY <3>2, <4>1, <1>d DEF Past
    <3>3. a \in Callers => (Past(a, g)' => Past(a, g))
      BY <3>1, <3>2 DEF Past, callVars
    <3> QED
      BY <1>1, <2>1, <3>1, <3>3
  <2> QED
    BY <2>2, <2>3
<1>6. ASSUME NEW a \in Actors, Start(a) PROVE Sole(g)'
  <2>1. /\ OthersKeep(a) /\ pc[a] = "start" /\ pc'[a] = "push" /\ UNCHANGED callVars
        /\ UNCHANGED <<ring, running, drained>> /\ adding[a] \in Jobs
    BY <1>6, <1>a DEF Start, Goto, OthersKeep, callVars, workVars, controlVars, AddLabels
  <2>2. CASE adding[a] # g
    <3>1. queued'[g] = queued[g] /\ ~Past(a, g)'
      BY <1>6, <1>a, <1>d, <2>1, <2>2 DEF Start, Past, callVars
    <3> QED
      BY <1>1, <2>1, <2>2, <3>1 DEF callVars
  <2>3. CASE adding[a] = g
    <3>1. queued'[g] >= 1
      BY <1>6, <1>a, <2>1, <2>3 DEF Start
    <3>2. a \in Callers /\ Past(a, g)
      BY <2>1, <2>3, <1>f DEF Past, AddLabels
    <3>3. Asked(g)
      BY <3>2 DEF Asked
    <3>4. /\ OneCell(g)' <=> OneCell(g)
          /\ OneHand(g)' <=> OneHand(g)
          /\ InRing(g)' <=> InRing(g)
          /\ Worked(g)' <=> Worked(g)
      BY <2>1 DEF OneCell, OneHand, InRing, Worked
    <3> QED
      BY <1>c, <2>1, <3>1, <3>3, <3>4 DEF Sole
  <2> QED
    BY <2>2, <2>3
<1>7. ASSUME NEW a \in Actors, Push(a) PROVE Sole(g)'
  <2>1. /\ OthersKeep(a) /\ pc[a] = "push" /\ pc'[a] = "publish" /\ UNCHANGED callVars
        /\ UNCHANGED <<running, drained, queued>> /\ adding[a] \in Jobs
    BY <1>7, <1>a DEF Push, Goto, OthersKeep, callVars, workVars, controlVars, AddLabels
  <2>2. Element(adding[a], a) \in Elements /\ Element(adding[a], a).job = adding[a]
    BY <2>1 DEF Element, Elements, OrNone
  <2>3. /\ InRing(g)' <=> InRing(g) \/ adding[a] = g
        /\ OneCell(g) /\ (adding[a] = g => ~InRing(g)) => OneCell(g)'
    <3> DEFINE e == Element(adding[a], a)
    <3> HIDE DEF e
    <3>1. e \in Elements /\ ring' = Append(ring, e) /\ e.job = adding[a]
      BY <1>7, <2>2 DEF Push, e
    <3> QED
      BY <1>b, <3>1, RingAppend
  <2>4. ~(a \in Callers /\ Past(a, g)')
    BY <2>1 DEF Past
  <2>5. (Asked(g)' => Asked(g)) /\ (Pushing(g)' => Pushing(g))
    BY <2>1, <2>4, AskedFrame
  <2>6. (OneHand(g)' <=> OneHand(g)) /\ (Worked(g)' <=> Worked(g))
    BY <2>1 DEF OneHand, Worked
  <2>7. CASE adding[a] # g
    BY <1>c, <2>1, <2>3, <2>5, <2>6, <2>7 DEF Sole
  <2>8. CASE adding[a] = g
    <3>1. a \in Callers /\ Past(a, g) /\ Pushing(g) /\ Asked(g)
      BY <2>1, <2>8, <1>f DEF Past, Asked, Pushing, AddLabels
    <3>2. ~Asked(g)'
      <4> SUFFICES ASSUME NEW c \in Callers, Past(c, g)' PROVE FALSE
        BY DEF Asked
      <4>1. c # a
        BY <2>4
      <4>2. Past(c, g)
        BY <4>1, <2>1, ActorKinds DEF OthersKeep, Past
      <4> QED
        BY <4>1, <4>2, <3>1, <1>c, <1>d, <1>e DEF CallerFrame
    <3> QED
      BY <1>c, <2>1, <2>3, <2>5, <2>6, <3>1, <3>2 DEF Sole
  <2> QED
    BY <2>7, <2>8
<1>8. ASSUME NEW a \in Actors, PushFull(a) PROVE Sole(g)'
  <2>1. /\ OthersKeep(a) /\ pc[a] = "push" /\ pc'[a] = "full" /\ UNCHANGED callVars
        /\ UNCHANGED <<ring, running, drained, queued>>
    BY <1>8, <1>a DEF PushFull, Goto, OthersKeep, callVars, workVars, controlVars
  <2>2. Past(a, g)' => Past(a, g)
    BY <2>1 DEF Past, callVars
  <2> QED
    BY <1>1, <2>1, <2>2
<1>9. ASSUME NEW a \in Actors, Publish(a) PROVE Sole(g)'
  <2>1. OthersKeep(a) /\ (a \in Callers => ~Past(a, g)' /\ pc'[a] # "push")
    BY <1>2, <1>9 DEF Publish
  <2>2. (Asked(g)' => Asked(g)) /\ (Pushing(g)' => Pushing(g))
    BY <2>1, AskedFrame
  <2>3. (InRing(g)' <=> InRing(g)) /\ (OneCell(g) <=> OneCell(g)')
    BY <1>9, RingPublish
  <2>4. /\ OneHand(g)' <=> OneHand(g)
        /\ Worked(g)' <=> Worked(g)
        /\ UNCHANGED <<drained, queued>>
    BY <1>9 DEF Publish, OneHand, Worked, workVars, controlVars
  <2> QED
    BY <1>c, <2>2, <2>3, <2>4 DEF Sole
<1>10. ASSUME NEW a \in Actors, Drop(a) PROVE Sole(g)'
  <2>1. OthersKeep(a) /\ (a \in Callers => ~Past(a, g)' /\ pc'[a] # "push")
    BY <1>2, <1>10 DEF Drop
  <2>2. (Asked(g)' => Asked(g)) /\ (Pushing(g)' => Pushing(g))
    BY <2>1, AskedFrame
  <2>3. pc[a] = "full" /\ adding[a] \in Jobs /\ UNCHANGED <<ring, running, drained>>
    BY <1>10, <1>a DEF Drop, AddLabels, workVars, controlVars
  <2>4. CASE adding[a] # g
    BY <1>10, <1>a, <1>c, <1>d, <2>2, <2>3, <2>4, SoleFrame DEF Drop
  <2>5. CASE adding[a] = g
    <3>1. a \in Callers /\ Past(a, g) /\ Asked(g)
      BY <2>3, <2>5, <1>f DEF Past, Asked, AddLabels
    <3>2. ~Pushing(g)'
      <4> SUFFICES ASSUME NEW c \in Callers, adding'[c] = g, pc'[c] = "push" PROVE FALSE
        BY DEF Pushing
      <4>1. c # a
        BY <2>1
      <4>2. Past(c, g)
        BY <4>1, <2>1, ActorKinds DEF OthersKeep, Past
      <4> QED
        BY <4>1, <4>2, <3>1, <1>c, <1>d, <1>e DEF CallerFrame
    <3>3. /\ OneCell(g)' <=> OneCell(g)
          /\ OneHand(g)' <=> OneHand(g)
          /\ InRing(g)' <=> InRing(g)
          /\ Worked(g)' <=> Worked(g)
      BY <2>3 DEF OneCell, OneHand, InRing, Worked
    <3> QED
      BY <1>c, <2>3, <3>1, <3>2, <3>3 DEF Sole
  <2> QED
    BY <2>4, <2>5
<1>11. ASSUME NEW w \in Workers, GetJob(w) \/ PopNothing(w) \/ Run(w) \/ RunReturns(w) \/
                                 RunAddsSibling(w)
       PROVE  Sole(g)'
  <2>1. OthersKeep(w) /\ UNCHANGED <<ring, running, drained, queued>>
    BY <1>11, <1>a, ActorKinds DEF GetJob, PopNothing, Run, RunReturns, RunAddsSibling, Goto,
       OthersKeep, callVars, workVars, controlVars
  <2> QED
    BY <1>1, <2>1, ActorKinds
<1>12. ASSUME NEW w \in Workers, Pop(w) PROVE Sole(g)'
  <2>1. /\ OthersKeep(w) /\ UNCHANGED <<drained, queued>> /\ ring # <<>> /\ ring' = Tail(ring)
        /\ running' = [running EXCEPT ![w] = Head(ring).job]
    BY <1>12, <1>a, ActorKinds DEF Pop, HeadReady, Goto, OthersKeep, callVars, controlVars
  <2>2. (Asked(g)' => Asked(g)) /\ (Pushing(g)' => Pushing(g))
    BY <2>1, AskedFrame, ActorKinds
  <2>3. /\ InRing(g)' => InRing(g)
        /\ Head(ring).job = g => InRing(g)
        /\ OneCell(g) => OneCell(g)' /\ (Head(ring).job = g => ~InRing(g)')
    BY <1>b, <2>1, RingTail
  <2>4. /\ Worked(g)' => Worked(g) \/ Head(ring).job = g
        /\ OneHand(g) /\ (Head(ring).job = g => ~Worked(g)) => OneHand(g)'
    BY <1>a, <2>1 DEF Worked, OneHand
  <2> QED
    BY <1>c, <2>1, <2>2, <2>3, <2>4 DEF Sole
<1>13. ASSUME NEW w \in Workers, running' = [running EXCEPT ![w] = None]
       PROVE  /\ Worked(g)' => Worked(g)
              /\ OneHand(g) => OneHand(g)' /\ (running[w] = g => Worked(g) /\ ~Worked(g)')
  BY <1>13, <1>a, <1>d, ActorKinds DEF Worked, OneHand
<1>14. ASSUME NEW w \in Workers, Skip(w) \/ Finish(w) PROVE Sole(g)'
  <2>1. /\ OthersKeep(w) /\ UNCHANGED <<drained, ring>>
        /\ running' = [running EXCEPT ![w] = None] /\ running[w] \in Jobs
    BY <1>14, <1>a, ActorKinds DEF Skip, Finish, Goto, OthersKeep, callVars, controlVars
  <2>2. (Asked(g)' => Asked(g)) /\ (Pushing(g)' => Pushing(g))
    BY <2>1, AskedFrame, ActorKinds
  <2>3. /\ Worked(g)' => Worked(g)
        /\ OneHand(g) => OneHand(g)' /\ (running[w] = g => Worked(g) /\ ~Worked(g)')
    BY <1>13, <2>1
  <2>4. (InRing(g)' <=> InRing(g)) /\ (OneCell(g)' <=> OneCell(g))
    BY <2>1 DEF InRing, OneCell
  <2>5. running[w] # g => queued'[g] = queued[g]
    BY <1>14, <1>a, <1>d, <2>1 DEF Skip, Finish
  <2>6. Pushing(g) => Asked(g)
    BY DEF Pushing, Asked, Past
  <2> QED
    BY <1>c, <2>1, <2>2, <2>3, <2>4, <2>5, <2>6 DEF Sole
<1>15. CASE DrainPop
  <2>1. /\ UNCHANGED <<pc, callVars, running, queued>> /\ ring # <<>> /\ ring' = Tail(ring)
        /\ drained' = Head(ring).job
    BY <1>15 DEF DrainPop, HeadReady, workVars
  <2>2. (Asked(g)' <=> Asked(g)) /\ (Pushing(g)' <=> Pushing(g))
    BY <2>1 DEF Asked, Pushing, Past, callVars
  <2>3. /\ InRing(g)' => InRing(g)
        /\ Head(ring).job = g => InRing(g)
        /\ OneCell(g) => OneCell(g)' /\ (Head(ring).job = g => ~InRing(g)')
    BY <1>b, <2>1, RingTail
  <2>4. (Worked(g)' <=> Worked(g)) /\ (OneHand(g)' <=> OneHand(g))
    BY <2>1 DEF Worked, OneHand
  <2> QED
    BY <1>c, <2>1, <2>2, <2>3, <2>4 DEF Sole
<1>16. CASE DrainZero
  <2>1. /\ UNCHANGED <<pc, callVars, running, ring>> /\ drained' = None /\ None # g
        /\ drained # g => queued'[g] = queued[g]
    BY <1>16, <1>a, <1>d, ActorKinds DEF DrainZero, workVars
  <2>2. (Asked(g)' <=> Asked(g)) /\ (Pushing(g)' <=> Pushing(g))
    BY <2>1 DEF Asked, Pushing, Past, callVars
  <2>3. /\ OneCell(g)' <=> OneCell(g)
        /\ OneHand(g)' <=> OneHand(g)
        /\ InRing(g)' <=> InRing(g)
        /\ Worked(g)' <=> Worked(g)
    BY <2>1 DEF OneCell, OneHand, InRing, Worked
  <2>4. Pushing(g) => Asked(g)
    BY DEF Pushing, Asked, Past
  <2> QED
    BY <1>c, <2>1, <2>2, <2>3, <2>4 DEF Sole
<1>17. CASE Shutdown \/ DrainEnds \/ JoinWorkers
  BY <1>17, <1>c, SoleFrame DEF Shutdown, DrainEnds, JoinWorkers, Asked, Pushing, Past, callVars,
     workVars
<1>18. CASE Startup
  <2>1. (Asked(g)' <=> Asked(g)) /\ (Pushing(g)' <=> Pushing(g))
    BY <1>18, ActorKinds DEF Startup, Asked, Pushing, Past, callVars
  <2> QED
    BY <1>18, <1>c, <2>1, SoleFrame DEF Startup, workVars
<1>19. CASE UNCHANGED vars
  BY <1>19, <1>c, SoleFrame DEF vars, Asked, Pushing, Past, callVars, workVars, controlVars
<1> QED
  BY <1>3, <1>4, <1>5, <1>6, <1>7, <1>8, <1>9, <1>10, <1>11, <1>12, <1>14, <1>15, <1>16, <1>17,
     <1>18, <1>19, ActorKinds DEF Next, CallStep, WorkStep, AddStep, StopStep

\* A job that one thread asks for, behind isQueued(), is in a cell of the ring
\* only while isQueued() says so, with any number of workers: an owner whose
\* join() returned leaves no pointer behind.
THEOREM QueuedCoversTheRing == Spec => []QueuedCoversRing
<1>1. Init => HolderInv
  <2> SUFFICES ASSUME Init PROVE HolderInv
    OBVIOUS
  <2>1. \A a \in Actors : pc[a] = IF a \in Workers THEN "get" ELSE "idle"
    BY DEF Init
  <2>2. AddsSibling /\ CallerFrame
    BY <2>1, ActorKinds DEF Init, AddsSibling, CallerFrame, AddLabels
  <2>3. ASSUME NEW g \in Guarded PROVE Sole(g)
    <3>1. g \in Jobs /\ g # None
      BY ActorKinds, GuardedJobs
    <3>2. ~Asked(g) /\ ~Pushing(g)
      BY <2>1, ActorKinds DEF Asked, Pushing, Past
    <3>3. ~InRing(g) /\ OneCell(g)
      BY DEF Init, InRing, OneCell
    <3>4. ~Worked(g) /\ OneHand(g) /\ drained # g
      BY <3>1 DEF Init, Worked, OneHand
    <3> QED
      BY <3>2, <3>3, <3>4 DEF Sole
  <2> QED
    BY <2>2, <2>3 DEF HolderInv
<1>2. TypeOK /\ HolderInv /\ [Next]_vars => HolderInv'
  BY AddsSiblingStep, CallerFrameStep, SoleStep DEF HolderInv
<1>3. TypeOK /\ HolderInv => QueuedCoversRing
  <2> SUFFICES ASSUME TypeOK, HolderInv, NEW i \in DOMAIN ring, ring[i].job \in Guarded
               PROVE  queued[ring[i].job] # 0
    BY DEF QueuedCoversRing
  <2>1. Sole(ring[i].job) /\ InRing(ring[i].job)
    BY DEF HolderInv, InRing
  <2>2. queued[ring[i].job] >= 1
    BY <2>1 DEF Sole
  <2> QED
    BY <2>2
<1> QED
  BY <1>1, <1>2, <1>3, PoolTypeCorrect, PTL DEF Spec

============================================================================
