----------------------------- MODULE ThreadPool -----------------------------
(***************************************************************************)
(* The slow pool: callers (manager updates, patcher bridges, streams) push *)
(* jobs into a bounded ring without waiting, workers pop and run them, and *)
(* the control thread shuts the pool down and revives it for the next      *)
(* session.  A job counts its outstanding start()s in "queued"; join()     *)
(* returns, and the owner may destroy the job, when that count reads 0.    *)
(*                                                                         *)
(* The ring is the FIFO that MpmcQueue implements: an element is claimed   *)
(* first and can be popped once its claimer has published it.  stop() is   *)
(* never called on a job by the engine, so shouldStop is always FALSE.     *)
(***************************************************************************)
EXTENDS Integers, Sequences, FiniteSets

CONSTANTS
  NumWorkers,    \* worker threads (the engine's slow pool has one)
  Callers,       \* threads that call addJob()
  Jobs,
  Calls,         \* per caller, the jobs it asks for
  Looks,         \* per job, the jobs its call site finds idle before addJob()
  Sibling,       \* per job, the job its run() may end by adding, or None
  Capacity,      \* of the ring
  MaxWaiting,    \* bound: callers ask only with fewer elements in the ring
  None

Workers == 1..NumWorkers
Actors == Callers \union Workers
OrNone(S) == S \union {None}

ASSUME PoolAssumption ==
  /\ NumWorkers \in Nat \ {0} /\ Capacity \in Nat \ {0} /\ MaxWaiting \in Nat
  /\ Callers \intersect Workers = {} /\ None \notin Jobs /\ None \notin Actors
  /\ Calls \in [Callers -> SUBSET Jobs]
  /\ Looks \in [Jobs -> Seq(Jobs)]
  /\ Sibling \in [Jobs -> OrNone(Jobs)]
  /\ \A j \in Jobs : Sibling[j] # j     \* activate() would swallow the request

VARIABLES
  active, control,   \* the pool's flag, and where its control thread is
  ring,              \* claimed elements, oldest first
  queued,            \* per job, start()s no activate() has accounted for
  pc,
  adding, looked,    \* per actor: the job it adds, call-site tests passed
  running, taken,    \* per worker: the job in hand, the count it snapshot
  drained,           \* the job shutdown() popped and has not zeroed yet
  owed,              \* history: per job, the actors whose start() no run followed
  dropped            \* history: a request met a full ring

callVars == <<adding, looked>>
workVars == <<running, taken>>
controlVars == <<active, control, drained>>
historyVars == <<owed, dropped>>
vars == <<controlVars, ring, queued, pc, callVars, workVars, historyVars>>

Element(job, actor) == [job |-> job, claimer |-> actor]
Goto(a, label) == pc' = [pc EXCEPT ![a] = label]

\* addJob() returns: a caller is free, and a worker goes on with its job.
Return(a) ==
  /\ adding' = [adding EXCEPT ![a] = None]
  /\ looked' = [looked EXCEPT ![a] = 0]
  /\ Goto(a, IF a \in Callers THEN "idle" ELSE "release")

(***************************************************************************)
(* addJob() and its call sites                                             *)
(***************************************************************************)

\* A manager, bridge or stream wants the job to run.  close() stops the other
\* callers before the pool, so none is inside addJob() during shutdown().
Ask(c, j) ==
  /\ pc[c] = "idle" /\ j \in Calls[c] /\ Len(ring) < MaxWaiting
  /\ control \in {"up", "down"}
  /\ adding' = [adding EXCEPT ![c] = j]
  /\ Goto(c, "look")
  /\ UNCHANGED <<controlVars, ring, queued, looked, workVars, historyVars>>

\* isQueued()
NeverQueued(j) == FALSE
IsQueued(j) == queued[j] # 0

\* One isQueued() test of the call site.
Look(c) ==
  /\ pc[c] = "look" /\ looked[c] < Len(Looks[adding[c]])
  /\ IF IsQueued(Looks[adding[c]][looked[c] + 1])
     THEN Return(c)
     ELSE /\ looked' = [looked EXCEPT ![c] = @ + 1]
          /\ UNCHANGED <<pc, adding>>
  /\ UNCHANGED <<controlVars, ring, queued, workVars, historyVars>>

\* if (!active) return;
Enter(a) ==
  /\ \/ pc[a] = "look" /\ looked[a] = Len(Looks[adding[a]])
     \/ pc[a] = "enter"
  /\ IF active THEN Goto(a, "start") /\ UNCHANGED callVars ELSE Return(a)
  /\ UNCHANGED <<controlVars, ring, queued, workVars, historyVars>>

\* start()
Start(a) ==
  /\ pc[a] = "start"
  /\ queued' = [queued EXCEPT ![adding[a]] = @ + 1]
  /\ owed' = [owed EXCEPT ![adding[a]] = @ \union {a}]
  /\ Goto(a, "push")
  /\ UNCHANGED <<controlVars, ring, callVars, workVars, dropped>>

\* try_push() claims a cell, or finds it taken: the ring is full, or whoever popped
\* the cell's last element has not freed the cell yet.
Push(a) ==
  /\ pc[a] = "push" /\ Len(ring) < Capacity
  /\ ring' = Append(ring, Element(adding[a], a))
  /\ Goto(a, "publish")
  /\ UNCHANGED <<controlVars, queued, callVars, workVars, historyVars>>

\* A cell is freed after its element is claimed and before the job is looked at.
StillHeld == (\E w \in Workers : pc[w] = "activate") \/ drained # None

\* One thread that pops can only hold the cell before the oldest element.
CellTaken ==
  \/ Len(ring) = Capacity
  \/ StillHeld /\ (Len(ring) = Capacity - 1 \/ NumWorkers > 1)

PushFull(a) ==
  /\ pc[a] = "push" /\ CellTaken
  /\ Goto(a, "full")
  /\ UNCHANGED <<controlVars, ring, queued, callVars, workVars, historyVars>>

\* The claimed cell becomes visible to try_pop().
Publish(a) ==
  /\ pc[a] = "publish"
  /\ ring' = [i \in DOMAIN ring |->
       IF ring[i].claimer = a THEN Element(ring[i].job, None) ELSE ring[i]]
  /\ Return(a)
  /\ UNCHANGED <<controlVars, queued, workVars, historyVars>>

\* release(n): subtract, never below 0.
ReleaseAll(j, n) == 0
ReleaseWraps(j, n) == queued[j] - n
Release(j, n) == IF queued[j] > n THEN queued[j] - n ELSE 0

\* The request is dropped.
Drop(a) ==
  /\ pc[a] = "full"
  /\ queued' = [queued EXCEPT ![adding[a]] = Release(adding[a], 1)]
  /\ owed' = [owed EXCEPT ![adding[a]] = @ \ {a}]
  /\ dropped' = TRUE
  /\ Return(a)
  /\ UNCHANGED <<controlVars, ring, workVars>>

(***************************************************************************)
(* A worker: getJob(), then activate()                                     *)
(***************************************************************************)
HeadReady == ring # <<>> /\ Head(ring).claimer = None

\* while (active)
PollForever == TRUE
KeepPolling == active

GetJob(w) ==
  /\ pc[w] = "get"
  /\ Goto(w, IF KeepPolling THEN "pop" ELSE "exited")
  /\ UNCHANGED <<controlVars, ring, queued, callVars, workVars, historyVars>>

Pop(w) ==
  /\ pc[w] = "pop" /\ HeadReady
  /\ running' = [running EXCEPT ![w] = Head(ring).job]
  /\ ring' = Tail(ring)
  /\ Goto(w, "activate")
  /\ UNCHANGED <<controlVars, queued, callVars, taken, historyVars>>

PopNothing(w) ==
  /\ pc[w] = "pop" /\ ~HeadReady
  /\ Goto(w, "get")
  /\ UNCHANGED <<controlVars, ring, queued, callVars, workVars, historyVars>>

\* An earlier activate() already accounted for this element.
Skip(w) ==
  /\ pc[w] = "activate" /\ queued[running[w]] = 0
  /\ running' = [running EXCEPT ![w] = None]
  /\ Goto(w, "get")
  /\ UNCHANGED <<controlVars, ring, queued, callVars, taken, historyVars>>

\* The count is read and run() entered: it serves every start() so far.
Run(w) ==
  /\ pc[w] = "activate" /\ queued[running[w]] # 0
  /\ taken' = [taken EXCEPT ![w] = queued[running[w]]]
  /\ owed' = [owed EXCEPT ![running[w]] = {}]
  /\ Goto(w, "inside")
  /\ UNCHANGED <<controlVars, ring, queued, callVars, running, dropped>>

\* run() returns, or ends by handing what is left to the job's sibling.
RunReturns(w) ==
  /\ pc[w] = "inside"
  /\ Goto(w, "release")
  /\ UNCHANGED <<controlVars, ring, queued, callVars, workVars, historyVars>>

RunAddsSibling(w) ==
  /\ pc[w] = "inside" /\ Sibling[running[w]] # None
  /\ adding' = [adding EXCEPT ![w] = Sibling[running[w]]]
  /\ Goto(w, "enter")
  /\ UNCHANGED <<controlVars, ring, queued, looked, workVars, historyVars>>

\* The last store of activate() into the job.
Finish(w) ==
  /\ pc[w] = "release"
  /\ queued' = [queued EXCEPT ![running[w]] = Release(running[w], taken[w])]
  /\ running' = [running EXCEPT ![w] = None]
  /\ taken' = [taken EXCEPT ![w] = 0]
  /\ Goto(w, "get")
  /\ UNCHANGED <<controlVars, ring, callVars, historyVars>>

(***************************************************************************)
(* shutdown() and startup(), on the control thread                         *)
(***************************************************************************)
Shutdown ==
  /\ control = "up"
  /\ \A c \in Callers : pc[c] = "idle"
  /\ active' = FALSE
  /\ control' = "drain"
  /\ UNCHANGED <<drained, ring, queued, pc, callVars, workVars, historyVars>>

\* The drain pops an element and zeroes its job's count; it stops at the first
\* cell that is empty or not published.
DrainPop ==
  /\ control = "drain" /\ HeadReady
  /\ drained' = Head(ring).job
  /\ ring' = Tail(ring)
  /\ control' = "zero"
  /\ UNCHANGED <<active, queued, pc, callVars, workVars, historyVars>>

DrainZero ==
  /\ control = "zero"
  /\ queued' = [queued EXCEPT ![drained] = 0]
  /\ owed' = [owed EXCEPT ![drained] = {}]
  /\ drained' = None
  /\ control' = "drain"
  /\ UNCHANGED <<active, ring, pc, callVars, workVars, dropped>>

DrainEnds ==
  /\ control = "drain" /\ ~HeadReady
  /\ control' = "join"
  /\ UNCHANGED <<active, drained, ring, queued, pc, callVars, workVars, historyVars>>

\* stop() joins each worker, which leaves getJob() once active is false.
JoinWorkers ==
  /\ control = "join" /\ \A w \in Workers : pc[w] = "exited"
  /\ control' = "down"
  /\ UNCHANGED <<active, drained, ring, queued, pc, callVars, workVars, historyVars>>

Startup ==
  /\ control = "down"
  /\ active' = TRUE
  /\ control' = "up"
  /\ pc' = [a \in Actors |-> IF a \in Workers THEN "get" ELSE pc[a]]
  /\ UNCHANGED <<drained, ring, queued, callVars, workVars, historyVars>>

(***************************************************************************)
(* The specification                                                       *)
(***************************************************************************)

\* The constructor ends in startup().
Init ==
  /\ active = TRUE /\ control = "up" /\ drained = None
  /\ ring = <<>>
  /\ queued = [j \in Jobs |-> 0]
  /\ pc = [a \in Actors |-> IF a \in Workers THEN "get" ELSE "idle"]
  /\ adding = [a \in Actors |-> None]
  /\ looked = [a \in Actors |-> 0]
  /\ running = [w \in Workers |-> None]
  /\ taken = [w \in Workers |-> 0]
  /\ owed = [j \in Jobs |-> {}] /\ dropped = FALSE

AddStep(a) == Enter(a) \/ Start(a) \/ Push(a) \/ PushFull(a) \/ Publish(a) \/ Drop(a)
CallStep(c) == Look(c) \/ AddStep(c)
WorkStep(w) ==
  \/ GetJob(w) \/ Pop(w) \/ PopNothing(w) \/ Skip(w) \/ Run(w)
  \/ RunReturns(w) \/ RunAddsSibling(w) \/ Finish(w) \/ AddStep(w)
StopStep == DrainPop \/ DrainZero \/ DrainEnds \/ JoinWorkers

Next ==
  \/ \E c \in Callers : CallStep(c) \/ \E j \in Jobs : Ask(c, j)
  \/ \E w \in Workers : WorkStep(w)
  \/ Shutdown \/ StopStep \/ Startup

\* Every thread keeps running; nothing obliges a caller to ask or the control
\* thread to stop or revive the pool.
Fairness ==
  /\ \A c \in Callers : WF_vars(CallStep(c))
  /\ \A w \in Workers : WF_vars(WorkStep(w))
  /\ WF_vars(StopStep)

Spec == Init /\ [][Next]_vars
FairSpec == Spec /\ Fairness

(***************************************************************************)
(* Properties                                                              *)
(***************************************************************************)
AddLabels == {"enter", "start", "push", "publish", "full"}
CallLabels == {"idle", "look"} \union (AddLabels \ {"enter"})
WorkLabels == AddLabels \union {"get", "pop", "activate", "inside", "release", "exited"}

\* Every variable keeps its type; in particular no count wraps below zero.
TypeOK ==
  /\ active \in BOOLEAN
  /\ control \in {"up", "drain", "zero", "join", "down"}
  /\ drained \in OrNone(Jobs)
  /\ control = "zero" => drained \in Jobs
  /\ ring \in Seq([job : Jobs, claimer : OrNone(Actors)])
  /\ queued \in [Jobs -> Nat]
  /\ pc \in [Actors -> CallLabels \union WorkLabels]
  /\ \A c \in Callers : pc[c] \in CallLabels
  /\ \A w \in Workers : pc[w] \in WorkLabels
  /\ adding \in [Actors -> OrNone(Jobs)]
  /\ \A a \in Actors : pc[a] \in AddLabels \union {"look"} => adding[a] \in Jobs
  /\ looked \in [Actors -> Nat]
  /\ running \in [Workers -> OrNone(Jobs)]
  /\ \A w \in Workers : pc[w] \notin {"get", "pop", "exited"} => running[w] \in Jobs
  /\ taken \in [Workers -> Nat]
  /\ owed \in [Jobs -> SUBSET Actors] /\ dropped \in BOOLEAN

\* A worker has the job in hand between its snapshot and its last store.
Executing(w) == pc[w] \in {"inside", "release"} \union AddLabels
InHand(j) == \E w \in Workers : running[w] = j /\ Executing(w)

\* join() returns only when every accepted request has been followed by a run
\* and no worker is inside the job: a start() made while run() executes is not
\* lost, and the owner never frees a job under its worker.  (Until a request is
\* dropped for a full ring: taking its count back may eat a later one's.)
JoinMeansDone ==
  control = "up" /\ ~dropped => \A j \in Jobs : queued[j] = 0 => owed[j] = {} /\ ~InHand(j)

\* The jobs that one thread asks for, and only after it found them idle.
Guarded ==
  {j \in Jobs : /\ \E i \in DOMAIN Looks[j] : Looks[j][i] = j
                /\ \A c, d \in Callers : j \in Calls[c] /\ j \in Calls[d] => c = d
                /\ \A k \in Jobs : Sibling[k] # j}

\* Such a job is in a cell of the ring only while isQueued() says so: an owner
\* whose join() returned leaves no pointer to the job behind.
QueuedCoversRing ==
  \A i \in DOMAIN ring : ring[i].job \in Guarded => queued[ring[i].job] # 0

\* Once shutdown() returned no job is left queued: a join() of any owner after
\* close() returns, and nothing of the old session runs in the next.
DownMeansIdle == control = "down" => ring = <<>> /\ \A j \in Jobs : queued[j] = 0

\* While the pool is up an accepted request is eventually run.
Served == \A j \in Jobs : (owed[j] # {}) ~> (owed[j] = {} \/ ~active \/ dropped)

\* shutdown() returns.
ShutdownEnds == (control = "drain") ~> (control = "down")

=============================================================================
