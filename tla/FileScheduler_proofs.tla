------------------------ MODULE FileScheduler_proofs ------------------------
(***************************************************************************)
(* For any number of slots and of threads, of requests and of shutdowns: a *)
(* slot has one owner at a time, a request is answered once, and what it   *)
(* is told is what happened to its file.                                   *)
(***************************************************************************)
EXTENDS FileScheduler, TLAPS

(***************************************************************************)
(* The state word of a slot says whose it is.  A request is with the       *)
(* thread that asks until it is published, in one slot from then on, and   *)
(* in none once it is answered and the slot freed.  The late completion in *)
(* Arm() may hit a slot that meanwhile holds another request: it makes it  *)
(* COMPLETE before its operation ran, and the invariant allows for that.   *)
(***************************************************************************)

Asking(t) == arm[t].at \in {"walk", "fill", "publish"}
Holds(s) == state[s] \in {"ARMED", "RUNNING", "COMPLETE"}

Types ==
  /\ state \in [Slots -> {"FREE", "CLAIMED", "ARMED", "RUNNING", "COMPLETE"}]
  /\ payload \in [Slots -> Requests \cup {None}] /\ good \in [Slots -> BOOLEAN]
  /\ DOMAIN arm = Threads /\ asked \in 0..MaxRequests
  /\ ran \in [Requests -> {"no", "good", "bad"}]
  /\ outcome \in [Requests -> {"pending", "refused", "ok", "failed", "dropped"}]

\* A slot that a thread, the pool or the worker names is one of the table.
SlotsNamed ==
  /\ \A t \in Threads :
       arm[t].at \in {"fill", "publish", "add", "check", "fail"} => arm[t].slot \in Slots
  /\ ring \in Seq(Slots)
  /\ worker.at = "popped" => worker.slot \in Slots

\* Whoever has a slot has it in the state that says so.
Owners ==
  /\ \A t \in Threads, s \in Slots : Filling(t, s) => state[s] = "CLAIMED"
  /\ \A t, u \in Threads, s \in Slots : Filling(t, s) /\ Filling(u, s) => t = u
  /\ worker.at \in {"run", "operated"} =>
       /\ worker.slot \in Slots /\ state[worker.slot] = "RUNNING"
       /\ payload[worker.slot] = worker.req
  /\ worker.at \notin {"run", "operated"} => worker.req = None
  /\ deliver.at \in {"callback", "delivered"} =>
       /\ deliver.slot \in Slots /\ state[deliver.slot] = "COMPLETE"
       /\ payload[deliver.slot] = deliver.req

\* A request is in one place.
OnePlace ==
  /\ \A t \in Threads : Asking(t) => arm[t].req \in 1..asked
  /\ \A s \in Slots : Holds(s) => payload[s] \in 1..asked
  /\ \A t, u \in Threads : Asking(t) /\ Asking(u) /\ arm[t].req = arm[u].req => t = u
  /\ \A s, q \in Slots : Holds(s) /\ Holds(q) /\ payload[s] = payload[q] => s = q
  /\ \A t \in Threads, s \in Slots : Asking(t) /\ Holds(s) => arm[t].req # payload[s]

\* What has been done for a request, by the place it is in.
Progress ==
  /\ \A r \in Requests : r > asked => ran[r] = "no" /\ outcome[r] = "pending"
  /\ \A t \in Threads : Asking(t) => ran[arm[t].req] = "no" /\ outcome[arm[t].req] = "pending"
  /\ \A t \in Threads : arm[t].at = "publish" =>
       payload[arm[t].slot] = arm[t].req /\ ~good[arm[t].slot]
  /\ \A s \in Slots : Holds(s) => (good[s] <=> ran[payload[s]] = "good")
  /\ \A s \in Slots : state[s] = "ARMED" => ran[payload[s]] = "no"
  /\ worker.at = "run" => ran[worker.req] = "no"
  /\ \A s \in Slots : Holds(s) /\ outcome[payload[s]] # "pending" =>
       deliver.at = "delivered" /\ deliver.slot = s

FileInv == Types /\ SlotsNamed /\ Owners /\ OnePlace /\ Progress /\ ResultIsTrue

----------------------------------------------------------------------------
\* Each part reads only some of the variables.
LEMMA Untouched ==
  /\ Types /\ UNCHANGED <<state, payload, good, arm, asked, ran, outcome>> => Types'
  /\ SlotsNamed /\ UNCHANGED <<arm, ring, worker>> => SlotsNamed'
  /\ Owners /\ UNCHANGED <<arm, state, worker, payload, deliver>> => Owners'
  /\ OnePlace /\ UNCHANGED <<arm, state, payload, asked>> => OnePlace'
  /\ Progress /\ UNCHANGED <<asked, ran, outcome, arm, payload, good, state, worker, deliver>>
         => Progress'
  /\ ResultIsTrue /\ UNCHANGED <<outcome, ran, worker>> => ResultIsTrue'
<1>1. Types /\ UNCHANGED <<state, payload, good, arm, asked, ran, outcome>> => Types'
  BY DEF Types
<1>2. SlotsNamed /\ UNCHANGED <<arm, ring, worker>> => SlotsNamed'
  BY DEF SlotsNamed
<1>3. Owners /\ UNCHANGED <<arm, state, worker, payload, deliver>> => Owners'
  BY DEF Owners, Filling
<1>4. OnePlace /\ UNCHANGED <<arm, state, payload, asked>> => OnePlace'
  BY DEF OnePlace, Asking, Holds
<1>5. Progress /\ UNCHANGED <<asked, ran, outcome, arm, payload, good, state, worker, deliver>>
       => Progress'
  BY DEF Progress, Asking, Holds
<1>6. ResultIsTrue /\ UNCHANGED <<outcome, ran, worker>> => ResultIsTrue'
  BY DEF ResultIsTrue
<1> QED BY <1>1, <1>2, <1>3, <1>4, <1>5, <1>6

\* Arm(), in any thread: what it writes is its own, but for the late check.
LEMMA ArmKeeps == ASSUME FileInv, NEW t \in Threads, Arm(t) PROVE FileInv'
<1> USE DEF FileInv, Types, pool, logs
<1>1. CASE Ask(t)
  <2>1. Types' BY <1>1, SchedulerAssumption DEF Ask, Goes
  <2>2. SlotsNamed' BY <1>1 DEF Ask, Goes, SlotsNamed
  <2>3. Owners' BY <1>1 DEF Ask, Goes, Owners, Filling
  <2>4. OnePlace' BY <1>1 DEF Ask, Goes, OnePlace, Asking, Holds
  <2>5. Progress' BY <1>1, SchedulerAssumption DEF Ask, Goes, Progress, Asking,
        Holds, Requests
  <2>6. ResultIsTrue' BY <1>1, Untouched DEF Ask
  <2> QED BY <2>1, <2>2, <2>3, <2>4, <2>5, <2>6
<1>2. CASE Claim(t)
  <2>1. Types' BY <1>2 DEF Claim, Goes
  <2>2. SlotsNamed' BY <1>2 DEF Claim, Goes, SlotsNamed
  <2>3. Owners' BY <1>2 DEF Claim, At, Goes, Owners, Filling
  <2>4. OnePlace' BY <1>2 DEF Claim, At, Goes, OnePlace, Asking, Holds
  <2>5. Progress' BY <1>2 DEF Claim, At, Goes, Progress, Asking, Holds
  <2>6. ResultIsTrue' BY <1>2, Untouched DEF Claim
  <2> QED BY <2>1, <2>2, <2>3, <2>4, <2>5, <2>6
<1>3. CASE WalkOn(t)
  <2>1. Types' BY <1>3 DEF WalkOn, Goes
  <2>2. SlotsNamed' BY <1>3 DEF WalkOn, Goes, SlotsNamed
  <2>3. Owners' BY <1>3 DEF WalkOn, Goes, Owners, Filling
  <2>4. OnePlace' BY <1>3 DEF WalkOn, At, Goes, OnePlace, Asking, Holds
  <2>5. Progress' BY <1>3 DEF WalkOn, At, Goes, Progress, Asking, Holds
  <2>6. ResultIsTrue' BY <1>3, Untouched DEF WalkOn
  <2> QED BY <2>1, <2>2, <2>3, <2>4, <2>5, <2>6
<1>4. CASE Refuse(t)
  <2>1. Types' BY <1>4 DEF Refuse, At, Goes, Asking, Requests, OnePlace
  <2>2. SlotsNamed' BY <1>4 DEF Refuse, Goes, SlotsNamed
  <2>3. Owners' BY <1>4 DEF Refuse, Goes, Owners, Filling
  <2>4. OnePlace' BY <1>4 DEF Refuse, Goes, OnePlace, Asking, Holds
  <2>5. Progress' BY <1>4 DEF Refuse, At, Goes, Progress, Asking, Holds, OnePlace
  <2>6. ResultIsTrue' BY <1>4 DEF Refuse, ResultIsTrue
  <2> QED BY <2>1, <2>2, <2>3, <2>4, <2>5, <2>6
<1>5. CASE Fill(t)
  <2>1. Types' BY <1>5, SchedulerAssumption DEF Fill, At, Goes, Asking, Requests,
        SlotsNamed, OnePlace
  <2>2. SlotsNamed' BY <1>5 DEF Fill, At, Goes, SlotsNamed
  <2>3. Owners' BY <1>5 DEF Fill, At, Goes, Owners, Filling
  <2>4. OnePlace' BY <1>5 DEF Fill, At, Goes, OnePlace, Asking, Holds, Filling,
        Owners
  <2>5. Progress' BY <1>5 DEF Fill, At, Goes, Progress, Asking, Holds, Filling,
        SlotsNamed, Owners
  <2>6. ResultIsTrue' BY <1>5, Untouched DEF Fill
  <2> QED BY <2>1, <2>2, <2>3, <2>4, <2>5, <2>6
<1>6. CASE Publish(t)
  <2>1. Types' BY <1>6 DEF Publish, At, Goes, SlotsNamed
  <2>2. SlotsNamed' BY <1>6 DEF Publish, At, Goes, SlotsNamed
  <2>3. Owners' BY <1>6 DEF Publish, At, Goes, Owners, Filling
  <2>4. OnePlace' BY <1>6 DEF Publish, At, Goes, OnePlace, Asking, Holds, Progress
  <2>5. Progress' BY <1>6 DEF Publish, At, Goes, Progress, Asking, Holds
  <2>6. ResultIsTrue' BY <1>6, Untouched DEF Publish
  <2> QED BY <2>1, <2>2, <2>3, <2>4, <2>5, <2>6
<1>7. CASE AddJob(t)
  <2>1. Types' BY <1>7 DEF AddJob, Goes
  <2>2. SlotsNamed'
    <3>1. ring' \in Seq(Slots)
      <4>1. arm[t].slot \in Slots /\ ring \in Seq(Slots)
        BY <1>7 DEF AddJob, At, SlotsNamed
      <4>2. ring' = Append(ring, arm[t].slot) \/ ring' = ring BY <1>7 DEF AddJob
      <4> QED BY <4>1, <4>2
    <3> QED BY <1>7, <3>1 DEF AddJob, At, Goes, SlotsNamed
  <2>3. Owners' BY <1>7 DEF AddJob, Goes, Owners, Filling
  <2>4. OnePlace' BY <1>7 DEF AddJob, Goes, OnePlace, Asking, Holds
  <2>5. Progress' BY <1>7 DEF AddJob, Goes, Progress, Asking, Holds
  <2>6. ResultIsTrue' BY <1>7, Untouched DEF AddJob
  <2> QED BY <2>1, <2>2, <2>3, <2>4, <2>5, <2>6
<1>8. CASE Check(t)
  <2>1. Types' BY <1>8 DEF Check, Goes
  <2>2. SlotsNamed' BY <1>8 DEF Check, At, Goes, SlotsNamed
  <2>3. Owners'
    <3>1. CASE IsQueued(arm[t].slot) BY <1>8, <3>1 DEF Check, At, Goes, Owners, Filling
    <3>2. CASE ~IsQueued(arm[t].slot) BY <1>8, <3>2 DEF Check, At, Goes, Owners, Filling
    <3> QED BY <3>1, <3>2
  <2>4. OnePlace'
    <3>1. CASE IsQueued(arm[t].slot)
      BY <1>8, <3>1 DEF Check, At, Goes, OnePlace, Asking, Holds
    <3>2. CASE ~IsQueued(arm[t].slot)
      BY <1>8, <3>2 DEF Check, At, Goes, OnePlace, Asking, Holds
    <3> QED BY <3>1, <3>2
  <2>5. Progress'
    <3>1. CASE IsQueued(arm[t].slot)
      BY <1>8, <3>1 DEF Check, At, Goes, Progress, Asking, Holds
    <3>2. CASE ~IsQueued(arm[t].slot)
      BY <1>8, <3>2 DEF Check, At, Goes, Progress, Asking, Holds
    <3> QED BY <3>1, <3>2
  <2>6. ResultIsTrue' BY <1>8, Untouched DEF Check
  <2> QED BY <2>1, <2>2, <2>3, <2>4, <2>5, <2>6
<1>9. CASE Fail(t)
  <2>1. Types' BY <1>9 DEF Fail, At, Goes, Complete, SlotsNamed
  <2>2. SlotsNamed' BY <1>9 DEF Fail, Goes, SlotsNamed
  <2>3. Owners' BY <1>9 DEF Fail, Goes, Complete, Owners, Filling
  <2>4. OnePlace' BY <1>9 DEF Fail, Goes, Complete, OnePlace, Asking, Holds
  <2>5. Progress' BY <1>9 DEF Fail, Goes, Complete, Progress, Asking, Holds
  <2>6. ResultIsTrue' BY <1>9, Untouched DEF Fail
  <2> QED BY <2>1, <2>2, <2>3, <2>4, <2>5, <2>6
<1> QED BY <1>1, <1>2, <1>3, <1>4, <1>5, <1>6, <1>7, <1>8, <1>9 DEF Arm

\* The worker: it runs what is armed, once, and completes what it ran.
LEMMA WorkKeeps == ASSUME FileInv, Work PROVE FileInv'
<1> USE DEF FileInv, Types, pool, logs
<1>1. CASE PopJob
  <2>1. SlotsNamed' BY <1>1 DEF PopJob, Works, SlotsNamed
  <2>2. Owners' BY <1>1 DEF PopJob, Works, Owners, Filling
  <2>3. Progress' BY <1>1 DEF PopJob, Works, Progress, Asking, Holds
  <2>4. ResultIsTrue' BY <1>1 DEF PopJob, Works, ResultIsTrue, Requests, None
  <2>5. Types' /\ OnePlace'
    BY <1>1, Untouched DEF PopJob
  <2> QED BY <2>1, <2>2, <2>3, <2>4, <2>5
<1>2. CASE RunSlot
  <2>1. Types' BY <1>2 DEF RunSlot, SlotsNamed
  <2>2. SlotsNamed' BY <1>2 DEF RunSlot, Works, SlotsNamed
  <2>3. Owners' BY <1>2 DEF RunSlot, Works, Runnable, Owners, Filling, SlotsNamed
  <2>4. OnePlace' BY <1>2 DEF RunSlot, Runnable, OnePlace, Asking, Holds
  <2>5. Progress' BY <1>2 DEF RunSlot, Works, Runnable, Progress, Asking, Holds,
        SlotsNamed
  <2>6. ResultIsTrue' BY <1>2 DEF RunSlot, Works, Runnable, ResultIsTrue, Holds,
        SlotsNamed, Owners, Progress
  <2> QED BY <2>1, <2>2, <2>3, <2>4, <2>5, <2>6
<1>3. CASE RunNothing
  <2>1. SlotsNamed' BY <1>3 DEF RunNothing, Works, SlotsNamed
  <2>2. Owners' BY <1>3 DEF RunNothing, Works, Owners, Filling
  <2>3. Progress' BY <1>3 DEF RunNothing, Works, Progress, Asking, Holds
  <2>4. ResultIsTrue' BY <1>3 DEF RunNothing, Works, ResultIsTrue, Requests, None
  <2>5. Types' /\ OnePlace'
    BY <1>3, Untouched DEF RunNothing
  <2> QED BY <2>1, <2>2, <2>3, <2>4, <2>5
<1>4. ASSUME NEW ok \in BOOLEAN, Operate(ok) PROVE FileInv'
  <2>1. Types' BY <1>4 DEF Operate, Holds, Requests, Owners, OnePlace
  <2>2. SlotsNamed' BY <1>4 DEF Operate, Works, SlotsNamed
  <2>3. Owners' BY <1>4 DEF Operate, Works, Owners, Filling
  <2>4. Progress' BY <1>4, SchedulerAssumption DEF Operate, Works, Progress, Asking,
        Holds, Filling, Requests, Owners, OnePlace
  <2>5. ResultIsTrue' BY <1>4 DEF Operate, Works, ResultIsTrue, Progress
  <2>6. OnePlace' BY <1>4, Untouched DEF Operate
  <2> QED BY <2>1, <2>2, <2>3, <2>4, <2>5, <2>6
<1>5. CASE RunEnds
  <2>1. Types' BY <1>5 DEF RunEnds, Owners
  <2>2. SlotsNamed' BY <1>5 DEF RunEnds, Works, SlotsNamed
  <2>3. Owners' BY <1>5 DEF RunEnds, Works, Owners, Filling
  <2>4. OnePlace' BY <1>5 DEF RunEnds, OnePlace, Asking, Holds, Owners
  <2>5. Progress' BY <1>5 DEF RunEnds, Works, Progress, Asking, Holds, Owners
  <2>6. ResultIsTrue' BY <1>5 DEF RunEnds, Works, ResultIsTrue, Requests, None
  <2> QED BY <2>1, <2>2, <2>3, <2>4, <2>5, <2>6
<1>6. CASE Release
  <2>1. SlotsNamed' BY <1>6 DEF Release, Works, SlotsNamed
  <2>2. Owners' BY <1>6 DEF Release, Works, Owners, Filling
  <2>3. Progress' BY <1>6 DEF Release, Works, Progress, Asking, Holds
  <2>4. ResultIsTrue' BY <1>6 DEF Release, Works, ResultIsTrue, Requests, None
  <2>5. Types' /\ OnePlace'
    BY <1>6, Untouched DEF Release
  <2> QED BY <2>1, <2>2, <2>3, <2>4, <2>5
<1> QED BY <1>1, <1>2, <1>3, <1>4, <1>5, <1>6 DEF Work

\* The audio thread: it answers for what is complete, and frees it.
LEMMA DeliverKeeps == ASSUME FileInv, DeliverComplete PROVE FileInv'
<1> USE DEF FileInv, Types, pool, logs
<1>1. CASE Begin
  <2>1. Owners' BY <1>1 DEF Begin, Goto, Owners, Filling
  <2>2. Progress' BY <1>1 DEF Begin, Progress, Asking, Holds
  <2>3. Types' /\ SlotsNamed' /\ OnePlace' /\ ResultIsTrue'
    BY <1>1, Untouched DEF Begin
  <2> QED BY <2>1, <2>2, <2>3
<1>2. CASE PassSlot
  <2>1. Owners' BY <1>2 DEF PassSlot, Goto, Owners, Filling
  <2>2. Progress' BY <1>2 DEF PassSlot, Progress, Asking, Holds
  <2>3. Types' /\ SlotsNamed' /\ OnePlace' /\ ResultIsTrue'
    BY <1>2, Untouched DEF PassSlot
  <2> QED BY <2>1, <2>2, <2>3
<1>3. CASE TakeSlot
  <2>1. Owners' BY <1>3 DEF TakeSlot, Goto, Ready, Owners, Filling
  <2>2. Progress' BY <1>3 DEF TakeSlot, Progress, Asking, Holds
  <2>3. Types' /\ SlotsNamed' /\ OnePlace' /\ ResultIsTrue'
    BY <1>3, Untouched DEF TakeSlot
  <2> QED BY <2>1, <2>2, <2>3
<1>4. ASSUME NEW alive \in BOOLEAN, Deliver(alive) PROVE FileInv'
  <2>1. Types' BY <1>4 DEF Deliver, Holds, Requests, Owners, OnePlace
  <2>2. Owners' BY <1>4 DEF Deliver, Goto, Owners, Filling
  <2>3. Progress' BY <1>4 DEF Deliver, Goto, Progress, Asking, Holds, Owners,
        OnePlace
  <2>4. ResultIsTrue' BY <1>4 DEF Deliver, ResultIsTrue, Holds, None, Owners,
        OnePlace, Progress
  <2>5. SlotsNamed' /\ OnePlace'
    BY <1>4, Untouched DEF Deliver
  <2> QED BY <2>1, <2>2, <2>3, <2>4, <2>5
<1>5. CASE Free
  <2>1. Types' BY <1>5 DEF Free, Owners
  <2>2. Owners' BY <1>5 DEF Free, Goto, Owners, Filling
  <2>3. OnePlace' BY <1>5 DEF Free, OnePlace, Asking, Holds
  <2>4. Progress' BY <1>5 DEF Free, Progress, Asking, Holds
  <2>5. SlotsNamed' /\ ResultIsTrue'
    BY <1>5, Untouched DEF Free
  <2> QED BY <2>1, <2>2, <2>3, <2>4, <2>5
<1>6. CASE End
  <2>1. Owners' BY <1>6 DEF End, Goto, Owners, Filling
  <2>2. Progress' BY <1>6 DEF End, Progress, Asking, Holds
  <2>3. Types' /\ SlotsNamed' /\ OnePlace' /\ ResultIsTrue'
    BY <1>6, Untouched DEF End
  <2> QED BY <2>1, <2>2, <2>3
<1> QED BY <1>1, <1>2, <1>3, <1>4, <1>5, <1>6 DEF DeliverComplete

\* Stopping the pool and starting it again: no slot changes hands.
LEMMA PoolKeeps == ASSUME FileInv, Shutdown \/ Startup PROVE FileInv'
<1> USE DEF FileInv, Types, pool, logs
<1>1. CASE Shutdown
  <2>1. SlotsNamed' BY <1>1 DEF Shutdown, SlotsNamed
  <2>2. Types' /\ Owners' /\ OnePlace' /\ Progress' /\ ResultIsTrue'
    BY <1>1, Untouched DEF Shutdown
  <2> QED BY <2>1, <2>2
<1>2. CASE Startup
  <2>1. Types' /\ SlotsNamed' /\ Owners' /\ OnePlace' /\ Progress' /\ ResultIsTrue'
    BY <1>2, Untouched DEF Startup
  <2> QED BY <2>1
<1> QED BY <1>1, <1>2

\* Nothing is asked for at first.
LEMMA InitEstablishesInv == Init => FileInv
<1> SUFFICES ASSUME Init PROVE FileInv OBVIOUS
<1> USE DEF Init, Idle
<1>1. Types BY SchedulerAssumption DEF Types, None
<1>2. SlotsNamed BY DEF SlotsNamed
<1>3. Owners BY DEF Owners, Filling
<1>4. OnePlace BY DEF OnePlace, Asking, Holds
<1>5. Progress BY DEF Progress, Asking, Holds
<1>6. ResultIsTrue BY DEF ResultIsTrue
<1> QED BY <1>1, <1>2, <1>3, <1>4, <1>5, <1>6 DEF FileInv

\* The invariant is inductive.
LEMMA StepKeepsInv == FileInv /\ [Next]_vars => FileInv'
<1>1. ASSUME FileInv, UNCHANGED vars PROVE FileInv'
  BY <1>1, Untouched DEF FileInv, vars
<1> QED BY <1>1, ArmKeeps, WorkKeeps, DeliverKeeps, PoolKeeps DEF Next

\* The invariant holds in every state of every behaviour.
THEOREM FileInvHolds == Spec => []FileInv
BY InitEstablishesInv, StepKeepsInv, PTL DEF Spec

\* A slot's payload is in the hands of the thread that fills it, of the worker
\* that runs it or of the delivery, and never of two of them.
THEOREM OneHolder == Spec => []SlotHeldByOne
<1>1. FileInv => SlotHeldByOne
  BY DEF FileInv, Owners, SlotHeldByOne, Running, Delivering
<1> QED BY <1>1, FileInvHolds, PTL

\* A request that was told ok had its file operation succeed, and one that was
\* told failed did not, nor is it under way.
THEOREM AnswersAreTrue == Spec => []ResultIsTrue
<1>1. FileInv => ResultIsTrue BY DEF FileInv
<1> QED BY <1>1, FileInvHolds, PTL

\* A request is answered once and its file operation carried out once, whatever
\* is resubmitted, dropped or completed by the late check.
THEOREM AnswersAreFinal == Spec => AnsweredOnce
<1> DEFINE Final(r) == /\ outcome[r] # "pending" => outcome'[r] = outcome[r]
                       /\ ran[r] # "no" => ran'[r] = ran[r]
<1>1. ASSUME FileInv, Next PROVE \A r \in Requests : Final(r)
  <2>1. CASE UNCHANGED <<outcome, ran>> BY <2>1
  <2>2. ASSUME NEW t \in Threads, Refuse(t) PROVE \A r \in Requests : Final(r)
    BY <1>1, <2>2 DEF Refuse, At, FileInv, Types, Progress, Asking
  <2>3. ASSUME NEW ok \in BOOLEAN, Operate(ok) PROVE \A r \in Requests : Final(r)
    BY <1>1, <2>3 DEF Operate, FileInv, Types, Progress
  <2>4. ASSUME NEW alive \in BOOLEAN, Deliver(alive) PROVE \A r \in Requests : Final(r)
    BY <1>1, <2>4 DEF Deliver, FileInv, Types, Owners, Progress, Holds
  <2> QED
    BY <1>1, <2>1, <2>2, <2>3, <2>4 DEF Next, Arm, Ask, Claim, WalkOn, Fill, Publish, AddJob,
       Check, Fail, Work, PopJob, RunSlot, RunNothing, RunEnds, Release, Shutdown, Startup,
       DeliverComplete, Begin, PassSlot, TakeSlot, Free, End, logs
<1>2. FileInv /\ [Next]_vars => [\A r \in Requests : Final(r)]_vars
  BY <1>1
<1> QED BY <1>2, FileInvHolds, PTL DEF Spec, AnsweredOnce

=============================================================================
