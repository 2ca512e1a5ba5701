---------------------------- MODULE FileScheduler ----------------------------
(***************************************************************************)
(* The patcher's file scheduler (patcher/io/fileScheduler.cpp): a fixed    *)
(* table of slots.  Any thread that dispatches a message may ask for a     *)
(* file: Arm() claims a free slot, fills it, publishes it and hands its    *)
(* job to the slow pool, whose one worker runs it.  The audio thread       *)
(* delivers what is complete and frees the slot.  Nothing locks: a slot    *)
(* passes from hand to hand by its state word alone.                       *)
(*                                                                         *)
(* The pool is here as its users see it (ThreadPool has its inside): a     *)
(* queue, a count of the pushes each job has outstanding, and a shutdown   *)
(* that drops what is queued.                                              *)
(***************************************************************************)
EXTENDS Naturals, Sequences, FiniteSets

CONSTANTS Slots,       \* 1..n, searched in order
          Threads,     \* threads that ask for files
          Audio,       \* the one of them, or another, that delivers
          MaxRequests, \* bound on the calls of Arm()
          MaxDowns     \* bound on the shutdowns of the pool

ASSUME SchedulerAssumption == /\ Slots = 1..Cardinality(Slots) /\ Slots # {}
                              /\ MaxRequests \in Nat \ {0} /\ MaxDowns \in Nat

VARIABLES
  state,    \* slot -> FREE, CLAIMED, ARMED, RUNNING, COMPLETE
  payload,  \* slot -> the request whose arguments it holds
  good,     \* slot -> ok, the result of the last run
  count,    \* slot -> pushes of its job not yet accounted for; isQueued()
  ring,     \* the pool's queue of jobs
  up,       \* the pool runs
  downs,    \* shutdowns so far
  arm,      \* thread -> where it is in Arm(): [at, slot, req]
  worker,   \* the pool's worker: [at, slot, req, n]
  deliver,  \* the audio thread in DeliverComplete(): [at, slot, req]
  asked,    \* requests made so far
  ran,      \* request -> what the worker did for it: no, good, bad
  rejected, \* requests whose job the pool did not take, or dropped unrun
  outcome   \* request -> pending, refused, ok, failed, dropped

vars == <<state, payload, good, count, ring, up, downs, arm, worker, deliver,
          asked, ran, rejected, outcome>>
pool == <<count, ring, up, downs>>
logs == <<asked, ran, rejected, outcome>>

Requests == 1..MaxRequests
None == 0
Idle == [at |-> "idle", slot |-> None, req |-> None]

Init ==
  /\ state = [s \in Slots |-> "FREE"] /\ payload = [s \in Slots |-> None]
  /\ good = [s \in Slots |-> FALSE] /\ count = [s \in Slots |-> 0]
  /\ ring = <<>> /\ up = TRUE /\ downs = 0
  /\ arm = [t \in Threads |-> Idle] /\ deliver = Idle
  /\ worker = [at |-> "idle", slot |-> None, req |-> None, n |-> 0]
  /\ asked = 0 /\ ran = [r \in Requests |-> "no"] /\ rejected = {}
  /\ outcome = [r \in Requests |-> "pending"]

IsQueued(s) == count[s] # 0
At(t, at) == arm[t].at = at
Goes(t, at, s, r) == arm' = [arm EXCEPT ![t] = [at |-> at, slot |-> s, req |-> r]]

\* The audio thread is in one place at a time: it asks for files only outside
\* DeliverComplete(), or from inside the callback it is making.
MayAsk(t) == t = Audio => deliver.at \in {"idle", "callback"}
Delivers == Audio \in Threads => At(Audio, "idle")

----------------------------------------------------------------------------
\* Arm(): a bounded walk with one compare-and-swap per slot.

Ask(t) ==
  /\ At(t, "idle") /\ MayAsk(t) /\ asked < MaxRequests
  /\ asked' = asked + 1
  /\ Goes(t, "walk", 1, asked + 1)
  /\ UNCHANGED <<state, payload, good, pool, worker, deliver, ran, rejected, outcome>>

\* faulty: the slot is taken by a store, not by a compare-and-swap
ClaimBlindly(t) ==
  /\ At(t, "walk") /\ arm[t].slot \in Slots /\ state[arm[t].slot] \in {"FREE", "CLAIMED"}
  /\ state' = [state EXCEPT ![arm[t].slot] = "CLAIMED"]
  /\ Goes(t, "fill", arm[t].slot, arm[t].req)
  /\ UNCHANGED <<payload, good, pool, worker, deliver, logs>>
Claim(t) ==
  /\ At(t, "walk") /\ arm[t].slot \in Slots /\ state[arm[t].slot] = "FREE"
  /\ state' = [state EXCEPT ![arm[t].slot] = "CLAIMED"]
  /\ Goes(t, "fill", arm[t].slot, arm[t].req)
  /\ UNCHANGED <<payload, good, pool, worker, deliver, logs>>
WalkOn(t) ==
  /\ At(t, "walk") /\ arm[t].slot \in Slots /\ state[arm[t].slot] # "FREE"
  /\ Goes(t, "walk", arm[t].slot + 1, arm[t].req)
  /\ UNCHANGED <<state, payload, good, pool, worker, deliver, logs>>
Refuse(t) ==
  /\ At(t, "walk") /\ arm[t].slot \notin Slots
  /\ outcome' = [outcome EXCEPT ![arm[t].req] = "refused"]
  /\ Goes(t, "idle", None, None)
  /\ UNCHANGED <<state, payload, good, pool, worker, deliver, asked, ran, rejected>>

\* faulty: the result of the slot's last request is left in it
FillKeepsResult(t) ==
  /\ At(t, "fill")
  /\ payload' = [payload EXCEPT ![arm[t].slot] = arm[t].req]
  /\ Goes(t, "publish", arm[t].slot, arm[t].req)
  /\ UNCHANGED <<state, good, pool, worker, deliver, logs>>
Fill(t) ==
  /\ At(t, "fill")
  /\ payload' = [payload EXCEPT ![arm[t].slot] = arm[t].req]
  /\ good' = [good EXCEPT ![arm[t].slot] = FALSE]
  /\ Goes(t, "publish", arm[t].slot, arm[t].req)
  /\ UNCHANGED <<state, pool, worker, deliver, logs>>
Publish(t) ==
  /\ At(t, "publish")
  /\ state' = [state EXCEPT ![arm[t].slot] = "ARMED"]
  /\ Goes(t, "add", arm[t].slot, arm[t].req)
  /\ UNCHANGED <<payload, good, pool, worker, deliver, logs>>

\* addSlowJob: nothing happens when the pool is down
AddJob(t) ==
  /\ At(t, "add")
  /\ IF up THEN /\ count' = [count EXCEPT ![arm[t].slot] = @ + 1]
                /\ ring' = Append(ring, arm[t].slot)
                /\ UNCHANGED rejected
           ELSE /\ rejected' = rejected \cup {arm[t].req}
                /\ UNCHANGED <<count, ring>>
  /\ Goes(t, "check", arm[t].slot, arm[t].req)
  /\ UNCHANGED <<state, payload, good, up, downs, worker, deliver, asked, ran, outcome>>

\* "is my job in the queue?", and a compare-and-swap of its own when it is not
Check(t) ==
  /\ At(t, "check")
  /\ IF IsQueued(arm[t].slot) THEN Goes(t, "idle", None, None)
                              ELSE Goes(t, "fail", arm[t].slot, arm[t].req)
  /\ UNCHANGED <<state, payload, good, pool, worker, deliver, logs>>
Complete(s) == state' = [state EXCEPT ![s] = IF @ = "ARMED" THEN "COMPLETE" ELSE @]
Fail(t) ==
  /\ At(t, "fail")
  /\ Complete(arm[t].slot)
  /\ Goes(t, "idle", None, None)
  /\ UNCHANGED <<payload, good, pool, worker, deliver, logs>>

Arm(t) == \/ Ask(t) \/ Claim(t) \/ WalkOn(t) \/ Refuse(t) \/ Fill(t) \/ Publish(t)
          \/ AddJob(t) \/ Check(t) \/ Fail(t)

----------------------------------------------------------------------------
\* The slow pool's worker: activate() around RunSlot().

Works(at, s, r, n) == worker' = [at |-> at, slot |-> s, req |-> r, n |-> n]

\* a job that was pushed twice may be popped with nothing left to do
PopJob ==
  /\ worker.at = "idle" /\ ring # <<>>
  /\ ring' = Tail(ring)
  /\ LET s == Head(ring) IN
       IF IsQueued(s) THEN Works("popped", s, None, count[s]) ELSE UNCHANGED worker
  /\ UNCHANGED <<state, payload, good, count, up, downs, arm, deliver, logs>>

Runnable(s) == state[s] = "ARMED"
RunSlot ==
  /\ worker.at = "popped" /\ Runnable(worker.slot)
  /\ state' = [state EXCEPT ![worker.slot] = "RUNNING"]
  /\ Works("run", worker.slot, payload[worker.slot], worker.n)
  /\ UNCHANGED <<payload, good, pool, arm, deliver, logs>>
RunNothing ==
  /\ worker.at = "popped" /\ ~Runnable(worker.slot)
  /\ Works("done", worker.slot, None, worker.n)
  /\ UNCHANGED <<state, payload, good, pool, arm, deliver, logs>>

\* the file operation succeeds or does not
Operate(ok) ==
  /\ worker.at = "run"
  /\ good' = [good EXCEPT ![worker.slot] = ok]
  /\ ran' = [ran EXCEPT ![worker.req] = IF ok THEN "good" ELSE "bad"]
  /\ Works("operated", worker.slot, worker.req, worker.n)
  /\ UNCHANGED <<state, payload, pool, arm, deliver, asked, rejected, outcome>>
RunEnds ==
  /\ worker.at = "operated"
  /\ state' = [state EXCEPT ![worker.slot] = "COMPLETE"]
  /\ Works("done", worker.slot, None, worker.n)
  /\ UNCHANGED <<payload, good, pool, arm, deliver, logs>>
\* faulty: a slot that was completed by Arm() is not released
ReleaseForgotten ==
  /\ worker.at = "done" /\ Works("idle", None, None, 0)
  /\ UNCHANGED <<state, payload, good, count, ring, up, downs, arm, deliver, logs>>
Release ==
  /\ worker.at = "done"
  /\ count' = [count EXCEPT ![worker.slot] = IF @ > worker.n THEN @ - worker.n ELSE 0]
  /\ Works("idle", None, None, 0)
  /\ UNCHANGED <<state, payload, good, ring, up, downs, arm, deliver, logs>>

Work == PopJob \/ RunSlot \/ RunNothing \/ RunEnds \/ Release
        \/ \E ok \in BOOLEAN : Operate(ok)

\* system::close() and the next init(): jobs still queued are dropped unrun
Shutdown ==
  /\ up /\ downs < MaxDowns
  /\ up' = FALSE /\ downs' = downs + 1 /\ ring' = <<>>
  /\ count' = [s \in Slots |-> IF \E n \in 1..Len(ring) : ring[n] = s THEN 0 ELSE count[s]]
  /\ rejected' = rejected \cup {payload[ring[n]] : n \in 1..Len(ring)}
  /\ UNCHANGED <<state, payload, good, arm, worker, deliver, asked, ran, outcome>>
Startup ==
  /\ ~up /\ worker.at = "idle"
  /\ up' = TRUE
  /\ UNCHANGED <<state, payload, good, count, ring, downs, arm, worker, deliver, logs>>

----------------------------------------------------------------------------
\* DeliverComplete(), once per rendered block.

Goto(at, s, r) == deliver' = [at |-> at, slot |-> s, req |-> r]

Begin ==
  /\ deliver.at = "idle" /\ Delivers
  /\ Goto("scan", 1, None)
  /\ UNCHANGED <<state, payload, good, pool, arm, worker, logs>>

Ready(s) == state[s] = "COMPLETE" /\ ~IsQueued(s)
PassSlot ==
  /\ deliver.at = "scan" /\ deliver.slot \in Slots /\ ~Ready(deliver.slot)
  /\ Goto("scan", deliver.slot + 1, None)
  /\ UNCHANGED <<state, payload, good, pool, arm, worker, logs>>
TakeSlot ==
  /\ deliver.at = "scan" /\ deliver.slot \in Slots /\ Ready(deliver.slot)
  /\ Goto("callback", deliver.slot, payload[deliver.slot])
  /\ UNCHANGED <<state, payload, good, pool, arm, worker, logs>>

\* the callback, dropped when the object is gone; the slot is freed after it
Deliver(alive) ==
  /\ deliver.at = "callback" /\ Delivers
  /\ outcome' = [outcome EXCEPT ![deliver.req] =
       IF ~alive THEN "dropped" ELSE IF good[deliver.slot] THEN "ok" ELSE "failed"]
  /\ Goto("delivered", deliver.slot, deliver.req)
  /\ UNCHANGED <<state, payload, good, pool, arm, worker, asked, ran, rejected>>
\* faulty: the slot is passed by without being freed
FreeForgotten ==
  /\ deliver.at = "delivered" /\ Goto("scan", deliver.slot + 1, None)
  /\ UNCHANGED <<state, payload, good, pool, arm, worker, logs>>
Free ==
  /\ deliver.at = "delivered"
  /\ state' = [state EXCEPT ![deliver.slot] = "FREE"]
  /\ Goto("scan", deliver.slot + 1, None)
  /\ UNCHANGED <<payload, good, pool, arm, worker, logs>>
End ==
  /\ deliver.at = "scan" /\ deliver.slot \notin Slots
  /\ Goto("idle", None, None)
  /\ UNCHANGED <<state, payload, good, pool, arm, worker, logs>>

DeliverComplete == Begin \/ PassSlot \/ TakeSlot \/ Free \/ End
                   \/ \E alive \in BOOLEAN : Deliver(alive)

Next == \/ \E t \in Threads : Arm(t)
        \/ Work \/ Shutdown \/ Startup \/ DeliverComplete

Spec == Init /\ [][Next]_vars

\* a call of Arm() returns, the worker runs, the patcher renders, a closed engine
\* is opened again; nobody is obliged to ask for a file or to close the engine
Live == /\ Spec
        /\ \A t \in Threads : WF_vars(Arm(t) /\ ~At(t, "idle"))
        /\ WF_vars(Work) /\ WF_vars(Startup)
        /\ WF_vars(DeliverComplete)

----------------------------------------------------------------------------
\* Properties.

TypeOK ==
  /\ state \in [Slots -> {"FREE", "CLAIMED", "ARMED", "RUNNING", "COMPLETE"}]
  /\ payload \in [Slots -> Requests \cup {None}] /\ good \in [Slots -> BOOLEAN]
  \* every thread has at most one push of a slot's job outstanding
  /\ count \in [Slots -> 0..Cardinality(Threads) + 1]
  /\ \A t \in Threads : arm[t].slot \in None..Cardinality(Slots) + 1
  /\ up \in BOOLEAN /\ downs \in 0..MaxDowns /\ asked \in 0..MaxRequests
  /\ outcome \in [Requests -> {"pending", "refused", "ok", "failed", "dropped"}]

\* Payload fields are written only by the thread that claimed the slot, used only
\* by the worker that runs it and read again only by the delivery, and are never
\* touched by two of them at once.
Filling(t, s) == arm[t].at \in {"fill", "publish"} /\ arm[t].slot = s
Running(s) == worker.at \in {"run", "operated"} /\ worker.slot = s
Delivering(s) == deliver.at \in {"callback", "delivered"} /\ deliver.slot = s
SlotHeldByOne ==
  \A s \in Slots :
    /\ \A t, u \in Threads : Filling(t, s) /\ Filling(u, s) => t = u
    /\ (\E t \in Threads : Filling(t, s)) => ~Running(s) /\ ~Delivering(s)
    /\ ~(Running(s) /\ Delivering(s))
    /\ Running(s) => payload[s] = worker.req
    /\ Delivering(s) => payload[s] = deliver.req

\* What a request is told is what happened to its file: ok only after an operation
\* that succeeded, failed never after one, and never while one is under way.
ResultIsTrue ==
  \A r \in Requests :
    /\ outcome[r] = "ok" => ran[r] = "good"
    /\ outcome[r] = "failed" => ran[r] # "good" /\ worker.req # r

\* A request is answered once, and its file operation is carried out once.
AnsweredOnce ==
  [][\A r \in Requests :
       /\ outcome[r] # "pending" => outcome'[r] = outcome[r]
       /\ ran[r] # "no" => ran'[r] = ran[r]]_vars

\* A request fails without its file being touched only when the pool refused its
\* job or dropped it: the late check in Arm() completes no slot but its own
\* stranded one.
FailsOnlyWhenRejected ==
  \A r \in Requests : outcome[r] = "failed" /\ ran[r] = "no" => r \in rejected

\* A shutdown dropped the job of a request whose caller had already left Arm():
\* the slot stays armed, and nobody will complete it.
Stranded(r) ==
  /\ r \in rejected /\ \A t \in Threads : arm[t].req # r
  /\ \E s \in Slots : state[s] = "ARMED" /\ payload[s] = r

\* Every request is answered, as a failure if the pool did not take its job,
\* unless a shutdown stranded it.
EveryRequestAnswered ==
  \A r \in Requests : asked >= r ~> outcome[r] # "pending" \/ Stranded(r)

=============================================================================
