-------------------------- MODULE MpmcQueue_proofs --------------------------
(***************************************************************************)
(* For any capacity, any number of threads and any values: the cursors are *)
(* never more than one round apart, a cell has one owner at a time, and    *)
(* the lock-free queue is a bounded FIFO.                                  *)
(***************************************************************************)
EXTENDS MpmcQueue, TLAPS

(***************************************************************************)
(* A round is the Cells positions from dequeuePos on, one for each cell.   *)
(* Those below enqueuePos are claimed by a push: published, or still in    *)
(* the hands of the producer.  The others are free, or in the hands of the *)
(* consumer that claimed them a round ago.  The sequence of a cell tells   *)
(* which, and that is the invariant.                                       *)
(***************************************************************************)

Pushing(t) == pc[t] \in {"pushWrite", "pushPublish"}
Popping(t) == pc[t] \in {"popTake", "popFree"}

Claimed == dequeuePos..(enqueuePos - 1)
Free == enqueuePos..(dequeuePos + Cells - 1)
Round == dequeuePos..(dequeuePos + Cells - 1)

CellsNumbered ==
  /\ \A p \in Claimed : Ready(p) \/ \E t \in Threads : Pushing(t) /\ pos[t] = p
  /\ \A p \in Free :
       sequence[Cell(p)] = p \/ \E t \in Threads : Popping(t) /\ pos[t] + Cells = p

\* What a thread has claimed is in the round, and numbered as it found it.
ClaimsHold ==
  /\ \A t \in Threads : Pushing(t) => pos[t] \in Claimed /\ sequence[Cell(pos[t])] = pos[t]
  /\ \A t \in Threads : Popping(t) => pos[t] + Cells \in Free /\ Ready(pos[t])

\* A position is claimed by one producer and one consumer.
ClaimedOnce ==
  \A t, u \in Threads :
     /\ (Pushing(t) /\ Pushing(u)) \/ (Popping(t) /\ Popping(u))
     /\ pos[t] = pos[u]
     => t = u

\* What a thread read before its compare-exchange still holds if that succeeds:
\* a cursor that has not moved since has a cell that has not changed.
ReadsFresh ==
  \A t \in Threads :
     /\ pc[t] \in {"pushRead", "pushClaim"} => pos[t] <= enqueuePos
     /\ pc[t] = "pushClaim" /\ pos[t] = enqueuePos => sequence[Cell(pos[t])] = pos[t]
     /\ pc[t] \in {"popRead", "popClaim"} => pos[t] <= dequeuePos
     /\ pc[t] = "popClaim" /\ pos[t] = dequeuePos => Ready(pos[t])

\* A producer has a value, and has written it before it publishes.
ValuesCarried ==
  \A t \in Threads :
     /\ pc[t] \in {"pushRead", "pushReload", "pushClaim", "pushWrite", "pushPublish"} =>
          value[t] \in Values
     /\ pc[t] = "pushPublish" => data[Cell(pos[t])] = value[t]

QueueInv ==
  /\ TypeOK /\ CellsNumbered /\ ClaimsHold /\ ClaimedOnce /\ ReadsFresh /\ ValuesCarried

-----------------------------------------------------------------------------
(***************************************************************************)
(* Positions and cells.                                                    *)
(***************************************************************************)

\* A position has a cell.
LEMMA CellOf ==
  ASSUME NEW p \in Nat
  PROVE  Cell(p) \in 0..(Cells - 1)
BY QueueAssumption DEF QueueAssumption, Cell

\* Multiples of the capacity that are less than one apart are one.
LEMMA Multiples ==
  ASSUME NEW C \in Nat, C > 0, NEW a \in Int, NEW b \in Int,
         C * a < C * b + C, C * b < C * a + C
  PROVE  a = b
<1>1. a <= b OBVIOUS
<1>2. b <= a OBVIOUS
<1> QED BY <1>1, <1>2

\* A position and the one a round later have the same cell.
LEMMA NextRound ==
  ASSUME NEW p \in Nat
  PROVE  Cell(p + Cells) = Cell(p)
<1>1. Cells \in Nat /\ Cells > 0
  BY QueueAssumption DEF QueueAssumption
<1> DEFINE a == p \div Cells
           b == (p + Cells) \div Cells
<1>2. a \in Int /\ b \in Int
  BY <1>1
<1>3. p = Cells * a + Cell(p) /\ Cell(p) \in 0..(Cells - 1)
  BY <1>1 DEF Cell
<1>4. p + Cells = Cells * b + Cell(p + Cells) /\ Cell(p + Cells) \in 0..(Cells - 1)
  BY <1>1 DEF Cell
<1> HIDE DEF a, b
<1>5. Cells * a \in Int /\ Cells * b \in Int /\ Cells * (a + 1) = Cells * a + Cells
  BY <1>1, <1>2
<1>6. Cells * (a + 1) < Cells * b + Cells /\ Cells * b < Cells * (a + 1) + Cells
  BY <1>1, <1>3, <1>4, <1>5
<1>7. a + 1 = b
  BY <1>1, <1>2, <1>6, Multiples
<1> QED BY <1>1, <1>2, <1>3, <1>4, <1>5, <1>7

\* Positions less than a round apart have different cells.
LEMMA CellsApart ==
  ASSUME NEW p \in Nat, NEW q \in Nat,
         Cell(p) = Cell(q), p - q < Cells, q - p < Cells
  PROVE  p = q
<1>1. Cells \in Nat /\ Cells > 0
  BY QueueAssumption DEF QueueAssumption
<1> DEFINE a == p \div Cells
           b == q \div Cells
<1>2. a \in Int /\ b \in Int
  BY <1>1
<1>3. p = Cells * a + Cell(p) /\ q = Cells * b + Cell(q) /\ Cell(p) \in Int
  BY <1>1 DEF Cell
<1> HIDE DEF a, b
<1>4. Cells * a \in Int /\ Cells * b \in Int
  BY <1>1, <1>2
<1>5. Cells * a < Cells * b + Cells /\ Cells * b < Cells * a + Cells
  BY <1>1, <1>3, <1>4
<1>6. a = b
  BY <1>1, <1>2, <1>5, Multiples
<1> QED BY <1>3, <1>6

\* A store into the sequence of one position of the round leaves those of the
\* others as they are.
LEMMA RestKept ==
  ASSUME TypeOK, NEW p \in Round, NEW v,
         sequence' = [sequence EXCEPT ![Cell(p)] = v]
  PROVE  /\ sequence'[Cell(p)] = v
         /\ \A q \in Round \ {p} : sequence'[Cell(q)] = sequence[Cell(q)]
<1>1. Round \subseteq Nat /\ \A q \in Round : p - q < Cells /\ q - p < Cells
  BY QueueAssumption DEF QueueAssumption, TypeOK, Round
<1> QED BY <1>1, CellOf, CellsApart DEF TypeOK

-----------------------------------------------------------------------------
(***************************************************************************)
(* The invariant.                                                          *)
(***************************************************************************)

\* The cursors, as numbers, and the two parts of the round.
LEMMA Cursors ==
  ASSUME TypeOK
  PROVE  /\ Cells \in Nat /\ Cells >= 2 /\ enqueuePos \in Nat /\ dequeuePos \in Nat
         /\ dequeuePos <= enqueuePos /\ enqueuePos <= dequeuePos + Cells
         /\ Claimed \cup Free = Round /\ Claimed \cap Free = {} /\ Round \subseteq Nat
BY QueueAssumption DEF QueueAssumption, TypeOK, Length, Claimed, Free, Round

\* A call that returns leaves the other threads where they are.
LEMMA Returns ==
  ASSUME TypeOK, NEW t \in Threads, Return(t)
  PROVE  /\ pc' \in [Threads -> Labels]
         /\ pos' \in [Threads -> Nat] /\ value' \in [Threads -> Values \union {None}]
         /\ pc'[t] = "idle"
         /\ \A u \in Threads \ {t} : pc'[u] = pc[u] /\ pos'[u] = pos[u] /\ value'[u] = value[u]
<1>1. 0 \in Nat OBVIOUS
<1> QED BY <1>1 DEF TypeOK, Return, Goto, Labels

\* A step that claims, publishes and frees nothing keeps what the invariant says
\* of the cells.
LEMMA HoldersKept ==
  ASSUME QueueInv, UNCHANGED <<enqueuePos, dequeuePos, sequence>>,
         \A u \in Threads : /\ Pushing(u)' <=> Pushing(u)
                            /\ Popping(u)' <=> Popping(u)
                            /\ Pushing(u) \/ Popping(u) => pos'[u] = pos[u]
  PROVE  CellsNumbered' /\ ClaimsHold' /\ ClaimedOnce'
<1>1. UNCHANGED <<Claimed, Free>>
  BY DEF Claimed, Free
<1>2. CellsNumbered'
  BY <1>1 DEF QueueInv, CellsNumbered, Ready
<1>3. ClaimsHold'
  BY <1>1 DEF QueueInv, ClaimsHold, Ready
<1>4. ClaimedOnce'
  BY DEF QueueInv, ClaimedOnce
<1> QED BY <1>2, <1>3, <1>4

\* Two threads that have a cell each have different ones: producers and consumers
\* among themselves since they have different positions of the round, a producer
\* and a consumer since the sequence cannot be that of both.
LEMMA OwnedOnce ==
  ASSUME QueueInv
  PROVE  CellsOwnedOnce
<1>1. SUFFICES ASSUME NEW t \in Threads, NEW u \in Threads,
                      Owns(t), Owns(u), Cell(pos[t]) = Cell(pos[u])
               PROVE  t = u
  BY DEF CellsOwnedOnce
<1>2. Cells \in Nat /\ Cells >= 2 /\ pos[t] \in Nat /\ pos[u] \in Nat
  BY QueueAssumption DEF QueueAssumption, QueueInv, TypeOK
<1>3. (Pushing(t) \/ Popping(t)) /\ (Pushing(u) \/ Popping(u))
  BY <1>1 DEF Owns, Pushing, Popping
<1>4. \A v \in {t, u} : Popping(v) => sequence[Cell(pos[v])] = pos[v] + 1
  BY DEF QueueInv, ClaimsHold, Ready
<1>5. \A v \in {t, u} : Pushing(v) => sequence[Cell(pos[v])] = pos[v]
  BY DEF QueueInv, ClaimsHold
<1>6. CASE Pushing(t) /\ Pushing(u)
  BY <1>1, <1>5, <1>6 DEF QueueInv, ClaimedOnce
<1>7. CASE Popping(t) /\ Popping(u)
  BY <1>1, <1>2, <1>4, <1>7 DEF QueueInv, ClaimedOnce
<1>8. CASE (Pushing(t) /\ Popping(u)) \/ (Popping(t) /\ Pushing(u))
  <2>1. pos[t] # pos[u] /\ pos[t] - pos[u] < Cells /\ pos[u] - pos[t] < Cells
    BY <1>1, <1>2, <1>4, <1>5, <1>8
  <2> QED BY <1>1, <1>2, <2>1, CellsApart
<1> QED BY <1>3, <1>6, <1>7, <1>8

\* At first every cell is free.
LEMMA InitEstablishesInv == Init => QueueInv
<1> SUFFICES ASSUME Init PROVE QueueInv
  OBVIOUS
<1>1. \A p \in 0..(Cells - 1) : Cell(p) = p
  BY QueueAssumption DEF QueueAssumption, Cell
<1>2. TypeOK
  BY QueueAssumption DEF QueueAssumption, Init, TypeOK, Length, Labels
<1>3. CellsNumbered
  BY <1>1, QueueAssumption DEF Init, QueueAssumption, CellsNumbered, Claimed, Free
<1> QED BY <1>2, <1>3 DEF Init, QueueInv, ClaimsHold, ClaimedOnce, ReadsFresh,
                          ValuesCarried, Pushing, Popping

\* The steps that begin a call, read a cursor anew, or take the value of a cell
\* already claimed.
LEMMA MovesKeepInv ==
  ASSUME QueueInv, NEW t \in Threads,
         \/ BeginPush(t) \/ PushReload(t) \/ PushRetry(t)
         \/ BeginPop(t) \/ PopReload(t) \/ PopRetry(t) \/ PopTake(t)
  PROVE  QueueInv'
<1>1. CASE BeginPush(t)
  <2>1. TypeOK'
    BY <1>1, CellOf DEF QueueInv, TypeOK, Length, ValuesCarried, BeginPush, sharedVars, Goto, Labels
  <2>2. CellsNumbered' /\ ClaimsHold' /\ ClaimedOnce'
    BY <1>1, HoldersKept DEF QueueInv, TypeOK, Pushing, Popping, BeginPush, sharedVars, Goto
  <2>3. ReadsFresh'
    BY <1>1 DEF QueueInv, ReadsFresh, TypeOK, Ready, BeginPush, sharedVars, Goto
  <2>4. ValuesCarried'
    BY <1>1 DEF QueueInv, ValuesCarried, TypeOK, BeginPush, sharedVars, Goto
  <2> QED BY <2>1, <2>2, <2>3, <2>4 DEF QueueInv
<1>2. CASE PushReload(t)
  <2>1. TypeOK'
    BY <1>2, CellOf DEF QueueInv, TypeOK, Length, ValuesCarried, PushReload, sharedVars, Goto, Labels
  <2>2. CellsNumbered' /\ ClaimsHold' /\ ClaimedOnce'
    BY <1>2, HoldersKept DEF QueueInv, TypeOK, Pushing, Popping, PushReload, sharedVars, Goto
  <2>3. ReadsFresh'
    BY <1>2 DEF QueueInv, ReadsFresh, TypeOK, Ready, PushReload, sharedVars, Goto
  <2>4. ValuesCarried'
    BY <1>2 DEF QueueInv, ValuesCarried, TypeOK, PushReload, sharedVars, Goto
  <2> QED BY <2>1, <2>2, <2>3, <2>4 DEF QueueInv
<1>3. CASE PushRetry(t)
  <2>1. TypeOK'
    BY <1>3, CellOf DEF QueueInv, TypeOK, Length, ValuesCarried, PushRetry, sharedVars, Goto, Labels
  <2>2. CellsNumbered' /\ ClaimsHold' /\ ClaimedOnce'
    BY <1>3, HoldersKept DEF QueueInv, TypeOK, Pushing, Popping, PushRetry, sharedVars, Goto
  <2>3. ReadsFresh'
    BY <1>3 DEF QueueInv, ReadsFresh, TypeOK, Ready, PushRetry, sharedVars, Goto
  <2>4. ValuesCarried'
    BY <1>3 DEF QueueInv, ValuesCarried, TypeOK, PushRetry, sharedVars, Goto
  <2> QED BY <2>1, <2>2, <2>3, <2>4 DEF QueueInv
<1>4. CASE BeginPop(t)
  <2>1. TypeOK'
    BY <1>4, CellOf DEF QueueInv, TypeOK, Length, ValuesCarried, BeginPop, sharedVars, Goto, Labels
  <2>2. CellsNumbered' /\ ClaimsHold' /\ ClaimedOnce'
    BY <1>4, HoldersKept DEF QueueInv, TypeOK, Pushing, Popping, BeginPop, sharedVars, Goto
  <2>3. ReadsFresh'
    BY <1>4 DEF QueueInv, ReadsFresh, TypeOK, Ready, BeginPop, sharedVars, Goto
  <2>4. ValuesCarried'
    BY <1>4 DEF QueueInv, ValuesCarried, TypeOK, BeginPop, sharedVars, Goto
  <2> QED BY <2>1, <2>2, <2>3, <2>4 DEF QueueInv
<1>5. CASE PopReload(t)
  <2>1. TypeOK'
    BY <1>5, CellOf DEF QueueInv, TypeOK, Length, ValuesCarried, PopReload, sharedVars, Goto, Labels
  <2>2. CellsNumbered' /\ ClaimsHold' /\ ClaimedOnce'
    BY <1>5, HoldersKept DEF QueueInv, TypeOK, Pushing, Popping, PopReload, sharedVars, Goto
  <2>3. ReadsFresh'
    BY <1>5 DEF QueueInv, ReadsFresh, TypeOK, Ready, PopReload, sharedVars, Goto
  <2>4. ValuesCarried'
    BY <1>5 DEF QueueInv, ValuesCarried, TypeOK, PopReload, sharedVars, Goto
  <2> QED BY <2>1, <2>2, <2>3, <2>4 DEF QueueInv
<1>6. CASE PopRetry(t)
  <2>1. TypeOK'
    BY <1>6, CellOf DEF QueueInv, TypeOK, Length, ValuesCarried, PopRetry, sharedVars, Goto, Labels
  <2>2. CellsNumbered' /\ ClaimsHold' /\ ClaimedOnce'
    BY <1>6, HoldersKept DEF QueueInv, TypeOK, Pushing, Popping, PopRetry, sharedVars, Goto
  <2>3. ReadsFresh'
    BY <1>6 DEF QueueInv, ReadsFresh, TypeOK, Ready, PopRetry, sharedVars, Goto
  <2>4. ValuesCarried'
    BY <1>6 DEF QueueInv, ValuesCarried, TypeOK, PopRetry, sharedVars, Goto
  <2> QED BY <2>1, <2>2, <2>3, <2>4 DEF QueueInv
<1>7. CASE PopTake(t)
  <2>1. TypeOK'
    BY <1>7, CellOf DEF QueueInv, TypeOK, Length, ValuesCarried, PopTake, sharedVars, Goto, Labels
  <2>2. CellsNumbered' /\ ClaimsHold' /\ ClaimedOnce'
    BY <1>7, HoldersKept DEF QueueInv, TypeOK, Pushing, Popping, PopTake, sharedVars, Goto
  <2>3. ReadsFresh'
    BY <1>7 DEF QueueInv, ReadsFresh, TypeOK, Ready, PopTake, sharedVars, Goto
  <2>4. ValuesCarried'
    BY <1>7 DEF QueueInv, ValuesCarried, TypeOK, PopTake, sharedVars, Goto
  <2> QED BY <2>1, <2>2, <2>3, <2>4 DEF QueueInv
<1> QED BY <1>1, <1>2, <1>3, <1>4, <1>5, <1>6, <1>7

\* try_push() reads the sequence of the cell.
LEMMA PushReadKeepsInv ==
  ASSUME QueueInv, NEW t \in Threads, PushRead(t)
  PROVE  QueueInv'
<1>1. sequence[Cell(pos[t])] \in Nat /\ pos[t] \in Nat
  BY CellOf DEF QueueInv, TypeOK
<1>2. /\ pc[t] = "pushRead" /\ UNCHANGED <<enqueuePos, dequeuePos, sequence, data>>
      /\ \/ sequence[Cell(pos[t])] = pos[t] /\ Goto(t, "pushClaim") /\ UNCHANGED <<pos, value>>
         \/ Return(t)
         \/ Goto(t, "pushReload") /\ UNCHANGED <<pos, value>>
  BY <1>1 DEF PushRead, sharedVars
<1>3. TypeOK'
  <2>1. CASE Return(t)
    BY <1>2, <2>1, Returns DEF QueueInv, TypeOK, Length
  <2>2. CASE ~Return(t)
    BY <1>2, <2>2 DEF QueueInv, TypeOK, Length, Goto, Labels
  <2> QED BY <2>1, <2>2
<1>4. CellsNumbered' /\ ClaimsHold' /\ ClaimedOnce'
  BY <1>2, HoldersKept DEF QueueInv, TypeOK, Pushing, Popping, Return, Goto
<1>5. ReadsFresh'
  BY <1>2 DEF QueueInv, ReadsFresh, TypeOK, Ready, Return, Goto
<1>6. ValuesCarried'
  BY <1>2 DEF QueueInv, ValuesCarried, TypeOK, Return, Goto
<1> QED BY <1>3, <1>4, <1>5, <1>6 DEF QueueInv

\* try_pop() reads the sequence of the cell.
LEMMA PopReadKeepsInv ==
  ASSUME QueueInv, NEW t \in Threads, PopRead(t)
  PROVE  QueueInv'
<1>1. sequence[Cell(pos[t])] \in Nat /\ pos[t] \in Nat
  BY CellOf DEF QueueInv, TypeOK
<1>2. /\ pc[t] = "popRead" /\ UNCHANGED <<enqueuePos, dequeuePos, sequence, data>>
      /\ \/ sequence[Cell(pos[t])] = pos[t] + 1 /\ Goto(t, "popClaim") /\ UNCHANGED <<pos, value>>
         \/ Return(t)
         \/ Goto(t, "popReload") /\ UNCHANGED <<pos, value>>
  BY <1>1 DEF PopRead, sharedVars
<1>3. TypeOK'
  <2>1. CASE Return(t)
    BY <1>2, <2>1, Returns DEF QueueInv, TypeOK, Length
  <2>2. CASE ~Return(t)
    BY <1>2, <2>2 DEF QueueInv, TypeOK, Length, Goto, Labels
  <2> QED BY <2>1, <2>2
<1>4. CellsNumbered' /\ ClaimsHold' /\ ClaimedOnce'
  BY <1>2, HoldersKept DEF QueueInv, TypeOK, Pushing, Popping, Return, Goto
<1>5. ReadsFresh'
  BY <1>2 DEF QueueInv, ReadsFresh, TypeOK, Ready, Return, Goto
<1>6. ValuesCarried'
  BY <1>2 DEF QueueInv, ValuesCarried, TypeOK, Return, Goto
<1> QED BY <1>3, <1>4, <1>5, <1>6 DEF QueueInv
\* A producer writes its cell, and no other thread's.
LEMMA PushWriteKeepsInv ==
  ASSUME QueueInv, NEW t \in Threads, PushWrite(t)
  PROVE  QueueInv'
<1>1. TypeOK'
  BY CellOf DEF QueueInv, TypeOK, Length, ValuesCarried, PushWrite, Goto, Labels
<1>2. CellsNumbered' /\ ClaimsHold' /\ ClaimedOnce'
  BY HoldersKept DEF QueueInv, TypeOK, Pushing, Popping, PushWrite, Goto
<1>3. ReadsFresh'
  BY DEF QueueInv, ReadsFresh, TypeOK, Ready, PushWrite, Goto
<1>4. ValuesCarried'
  BY OwnedOnce, CellOf
     DEF QueueInv, ValuesCarried, TypeOK, CellsOwnedOnce, Owns, PushWrite, Goto
<1> QED BY <1>1, <1>2, <1>3, <1>4 DEF QueueInv

\* A push claims a position.  The queue is not full: the cell it found free for
\* this position would be that of dequeuePos, which is claimed.  Nor does a
\* consumer still hold the cell.
LEMMA PushClaimKeepsInv ==
  ASSUME QueueInv, NEW t \in Threads, PushClaim(t)
  PROVE  QueueInv'
<1> USE DEF QueueInv
<1>1. /\ Cells \in Nat /\ Cells >= 2 /\ enqueuePos \in Nat /\ dequeuePos \in Nat
      /\ dequeuePos <= enqueuePos /\ enqueuePos <= dequeuePos + Cells
      /\ pos \in [Threads -> Nat] /\ pos' = pos
  BY Cursors DEF TypeOK, PushClaim
<1>2. /\ pos[t] = enqueuePos /\ sequence[Cell(enqueuePos)] = enqueuePos
      /\ enqueuePos' = enqueuePos + 1 /\ UNCHANGED <<dequeuePos, sequence, data, value>>
      /\ pc' = [pc EXCEPT ![t] = "pushWrite"] /\ pc[t] = "pushClaim"
  BY <1>1 DEF PushClaim, Claims, ReadsFresh, Goto
<1>3. enqueuePos # dequeuePos + Cells
  <2>1. SUFFICES ASSUME enqueuePos = dequeuePos + Cells PROVE FALSE
    OBVIOUS
  <2>2. dequeuePos \in Claimed
    BY <1>1, <2>1 DEF Claimed
  <2>3. sequence[Cell(dequeuePos)] \in {dequeuePos, dequeuePos + 1}
    BY <2>2 DEF CellsNumbered, ClaimsHold, Ready
  <2>4. Cell(enqueuePos) = Cell(dequeuePos)
    BY <1>1, <2>1, NextRound
  <2> QED BY <1>1, <1>2, <2>1, <2>3, <2>4
<1>4. \A u \in Threads : Popping(u) => pos[u] + Cells # enqueuePos
  <2>1. SUFFICES ASSUME NEW u \in Threads, Popping(u), pos[u] + Cells = enqueuePos
                 PROVE  FALSE
    OBVIOUS
  <2>2. sequence[Cell(pos[u])] = pos[u] + 1
    BY <2>1 DEF ClaimsHold, Ready
  <2>3. Cell(enqueuePos) = Cell(pos[u])
    BY <1>1, <2>1, NextRound
  <2> QED BY <1>1, <1>2, <2>1, <2>2, <2>3
<1>5. /\ Claimed' = Claimed \cup {enqueuePos} /\ Free' = Free \ {enqueuePos}
      /\ enqueuePos \notin Claimed
  BY <1>1, <1>2 DEF Claimed, Free
<1>6. /\ ~Pushing(t) /\ ~Popping(t)
      /\ \A u \in Threads : (Pushing(u)' <=> Pushing(u) \/ u = t) /\ (Popping(u)' <=> Popping(u))
  BY <1>2 DEF Pushing, Popping, TypeOK
<1>7. TypeOK'
  BY <1>1, <1>2, <1>3 DEF TypeOK, Length, Labels
<1>8. CellsNumbered'
  BY <1>1, <1>2, <1>5, <1>6 DEF CellsNumbered, Ready
<1>9. ClaimsHold'
  BY <1>1, <1>2, <1>4, <1>5, <1>6 DEF ClaimsHold, Ready
<1>10. ClaimedOnce'
  BY <1>1, <1>2, <1>5, <1>6 DEF ClaimedOnce, ClaimsHold
<1>11. ReadsFresh'
  BY <1>1, <1>2 DEF ReadsFresh, Ready, TypeOK
<1>12. ValuesCarried'
  BY <1>1, <1>2 DEF ValuesCarried, TypeOK
<1> QED BY <1>7, <1>8, <1>9, <1>10, <1>11, <1>12

\* A pop claims a position.  The queue is not empty: the cell of a position that
\* is free, or still in a consumer's hands, does not have this sequence.
LEMMA PopClaimKeepsInv ==
  ASSUME QueueInv, NEW t \in Threads, PopClaim(t)
  PROVE  QueueInv'
<1> USE DEF QueueInv
<1>1. /\ Cells \in Nat /\ Cells >= 2 /\ enqueuePos \in Nat /\ dequeuePos \in Nat
      /\ dequeuePos <= enqueuePos /\ enqueuePos <= dequeuePos + Cells
      /\ pos \in [Threads -> Nat] /\ pos' = pos
  BY Cursors DEF TypeOK, PopClaim
<1>2. /\ pos[t] = dequeuePos /\ sequence[Cell(dequeuePos)] = dequeuePos + 1
      /\ dequeuePos' = dequeuePos + 1 /\ UNCHANGED <<enqueuePos, sequence, data, value>>
      /\ pc' = [pc EXCEPT ![t] = "popTake"] /\ pc[t] = "popClaim"
  BY <1>1 DEF PopClaim, Claims, ReadsFresh, Goto, Ready
<1>3. enqueuePos # dequeuePos
  <2>1. SUFFICES ASSUME enqueuePos = dequeuePos PROVE FALSE
    OBVIOUS
  <2>2. dequeuePos \in Free
    BY <1>1, <2>1 DEF Free
  <2>3. PICK u \in Threads : Popping(u) /\ pos[u] + Cells = dequeuePos
    BY <1>1, <1>2, <2>2 DEF CellsNumbered
  <2>4. sequence[Cell(pos[u])] = pos[u] + 1
    BY <2>3 DEF ClaimsHold, Ready
  <2>5. Cell(dequeuePos) = Cell(pos[u])
    BY <1>1, <2>3, NextRound
  <2> QED BY <1>1, <1>2, <2>3, <2>4, <2>5
<1>4. /\ Claimed' = Claimed \ {dequeuePos} /\ Free' = Free \cup {dequeuePos + Cells}
      /\ dequeuePos + Cells \notin Free
  BY <1>1, <1>2, <1>3 DEF Claimed, Free
<1>5. \A u \in Threads : Pushing(u) => pos[u] # dequeuePos
  BY <1>1, <1>2 DEF ClaimsHold
<1>6. /\ ~Pushing(t) /\ ~Popping(t)
      /\ \A u \in Threads : (Popping(u)' <=> Popping(u) \/ u = t) /\ (Pushing(u)' <=> Pushing(u))
  BY <1>2 DEF Pushing, Popping, TypeOK
<1>7. TypeOK'
  BY <1>1, <1>2, <1>3 DEF TypeOK, Length, Labels
<1>8. CellsNumbered'
  BY <1>1, <1>2, <1>4, <1>6 DEF CellsNumbered, Ready
<1>9. ClaimsHold'
  BY <1>1, <1>2, <1>4, <1>5, <1>6 DEF ClaimsHold, Ready
<1>10. ClaimedOnce'
  BY <1>1, <1>2, <1>4, <1>6 DEF ClaimedOnce, ClaimsHold
<1>11. ReadsFresh'
  BY <1>1, <1>2 DEF ReadsFresh, Ready, TypeOK
<1>12. ValuesCarried'
  BY <1>1, <1>2 DEF ValuesCarried, TypeOK
<1> QED BY <1>7, <1>8, <1>9, <1>10, <1>11, <1>12

\* A producer publishes: the sequence of its cell changes and no other.
LEMMA PushPublishKeepsInv ==
  ASSUME QueueInv, NEW t \in Threads, PushPublish(t)
  PROVE  QueueInv'
<1> USE DEF QueueInv
<1> DEFINE p == pos[t]
<1>1. pos \in [Threads -> Nat] /\ p \in Nat /\ p + 1 \in Nat
  BY DEF TypeOK
<1>2. /\ sequence' = [sequence EXCEPT ![Cell(p)] = p + 1]
      /\ UNCHANGED <<enqueuePos, dequeuePos, data>> /\ Return(t) /\ pc[t] = "pushPublish"
  BY DEF PushPublish
<1>3. Pushing(t) /\ ~Popping(t) /\ p \in Claimed /\ sequence[Cell(p)] = p
  BY <1>2 DEF Pushing, Popping, ClaimsHold
<1>4. UNCHANGED <<Claimed, Free>>
  BY <1>2 DEF Claimed, Free
<1>5. sequence'[Cell(p)] = p + 1 /\ \A q \in Round \ {p} : sequence'[Cell(q)] = sequence[Cell(q)]
  BY <1>2, <1>3, Cursors, RestKept
<1>6. \A u \in Threads : Popping(u) => sequence'[Cell(pos[u])] = sequence[Cell(pos[u])]
  BY <1>1, <1>3, <1>5, Cursors, NextRound DEF ClaimsHold
<1>7. \A u \in Threads : /\ Pushing(u)' <=> Pushing(u) /\ u # t
                         /\ Popping(u)' <=> Popping(u)
                         /\ u # t => pos'[u] = pos[u]
  BY <1>1, <1>2, <1>3 DEF Pushing, Popping, TypeOK, Return, Goto
<1>8. TypeOK'
  <2>1. sequence' \in [0..(Cells - 1) -> Nat]
    BY <1>1, <1>2 DEF TypeOK
  <2> QED BY <1>2, <2>1, Returns DEF TypeOK, Length
<1>9. CellsNumbered'
  BY <1>1, <1>2, <1>3, <1>4, <1>5, <1>7, Cursors DEF CellsNumbered, Ready
<1>10. ClaimsHold'
  BY <1>1, <1>3, <1>4, <1>5, <1>6, <1>7, Cursors DEF ClaimsHold, Ready, ClaimedOnce
<1>11. ClaimedOnce'
  BY <1>1, <1>3, <1>7 DEF ClaimedOnce
<1>12. ReadsFresh'
  <2>1. pc'[t] = "idle" /\ \A u \in Threads \ {t} : pc'[u] = pc[u] /\ pos'[u] = pos[u]
    BY <1>2, Returns
  <2>2. sequence[Cell(enqueuePos)] = enqueuePos => sequence'[Cell(enqueuePos)] = enqueuePos
    <3>1. ASSUME sequence[Cell(enqueuePos)] = enqueuePos PROVE Cell(p) # Cell(enqueuePos)
      BY <1>1, <1>3, <3>1, Cursors DEF Claimed
    <3> QED BY <1>1, <1>2, <3>1, CellOf DEF TypeOK
  <2>3. sequence[Cell(dequeuePos)] = dequeuePos + 1 => sequence'[Cell(dequeuePos)] = dequeuePos + 1
    <3>1. dequeuePos \in Round
      BY Cursors DEF Round
    <3> QED BY <1>1, <1>3, <1>5, <3>1
  <2> QED BY <1>2, <2>1, <2>2, <2>3 DEF ReadsFresh, Ready
<1>13. ValuesCarried'
  BY <1>1, <1>2 DEF ValuesCarried, TypeOK, Return, Goto
<1> QED BY <1>8, <1>9, <1>10, <1>11, <1>12, <1>13

\* A consumer frees the cell for the position a round later, and no other.
LEMMA PopFreeKeepsInv ==
  ASSUME QueueInv, NEW t \in Threads, PopFree(t)
  PROVE  QueueInv'
<1> USE DEF QueueInv
<1> DEFINE p == pos[t] + Cells
<1>1. pos \in [Threads -> Nat] /\ p \in Nat
  BY Cursors DEF TypeOK
<1>2. /\ sequence' = [sequence EXCEPT ![Cell(p)] = p]
      /\ UNCHANGED <<enqueuePos, dequeuePos, data>> /\ Return(t) /\ pc[t] = "popFree"
  BY <1>1, NextRound DEF PopFree
<1>3. ~Pushing(t) /\ Popping(t) /\ p \in Free /\ sequence[Cell(p)] = pos[t] + 1
  BY <1>1, <1>2, NextRound DEF Pushing, Popping, ClaimsHold, Ready
<1>4. UNCHANGED <<Claimed, Free>>
  BY <1>2 DEF Claimed, Free
<1>5. sequence'[Cell(p)] = p /\ \A q \in Round \ {p} : sequence'[Cell(q)] = sequence[Cell(q)]
  BY <1>2, <1>3, Cursors, RestKept
<1>6. \A u \in Threads : Popping(u) /\ u # t => sequence'[Cell(pos[u])] = sequence[Cell(pos[u])]
  <2>1. SUFFICES ASSUME NEW u \in Threads, Popping(u), u # t
                 PROVE  sequence'[Cell(pos[u])] = sequence[Cell(pos[u])]
    OBVIOUS
  <2>2. pos[u] + Cells \in Round /\ pos[u] # pos[t]
    BY <1>3, <2>1, Cursors DEF ClaimsHold, ClaimedOnce
  <2>3. Cell(pos[u] + Cells) = Cell(pos[u])
    BY <1>1, NextRound
  <2> QED BY <1>1, <1>5, <2>2, <2>3, Cursors
<1>7. \A u \in Threads : /\ Popping(u)' <=> Popping(u) /\ u # t
                         /\ Pushing(u)' <=> Pushing(u)
                         /\ u # t => pos'[u] = pos[u]
  BY <1>1, <1>2, <1>3 DEF Pushing, Popping, TypeOK, Return, Goto
<1>8. TypeOK'
  <2>1. sequence' \in [0..(Cells - 1) -> Nat]
    BY <1>1, <1>2 DEF TypeOK
  <2> QED BY <1>2, <2>1, Returns DEF TypeOK, Length
<1>9. CellsNumbered'
  BY <1>1, <1>2, <1>3, <1>4, <1>5, <1>7, Cursors DEF CellsNumbered, Ready
<1>10. ClaimsHold'
  BY <1>1, <1>3, <1>4, <1>5, <1>6, <1>7, Cursors DEF ClaimsHold, Ready, ClaimedOnce
<1>11. ClaimedOnce'
  BY <1>1, <1>3, <1>7 DEF ClaimedOnce
<1>12. ReadsFresh'
  <2>1. pc'[t] = "idle" /\ \A u \in Threads \ {t} : pc'[u] = pc[u] /\ pos'[u] = pos[u]
    BY <1>2, Returns
  <2>2. sequence[Cell(enqueuePos)] = enqueuePos => sequence'[Cell(enqueuePos)] = enqueuePos
    <3>1. ASSUME sequence[Cell(enqueuePos)] = enqueuePos PROVE Cell(p) # Cell(enqueuePos)
      BY <1>1, <1>3, <3>1, Cursors, CellsApart DEF Free
    <3> QED BY <1>1, <1>2, <3>1, CellOf DEF TypeOK
  <2>3. sequence[Cell(dequeuePos)] = dequeuePos + 1 => sequence'[Cell(dequeuePos)] = dequeuePos + 1
    <3>1. dequeuePos \in Round
      BY Cursors DEF Round
    <3> QED BY <1>1, <1>3, <1>5, <3>1, Cursors
  <2> QED BY <1>2, <2>1, <2>2, <2>3 DEF ReadsFresh, Ready
<1>13. ValuesCarried'
  BY <1>1, <1>2 DEF ValuesCarried, TypeOK, Return, Goto
<1> QED BY <1>8, <1>9, <1>10, <1>11, <1>12, <1>13

\* Every step keeps the invariant.
LEMMA NextKeepsInv == QueueInv /\ [Next]_vars => QueueInv'
<1> SUFFICES ASSUME QueueInv, [Next]_vars PROVE QueueInv'
  OBVIOUS
<1>1. ASSUME NEW t \in Threads, BeginPush(t) \/ BeginPop(t) \/ PushStep(t) \/ PopStep(t)
      PROVE  QueueInv'
  BY <1>1, MovesKeepInv, PushReadKeepsInv, PopReadKeepsInv, PushWriteKeepsInv,
     PushClaimKeepsInv, PopClaimKeepsInv, PushPublishKeepsInv, PopFreeKeepsInv
     DEF PushStep, PopStep
<1>2. CASE UNCHANGED vars
  BY <1>2 DEF vars, sharedVars, QueueInv, TypeOK, Length, CellsNumbered, ClaimsHold,
              ClaimedOnce, ReadsFresh, ValuesCarried, Pushing, Popping, Claimed, Free, Ready
<1> QED BY <1>1, <1>2 DEF Next

\* The invariant holds in every reachable state.
LEMMA QueueInvHolds == Spec => []QueueInv
BY InitEstablishesInv, NextKeepsInv, PTL DEF Spec

\* For any capacity of at least two and any number of threads, no two threads
\* hold one cell between try_push's or try_pop's successful compare-exchange and
\* the store that publishes or frees it.
THEOREM CellsHaveOneOwner == Spec => []CellsOwnedOnce
<1>1. QueueInv => CellsOwnedOnce
  BY OwnedOnce
<1> QED BY <1>1, QueueInvHolds, PTL

\* Types, and with them the bound on the elements: the cursors of the ring are
\* never more than a round apart, so a full queue refuses a push and an empty one
\* a pop, whatever was read before the compare-exchange.
THEOREM QueueTypeCorrect == Spec => []TypeOK
<1>1. QueueInv => TypeOK
  BY DEF QueueInv
<1> QED BY <1>1, QueueInvHolds, PTL

-----------------------------------------------------------------------------
(***************************************************************************)
(* The refinement: the queue is what lies between the cursors, and a       *)
(* consumer has got what was in the cell it claimed.                       *)
(***************************************************************************)

Queue == [i \in 1..Length |-> QueueEntry(dequeuePos + i - 1)]
Got == [t \in Threads |-> CASE pc[t] = "popTake" -> data[Cell(pos[t])]
                            [] pc[t] = "popFree" -> value[t]
                            [] OTHER -> None]

\* The length of the queue and the positions of its elements.
LEMMA Elements ==
  ASSUME QueueInv
  PROVE  /\ Length \in Nat /\ Length <= Cells
         /\ dequeuePos \in Nat /\ enqueuePos = dequeuePos + Length
         /\ \A i \in 1..Length : dequeuePos + i - 1 \in Claimed
BY QueueAssumption DEF Length, QueueInv, TypeOK, Claimed, QueueAssumption

\* A position in a producer's hands is that of one producer.
LEMMA ProducerIs ==
  ASSUME ClaimedOnce, NEW t \in Threads, Pushing(t)
  PROVE  Producer(pos[t]) = t
BY DEF Producer, ClaimedOnce, Pushing

\* So it is after the step.
LEMMA ProducerWillBe ==
  ASSUME ClaimedOnce', NEW p, NEW t \in Threads, Pushing(t)', pos'[t] = p
  PROVE  Producer(p)' = t
BY DEF Producer, ClaimedOnce, Pushing

\* A producer's entry has its value, and is not ready.
LEMMA PushingEntry ==
  ASSUME QueueInv, NEW t \in Threads, Pushing(t)
  PROVE  pos[t] \in Claimed /\ QueueEntry(pos[t]) = [value |-> value[t], ready |-> FALSE]
<1>1. pos[t] \in Claimed /\ sequence[Cell(pos[t])] = pos[t] /\ pos[t] \in Nat
  BY DEF QueueInv, ClaimsHold, TypeOK
<1>2. Producer(pos[t]) = t
  BY ProducerIs DEF QueueInv
<1>3. Ready(pos[t]) = FALSE
  BY <1>1 DEF Ready
<1> QED BY <1>1, <1>2, <1>3 DEF QueueEntry

\* So it is after the step that claims the position.
LEMMA PushedEntry ==
  ASSUME QueueInv', NEW p, NEW t \in Threads, Pushing(t)', pos'[t] = p
  PROVE  QueueEntry(p)' = [value |-> value'[t], ready |-> FALSE]
<1>1. sequence'[Cell(p)] = p /\ p \in Nat
  BY DEF QueueInv, ClaimsHold, TypeOK
<1>2. Producer(p)' = t
  BY ProducerWillBe DEF QueueInv
<1>3. Ready(p)' = FALSE
  BY <1>1 DEF Ready
<1> QED BY <1>2, <1>3 DEF QueueEntry

\* A published entry has what its cell holds.
LEMMA ReadyEntry ==
  ASSUME NEW p, Ready(p)
  PROVE  QueueEntry(p) = [value |-> data[Cell(p)], ready |-> TRUE]
<1>1. Ready(p) = TRUE
  BY DEF Ready
<1> QED BY <1>1 DEF QueueEntry

\* So it has after the step that publishes it.
LEMMA PublishedEntry ==
  ASSUME NEW p, Ready(p)'
  PROVE  QueueEntry(p)' = [value |-> data'[Cell(p)], ready |-> TRUE]
<1>1. Ready(p)' = TRUE
  BY DEF Ready
<1> QED BY <1>1 DEF QueueEntry

\* A step that leaves the cell of an element and its producer alone leaves the
\* entry alone.
LEMMA EntryKept ==
  ASSUME QueueInv, QueueInv', NEW p \in Claimed,
         sequence'[Cell(p)] = sequence[Cell(p)],
         Ready(p) => data'[Cell(p)] = data[Cell(p)],
         \A u \in Threads : Pushing(u) /\ pos[u] = p =>
            Pushing(u)' /\ pos'[u] = p /\ value'[u] = value[u]
  PROVE  QueueEntry(p)' = QueueEntry(p)
<1>1. CASE Ready(p)
  BY <1>1 DEF QueueEntry, Ready
<1>2. CASE ~Ready(p)
  <2>1. PICK u \in Threads : Pushing(u) /\ pos[u] = p
    BY <1>2 DEF QueueInv, CellsNumbered
  <2>2. Producer(p) = u
    BY <2>1, ProducerIs DEF QueueInv
  <2>3. Producer(p)' = u
    BY <2>1, ProducerWillBe DEF QueueInv
  <2> QED BY <1>2, <2>1, <2>2, <2>3 DEF QueueEntry, Ready
<1> QED BY <1>1, <1>2

\* The queue is kept by a step that moves no cursor and changes no entry.
LEMMA QueueKept ==
  ASSUME QueueInv, UNCHANGED <<enqueuePos, dequeuePos>>,
         \A p \in Claimed : QueueEntry(p)' = QueueEntry(p)
  PROVE  Queue' = Queue
<1>1. Length' = Length
  BY DEF Length
<1> QED BY <1>1, Elements DEF Queue

\* The steps between a call's beginning and its claim, and a call that is refused,
\* leave queue and consumers alone.
LEMMA MovesStutter ==
  ASSUME QueueInv, QueueInv', NEW t \in Threads, UNCHANGED sharedVars,
         ~Owns(t), ~Owns(t)',
         \A u \in Threads \ {t} : pc'[u] = pc[u] /\ pos'[u] = pos[u] /\ value'[u] = value[u]
  PROVE  UNCHANGED <<Queue, Got>>
<1>1. \A p \in Claimed : QueueEntry(p)' = QueueEntry(p)
  BY EntryKept DEF sharedVars, Pushing, Owns
<1>2. Queue' = Queue
  BY <1>1, QueueKept DEF sharedVars
<1>3. Got' = Got
  BY DEF Got, sharedVars, Owns
<1> QED BY <1>2, <1>3

\* The queue is empty at first.
LEMMA InitMaps == Init => Fifo!Init
<1> SUFFICES ASSUME Init PROVE Fifo!Init
  OBVIOUS
<1>1. Length = 0
  BY DEF Init, Length
<1>2. Queue = <<>>
  BY <1>1 DEF Queue
<1>3. Got = [t \in Threads |-> None]
  BY DEF Init, Got
<1> QED BY <1>2, <1>3 DEF Fifo!Init, Queue, Got

\* The claim of a push puts its value at the back, not yet ready.
LEMMA PushClaimMaps ==
  ASSUME QueueInv, QueueInv', NEW t \in Threads, PushClaim(t)
  PROVE  value[t] \in Values /\ Fifo!Claim(value[t])
<1>1. /\ enqueuePos' = pos[t] + 1 /\ pos[t] = enqueuePos
      /\ UNCHANGED <<dequeuePos, sequence, data, value, pos>>
      /\ pc' = [pc EXCEPT ![t] = "pushWrite"] /\ pc[t] = "pushClaim"
  BY DEF PushClaim, Claims, Goto
<1>2. value[t] \in Values /\ pc \in [Threads -> Labels]
  BY <1>1 DEF QueueInv, ValuesCarried, TypeOK
<1>3. \A p \in Claimed : QueueEntry(p)' = QueueEntry(p)
  BY <1>1, <1>2, EntryKept DEF Pushing
<1>4. ASSUME NEW p, p = enqueuePos
      PROVE  QueueEntry(p)' = [value |-> value[t], ready |-> FALSE]
  <2>1. Pushing(t)' /\ pos'[t] = p
    BY <1>1, <1>2, <1>4 DEF Pushing
  <2> QED BY <1>1, <2>1, PushedEntry
<1>5. Length' = Length + 1 /\ Length < Cells
  <2>1. Length' = Length + 1
    BY <1>1, Elements DEF Length
  <2>2. Length' \in 0..Cells
    BY DEF QueueInv, TypeOK
  <2> QED BY <2>1, <2>2, Elements, Cursors DEF QueueInv
<1>6. PICK n \in Nat : n = Length
  BY Elements
<1>7. Queue' = Append(Queue, [value |-> value[t], ready |-> FALSE])
  <2> DEFINE F(i) == QueueEntry(dequeuePos + i - 1)
             G(i) == QueueEntry(dequeuePos + i - 1)'
  <2>1. \A i \in 1..n : F(i) = G(i)
    BY <1>1, <1>3, <1>6, Elements
  <2>2. G(n + 1) = [value |-> value[t], ready |-> FALSE]
    <3>1. PICK q : q = enqueuePos
      OBVIOUS
    <3>2. q = dequeuePos' + (n + 1) - 1
      BY <1>1, <1>6, <3>1, Elements
    <3> QED BY <1>4, <3>1, <3>2
  <2>3. Queue = [i \in 1..n |-> F(i)] /\ Queue' = [i \in 1..(n + 1) |-> G(i)]
    BY <1>5, <1>6 DEF Queue
  <2> HIDE DEF F, G
  <2> QED BY <2>1, <2>2, <2>3
<1>8. Len(Queue) = Length
  BY Elements DEF Queue
<1>9. Got' = Got
  BY <1>1, <1>2 DEF Got
<1> QED BY <1>2, <1>5, <1>7, <1>8, <1>9 DEF Fifo!Claim, Fifo!Entry, Queue, Got

\* The claim of a pop takes the element in front, which is published, and with it
\* the value that its cell holds.
LEMMA PopClaimMaps ==
  ASSUME QueueInv, QueueInv', NEW t \in Threads, PopClaim(t)
  PROVE  Fifo!Take(t)
<1>1. /\ dequeuePos' = dequeuePos + 1 /\ pos[t] = dequeuePos /\ Ready(dequeuePos)
      /\ UNCHANGED <<enqueuePos, sequence, data, value, pos>>
      /\ pc' = [pc EXCEPT ![t] = "popTake"] /\ pc[t] = "popClaim"
  BY DEF PopClaim, Claims, Goto, QueueInv, ReadsFresh
<1>2. pc \in [Threads -> Labels]
  BY DEF QueueInv, TypeOK
<1>3. \A p \in Claimed : QueueEntry(p)' = QueueEntry(p)
  BY <1>1, <1>2, EntryKept DEF Pushing
<1>4. QueueEntry(dequeuePos) = [value |-> data[Cell(dequeuePos)], ready |-> TRUE]
  BY <1>1, ReadyEntry
<1>5. Length' = Length - 1 /\ Length > 0
  BY <1>1, Elements DEF Length, QueueInv, TypeOK
<1>6. PICK n \in Nat : n = Length
  BY Elements
<1>7. Queue' = Tail(Queue) /\ Head(Queue) = QueueEntry(dequeuePos) /\ Queue # <<>>
  <2> DEFINE F(i) == QueueEntry(dequeuePos + i - 1)
             G(i) == QueueEntry(dequeuePos + i - 1)'
  <2>1. \A i \in 1..(n - 1) : F(i + 1) = G(i)
    <3>1. SUFFICES ASSUME NEW i \in 1..(n - 1) PROVE QueueEntry(dequeuePos + i) = G(i)
      BY Elements
    <3>2. dequeuePos + i \in Claimed
      BY <1>6, Elements DEF Claimed
    <3>3. PICK q : q = dequeuePos + i
      OBVIOUS
    <3>4. q = dequeuePos' + i - 1
      BY <1>1, <3>3, Elements
    <3> QED BY <1>3, <3>2, <3>3, <3>4
  <2>2. F(1) = QueueEntry(dequeuePos)
    BY Elements
  <2>3. Queue = [i \in 1..n |-> F(i)] /\ Queue' = [i \in 1..(n - 1) |-> G(i)]
    BY <1>5, <1>6 DEF Queue
  <2> HIDE DEF F, G
  <2> QED BY <1>5, <1>6, <2>1, <2>2, <2>3
<1>8. Got' = [Got EXCEPT ![t] = data[Cell(dequeuePos)]]
  BY <1>1, <1>2 DEF Got
<1>9. Head(Queue).ready /\ Head(Queue).value = data[Cell(dequeuePos)]
  BY <1>4, <1>7
<1> QED BY <1>7, <1>8, <1>9 DEF Fifo!Take, Queue, Got

\* The store of the sequence publishes the element the producer claimed.
LEMMA PushPublishMaps ==
  ASSUME QueueInv, QueueInv', NEW t \in Threads, PushPublish(t)
  PROVE  \E i \in DOMAIN Queue : Fifo!Publish(i)
<1>1. /\ sequence' = [sequence EXCEPT ![Cell(pos[t])] = pos[t] + 1]
      /\ UNCHANGED <<enqueuePos, dequeuePos, data>>
      /\ Return(t) /\ pc[t] = "pushPublish" /\ Pushing(t) /\ TypeOK
  BY DEF PushPublish, Pushing, QueueInv
<1>2. PICK p \in Claimed :
        p = pos[t] /\ QueueEntry(p) = [value |-> value[t], ready |-> FALSE]
  BY <1>1, PushingEntry
<1>3. sequence'[Cell(p)] = p + 1 /\ \A q \in Claimed \ {p} : sequence'[Cell(q)] = sequence[Cell(q)]
  BY <1>1, <1>2, Cursors, RestKept
<1>4. \A q \in Claimed \ {p} : QueueEntry(q)' = QueueEntry(q)
  BY <1>1, <1>2, <1>3, Returns, EntryKept DEF Pushing
<1>5. QueueEntry(p)' = [value |-> value[t], ready |-> TRUE]
  BY <1>1, <1>2, <1>3, PublishedEntry DEF Ready, QueueInv, ValuesCarried
<1>6. PICK n \in Nat : n = Length
  BY Elements
<1>7. PICK i \in 1..n : p = dequeuePos + i - 1
  <2>1. p - dequeuePos + 1 \in 1..n
    BY <1>6, Elements DEF Claimed
  <2>2. p = dequeuePos + (p - dequeuePos + 1) - 1
    BY Elements DEF Claimed
  <2> QED BY <2>1, <2>2
<1>8. Length' = Length
  BY <1>1 DEF Length
<1>9. /\ i \in DOMAIN Queue /\ ~Queue[i].ready
      /\ Queue' = [Queue EXCEPT ![i] = [value |-> Queue[i].value, ready |-> TRUE]]
  <2> DEFINE F(j) == QueueEntry(dequeuePos + j - 1)
             G(j) == QueueEntry(dequeuePos + j - 1)'
  <2>1. \A j \in 1..n : j # i => F(j) = G(j)
    BY <1>1, <1>4, <1>6, <1>7, Elements
  <2>2. F(i) = [value |-> value[t], ready |-> FALSE]
    BY <1>2, <1>7
  <2>3. G(i) = [value |-> value[t], ready |-> TRUE]
    BY <1>1, <1>5, <1>7
  <2>4. Queue = [j \in 1..n |-> F(j)] /\ Queue' = [j \in 1..n |-> G(j)]
    BY <1>6, <1>8 DEF Queue
  <2> HIDE DEF F, G
  <2>5. F(i).value = value[t] /\ ~F(i).ready
    BY <2>2
  <2>6. Queue[i] = F(i) /\ DOMAIN Queue = 1..n
    BY <2>4
  <2> QED BY <2>1, <2>3, <2>4, <2>5, <2>6
<1>10. Got' = Got
  BY <1>1, Returns DEF Got, TypeOK
<1> QED BY <1>9, <1>10 DEF Fifo!Publish, Fifo!Entry, Queue, Got

\* A producer writes into a cell that nobody can see yet.
LEMMA PushWriteStutters ==
  ASSUME QueueInv, QueueInv', NEW t \in Threads, PushWrite(t)
  PROVE  UNCHANGED <<Queue, Got>>
<1>1. /\ data' = [data EXCEPT ![Cell(pos[t])] = value[t]]
      /\ UNCHANGED <<enqueuePos, dequeuePos, sequence, pos, value>>
      /\ pc' = [pc EXCEPT ![t] = "pushPublish"] /\ pc[t] = "pushWrite"
      /\ Pushing(t) /\ TypeOK
  BY DEF PushWrite, Goto, Pushing, QueueInv
<1>2. \A p \in Claimed : Ready(p) => data'[Cell(p)] = data[Cell(p)]
  <2>1. pos[t] \in Nat /\ sequence[Cell(pos[t])] = pos[t] /\ pos[t] \in Claimed
    BY <1>1 DEF QueueInv, ClaimsHold, TypeOK
  <2>2. SUFFICES ASSUME NEW p \in Claimed, Ready(p), Cell(p) = Cell(pos[t]) PROVE FALSE
    BY <1>1, CellOf DEF TypeOK
  <2>3. p \in Nat /\ p - pos[t] < Cells /\ pos[t] - p < Cells
    BY <1>1, <2>1, Cursors DEF Claimed
  <2>4. p = pos[t]
    BY <2>1, <2>2, <2>3, CellsApart
  <2> QED BY <2>1, <2>2, <2>4 DEF Ready
<1>3. \A p \in Claimed : QueueEntry(p)' = QueueEntry(p)
  BY <1>1, <1>2, EntryKept DEF Pushing, TypeOK
<1>4. Queue' = Queue
  BY <1>1, <1>3, QueueKept
<1>5. \A u \in Threads : pc[u] = "popTake" => data'[Cell(pos[u])] = data[Cell(pos[u])]
  BY <1>1, OwnedOnce, CellOf DEF CellsOwnedOnce, Owns, TypeOK
<1>6. Got' = Got
  BY <1>1, <1>5 DEF Got, TypeOK
<1> QED BY <1>4, <1>6

\* A consumer copies the value it has already got.
LEMMA PopTakeStutters ==
  ASSUME QueueInv, QueueInv', NEW t \in Threads, PopTake(t)
  PROVE  UNCHANGED <<Queue, Got>>
<1>1. /\ value' = [value EXCEPT ![t] = data[Cell(pos[t])]] /\ UNCHANGED <<sharedVars, pos>>
      /\ pc' = [pc EXCEPT ![t] = "popFree"] /\ pc[t] = "popTake" /\ TypeOK
  BY DEF PopTake, Goto, QueueInv
<1>2. \A p \in Claimed : QueueEntry(p)' = QueueEntry(p)
  BY <1>1, EntryKept DEF Pushing, TypeOK, sharedVars
<1>3. Queue' = Queue
  BY <1>1, <1>2, QueueKept DEF sharedVars
<1>4. Got' = Got
  BY <1>1 DEF Got, TypeOK, sharedVars
<1> QED BY <1>3, <1>4

\* A consumer frees a cell that belongs to no element, and is done.
LEMMA PopFreeMaps ==
  ASSUME QueueInv, QueueInv', NEW t \in Threads, PopFree(t)
  PROVE  Fifo!Forget(t)
<1>1. /\ sequence' = [sequence EXCEPT ![Cell(pos[t])] = pos[t] + Cells]
      /\ UNCHANGED <<enqueuePos, dequeuePos, data>>
      /\ Return(t) /\ pc[t] = "popFree" /\ TypeOK /\ pos[t] \in Nat
  BY DEF PopFree, QueueInv, TypeOK
<1>2. PICK p \in Free : p = pos[t] + Cells
  BY <1>1 DEF QueueInv, ClaimsHold, Popping
<1>3. \A q \in Claimed : sequence'[Cell(q)] = sequence[Cell(q)]
  <2>1. sequence' = [sequence EXCEPT ![Cell(p)] = p]
    BY <1>1, <1>2, NextRound
  <2> QED BY <1>1, <2>1, Cursors, RestKept
<1>4. \A q \in Claimed : QueueEntry(q)' = QueueEntry(q)
  BY <1>1, <1>3, Returns, EntryKept DEF Pushing
<1>5. Queue' = Queue
  BY <1>1, <1>4, QueueKept
<1>6. Got' = [Got EXCEPT ![t] = None]
  BY <1>1, Returns DEF Got, TypeOK
<1> QED BY <1>5, <1>6 DEF Fifo!Forget, Queue, Got

\* Every step of the ring is a step of the FIFO, or none.
LEMMA StepMaps ==
  ASSUME QueueInv, QueueInv', [Next]_vars
  PROVE  [Fifo!Next]_<<Queue, Got>>
<1>1. ASSUME NEW t \in Threads,
             \/ BeginPush(t) \/ PushReload(t) \/ PushRetry(t) \/ PushRead(t)
             \/ BeginPop(t) \/ PopReload(t) \/ PopRetry(t) \/ PopRead(t)
      PROVE  UNCHANGED <<Queue, Got>>
  <2>1. UNCHANGED sharedVars /\ ~Owns(t)
    BY <1>1 DEF BeginPush, PushReload, PushRetry, PushRead, BeginPop, PopReload,
                PopRetry, PopRead, Owns
  <2>2. /\ ~Owns(t)'
        /\ \A u \in Threads \ {t} : pc'[u] = pc[u] /\ pos'[u] = pos[u] /\ value'[u] = value[u]
    BY <1>1 DEF BeginPush, PushReload, PushRetry, PushRead, BeginPop, PopReload,
                PopRetry, PopRead, Owns, Goto, Return, QueueInv, TypeOK
  <2> QED BY <2>1, <2>2, MovesStutter
<1>2. ASSUME NEW t \in Threads, PushClaim(t) \/ PushPublish(t)
      PROVE  Fifo!Next
  BY <1>2, PushClaimMaps, PushPublishMaps DEF Fifo!Next, Queue
<1>3. ASSUME NEW t \in Threads, PopClaim(t) \/ PopFree(t)
      PROVE  Fifo!Next
  BY <1>3, PopClaimMaps, PopFreeMaps DEF Fifo!Next
<1>4. ASSUME NEW t \in Threads, PushWrite(t) \/ PopTake(t)
      PROVE  UNCHANGED <<Queue, Got>>
  BY <1>4, PushWriteStutters, PopTakeStutters
<1>5. CASE UNCHANGED vars
  BY <1>5 DEF vars, sharedVars, Queue, Got, Length, QueueEntry, Ready, Producer
<1> QED BY <1>1, <1>2, <1>3, <1>4, <1>5 DEF Next, PushStep, PopStep

\* For any capacity and any number of threads the ring under the slow pool is a
\* bounded FIFO: every element leaves once, in the order the places were claimed,
\* with the value that was pushed.
THEOREM QueueIsFifo == Spec => ImplementsFifo
<1>1. Init => Fifo!Init
  BY InitMaps
<1>2. QueueInv /\ QueueInv' /\ [Next]_vars => [Fifo!Next]_<<Queue, Got>>
  BY StepMaps
<1> QED BY <1>1, <1>2, QueueInvHolds, PTL DEF Spec, ImplementsFifo, Fifo!Spec, Queue, Got

=============================================================================
