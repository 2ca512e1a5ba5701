----------------------------- MODULE MpmcQueue -----------------------------
(***************************************************************************)
(* The bounded lock-free queue under the slow pool: an array of cells with *)
(* a sequence number each.  A producer claims a position with a compare-   *)
(* exchange, writes the cell and publishes its sequence; a consumer claims *)
(* a position, reads the cell and frees it for the next round.             *)
(*                                                                         *)
(* Positions only grow.  Their wrap after 2^64 operations is not modelled. *)
(***************************************************************************)
EXTENDS Integers, Sequences

CONSTANTS
  Threads, Values,
  Cells,        \* capacity, a power of two of at least 2
  MaxPos,       \* bound: no call to try_push() starts from this position on
  None

ASSUME QueueAssumption ==
  /\ Cells \in Nat /\ Cells >= 2
  /\ MaxPos \in Nat
  /\ None \notin Values

VARIABLES
  enqueuePos, dequeuePos,
  sequence, data,      \* per cell
  pc, pos, value       \* per thread: where it is, its position, its argument or result

sharedVars == <<enqueuePos, dequeuePos, sequence, data>>
vars == <<sharedVars, pc, pos, value>>

Cell(p) == p % Cells
Goto(t, label) == pc' = [pc EXCEPT ![t] = label]

(***************************************************************************)
(* try_push()                                                              *)
(***************************************************************************)
BeginPush(t) ==
  /\ pc[t] = "idle" /\ enqueuePos < MaxPos
  /\ \E v \in Values : value' = [value EXCEPT ![t] = v]
  /\ pos' = [pos EXCEPT ![t] = enqueuePos]
  /\ Goto(t, "pushRead")
  /\ UNCHANGED sharedVars

\* A call returns: its locals are gone.
Return(t) ==
  /\ value' = [value EXCEPT ![t] = None]
  /\ pos' = [pos EXCEPT ![t] = 0]
  /\ Goto(t, "idle")

\* The cell's sequence says: free for this position, full, or taken by another.
PushRead(t) ==
  /\ pc[t] = "pushRead"
  /\ LET diff == sequence[Cell(pos[t])] - pos[t]
     IN  \/ diff = 0 /\ Goto(t, "pushClaim") /\ UNCHANGED <<pos, value>>
         \/ diff < 0 /\ Return(t)
         \/ diff > 0 /\ Goto(t, "pushReload") /\ UNCHANGED <<pos, value>>
  /\ UNCHANGED sharedVars

PushReload(t) ==
  /\ pc[t] = "pushReload"
  /\ pos' = [pos EXCEPT ![t] = enqueuePos]
  /\ Goto(t, "pushRead")
  /\ UNCHANGED <<sharedVars, value>>

\* The comparison of either compare-exchange.
ClaimsBlindly(cursor, t) == cursor \in Nat
Claims(cursor, t) == cursor = pos[t]

\* The sequence stored before the data it announces.
PushAnnounced(t) ==
  /\ pc[t] = "pushClaim" /\ Claims(enqueuePos, t)
  /\ enqueuePos' = pos[t] + 1
  /\ sequence' = [sequence EXCEPT ![Cell(pos[t])] = pos[t] + 1]
  /\ Goto(t, "pushWrite")
  /\ UNCHANGED <<dequeuePos, data, pos, value>>

PushClaim(t) ==
  /\ pc[t] = "pushClaim" /\ Claims(enqueuePos, t)
  /\ enqueuePos' = pos[t] + 1
  /\ Goto(t, "pushWrite")
  /\ UNCHANGED <<dequeuePos, sequence, data, pos, value>>

\* The weak compare-exchange lost, or failed for no reason.
PushRetry(t) ==
  /\ pc[t] = "pushClaim"
  /\ pos' = [pos EXCEPT ![t] = enqueuePos]
  /\ Goto(t, "pushRead")
  /\ UNCHANGED <<sharedVars, value>>

PushWrite(t) ==
  /\ pc[t] = "pushWrite"
  /\ data' = [data EXCEPT ![Cell(pos[t])] = value[t]]
  /\ Goto(t, "pushPublish")
  /\ UNCHANGED <<enqueuePos, dequeuePos, sequence, pos, value>>

PushPublish(t) ==
  /\ pc[t] = "pushPublish"
  /\ sequence' = [sequence EXCEPT ![Cell(pos[t])] = pos[t] + 1]
  /\ Return(t)
  /\ UNCHANGED <<enqueuePos, dequeuePos, data>>

(***************************************************************************)
(* try_pop()                                                               *)
(***************************************************************************)
BeginPop(t) ==
  /\ pc[t] = "idle"
  /\ pos' = [pos EXCEPT ![t] = dequeuePos]
  /\ Goto(t, "popRead")
  /\ UNCHANGED <<sharedVars, value>>

PopRead(t) ==
  /\ pc[t] = "popRead"
  /\ LET diff == sequence[Cell(pos[t])] - (pos[t] + 1)
     IN  \/ diff = 0 /\ Goto(t, "popClaim") /\ UNCHANGED <<pos, value>>
         \/ diff < 0 /\ Return(t)
         \/ diff > 0 /\ Goto(t, "popReload") /\ UNCHANGED <<pos, value>>
  /\ UNCHANGED sharedVars

PopReload(t) ==
  /\ pc[t] = "popReload"
  /\ pos' = [pos EXCEPT ![t] = dequeuePos]
  /\ Goto(t, "popRead")
  /\ UNCHANGED <<sharedVars, value>>

PopClaim(t) ==
  /\ pc[t] = "popClaim" /\ Claims(dequeuePos, t)
  /\ dequeuePos' = pos[t] + 1
  /\ Goto(t, "popTake")
  /\ UNCHANGED <<enqueuePos, sequence, data, pos, value>>

PopRetry(t) ==
  /\ pc[t] = "popClaim"
  /\ pos' = [pos EXCEPT ![t] = dequeuePos]
  /\ Goto(t, "popRead")
  /\ UNCHANGED <<sharedVars, value>>

PopTake(t) ==
  /\ pc[t] = "popTake"
  /\ value' = [value EXCEPT ![t] = data[Cell(pos[t])]]
  /\ Goto(t, "popFree")
  /\ UNCHANGED <<sharedVars, pos>>

\* The cell is free for the next round.
PopFree(t) ==
  /\ pc[t] = "popFree"
  /\ sequence' = [sequence EXCEPT ![Cell(pos[t])] = pos[t] + Cells]
  /\ Return(t)
  /\ UNCHANGED <<enqueuePos, dequeuePos, data>>

(***************************************************************************)
(* The specification                                                       *)
(***************************************************************************)
Init ==
  /\ enqueuePos = 0 /\ dequeuePos = 0
  /\ sequence = [c \in 0..(Cells - 1) |-> c]
  /\ data = [c \in 0..(Cells - 1) |-> None]
  /\ pc = [t \in Threads |-> "idle"]
  /\ pos = [t \in Threads |-> 0]
  /\ value = [t \in Threads |-> None]

PushStep(t) ==
  PushRead(t) \/ PushReload(t) \/ PushClaim(t) \/ PushRetry(t) \/ PushWrite(t) \/ PushPublish(t)
PopStep(t) ==
  PopRead(t) \/ PopReload(t) \/ PopClaim(t) \/ PopRetry(t) \/ PopTake(t) \/ PopFree(t)

Next == \E t \in Threads : BeginPush(t) \/ BeginPop(t) \/ PushStep(t) \/ PopStep(t)

Spec == Init /\ [][Next]_vars

(***************************************************************************)
(* Properties                                                              *)
(***************************************************************************)

\* Elements between the two cursors.
Length == enqueuePos - dequeuePos

\* Where a thread can be.
Labels == {"idle", "pushRead", "pushReload", "pushClaim", "pushWrite", "pushPublish",
           "popRead", "popReload", "popClaim", "popTake", "popFree"}

\* Every variable keeps its type, and the cursors are never more than one
\* round apart.
TypeOK ==
  /\ enqueuePos \in Nat /\ dequeuePos \in Nat /\ Length \in 0..Cells
  /\ sequence \in [0..(Cells - 1) -> Nat]
  /\ data \in [0..(Cells - 1) -> Values \union {None}]
  /\ pc \in [Threads -> Labels]
  /\ pos \in [Threads -> Nat]
  /\ value \in [Threads -> Values \union {None}]

\* A thread that won its position has the cell for itself until it publishes
\* or frees it: no two threads write, or one reads while another writes, the
\* same cell, however long one was suspended between its reads and its claim.
Owns(t) == pc[t] \in {"pushWrite", "pushPublish", "popTake", "popFree"}
CellsOwnedOnce ==
  \A t, u \in Threads : Owns(t) /\ Owns(u) /\ Cell(pos[t]) = Cell(pos[u]) => t = u

Ready(p) == sequence[Cell(p)] = p + 1
Producer(p) == CHOOSE t \in Threads : pc[t] \in {"pushWrite", "pushPublish"} /\ pos[t] = p
QueueEntry(p) ==
  [value |-> IF Ready(p) THEN data[Cell(p)] ELSE value[Producer(p)], ready |-> Ready(p)]

\* The FIFO this queue is.
Fifo == INSTANCE BoundedFifo WITH
  Capacity <- Cells,
  queue <- [i \in 1..Length |-> QueueEntry(dequeuePos + i - 1)],
  got <- [t \in Threads |-> CASE pc[t] = "popTake" -> data[Cell(pos[t])]
                              [] pc[t] = "popFree" -> value[t]
                              [] OTHER -> None]

\* Every element leaves once, in the order the places were claimed, with the
\* value its producer pushed.
ImplementsFifo == Fifo!Spec

=============================================================================
