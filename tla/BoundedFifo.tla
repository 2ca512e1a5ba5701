---------------------------- MODULE BoundedFifo ----------------------------
(***************************************************************************)
(* What the lock-free ring promises: elements enter at the back and leave  *)
(* at the front, each exactly once.  An element enters when its producer   *)
(* claims a place and can leave once the producer has published it; a      *)
(* consumer leaves with the value of the element that was in front.        *)
(***************************************************************************)
EXTENDS Integers, Sequences

CONSTANTS Threads, Values, Capacity, None

VARIABLES queue, got

Entry(value, ready) == [value |-> value, ready |-> ready]

Init == queue = <<>> /\ got = [t \in Threads |-> None]

Claim(value) ==
  /\ Len(queue) < Capacity
  /\ queue' = Append(queue, Entry(value, FALSE))
  /\ UNCHANGED got

Publish(i) ==
  /\ ~queue[i].ready
  /\ queue' = [queue EXCEPT ![i] = Entry(@.value, TRUE)]
  /\ UNCHANGED got

Take(t) ==
  /\ queue # <<>> /\ Head(queue).ready
  /\ got' = [got EXCEPT ![t] = Head(queue).value]
  /\ queue' = Tail(queue)

\* A consumer is done with the value it left with.
Forget(t) ==
  /\ got' = [got EXCEPT ![t] = None]
  /\ UNCHANGED queue

Next ==
  \/ \E value \in Values : Claim(value)
  \/ \E i \in DOMAIN queue : Publish(i)
  \/ \E t \in Threads : Take(t) \/ Forget(t)

Spec == Init /\ [][Next]_<<queue, got>>

=============================================================================
