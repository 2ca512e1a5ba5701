---------------------------- MODULE RenderBlock ----------------------------
(***************************************************************************)
(* What the render scheduler promises, whoever runs the tasks: in each     *)
(* block every task of the graph runs exactly once, after the tasks it     *)
(* waits for, and only while the block is open; a block that opened closes.*)
(***************************************************************************)
CONSTANTS Tasks, Before       \* Before[task]: the tasks it waits for

VARIABLES open, started, finished

blockVars == <<open, started, finished>>

Init == open = FALSE /\ started = {} /\ finished = {}

Open ==
  /\ ~open /\ open' = TRUE
  /\ started' = {} /\ finished' = {}

\* A task starts, and its work ends.
Begin(task) ==
  /\ open /\ task \notin started /\ Before[task] \subseteq finished
  /\ started' = started \union {task}
  /\ UNCHANGED <<open, finished>>

End(task) ==
  /\ open /\ task \in started \ finished
  /\ finished' = finished \union {task}
  /\ UNCHANGED <<open, started>>

Close ==
  /\ open /\ finished = Tasks
  /\ open' = FALSE
  /\ UNCHANGED <<started, finished>>

Progress == Close \/ \E task \in Tasks : Begin(task) \/ End(task)

Next == Open \/ Progress

Spec == Init /\ [][Next]_blockVars /\ WF_blockVars(Progress)

============================================================================
