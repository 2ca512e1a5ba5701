---------------------------- MODULE MCThreadPool ----------------------------
(***************************************************************************)
(* Instances of the slow pool: call sites without a guard (a file's first  *)
(* load, which may refill in turn) beside a manager's guarded job, and the *)
(* patcher's ping-pong pair of reclaim jobs.                               *)
(***************************************************************************)
EXTENDS ThreadPool

CONSTANTS audio, host

\* Both threads load; the audio thread also asks for a manager's setup.
MixedCalls == [c \in Callers |-> IF c = audio THEN {"load", "setup"} ELSE {"load"}]
MixedLooks == [j \in Jobs |-> IF j = "setup" THEN <<"setup">> ELSE <<>>]
MixedSibling == [j \in Jobs |-> IF j = "load" THEN "refill" ELSE None]

\* reclaimJobs_: the control thread adds the first when neither is queued, and
\* each pass may add the other.
ReclaimCalls == [c \in Callers |-> {"even"}]
ReclaimLooks == [j \in Jobs |-> <<"even", "odd">>]
ReclaimSibling == [j \in Jobs |-> IF j = "even" THEN "odd" ELSE "even"]

=============================================================================
