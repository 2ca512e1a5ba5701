------------------------- MODULE MCRenderScheduler -------------------------
(***************************************************************************)
(* Instances of the render scheduler.  The graphs are the ones             *)
(* buildRenderGraph() makes of a master with one slice, a child channel    *)
(* with one slice and a return channel, and of a master alone with two     *)
(* voice slices.                                                           *)
(***************************************************************************)
EXTENDS RenderScheduler

TwoTasks == {"slice1", "slice2", "master"}
TwoLeaves == <<"slice1", "slice2">>
TwoArrivals == [slice1 |-> <<"master">>, slice2 |-> <<"master">>, master |-> <<>>]
TwoDependencies == [slice1 |-> 0, slice2 |-> 0, master |-> 2]

ReturnTasks == {"masterSlice", "slice", "mix", "return", "master"}
ReturnLeaves == <<"masterSlice", "slice">>
ReturnArrivals ==
  [masterSlice |-> <<"master">>, slice |-> <<"mix">>, mix |-> <<"return", "master">>,
   return |-> <<"master">>, master |-> <<>>]
ReturnDependencies == [masterSlice |-> 0, slice |-> 0, mix |-> 1, return |-> 1, master |-> 3]

\* Rendering alone: the workers are not stopped, and the graph is only rebuilt
\* after the first block.
SteadyNext ==
  \/ BuildStep \/ StartStep \/ BlockStep
  \/ \E t \in Threads : DrainStep(t) \/ TaskStep(t)
  \/ \E w \in Workers : LoopStep(w) \/ SpuriousWake(w)
SteadySpec == Init /\ [][SteadyNext]_vars

============================================================================
