------------------------------ MODULE MCTasks ------------------------------
(* Model checking of Tasks.  The tasks of a batch differ in their steps. *)
EXTENDS Tasks

Steps == [t \in TaskIds |-> t % 2]
PostSteps == [t \in TaskIds |-> (t + 1) % 2]
=============================================================================
