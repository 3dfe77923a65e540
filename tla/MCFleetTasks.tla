---------------------------- MODULE MCFleetTasks ----------------------------
(* Instances of FleetTasks for TLC.                                        *)
EXTENDS FleetTasks, TLC

CONSTANTS i1, r1, r2, data, up, down, v1

RunTaskPairs == Runs \X Tasks
AllTasks == 1 .. NumTasks

\* Every task belongs to i1, and so does every run.
OneOwner == [t \in Tasks |-> {i1}]
OneHost == [r \in Runs |-> i1]
NoTasks == {}
FirstTask == {1}

\* Plain tasks, which return nothing that is looked at.
PlainActions == [t \in Tasks |-> "agent.run"]
NothingReturned == [t \in Tasks |-> {NoResult}]

Versioned == [r \in AnyResult |-> IF r = up THEN v1 ELSE NoVersion]

RunSymmetry == Permutations(Runs)
=============================================================================
