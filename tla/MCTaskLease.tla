---------------------------- MODULE MCTaskLease ----------------------------
(* Instances of TaskLease for TLC: the control plane against any clients.  *)
EXTENDS TaskLease, TLC

CONSTANTS i1, h1, h2, a1, a2, data, up, down, v1

\* Plain tasks of one instance; a plain task returns nothing that is looked at.
PlainActions == [t \in Tasks |-> "agent.run"]
OneOwner == [t \in Tasks |-> {i1}]
NothingReturned == [t \in Tasks |-> {}]
NoTasks == {}

\* A gateway probe, which may expire.
ProbeActions == [t \in Tasks |-> "fleet.gateway.probe"]
UpOrDown == [t \in Tasks |-> {up, down}]
FirstExpires == {1}
AllTasks == Tasks

Versioned == [r \in AnyResult |-> IF r = up THEN v1 ELSE NoVersion]

HandlerSymmetry == Permutations(PullHandlers) \cup Permutations(AckHandlers)
=============================================================================
