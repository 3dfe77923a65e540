---------------------------- MODULE MCReconciler ----------------------------
(* Instances of Reconciler for TLC.                                        *)
EXTENDS Reconciler, TLC

CONSTANTS i1, i2, r1, r2, e1, e2, p1, p2, p2r, in, out, up, down, v1, m1, some

Row(action) ==
  [status |-> "open", expired |-> FALSE, action |-> action, payload |-> p1,
   selector |-> some, minVersion |-> NoMinVersion, generation |-> 1]

ProbeCampaign == {Row("fleet.gateway.probe")}
RunCampaign == {Row("agent.run")}

NoChange ==
  [action |-> Keep, payload |-> Keep, selector |-> Keep, minVersion |-> Keep,
   expires |-> Keep]

\* p2r has the members of p2 in another order.
Reordered == [p \in Payloads |-> IF p = p2r THEN p2 ELSE p]

\* A new payload, the old one again, the new one in another spelling, and a
\* change that is not of the content.
PayloadChanges == {[NoChange EXCEPT !.payload = p] : p \in Payloads}
Renewal == [NoChange EXCEPT !.expires = "later"]
AllChanges == PayloadChanges \cup {Renewal}
OnlyRenewal == {Renewal}

SomeIn == [s \in Selectors |-> {in}]
AllOut == [i \in Instances |-> out]
AllIn == [i \in Instances |-> in]
ComeAndGo == {<<in, out>>, <<out, in>>}
NoMoves == {}
ComeOnly == {<<out, in>>}

NoProbes == [k \in ProbeKinds |-> {}]
GatewayUp == [NoProbes EXCEPT !["gateway"] = {up}]

Unversioned == [r \in AnyResult |-> NoVersion]
AtLeast == [pair \in Versions \X MinVersions |-> "atLeast"]

RunSymmetry == Permutations(Runs) \cup Permutations(Editors)
=============================================================================
