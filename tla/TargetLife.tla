----------------------------- MODULE TargetLife -----------------------------
(***************************************************************************)
(* What a campaign promises for each instance and generation: the instance *)
(* joins when it comes into scope, runs once - and once more for each stop *)
(* of the control plane - and once it has left it does not come back in    *)
(* the same generation.                                                    *)
(***************************************************************************)
EXTENDS Naturals

CONSTANT Targets

VARIABLES
  stage,    \* of each target: "none", "waiting", "queued", "gone"
  tasks,    \* how many tasks it was given
  stops     \* stops of the control plane

lifeVars == <<stage, tasks, stops>>

LifeInit ==
  /\ stage = [k \in Targets |-> "none"]
  /\ tasks = [k \in Targets |-> 0]
  /\ stops = 0

Moves(k, from, to) ==
  /\ stage[k] \in from
  /\ stage' = [stage EXCEPT ![k] = to]
  /\ UNCHANGED <<tasks, stops>>

Join(k) == Moves(k, {"none"}, "waiting")

Run(k) ==
  /\ stage[k] = "waiting"
  /\ tasks[k] <= stops
  /\ tasks' = [tasks EXCEPT ![k] = @ + 1]
  /\ UNCHANGED <<stage, stops>>

\* Its task is known: the target has had its turn.
Settle(k) == tasks[k] > 0 /\ Moves(k, {"waiting"}, "queued")

Leave(k) == Moves(k, {"waiting", "queued"}, "gone")

Stop == stops' = stops + 1 /\ UNCHANGED <<stage, tasks>>

LifeNext == Stop \/ \E k \in Targets : Join(k) \/ Run(k) \/ Settle(k) \/ Leave(k)

LifeSpec == LifeInit /\ [][LifeNext]_lifeVars
=============================================================================
