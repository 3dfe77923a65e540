-------------------------------- MODULE Gate --------------------------------
(***************************************************************************)
(* The gate of a campaign: whether an instance may be given the campaign's *)
(* task, decided on a copy of its facts.                                   *)
(***************************************************************************)
EXTENDS InstanceFacts

CONSTANTS
  MinVersions,    \* values of gate.minVersion
  NoMinVersion,   \* gate.minVersion is absent
  Comparison      \* what compareVersions says of a version and a minimum

\* "skills.install" stands for the three actions that need a skills snapshot,
\* "agent.run" for all that need the gateway only.
CampaignActions == {"fleet.gateway.probe", "skills.install", "agent.run"}

ASSUME GateConstants ==
  /\ NoMinVersion \notin MinVersions
  /\ Comparison \in [Versions \X MinVersions -> {"below", "atLeast", "unparseable"}]

\* The checks of evaluateGate in their order, named for the reason they give.
Checks == <<"offline", "gateway down", "gateway stale", "version stale",
            "version below", "version unparseable", "snapshot missing",
            "snapshot stale", "snapshot invalidated">>

Reasons == {Checks[n] : n \in DOMAIN Checks}

RequiresGatewayFact(action) == action # "fleet.gateway.probe"

RequiresVersion(action, minVersion) ==
  minVersion # NoMinVersion /\ action # "fleet.gateway.probe"

RequiresSkillsSnapshot(action) == action = "skills.install"

VersionKnown(f) == f.version # NoVersion /\ f.versionFresh

\* The reasons not to run the action, whatever their order.
Failing(action, online, f, minVersion) ==
  LET gateway == RequiresGatewayFact(action)
      version == RequiresVersion(action, minVersion)
      skills == RequiresSkillsSnapshot(action)
      Compares(c) == VersionKnown(f) /\ Comparison[f.version, minVersion] = c
  IN {r \in Reasons :
        \/ r = "offline" /\ ~online
        \/ r = "gateway down" /\ gateway /\ f.reachable # "yes"
        \/ r = "gateway stale" /\ gateway /\ ~f.reachableFresh
        \/ r = "version stale" /\ version /\ ~VersionKnown(f)
        \/ r = "version below" /\ version /\ Compares("below")
        \/ r = "version unparseable" /\ version /\ Compares("unparseable")
        \/ r = "snapshot missing" /\ skills /\ f.snapshot = NoSnapshot
        \/ r = "snapshot stale" /\ skills /\ ~f.snapshotFresh
        \/ r = "snapshot invalidated" /\ skills /\ f.invalidated}

\* "ok", or the reason of the first check that fails.
GateVerdict(action, online, f, minVersion) ==
  LET failing == Failing(action, online, f, minVersion) IN
  IF failing = {} THEN "ok"
  ELSE Checks[CHOOSE n \in DOMAIN Checks :
                Checks[n] \in failing /\ \A k \in 1 .. n - 1 : Checks[k] \notin failing]

\* needs_probes: which fact a probe could refresh; an offline instance is not
\* probed.
NeedsProbes(verdict) ==
  IF verdict \in {"ok", "offline"} THEN {}
  ELSE IF verdict \in {"snapshot missing", "snapshot stale", "snapshot invalidated"}
       THEN {"skills"} ELSE {"gateway"}

\* What becomes of a copy of the facts until the gate looks at the clock: some
\* of them may have outlived their time to live.
Aged(f) ==
  {[f EXCEPT !.reachableFresh = @ /\ b[1],
             !.versionFresh = @ /\ b[2],
             !.snapshotFresh = @ /\ b[3]] : b \in BOOLEAN \X BOOLEAN \X BOOLEAN}
=============================================================================
