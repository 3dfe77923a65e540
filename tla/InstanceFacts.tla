--------------------------- MODULE InstanceFacts ---------------------------
(***************************************************************************)
(* What the control plane believes about an instance: the fact columns of  *)
(* the instances table (gateway_reachable, openclaw_version,               *)
(* skills_snapshot and their timestamps) and the rows of                   *)
(* instance_probe_states.  Task acknowledgements write them, campaign      *)
(* gates read them.                                                        *)
(*                                                                         *)
(* A timestamp column is modelled by what its readers ask of it: whether   *)
(* the fact is younger than its time to live (the "...Fresh" fields), and  *)
(* whether skills_snapshot_invalidated_at is later than skills_snapshot_at *)
(* (the field invalidated).  next_allowed_at is modelled by whether it is  *)
(* still in the future (the field waiting).                                *)
(***************************************************************************)
EXTENDS Integers

CONSTANTS
  Instances,      \* enrolled instances
  Results,        \* what a provider call can return
  NoResult,       \* an acknowledgement that carries no result
  UpResults,      \* the results whose gateway_reachable is true
  Versions,       \* OpenClaw versions
  NoVersion,      \* openclaw_version is null
  VersionIn,      \* the openclaw_version a result carries
  NoSnapshot,     \* skills_snapshot is null
  FailureBound    \* cap on consecutive_failures

AnyResult == Results \cup {NoResult}

ProbeKinds == {"gateway", "skills"}

ASSUME FactConstants ==
  /\ UpResults \subseteq Results
  /\ NoResult \notin Results
  /\ NoSnapshot \notin AnyResult
  /\ VersionIn \in [AnyResult -> Versions \cup {NoVersion}]
  /\ FailureBound \in Nat \ {0}

VARIABLES
  facts,          \* the fact columns of each instance
  probeState      \* consecutive_failures and next_allowed_at, per probe kind

factVars == <<facts, probeState>>

FactRow ==
  [reachable : {"null", "yes", "no"}, reachableFresh : BOOLEAN,
   version : Versions \cup {NoVersion}, versionFresh : BOOLEAN,
   snapshot : AnyResult \cup {NoSnapshot}, snapshotFresh : BOOLEAN,
   invalidated : BOOLEAN]

ProbeRow == [failures : 0..FailureBound, waiting : BOOLEAN]

FactsTypeOK ==
  /\ facts \in [Instances -> FactRow]
  /\ probeState \in [Instances -> [ProbeKinds -> ProbeRow]]

FactsInit ==
  /\ facts = [i \in Instances |->
       [reachable |-> "null", reachableFresh |-> FALSE,
        version |-> NoVersion, versionFresh |-> FALSE,
        snapshot |-> NoSnapshot, snapshotFresh |-> FALSE,
        invalidated |-> FALSE]]
  /\ probeState = [i \in Instances |->
       [k \in ProbeKinds |-> [failures |-> 0, waiting |-> FALSE]]]

-----------------------------------------------------------------------------
(* Writes made by the handler of POST /v1/tasks/ack.                       *)

\* gateway_reachable and openclaw_version of a gateway probe's result; a
\* result without a version leaves the stored version as it is.
WriteGatewayFact(i, result) ==
  LET versioned == VersionIn[result] # NoVersion IN
  facts' = [facts EXCEPT
    ![i].reachable = IF result \in UpResults THEN "yes" ELSE "no",
    ![i].reachableFresh = TRUE,
    ![i].version = IF versioned THEN VersionIn[result] ELSE @,
    ![i].versionFresh = IF versioned THEN TRUE ELSE @]

\* A skill-changing action succeeded: the snapshot is older than it.  With no
\* snapshot yet there is no timestamp to be later than.
InvalidateSnapshot(i) ==
  facts' = [facts EXCEPT ![i].invalidated = (facts[i].snapshot # NoSnapshot)]

\* The snapshot is replaced by the result, by {} when there is none.
WriteSnapshot(i, result) ==
  facts' = [facts EXCEPT ![i].snapshot = result,
                         ![i].snapshotFresh = TRUE,
                         ![i].invalidated = FALSE]

\* Mutant: the upsert leaves next_allowed_at as it was.
ResetFailuresOnly(i, k) == probeState' = [probeState EXCEPT ![i][k].failures = 0]

\* One upsert: no failures, no backoff.
ResetProbeState(i, k) ==
  probeState' = [probeState EXCEPT ![i][k] = [failures |-> 0, waiting |-> FALSE]]

\* The second half of bumpProbeFailure: the count read earlier plus one.  The
\* delay is drawn between zero and a positive maximum, so it may already be over.
WriteProbeFailure(i, k, readFailures) ==
  \E wait \in BOOLEAN :
    probeState' = [probeState EXCEPT ![i][k] =
      [failures |-> IF readFailures < FailureBound THEN readFailures + 1
                                                   ELSE FailureBound,
       waiting |-> wait]]

-----------------------------------------------------------------------------
(* The passage of time.                                                    *)

GatewayFactGoesStale(i) ==
  /\ facts[i].reachableFresh
  /\ facts' = [facts EXCEPT ![i].reachableFresh = FALSE]
  /\ UNCHANGED probeState

VersionGoesStale(i) ==
  /\ facts[i].versionFresh
  /\ facts' = [facts EXCEPT ![i].versionFresh = FALSE]
  /\ UNCHANGED probeState

SnapshotGoesStale(i) ==
  /\ facts[i].snapshotFresh
  /\ facts' = [facts EXCEPT ![i].snapshotFresh = FALSE]
  /\ UNCHANGED probeState

BackoffLapses(i, k) ==
  /\ probeState[i][k].waiting
  /\ probeState' = [probeState EXCEPT ![i][k].waiting = FALSE]
  /\ UNCHANGED facts

FactsAge ==
  \E i \in Instances :
    \/ GatewayFactGoesStale(i)
    \/ VersionGoesStale(i)
    \/ SnapshotGoesStale(i)
    \/ \E k \in ProbeKinds : BackoffLapses(i, k)

-----------------------------------------------------------------------------
(* Properties.                                                             *)

(* Probes of an instance are held back only after a probe has failed since *)
(* the last one that succeeded: its row never says "wait" and "no failures". *)
BackoffOnlyAfterFailure ==
  \A i \in Instances : \A k \in ProbeKinds :
    probeState[i][k].waiting => probeState[i][k].failures > 0
=============================================================================
