------------------------ MODULE InstanceFactsProofs ------------------------
(***************************************************************************)
(* What every write of the facts and of the probe states preserves: their  *)
(* types, and that an instance's probes are held back only after a failed  *)
(* one.  TaskLease and Reconciler both write them.                         *)
(***************************************************************************)
EXTENDS InstanceFacts, TLAPS

LEMMA FactsFrame ==
  ASSUME FactsTypeOK, UNCHANGED factVars
  PROVE  FactsTypeOK'
BY DEF FactsTypeOK, factVars

(* The writes of facts keep their types.                                   *)

LEMMA GatewayFactType ==
  ASSUME FactsTypeOK, NEW i \in Instances, NEW res \in AnyResult,
         WriteGatewayFact(i, res), UNCHANGED probeState
  PROVE  FactsTypeOK'
<1>1. VersionIn[res] \in Versions \cup {NoVersion}
  BY FactConstants
<1>2. facts[i] \in FactRow
  BY DEF FactsTypeOK
<1>3. facts'[i] \in FactRow
  <2> DEFINE versioned == VersionIn[res] # NoVersion
             row == [facts[i] EXCEPT
                       !.reachable = IF res \in UpResults THEN "yes" ELSE "no",
                       !.reachableFresh = TRUE,
                       !.version = IF versioned THEN VersionIn[res] ELSE @,
                       !.versionFresh = IF versioned THEN TRUE ELSE @]
  <2>1. facts'[i] = row
    BY DEF WriteGatewayFact, FactsTypeOK
  <2>2. row \in FactRow
    BY <1>1, <1>2 DEF FactRow
  <2>3. QED  BY <2>1, <2>2
<1>4. facts' \in [Instances -> FactRow]
  BY <1>3 DEF WriteGatewayFact, FactsTypeOK
<1>5. QED  BY <1>4 DEF FactsTypeOK

LEMMA SnapshotFactType ==
  ASSUME FactsTypeOK, NEW i \in Instances, NEW res \in AnyResult,
         WriteSnapshot(i, res), UNCHANGED probeState
  PROVE  FactsTypeOK'
<1>1. [facts[i] EXCEPT !.snapshot = res, !.snapshotFresh = TRUE,
                       !.invalidated = FALSE] \in FactRow
  BY DEF FactsTypeOK, FactRow
<1>2. QED  BY <1>1 DEF WriteSnapshot, FactsTypeOK

LEMMA InvalidationType ==
  ASSUME FactsTypeOK, NEW i \in Instances, InvalidateSnapshot(i), UNCHANGED probeState
  PROVE  FactsTypeOK'
<1>1. PICK old \in BOOLEAN : old = (facts[i].snapshot # NoSnapshot)
  OBVIOUS
<1>2. facts' = [facts EXCEPT ![i] = [facts[i] EXCEPT !.invalidated = old]]
  BY <1>1, Zenon DEF InvalidateSnapshot
<1>3. [facts[i] EXCEPT !.invalidated = old] \in FactRow
  BY <1>1 DEF FactsTypeOK, FactRow
<1>4. QED  BY <1>2, <1>3 DEF FactsTypeOK

LEMMA ProbeStateType ==
  ASSUME FactsTypeOK, NEW i \in Instances, NEW k \in ProbeKinds,
         NEW n \in 0..FailureBound,
         ResetProbeState(i, k) \/ WriteProbeFailure(i, k, n), UNCHANGED facts
  PROVE  FactsTypeOK'
<1>1. PICK row \in ProbeRow : probeState' = [probeState EXCEPT ![i][k] = row]
  <2>1. CASE ResetProbeState(i, k)
    <3>1. [failures |-> 0, waiting |-> FALSE] \in ProbeRow
      BY FactConstants DEF ProbeRow
    <3>2. QED  BY <2>1, <3>1 DEF ResetProbeState
  <2>2. CASE WriteProbeFailure(i, k, n)
    <3> DEFINE next == IF n < FailureBound THEN n + 1 ELSE FailureBound
    <3>1. PICK wait \in BOOLEAN :
            probeState' = [probeState EXCEPT ![i][k] = [failures |-> next, waiting |-> wait]]
      BY <2>2 DEF WriteProbeFailure
    <3>2. next \in 0..FailureBound
      BY FactConstants
    <3>3. [failures |-> next, waiting |-> wait] \in ProbeRow
      BY <3>2 DEF ProbeRow
    <3>4. QED  BY <3>1, <3>3
  <2>3. QED  BY <2>1, <2>2
<1>2. probeState' \in [Instances -> [ProbeKinds -> ProbeRow]]
  BY <1>1 DEF FactsTypeOK
<1>3. QED  BY <1>2 DEF FactsTypeOK

LEMMA FactsAgeType ==
  ASSUME FactsTypeOK, FactsAge
  PROVE  FactsTypeOK'
<1>1. PICK i \in Instances :
        \/ GatewayFactGoesStale(i) \/ VersionGoesStale(i) \/ SnapshotGoesStale(i)
        \/ \E k \in ProbeKinds : BackoffLapses(i, k)
  BY DEF FactsAge
<1>2. facts[i] \in FactRow
  BY DEF FactsTypeOK
<1>3. ASSUME NEW row \in FactRow, facts' = [facts EXCEPT ![i] = row], UNCHANGED probeState
      PROVE  FactsTypeOK'
  BY <1>3 DEF FactsTypeOK
<1>4. CASE GatewayFactGoesStale(i)
  <2>1. [facts[i] EXCEPT !.reachableFresh = FALSE] \in FactRow
    BY <1>2 DEF FactRow
  <2>2. QED  BY <1>3, <1>4, <2>1 DEF GatewayFactGoesStale
<1>5. CASE VersionGoesStale(i)
  <2>1. [facts[i] EXCEPT !.versionFresh = FALSE] \in FactRow
    BY <1>2 DEF FactRow
  <2>2. QED  BY <1>3, <1>5, <2>1 DEF VersionGoesStale
<1>6. CASE SnapshotGoesStale(i)
  <2>1. [facts[i] EXCEPT !.snapshotFresh = FALSE] \in FactRow
    BY <1>2 DEF FactRow
  <2>2. QED  BY <1>3, <1>6, <2>1 DEF SnapshotGoesStale
<1>7. ASSUME NEW k \in ProbeKinds, BackoffLapses(i, k) PROVE FactsTypeOK'
  <2>1. probeState[i][k] \in ProbeRow
    BY DEF FactsTypeOK
  <2>2. [probeState[i][k] EXCEPT !.waiting = FALSE] \in ProbeRow
    BY <2>1 DEF ProbeRow
  <2>3. QED  BY <1>7, <2>2 DEF BackoffLapses, FactsTypeOK
<1>8. QED  BY <1>1, <1>4, <1>5, <1>6, <1>7

(* A row that holds probes back has a failure to show.                     *)

LEMMA ProbeStateBackoff ==
  ASSUME FactsTypeOK, BackoffOnlyAfterFailure,
         NEW i \in Instances, NEW k \in ProbeKinds, NEW n \in 0..FailureBound,
         ResetProbeState(i, k) \/ WriteProbeFailure(i, k, n)
  PROVE  BackoffOnlyAfterFailure'
<1>1. ASSUME NEW row, row.waiting => row.failures > 0,
             probeState' = [probeState EXCEPT ![i][k] = row]
      PROVE  BackoffOnlyAfterFailure'
  BY <1>1 DEF BackoffOnlyAfterFailure, FactsTypeOK
<1>2. CASE ResetProbeState(i, k)
  BY <1>1, <1>2 DEF ResetProbeState
<1>3. CASE WriteProbeFailure(i, k, n)
  <2> DEFINE next == IF n < FailureBound THEN n + 1 ELSE FailureBound
  <2>1. next > 0
    BY FactConstants
  <2>2. PICK wait \in BOOLEAN :
          probeState' = [probeState EXCEPT ![i][k] = [failures |-> next, waiting |-> wait]]
    BY <1>3 DEF WriteProbeFailure
  <2>3. QED  BY <1>1, <2>1, <2>2
<1>4. QED  BY <1>2, <1>3

LEMMA FactsAgeBackoff ==
  ASSUME FactsTypeOK, BackoffOnlyAfterFailure, FactsAge
  PROVE  BackoffOnlyAfterFailure'
<1>1. CASE UNCHANGED probeState
  BY <1>1 DEF BackoffOnlyAfterFailure
<1>2. ASSUME NEW i \in Instances, NEW k \in ProbeKinds, BackoffLapses(i, k)
      PROVE  BackoffOnlyAfterFailure'
  BY <1>2 DEF BackoffLapses, BackoffOnlyAfterFailure, FactsTypeOK, ProbeRow
<1>3. QED
  BY <1>1, <1>2 DEF FactsAge, GatewayFactGoesStale, VersionGoesStale, SnapshotGoesStale
=============================================================================
