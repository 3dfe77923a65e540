-------------------------- MODULE ReconcilerProofs --------------------------
(***************************************************************************)
(* What the reconciler guarantees, for any number of campaigns, instances  *)
(* and requests, and for any number of runs that overlap, unless said      *)
(* otherwise.                                                              *)
(***************************************************************************)
EXTENDS Reconciler, InstanceFactsProofs, FiniteSetTheorems, WellFoundedInduction

(***************************************************************************)
(* The operators the handlers are built from.                              *)
(***************************************************************************)

\* A set of campaigns has an oldest one, and the CHOOSE finds it.
LEMMA OldestExists ==
  ASSUME NEW S \in SUBSET Nat, S # {}
  PROVE  \E c \in S : \A d \in S : c <= d
<1>1. PICK c \in S : \A d \in S : ~ (<<d, c>> \in OpToRel(<, Nat))
  BY WFMin, NatLessThanWellFounded
<1>2. \A d \in S : ~(d < c)
  BY <1>1 DEF OpToRel
<1>3. QED  BY <1>2

LEMMA CurrentIsTodo ==
  ASSUME NEW r \in Runs, todo[r] \subseteq CampaignIds, todo[r] # {}
  PROVE  Current(r) \in todo[r]
<1>1. todo[r] \subseteq Nat
  BY CampaignConstants DEF CampaignIds
<1>2. \E c \in todo[r] : \A d \in todo[r] : c <= d
  BY <1>1, OldestExists
<1>3. QED  BY <1>2 DEF Current

\* The clock only makes copies of facts older.
LEMMA AgedIsFactRow ==
  ASSUME NEW f \in FactRow, NEW g \in Aged(f)
  PROVE  g \in FactRow
<1>1. PICK b \in BOOLEAN \X BOOLEAN \X BOOLEAN :
        g = [f EXCEPT !.reachableFresh = @ /\ b[1],
                      !.versionFresh = @ /\ b[2],
                      !.snapshotFresh = @ /\ b[3]]
  BY DEF Aged
<1>2. PICK a1 \in BOOLEAN, a2 \in BOOLEAN, a3 \in BOOLEAN :
        /\ a1 = (f.reachableFresh /\ b[1])
        /\ a2 = (f.versionFresh /\ b[2])
        /\ a3 = (f.snapshotFresh /\ b[3])
  OBVIOUS
<1>3. g = [f EXCEPT !.reachableFresh = a1, !.versionFresh = a2, !.snapshotFresh = a3]
  BY <1>1, <1>2, Zenon
<1>4. QED  BY <1>3 DEF FactRow

\* The gate says "ok" or gives one of its reasons.
LEMMA VerdictIsReason ==
  ASSUME NEW action, NEW on, NEW f, NEW minVersion,
         GateVerdict(action, on, f, minVersion) # "ok"
  PROVE  GateVerdict(action, on, f, minVersion) \in Reasons
<1> DEFINE failing == Failing(action, on, f, minVersion)
           S == {n \in DOMAIN Checks : Checks[n] \in failing}
<1>1. DOMAIN Checks = 1 .. 9
  BY DEF Checks
<1>2. failing \subseteq Reasons
  BY DEF Failing
<1>3. failing # {}
  BY DEF GateVerdict
<1>4. S # {}
  BY <1>2, <1>3 DEF Reasons
<1>5. PICK n \in S : \A m \in S : n <= m
  BY <1>1, <1>4, OldestExists
<1>6. \A k \in 1 .. n - 1 : Checks[k] \notin failing
  BY <1>1, <1>5
<1>7. \E m \in DOMAIN Checks :
        Checks[m] \in failing /\ \A k \in 1 .. m - 1 : Checks[k] \notin failing
  BY <1>5, <1>6
<1> HIDE DEF failing
<1>8. QED
  BY <1>2, <1>3, <1>7 DEF GateVerdict, failing

(***************************************************************************)
(* Types.  Besides them: a request that has read its row writes a          *)
(* generation within the bound, and a run that is not over has a campaign. *)
(***************************************************************************)

RouteTypes ==
  /\ campaign \in [CampaignIds -> CampaignRow]
  /\ editing \in [Editors -> {"idle", "patch", "delete"}]
  /\ edited \in [Editors -> CampaignIds]
  /\ body \in [Editors -> Changes]
  /\ read \in [Editors -> CampaignRow]

WorldTypes ==
  /\ label \in [Instances -> LabelSets]
  /\ online \in [Instances -> BOOLEAN]
  /\ reopened \in 0 .. MaxReopens
  /\ probes \in [Instances -> [ProbeKinds -> Nat]]
  /\ FactsTypeOK

TargetTypes ==
  /\ target \in [Keys -> TargetRow]
  /\ execs \in [Keys -> Seq(Content)]
  /\ crashes \in 0 .. MaxCrashes
  /\ cleared \subseteq Keys

CopyTypes ==
  /\ todo \in [Runs -> SUBSET CampaignIds]
  /\ saw \in [Runs -> [CampaignIds -> CampaignRow]]
  /\ sawFacts \in [Runs -> [Instances -> FactRow]]
  /\ sawLabels \in [Runs -> [Instances -> LabelSets]]
  /\ sawOnline \in [Runs -> [Instances -> BOOLEAN]]

LoopTypes ==
  /\ pc \in [Runs -> RunPcs]
  /\ queue \in [Runs -> SUBSET Instances]
  /\ row \in [Runs -> [Instances -> TargetRow]]
  /\ focus \in [Runs -> Instances]
  /\ probeKind \in [Runs -> ProbeKinds]

PatchesInBound ==
  \A e \in Editors :
    editing[e] = "patch" => NextGeneration(read[e], body[e]) <= GenerationBound

RunsAreBusy == \A r \in Runs : pc[r] # "idle" => todo[r] # {}

TypeInv ==
  /\ RouteTypes /\ WorldTypes /\ TargetTypes /\ CopyTypes /\ LoopTypes
  /\ PatchesInBound /\ RunsAreBusy

LEMMA TypesAreTypes == TypeInv => ReconcilerTypeOK
BY DEF TypeInv, RouteTypes, WorldTypes, TargetTypes, CopyTypes, LoopTypes,
       ReconcilerTypeOK, CampaignTypeOK

(* The routes.                                                             *)

LEMMA NewRowsAreRows ==
  /\ NewCampaigns \subseteq CampaignRow
  /\ SomeRow \in CampaignRow /\ SomeRow.status = "absent"
  /\ SomeChange \in Changes
  /\ 1 \in CampaignIds /\ 1 \in Generations
  /\ CampaignIds \subseteq Nat /\ Generations \subseteq Nat
<1>1. NewCampaigns \subseteq CampaignRow /\ NewCampaigns # {}
  BY CampaignConstants
<1>2. (CHOOSE c \in NewCampaigns : TRUE) \in CampaignRow
  BY <1>1
<1>3. [CHOOSE c \in NewCampaigns : TRUE EXCEPT !.status = "absent"] \in CampaignRow
  BY <1>2 DEF CampaignRow
<1>4. [CHOOSE c \in NewCampaigns : TRUE EXCEPT !.status = "absent"].status = "absent"
  BY <1>2 DEF CampaignRow
<1>5. QED
  BY <1>1, <1>3, <1>4, CampaignConstants DEF SomeRow, SomeChange, CampaignIds, Generations

LEMMA NextGenerationType ==
  ASSUME NEW old \in CampaignRow, NEW b \in Changes
  PROVE  /\ NextGeneration(old, b) \in Nat /\ NextGeneration(old, b) >= 1
         /\ NextGeneration(old, b) <= GenerationBound => NextGeneration(old, b) \in Generations
<1>1. old.generation \in Generations /\ GenerationBound \in Nat
  BY CampaignConstants DEF CampaignRow
<1>2. QED  BY <1>1 DEF NextGeneration, Generations

LEMMA PatchedType ==
  ASSUME NEW now \in CampaignRow, NEW b \in Changes, NEW old \in CampaignRow,
         NextGeneration(old, b) <= GenerationBound
  PROVE  /\ Patched(now, b, old) \in CampaignRow
         /\ Patched(now, b, old).status = now.status
         /\ Patched(now, b, old).generation = NextGeneration(old, b)
         /\ Patched(now, b, old).action = Coalesce(b.action, now.action)
         /\ Patched(now, b, old).selector = Coalesce(b.selector, now.selector)
         /\ Patched(now, b, old).payload =
              IF b.payload = Keep THEN now.payload ELSE Stored[b.payload]
<1> DEFINE action == Coalesce(b.action, now.action)
           payload == IF b.payload = Keep THEN now.payload ELSE Stored[b.payload]
           selector == Coalesce(b.selector, now.selector)
           minVersion == Coalesce(b.minVersion, now.minVersion)
           expired == IF b.expires = Keep THEN now.expired ELSE FALSE
           generation == NextGeneration(old, b)
<1>1. b \in Change
  BY CampaignConstants
<1>2. action \in CampaignActions /\ selector \in Selectors
  BY <1>1 DEF Change, CampaignRow, Coalesce
<1>3. payload \in Payloads
  BY <1>1, CampaignConstants DEF Change, CampaignRow
<1>4. minVersion \in MinVersions \cup {NoMinVersion} /\ expired \in BOOLEAN
  BY <1>1 DEF Change, CampaignRow, Coalesce
<1>5. generation \in Generations
  BY NextGenerationType
<1>6. Patched(now, b, old) =
        [now EXCEPT !.action = action, !.payload = payload, !.selector = selector,
                    !.minVersion = minVersion, !.expired = expired,
                    !.generation = generation]
  BY Zenon DEF Patched
<1> HIDE DEF action, payload, selector, minVersion, expired, generation
<1>7. Patched(now, b, old) =
        [status |-> now.status, expired |-> expired, action |-> action,
         payload |-> payload, selector |-> selector, minVersion |-> minVersion,
         generation |-> generation]
  BY <1>6 DEF CampaignRow
<1>8. now.status \in {"absent", "open", "closed", "deleted"}
  BY DEF CampaignRow
<1>9. Patched(now, b, old) \in CampaignRow
  BY <1>2, <1>3, <1>4, <1>5, <1>7, <1>8 DEF CampaignRow
<1>10. QED  BY <1>7, <1>9 DEF action, payload, selector, generation

LEMMA StatusType ==
  ASSUME NEW old \in CampaignRow
  PROVE  /\ [old EXCEPT !.status = "closed"] \in CampaignRow
         /\ [old EXCEPT !.status = "deleted"] \in CampaignRow
BY DEF CampaignRow

LEMMA RouteStepTypes ==
  ASSUME TypeInv, RouteSteps
  PROVE  RouteTypes' /\ PatchesInBound' /\ UNCHANGED <<probes, worldVars>>
<1> USE DEF RouteTypes
<1>0. RouteTypes /\ PatchesInBound
  BY DEF TypeInv
<1>1. ASSUME NEW c \in CampaignIds, CreateCampaign(c)
      PROVE  RouteTypes' /\ PatchesInBound'
  BY <1>0, <1>1, NewRowsAreRows DEF CreateCampaign, editVars, PatchesInBound
<1>2. ASSUME NEW c \in CampaignIds, CloseCampaign(c)
      PROVE  RouteTypes' /\ PatchesInBound'
  <2>1. [campaign[c] EXCEPT !.status = "closed"] \in CampaignRow
    BY <1>0, StatusType
  <2>2. QED  BY <1>0, <1>2, <2>1 DEF CloseCampaign, editVars, PatchesInBound
<1>3. ASSUME NEW e \in Editors, NEW c \in CampaignIds, NEW b \in Changes, PatchRead(e, c, b)
      PROVE  RouteTypes' /\ PatchesInBound'
  BY <1>0, <1>3 DEF PatchRead, PatchesInBound
<1>4. ASSUME NEW e \in Editors, NEW c \in CampaignIds, DeleteRead(e, c)
      PROVE  RouteTypes' /\ PatchesInBound'
  BY <1>0, <1>4 DEF DeleteRead, PatchesInBound
<1>5. ASSUME NEW e \in Editors, EditEnds(e), campaign' \in [CampaignIds -> CampaignRow]
      PROVE  RouteTypes' /\ PatchesInBound'
  BY <1>0, <1>5, NewRowsAreRows DEF EditEnds, PatchesInBound
<1>6. ASSUME NEW e \in Editors, PatchWrite(e)
      PROVE  campaign' \in [CampaignIds -> CampaignRow]
  <2>1. Patched(campaign[edited[e]], body[e], read[e]) \in CampaignRow
    BY <1>0, <1>6, PatchedType DEF PatchWrite, PatchesInBound
  <2>2. QED  BY <1>0, <1>6, <2>1 DEF PatchWrite
<1>7. ASSUME NEW e \in Editors, DeleteWrite(e)
      PROVE  campaign' \in [CampaignIds -> CampaignRow]
  <2>1. [campaign[edited[e]] EXCEPT !.status = "deleted"] \in CampaignRow
    BY <1>0, StatusType
  <2>2. QED  BY <1>0, <1>7, <2>1 DEF DeleteWrite
<1>8. UNCHANGED <<probes, worldVars>>
  BY DEF RouteSteps, CreateCampaign, CloseCampaign, PatchRead, DeleteRead, PatchWrite,
         DeleteWrite, EditAborts, EditEnds
<1>9. QED
  BY <1>0, <1>1, <1>2, <1>3, <1>4, <1>5, <1>6, <1>7, <1>8
  DEF RouteSteps, PatchWrite, DeleteWrite, EditAborts

(* The world.                                                              *)

LEMMA FeedTypes ==
  ASSUME FactsTypeOK, probes \in [Instances -> [ProbeKinds -> Nat]], FeedNext
  PROVE  FactsTypeOK' /\ probes' \in [Instances -> [ProbeKinds -> Nat]]
<1>1. ASSUME NEW i \in Instances, FactsWritten(i)
      PROVE  FactsTypeOK' /\ UNCHANGED probes
  <2>1. ProbeResults["gateway"] \subseteq AnyResult /\ ProbeResults["skills"] \subseteq AnyResult
    BY CampaignConstants DEF ProbeKinds
  <2>2. QED
    BY <1>1, <2>1, GatewayFactType, SnapshotFactType, InvalidationType DEF FactsWritten
<1>2. ASSUME NEW i \in Instances, NEW k \in ProbeKinds, ProbeStateWritten(i, k)
      PROVE  FactsTypeOK' /\ UNCHANGED probes
  <2>1. 0 \in 0 .. FailureBound
    BY FactConstants
  <2>2. QED  BY <1>2, <2>1, ProbeStateType DEF ProbeStateWritten
<1>3. ASSUME NEW i \in Instances, NEW k \in ProbeKinds,
             ProbeSettles(i, k) \/ ProbeOpens(i, k)
      PROVE  FactsTypeOK' /\ probes' \in [Instances -> [ProbeKinds -> Nat]]
  <2>1. probes[i][k] \in Nat
    OBVIOUS
  <2>2. PICK n \in Nat : probes' = [probes EXCEPT ![i][k] = n]
    BY <1>3, <2>1 DEF ProbeSettles, ProbeOpens
  <2>3. QED  BY <1>3, <2>2, FactsFrame DEF ProbeSettles, ProbeOpens
<1>4. CASE FactsAge /\ UNCHANGED probes
  BY <1>4, FactsAgeType
<1>5. QED  BY <1>1, <1>2, <1>3, <1>4 DEF FeedNext

LEMMA WorldStepTypes ==
  ASSUME TypeInv, WorldSteps
  PROVE  RouteTypes' /\ WorldTypes' /\ UNCHANGED editVars
<1>0. RouteTypes /\ WorldTypes /\ FactsTypeOK
  BY DEF TypeInv, WorldTypes
<1>1. ASSUME NEW c \in CampaignIds, CampaignExpires(c)
      PROVE  RouteTypes' /\ WorldTypes'
  <2>1. ASSUME NEW old \in CampaignRow PROVE [old EXCEPT !.expired = TRUE] \in CampaignRow
    BY DEF CampaignRow
  <2>2. QED
    BY <1>0, <1>1, <2>1, FactsFrame
    DEF CampaignExpires, editVars, worldVars, RouteTypes, WorldTypes
<1>2. ASSUME UNCHANGED <<campaign, editVars>> PROVE RouteTypes'
  BY <1>0, <1>2 DEF RouteTypes, editVars
<1>3. ASSUME NEW i \in Instances, LabelsChange(i) \/ Heartbeat(i) \/ HeartbeatLapses(i)
      PROVE  WorldTypes'
  BY <1>0, <1>3, FactsFrame DEF LabelsChange, Heartbeat, HeartbeatLapses, WorldTypes
<1>4. ASSUME QueueSteps PROVE WorldTypes'
  <2>1. probes' \in [Instances -> [ProbeKinds -> Nat]] /\ FactsTypeOK'
    BY <1>0, <1>4, FeedTypes DEF QueueSteps, FeedNext, WorldTypes
  <2>2. QED  BY <1>0, <1>4, <2>1 DEF QueueSteps, WorldTypes
<1>5. ASSUME NEW i \in Instances, NEW k \in ProbeKinds, ProbeReopens(i, k)
      PROVE  WorldTypes'
  <2>1. probes' \in [Instances -> [ProbeKinds -> Nat]] /\ FactsTypeOK'
    BY <1>0, <1>5, FeedTypes DEF ProbeReopens, FeedNext, WorldTypes
  <2>2. reopened' \in 0 .. MaxReopens
    BY <1>0, <1>5, CampaignConstants DEF ProbeReopens, WorldTypes
  <2>3. QED  BY <1>0, <1>5, <2>1, <2>2 DEF ProbeReopens, WorldTypes
<1>6. UNCHANGED editVars
  BY DEF WorldSteps, CampaignExpires, LabelsChange, Heartbeat, HeartbeatLapses, QueueSteps,
         ProbeReopens
<1>7. QED
  BY <1>1, <1>2, <1>3, <1>4, <1>5, <1>6
  DEF WorldSteps, LabelsChange, Heartbeat, HeartbeatLapses, QueueSteps, ProbeReopens

(* The runs.                                                               *)

LEMMA KeyIsKey ==
  ASSUME TypeInv, NEW r \in Runs, pc[r] # "idle"
  PROVE  /\ Current(r) \in todo[r] /\ Current(r) \in CampaignIds
         /\ saw[r][Current(r)] \in CampaignRow
         /\ \A i \in Instances : Key(r, i) \in Keys
         /\ \A i \in Instances : Key(r, i)[1] = Current(r)
         /\ \A i, j \in Instances : Key(r, i) = Key(r, j) => i = j
<1>1. Current(r) \in todo[r] /\ Current(r) \in CampaignIds
  BY CurrentIsTodo DEF TypeInv, CopyTypes, RunsAreBusy
<1>2. saw[r][Current(r)] \in CampaignRow
  BY <1>1 DEF TypeInv, CopyTypes
<1>3. saw[r][Current(r)].generation \in Generations
  BY <1>2 DEF CampaignRow
<1>4. QED  BY <1>1, <1>2, <1>3 DEF Key, Keys

LEMMA NoRowsAreRows ==
  /\ NoTarget \in TargetRow
  /\ NoRow \in [Instances -> TargetRow]
  /\ SomeInstance \in Instances
  /\ NoCampaigns \in [CampaignIds -> CampaignRow]
  /\ NoFacts \in [Instances -> FactRow]
  /\ NotOnline \in [Instances -> BOOLEAN]
BY NewRowsAreRows, ReconcilerConstants
DEF NoTarget, TargetRow, NoRow, SomeInstance, NoCampaigns, NoFacts, FactRow, NotOnline

\* Reading, and going on to the next loop.
LEMMA ReadStepTypes ==
  ASSUME TypeInv, NEW r \in Runs,
         \/ ReadCampaigns(r) \/ ReadInstances(r) \/ ReadLabels(r) \/ BeginCampaigns(r)
         \/ ReadTargets(r) \/ ReadPending(r) \/ ReadBackoff(r) \/ LookForProbe(r)
         \/ NextCampaign(r) \/ \E i \in Instances : ReadOnline(r, i)
  PROVE  /\ CopyTypes' /\ LoopTypes' /\ RunsAreBusy'
         /\ UNCHANGED <<tableVars, worldVars, crashes, cleared>>
<1> USE DEF CopyTypes, LoopTypes, RunsAreBusy, RunPcs
<1>0. CopyTypes /\ LoopTypes /\ RunsAreBusy
  BY DEF TypeInv
<1>1. CASE ReadCampaigns(r)
  <2>1. campaign \in [CampaignIds -> CampaignRow]
    BY DEF TypeInv, RouteTypes
  <2>2. {c \in CampaignIds : Live(c)} # {}
    BY <1>1 DEF ReadCampaigns
  <2>3. QED  BY <1>0, <1>1, <2>1, <2>2 DEF ReadCampaigns, loopVars
<1>2. CASE ReadInstances(r)
  <2>1. facts \in [Instances -> FactRow]
    BY DEF TypeInv, WorldTypes, FactsTypeOK
  <2>2. QED  BY <1>0, <1>2, <2>1 DEF ReadInstances, loopVars
<1>3. CASE ReadLabels(r)
  <2>1. label \in [Instances -> LabelSets]
    BY DEF TypeInv, WorldTypes
  <2>2. QED  BY <1>0, <1>3, <2>1 DEF ReadLabels
<1>4. ASSUME NEW i \in Instances, ReadOnline(r, i)
      PROVE  /\ CopyTypes' /\ LoopTypes' /\ RunsAreBusy'
             /\ UNCHANGED <<tableVars, worldVars, crashes, cleared>>
  <2>1. online[i] \in BOOLEAN
    BY DEF TypeInv, WorldTypes
  <2>2. QED  BY <1>0, <1>4, <2>1 DEF ReadOnline
<1>5. CASE BeginCampaigns(r)
  BY <1>0, <1>5 DEF BeginCampaigns, copyVars, Matching, InScope
<1>6. CASE ReadTargets(r)
  BY <1>0, <1>6 DEF ReadTargets, copyVars, ToDrop, TargetsIn
<1>7. CASE ReadPending(r)
  BY <1>0, <1>7 DEF ReadPending, copyVars, Untasked, TargetsIn
<1>8. CASE ReadBackoff(r)
  BY <1>0, <1>8 DEF ReadBackoff, copyVars, loopVars
<1>9. CASE LookForProbe(r)
  BY <1>0, <1>9 DEF LookForProbe, copyVars, loopVars
<1>10. CASE NextCampaign(r)
  BY <1>0, <1>10 DEF NextCampaign, InScope
<1>11. QED
  BY <1>1, <1>2, <1>3, <1>4, <1>5, <1>6, <1>7, <1>8, <1>9, <1>10

LEMMA CandidateTypes ==
  ASSUME TypeInv, NEW r \in Runs, ReadCandidates(r)
  PROVE  /\ CopyTypes' /\ LoopTypes' /\ RunsAreBusy'
         /\ UNCHANGED <<tableVars, worldVars, crashes, cleared>>
<1> DEFINE seen == [i \in Instances |->
                      IF i \in queue'[r] THEN target[Key(r, i)] ELSE NoTarget]
<1>1. target \in [Keys -> TargetRow] /\ pc[r] # "idle"
  BY DEF ReadCandidates, TypeInv, TargetTypes
<1>2. seen \in [Instances -> TargetRow]
  BY <1>1, KeyIsKey, NoRowsAreRows
<1>3. row' = [row EXCEPT ![r] = seen]
  BY DEF ReadCandidates
<1> HIDE DEF seen
<1>4. LoopTypes'
  BY <1>2, <1>3 DEF ReadCandidates, TargetsIn, TypeInv, LoopTypes, RunPcs
<1>5. QED
  BY <1>4 DEF ReadCandidates, TypeInv, CopyTypes, RunsAreBusy, copyVars, LoopTypes

\* Changes of a target's row.
LEMMA RowTypes ==
  ASSUME NEW t \in TargetRow
  PROVE  /\ [t EXCEPT !.state = "pending"] \in TargetRow
         /\ [t EXCEPT !.state = "removed"] \in TargetRow
         /\ [t EXCEPT !.state = "queued", !.tasked = TRUE] \in TargetRow
         /\ \A reason \in Reasons :
              [t EXCEPT !.state = "blocked", !.reason = reason] \in TargetRow
         /\ [t EXCEPT !.state = "pending", !.reason = "none"] \in TargetRow
BY DEF TargetRow

LEMMA LoopGoesOnTypes ==
  ASSUME TypeInv, NEW r \in Runs, NEW i \in Instances, LoopGoesOn(r, i)
  PROVE  queue' \in [Runs -> SUBSET Instances] /\ row' \in [Runs -> [Instances -> TargetRow]]
BY NoRowsAreRows DEF LoopGoesOn, TypeInv, LoopTypes

\* What a run does to a target's row: nothing, or one change of state.
LEMMA WriteStepTypes ==
  ASSUME TypeInv, NEW r \in Runs, NEW i \in Instances,
         AddTarget(r, i) \/ DropTarget(r, i)
  PROVE  TargetTypes' /\ CopyTypes' /\ LoopTypes' /\ RunsAreBusy'
<1>1. pc[r] # "idle"
  BY DEF AddTarget, DropTarget
<1>2. target[Key(r, i)] \in TargetRow /\ Key(r, i) \in Keys
  BY <1>1, KeyIsKey DEF TypeInv, TargetTypes
<1>3. ASSUME NEW t \in TargetRow, target' = [target EXCEPT ![Key(r, i)] = t]
      PROVE  target' \in [Keys -> TargetRow]
  BY <1>2, <1>3 DEF TypeInv, TargetTypes
<1>4. target' \in [Keys -> TargetRow]
  <2>1. CASE AddTarget(r, i)
    BY <1>2, <1>3, <2>1, RowTypes DEF AddTarget
  <2>2. CASE DropTarget(r, i)
    <3>1. target' = [target EXCEPT ![Key(r, i)] =
            IF target[Key(r, i)].state \in OpenStates
            THEN [target[Key(r, i)] EXCEPT !.state = "removed"] ELSE target[Key(r, i)]]
      BY <1>2, <2>2 DEF DropTarget, TypeInv, TargetTypes, TargetRow
    <3>2. QED  BY <1>2, <1>3, <3>1, RowTypes
  <2>3. QED  BY <2>1, <2>2
<1>5. TargetTypes'
  BY <1>4 DEF AddTarget, DropTarget, TypeInv, TargetTypes
<1>6. /\ queue' = [queue EXCEPT ![r] = @ \ {i}]
      /\ UNCHANGED <<pc, copyVars, row, focus, probeKind>>
  BY DEF AddTarget, DropTarget
<1>7. CopyTypes' /\ LoopTypes' /\ RunsAreBusy'
  BY <1>6 DEF TypeInv, CopyTypes, LoopTypes, RunsAreBusy, copyVars
<1>8. QED  BY <1>5, <1>7

LEMMA GateStepTypes ==
  ASSUME TypeInv, NEW r \in Runs, NEW i \in Instances, GateBlocks(r, i) \/ GatePasses(r, i)
  PROVE  TargetTypes' /\ CopyTypes' /\ LoopTypes' /\ RunsAreBusy'
<1>1. pc[r] # "idle"
  BY DEF GateBlocks, GatePasses
<1>2. target[Key(r, i)] \in TargetRow /\ Key(r, i) \in Keys
  BY <1>1, KeyIsKey DEF TypeInv, TargetTypes
<1>3. ASSUME NEW t \in TargetRow, target' = [target EXCEPT ![Key(r, i)] = t]
      PROVE  target' \in [Keys -> TargetRow]
  BY <1>2, <1>3 DEF TypeInv, TargetTypes
<1>4. ASSUME NEW f \in Aged(sawFacts[r][i]), sawFacts' = [sawFacts EXCEPT ![r][i] = f]
      PROVE  sawFacts' \in [Runs -> [Instances -> FactRow]]
  BY <1>4, AgedIsFactRow DEF TypeInv, CopyTypes
<1>5. CASE GateBlocks(r, i)
  <2>1. PICK f \in Aged(sawFacts[r][i]) :
          LET verdict == Verdict(r, i, f) IN
          /\ verdict # "ok"
          /\ sawFacts' = [sawFacts EXCEPT ![r][i] = f]
          /\ target' = [target EXCEPT ![Key(r, i)] =
               IF row[r][i].state = "blocked" /\ row[r][i].reason = verdict THEN @
               ELSE [@ EXCEPT !.state = "blocked", !.reason = verdict]]
          /\ \/ /\ NeedsProbes(verdict) = {}
                /\ UNCHANGED <<pc, focus, probeKind>>
             \/ \E k \in NeedsProbes(verdict) :
                  /\ pc' = [pc EXCEPT ![r] = "backoff"]
                  /\ focus' = [focus EXCEPT ![r] = i]
                  /\ probeKind' = [probeKind EXCEPT ![r] = k]
    BY <1>5 DEF GateBlocks
  <2> DEFINE verdict == Verdict(r, i, f)
  <2>2. verdict \in Reasons
    BY <2>1, VerdictIsReason DEF Verdict
  <2>3. NeedsProbes(verdict) \subseteq ProbeKinds
    BY DEF NeedsProbes, ProbeKinds
  <2> HIDE DEF verdict
  <2>4. target' \in [Keys -> TargetRow]
    BY <1>2, <1>3, <2>1, <2>2, RowTypes DEF verdict
  <2>5. sawFacts' \in [Runs -> [Instances -> FactRow]]
    BY <1>4, <2>1
  <2>6. /\ pc' \in [Runs -> RunPcs] /\ focus' \in [Runs -> Instances]
        /\ probeKind' \in [Runs -> ProbeKinds]
        /\ \A s \in Runs : pc'[s] # "idle" => pc[s] # "idle"
    <3>0. pc \in [Runs -> RunPcs] /\ focus \in [Runs -> Instances] /\ probeKind \in [Runs -> ProbeKinds]
      BY DEF TypeInv, LoopTypes
    <3>1. CASE UNCHANGED <<pc, focus, probeKind>>
      BY <3>0, <3>1
    <3>2. ASSUME NEW k \in ProbeKinds, pc' = [pc EXCEPT ![r] = "backoff"],
                 focus' = [focus EXCEPT ![r] = i], probeKind' = [probeKind EXCEPT ![r] = k]
          PROVE  /\ pc' \in [Runs -> RunPcs] /\ focus' \in [Runs -> Instances]
                 /\ probeKind' \in [Runs -> ProbeKinds]
                 /\ \A s \in Runs : pc'[s] # "idle" => pc[s] # "idle"
      BY <1>1, <3>0, <3>2 DEF RunPcs
    <3>3. QED  BY <2>1, <2>3, <3>1, <3>2 DEF verdict
  <2>7. QED
    BY <1>5, <2>4, <2>5, <2>6, LoopGoesOnTypes
    DEF GateBlocks, TypeInv, TargetTypes, CopyTypes, LoopTypes, RunsAreBusy
<1>6. CASE GatePasses(r, i)
  <2>1. sawFacts' \in [Runs -> [Instances -> FactRow]]
    BY <1>4, <1>6 DEF GatePasses
  <2>2. AfterPass(target[Key(r, i)], row[r][i]) \in TargetRow
    BY <1>2, RowTypes DEF AfterPass
  <2>3. target' \in [Keys -> TargetRow] /\ cleared' \subseteq Keys
    BY <1>2, <1>3, <1>6, <2>2 DEF GatePasses, TypeInv, TargetTypes
  <2>4. QED
    BY <1>6, <2>1, <2>3, LoopGoesOnTypes
    DEF GatePasses, TypeInv, TargetTypes, CopyTypes, LoopTypes, RunsAreBusy
<1>7. QED  BY <1>5, <1>6

LEMMA TaskStepTypes ==
  ASSUME TypeInv, NEW r \in Runs,
         LinkTask(r) \/ \E i \in Instances : InsertTask(r, i)
  PROVE  TargetTypes' /\ CopyTypes' /\ LoopTypes' /\ RunsAreBusy'
<1>1. pc[r] # "idle"
  BY DEF LinkTask, InsertTask
<1>2. \A i \in Instances : target[Key(r, i)] \in TargetRow /\ Key(r, i) \in Keys
  BY <1>1, KeyIsKey DEF TypeInv, TargetTypes
<1>3. CASE LinkTask(r)
  <2>1. focus[r] \in Instances
    BY DEF TypeInv, LoopTypes
  <2>2. target' \in [Keys -> TargetRow]
    <3> DEFINE k == Key(r, focus[r])
    <3>1. k \in Keys /\ target[k] \in TargetRow
      BY <1>2, <2>1
    <3> HIDE DEF k
    <3>2. target' = [target EXCEPT ![k].state = "queued", ![k].tasked = TRUE]
      BY <1>3 DEF LinkTask, k
    <3>3. target' = [target EXCEPT ![k] =
                       [target[k] EXCEPT !.state = "queued", !.tasked = TRUE]]
      BY <3>1, <3>2 DEF TypeInv, TargetTypes, TargetRow
    <3>4. QED  BY <3>1, <3>3, RowTypes DEF TypeInv, TargetTypes
  <2>3. QED
    BY <1>3, <2>2
    DEF LinkTask, TypeInv, TargetTypes, CopyTypes, LoopTypes, RunsAreBusy, copyVars, RunPcs
<1>4. ASSUME NEW i \in Instances, InsertTask(r, i)
      PROVE  TargetTypes' /\ CopyTypes' /\ LoopTypes' /\ RunsAreBusy'
  <2>1. ContentOf(saw[r][Current(r)]) \in Content
    BY <1>1, KeyIsKey DEF ContentOf, Content, CampaignRow
  <2>2. execs' \in [Keys -> Seq(Content)]
    BY <1>2, <1>4, <2>1 DEF InsertTask, TypeInv, TargetTypes
  <2>3. QED
    BY <1>4, <2>2
    DEF InsertTask, TypeInv, TargetTypes, CopyTypes, LoopTypes, RunsAreBusy, copyVars, RunPcs
<1>5. QED  BY <1>3, <1>4

LEMMA ProbeStepTypes ==
  ASSUME TypeInv, NEW r \in Runs, InsertProbe(r)
  PROVE  WorldTypes' /\ CopyTypes' /\ LoopTypes' /\ RunsAreBusy'
<1>1. focus[r] \in Instances /\ probeKind[r] \in ProbeKinds
  BY DEF TypeInv, LoopTypes
<1>4. probes' \in [Instances -> [ProbeKinds -> Nat]]
  BY <1>1, FeedTypes DEF InsertProbe, FeedNext, TypeInv, WorldTypes
<1>5. WorldTypes'
  BY <1>4, FactsFrame DEF InsertProbe, TypeInv, WorldTypes, worldVars
<1>6. QED
  BY <1>5
  DEF InsertProbe, TypeInv, CopyTypes, LoopTypes, RunsAreBusy, copyVars, loopVars, RunPcs

LEMMA EndStepTypes ==
  ASSUME TypeInv, NEW r \in Runs, RunReturns(r) \/ RunStops(r)
  PROVE  TargetTypes' /\ CopyTypes' /\ LoopTypes' /\ RunsAreBusy'
<1>1. RunEnds(r)
  BY DEF RunReturns, RunStops
<1>2. crashes' \in 0 .. MaxCrashes
  BY ReconcilerConstants DEF RunReturns, RunStops, TypeInv, TargetTypes
<1>3. TargetTypes'
  BY <1>1, <1>2 DEF RunEnds, tableVars, TypeInv, TargetTypes
<1>4. CopyTypes'
  BY <1>1, NoRowsAreRows, CampaignConstants DEF RunEnds, TypeInv, CopyTypes
<1>5. LoopTypes' /\ RunsAreBusy'
  BY <1>1, NoRowsAreRows DEF RunEnds, TypeInv, LoopTypes, RunsAreBusy, RunPcs, ProbeKinds
<1>6. QED  BY <1>3, <1>4, <1>5

LEMMA TypeFrames ==
  /\ RouteTypes /\ PatchesInBound /\ UNCHANGED <<campaign, editVars>>
       => RouteTypes' /\ PatchesInBound'
  /\ WorldTypes /\ UNCHANGED <<probes, worldVars>> => WorldTypes'
  /\ TargetTypes /\ UNCHANGED <<target, execs, crashes, cleared>> => TargetTypes'
  /\ CopyTypes /\ LoopTypes /\ RunsAreBusy /\ UNCHANGED runVars
       => CopyTypes' /\ LoopTypes' /\ RunsAreBusy'
<1>1. RouteTypes /\ PatchesInBound /\ UNCHANGED <<campaign, editVars>>
        => RouteTypes' /\ PatchesInBound'
  BY DEF RouteTypes, PatchesInBound, editVars
<1>2. WorldTypes /\ UNCHANGED <<probes, worldVars>> => WorldTypes'
  BY FactsFrame DEF WorldTypes, worldVars
<1>3. TargetTypes /\ UNCHANGED <<target, execs, crashes, cleared>> => TargetTypes'
  BY DEF TargetTypes
<1>4. CopyTypes /\ LoopTypes /\ RunsAreBusy /\ UNCHANGED runVars
        => CopyTypes' /\ LoopTypes' /\ RunsAreBusy'
  BY DEF CopyTypes, LoopTypes, RunsAreBusy, runVars, copyVars, loopVars
<1>5. QED  BY <1>1, <1>2, <1>3, <1>4

\* A step of a run: which calls read, which change rows, which insert.
ReadStep(r) ==
  \/ ReadCampaigns(r) \/ ReadInstances(r) \/ ReadLabels(r) \/ BeginCampaigns(r)
  \/ ReadTargets(r) \/ ReadPending(r) \/ ReadBackoff(r) \/ LookForProbe(r)
  \/ NextCampaign(r) \/ ReadCandidates(r)
  \/ \E i \in Instances : ReadOnline(r, i)

RowStep(r) ==
  \E i \in Instances :
    AddTarget(r, i) \/ DropTarget(r, i) \/ GateBlocks(r, i) \/ GatePasses(r, i)

TaskStep(r) == LinkTask(r) \/ \E i \in Instances : InsertTask(r, i)

EndStep(r) == RunReturns(r) \/ RunStops(r)

LEMMA StepsByKind ==
  [Next]_vars =>
    \/ RouteSteps /\ UNCHANGED <<target, execs, runVars, crashes, cleared>>
    \/ WorldSteps /\ UNCHANGED <<target, execs, runVars, crashes, cleared>>
    \/ UNCHANGED vars
    \/ \E r \in Runs :
         ReadStep(r) \/ RowStep(r) \/ TaskStep(r) \/ InsertProbe(r) \/ EndStep(r)
BY DEF Next, RunSteps, ReadStep, RowStep, TaskStep, EndStep

LEMMA StepFrames ==
  ASSUME NEW r \in Runs
  PROVE  /\ ReadStep(r) => UNCHANGED <<tableVars, worldVars, crashes, cleared>>
         /\ RowStep(r) => UNCHANGED <<campaign, editVars, probes, execs, worldVars, crashes>>
         /\ TaskStep(r) => UNCHANGED <<campaign, editVars, probes, worldVars, crashes, cleared>>
         /\ InsertProbe(r) => UNCHANGED <<campaign, editVars, target, execs, worldVars, crashes, cleared>>
         /\ EndStep(r) => UNCHANGED <<tableVars, worldVars, cleared>>
<1>1. ReadStep(r) => UNCHANGED <<tableVars, worldVars, crashes, cleared>>
  BY DEF ReadStep, ReadCampaigns, ReadInstances, ReadLabels, BeginCampaigns, ReadTargets,
         ReadPending, ReadBackoff, LookForProbe, NextCampaign, ReadCandidates, ReadOnline
<1>2. RowStep(r) => UNCHANGED <<campaign, editVars, probes, execs, worldVars, crashes>>
  BY DEF RowStep, AddTarget, DropTarget, GateBlocks, GatePasses
<1>3. TaskStep(r) => UNCHANGED <<campaign, editVars, probes, worldVars, crashes, cleared>>
  BY DEF TaskStep, LinkTask, InsertTask
<1>4. InsertProbe(r) => UNCHANGED <<campaign, editVars, target, execs, worldVars, crashes, cleared>>
  BY DEF InsertProbe
<1>5. EndStep(r) => UNCHANGED <<tableVars, worldVars, cleared>>
  BY DEF EndStep, RunReturns, RunStops, RunEnds
<1>6. QED  BY <1>1, <1>2, <1>3, <1>4, <1>5

LEMMA TypeStep == ASSUME TypeInv, [Next]_vars PROVE TypeInv'
<1> USE TypeFrames
<1>0. /\ RouteTypes /\ WorldTypes /\ TargetTypes /\ CopyTypes /\ LoopTypes
      /\ PatchesInBound /\ RunsAreBusy
  BY DEF TypeInv
<1>1. CASE RouteSteps /\ UNCHANGED <<target, execs, runVars, crashes, cleared>>
  BY <1>0, <1>1, RouteStepTypes DEF TypeInv
<1>2. CASE WorldSteps /\ UNCHANGED <<target, execs, runVars, crashes, cleared>>
  BY <1>0, <1>2, WorldStepTypes DEF TypeInv, PatchesInBound, editVars
<1>3. CASE UNCHANGED vars
  BY <1>0, <1>3 DEF TypeInv, vars, tableVars
<1>4. ASSUME NEW r \in Runs,
             ReadStep(r) \/ RowStep(r) \/ TaskStep(r) \/ InsertProbe(r) \/ EndStep(r)
      PROVE  TypeInv'
  <2>1. UNCHANGED <<campaign, editVars, worldVars>>
    BY <1>4, StepFrames DEF tableVars
  <2>2. CASE ReadStep(r)
    <3>1. CopyTypes' /\ LoopTypes' /\ RunsAreBusy'
      BY <2>2, ReadStepTypes, CandidateTypes DEF ReadStep
    <3>2. QED  BY <1>0, <2>1, <2>2, <3>1, StepFrames DEF TypeInv, tableVars
  <2>3. CASE RowStep(r)
    <3>1. TargetTypes' /\ CopyTypes' /\ LoopTypes' /\ RunsAreBusy'
      BY <2>3, WriteStepTypes, GateStepTypes DEF RowStep
    <3>2. QED  BY <1>0, <2>1, <2>3, <3>1, StepFrames DEF TypeInv
  <2>4. CASE TaskStep(r)
    <3>1. TargetTypes' /\ CopyTypes' /\ LoopTypes' /\ RunsAreBusy'
      BY <2>4, TaskStepTypes DEF TaskStep
    <3>2. QED  BY <1>0, <2>1, <2>4, <3>1, StepFrames DEF TypeInv
  <2>5. CASE InsertProbe(r)
    BY <1>0, <2>1, <2>5, ProbeStepTypes, StepFrames DEF TypeInv
  <2>6. CASE EndStep(r)
    <3>1. TargetTypes' /\ CopyTypes' /\ LoopTypes' /\ RunsAreBusy'
      BY <2>6, EndStepTypes DEF EndStep
    <3>2. QED  BY <1>0, <2>1, <2>6, <3>1, StepFrames DEF TypeInv, tableVars
  <2>7. QED  BY <1>4, <2>2, <2>3, <2>4, <2>5, <2>6
<1>5. QED  BY <1>1, <1>2, <1>3, <1>4, StepsByKind

LEMMA TypeInit == Init => TypeInv
<1> SUFFICES ASSUME Init PROVE TypeInv
  OBVIOUS
<1>1. RouteTypes /\ PatchesInBound
  BY NewRowsAreRows DEF Init, CampaignInit, RouteTypes, PatchesInBound
<1>2. WorldTypes
  BY CampaignConstants, FactConstants
  DEF Init, CampaignInit, WorldTypes, FactsTypeOK, FeedInit, FactsInit, FactRow, ProbeRow,
      ProbeKinds
<1>3. TargetTypes
  BY NoRowsAreRows, ReconcilerConstants DEF Init, TargetTypes
<1>4. CopyTypes
  BY NoRowsAreRows, CampaignConstants DEF Init, CopyTypes
<1>5. LoopTypes /\ RunsAreBusy
  BY NoRowsAreRows DEF Init, LoopTypes, RunsAreBusy, RunPcs, ProbeKinds
<1>6. QED  BY <1>1, <1>2, <1>3, <1>4, <1>5 DEF TypeInv

LEMMA TypeInvariant == Spec => []TypeInv
<1>1. TypeInv /\ [Next]_vars => TypeInv'
  BY TypeStep
<1>2. QED  BY <1>1, TypeInit, PTL DEF Spec

(* The tables, the requests and the runs' copies have their types.         *)
THEOREM ReconcilerTypeCorrect == Spec => []ReconcilerTypeOK
BY TypeInvariant, TypesAreTypes, PTL

-----------------------------------------------------------------------------
(* A step belongs to one run.                                              *)

RunStep(r) ==
  ReadStep(r) \/ RowStep(r) \/ TaskStep(r) \/ InsertProbe(r) \/ EndStep(r)

\* All that is known of run s.
Own(s) ==
  <<pc[s], todo[s], saw[s], sawFacts[s], sawLabels[s], sawOnline[s], queue[s], row[s],
    focus[s], probeKind[s]>>

LEMMA OthersRest ==
  ASSUME TypeInv, NEW r \in Runs, RunStep(r), NEW s \in Runs \ {r}
  PROVE  UNCHANGED Own(s)
<1> USE DEF TypeInv, CopyTypes, LoopTypes, Own, copyVars, loopVars
<1>1. CASE ReadStep(r)
  BY <1>1
  DEF ReadStep, ReadCampaigns, ReadInstances, ReadLabels, BeginCampaigns, ReadTargets,
      ReadPending, ReadBackoff, LookForProbe, NextCampaign, ReadCandidates, ReadOnline
<1>2. CASE RowStep(r)
  <2>1. ASSUME NEW i \in Instances, AddTarget(r, i) \/ DropTarget(r, i)
        PROVE  UNCHANGED Own(s)
    BY <2>1 DEF AddTarget, DropTarget
  <2>2. ASSUME NEW i \in Instances, GateBlocks(r, i)
        PROVE  UNCHANGED Own(s)
    BY <2>2 DEF GateBlocks, LoopGoesOn
  <2>3. ASSUME NEW i \in Instances, GatePasses(r, i)
        PROVE  UNCHANGED Own(s)
    BY <2>3 DEF GatePasses, LoopGoesOn
  <2>4. QED  BY <1>2, <2>1, <2>2, <2>3 DEF RowStep
<1>3. CASE TaskStep(r)
  BY <1>3 DEF TaskStep, LinkTask, InsertTask
<1>4. CASE InsertProbe(r)
  BY <1>4 DEF InsertProbe
<1>5. CASE EndStep(r)
  BY <1>5 DEF EndStep, RunReturns, RunStops, RunEnds
<1>6. QED  BY <1>1, <1>2, <1>3, <1>4, <1>5 DEF RunStep

LEMMA SameKeys ==
  ASSUME NEW s \in Runs, UNCHANGED <<todo[s], saw[s]>>, NEW i
  PROVE  Current(s)' = Current(s) /\ Key(s, i)' = Key(s, i)
BY DEF Current, Key

\* What a run is to work on is a copy it has already, or the row it reads.
LEMMA CopiesOfRows ==
  ASSUME TypeInv, NEW r \in Runs, RunStep(r), NEW s \in Runs, NEW c \in todo'[s]
  PROVE  \/ c \in todo[s] /\ saw'[s][c] = saw[s][c]
         \/ campaign[c].status # "absent" /\ saw'[s][c] = campaign[c]
<1> USE DEF TypeInv, CopyTypes, LoopTypes
<1>1. CASE s # r
  BY <1>1, OthersRest DEF Own
<1>2. CASE s = r /\ ReadCampaigns(r)
  BY <1>2 DEF ReadCampaigns, Live
<1>3. CASE s = r /\ EndStep(r)
  BY <1>3 DEF EndStep, RunReturns, RunStops, RunEnds
<1>4. CASE s = r /\ ~ReadCampaigns(r) /\ ~EndStep(r)
  <2>1. todo'[r] \subseteq todo[r] /\ saw'[r] = saw[r]
    <3>1. CASE ReadStep(r)
      BY <1>4, <3>1
      DEF ReadStep, ReadInstances, ReadLabels, BeginCampaigns, ReadTargets, ReadPending,
          ReadBackoff, LookForProbe, NextCampaign, ReadCandidates, ReadOnline, copyVars
    <3>2. CASE RowStep(r)
      BY <3>2 DEF RowStep, AddTarget, DropTarget, GateBlocks, GatePasses, copyVars
    <3>3. CASE TaskStep(r) \/ InsertProbe(r)
      BY <3>3 DEF TaskStep, LinkTask, InsertTask, InsertProbe, copyVars
    <3>4. QED  BY <1>4, <3>1, <3>2, <3>3 DEF RunStep
  <2>2. QED  BY <1>4, <2>1
<1>5. QED  BY <1>1, <1>2, <1>3, <1>4

(***************************************************************************)
(* Probe tasks.  A run that has found none open counts as the probe it is  *)
(* about to insert: no two of these can be the same run.  A probe task that *)
(* is opened again comes on top.                                           *)
(***************************************************************************)

AtProbe(i, k) == {r \in Runs : pc[r] = "probe" /\ focus[r] = i /\ probeKind[r] = k}

ProbesInv ==
  \A i \in Instances : \A k \in ProbeKinds :
    probes[i][k] + Cardinality(AtProbe(i, k)) <= Cardinality(Runs) + reopened

LEMMA RunCount ==
  ASSUME NEW S \in SUBSET Runs
  PROVE  /\ IsFiniteSet(S) /\ Cardinality(S) \in Nat /\ Cardinality(Runs) \in Nat
         /\ Cardinality(S) <= Cardinality(Runs)
         /\ \A r \in S : Cardinality(S \ {r}) = Cardinality(S) - 1
         /\ \A r \in Runs \ S : Cardinality(S \cup {r}) = Cardinality(S) + 1
BY ReconcilerConstants, FS_Subset, FS_CardinalityType, FS_RemoveElement, FS_AddElement

LEMMA ProbeCounts ==
  ASSUME TypeInv, NEW i \in Instances, NEW k \in ProbeKinds
  PROVE  probes[i][k] \in Nat /\ reopened \in Nat
BY CampaignConstants DEF TypeInv, WorldTypes

LEMMA ProbesFrame ==
  ASSUME TypeInv, TypeInv', ProbesInv,
         \A i \in Instances : \A k \in ProbeKinds :
           probes'[i][k] + reopened <= probes[i][k] + reopened',
         \A s \in Runs : pc'[s] = "probe" =>
           pc[s] = "probe" /\ UNCHANGED <<focus[s], probeKind[s]>>
  PROVE  ProbesInv'
<1> SUFFICES ASSUME NEW i \in Instances, NEW k \in ProbeKinds
             PROVE  (probes[i][k] + Cardinality(AtProbe(i, k)) <= Cardinality(Runs) + reopened)'
  BY DEF ProbesInv
<1> DEFINE A == AtProbe(i, k)
           B == {r \in Runs : pc'[r] = "probe" /\ focus'[r] = i /\ probeKind'[r] = k}
<1>1. B \subseteq A /\ A \subseteq Runs
  BY DEF AtProbe
<1>2. IsFiniteSet(A) /\ Cardinality(A) \in Nat /\ Cardinality(B) \in Nat
  BY <1>1, RunCount
<1>3. Cardinality(B) <= Cardinality(A)
  BY <1>1, <1>2, FS_Subset
<1>4. /\ probes[i][k] \in Nat /\ probes'[i][k] \in Nat /\ Cardinality(Runs) \in Nat
      /\ reopened \in Nat /\ reopened' \in Nat
  BY ProbeCounts, RunCount, CampaignConstants DEF TypeInv, WorldTypes
<1>5. /\ probes[i][k] + Cardinality(A) <= Cardinality(Runs) + reopened
      /\ probes'[i][k] + reopened <= probes[i][k] + reopened'
  BY DEF ProbesInv
<1> HIDE DEF A, B
<1>6. probes'[i][k] + Cardinality(B) <= Cardinality(Runs) + reopened'
  BY <1>2, <1>3, <1>4, <1>5
<1>7. QED  BY <1>6 DEF AtProbe, B

LEMMA ProbesLook ==
  ASSUME TypeInv, TypeInv', ProbesInv, NEW r \in Runs, LookForProbe(r)
  PROVE  ProbesInv'
<1>1. UNCHANGED <<probes, focus, probeKind, reopened>>
  BY DEF LookForProbe, loopVars, tableVars, worldVars
<1>2. CASE ProbeMissing(r) /\ pc' = [pc EXCEPT ![r] = "probe"]
  <2> SUFFICES ASSUME NEW i \in Instances, NEW k \in ProbeKinds
               PROVE  (probes[i][k] + Cardinality(AtProbe(i, k)) <= Cardinality(Runs) + reopened)'
    BY DEF ProbesInv
  <2> DEFINE A == AtProbe(i, k)
             B == {s \in Runs : pc'[s] = "probe" /\ focus'[s] = i /\ probeKind'[s] = k}
  <2>1. B \subseteq Runs /\ A \subseteq Runs
    BY DEF AtProbe
  <2>2. Cardinality(B) \in Nat /\ Cardinality(B) <= Cardinality(Runs)
    BY <2>1, RunCount
  <2>3. CASE focus[r] = i /\ probeKind[r] = k
    <3>1. probes'[i][k] = 0
      BY <1>1, <1>2, <2>3 DEF ProbeMissing
    <3>2. QED  BY <1>1, <2>2, <3>1, ProbeCounts, RunCount DEF AtProbe
  <2>4. CASE ~(focus[r] = i /\ probeKind[r] = k)
    <3>1. B = A
      BY <1>1, <1>2, <2>4 DEF AtProbe, TypeInv, LoopTypes
    <3>2. QED  BY <1>1, <3>1 DEF ProbesInv, AtProbe
  <2>5. QED  BY <2>3, <2>4
<1>3. CASE pc' = [pc EXCEPT ![r] = "gate"]
  <2>1. \A i \in Instances : \A k \in ProbeKinds :
          probes'[i][k] + reopened <= probes[i][k] + reopened'
    BY <1>1, ProbeCounts
  <2>2. QED
    BY <1>1, <1>3, <2>1, ProbesFrame DEF TypeInv, LoopTypes
<1>4. QED  BY <1>2, <1>3 DEF LookForProbe

LEMMA ProbesInsert ==
  ASSUME TypeInv, TypeInv', ProbesInv, NEW r \in Runs, InsertProbe(r)
  PROVE  ProbesInv'
<1> SUFFICES ASSUME NEW i \in Instances, NEW k \in ProbeKinds
             PROVE  (probes[i][k] + Cardinality(AtProbe(i, k)) <= Cardinality(Runs) + reopened)'
  BY DEF ProbesInv
<1> DEFINE A == AtProbe(i, k)
           B == {s \in Runs : pc'[s] = "probe" /\ focus'[s] = i /\ probeKind'[s] = k}
<1>1. /\ UNCHANGED <<focus, probeKind, reopened>>
      /\ pc[r] = "probe" /\ pc' = [pc EXCEPT ![r] = "gate"]
  BY DEF InsertProbe, loopVars, worldVars
<1>2. A \subseteq Runs /\ probes[i][k] + Cardinality(A) <= Cardinality(Runs) + reopened
  BY DEF AtProbe, ProbesInv
<1>3. CASE focus[r] = i /\ probeKind[r] = k
  <2>1. r \in A /\ B = A \ {r}
    BY <1>1, <1>3 DEF AtProbe, TypeInv, LoopTypes
  <2>2. Cardinality(B) = Cardinality(A) - 1 /\ Cardinality(A) \in Nat
    BY <1>2, <2>1, RunCount
  <2>3. probes'[i][k] = probes[i][k] + 1 /\ probes[i][k] \in Nat
    BY <1>3, ProbeCounts DEF InsertProbe, ProbeOpens, TypeInv, WorldTypes
  <2> HIDE DEF A, B
  <2>4. probes'[i][k] + Cardinality(B) <= Cardinality(Runs) + reopened
    BY <1>2, <2>2, <2>3, RunCount, ProbeCounts
  <2>5. QED  BY <1>1, <2>4 DEF B, AtProbe
<1>4. CASE ~(focus[r] = i /\ probeKind[r] = k)
  <2>1. B = A
    BY <1>1, <1>4 DEF AtProbe, TypeInv, LoopTypes
  <2>2. probes'[i][k] = probes[i][k]
    BY <1>4 DEF InsertProbe, ProbeOpens, TypeInv, WorldTypes, LoopTypes
  <2>3. QED  BY <1>1, <1>2, <2>1, <2>2 DEF AtProbe
<1>5. QED  BY <1>3, <1>4

LEMMA ProbesStep ==
  ASSUME TypeInv, TypeInv', ProbesInv, [Next]_vars
  PROVE  ProbesInv'
<1> DEFINE NoneAdded ==
      \A i \in Instances : \A k \in ProbeKinds :
        probes'[i][k] + reopened <= probes[i][k] + reopened'
<1>1. ASSUME UNCHANGED <<probes, reopened>> PROVE NoneAdded
  BY <1>1, ProbeCounts
<1>2. CASE RouteSteps /\ UNCHANGED <<target, execs, runVars, crashes, cleared>>
  BY <1>1, <1>2, RouteStepTypes, ProbesFrame DEF runVars, loopVars, worldVars
<1>3. CASE WorldSteps /\ UNCHANGED <<target, execs, runVars, crashes, cleared>>
  <2>1. ASSUME NEW i \in Instances, NEW k \in ProbeKinds, ProbeSettles(i, k),
               UNCHANGED reopened
        PROVE  NoneAdded
    BY <2>1, ProbeCounts DEF ProbeSettles, TypeInv, WorldTypes
  <2>2. ASSUME NEW i \in Instances, NEW k \in ProbeKinds, ProbeReopens(i, k)
        PROVE  NoneAdded
    BY <2>2, ProbeCounts DEF ProbeReopens, ProbeOpens, TypeInv, WorldTypes
  <2>3. NoneAdded
    BY <1>1, <1>3, <2>1, <2>2
    DEF WorldSteps, CampaignExpires, LabelsChange, Heartbeat, HeartbeatLapses, QueueSteps,
        FactsWritten, ProbeStateWritten, worldVars
  <2>4. QED  BY <1>3, <2>3, ProbesFrame DEF runVars, loopVars
<1>4. CASE UNCHANGED vars
  BY <1>1, <1>4, ProbesFrame DEF vars, tableVars, worldVars, runVars, loopVars
<1>5. ASSUME NEW r \in Runs, RunStep(r), ~LookForProbe(r), ~InsertProbe(r)
      PROVE  ProbesInv'
  <2>1. UNCHANGED <<probes, reopened>>
    BY <1>5, StepFrames DEF RunStep, tableVars, worldVars
  <2>2. pc'[r] # "probe"
    <3>1. CASE ReadStep(r)
      BY <1>5, <3>1
      DEF ReadStep, ReadCampaigns, ReadInstances, ReadLabels, BeginCampaigns, ReadTargets,
          ReadPending, ReadBackoff, NextCampaign, ReadCandidates, ReadOnline, TypeInv, LoopTypes
    <3>2. CASE RowStep(r)
      BY <3>2
      DEF RowStep, AddTarget, DropTarget, GateBlocks, GatePasses, TypeInv, LoopTypes
    <3>3. CASE TaskStep(r) \/ EndStep(r)
      BY <3>3
      DEF TaskStep, LinkTask, InsertTask, EndStep, RunReturns, RunStops, RunEnds, TypeInv, LoopTypes
    <3>4. QED  BY <1>5, <3>1, <3>2, <3>3 DEF RunStep
  <2>3. \A s \in Runs : pc'[s] = "probe" => pc[s] = "probe" /\ UNCHANGED <<focus[s], probeKind[s]>>
    BY <1>5, <2>2, OthersRest DEF Own
  <2>4. QED  BY <1>1, <2>1, <2>3, ProbesFrame
<1>6. QED
  BY <1>2, <1>3, <1>4, <1>5, StepsByKind, ProbesLook, ProbesInsert DEF RunStep

(* However many runs overlap, each looking for open probes in one call and *)
(* inserting one in another: no more of the reconciler's probe tasks of a  *)
(* kind are open for an instance than there are runs, and settled ones     *)
(* that the task queue has opened again.                                   *)
THEOREM ProbesDoNotPileUp == Spec => []ProbesBounded
<1>1. Init => ProbesInv
  <2> SUFFICES ASSUME Init, NEW i \in Instances, NEW k \in ProbeKinds
               PROVE  probes[i][k] + Cardinality(AtProbe(i, k)) <= Cardinality(Runs) + reopened
    BY DEF ProbesInv
  <2>1. AtProbe(i, k) \subseteq Runs /\ probes[i][k] = 0
    BY DEF AtProbe, Init, CampaignInit, FeedInit
  <2>2. reopened = 0
    BY DEF Init, CampaignInit
  <2>3. QED  BY <2>1, <2>2, RunCount
<1>2. TypeInv /\ TypeInv' /\ ProbesInv /\ [Next]_vars => ProbesInv'
  BY ProbesStep
<1>3. TypeInv /\ ProbesInv => ProbesBounded
  <2> SUFFICES ASSUME TypeInv, ProbesInv, NEW i \in Instances, NEW k \in ProbeKinds
               PROVE  probes[i][k] <= Cardinality(Runs) + reopened
    BY DEF ProbesBounded
  <2>1. AtProbe(i, k) \subseteq Runs
    BY DEF AtProbe
  <2>2. QED  BY <2>1, RunCount, ProbeCounts DEF ProbesInv
<1>4. QED  BY <1>1, <1>2, <1>3, TypeInvariant, PTL DEF Spec

(* Of what it shares with the task queue the reconciler changes one thing, *)
(* in one way: it adds a probe task.  All else that happens to the facts,  *)
(* the probe states and the open probe tasks is a step of ProbeFeed, too.  *)
THEOREM ReconcilerUsesFeed == Spec => FeedSpec
<1>1. Init => FeedInit
  BY DEF Init, CampaignInit
<1>2. ASSUME TypeInv, [Next]_vars PROVE [FeedNext]_feedVars
  <2>1. CASE RouteSteps /\ UNCHANGED <<target, execs, runVars, crashes, cleared>>
    BY <1>2, <2>1, RouteStepTypes DEF worldVars, feedVars, factVars
  <2>2. CASE WorldSteps /\ UNCHANGED <<target, execs, runVars, crashes, cleared>>
    BY <2>2
    DEF WorldSteps, CampaignExpires, LabelsChange, Heartbeat, HeartbeatLapses, QueueSteps,
        ProbeReopens, FeedNext, worldVars, feedVars, factVars
  <2>3. CASE UNCHANGED vars
    BY <2>3 DEF vars, tableVars, worldVars, feedVars, factVars
  <2>4. ASSUME NEW r \in Runs, InsertProbe(r) PROVE FeedNext
    BY <1>2, <2>4 DEF InsertProbe, FeedNext, TypeInv, LoopTypes
  <2>5. ASSUME NEW r \in Runs, ReadStep(r) \/ RowStep(r) \/ TaskStep(r) \/ EndStep(r)
        PROVE  UNCHANGED feedVars
    BY <2>5, StepFrames DEF tableVars, worldVars, feedVars, factVars
  <2>6. QED  BY <1>2, <2>1, <2>2, <2>3, <2>4, <2>5, StepsByKind
<1>3. QED  BY <1>1, <1>2, TypeInvariant, PTL DEF Spec, FeedSpec

-----------------------------------------------------------------------------
(***************************************************************************)
(* Tasks of one target.  A target without a known task has at most one     *)
(* task for each run that is about to update its row and one for each run  *)
(* that stopped before it could.  Once a task is known only the runs that  *)
(* had read the row before still insert one.                               *)
(***************************************************************************)

Linking(k) == {r \in Runs : pc[r] = "link" /\ Key(r, focus[r]) = k}

Inserting(k) ==
  {r \in Runs : pc[r] \in {"queue", "link"} /\ \E i \in queue[r] : Key(r, i) = k} \ Linking(k)

TasksOf(k) ==
  /\ ~target[k].tasked => Len(execs[k]) <= crashes + Cardinality(Linking(k))
  /\ target[k].tasked =>
       Len(execs[k]) + Cardinality(Inserting(k)) <= crashes + Cardinality(Runs)

TasksInv == \A k \in Keys : TasksOf(k)

LEMMA TaskCounts ==
  ASSUME TypeInv, NEW k \in Keys
  PROVE  /\ Len(execs[k]) \in Nat /\ crashes \in Nat /\ Cardinality(Runs) \in Nat
         /\ Linking(k) \subseteq Runs /\ Inserting(k) \subseteq Runs
         /\ Cardinality(Linking(k)) \in Nat /\ Cardinality(Inserting(k)) \in Nat
         /\ Cardinality(Linking(k)) <= Cardinality(Runs)
         /\ Cardinality(Linking(k)) + Cardinality(Inserting(k)) <= Cardinality(Runs)
<1> DEFINE L == Linking(k)
           P == Inserting(k)
<1>1. L \subseteq Runs /\ P \subseteq Runs /\ L \cap P = {}
  BY DEF Linking, Inserting
<1>2. Len(execs[k]) \in Nat /\ crashes \in Nat
  BY ReconcilerConstants DEF TypeInv, TargetTypes
<1> HIDE DEF L, P
<1>3. /\ IsFiniteSet(L) /\ IsFiniteSet(P)
      /\ Cardinality(L) \in Nat /\ Cardinality(P) \in Nat /\ Cardinality(Runs) \in Nat
      /\ Cardinality(L) <= Cardinality(Runs)
  BY <1>1, RunCount
<1>4. Cardinality(L \cup P) = Cardinality(L) + Cardinality(P) - Cardinality(L \cap P)
  BY <1>3, FS_Union
<1>5. Cardinality(L \cap P) = 0
  BY <1>1, FS_EmptySet
<1>6. L \cup P \subseteq Runs
  BY <1>1
<1>7. Cardinality(L \cup P) <= Cardinality(Runs)
  BY <1>6, RunCount
<1>8. Cardinality(L) + Cardinality(P) <= Cardinality(Runs)
  BY <1>3, <1>4, <1>5, <1>7
<1>9. QED  BY <1>1, <1>2, <1>3, <1>8 DEF L, P

\* No run comes to insert or to link a task of k that did not before.
LEMMA TasksFrame ==
  ASSUME TypeInv, TypeInv', NEW k \in Keys, TasksOf(k),
         target'[k].tasked = target[k].tasked, Len(execs'[k]) = Len(execs[k]),
         crashes' >= crashes,
         Cardinality(Linking(k)) + crashes <= Cardinality(Linking(k))' + crashes',
         target[k].tasked => Inserting(k)' \subseteq Inserting(k)
  PROVE  TasksOf(k)'
<1> DEFINE P == Inserting(k)
           Q == Inserting(k)'
           n == Cardinality(Linking(k))
           m == Cardinality(Linking(k))'
<1>1. /\ Len(execs[k]) \in Nat /\ crashes \in Nat /\ crashes' \in Nat /\ n \in Nat
      /\ P \subseteq Runs /\ Cardinality(Runs) \in Nat
  BY TaskCounts, ReconcilerConstants DEF TypeInv, TargetTypes
<1>2. Q \subseteq Runs /\ {r \in Runs : pc'[r] = "link" /\ Key(r, focus[r])' = k} \subseteq Runs
  BY DEF Inserting
<1>3. m \in Nat
  BY <1>2, RunCount DEF Linking
<1>4. Q \subseteq P => Cardinality(Q) <= Cardinality(P)
  BY <1>1, RunCount, FS_Subset
<1>5. Cardinality(P) \in Nat /\ Cardinality(Q) \in Nat
  BY <1>1, <1>2, RunCount
<1>6. /\ ~target[k].tasked => Len(execs[k]) <= crashes + n
      /\ target[k].tasked => Len(execs[k]) + Cardinality(P) <= crashes + Cardinality(Runs)
  BY DEF TasksOf
<1>7. n + crashes <= m + crashes'
  OBVIOUS
<1>8. ASSUME ~target[k].tasked PROVE Len(execs[k]) <= crashes' + m
  <2>1. ASSUME NEW len \in Nat, NEW c \in Nat, NEW d \in Nat, NEW x \in Nat, NEW y \in Nat,
               len <= c + x, x + c <= y + d
        PROVE  len <= d + y
    BY <2>1
  <2>2. Len(execs[k]) <= crashes + n
    BY <1>6, <1>8
  <2> HIDE DEF n, m
  <2>3. QED  BY <1>1, <1>3, <1>7, <2>1, <2>2
<1>11. target[k].tasked => Q \subseteq P
  OBVIOUS
<1> HIDE DEF P, Q, n, m
<1>9. target[k].tasked => Len(execs[k]) + Cardinality(Q) <= crashes' + Cardinality(Runs)
  BY <1>1, <1>4, <1>5, <1>6, <1>11
<1>10. QED  BY <1>8, <1>9 DEF TasksOf, Q, m

\* Runs whose own state is as before.
LEMMA SameRuns ==
  ASSUME NEW s \in Runs, UNCHANGED Own(s), NEW k
  PROVE  /\ s \in Linking(k)' <=> s \in Linking(k)
         /\ s \in Inserting(k)' <=> s \in Inserting(k)
BY SameKeys DEF Own, Linking, Inserting

\* Only LinkTask makes a task known, only InsertTask inserts one.
LEMMA TaskedStays ==
  ASSUME TypeInv, NEW r \in Runs, RunStep(r), NEW k \in Keys
  PROVE  /\ ~LinkTask(r) => target'[k].tasked = target[k].tasked
         /\ ~(\E i \in Instances : InsertTask(r, i)) => execs' = execs
         /\ ~RunStops(r) => crashes' = crashes
<1>1. ASSUME ~LinkTask(r) PROVE target'[k].tasked = target[k].tasked
  <2>1. ASSUME UNCHANGED target PROVE target'[k].tasked = target[k].tasked
    BY <2>1
  <2>2. ASSUME NEW i \in Instances, AddTarget(r, i) \/ DropTarget(r, i)
        PROVE  target'[k].tasked = target[k].tasked
    <3>1. target \in [Keys -> TargetRow] /\ target[k] \in TargetRow
      BY DEF TypeInv, TargetTypes
    <3>2. CASE AddTarget(r, i)
      BY <3>1, <3>2 DEF AddTarget, TargetRow
    <3>3. CASE DropTarget(r, i)
      BY <3>1, <3>3 DEF DropTarget, TargetRow
    <3>4. QED  BY <2>2, <3>2, <3>3
  <2>3. ASSUME NEW i \in Instances, GateBlocks(r, i)
        PROVE  target'[k].tasked = target[k].tasked
    BY <2>3 DEF GateBlocks, TypeInv, TargetTypes, TargetRow
  <2>4. ASSUME NEW i \in Instances, GatePasses(r, i)
        PROVE  target'[k].tasked = target[k].tasked
    BY <2>4 DEF GatePasses, AfterPass, TypeInv, TargetTypes, TargetRow
  <2>5. CASE ReadStep(r) \/ InsertProbe(r) \/ EndStep(r)
    BY <2>1, <2>5, StepFrames DEF tableVars
  <2>6. CASE TaskStep(r)
    BY <1>1, <2>1, <2>6 DEF TaskStep, InsertTask
  <2>7. QED  BY <1>1, <2>1, <2>2, <2>3, <2>4, <2>5, <2>6 DEF RunStep, RowStep
<1>2. ASSUME ~(\E i \in Instances : InsertTask(r, i)) PROVE execs' = execs
  BY <1>2, StepFrames DEF RunStep, TaskStep, LinkTask, tableVars
<1>3. ASSUME ~RunStops(r) PROVE crashes' = crashes
  BY <1>3, StepFrames DEF RunStep, EndStep, RunReturns
<1>4. QED  BY <1>1, <1>2, <1>3

LEMMA TasksQuiet ==
  ASSUME TypeInv, TypeInv', TasksInv, NEW r \in Runs, RunStep(r), NEW k \in Keys,
         ~(\E i \in Instances : InsertTask(r, i)), ~LinkTask(r), ~RunStops(r)
  PROVE  TasksOf(k)'
<1>1. /\ pc[r] = "link" => FALSE
      /\ pc[r] = "queue" => queue[r] = {}
      /\ pc'[r] # "link"
      /\ pc'[r] = "queue" => ReadPending(r)
  <2>1. CASE ReadStep(r)
    BY <2>1
    DEF ReadStep, ReadCampaigns, ReadInstances, ReadLabels, BeginCampaigns, ReadTargets,
        ReadPending, ReadBackoff, LookForProbe, NextCampaign, ReadCandidates, ReadOnline,
        TypeInv, LoopTypes
  <2>2. CASE RowStep(r)
    BY <2>2 DEF RowStep, AddTarget, DropTarget, GateBlocks, GatePasses, TypeInv, LoopTypes
  <2>3. CASE InsertProbe(r) \/ RunReturns(r)
    BY <2>3 DEF InsertProbe, RunReturns, RunEnds, TypeInv, LoopTypes
  <2>4. QED  BY <2>1, <2>2, <2>3 DEF RunStep, TaskStep, EndStep
<1>2. r \notin Linking(k) /\ r \notin Linking(k)' /\ r \notin Inserting(k)
  BY <1>1 DEF Linking, Inserting
<1>3. target[k].tasked => r \notin Inserting(k)'
  <2>1. CASE pc'[r] = "queue"
    <3>1. /\ queue'[r] = Untasked(r) /\ pc[r] # "idle"
          /\ UNCHANGED <<todo[r], saw[r]>>
      BY <1>1, <2>1 DEF ReadPending, copyVars, TypeInv, LoopTypes
    <3>2. \A i \in Untasked(r) : ~target[Key(r, i)].tasked
      BY DEF Untasked
    <3>3. QED  BY <3>1, <3>2, SameKeys DEF Inserting
  <2>2. CASE pc'[r] # "queue"
    BY <1>1, <2>2 DEF Inserting
  <2>3. QED  BY <2>1, <2>2
<1>4. \A s \in Runs \ {r} : /\ s \in Linking(k)' <=> s \in Linking(k)
                            /\ s \in Inserting(k)' <=> s \in Inserting(k)
  BY OthersRest, SameRuns
<1>5. Linking(k)' = Linking(k)
  BY <1>2, <1>4 DEF Linking
<1>6. target[k].tasked => Inserting(k)' \subseteq Inserting(k)
  BY <1>3, <1>4 DEF Inserting
<1>7. /\ target'[k].tasked = target[k].tasked /\ execs' = execs /\ crashes' = crashes
      /\ crashes \in Nat /\ Cardinality(Linking(k)) \in Nat
  BY TaskedStays, TaskCounts
<1>8. QED  BY <1>5, <1>6, <1>7, TasksFrame DEF TasksInv

LEMMA TasksStop ==
  ASSUME TypeInv, TypeInv', TasksInv, NEW r \in Runs, RunStops(r), NEW k \in Keys
  PROVE  TasksOf(k)'
<1>0. RunStep(r) /\ crashes' = crashes + 1 /\ pc'[r] = "idle"
  BY DEF RunStep, EndStep, RunStops, RunEnds, TypeInv, LoopTypes
<1>1. UNCHANGED <<target, execs>>
  BY DEF RunStops, RunEnds, tableVars
<1>2. \A s \in Runs \ {r} : /\ s \in Linking(k)' <=> s \in Linking(k)
                            /\ s \in Inserting(k)' <=> s \in Inserting(k)
  BY <1>0, OthersRest, SameRuns
<1>3. r \notin Linking(k)' /\ r \notin Inserting(k)'
  BY <1>0 DEF Linking, Inserting
<1>4. Linking(k)' = Linking(k) \ {r} /\ Inserting(k)' \subseteq Inserting(k)
  BY <1>2, <1>3 DEF Linking, Inserting
<1>5. crashes \in Nat /\ Cardinality(Linking(k)) \in Nat /\ Linking(k) \subseteq Runs
  BY TaskCounts
<1>6. Cardinality(Linking(k) \ {r}) >= Cardinality(Linking(k)) - 1
  <2>1. CASE r \in Linking(k)
    BY <1>5, <2>1, RunCount
  <2>2. CASE r \notin Linking(k)
    <3>1. Linking(k) \ {r} = Linking(k)
      BY <2>2
    <3>2. QED  BY <1>5, <3>1
  <2>3. QED  BY <2>1, <2>2
<1>7. Linking(k) \ {r} \subseteq Runs
  BY <1>5
<1>8. Cardinality(Linking(k) \ {r}) \in Nat
  BY <1>7, RunCount
<1>9. Cardinality(Linking(k)) + crashes <= Cardinality(Linking(k))' + crashes'
  BY <1>0, <1>4, <1>5, <1>6, <1>8
<1>10. crashes' >= crashes /\ Len(execs'[k]) = Len(execs[k]) /\ target'[k].tasked = target[k].tasked
  BY <1>0, <1>1, <1>5
<1>11. TasksOf(k)
  BY DEF TasksInv
<1>12. QED  BY <1>4, <1>9, <1>10, <1>11, TasksFrame

LEMMA TasksInsert ==
  ASSUME TypeInv, TypeInv', TasksInv, NEW r \in Runs, NEW i \in Instances,
         InsertTask(r, i), NEW k \in Keys
  PROVE  TasksOf(k)'
<1>0. RunStep(r) /\ pc[r] = "queue" /\ pc'[r] = "link" /\ i \in queue[r] /\ focus'[r] = i
  BY DEF RunStep, TaskStep, InsertTask, TypeInv, LoopTypes
<1>1. UNCHANGED <<target, crashes, todo, saw, queue>>
  BY DEF InsertTask, copyVars
<1>2. \A s \in Runs \ {r} : /\ s \in Linking(k)' <=> s \in Linking(k)
                            /\ s \in Inserting(k)' <=> s \in Inserting(k)
  BY <1>0, OthersRest, SameRuns
<1>3. /\ \A j : Key(r, j)' = Key(r, j)
      /\ \A j \in Instances : Key(r, j) = Key(r, i) => j = i
      /\ Key(r, i) \in Keys /\ queue[r] \subseteq Instances
  BY <1>0, <1>1, SameKeys, KeyIsKey DEF TypeInv, LoopTypes
<1>4. CASE k = Key(r, i)
  <2>1. r \notin Linking(k) /\ r \in Inserting(k)
    BY <1>0, <1>4 DEF Linking, Inserting
  <2>2. r \in Linking(k)' /\ r \notin Inserting(k)'
    BY <1>0, <1>3, <1>4 DEF Linking, Inserting
  <2>3. Linking(k)' = Linking(k) \cup {r} /\ Inserting(k)' = Inserting(k) \ {r}
    BY <1>2, <2>1, <2>2 DEF Linking, Inserting
  <2>4. Len(execs'[k]) = Len(execs[k]) + 1
    BY <1>3, <1>4 DEF InsertTask, TypeInv, TargetTypes
  <2>5. /\ Cardinality(Linking(k) \cup {r}) = Cardinality(Linking(k)) + 1
        /\ Cardinality(Inserting(k) \ {r}) = Cardinality(Inserting(k)) - 1
    BY <2>1, TaskCounts, RunCount
  <2>6. ASSUME ~target[k].tasked
        PROVE  Len(execs'[k]) <= crashes' + Cardinality(Linking(k))'
    BY <1>1, <2>3, <2>4, <2>5, <2>6, TaskCounts DEF TasksInv, TasksOf
  <2>7. ASSUME target[k].tasked
        PROVE  Len(execs'[k]) + Cardinality(Inserting(k))' <= crashes' + Cardinality(Runs)
    BY <1>1, <2>3, <2>4, <2>5, <2>7, TaskCounts DEF TasksInv, TasksOf
  <2>8. QED  BY <1>1, <2>6, <2>7 DEF TasksOf
<1>5. CASE k # Key(r, i)
  <2>1. r \notin Linking(k) /\ r \notin Linking(k)' /\ (r \in Inserting(k)' <=> r \in Inserting(k))
    BY <1>0, <1>1, <1>3, <1>5 DEF Linking, Inserting
  <2>2. Linking(k)' = Linking(k) /\ Inserting(k)' = Inserting(k)
    BY <1>2, <2>1 DEF Linking, Inserting
  <2>3. execs'[k] = execs[k]
    BY <1>5 DEF InsertTask, TypeInv, TargetTypes
  <2>4. QED  BY <1>1, <2>2, <2>3, TaskCounts, TasksFrame DEF TasksInv
<1>6. QED  BY <1>4, <1>5

LEMMA TasksLink ==
  ASSUME TypeInv, TypeInv', TasksInv, NEW r \in Runs, LinkTask(r), NEW k \in Keys
  PROVE  TasksOf(k)'
<1> DEFINE i == focus[r]
<1>0. /\ RunStep(r) /\ pc[r] = "link" /\ pc'[r] = "queue"
      /\ queue'[r] = queue[r] \ {i} /\ i \in Instances
  BY DEF RunStep, TaskStep, LinkTask, TypeInv, LoopTypes
<1>1. UNCHANGED <<execs, crashes, todo, saw, focus>>
  BY DEF LinkTask, copyVars
<1>2. \A s \in Runs \ {r} : /\ s \in Linking(k)' <=> s \in Linking(k)
                            /\ s \in Inserting(k)' <=> s \in Inserting(k)
  BY <1>0, OthersRest, SameRuns
<1>3. /\ \A j : Key(r, j)' = Key(r, j)
      /\ \A j \in Instances : Key(r, j) = Key(r, i) => j = i
      /\ Key(r, i) \in Keys /\ queue[r] \subseteq Instances
  BY <1>0, <1>1, SameKeys, KeyIsKey DEF TypeInv, LoopTypes
<1> HIDE DEF i
<1>4. CASE k = Key(r, i)
  <2>1. r \in Linking(k) /\ r \notin Inserting(k)
    BY <1>0, <1>4 DEF Linking, Inserting, i
  <2>2. r \notin Linking(k)' /\ r \notin Inserting(k)'
    BY <1>0, <1>3, <1>4 DEF Linking, Inserting
  <2>3. Inserting(k)' = Inserting(k)
    BY <1>2, <2>1, <2>2 DEF Inserting
  <2>4. Cardinality(Linking(k)) >= 1 /\ target'[k].tasked
    <3>1. Cardinality(Linking(k) \ {r}) = Cardinality(Linking(k)) - 1
      BY <2>1, TaskCounts, RunCount
    <3>2. Linking(k) \ {r} \subseteq Runs
      BY TaskCounts
    <3>3. Cardinality(Linking(k) \ {r}) \in Nat
      BY <3>2, RunCount
    <3>4. target'[k].tasked
      BY <1>3, <1>4 DEF LinkTask, TypeInv, TargetTypes, TargetRow, i
    <3>5. QED  BY <3>1, <3>3, <3>4, TaskCounts
  <2>5. Len(execs[k]) + Cardinality(Inserting(k)) <= crashes + Cardinality(Runs)
    <3>1. CASE target[k].tasked
      BY <3>1 DEF TasksInv, TasksOf
    <3>2. CASE ~target[k].tasked
      BY <3>2, TaskCounts DEF TasksInv, TasksOf
    <3>3. QED  BY <3>1, <3>2
  <2>6. QED  BY <1>1, <2>3, <2>4, <2>5 DEF TasksOf
<1>5. CASE k # Key(r, i)
  <2>1. r \notin Linking(k) /\ r \notin Linking(k)' /\ (r \in Inserting(k)' <=> r \in Inserting(k))
    BY <1>0, <1>1, <1>3, <1>5 DEF Linking, Inserting, i
  <2>2. Linking(k)' = Linking(k) /\ Inserting(k)' = Inserting(k)
    BY <1>2, <2>1 DEF Linking, Inserting
  <2>3. target'[k] = target[k]
    BY <1>3, <1>5 DEF LinkTask, TypeInv, TargetTypes, i
  <2>4. QED  BY <1>1, <2>2, <2>3, TaskCounts, TasksFrame DEF TasksInv
<1>6. QED  BY <1>4, <1>5

LEMMA TasksStep ==
  ASSUME TypeInv, TypeInv', TasksInv, [Next]_vars
  PROVE  TasksInv'
<1> SUFFICES ASSUME NEW k \in Keys PROVE TasksOf(k)'
  BY DEF TasksInv
<1>1. CASE UNCHANGED <<target, execs, runVars, crashes>>
  <2>1. UNCHANGED <<pc, todo, saw, queue, focus>>
    BY <1>1 DEF runVars, copyVars, loopVars
  <2>2. UNCHANGED <<Linking(k), Inserting(k)>>
    BY <2>1, SameKeys DEF Linking, Inserting
  <2>3. QED  BY <1>1, <2>2, TaskCounts, TasksFrame DEF TasksInv
<1>2. CASE \E r \in Runs : RunStep(r)
  BY <1>2, TasksQuiet, TasksStop, TasksInsert, TasksLink
<1>3. QED
  BY <1>1, <1>2, StepsByKind DEF RunStep, vars, tableVars

LEMMA TasksInvariant == Spec => []TasksInv
<1>1. Init => TasksInv
  <2> SUFFICES ASSUME Init, NEW k \in Keys PROVE TasksOf(k)
    BY DEF TasksInv
  <2>1. TypeInv /\ Len(execs[k]) = 0 /\ ~target[k].tasked /\ crashes = 0
    BY TypeInit DEF Init, NoTarget
  <2>2. QED  BY <2>1, TaskCounts DEF TasksOf
<1>2. TypeInv /\ TypeInv' /\ TasksInv /\ [Next]_vars => TasksInv'
  BY TasksStep
<1>3. QED  BY <1>1, <1>2, TypeInvariant, PTL DEF Spec

(* However many runs overlap and whichever of them stop half way: a target *)
(* is given at most one task for each run that may overlap and one for     *)
(* each run that has stopped.                                              *)
THEOREM TasksAreBounded == Spec => []ExecutionsBounded
<1>1. TypeInv /\ TasksInv => ExecutionsBounded
  <2> SUFFICES ASSUME TypeInv, TasksInv, NEW k \in Keys
               PROVE  Len(execs[k]) <= Cardinality(Runs) + crashes
    BY DEF ExecutionsBounded
  <2>1. CASE target[k].tasked
    BY <2>1, TaskCounts DEF TasksInv, TasksOf
  <2>2. CASE ~target[k].tasked
    BY <2>2, TaskCounts DEF TasksInv, TasksOf
  <2>3. QED  BY <2>1, <2>2
<1>2. QED  BY <1>1, TypeInvariant, TasksInvariant, PTL

-----------------------------------------------------------------------------
(***************************************************************************)
(* Runs that do not overlap.  Then the row that the gate's loop works on   *)
(* is the row in the table, a target left pending has passed the gate, and *)
(* what a run is about to insert is as it was selected.                    *)
(***************************************************************************)

OneRun == \A r, s \in Runs : r = s

GateLoop == {"gate", "backoff", "look", "probe"}
TaskLoop == {"queue", "link"}

CandidatesAsRead(r) ==
  \A i \in Instances :
    /\ i \in queue[r] =>
         row[r][i] = target[Key(r, i)] /\ target[Key(r, i)].state \in {"pending", "blocked"}
    /\ i \notin queue[r] /\ target[Key(r, i)].state = "pending" => Key(r, i) \in cleared

SelectedAsRead(r) ==
  \A i \in queue[r] :
    /\ Key(r, i) \in cleared
    /\ target[Key(r, i)].state = "pending" /\ ~target[Key(r, i)].tasked

AboutToLink(r) == focus[r] \in queue[r] /\ execs[Key(r, focus[r])] # <<>>

LoopInv(r) ==
  /\ pc[r] \in GateLoop => CandidatesAsRead(r)
  /\ pc[r] \in TaskLoop => SelectedAsRead(r)
  /\ pc[r] = "link" => AboutToLink(r)

SingleInv == GateIsChecked /\ \A r \in Runs : LoopInv(r)

\* Nothing the run is at has changed.
LEMMA LoopFrame ==
  ASSUME NEW r \in Runs, LoopInv(r),
         UNCHANGED <<pc[r], todo[r], saw[r], queue[r], row[r], focus[r], target, execs, cleared>>
  PROVE  LoopInv(r)'
<1>1. \A i : Key(r, i)' = Key(r, i)
  BY SameKeys
<1>2. CandidatesAsRead(r) => CandidatesAsRead(r)'
  BY <1>1 DEF CandidatesAsRead
<1>3. SelectedAsRead(r) => SelectedAsRead(r)'
  BY <1>1 DEF SelectedAsRead
<1>4. AboutToLink(r) => AboutToLink(r)'
  BY <1>1 DEF AboutToLink
<1>5. QED  BY <1>2, <1>3, <1>4 DEF LoopInv

LEMMA LoopRead ==
  ASSUME TypeInv, NEW r \in Runs, LoopInv(r), ReadStep(r)
  PROVE  LoopInv(r)'
<1> USE DEF TypeInv, LoopTypes
<1>0. UNCHANGED <<target, execs, cleared>>
  BY StepFrames DEF tableVars
<1>1. CASE ReadCandidates(r)
  <2>1. pc'[r] = "gate" /\ UNCHANGED <<todo, saw>>
    BY <1>1 DEF ReadCandidates, copyVars
  <2>2. \A i : Key(r, i)' = Key(r, i)
    BY <2>1, SameKeys
  <2>3. queue'[r] = TargetsIn(r, {"pending", "blocked"})
    BY <1>1 DEF ReadCandidates
  <2>4. \A i \in Instances : i \in queue'[r] => row'[r][i] = target[Key(r, i)]
    BY <1>1 DEF ReadCandidates
  <2>5. CandidatesAsRead(r)'
    BY <1>0, <2>2, <2>3, <2>4 DEF CandidatesAsRead, TargetsIn
  <2>6. QED  BY <2>1, <2>5 DEF LoopInv, TaskLoop
<1>2. CASE ReadPending(r)
  <2>1. pc[r] = "gate" /\ queue[r] = {} /\ pc'[r] = "queue" /\ UNCHANGED <<todo, saw>>
    BY <1>2 DEF ReadPending, copyVars
  <2>2. \A i : Key(r, i)' = Key(r, i)
    BY <2>1, SameKeys
  <2>3. CandidatesAsRead(r) /\ queue'[r] = Untasked(r)
    BY <1>2, <2>1 DEF LoopInv, GateLoop, ReadPending
  <2>4. SelectedAsRead(r)'
    BY <1>0, <2>1, <2>2, <2>3 DEF CandidatesAsRead, SelectedAsRead, Untasked, TargetsIn
  <2>5. QED  BY <2>1, <2>4 DEF LoopInv, GateLoop
<1>3. CASE ReadBackoff(r) \/ LookForProbe(r)
  <2>1. /\ pc[r] \in GateLoop /\ pc'[r] \in GateLoop
        /\ UNCHANGED <<todo, saw, queue, row>>
    BY <1>3 DEF ReadBackoff, LookForProbe, copyVars, loopVars, GateLoop
  <2>2. \A i : Key(r, i)' = Key(r, i)
    BY <2>1, SameKeys
  <2>3. CandidatesAsRead(r)'
    BY <1>0, <2>1, <2>2 DEF LoopInv, CandidatesAsRead
  <2>4. QED  BY <2>1, <2>3 DEF LoopInv, GateLoop, TaskLoop
<1>4. CASE \/ ReadCampaigns(r) \/ ReadInstances(r) \/ ReadLabels(r) \/ BeginCampaigns(r)
           \/ ReadTargets(r) \/ NextCampaign(r) \/ \E i \in Instances : ReadOnline(r, i)
  <2>1. pc'[r] \notin GateLoop \cup TaskLoop
    BY <1>4
    DEF ReadCampaigns, ReadInstances, ReadLabels, BeginCampaigns, ReadTargets, NextCampaign,
        ReadOnline, GateLoop, TaskLoop
  <2>2. QED  BY <2>1 DEF LoopInv, TaskLoop
<1>5. QED  BY <1>1, <1>2, <1>3, <1>4 DEF ReadStep

LEMMA LoopRow ==
  ASSUME TypeInv, NEW r \in Runs, LoopInv(r), RowStep(r)
  PROVE  LoopInv(r)'
<1> USE DEF TypeInv, LoopTypes
<1>1. PICK i \in Instances :
        AddTarget(r, i) \/ DropTarget(r, i) \/ GateBlocks(r, i) \/ GatePasses(r, i)
  BY DEF RowStep
<1>2. pc[r] # "idle" /\ UNCHANGED <<todo, saw, execs>>
  BY <1>1 DEF AddTarget, DropTarget, GateBlocks, GatePasses, copyVars
<1>3. /\ \A j : Key(r, j)' = Key(r, j)
      /\ \A j \in Instances : Key(r, j) \in Keys
      /\ \A j, k \in Instances : Key(r, j) = Key(r, k) => j = k
      /\ target \in [Keys -> TargetRow]
  BY <1>2, SameKeys, KeyIsKey DEF TargetTypes
<1>4. CASE AddTarget(r, i) \/ DropTarget(r, i)
  BY <1>4 DEF AddTarget, DropTarget, LoopInv, GateLoop, TaskLoop
<1>5. CASE GateBlocks(r, i) \/ GatePasses(r, i)
  <2>1. /\ pc[r] \in GateLoop /\ pc'[r] \in GateLoop /\ i \in queue[r]
        /\ queue'[r] = queue[r] \ {i}
        /\ \A j \in Instances \ {i} : row'[r][j] = row[r][j]
    <3>1. pc[r] = "gate" /\ pc'[r] \in {"gate", "backoff"} /\ i \in queue[r]
      BY <1>5 DEF GateBlocks, GatePasses
    <3>2. LoopGoesOn(r, i)
      BY <1>5 DEF GateBlocks, GatePasses
    <3>3. QED  BY <3>1, <3>2 DEF LoopGoesOn, GateLoop
  <2>2. \A j \in Instances \ {i} : target'[Key(r, j)] = target[Key(r, j)]
    BY <1>3, <1>5 DEF GateBlocks, GatePasses
  <2>3. CandidatesAsRead(r)
    BY <2>1 DEF LoopInv
  <2>4. cleared \subseteq cleared'
    BY <1>5 DEF GateBlocks, GatePasses
  <2>5. target'[Key(r, i)].state = "pending" => Key(r, i) \in cleared'
    <3>1. CASE GateBlocks(r, i)
      <4>1. row[r][i] = target[Key(r, i)]
        BY <2>1, <2>3 DEF CandidatesAsRead
      <4>2. \E reason :
              target' = [target EXCEPT ![Key(r, i)] =
                IF row[r][i].state = "blocked" /\ row[r][i].reason = reason THEN @
                ELSE [@ EXCEPT !.state = "blocked", !.reason = reason]]
        BY <3>1 DEF GateBlocks
      <4>3. target'[Key(r, i)].state = "blocked"
        BY <1>3, <4>1, <4>2 DEF TargetRow
      <4>4. QED  BY <4>3
    <3>2. CASE GatePasses(r, i)
      BY <3>2 DEF GatePasses
    <3>3. QED  BY <1>5, <3>1, <3>2
  <2>6. CandidatesAsRead(r)'
    BY <1>3, <2>1, <2>2, <2>3, <2>4, <2>5 DEF CandidatesAsRead
  <2>7. QED  BY <2>1, <2>6 DEF LoopInv, GateLoop, TaskLoop
<1>6. QED  BY <1>1, <1>4, <1>5

LEMMA LoopTask ==
  ASSUME TypeInv, NEW r \in Runs, LoopInv(r), TaskStep(r)
  PROVE  LoopInv(r)'
<1> USE DEF TypeInv, LoopTypes
<1>1. /\ pc[r] \in TaskLoop /\ pc'[r] \in TaskLoop /\ pc[r] # "idle"
      /\ UNCHANGED <<todo, saw, cleared>>
  BY DEF TaskStep, LinkTask, InsertTask, copyVars, TaskLoop
<1>2. /\ \A j : Key(r, j)' = Key(r, j)
      /\ \A j \in Instances : Key(r, j) \in Keys
      /\ \A j, k \in Instances : Key(r, j) = Key(r, k) => j = k
      /\ target \in [Keys -> TargetRow] /\ execs \in [Keys -> Seq(Content)]
  BY <1>1, SameKeys, KeyIsKey DEF TargetTypes
<1>3. SelectedAsRead(r) /\ queue[r] \subseteq Instances
  BY <1>1 DEF LoopInv
<1>4. ASSUME NEW i \in Instances, InsertTask(r, i)
      PROVE  LoopInv(r)'
  <2>1. UNCHANGED <<target, queue>> /\ i \in queue[r] /\ focus'[r] = i
    BY <1>4 DEF InsertTask
  <2>2. execs'[Key(r, i)] # <<>>
    <3>1. ContentOf(saw[r][Current(r)]) \in Content
      BY <1>1, KeyIsKey DEF ContentOf, Content, CampaignRow
    <3>2. ASSUME NEW s \in Seq(Content), NEW x \in Content PROVE Append(s, x) # <<>>
      <4>1. Len(Append(s, x)) = Len(s) + 1 /\ Len(s) \in Nat
        OBVIOUS
      <4>2. QED  BY <4>1
    <3>3. execs'[Key(r, i)] = Append(execs[Key(r, i)], ContentOf(saw[r][Current(r)]))
      BY <1>2, <1>4 DEF InsertTask
    <3>4. QED  BY <1>2, <3>1, <3>2, <3>3
  <2>3. SelectedAsRead(r)' /\ AboutToLink(r)'
    BY <1>1, <1>2, <1>3, <2>1, <2>2 DEF SelectedAsRead, AboutToLink
  <2>4. QED  BY <1>1, <2>3 DEF LoopInv, GateLoop, TaskLoop
<1>5. ASSUME LinkTask(r)
      PROVE  LoopInv(r)'
  <2>1. pc'[r] = "queue" /\ queue'[r] = queue[r] \ {focus[r]} /\ focus[r] \in Instances
    BY <1>5 DEF LinkTask
  <2>2. \A j \in Instances \ {focus[r]} : target'[Key(r, j)] = target[Key(r, j)]
    <3>1. ASSUME NEW j \in Instances \ {focus[r]} PROVE target'[Key(r, j)] = target[Key(r, j)]
      <4>1. Key(r, j) # Key(r, focus[r])
        BY <1>2, <2>1
      <4>2. QED  BY <1>2, <1>5, <4>1 DEF LinkTask
    <3>2. QED  BY <3>1
  <2>3. SelectedAsRead(r)'
    BY <1>1, <1>2, <1>3, <2>1, <2>2 DEF SelectedAsRead
  <2>4. QED  BY <2>1, <2>3 DEF LoopInv, GateLoop, TaskLoop
<1>6. QED  BY <1>4, <1>5 DEF TaskStep

LEMMA LoopStep ==
  ASSUME TypeInv, NEW r \in Runs, LoopInv(r), RunStep(r)
  PROVE  LoopInv(r)'
<1>1. CASE InsertProbe(r)
  <2>1. pc[r] \in GateLoop /\ pc'[r] \in GateLoop /\ UNCHANGED <<todo, saw, queue, row, target, cleared>>
    BY <1>1 DEF InsertProbe, copyVars, loopVars, TypeInv, LoopTypes, GateLoop
  <2>2. \A j : Key(r, j)' = Key(r, j)
    BY <2>1, SameKeys
  <2>3. CandidatesAsRead(r)'
    BY <2>1, <2>2 DEF LoopInv, CandidatesAsRead
  <2>4. QED  BY <2>1, <2>3 DEF LoopInv, GateLoop, TaskLoop
<1>2. CASE EndStep(r)
  <2>1. pc'[r] = "idle"
    BY <1>2 DEF EndStep, RunReturns, RunStops, RunEnds, TypeInv, LoopTypes
  <2>2. QED  BY <2>1 DEF LoopInv, GateLoop, TaskLoop
<1>3. QED
  BY <1>1, <1>2, LoopRead, LoopRow, LoopTask DEF RunStep

LEMMA ClearedStays ==
  ASSUME NEW r \in Runs, RunStep(r)
  PROVE  cleared \subseteq cleared'
<1>1. CASE RowStep(r)
  BY <1>1 DEF RowStep, AddTarget, DropTarget, GateBlocks, GatePasses
<1>2. CASE ~RowStep(r)
  BY <1>2, StepFrames DEF RunStep
<1>3. QED  BY <1>1, <1>2

\* A run keeps to the gate if it inserts tasks of targets that passed only.
LEMMA CheckedStep ==
  ASSUME TypeInv, NEW r \in Runs, GateIsChecked, RunStep(r),
         \A i \in Instances : InsertTask(r, i) => Key(r, i) \in cleared
  PROVE  GateIsChecked'
<1>1. cleared \subseteq cleared'
  BY ClearedStays
<1>2. ASSUME NEW i \in Instances, InsertTask(r, i)
      PROVE  GateIsChecked'
  BY <1>1, <1>2 DEF InsertTask, GateIsChecked, TypeInv, TargetTypes
<1>3. CASE ~(\E i \in Instances : InsertTask(r, i))
  <2>1. execs' = execs
    BY <1>3, StepFrames DEF RunStep, TaskStep, LinkTask, tableVars
  <2>2. QED  BY <1>1, <2>1 DEF GateIsChecked
<1>4. QED  BY <1>2, <1>3

LEMMA SingleStep ==
  ASSUME OneRun, TypeInv, SingleInv, [Next]_vars
  PROVE  SingleInv'
<1>1. CASE UNCHANGED <<target, execs, runVars, crashes, cleared>>
  <2>1. \A r \in Runs : LoopInv(r)'
    BY <1>1, LoopFrame DEF SingleInv, runVars, copyVars, loopVars
  <2>2. QED  BY <1>1, <2>1 DEF SingleInv, GateIsChecked
<1>2. ASSUME NEW r \in Runs, RunStep(r) PROVE SingleInv'
  <2>1. Runs = {r}
    BY DEF OneRun
  <2>2. \A i \in Instances : InsertTask(r, i) => Key(r, i) \in cleared
    BY DEF InsertTask, SingleInv, LoopInv, TaskLoop, SelectedAsRead
  <2>3. LoopInv(r)' /\ GateIsChecked'
    BY <1>2, <2>2, LoopStep, CheckedStep DEF SingleInv
  <2>4. QED  BY <2>1, <2>3 DEF SingleInv
<1>3. QED
  BY <1>1, <1>2, StepsByKind DEF RunStep, vars, tableVars

LEMMA SingleInit == Init => SingleInv
BY DEF Init, SingleInv, GateIsChecked, LoopInv, GateLoop, TaskLoop

LEMMA SingleInvariant == OneRun /\ Spec => []SingleInv
<1>1. OneRun /\ TypeInv /\ SingleInv /\ [Next]_vars => SingleInv'
  BY SingleStep
<1>2. OneRun => []OneRun
  <2>1. OneRun => OneRun'  BY DEF OneRun
  <2>2. QED  BY <2>1, PTL
<1>3. QED  BY <1>1, <1>2, SingleInit, TypeInvariant, PTL DEF Spec

(* While runs do not overlap no task is inserted without its gate.         *)
THEOREM TasksPassTheGate == OneRun /\ Spec => []GateIsChecked
<1>1. SingleInv => GateIsChecked
  BY DEF SingleInv
<1>2. QED  BY <1>1, SingleInvariant, PTL

-----------------------------------------------------------------------------
(***************************************************************************)
(* Runs that overlap while no target goes out of scope or comes into it.   *)
(* A target that has passed the gate, or is blocked or further, never      *)
(* becomes a pending one that has not passed: only a new target is.  New   *)
(* targets are in scope, and a run that comes to its gate has added all    *)
(* there are in scope, so what it leaves pending has passed, in this run   *)
(* or in another.                                                          *)
(***************************************************************************)

FixedScope == LabelMoves = {} /\ \A b \in Changes : b.selector = Keep

There(k) == target[k].state # "absent"
Safe(k) == k \in cleared \/ target[k].state \notin {"absent", "pending"}
Scoped(k) == FirstLabels[k[3]] \in Selects[campaign[k[1]].selector]

ScopeInv ==
  /\ label = FirstLabels /\ \A r \in Runs : sawLabels[r] = FirstLabels
  /\ \A r \in Runs : \A c \in todo[r] :
       campaign[c].status # "absent" /\ saw[r][c].selector = campaign[c].selector
  /\ \A k \in Keys : There(k) => campaign[k[1]].status # "absent" /\ Scoped(k)

AllAdded(r) ==
  /\ queue[r] \subseteq Matching(r)
  /\ \A i \in Matching(r) \ queue[r] : There(Key(r, i))

NoneNew(r) == \A i \in Matching(r) : There(Key(r, i))

CandidatesAreSafe(r) ==
  /\ \A i \in queue[r] :
       There(Key(r, i)) /\ (row[r][i].state = "blocked" => Safe(Key(r, i)))
  /\ \A i \in Matching(r) \ queue[r] : Safe(Key(r, i))

SelectedAreCleared(r) ==
  \A i \in queue[r] : There(Key(r, i)) /\ Key(r, i) \in cleared

PassInv(r) ==
  /\ pc[r] = "add" => AllAdded(r)
  /\ pc[r] = "drop" => NoneNew(r)
  /\ pc[r] \in GateLoop => CandidatesAreSafe(r)
  /\ pc[r] \in TaskLoop => SelectedAreCleared(r)
  /\ pc[r] = "link" => focus[r] \in queue[r]

OverlapInv == GateIsChecked /\ ScopeInv /\ \A r \in Runs : PassInv(r)

\* No step takes a target away or leaves one pending that had not passed.
MovesOn(k) == (There(k) => There(k)') /\ (Safe(k) => Safe(k)')

\* What the steps of a run do to the state of a target.
LEMMA StatesMove ==
  ASSUME TypeInv, NEW r \in Runs, RunStep(r), NEW k \in Keys, target'[k].state # target[k].state
  PROVE  \/ /\ target[k].state = "absent" /\ target'[k].state = "pending"
            /\ pc[r] = "add" /\ \E i \in queue[r] : k = Key(r, i)
         \/ target[k].state \in OpenStates /\ target'[k].state = "removed"
         \/ /\ pc[r] = "gate" /\ target'[k].state = "blocked"
            /\ \E i \in queue[r] : k = Key(r, i)
         \/ /\ pc[r] = "gate" /\ target'[k].state = "pending" /\ k \in cleared'
            /\ \E i \in queue[r] : k = Key(r, i)
         \/ /\ pc[r] = "link" /\ target'[k].state = "queued"
            /\ k = Key(r, focus[r])
<1>0. target \in [Keys -> TargetRow] /\ target[k] \in TargetRow
  BY DEF TypeInv, TargetTypes
<1>1. CASE ReadStep(r) \/ InsertProbe(r) \/ EndStep(r)
  BY <1>1, StepFrames DEF tableVars
<1>2. ASSUME NEW i \in Instances, AddTarget(r, i)
      PROVE  /\ target[k].state = "absent" /\ target'[k].state = "pending"
             /\ pc[r] = "add" /\ i \in queue[r] /\ k = Key(r, i)
  BY <1>0, <1>2 DEF AddTarget, TargetRow
<1>3. ASSUME NEW i \in Instances, DropTarget(r, i)
      PROVE  target[k].state \in OpenStates /\ target'[k].state = "removed"
  BY <1>0, <1>3 DEF DropTarget, TargetRow
<1>4. ASSUME NEW i \in Instances, GateBlocks(r, i)
      PROVE  /\ pc[r] = "gate" /\ target'[k].state = "blocked"
             /\ i \in queue[r] /\ k = Key(r, i)
  <2>1. \E reason :
          target' = [target EXCEPT ![Key(r, i)] =
            IF row[r][i].state = "blocked" /\ row[r][i].reason = reason THEN @
            ELSE [@ EXCEPT !.state = "blocked", !.reason = reason]]
    BY <1>4 DEF GateBlocks
  <2>2. k = Key(r, i) /\ target'[k].state = "blocked"
    BY <1>0, <2>1 DEF TargetRow
  <2>3. QED  BY <1>4, <2>2 DEF GateBlocks
<1>5. ASSUME NEW i \in Instances, GatePasses(r, i)
      PROVE  /\ pc[r] = "gate" /\ target'[k].state = "pending" /\ k \in cleared'
             /\ i \in queue[r] /\ k = Key(r, i)
  BY <1>0, <1>5 DEF GatePasses, AfterPass, TargetRow
<1>6. CASE TaskStep(r)
  <2>1. LinkTask(r)
    BY <1>6 DEF TaskStep, InsertTask
  <2>2. k = Key(r, focus[r]) /\ target'[k].state = "queued"
    BY <1>0, <2>1 DEF LinkTask, TargetRow
  <2>3. QED  BY <2>1, <2>2 DEF LinkTask
<1>7. QED
  BY <1>1, <1>2, <1>3, <1>4, <1>5, <1>6 DEF RunStep, RowStep

LEMMA TargetsMoveOn ==
  ASSUME TypeInv, NEW r \in Runs, RunStep(r), NEW k \in Keys
  PROVE  MovesOn(k)
BY StatesMove, ClearedStays DEF MovesOn, There, Safe, OpenStates

\* A target is new only when it is added.
LEMMA OnlyAdded ==
  ASSUME TypeInv, NEW r \in Runs, RunStep(r), PassInv(r), NEW k \in Keys, There(k)', ~There(k)
  PROVE  pc[r] = "add" /\ \E i \in queue[r] : k = Key(r, i)
BY StatesMove
DEF There, PassInv, CandidatesAreSafe, SelectedAreCleared, GateLoop, TaskLoop, OpenStates

(* The scope.                                                              *)

LEMMA ScopeRuns ==
  ASSUME TypeInv, ScopeInv, NEW r \in Runs, PassInv(r), RunStep(r)
  PROVE  ScopeInv'
<1>1. UNCHANGED <<campaign, label>>
  BY StepFrames DEF RunStep, tableVars, worldVars
<1>2. \A s \in Runs : sawLabels'[s] = FirstLabels
  <2>1. \A s \in Runs \ {r} : sawLabels'[s] = sawLabels[s]
    BY OthersRest DEF Own
  <2>2. sawLabels'[r] \in {sawLabels[r], label, FirstLabels}
    <3>1. CASE ReadStep(r)
      BY <3>1
      DEF ReadStep, ReadCampaigns, ReadInstances, ReadLabels, BeginCampaigns, ReadTargets,
          ReadPending, ReadBackoff, LookForProbe, NextCampaign, ReadCandidates, ReadOnline,
          copyVars, TypeInv, CopyTypes
    <3>2. CASE RowStep(r)
      BY <3>2 DEF RowStep, AddTarget, DropTarget, GateBlocks, GatePasses, copyVars
    <3>3. CASE TaskStep(r) \/ InsertProbe(r)
      BY <3>3 DEF TaskStep, LinkTask, InsertTask, InsertProbe, copyVars
    <3>4. CASE EndStep(r)
      BY <3>4 DEF EndStep, RunReturns, RunStops, RunEnds, TypeInv, CopyTypes
    <3>5. QED  BY <3>1, <3>2, <3>3, <3>4 DEF RunStep
  <2>3. QED  BY <2>1, <2>2 DEF ScopeInv
<1>3. ASSUME NEW s \in Runs, NEW c \in todo'[s]
      PROVE  campaign'[c].status # "absent" /\ saw'[s][c].selector = campaign'[c].selector
  BY <1>1, <1>3, CopiesOfRows DEF ScopeInv
<1>4. ASSUME NEW k \in Keys, There(k)'
      PROVE  campaign'[k[1]].status # "absent" /\ Scoped(k)'
  <2>1. CASE There(k)
    BY <1>1, <2>1 DEF ScopeInv, Scoped
  <2>2. CASE ~There(k)
    <3>1. PICK i \in queue[r] : k = Key(r, i)
      BY <1>4, <2>2, OnlyAdded
    <3>2. pc[r] = "add" /\ i \in Matching(r)
      BY <1>4, <2>2, <3>1, OnlyAdded DEF PassInv, AllAdded
    <3>3. Current(r) \in todo[r] /\ k[1] = Current(r) /\ k[3] = i
      BY <3>1, <3>2, KeyIsKey DEF Key
    <3>4. QED  BY <1>1, <3>2, <3>3 DEF ScopeInv, Scoped, Matching, InScope
  <2>3. QED  BY <2>1, <2>2
<1>5. QED  BY <1>1, <1>2, <1>3, <1>4 DEF ScopeInv

\* A change of the campaigns table that leaves the scope alone.
LEMMA ScopeFrame ==
  ASSUME ScopeInv, UNCHANGED <<target, label, todo, saw, sawLabels>>,
         \A c \in CampaignIds :
           campaign[c].status # "absent" =>
             /\ campaign'[c].status # "absent"
             /\ campaign'[c].selector = campaign[c].selector,
         TypeInv
  PROVE  ScopeInv'
<1>1. \A r \in Runs : todo[r] \subseteq CampaignIds
  BY DEF TypeInv, CopyTypes
<1>2. \A k \in Keys : k[1] \in CampaignIds
  BY DEF Keys
<1>3. QED  BY <1>1, <1>2 DEF ScopeInv, There, Scoped

LEMMA ScopeRoutes ==
  ASSUME FixedScope, TypeInv, ScopeInv, UNCHANGED <<target, todo, saw, sawLabels>>,
         RouteSteps \/ WorldSteps
  PROVE  ScopeInv'
<1>0. campaign \in [CampaignIds -> CampaignRow]
  BY DEF TypeInv, RouteTypes
<1>1. ASSUME UNCHANGED campaign, UNCHANGED label PROVE ScopeInv'
  BY <1>1, ScopeFrame
<1>2. ASSUME NEW c \in CampaignIds, NEW new \in CampaignRow, UNCHANGED label,
             campaign' = [campaign EXCEPT ![c] = new],
             campaign[c].status # "absent" =>
               new.status # "absent" /\ new.selector = campaign[c].selector
      PROVE  ScopeInv'
  BY <1>0, <1>2, ScopeFrame
<1>3. ASSUME NEW c \in CampaignIds, CreateCampaign(c) PROVE ScopeInv'
  <2>1. PICK new \in NewCampaigns : campaign' = [campaign EXCEPT ![c] = new]
    BY <1>3 DEF CreateCampaign
  <2>2. new \in CampaignRow
    BY NewRowsAreRows
  <2>3. QED  BY <1>2, <1>3, <2>1, <2>2 DEF CreateCampaign, worldVars
<1>4. ASSUME NEW c \in CampaignIds, CloseCampaign(c) \/ CampaignExpires(c) PROVE ScopeInv'
  BY <1>0, <1>4, ScopeFrame DEF CloseCampaign, CampaignExpires, CampaignRow, worldVars
<1>5. ASSUME NEW e \in Editors, DeleteWrite(e) PROVE ScopeInv'
  BY <1>0, <1>5, ScopeFrame DEF DeleteWrite, EditEnds, CampaignRow, worldVars
<1>6. ASSUME NEW e \in Editors, PatchWrite(e) PROVE ScopeInv'
  <2>1. UNCHANGED label
    BY <1>6 DEF PatchWrite, EditEnds, worldVars
  <2>2. /\ edited[e] \in CampaignIds /\ campaign[edited[e]] \in CampaignRow
        /\ body[e] \in Changes /\ read[e] \in CampaignRow
    BY DEF TypeInv, RouteTypes
  <2>3. CASE Present(edited[e])
    <3>1. campaign' = [campaign EXCEPT ![edited[e]] =
                         Patched(campaign[edited[e]], body[e], read[e])]
      BY <1>6, <2>3 DEF PatchWrite
    <3>2. NextGeneration(read[e], body[e]) <= GenerationBound
      BY <1>6 DEF PatchWrite, TypeInv, PatchesInBound
    <3>3. /\ Patched(campaign[edited[e]], body[e], read[e]) \in CampaignRow
          /\ Patched(campaign[edited[e]], body[e], read[e]).status = campaign[edited[e]].status
      BY <2>2, <3>2, PatchedType
    <3>4. Patched(campaign[edited[e]], body[e], read[e]).selector = campaign[edited[e]].selector
      BY <2>2, <3>2, PatchedType DEF FixedScope, Coalesce
    <3>5. QED  BY <1>2, <2>1, <2>2, <3>1, <3>3, <3>4
  <2>4. CASE ~Present(edited[e])
    <3>1. campaign' = campaign
      BY <1>0, <1>6, <2>2, <2>4 DEF PatchWrite
    <3>2. QED  BY <1>1, <2>1, <3>1
  <2>5. QED  BY <2>3, <2>4
<1>7. ASSUME NEW i \in Instances, LabelsChange(i) PROVE FALSE
  BY <1>7 DEF LabelsChange, FixedScope
<1>8. ASSUME \/ \E e \in Editors :
                  \/ \E c \in CampaignIds : \E b \in Changes : PatchRead(e, c, b)
                  \/ \E c \in CampaignIds : DeleteRead(e, c)
                  \/ EditAborts(e)
             \/ \E i \in Instances :
                  \/ Heartbeat(i) \/ HeartbeatLapses(i)
                  \/ \E k \in ProbeKinds : ProbeReopens(i, k)
             \/ QueueSteps
      PROVE  ScopeInv'
  <2>1. UNCHANGED campaign /\ UNCHANGED label
    BY <1>8
    DEF PatchRead, DeleteRead, EditAborts, EditEnds, Heartbeat, HeartbeatLapses, QueueSteps,
        ProbeReopens, worldVars
  <2>2. QED  BY <1>1, <2>1
<1>9. QED
  BY <1>3, <1>4, <1>5, <1>6, <1>7, <1>8 DEF RouteSteps, WorldSteps

(* The passes of a run.                                                    *)

LEMMA SameScope ==
  ASSUME NEW s \in Runs, UNCHANGED <<todo[s], saw[s], sawLabels[s]>>
  PROVE  Matching(s)' = Matching(s)
BY DEF Matching, InScope, Current

\* Others add, drop, block and pass: what the run relies on stays.
LEMMA PassFrame ==
  ASSUME TypeInv, NEW s \in Runs, PassInv(s), UNCHANGED Own(s),
         \A k \in Keys : MovesOn(k), cleared \subseteq cleared'
  PROVE  PassInv(s)'
<1>1. UNCHANGED <<pc[s], todo[s], saw[s], sawLabels[s], queue[s], row[s], focus[s]>>
  BY DEF Own
<1>2. Matching(s)' = Matching(s) /\ \A i : Key(s, i)' = Key(s, i)
  BY <1>1, SameScope, SameKeys
<1>3. queue[s] \subseteq Instances /\ Matching(s) \subseteq Instances
  BY DEF TypeInv, LoopTypes, Matching, InScope
<1>4. CASE pc[s] = "idle"
  BY <1>1, <1>4 DEF PassInv, GateLoop, TaskLoop
<1>5. CASE pc[s] # "idle"
  <2>1. \A i \in Instances : MovesOn(Key(s, i))
    BY <1>5, KeyIsKey
  <2>2. \A i \in Instances : /\ There(Key(s, i)) => There(Key(s, i))'
                             /\ Safe(Key(s, i)) => Safe(Key(s, i))'
    BY <2>1 DEF MovesOn
  <2>3. AllAdded(s) => AllAdded(s)'
    BY <1>1, <1>2, <1>3, <2>2 DEF AllAdded
  <2>4. NoneNew(s) => NoneNew(s)'
    BY <1>2, <1>3, <2>2 DEF NoneNew
  <2>5. CandidatesAreSafe(s) => CandidatesAreSafe(s)'
    BY <1>1, <1>2, <1>3, <2>2 DEF CandidatesAreSafe
  <2>6. SelectedAreCleared(s) => SelectedAreCleared(s)'
    BY <1>1, <1>2, <1>3, <2>2 DEF SelectedAreCleared
  <2>7. QED  BY <1>1, <2>3, <2>4, <2>5, <2>6 DEF PassInv
<1>6. QED  BY <1>4, <1>5

\* What the scope says of the run's own targets.
LEMMA OwnScope ==
  ASSUME TypeInv, ScopeInv, NEW r \in Runs, pc[r] # "idle", NEW i \in Instances, There(Key(r, i))
  PROVE  i \in Matching(r)
BY KeyIsKey DEF ScopeInv, Scoped, Matching, InScope, Key

LEMMA PassRead ==
  ASSUME TypeInv, ScopeInv, NEW r \in Runs, PassInv(r), ReadStep(r)
  PROVE  PassInv(r)'
<1> USE DEF TypeInv, LoopTypes
<1>0. UNCHANGED <<target, cleared>>
  BY StepFrames DEF tableVars
<1>1. CASE BeginCampaigns(r)
  <2>1. pc'[r] = "add" /\ queue'[r] = Matching(r) /\ UNCHANGED <<todo, saw, sawLabels>>
    BY <1>1 DEF BeginCampaigns, copyVars
  <2>2. AllAdded(r)'
    BY <2>1, SameScope DEF AllAdded
  <2>3. QED  BY <2>1, <2>2 DEF PassInv, GateLoop, TaskLoop
<1>2. CASE NextCampaign(r)
  <2>1. pc'[r] = "add" /\ queue'[r] = Matching(r)'
    BY <1>2 DEF NextCampaign, Matching, InScope, Current, CopyTypes
  <2>2. AllAdded(r)'
    BY <2>1 DEF AllAdded
  <2>3. QED  BY <2>1, <2>2 DEF PassInv, GateLoop, TaskLoop
<1>3. CASE ReadTargets(r)
  <2>1. /\ pc[r] = "add" /\ queue[r] = {} /\ pc'[r] = "drop"
        /\ UNCHANGED <<todo, saw, sawLabels>>
    BY <1>3 DEF ReadTargets, copyVars
  <2>2. Matching(r)' = Matching(r) /\ \A i : Key(r, i)' = Key(r, i)
    BY <2>1, SameScope, SameKeys
  <2>3. NoneNew(r)'
    BY <1>0, <2>1, <2>2 DEF PassInv, AllAdded, NoneNew, There
  <2>4. QED  BY <2>1, <2>3 DEF PassInv, GateLoop, TaskLoop
<1>4. CASE ReadCandidates(r)
  <2>1. /\ pc[r] = "drop" /\ pc'[r] = "gate" /\ UNCHANGED <<todo, saw, sawLabels>>
        /\ queue'[r] = TargetsIn(r, {"pending", "blocked"})
        /\ \A i \in Instances : i \in queue'[r] => row'[r][i] = target[Key(r, i)]
    BY <1>4 DEF ReadCandidates, copyVars
  <2>2. /\ Matching(r)' = Matching(r) /\ Matching(r) \subseteq Instances
        /\ \A i : Key(r, i)' = Key(r, i)
    BY <2>1, SameScope, SameKeys DEF Matching, InScope
  <2>3. ASSUME NEW i \in queue'[r]
        PROVE  There(Key(r, i))' /\ (row'[r][i].state = "blocked" => Safe(Key(r, i))')
    BY <1>0, <2>1, <2>2, <2>3 DEF TargetsIn, There, Safe
  <2>4. ASSUME NEW i \in Matching(r) \ queue'[r]
        PROVE  Safe(Key(r, i))'
    BY <1>0, <2>1, <2>2, <2>4 DEF TargetsIn, PassInv, NoneNew, There, Safe
  <2>5. CandidatesAreSafe(r)'
    BY <2>2, <2>3, <2>4 DEF CandidatesAreSafe
  <2>6. QED  BY <2>1, <2>5 DEF PassInv, TaskLoop
<1>5. CASE ReadPending(r)
  <2>1. /\ pc[r] = "gate" /\ queue[r] = {} /\ pc'[r] = "queue" /\ queue'[r] = Untasked(r)
        /\ UNCHANGED <<todo, saw, sawLabels>>
    BY <1>5 DEF ReadPending, copyVars
  <2>2. \A i : Key(r, i)' = Key(r, i)
    BY <2>1, SameKeys
  <2>3. ASSUME NEW i \in Untasked(r)
        PROVE  There(Key(r, i)) /\ Key(r, i) \in cleared
    <3>1. i \in Instances /\ target[Key(r, i)].state = "pending"
      BY DEF Untasked, TargetsIn
    <3>2. i \in Matching(r)
      BY <2>1, <3>1, OwnScope DEF There
    <3>3. Safe(Key(r, i))
      BY <2>1, <3>2 DEF PassInv, GateLoop, CandidatesAreSafe
    <3>4. QED  BY <3>1, <3>3 DEF There, Safe
  <2>4. SelectedAreCleared(r)'
    BY <1>0, <2>1, <2>2, <2>3 DEF SelectedAreCleared, There
  <2>5. QED  BY <2>1, <2>4 DEF PassInv, GateLoop
<1>6. CASE ReadBackoff(r) \/ LookForProbe(r)
  <2>1. /\ pc[r] \in GateLoop /\ pc'[r] \in GateLoop
        /\ UNCHANGED <<todo, saw, sawLabels, queue, row>>
    BY <1>6 DEF ReadBackoff, LookForProbe, copyVars, loopVars, GateLoop
  <2>2. Matching(r)' = Matching(r) /\ \A i : Key(r, i)' = Key(r, i)
    BY <2>1, SameScope, SameKeys
  <2>3. CandidatesAreSafe(r)'
    BY <1>0, <2>1, <2>2 DEF PassInv, CandidatesAreSafe, There, Safe
  <2>4. QED  BY <2>1, <2>3 DEF PassInv, GateLoop, TaskLoop
<1>7. CASE \/ ReadCampaigns(r) \/ ReadInstances(r) \/ ReadLabels(r)
           \/ \E i \in Instances : ReadOnline(r, i)
  <2>1. pc'[r] \in {"instances", "labels", "online"}
    BY <1>7 DEF ReadCampaigns, ReadInstances, ReadLabels, ReadOnline
  <2>2. QED  BY <2>1 DEF PassInv, GateLoop, TaskLoop
<1>8. QED  BY <1>1, <1>2, <1>3, <1>4, <1>5, <1>6, <1>7 DEF ReadStep

LEMMA PassRow ==
  ASSUME TypeInv, NEW r \in Runs, PassInv(r), RowStep(r)
  PROVE  PassInv(r)'
<1> USE DEF TypeInv, LoopTypes
<1>1. PICK i \in Instances :
        AddTarget(r, i) \/ DropTarget(r, i) \/ GateBlocks(r, i) \/ GatePasses(r, i)
  BY DEF RowStep
<1>2. /\ pc[r] # "idle" /\ UNCHANGED <<todo, saw, sawLabels>>
      /\ i \in queue[r] /\ queue'[r] = queue[r] \ {i}
  BY <1>1 DEF AddTarget, DropTarget, GateBlocks, GatePasses, LoopGoesOn, copyVars
<1>3. /\ \A j : Key(r, j)' = Key(r, j)
      /\ \A j \in Instances : Key(r, j) \in Keys
      /\ target \in [Keys -> TargetRow]
      /\ Matching(r)' = Matching(r) /\ Matching(r) \subseteq Instances
  BY <1>2, SameKeys, SameScope, KeyIsKey DEF TargetTypes, Matching, InScope
<1>4. \A j \in Instances : /\ There(Key(r, j)) => There(Key(r, j))'
                           /\ Safe(Key(r, j)) => Safe(Key(r, j))'
  BY <1>3, TargetsMoveOn DEF RunStep, MovesOn
<1>5. CASE AddTarget(r, i)
  <2>1. pc[r] = "add" /\ pc'[r] = "add"
    BY <1>5 DEF AddTarget
  <2>2. There(Key(r, i))'
    BY <1>3, <1>5 DEF AddTarget, There, TargetRow
  <2>3. AllAdded(r)'
    BY <1>2, <1>3, <1>4, <2>1, <2>2 DEF PassInv, AllAdded
  <2>4. QED  BY <2>1, <2>3 DEF PassInv, GateLoop, TaskLoop
<1>6. CASE DropTarget(r, i)
  <2>1. pc[r] = "drop" /\ pc'[r] = "drop"
    BY <1>6 DEF DropTarget
  <2>2. NoneNew(r)'
    BY <1>3, <1>4, <2>1 DEF PassInv, NoneNew
  <2>3. QED  BY <2>1, <2>2 DEF PassInv, GateLoop, TaskLoop
<1>7. CASE GateBlocks(r, i) \/ GatePasses(r, i)
  <2>1. /\ pc[r] \in GateLoop /\ pc'[r] \in GateLoop
        /\ \A j \in Instances \ {i} : row'[r][j] = row[r][j]
    <3>1. pc[r] = "gate" /\ pc'[r] \in {"gate", "backoff"} /\ LoopGoesOn(r, i)
      BY <1>7 DEF GateBlocks, GatePasses
    <3>2. QED  BY <3>1 DEF LoopGoesOn, GateLoop
  <2>2. CandidatesAreSafe(r)
    BY <2>1 DEF PassInv
  <2>3. Safe(Key(r, i))'
    <3>1. CASE GateBlocks(r, i)
      <4>1. \E reason :
              target' = [target EXCEPT ![Key(r, i)] =
                IF row[r][i].state = "blocked" /\ row[r][i].reason = reason THEN @
                ELSE [@ EXCEPT !.state = "blocked", !.reason = reason]]
        BY <3>1 DEF GateBlocks
      <4>2. row[r][i].state = "blocked" \/ target'[Key(r, i)].state = "blocked"
        BY <1>3, <4>1 DEF TargetRow
      <4>3. CASE row[r][i].state = "blocked"
        BY <1>2, <1>4, <2>2, <4>3 DEF CandidatesAreSafe
      <4>4. CASE target'[Key(r, i)].state = "blocked"
        BY <1>3, <4>4 DEF Safe
      <4>5. QED  BY <4>2, <4>3, <4>4
    <3>2. CASE GatePasses(r, i)
      BY <1>3, <3>2 DEF GatePasses, Safe
    <3>3. QED  BY <1>7, <3>1, <3>2
  <2>4. CandidatesAreSafe(r)'
    BY <1>2, <1>3, <1>4, <2>1, <2>2, <2>3 DEF CandidatesAreSafe
  <2>5. QED  BY <2>1, <2>4 DEF PassInv, GateLoop, TaskLoop
<1>8. QED  BY <1>1, <1>5, <1>6, <1>7

LEMMA PassTask ==
  ASSUME TypeInv, NEW r \in Runs, PassInv(r), TaskStep(r)
  PROVE  PassInv(r)'
<1> USE DEF TypeInv, LoopTypes
<1>1. /\ pc[r] \in TaskLoop /\ pc'[r] \in TaskLoop /\ pc[r] # "idle"
      /\ queue'[r] \subseteq queue[r] /\ queue[r] \subseteq Instances
      /\ pc'[r] = "link" => focus'[r] \in queue'[r]
      /\ UNCHANGED <<todo, saw, cleared>>
  BY DEF TaskStep, LinkTask, InsertTask, copyVars, TaskLoop
<1>2. \A i \in Instances : Key(r, i)' = Key(r, i) /\ (There(Key(r, i)) => There(Key(r, i))')
  BY <1>1, SameKeys, KeyIsKey, TargetsMoveOn DEF RunStep, MovesOn
<1>3. SelectedAreCleared(r)'
  BY <1>1, <1>2 DEF PassInv, SelectedAreCleared
<1>4. QED  BY <1>1, <1>3 DEF PassInv, GateLoop, TaskLoop

LEMMA PassStep ==
  ASSUME TypeInv, ScopeInv, NEW r \in Runs, PassInv(r), RunStep(r)
  PROVE  PassInv(r)'
<1>1. CASE InsertProbe(r)
  <2>1. /\ pc[r] \in GateLoop /\ pc'[r] \in GateLoop
        /\ UNCHANGED <<todo, saw, sawLabels, queue, row, target, cleared>>
    BY <1>1 DEF InsertProbe, copyVars, loopVars, TypeInv, LoopTypes, GateLoop
  <2>2. Matching(r)' = Matching(r) /\ \A i : Key(r, i)' = Key(r, i)
    BY <2>1, SameScope, SameKeys
  <2>3. CandidatesAreSafe(r)'
    BY <2>1, <2>2 DEF PassInv, CandidatesAreSafe, There, Safe
  <2>4. QED  BY <2>1, <2>3 DEF PassInv, GateLoop, TaskLoop
<1>2. CASE EndStep(r)
  <2>1. pc'[r] = "idle"
    BY <1>2 DEF EndStep, RunReturns, RunStops, RunEnds, TypeInv, LoopTypes
  <2>2. QED  BY <2>1 DEF PassInv, GateLoop, TaskLoop
<1>3. QED
  BY <1>1, <1>2, PassRead, PassRow, PassTask DEF RunStep

LEMMA OverlapStep ==
  ASSUME FixedScope, TypeInv, OverlapInv, [Next]_vars
  PROVE  OverlapInv'
<1>1. ASSUME UNCHANGED <<target, execs, runVars, cleared>>,
             RouteSteps \/ WorldSteps \/ UNCHANGED <<campaign, label>>
      PROVE  OverlapInv'
  <2>1. \A k \in Keys : MovesOn(k)
    BY <1>1 DEF MovesOn, There, Safe
  <2>2. \A r \in Runs : PassInv(r)'
    BY <1>1, <2>1, PassFrame DEF OverlapInv, Own, runVars, copyVars, loopVars
  <2>3. GateIsChecked'
    BY <1>1 DEF OverlapInv, GateIsChecked
  <2>4. UNCHANGED <<target, todo, saw, sawLabels>>
    BY <1>1 DEF runVars, copyVars
  <2>5. ScopeInv'
    BY <1>1, <2>4, ScopeFrame, ScopeRoutes DEF OverlapInv
  <2>6. QED  BY <2>2, <2>3, <2>5 DEF OverlapInv
<1>2. ASSUME NEW r \in Runs, RunStep(r) PROVE OverlapInv'
  <2>1. \A i \in Instances : InsertTask(r, i) => Key(r, i) \in cleared
    BY DEF InsertTask, OverlapInv, PassInv, TaskLoop, SelectedAreCleared
  <2>2. GateIsChecked' /\ ScopeInv' /\ PassInv(r)'
    BY <1>2, <2>1, CheckedStep, ScopeRuns, PassStep DEF OverlapInv
  <2>3. \A s \in Runs \ {r} : PassInv(s)'
    BY <1>2, OthersRest, TargetsMoveOn, ClearedStays, PassFrame DEF OverlapInv
  <2>4. QED  BY <2>2, <2>3 DEF OverlapInv
<1>3. QED
  BY <1>1, <1>2, StepsByKind DEF RunStep, vars, tableVars, worldVars

LEMMA OverlapInit == Init => OverlapInv
BY DEF Init, CampaignInit, OverlapInv, GateIsChecked, ScopeInv, PassInv, There, NoTarget,
       GateLoop, TaskLoop

(* However many runs overlap, and whichever of them stop half way: while   *)
(* no label and no selector is changed, no task is inserted without its    *)
(* gate, although a pending target that one run finds may have been left   *)
(* there by another.                                                       *)
THEOREM GateHoldsWhenRunsOverlap == FixedScope /\ Spec => []GateIsChecked
<1>1. FixedScope /\ TypeInv /\ OverlapInv /\ [Next]_vars => OverlapInv'
  BY OverlapStep
<1>2. FixedScope => []FixedScope
  <2>1. FixedScope => FixedScope'  BY DEF FixedScope
  <2>2. QED  BY <2>1, PTL
<1>3. OverlapInv => GateIsChecked
  BY DEF OverlapInv
<1>4. QED  BY <1>1, <1>2, <1>3, OverlapInit, TypeInvariant, PTL DEF Spec

-----------------------------------------------------------------------------
(* The life of a target: every step of the reconciler is a step of         *)
(* TargetLife or none.                                                     *)

LEMMA StageRests ==
  ASSUME UNCHANGED <<target, execs, crashes>>
  PROVE  UNCHANGED Life!lifeVars
BY DEF Life!lifeVars, Stage

\* One target moves from one stage to another, or stays where it is.
LEMMA StageMoves ==
  ASSUME NEW k \in Keys, \A j \in Keys \ {k} : target'[j] = target[j],
         UNCHANGED <<execs, crashes>>,
         \/ Stage(k)' = Stage(k)
         \/ Stage(k) = "none" /\ Stage(k)' = "waiting"
         \/ Stage(k) = "waiting" /\ Stage(k)' = "queued" /\ Len(execs[k]) > 0
         \/ Stage(k) \in {"waiting", "queued"} /\ Stage(k)' = "gone"
  PROVE  [Life!LifeNext]_(Life!lifeVars)
<1> DEFINE old == [j \in Keys |-> Stage(j)]
           new == [j \in Keys |-> Stage(j)']
<1>1. new = [old EXCEPT ![k] = Stage(k)'] /\ old[k] = Stage(k)
  <2>1. \A j \in Keys \ {k} : Stage(j)' = Stage(j)
    BY DEF Stage
  <2>2. \A j \in Keys : new[j] = [old EXCEPT ![k] = Stage(k)'][j]
    BY <2>1
  <2>3. QED  BY <2>2
<1>2. CASE Stage(k)' = Stage(k)
  <2>1. new = old
    BY <1>1, <1>2
  <2>2. QED  BY <2>1 DEF Life!lifeVars
<1>3. CASE Stage(k) = "none" /\ Stage(k)' = "waiting"
  <2>1. Life!Join(k)
    BY <1>1, <1>3 DEF Life!Join, Life!Moves
  <2>2. QED  BY <2>1 DEF Life!LifeNext
<1>4. CASE Stage(k) = "waiting" /\ Stage(k)' = "queued" /\ Len(execs[k]) > 0
  <2>1. Life!Settle(k)
    BY <1>1, <1>4 DEF Life!Settle, Life!Moves
  <2>2. QED  BY <2>1 DEF Life!LifeNext
<1>5. CASE Stage(k) \in {"waiting", "queued"} /\ Stage(k)' = "gone"
  <2>1. Life!Leave(k)
    BY <1>1, <1>5 DEF Life!Leave, Life!Moves
  <2>2. QED  BY <2>1 DEF Life!LifeNext
<1>6. QED  BY <1>2, <1>3, <1>4, <1>5

LEMMA LifeRow ==
  ASSUME TypeInv, NEW r \in Runs, LoopInv(r), RowStep(r)
  PROVE  [Life!LifeNext]_(Life!lifeVars)
<1>1. PICK i \in Instances :
        AddTarget(r, i) \/ DropTarget(r, i) \/ GateBlocks(r, i) \/ GatePasses(r, i)
  BY DEF RowStep
<1>2. pc[r] # "idle"
  BY <1>1 DEF AddTarget, DropTarget, GateBlocks, GatePasses
<1>0. PICK k \in Keys : k = Key(r, i)
  BY <1>2, KeyIsKey
<1>3. target \in [Keys -> TargetRow] /\ target[k] \in TargetRow
  BY <1>0 DEF TypeInv, TargetTypes
<1>4. UNCHANGED <<execs, crashes>>
  BY StepFrames
<1>5. CASE AddTarget(r, i)
  <2>1. target' = [target EXCEPT ![k] =
          IF @.state = "absent" THEN [@ EXCEPT !.state = "pending"] ELSE @]
    BY <1>0, <1>5 DEF AddTarget
  <2>2. \/ target'[k] = target[k]
        \/ target[k].state = "absent" /\ target'[k].state = "pending"
    BY <1>3, <2>1 DEF TargetRow
  <2>3. QED  BY <1>3, <1>4, <2>1, <2>2, StageMoves DEF Stage
<1>6. CASE DropTarget(r, i)
  <2>1. target' = [target EXCEPT ![k].state = IF @ \in OpenStates THEN "removed" ELSE @]
    BY <1>0, <1>6 DEF DropTarget
  <2>2. \/ target'[k].state = target[k].state
        \/ target[k].state \in OpenStates /\ target'[k].state = "removed"
    BY <1>3, <2>1 DEF TargetRow
  <2>3. QED  BY <1>3, <1>4, <2>1, <2>2, StageMoves DEF Stage, OpenStates
<1>7. CASE GateBlocks(r, i) \/ GatePasses(r, i)
  <2>1. pc[r] = "gate" /\ i \in queue[r]
    BY <1>7 DEF GateBlocks, GatePasses
  <2>2. row[r][i] = target[k] /\ target[k].state \in {"pending", "blocked"}
    BY <1>0, <2>1 DEF LoopInv, GateLoop, CandidatesAsRead
  <2>3. /\ target'[k].state \in {"pending", "blocked"}
        /\ \A j \in Keys \ {k} : target'[j] = target[j]
    <3>1. CASE GateBlocks(r, i)
      <4>1. \E reason :
              target' = [target EXCEPT ![k] =
                IF row[r][i].state = "blocked" /\ row[r][i].reason = reason THEN @
                ELSE [@ EXCEPT !.state = "blocked", !.reason = reason]]
        BY <1>0, <3>1 DEF GateBlocks
      <4>2. QED  BY <1>3, <2>2, <4>1 DEF TargetRow
    <3>2. CASE GatePasses(r, i)
      <4>1. target' = [target EXCEPT ![k] = AfterPass(@, row[r][i])]
        BY <1>0, <3>2 DEF GatePasses
      <4>2. QED  BY <1>3, <2>2, <4>1 DEF AfterPass, TargetRow
    <3>3. QED  BY <1>7, <3>1, <3>2
  <2>4. Stage(k)' = Stage(k)
    BY <2>2, <2>3 DEF Stage
  <2>5. QED  BY <1>3, <1>4, <2>3, <2>4, StageMoves
<1>8. QED  BY <1>1, <1>5, <1>6, <1>7

LEMMA LifeInsert ==
  ASSUME OneRun, TypeInv, TasksInv, NEW r \in Runs, LoopInv(r),
         NEW i \in Instances, InsertTask(r, i)
  PROVE  Life!LifeNext
<1>1. pc[r] = "queue" /\ i \in queue[r] /\ UNCHANGED <<target, crashes>>
  BY DEF InsertTask
<1>0. PICK k \in Keys : k = Key(r, i)
  BY <1>1, KeyIsKey
<1>2. execs \in [Keys -> Seq(Content)]
  BY DEF TypeInv, TargetTypes
<1> DEFINE old == [j \in Keys |-> Len(execs[j])]
           new == [j \in Keys |-> Len(execs'[j])]
<1>3. target[k].state = "pending" /\ ~target[k].tasked
  BY <1>0, <1>1 DEF LoopInv, TaskLoop, SelectedAsRead
<1>4. Linking(k) = {}
  BY <1>1 DEF OneRun, Linking
<1>5. Len(execs[k]) <= crashes
  <2>1. Cardinality(Linking(k)) = 0
    BY <1>4, FS_EmptySet
  <2>2. Len(execs[k]) <= crashes + Cardinality(Linking(k))
    BY <1>3 DEF TasksInv, TasksOf
  <2>3. QED  BY <2>1, <2>2, TaskCounts
<1>6. Len(execs'[k]) = Len(execs[k]) + 1 /\ \A j \in Keys \ {k} : execs'[j] = execs[j]
  <2>1. ContentOf(saw[r][Current(r)]) \in Content
    BY <1>1, KeyIsKey DEF ContentOf, Content, CampaignRow
  <2>2. execs' = [execs EXCEPT ![k] = Append(@, ContentOf(saw[r][Current(r)]))]
    BY <1>0 DEF InsertTask
  <2>3. ASSUME NEW s \in Seq(Content), NEW x \in Content PROVE Len(Append(s, x)) = Len(s) + 1
    OBVIOUS
  <2>4. QED  BY <1>2, <2>1, <2>2, <2>3
<1>7. new = [old EXCEPT ![k] = @ + 1]
  BY <1>2, <1>6
<1>8. Stage(k) = "waiting" /\ UNCHANGED [j \in Keys |-> Stage(j)]
  BY <1>1, <1>3 DEF Stage
<1>9. Life!Run(k)
  BY <1>1, <1>2, <1>5, <1>7, <1>8 DEF Life!Run
<1>10. QED  BY <1>2, <1>9 DEF Life!LifeNext

LEMMA LifeLink ==
  ASSUME TypeInv, NEW r \in Runs, LoopInv(r), LinkTask(r)
  PROVE  [Life!LifeNext]_(Life!lifeVars)
<1>1. pc[r] = "link" /\ focus[r] \in Instances /\ UNCHANGED <<execs, crashes>>
  BY DEF LinkTask, TypeInv, LoopTypes
<1>0. PICK k \in Keys : k = Key(r, focus[r])
  BY <1>1, KeyIsKey
<1>2. /\ target \in [Keys -> TargetRow] /\ target[k] \in TargetRow
      /\ execs[k] \in Seq(Content)
  BY DEF TypeInv, TargetTypes
<1>3. target[k].state = "pending" /\ execs[k] # <<>>
  BY <1>0, <1>1 DEF LoopInv, TaskLoop, SelectedAsRead, AboutToLink
<1>4. target' = [target EXCEPT ![k].state = "queued", ![k].tasked = TRUE]
  BY <1>0 DEF LinkTask
<1>5. target'[k].state = "queued" /\ \A j \in Keys \ {k} : target'[j] = target[j]
  BY <1>2, <1>4 DEF TargetRow
<1>6. Len(execs[k]) > 0
  BY <1>2, <1>3
<1>7. Stage(k) = "waiting" /\ Stage(k)' = "queued"
  BY <1>3, <1>5 DEF Stage
<1>8. QED  BY <1>1, <1>2, <1>5, <1>6, <1>7, StageMoves

LEMMA LifeStep ==
  ASSUME OneRun, TypeInv, TasksInv, SingleInv, [Next]_vars
  PROVE  [Life!LifeNext]_(Life!lifeVars)
<1>1. ASSUME UNCHANGED <<target, execs, crashes>>
      PROVE  [Life!LifeNext]_(Life!lifeVars)
  BY <1>1, StageRests
<1>2. ASSUME NEW r \in Runs, RunStops(r)
      PROVE  [Life!LifeNext]_(Life!lifeVars)
  <2>1. UNCHANGED <<target, execs>> /\ crashes' = crashes + 1
    BY <1>2 DEF RunStops, RunEnds, tableVars
  <2>2. Life!Stop
    BY <2>1 DEF Life!Stop, Stage
  <2>3. QED  BY <2>2 DEF Life!LifeNext
<1>3. ASSUME NEW r \in Runs, RunStep(r), ~RunStops(r)
      PROVE  [Life!LifeNext]_(Life!lifeVars)
  <2>1. LoopInv(r)
    BY DEF SingleInv
  <2>2. CASE RowStep(r)
    BY <2>1, <2>2, LifeRow
  <2>3. CASE TaskStep(r)
    BY <2>1, <2>3, LifeInsert, LifeLink DEF TaskStep
  <2>4. CASE ReadStep(r) \/ InsertProbe(r) \/ RunReturns(r)
    BY <1>1, <2>4, StepFrames DEF tableVars, RunReturns, RunEnds
  <2>5. QED  BY <1>3, <2>2, <2>3, <2>4 DEF RunStep, EndStep
<1>4. QED
  BY <1>1, <1>2, <1>3, StepsByKind DEF RunStep, EndStep, vars, tableVars

(* While runs do not overlap, the reconciler gives every target the life   *)
(* that operators are told of.                                             *)
THEOREM TargetsLiveAsTold == OneRun /\ Spec => LifeSpec
<1>1. Init => Life!LifeInit
  BY DEF Init, Life!LifeInit, Stage, NoTarget
<1>2. OneRun /\ TypeInv /\ TasksInv /\ SingleInv /\ [Next]_vars
        => [Life!LifeNext]_(Life!lifeVars)
  BY LifeStep
<1>3. OneRun => []OneRun
  <2>1. OneRun => OneRun'  BY DEF OneRun
  <2>2. QED  BY <2>1, PTL
<1>4. QED
  BY <1>1, <1>2, <1>3, TypeInvariant, TasksInvariant, SingleInvariant, PTL
  DEF Spec, LifeSpec, Life!LifeSpec

-----------------------------------------------------------------------------
(***************************************************************************)
(* What a generation runs.  The row of a campaign, the copies of the runs  *)
(* and the tasks inserted all say what a generation runs: they say the     *)
(* same, none is of a generation the row has not reached, and an open      *)
(* PATCH has read what the row still says.  Two requests that both read    *)
(* the row before either writes it break the last part: they count one     *)
(* generation for two contents.                                            *)
(***************************************************************************)

OneEditor == \A d, e \in Editors : d = e

RowSays(c, g, x) ==
  campaign[c].status # "absent" /\ campaign[c].generation = g /\ x = ContentOf(campaign[c])

CopySays(c, g, x) ==
  \E r \in Runs : c \in todo[r] /\ saw[r][c].generation = g /\ x = ContentOf(saw[r][c])

TaskSays(c, g, x) ==
  \E i \in Instances : \E n \in DOMAIN execs[<<c, g, i>>] : x = execs[<<c, g, i>>][n]

Says(c, g, x) == RowSays(c, g, x) \/ CopySays(c, g, x) \/ TaskSays(c, g, x)

AsStored == \A c \in CampaignIds : campaign[c].payload = Stored[campaign[c].payload]

NothingAhead ==
  \A c \in CampaignIds : \A g \in Generations : \A x \in Content :
    Says(c, g, x) => campaign[c].status # "absent" /\ g <= campaign[c].generation

AllSayTheSame ==
  \A c \in CampaignIds : \A g \in Generations : \A x, y \in Content :
    Says(c, g, x) /\ Says(c, g, y) => x = y

EditsAreOfRows ==
  \A e \in Editors : editing[e] # "idle" =>
    /\ campaign[edited[e]].status # "absent"
    /\ editing[e] = "patch" =>
         /\ ContentOf(read[e]) = ContentOf(campaign[edited[e]])
         /\ read[e].generation = campaign[edited[e]].generation

ContentInv == AsStored /\ NothingAhead /\ AllSayTheSame /\ EditsAreOfRows

\* The row still says what it said.
SameRow(c) ==
  /\ campaign'[c].status = "absent" <=> campaign[c].status = "absent"
  /\ campaign'[c].generation = campaign[c].generation
  /\ campaign'[c].action = campaign[c].action
  /\ campaign'[c].payload = campaign[c].payload

\* Nothing new is said of campaign c.
NoNews(c) ==
  \A g \in Generations : \A x \in Content : Says(c, g, x)' => Says(c, g, x)

LEMMA SaysFrame ==
  ASSUME ContentInv, NEW c \in CampaignIds, NoNews(c), SameRow(c),
         NEW g \in Generations, NEW x \in Content, Says(c, g, x)'
  PROVE  /\ campaign'[c].status # "absent" /\ g <= campaign'[c].generation
         /\ \A y \in Content : Says(c, g, y)' => x = y
BY DEF ContentInv, NoNews, SameRow, NothingAhead, AllSayTheSame

LEMMA RowsRest ==
  ASSUME ContentInv, \A c \in CampaignIds : SameRow(c) /\ NoNews(c),
         UNCHANGED editVars, TypeInv
  PROVE  ContentInv'
<1>1. AsStored'
  BY DEF ContentInv, AsStored, SameRow
<1>2. NothingAhead' /\ AllSayTheSame'
  BY SaysFrame DEF NothingAhead, AllSayTheSame
<1>3. EditsAreOfRows'
  BY DEF ContentInv, EditsAreOfRows, SameRow, ContentOf, editVars, TypeInv, RouteTypes
<1>4. QED  BY <1>1, <1>2, <1>3 DEF ContentInv

\* Steps that leave the copies and the tasks alone.
LEMMA OnlyRows ==
  ASSUME UNCHANGED <<todo, saw, execs>>, NEW c \in CampaignIds
  PROVE  /\ SameRow(c) => NoNews(c)
         /\ \A g \in Generations : \A x \in Content :
              Says(c, g, x)' => RowSays(c, g, x)' \/ Says(c, g, x)
BY DEF SameRow, NoNews, Says, RowSays, CopySays, TaskSays, ContentOf

LEMMA SaysRuns ==
  ASSUME TypeInv, ContentInv, NEW r \in Runs, RunStep(r)
  PROVE  ContentInv'
<1> USE DEF TypeInv, CopyTypes, LoopTypes
<1>1. UNCHANGED <<campaign, editVars>>
  BY StepFrames DEF RunStep, tableVars
<1>2. \A c \in CampaignIds : SameRow(c)
  BY <1>1 DEF SameRow
<1>3. ASSUME NEW s \in Runs, NEW c \in todo'[s]
      PROVE  \/ c \in todo[s] /\ saw'[s][c] = saw[s][c]
             \/ campaign[c].status # "absent" /\ saw'[s][c] = campaign[c]
  BY CopiesOfRows
<1>4. ASSUME NEW c \in CampaignIds, NEW g \in Generations, NEW x \in Content, TaskSays(c, g, x)'
      PROVE  TaskSays(c, g, x) \/ CopySays(c, g, x)
  <2>1. PICK i \in Instances : \E n \in DOMAIN execs'[<<c, g, i>>] : x = execs'[<<c, g, i>>][n]
    BY <1>4 DEF TaskSays
  <2>2. PICK n \in DOMAIN execs'[<<c, g, i>>] : x = execs'[<<c, g, i>>][n]
    BY <2>1
  <2>3. <<c, g, i>> \in Keys
    BY DEF Keys
  <2>4. ASSUME NEW j \in Instances, InsertTask(r, j), <<c, g, i>> = Key(r, j)
        PROVE  TaskSays(c, g, x) \/ CopySays(c, g, x)
    <3> DEFINE y == ContentOf(saw[r][Current(r)])
               old == execs[<<c, g, i>>]
    <3>1. pc[r] = "queue" /\ Current(r) \in todo[r]
      BY <2>4, KeyIsKey DEF InsertTask
    <3>2. c = Current(r) /\ g = saw[r][Current(r)].generation
      BY <2>4 DEF Key
    <3>3. CopySays(c, g, y)
      BY <3>1, <3>2 DEF CopySays
    <3>4. execs'[<<c, g, i>>] = Append(old, y) /\ old \in Seq(Content)
      BY <2>3, <2>4 DEF InsertTask, TargetTypes
    <3>5. y \in Content
      BY <3>1, KeyIsKey DEF ContentOf, Content, CampaignRow
    <3> HIDE DEF y
    <3>6. x = y \/ (n \in DOMAIN old /\ x = old[n])
      BY <2>2, <3>4, <3>5
    <3>7. QED  BY <3>3, <3>6 DEF TaskSays
  <2>5. CASE ~(\E j \in Instances : InsertTask(r, j) /\ <<c, g, i>> = Key(r, j))
    <3>1. execs'[<<c, g, i>>] = execs[<<c, g, i>>]
      BY <2>3, <2>5, TaskedStays DEF InsertTask, TargetTypes
    <3>2. QED  BY <2>2, <3>1 DEF TaskSays
  <2>6. QED  BY <2>4, <2>5
<1>5. ASSUME NEW c \in CampaignIds, NEW g \in Generations, NEW x \in Content, CopySays(c, g, x)'
      PROVE  CopySays(c, g, x) \/ RowSays(c, g, x)
  BY <1>3, <1>5 DEF CopySays, RowSays
<1>6. ASSUME NEW c \in CampaignIds, NEW g \in Generations, NEW x \in Content, RowSays(c, g, x)'
      PROVE  RowSays(c, g, x)
  BY <1>1, <1>6 DEF RowSays
<1>7. \A c \in CampaignIds : NoNews(c)
  BY <1>4, <1>5, <1>6 DEF NoNews, Says
<1>8. QED  BY <1>1, <1>2, <1>7, RowsRest

LEMMA SaysCreate ==
  ASSUME TypeInv, ContentInv, NEW c \in CampaignIds, CreateCampaign(c),
         UNCHANGED <<todo, saw, execs>>
  PROVE  ContentInv'
<1>1. PICK new \in NewCampaigns : campaign' = [campaign EXCEPT ![c] = new]
  BY DEF CreateCampaign
<1>2. /\ new.status = "open" /\ new.generation = 1 /\ new.payload = Stored[new.payload]
      /\ campaign'[c] = new /\ campaign[c].status = "absent"
      /\ \A d \in CampaignIds \ {c} : campaign'[d] = campaign[d]
      /\ UNCHANGED editVars
  BY <1>1, CampaignConstants DEF CreateCampaign, TypeInv, RouteTypes
<1>3. ASSUME NEW d \in CampaignIds \ {c} PROVE SameRow(d) /\ NoNews(d)
  BY <1>2, OnlyRows DEF SameRow
<1>4. ASSUME NEW g \in Generations, NEW x \in Content, Says(c, g, x)'
      PROVE  g = 1 /\ x = ContentOf(new)
  BY <1>2, <1>4, OnlyRows DEF ContentInv, NothingAhead, RowSays
<1>5. AsStored'
  BY <1>2 DEF ContentInv, AsStored
<1>6. NothingAhead' /\ AllSayTheSame'
  BY <1>2, <1>3, <1>4, SaysFrame DEF NothingAhead, AllSayTheSame, Generations
<1>7. EditsAreOfRows'
  BY <1>2 DEF ContentInv, EditsAreOfRows, editVars, TypeInv, RouteTypes
<1>8. QED  BY <1>5, <1>6, <1>7 DEF ContentInv

\* An edit ends: with one editor none is open any more.
LEMMA NoEdits ==
  ASSUME OneEditor, TypeInv, NEW e \in Editors, EditEnds(e)
  PROVE  EditsAreOfRows'
BY DEF OneEditor, EditEnds, EditsAreOfRows, TypeInv, RouteTypes

LEMMA SaysPatch ==
  ASSUME OneEditor, TypeInv, ContentInv, NEW e \in Editors, PatchWrite(e),
         UNCHANGED <<todo, saw, execs>>
  PROVE  ContentInv'
<1>1. PICK c \in CampaignIds : c = edited[e]
  BY DEF TypeInv, RouteTypes
<1>2. /\ editing[e] = "patch" /\ campaign[c] \in CampaignRow
      /\ body[e] \in Changes /\ read[e] \in CampaignRow
      /\ NextGeneration(read[e], body[e]) <= GenerationBound
  BY <1>1 DEF PatchWrite, TypeInv, RouteTypes, PatchesInBound
<1>3. /\ campaign[c].status # "absent"
      /\ ContentOf(read[e]) = ContentOf(campaign[c])
      /\ read[e].generation = campaign[c].generation
  BY <1>1, <1>2 DEF ContentInv, EditsAreOfRows
<1>4. read[e].action = campaign[c].action /\ read[e].payload = campaign[c].payload
  BY <1>3 DEF ContentOf
<1>5. \A d \in CampaignIds \ {c} : campaign'[d] = campaign[d]
  BY <1>1 DEF PatchWrite, TypeInv, RouteTypes
<1>6. \A d \in CampaignIds \ {c} : SameRow(d) /\ NoNews(d)
  BY <1>5, OnlyRows DEF SameRow
<1>7. EditsAreOfRows'
  BY NoEdits DEF PatchWrite
<1>8. campaign[c].payload = Stored[campaign[c].payload]
  BY DEF ContentInv, AsStored
<1>9. CASE ~Present(c)
  <2>1. campaign'[c] = campaign[c]
    BY <1>1, <1>9 DEF PatchWrite, TypeInv, RouteTypes
  <2>2. \A d \in CampaignIds : SameRow(d) /\ NoNews(d)
    BY <1>6, <2>1, OnlyRows DEF SameRow
  <2>3. AsStored' /\ NothingAhead' /\ AllSayTheSame'
    BY <2>2, SaysFrame DEF ContentInv, AsStored, NothingAhead, AllSayTheSame, SameRow
  <2>4. QED  BY <1>7, <2>3 DEF ContentInv
<1>10. CASE Present(c)
  <2> DEFINE b == body[e]
             new == Patched(campaign[c], b, read[e])
  <2>1. campaign'[c] = new
    BY <1>1, <1>10 DEF PatchWrite, TypeInv, RouteTypes
  <2>2. /\ new.status = campaign[c].status
        /\ new.generation = NextGeneration(read[e], b)
        /\ new.action = Coalesce(b.action, campaign[c].action)
        /\ new.payload = IF b.payload = Keep THEN campaign[c].payload ELSE Stored[b.payload]
    BY <1>2, PatchedType
  <2>3. b.payload \in Payloads \cup {Keep} /\ campaign[c].generation \in Nat
    BY <1>2, CampaignConstants DEF Change, CampaignRow, Generations
  <2> HIDE DEF b, new
  <2>4. new.payload = Stored[new.payload]
    BY <1>8, <2>2, <2>3, CampaignConstants
  <2>5. AsStored'
    BY <1>6, <2>1, <2>4 DEF ContentInv, AsStored, SameRow
  <2>6. CASE b.action \in {Keep, read[e].action} /\ b.payload \in {Keep, read[e].payload}
    <3>1. new.generation = campaign[c].generation
      BY <1>3, <2>2, <2>6 DEF NextGeneration
    <3>2. new.action = campaign[c].action
      BY <1>4, <2>2, <2>6 DEF Coalesce
    <3>3. new.payload = campaign[c].payload
      BY <1>4, <1>8, <2>2, <2>6
    <3>4. SameRow(c)
      BY <2>1, <2>2, <3>1, <3>2, <3>3 DEF SameRow
    <3>5. \A d \in CampaignIds : SameRow(d) /\ NoNews(d)
      BY <1>6, <3>4, OnlyRows
    <3>6. NothingAhead' /\ AllSayTheSame'
      BY <3>5, SaysFrame DEF NothingAhead, AllSayTheSame
    <3>7. QED  BY <1>7, <2>5, <3>6 DEF ContentInv
  <2>7. CASE ~(b.action \in {Keep, read[e].action} /\ b.payload \in {Keep, read[e].payload})
    <3>1. new.generation = campaign[c].generation + 1
      BY <1>3, <2>2, <2>7 DEF NextGeneration
    <3>2. ASSUME NEW g \in Generations, NEW x \in Content, Says(c, g, x)'
          PROVE  \/ g = campaign[c].generation + 1 /\ x = ContentOf(new)
                 \/ g <= campaign[c].generation /\ Says(c, g, x)
      BY <2>1, <3>1, <3>2, OnlyRows DEF ContentInv, NothingAhead, RowSays
    <3>3. \A g \in Generations : g \in Nat
      BY NewRowsAreRows
    <3>4. ASSUME NEW g \in Generations, NEW x \in Content, Says(c, g, x)'
          PROVE  /\ g <= new.generation
                 /\ \A y \in Content : Says(c, g, y)' => x = y
      BY <2>3, <3>1, <3>2, <3>3, <3>4 DEF ContentInv, AllSayTheSame
    <3>5. NothingAhead' /\ AllSayTheSame'
      BY <1>3, <1>6, <2>1, <2>2, <3>4, SaysFrame DEF NothingAhead, AllSayTheSame
    <3>6. QED  BY <1>7, <2>5, <3>5 DEF ContentInv
  <2>8. QED  BY <2>6, <2>7
<1>11. QED  BY <1>9, <1>10

LEMMA SaysRoutes ==
  ASSUME OneEditor, TypeInv, ContentInv, RouteSteps, UNCHANGED <<todo, saw, execs>>
  PROVE  ContentInv'
<1>0. campaign \in [CampaignIds -> CampaignRow]
  BY DEF TypeInv, RouteTypes
<1>1. ASSUME \A c \in CampaignIds : SameRow(c), EditsAreOfRows'
      PROVE  ContentInv'
  <2>1. \A c \in CampaignIds : SameRow(c) /\ NoNews(c)
    BY <1>1, OnlyRows
  <2>2. AsStored' /\ NothingAhead' /\ AllSayTheSame'
    BY <2>1, SaysFrame DEF ContentInv, AsStored, NothingAhead, AllSayTheSame, SameRow
  <2>3. QED  BY <1>1, <2>2 DEF ContentInv
<1>2. ASSUME NEW c \in CampaignIds, CloseCampaign(c) PROVE ContentInv'
  <2>1. \A d \in CampaignIds : SameRow(d)
    BY <1>0, <1>2 DEF CloseCampaign, SameRow, CampaignRow
  <2>2. QED  BY <1>2, <2>1, OnlyRows, RowsRest DEF CloseCampaign
<1>3. ASSUME NEW e \in Editors, NEW c \in CampaignIds, NEW b \in Changes, PatchRead(e, c, b)
      PROVE  ContentInv'
  <2>1. \A d \in CampaignIds : SameRow(d)
    BY <1>3 DEF PatchRead, SameRow
  <2>2. EditsAreOfRows'
    BY <1>3 DEF PatchRead, Present, EditsAreOfRows, OneEditor, TypeInv, RouteTypes
  <2>3. QED  BY <1>1, <2>1, <2>2
<1>4. ASSUME NEW e \in Editors, NEW c \in CampaignIds, DeleteRead(e, c)
      PROVE  ContentInv'
  <2>1. \A d \in CampaignIds : SameRow(d)
    BY <1>4 DEF DeleteRead, SameRow
  <2>2. EditsAreOfRows'
    BY <1>4 DEF DeleteRead, EditsAreOfRows, OneEditor, TypeInv, RouteTypes
  <2>3. QED  BY <1>1, <2>1, <2>2
<1>5. ASSUME NEW e \in Editors, DeleteWrite(e) PROVE ContentInv'
  <2>1. edited[e] \in CampaignIds /\ campaign[edited[e]].status # "absent"
    BY <1>5 DEF DeleteWrite, TypeInv, RouteTypes, ContentInv, EditsAreOfRows
  <2>2. \A d \in CampaignIds : SameRow(d)
    BY <1>0, <1>5, <2>1 DEF DeleteWrite, SameRow, CampaignRow
  <2>3. QED  BY <1>1, <1>5, <2>2, NoEdits DEF DeleteWrite
<1>6. ASSUME NEW e \in Editors, EditAborts(e) PROVE ContentInv'
  <2>1. \A d \in CampaignIds : SameRow(d)
    BY <1>6 DEF EditAborts, SameRow
  <2>2. QED  BY <1>1, <1>6, <2>1, NoEdits DEF EditAborts
<1>7. QED
  BY <1>2, <1>3, <1>4, <1>5, <1>6, SaysCreate, SaysPatch DEF RouteSteps

LEMMA ContentStep ==
  ASSUME OneEditor, TypeInv, ContentInv, [Next]_vars
  PROVE  ContentInv'
<1>0. campaign \in [CampaignIds -> CampaignRow]
  BY DEF TypeInv, RouteTypes
<1>1. ASSUME UNCHANGED <<todo, saw, execs, editVars>>, \A c \in CampaignIds : SameRow(c)
      PROVE  ContentInv'
  BY <1>1, OnlyRows, RowsRest
<1>2. CASE RouteSteps /\ UNCHANGED <<target, execs, runVars, crashes, cleared>>
  BY <1>2, SaysRoutes DEF runVars, copyVars
<1>3. CASE WorldSteps /\ UNCHANGED <<target, execs, runVars, crashes, cleared>>
  <2>1. ASSUME NEW c \in CampaignIds, CampaignExpires(c)
        PROVE  \A d \in CampaignIds : SameRow(d)
    BY <1>0, <2>1 DEF CampaignExpires, SameRow, CampaignRow
  <2>2. ASSUME UNCHANGED campaign PROVE \A d \in CampaignIds : SameRow(d)
    BY <2>2 DEF SameRow
  <2>3. \A d \in CampaignIds : SameRow(d)
    BY <1>3, <2>1, <2>2
    DEF WorldSteps, LabelsChange, Heartbeat, HeartbeatLapses, QueueSteps, ProbeReopens
  <2>4. QED  BY <1>1, <1>3, <2>3, WorldStepTypes DEF runVars, copyVars
<1>4. CASE UNCHANGED vars
  BY <1>1, <1>4 DEF vars, tableVars, runVars, copyVars, SameRow
<1>5. QED
  BY <1>2, <1>3, <1>4, SaysRuns, StepsByKind DEF RunStep

LEMMA ContentInit == Init => ContentInv
<1> SUFFICES ASSUME Init PROVE ContentInv
  OBVIOUS
<1>1. campaign = [c \in CampaignIds |-> SomeRow] /\ SomeRow.status = "absent"
  BY NewRowsAreRows DEF Init, CampaignInit
<1>2. SomeRow.payload = Stored[SomeRow.payload]
  <2>1. (CHOOSE c \in NewCampaigns : TRUE) \in NewCampaigns
    BY CampaignConstants
  <2>2. PICK new \in NewCampaigns : SomeRow = [new EXCEPT !.status = "absent"]
    BY <2>1 DEF SomeRow
  <2>3. new \in CampaignRow /\ new.payload = Stored[new.payload]
    BY CampaignConstants
  <2>4. QED  BY <2>2, <2>3 DEF CampaignRow
<1>3. \A c \in CampaignIds : \A g \in Generations : \A x \in Content : ~Says(c, g, x)
  <2> SUFFICES ASSUME NEW c \in CampaignIds, NEW g \in Generations, NEW x \in Content
               PROVE  ~RowSays(c, g, x) /\ ~CopySays(c, g, x) /\ ~TaskSays(c, g, x)
    BY DEF Says
  <2>1. ~RowSays(c, g, x) /\ ~CopySays(c, g, x)
    BY <1>1 DEF Init, RowSays, CopySays
  <2>2. \A i \in Instances : <<c, g, i>> \in Keys
    BY DEF Keys
  <2>3. \A i \in Instances : execs[<<c, g, i>>] = <<>>
    BY <2>2 DEF Init
  <2>4. ~TaskSays(c, g, x)
    <3>1. DOMAIN <<>> = {}
      <4>1. <<>> \in Seq(Content) /\ Len(<<>>) = 0
        OBVIOUS
      <4>2. DOMAIN <<>> = 1 .. 0
        BY <4>1
      <4>3. QED  BY <4>2
    <3>2. QED  BY <2>3, <3>1, Zenon DEF TaskSays
  <2>5. QED  BY <2>1, <2>4
<1>4. QED
  BY <1>1, <1>2, <1>3
  DEF Init, CampaignInit, ContentInv, AsStored, NothingAhead, AllSayTheSame, EditsAreOfRows

LEMMA ContentInvariant == OneEditor /\ Spec => []ContentInv
<1>1. OneEditor /\ TypeInv /\ ContentInv /\ [Next]_vars => ContentInv'
  BY ContentStep
<1>2. OneEditor => []OneEditor
  <2>1. OneEditor => OneEditor'  BY DEF OneEditor
  <2>2. QED  BY <2>1, PTL
<1>3. QED  BY <1>1, <1>2, ContentInit, TypeInvariant, PTL DEF Spec

(* However many runs overlap and however old their copies are: while       *)
(* requests to one campaign do not overlap, all tasks of a generation run  *)
(* the same thing.                                                         *)
THEOREM GenerationsRunOneThing == OneEditor /\ Spec => []OneContentPerGeneration
<1>1. TypeInv /\ ContentInv => OneContentPerGeneration
  <2> SUFFICES ASSUME TypeInv, ContentInv, NEW k1 \in Keys, NEW k2 \in Keys,
                      k1[1] = k2[1], k1[2] = k2[2],
                      NEW m \in DOMAIN execs[k1], NEW n \in DOMAIN execs[k2]
               PROVE  execs[k1][m] = execs[k2][n]
    BY DEF OneContentPerGeneration
  <2>1. PICK c \in CampaignIds, g \in Generations, i \in Instances, j \in Instances :
          k1 = <<c, g, i>> /\ k2 = <<c, g, j>>
    BY DEF Keys
  <2>2. execs[k1] \in Seq(Content) /\ execs[k2] \in Seq(Content)
    BY DEF TypeInv, TargetTypes
  <2>3. execs[k1][m] \in Content /\ execs[k2][n] \in Content
    BY <2>2
  <2>4. Says(c, g, execs[k1][m]) /\ Says(c, g, execs[k2][n])
    BY <2>1 DEF Says, TaskSays
  <2>5. QED  BY <2>3, <2>4 DEF ContentInv, AllSayTheSame
<1>2. QED  BY <1>1, TypeInvariant, ContentInvariant, PTL

(* What holds between any two calls while neither runs nor requests        *)
(* overlap.                                                                *)
THEOREM ReconcilerIsSafe == OneRun /\ OneEditor /\ Spec => []ReconcilerInv
BY ReconcilerTypeCorrect, GenerationsRunOneThing, TasksPassTheGate, PTL DEF ReconcilerInv
=============================================================================
