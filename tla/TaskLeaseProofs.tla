-------------------------- MODULE TaskLeaseProofs --------------------------
(***************************************************************************)
(* Proofs about the control plane's task queue, for every set of           *)
(* instances, tasks and request slots and against any clients.             *)
(***************************************************************************)
EXTENDS TaskLease, InstanceFactsProofs, FiniteSetTheorems

LEMMA LeaseTtlIsPositive ==
  ASSUME NEW t \in Tasks
  PROVE  LeaseTtl(t) \in Nat /\ LeaseTtl(t) > 0
BY LeaseConstants DEF LeaseTtl

LEMMA TargetIsInstance ==
  ASSUME NEW t \in Tasks, t \notin GroupTasks
  PROVE  Target(t) \in Instances
BY TaskConstants DEF Target

LEMMA SomeMessageIsMessage == SomeMessage \in AckMessages
<1>1. 1 \in Tasks  BY TaskConstants DEF Tasks
<1>2. [task |-> 1, ok |-> TRUE, result |-> NoResult] \in AckMessages
  BY <1>1 DEF AckMessages, AnyResult
<1>3. QED  BY <1>2 DEF SomeMessage

LEMMA SomeInstanceIsInstance == SomeInstance \in Instances
BY TaskConstants DEF SomeInstance

-----------------------------------------------------------------------------
(* Type correctness.  Instance-targeted tasks only reach the steps that    *)
(* write facts: this is part of the invariant, because Target is undefined *)
(* for the others.                                                         *)

FactStepsHaveTarget ==
  \A h \in AckHandlers :
    ackPc[h] \in {"facts", "probe", "bump"} => ackMsg[h].task \notin GroupTasks

TypeInv == LeaseTypeOK /\ FactStepsHaveTarget

LEMMA TypeInit == LeaseInit => TypeInv
<1> SUFFICES ASSUME LeaseInit PROVE TypeInv  OBVIOUS
<1> USE DEF LeaseInit
<1>1. TableTypeOK
  BY LeaseTtlIsPositive, BoundConstants
  DEF TableTypeOK, Statuses, NoLease, AnyResult
<1>2. PullTypeOK
  BY SomeInstanceIsInstance, LeaseConstants DEF PullTypeOK, PullPcs
<1>3. AckTypeOK
  BY SomeMessageIsMessage, BoundConstants, FactConstants DEF AckTypeOK, AckPcs
<1>4. FactsTypeOK
  BY FactConstants DEF FactsTypeOK, FactsInit, FactRow, ProbeRow, ProbeKinds
<1>5. FactStepsHaveTarget  BY DEF FactStepsHaveTarget
<1>6. QED  BY <1>1, <1>2, <1>3, <1>4, <1>5 DEF TypeInv, LeaseTypeOK

(* A step that leaves a part of the state alone keeps its type.            *)

LEMMA TableFrame ==
  ASSUME TableTypeOK, UNCHANGED <<tableVars, leaseKey>>
  PROVE  TableTypeOK'
BY DEF TableTypeOK, tableVars

LEMMA PullFrame ==
  ASSUME PullTypeOK, UNCHANGED pullVars
  PROVE  PullTypeOK'
BY DEF PullTypeOK, pullVars

LEMMA AckFrame ==
  ASSUME AckTypeOK, UNCHANGED ackVars
  PROVE  AckTypeOK'
BY DEF AckTypeOK, ackVars

LEMMA TargetFrame ==
  ASSUME FactStepsHaveTarget, UNCHANGED ackVars
  PROVE  FactStepsHaveTarget'
BY DEF FactStepsHaveTarget, ackVars

LEMMA TasksStepType ==
  ASSUME TypeInv, NEW t \in Tasks, CreateTask(t) \/ TaskExpires(t)
  PROVE  TypeInv'
<1> USE DEF TypeInv, LeaseTypeOK
<1>1. TableTypeOK'
  BY DEF TableTypeOK, CreateTask, TaskExpires, Statuses
<1>2. QED
  BY <1>1, PullFrame, AckFrame, FactsFrame, TargetFrame DEF CreateTask, TaskExpires

LEMMA TickType ==
  ASSUME TypeInv, Tick
  PROVE  TypeInv'
<1> USE DEF TypeInv, LeaseTypeOK, Tick
<1>1. TableTypeOK'
  <2>1. \A t \in Tasks : leaseKey'[t] \in Nat /\ leaseKey'[t] <= LeaseTtl(t)
    BY LeaseTtlIsPositive DEF TableTypeOK, KeyLeft, CountDown
  <2>2. \A t \in Tasks : lease'[t] \in {NoLease} \cup 0..LeaseTtl(t)
    BY LeaseTtlIsPositive DEF TableTypeOK, KeyLeft, CountDown, NoLease
  <2>3. lease' \in [Tasks -> Int] /\ leaseKey' \in [Tasks -> Nat]
    BY <2>1 DEF TableTypeOK, KeyLeft, CountDown
  <2>4. QED  BY <2>1, <2>2, <2>3 DEF TableTypeOK
<1>2. PullTypeOK'
  <2>1. grant' \in [PullHandlers -> [Tasks -> Nat]]
    BY DEF PullTypeOK, CountDown
  <2>2. age' \in [PullHandlers -> 0..MaxStall]
    BY LeaseConstants DEF PullTypeOK
  <2>3. QED  BY <2>1, <2>2 DEF PullTypeOK
<1>3. QED
  BY <1>1, <1>2, AckFrame, FactsFrame, TargetFrame

LEMMA PullStepType ==
  ASSUME TypeInv, NEW h \in PullHandlers, PullSteps(h)
  PROVE  TypeInv'
<1> USE DEF TypeInv, LeaseTypeOK
<1>1. CASE PullReclaim(h)
  <2>1. TableTypeOK'
    BY <1>1, LeaseTtlIsPositive DEF PullReclaim, TableTypeOK, Statuses, NoLease
  <2>2. PullTypeOK'
    BY <1>1 DEF PullReclaim, PullTypeOK, PullPcs
  <2>3. QED  BY <1>1, <2>1, <2>2, AckFrame, FactsFrame, TargetFrame DEF PullReclaim
<1>2. CASE PullSelect(h)
  <2>1. PullTypeOK'
    BY <1>2 DEF PullSelect, PullTypeOK, PullPcs, Oldest, Candidates
  <2>2. QED
    BY <1>2, <2>1, TableFrame, AckFrame, FactsFrame, TargetFrame DEF PullSelect
<1>3. ASSUME NEW t \in Tasks, PullClaim(h, t) PROVE TypeInv'
  <2>1. TableTypeOK'
    BY <1>3, LeaseTtlIsPositive DEF PullClaim, TableTypeOK, tableVars
  <2>2. PullTypeOK'
    BY <1>3, LeaseTtlIsPositive DEF PullClaim, PullTypeOK, PullPcs
  <2>3. QED  BY <1>3, <2>1, <2>2, AckFrame, FactsFrame, TargetFrame DEF PullClaim
<1>4. ASSUME NEW t \in Tasks, PullSkip(h, t) PROVE TypeInv'
  <2>1. PullTypeOK'
    BY <1>4 DEF PullSkip, PullTypeOK
  <2>2. QED
    BY <1>4, <2>1, TableFrame, AckFrame, FactsFrame, TargetFrame DEF PullSkip
<1>5. ASSUME NEW t \in Tasks, PullGrant(h, t) PROVE TypeInv'
  <2>1. PICK left \in leaseKey[t] .. LeaseTtl(t) : lease' = [lease EXCEPT ![t] = left]
    BY <1>5 DEF PullGrant, LeaseLeft
  <2>2. left \in 0 .. LeaseTtl(t)
    BY LeaseTtlIsPositive DEF TableTypeOK
  <2>3. TableTypeOK'
    BY <1>5, <2>1, <2>2, BoundConstants, LeaseTtlIsPositive
    DEF PullGrant, NextAttempt, TableTypeOK, Statuses, NoLease
  <2>4. PullTypeOK'
    BY <1>5 DEF PullGrant, PullTypeOK, PullPcs
  <2>5. QED  BY <1>5, <2>3, <2>4, AckFrame, FactsFrame, TargetFrame DEF PullGrant
<1>6. QED  BY <1>1, <1>2, <1>3, <1>4, <1>5 DEF PullSteps

LEMMA PullClientType ==
  ASSUME TypeInv, NEW h \in PullHandlers,
         \/ \E i \in Instances : PullArrive(h, i)
         \/ PullReply(h)
         \/ PullAbort(h)
  PROVE  TypeInv'
<1> USE DEF TypeInv, LeaseTypeOK
<1>1. ASSUME NEW i \in Instances, PullArrive(h, i) PROVE TypeInv'
  <2>1. [t \in Tasks |-> 0] \in [Tasks -> Nat]
    OBVIOUS
  <2>2. PullTypeOK'
    BY <1>1, <2>1 DEF PullArrive, PullTypeOK, PullPcs
  <2>3. QED
    BY <1>1, <2>2, TableFrame, AckFrame, FactsFrame, TargetFrame DEF PullArrive
<1>2. ASSUME PullEnds(h) PROVE TypeInv'
  <2>1. PullTypeOK'
    BY <1>2, LeaseConstants DEF PullEnds, PullTypeOK, PullPcs
  <2>2. QED
    BY <1>2, <2>1, TableFrame, AckFrame, FactsFrame, TargetFrame DEF PullEnds
<1>3. QED  BY <1>1, <1>2 DEF PullReply, PullAbort

\* What the types of the acknowledgement handlers say of one of them.
LEMMA AckMessageType ==
  ASSUME AckTypeOK, NEW h \in AckHandlers
  PROVE  /\ ackMsg[h] \in AckMessages
         /\ ackMsg[h].task \in Tasks
         /\ ackMsg[h].ok \in BOOLEAN
         /\ ackMsg[h].result \in AnyResult
BY DEF AckTypeOK, AckMessages

LEMMA AckRowType ==
  ASSUME TypeInv, NEW h \in AckHandlers,
         AckRead(h) \/ AckNotFound(h) \/ AckWriteOk(h) \/ AckWriteError(h) \/ AckLog(h)
  PROVE  TypeInv'
<1> USE DEF TypeInv, LeaseTypeOK
<1> DEFINE m == ackMsg[h]
<1>0. m.task \in Tasks /\ m.ok \in BOOLEAN /\ m.result \in AnyResult
  BY AckMessageType
<1>1. CASE AckRead(h)
  <2>1. AckTypeOK'
    BY <1>0, <1>1 DEF AckRead, AckTypeOK, AckPcs, TableTypeOK
  <2>2. FactStepsHaveTarget'
    BY <1>1 DEF AckRead, FactStepsHaveTarget, AckTypeOK
  <2>3. QED  BY <1>1, <2>1, <2>2, TableFrame, PullFrame, FactsFrame DEF AckRead
<1>2. CASE AckNotFound(h)
  <2>1. AckTypeOK'
    BY <1>2 DEF AckNotFound, AckTypeOK, AckPcs
  <2>2. FactStepsHaveTarget'
    BY <1>2 DEF AckNotFound, FactStepsHaveTarget, AckTypeOK
  <2>3. QED  BY <1>2, <2>1, <2>2, TableFrame, PullFrame, FactsFrame DEF AckNotFound
<1>3. CASE AckWriteOk(h)
  <2>1. AckTypeOK'
    BY <1>3 DEF AckWriteOk, AckTypeOK, AckPcs
  <2>2. FactStepsHaveTarget'
    BY <1>3 DEF AckWriteOk, FactStepsHaveTarget, AckTypeOK
  <2>3. TableTypeOK'
    BY <1>0, <1>3 DEF AckWriteOk, TableTypeOK, Statuses
  <2>4. QED  BY <1>3, <2>1, <2>2, <2>3, PullFrame, FactsFrame DEF AckWriteOk
<1>4. CASE AckWriteError(h)
  <2>1. AckTypeOK'
    BY <1>4 DEF AckWriteError, AckTypeOK, AckPcs
  <2>2. FactStepsHaveTarget'
    BY <1>4 DEF AckWriteError, FactStepsHaveTarget, AckTypeOK
  <2>3. TableTypeOK'
    BY <1>0, <1>4 DEF AckWriteError, StatusAfterError, TableTypeOK, Statuses
  <2>4. QED  BY <1>4, <2>1, <2>2, <2>3, PullFrame, FactsFrame DEF AckWriteError
<1>5. CASE AckLog(h)
  <2>1. AckTypeOK'
    BY <1>5 DEF AckLog, AckTypeOK, AckPcs, StepAfterLog
  <2>2. FactStepsHaveTarget'
    BY <1>5 DEF AckLog, FactStepsHaveTarget, AckTypeOK, StepAfterLog
  <2>3. [task |-> m.task, attempt |-> seen[h], ok |-> m.ok] \in AttemptRows
    BY <1>0 DEF AckTypeOK, AttemptRows
  <2>4. TableTypeOK'
    BY <1>5, <2>3 DEF AckLog, AttemptRow, TableTypeOK
  <2>5. QED  BY <1>5, <2>1, <2>2, <2>4, PullFrame, FactsFrame DEF AckLog
<1>6. QED  BY <1>1, <1>2, <1>3, <1>4, <1>5

LEMMA AckFactsType ==
  ASSUME TypeInv, NEW h \in AckHandlers,
         AckFacts(h) \/ AckProbeReset(h) \/ AckProbeRead(h) \/ AckProbeWrite(h)
  PROVE  TypeInv'
<1> USE DEF TypeInv, LeaseTypeOK
<1> DEFINE m == ackMsg[h]
           i == Target(m.task)
           k == ProbeKindOf(m.task)
<1>0. m.task \in Tasks /\ m.result \in AnyResult
  BY AckMessageType
<1>1. m.task \notin GroupTasks
  BY DEF FactStepsHaveTarget, AckFacts, AckProbeReset, AckProbeRead, AckProbeWrite
<1>2. i \in Instances
  BY <1>0, <1>1, TargetIsInstance
<1>3. k \in ProbeKinds
  BY DEF ProbeKindOf, ProbeKinds
<1>4. AckTypeOK'
  <2>1. CASE AckProbeRead(h)
    <3>1. probeState[i][k] \in ProbeRow
      BY <1>2, <1>3 DEF FactsTypeOK
    <3>2. probeState[i][k].failures \in 0..FailureBound
      BY <3>1 DEF ProbeRow
    <3>3. QED  BY <2>1, <3>2 DEF AckProbeRead, AckTypeOK, AckPcs
  <2>2. CASE AckFacts(h) \/ AckProbeReset(h) \/ AckProbeWrite(h)
    BY <2>2 DEF AckFacts, AckProbeReset, AckProbeWrite, AckTypeOK, AckPcs
  <2>3. QED  BY <2>1, <2>2
<1>5. FactStepsHaveTarget'
  BY <1>1
  DEF FactStepsHaveTarget, AckFacts, AckProbeReset, AckProbeRead, AckProbeWrite, AckTypeOK
<1>6. FactsTypeOK'
  <2>1. CASE AckFacts(h)
    BY <1>0, <1>2, <2>1, GatewayFactType, SnapshotFactType, InvalidationType DEF AckFacts
  <2>2. CASE AckProbeReset(h)
    <3>1. 0 \in 0..FailureBound
      BY FactConstants
    <3>2. QED  BY <1>2, <1>3, <2>2, <3>1, ProbeStateType DEF AckProbeReset
  <2>3. CASE AckProbeRead(h)
    BY <2>3, FactsFrame DEF AckProbeRead
  <2>4. CASE AckProbeWrite(h)
    <3>1. seenFailures[h] \in 0..FailureBound
      BY DEF AckTypeOK
    <3>2. QED  BY <1>2, <1>3, <2>4, <3>1, ProbeStateType DEF AckProbeWrite
  <2>5. QED  BY <2>1, <2>2, <2>3, <2>4
<1>7. UNCHANGED <<tableVars, leaseKey>> /\ UNCHANGED pullVars
  BY DEF AckFacts, AckProbeReset, AckProbeRead, AckProbeWrite
<1>8. QED  BY <1>4, <1>5, <1>6, <1>7, TableFrame, PullFrame

LEMMA AckClientType ==
  ASSUME TypeInv, NEW h \in AckHandlers,
         \/ \E m \in ClientMessages : AckArrive(h, m)
         \/ AckReply(h)
         \/ AckAbort(h)
  PROVE  TypeInv'
<1> USE DEF TypeInv, LeaseTypeOK
<1>1. ASSUME NEW m \in AckMessages, AckArrive(h, m) PROVE TypeInv'
  <2>1. AckTypeOK'
    BY <1>1 DEF AckArrive, AckTypeOK, AckPcs
  <2>2. FactStepsHaveTarget'
    BY <1>1 DEF AckArrive, FactStepsHaveTarget, AckTypeOK
  <2>3. QED  BY <1>1, <2>1, <2>2, TableFrame, PullFrame, FactsFrame DEF AckArrive
<1>2. ASSUME AckEnds(h) PROVE TypeInv'
  <2>1. AckTypeOK'
    BY <1>2, SomeMessageIsMessage, BoundConstants, FactConstants
    DEF AckEnds, AckTypeOK, AckPcs
  <2>2. FactStepsHaveTarget'
    BY <1>2 DEF AckEnds, FactStepsHaveTarget, AckTypeOK
  <2>3. QED  BY <1>2, <2>1, <2>2, TableFrame, PullFrame, FactsFrame DEF AckEnds
<1>3. QED  BY <1>1, <1>2 DEF AckReply, AckAbort, ClientMessages

LEMMA TypeStep ==
  ASSUME TypeInv, [LeaseNext]_leaseVars
  PROVE  TypeInv'
<1>1. CASE ServerSteps
  <2>1. ASSUME FactsAge, UNCHANGED <<tableVars, leaseKey, pullVars, ackVars>>
        PROVE  TypeInv'
    BY <2>1, FactsAgeType, TableFrame, PullFrame, AckFrame, TargetFrame
    DEF TypeInv, LeaseTypeOK
  <2>2. QED
    BY <1>1, <2>1, TasksStepType, TickType, PullStepType, AckRowType, AckFactsType
    DEF ServerSteps, AckSteps
<1>2. CASE \E h \in PullHandlers :
             (\E i \in Instances : PullArrive(h, i)) \/ PullReply(h) \/ PullAbort(h)
  BY <1>2, PullClientType
<1>3. CASE \E h \in AckHandlers :
             (\E m \in ClientMessages : AckArrive(h, m)) \/ AckReply(h) \/ AckAbort(h)
  BY <1>3, AckClientType
<1>4. CASE UNCHANGED leaseVars
  BY <1>4, TableFrame, PullFrame, AckFrame, FactsFrame, TargetFrame
  DEF leaseVars, TypeInv, LeaseTypeOK
<1>5. QED  BY <1>1, <1>2, <1>3, <1>4 DEF LeaseNext

LEMMA TypeInvariant == LeaseSpec => []TypeInv
<1>1. TypeInv /\ [LeaseNext]_leaseVars => TypeInv'
  BY TypeStep
<1>2. QED  BY TypeInit, <1>1, PTL DEF LeaseSpec

(* Whatever the clients send, the tables, keys and handlers of the control *)
(* plane stay within their types: statuses are among the five, attempts    *)
(* and leases within their bounds.                                         *)
THEOREM LeaseTypeCorrect == LeaseSpec => []LeaseTypeOK
<1>1. TypeInv => LeaseTypeOK  BY DEF TypeInv
<1>2. QED  BY TypeInvariant, <1>1, PTL

-----------------------------------------------------------------------------
(* Steps of acknowledgement handlers leave keys and pulls alone.           *)
LEMMA AcksLeavePulls ==
  ASSUME \/ \E h \in AckHandlers : AckSteps(h) \/ AckReply(h) \/ AckAbort(h)
         \/ \E h \in AckHandlers, m \in ClientMessages : AckArrive(h, m)
  PROVE  UNCHANGED leaseKey /\ UNCHANGED pullVars
<1>1. ASSUME NEW h \in AckHandlers, AckSteps(h)
      PROVE  UNCHANGED leaseKey /\ UNCHANGED pullVars
  BY <1>1 DEF AckSteps, AckRead, AckNotFound, AckWriteOk, AckWriteError, AckLog,
              AckFacts, AckProbeReset, AckProbeRead, AckProbeWrite
<1>2. ASSUME NEW h \in AckHandlers,
             \/ AckReply(h) \/ AckAbort(h)
             \/ \E m \in ClientMessages : AckArrive(h, m)
      PROVE  UNCHANGED leaseKey /\ UNCHANGED pullVars
  BY <1>2 DEF AckReply, AckAbort, AckEnds, AckArrive
<1>3. QED  BY <1>1, <1>2

(***************************************************************************)
(* Exclusive leases.  ExclusiveLease is inductive together with the fact   *)
(* that no lease outlasts the Redis key it was won with.                   *)
(***************************************************************************)

GrantWithinKey ==
  \A h \in PullHandlers : \A t \in Tasks : grant[h][t] <= leaseKey[t]

ExclusiveInv == GrantWithinKey /\ ExclusiveLease

LEMMA ExclusiveFrame ==
  ASSUME ExclusiveInv, UNCHANGED <<leaseKey, grant>>
  PROVE  ExclusiveInv'
BY DEF ExclusiveInv, GrantWithinKey, ExclusiveLease

LEMMA ExclusiveTick ==
  ASSUME TypeInv, ExclusiveInv, Tick
  PROVE  ExclusiveInv'
<1>1. ASSUME NEW h \in PullHandlers, NEW t \in Tasks
      PROVE  /\ grant'[h][t] = CountDown(grant[h][t])
             /\ leaseKey'[t] = CountDown(leaseKey[t])
             /\ grant[h][t] \in Nat /\ leaseKey[t] \in Nat
             /\ grant[h][t] <= leaseKey[t]
  BY DEF Tick, KeyLeft, ExclusiveInv, GrantWithinKey, TypeInv, LeaseTypeOK,
         TableTypeOK, PullTypeOK
<1>2. GrantWithinKey'
  BY <1>1 DEF GrantWithinKey, CountDown
<1>3. ExclusiveLease'
  BY <1>1 DEF ExclusiveInv, ExclusiveLease, CountDown
<1>4. QED  BY <1>2, <1>3 DEF ExclusiveInv

LEMMA ExclusiveArrive ==
  ASSUME TypeInv, ExclusiveInv, NEW h \in PullHandlers, NEW i \in Instances,
         PullArrive(h, i)
  PROVE  ExclusiveInv'
<1>1. ASSUME NEW g \in PullHandlers, NEW t \in Tasks
      PROVE  /\ grant'[g][t] = IF g = h THEN 0 ELSE grant[g][t]
             /\ leaseKey'[t] = leaseKey[t]
             /\ leaseKey[t] \in Nat
  BY DEF PullArrive, TypeInv, LeaseTypeOK, TableTypeOK, PullTypeOK
<1>2. QED  BY <1>1 DEF ExclusiveInv, GrantWithinKey, ExclusiveLease

LEMMA ExclusiveClaim ==
  ASSUME TypeInv, ExclusiveInv, NEW h \in PullHandlers, NEW t \in Tasks,
         PullClaim(h, t)
  PROVE  ExclusiveInv'
<1>1. ASSUME NEW g \in PullHandlers, NEW u \in Tasks
      PROVE  /\ grant'[g][u] = IF g = h /\ u = t THEN LeaseTtl(t) ELSE grant[g][u]
             /\ leaseKey'[u] = IF u = t THEN LeaseTtl(t) ELSE leaseKey[u]
             /\ grant[g][u] \in Nat
             /\ grant[g][u] <= leaseKey[u]
  BY DEF PullClaim, ExclusiveInv, GrantWithinKey, TypeInv, LeaseTypeOK,
         TableTypeOK, PullTypeOK
<1>2. \A g \in PullHandlers : grant[g][t] = 0
  BY <1>1 DEF PullClaim, SetSucceeds
<1>3. GrantWithinKey'
  BY <1>1, <1>2, LeaseTtlIsPositive DEF GrantWithinKey
<1>4. ExclusiveLease'
  BY <1>1, <1>2 DEF ExclusiveInv, ExclusiveLease
<1>5. QED  BY <1>3, <1>4 DEF ExclusiveInv

LEMMA ExclusiveStep ==
  ASSUME TypeInv, ExclusiveInv, [LeaseNext]_leaseVars
  PROVE  ExclusiveInv'
<1>1. CASE Tick
  BY <1>1, ExclusiveTick
<1>2. CASE \E h \in PullHandlers : PullSteps(h)
  <2>1. PICK h \in PullHandlers : PullSteps(h)  BY <1>2
  <2>2. ASSUME NEW t \in Tasks, PullClaim(h, t) PROVE ExclusiveInv'
    BY <2>2, ExclusiveClaim
  <2>3. ASSUME NEW t \in Tasks, PullSkip(h, t) \/ PullGrant(h, t)
        PROVE  ExclusiveInv'
    BY <2>3, ExclusiveFrame DEF PullSkip, PullGrant
  <2>4. CASE PullReclaim(h) \/ PullSelect(h)
    BY <2>4, ExclusiveFrame DEF PullReclaim, PullSelect
  <2>5. QED  BY <2>1, <2>2, <2>3, <2>4 DEF PullSteps
<1>3. CASE \E h \in PullHandlers, i \in Instances : PullArrive(h, i)
  BY <1>3, ExclusiveArrive
<1>4. CASE \E h \in PullHandlers : PullReply(h) \/ PullAbort(h)
  BY <1>4, ExclusiveFrame DEF PullReply, PullAbort, PullEnds
<1>5. CASE \E t \in Tasks : CreateTask(t) \/ TaskExpires(t)
  BY <1>5, ExclusiveFrame DEF CreateTask, TaskExpires, pullVars
<1>6. CASE \/ \E h \in AckHandlers : AckSteps(h) \/ AckReply(h) \/ AckAbort(h)
           \/ \E h \in AckHandlers, m \in ClientMessages : AckArrive(h, m)
  <2>1. UNCHANGED leaseKey /\ UNCHANGED pullVars
    BY <1>6, AcksLeavePulls
  <2>2. QED  BY <2>1, ExclusiveFrame DEF pullVars
<1>7. CASE FactsAge /\ UNCHANGED <<tableVars, leaseKey, pullVars, ackVars>>
  BY <1>7, ExclusiveFrame DEF pullVars
<1>8. CASE UNCHANGED leaseVars
  BY <1>8, ExclusiveFrame DEF leaseVars, pullVars
<1>9. QED
  BY <1>1, <1>2, <1>3, <1>4, <1>5, <1>6, <1>7, <1>8 DEF LeaseNext, ServerSteps

(* However many pull requests race for a task, crash or stall, at most one *)
(* of them holds a lease of it that has not run out.                       *)
THEOREM LeasesAreExclusive == LeaseSpec => []ExclusiveLease
<1>1. LeaseInit => ExclusiveInv
  BY DEF LeaseInit, ExclusiveInv, GrantWithinKey, ExclusiveLease
<1>2. TypeInv /\ ExclusiveInv /\ [LeaseNext]_leaseVars => ExclusiveInv'
  BY ExclusiveStep
<1>3. ExclusiveInv => ExclusiveLease
  BY DEF ExclusiveInv
<1>4. QED  BY <1>1, <1>2, <1>3, TypeInvariant, PTL DEF LeaseSpec

(***************************************************************************)
(* The attempt count.  The acknowledgement handler decides on the count it *)
(* read, which may be out of date when it writes; the count only grows, so *)
(* an outdated one errs on the side of another attempt.                    *)
(***************************************************************************)

SeenIsPast ==
  \A h \in AckHandlers :
    ackPc[h] \in {"write", "log"} => seen[h] <= attempts[ackMsg[h].task]

CountInv == SeenIsPast /\ FailedIsEarned /\ AttemptRowsCounted

LEMMA CountFrame ==
  ASSUME CountInv, UNCHANGED <<status, attempts, taskAttempts, ackVars>>
  PROVE  CountInv'
BY DEF CountInv, SeenIsPast, FailedIsEarned, AttemptRowsCounted, ackVars

\* Another status is set, attempts does not change.
LEMMA CountStatus ==
  ASSUME TypeInv, CountInv, UNCHANGED <<attempts, taskAttempts, ackVars>>,
         \A t \in Tasks : status'[t] = "failed" => status[t] = "failed"
  PROVE  CountInv'
BY DEF CountInv, SeenIsPast, FailedIsEarned, AttemptRowsCounted, ackVars

LEMMA CountGrant ==
  ASSUME TypeInv, CountInv, NEW h \in PullHandlers, NEW t \in Tasks, PullGrant(h, t)
  PROVE  CountInv'
<1>1. \A u \in Tasks : /\ attempts[u] \in Int
                       /\ attempts'[u] \in Int
                       /\ attempts[u] <= attempts'[u]
  BY BoundConstants DEF PullGrant, NextAttempt, TypeInv, LeaseTypeOK, TableTypeOK
<1>2. \A u \in Tasks : status'[u] = "failed" => status[u] = "failed"
  BY DEF PullGrant, TypeInv, LeaseTypeOK, TableTypeOK
<1>3. \A g \in AckHandlers : ackMsg[g].task \in Tasks /\ seen[g] \in Int
  BY AckMessageType DEF TypeInv, LeaseTypeOK, AckTypeOK
<1>4. \A row \in taskAttempts : row.task \in Tasks /\ row.attempt \in Int
  BY DEF TypeInv, LeaseTypeOK, TableTypeOK, AttemptRows
<1>5. UNCHANGED <<ackPc, ackMsg, seen, taskAttempts>>
  BY DEF PullGrant, ackVars
<1>6. SeenIsPast'
  BY <1>1, <1>3, <1>5 DEF CountInv, SeenIsPast
<1>7. FailedIsEarned'
  BY <1>1, <1>2, TaskConstants DEF CountInv, FailedIsEarned
<1>8. AttemptRowsCounted'
  BY <1>1, <1>4, <1>5 DEF CountInv, AttemptRowsCounted
<1>9. QED  BY <1>6, <1>7, <1>8 DEF CountInv

LEMMA CountAckRow ==
  ASSUME TypeInv, CountInv, NEW h \in AckHandlers,
         AckRead(h) \/ AckNotFound(h) \/ AckWriteOk(h) \/ AckWriteError(h) \/ AckLog(h)
  PROVE  CountInv'
<1> DEFINE m == ackMsg[h]
<1>0. m.task \in Tasks /\ seen[h] \in Int /\ attempts[m.task] \in Int
  BY AckMessageType DEF TypeInv, LeaseTypeOK, AckTypeOK, TableTypeOK
<1>1. CASE AckRead(h)
  <2>1. SeenIsPast'
    BY <1>0, <1>1 DEF AckRead, tableVars, CountInv, SeenIsPast, TypeInv, LeaseTypeOK, AckTypeOK
  <2>2. QED
    BY <1>1, <2>1 DEF AckRead, tableVars, CountInv, FailedIsEarned, AttemptRowsCounted
<1>2. CASE AckNotFound(h)
  <2>1. SeenIsPast'
    BY <1>2 DEF AckNotFound, tableVars, CountInv, SeenIsPast, TypeInv, LeaseTypeOK, AckTypeOK
  <2>2. QED
    BY <1>2, <2>1 DEF AckNotFound, tableVars, CountInv, FailedIsEarned, AttemptRowsCounted
<1>3. ASSUME AckWriteOk(h) \/ AckWriteError(h) PROVE SeenIsPast' /\ AttemptRowsCounted'
  BY <1>3 DEF AckWriteOk, AckWriteError, CountInv, SeenIsPast, AttemptRowsCounted,
              TypeInv, LeaseTypeOK, AckTypeOK
<1>4. CASE AckWriteOk(h)
  <2>1. FailedIsEarned'
    BY <1>4 DEF AckWriteOk, CountInv, FailedIsEarned, TypeInv, LeaseTypeOK, TableTypeOK
  <2>2. QED  BY <1>3, <1>4, <2>1 DEF CountInv
<1>5. CASE AckWriteError(h)
  <2>1. seen[h] <= attempts[m.task]
    BY <1>5 DEF AckWriteError, CountInv, SeenIsPast
  <2>2. status' = [status EXCEPT ![m.task] = StatusAfterError(m.task, seen[h])]
        /\ UNCHANGED attempts
    BY <1>5 DEF AckWriteError
  <2>3. FailedIsEarned'
    BY <1>0, <2>1, <2>2, TaskConstants
    DEF StatusAfterError, CountInv, FailedIsEarned, TypeInv, LeaseTypeOK, TableTypeOK
  <2>4. QED  BY <1>3, <1>5, <2>3 DEF CountInv
<1>6. CASE AckLog(h)
  <2>1. seen[h] <= attempts[m.task]
    BY <1>6 DEF AckLog, CountInv, SeenIsPast
  <2>2. AttemptRowsCounted'
    BY <1>6, <2>1 DEF AckLog, AttemptRow, CountInv, AttemptRowsCounted
  <2>3. SeenIsPast'
    BY <1>6 DEF AckLog, CountInv, SeenIsPast, StepAfterLog, TypeInv, LeaseTypeOK, AckTypeOK
  <2>4. QED  BY <1>6, <2>2, <2>3 DEF AckLog, CountInv, FailedIsEarned
<1>7. QED  BY <1>1, <1>2, <1>4, <1>5, <1>6

LEMMA CountAckFacts ==
  ASSUME TypeInv, CountInv, NEW h \in AckHandlers,
         \/ AckFacts(h) \/ AckProbeReset(h) \/ AckProbeRead(h) \/ AckProbeWrite(h)
         \/ AckReply(h) \/ AckAbort(h)
         \/ \E m \in ClientMessages : AckArrive(h, m)
  PROVE  CountInv'
<1>1. UNCHANGED <<status, attempts, taskAttempts>>
  BY DEF AckFacts, AckProbeReset, AckProbeRead, AckProbeWrite, AckReply, AckAbort,
         AckEnds, AckArrive, tableVars
<1>2. ackPc' \in [AckHandlers -> AckPcs] /\ ackPc'[h] \notin {"write", "log"}
  BY DEF AckFacts, AckProbeReset, AckProbeRead, AckProbeWrite, AckReply, AckAbort,
         AckEnds, AckArrive, AckPcs, TypeInv, LeaseTypeOK, AckTypeOK
<1>3. \A g \in AckHandlers \ {h} : UNCHANGED <<ackPc[g], ackMsg[g], seen[g]>>
  BY DEF AckFacts, AckProbeReset, AckProbeRead, AckProbeWrite, AckReply, AckAbort,
         AckEnds, AckArrive, TypeInv, LeaseTypeOK, AckTypeOK
<1>4. SeenIsPast'
  BY <1>1, <1>2, <1>3 DEF CountInv, SeenIsPast
<1>5. QED  BY <1>1, <1>4 DEF CountInv, FailedIsEarned, AttemptRowsCounted

LEMMA CountStep ==
  ASSUME TypeInv, CountInv, [LeaseNext]_leaseVars
  PROVE  CountInv'
<1>1. CASE \E h \in PullHandlers : PullSteps(h)
  <2>1. PICK h \in PullHandlers : PullSteps(h)  BY <1>1
  <2>2. ASSUME NEW t \in Tasks, PullGrant(h, t) PROVE CountInv'
    BY <2>2, CountGrant
  <2>3. ASSUME NEW t \in Tasks, PullClaim(h, t) \/ PullSkip(h, t) PROVE CountInv'
    BY <2>3, CountFrame DEF PullClaim, PullSkip, tableVars
  <2>4. CASE PullSelect(h)
    BY <2>4, CountFrame DEF PullSelect, tableVars
  <2>5. CASE PullReclaim(h)
    <3>1. \A t \in Tasks : status'[t] = "failed" => status[t] = "failed"
      BY <2>5 DEF PullReclaim
    <3>2. QED  BY <2>5, <3>1, CountStatus DEF PullReclaim
  <2>6. QED  BY <2>1, <2>2, <2>3, <2>4, <2>5 DEF PullSteps
<1>2. CASE \E t \in Tasks : CreateTask(t) \/ TaskExpires(t)
  <2>1. \A t \in Tasks : status'[t] = "failed" => status[t] = "failed"
    BY <1>2 DEF CreateTask, TaskExpires, TypeInv, LeaseTypeOK, TableTypeOK
  <2>2. QED  BY <1>2, <2>1, CountStatus DEF CreateTask, TaskExpires
<1>3. CASE Tick
  BY <1>3, CountFrame DEF Tick
<1>4. CASE \E h \in PullHandlers :
             (\E i \in Instances : PullArrive(h, i)) \/ PullReply(h) \/ PullAbort(h)
  BY <1>4, CountFrame DEF PullArrive, PullReply, PullAbort, PullEnds, tableVars
<1>5. CASE \E h \in AckHandlers : AckSteps(h)
  BY <1>5, CountAckRow, CountAckFacts DEF AckSteps
<1>6. CASE \E h \in AckHandlers :
             (\E m \in ClientMessages : AckArrive(h, m)) \/ AckReply(h) \/ AckAbort(h)
  BY <1>6, CountAckFacts
<1>7. CASE FactsAge /\ UNCHANGED <<tableVars, leaseKey, pullVars, ackVars>>
  BY <1>7, CountFrame DEF tableVars
<1>8. CASE UNCHANGED leaseVars
  BY <1>8, CountFrame DEF leaseVars, tableVars
<1>9. QED
  BY <1>1, <1>2, <1>3, <1>4, <1>5, <1>6, <1>7, <1>8 DEF LeaseNext, ServerSteps

LEMMA CountInvariant == LeaseSpec => []CountInv
<1>1. LeaseInit => CountInv
  BY DEF LeaseInit, CountInv, SeenIsPast, FailedIsEarned, AttemptRowsCounted
<1>2. TypeInv /\ CountInv /\ [LeaseNext]_leaseVars => CountInv'
  BY CountStep
<1>3. QED  BY <1>1, <1>2, TypeInvariant, PTL DEF LeaseSpec

(* No task fails for good before it was leased MAX_ATTEMPTS times, unless  *)
(* its action fails fast, however many acknowledgements race.              *)
THEOREM FailuresAreEarned == LeaseSpec => []FailedIsEarned
<1>1. CountInv => FailedIsEarned  BY DEF CountInv
<1>2. QED  BY CountInvariant, <1>1, PTL

(* task_attempts never runs ahead of the attempts column.                  *)
THEOREM AttemptRowsAreCounted == LeaseSpec => []AttemptRowsCounted
<1>1. CountInv => AttemptRowsCounted  BY DEF CountInv
<1>2. QED  BY CountInvariant, <1>1, PTL

(* Both together, as the runs check them: the tables stay within their     *)
(* types and no row of task_attempts is unpaid for.                        *)
THEOREM TablesAreSound == LeaseSpec => []LeaseInv
<1>1. TypeInv /\ CountInv => LeaseInv  BY DEF TypeInv, CountInv, LeaseInv
<1>2. QED  BY TypeInvariant, CountInvariant, <1>1, PTL

(***************************************************************************)
(* Backoff.  The count is read in one call and written in another: two     *)
(* failed probes may count as one, but no success is turned into a delay.  *)
(***************************************************************************)

LEMMA BackoffAck ==
  ASSUME TypeInv, BackoffOnlyAfterFailure, NEW h \in AckHandlers,
         AckProbeReset(h) \/ AckProbeWrite(h)
  PROVE  BackoffOnlyAfterFailure'
<1> DEFINE m == ackMsg[h]
           i == Target(m.task)
           k == ProbeKindOf(m.task)
<1>1. m.task \in Tasks \ GroupTasks
  BY AckMessageType
  DEF TypeInv, LeaseTypeOK, FactStepsHaveTarget, AckProbeReset, AckProbeWrite
<1>2. i \in Instances /\ k \in ProbeKinds
  BY <1>1, TargetIsInstance DEF ProbeKindOf, ProbeKinds
<1>3. seenFailures[h] \in 0..FailureBound /\ FactsTypeOK
  BY DEF TypeInv, LeaseTypeOK, AckTypeOK
<1>4. 0 \in 0..FailureBound
  BY FactConstants
<1>5. QED
  BY <1>2, <1>3, <1>4, ProbeStateBackoff DEF AckProbeReset, AckProbeWrite

LEMMA BackoffStep ==
  ASSUME TypeInv, BackoffOnlyAfterFailure, [LeaseNext]_leaseVars
  PROVE  BackoffOnlyAfterFailure'
<1>1. CASE UNCHANGED probeState
  BY <1>1 DEF BackoffOnlyAfterFailure
<1>2. CASE FactsAge
  BY <1>2, FactsAgeBackoff DEF TypeInv, LeaseTypeOK
<1>3. CASE \E h \in AckHandlers : AckSteps(h)
  BY <1>1, <1>3, BackoffAck
  DEF AckSteps, AckRead, AckNotFound, AckWriteOk, AckWriteError, AckLog, AckFacts,
      AckProbeRead, factVars
<1>4. CASE \E h \in AckHandlers :
             (\E m \in ClientMessages : AckArrive(h, m)) \/ AckReply(h) \/ AckAbort(h)
  BY <1>1, <1>4 DEF AckArrive, AckReply, AckAbort, AckEnds, factVars
<1>5. CASE \E h \in PullHandlers : PullSteps(h)
  BY <1>1, <1>5
  DEF PullSteps, PullReclaim, PullSelect, PullClaim, PullSkip, PullGrant, factVars
<1>6. CASE \E h \in PullHandlers :
             (\E i \in Instances : PullArrive(h, i)) \/ PullReply(h) \/ PullAbort(h)
  BY <1>1, <1>6 DEF PullArrive, PullReply, PullAbort, PullEnds, factVars
<1>7. CASE (\E t \in Tasks : CreateTask(t) \/ TaskExpires(t)) \/ Tick
  BY <1>1, <1>7 DEF CreateTask, TaskExpires, Tick, factVars
<1>8. CASE UNCHANGED leaseVars
  BY <1>1, <1>8 DEF leaseVars, factVars
<1>9. QED
  BY <1>2, <1>3, <1>4, <1>5, <1>6, <1>7, <1>8 DEF LeaseNext, ServerSteps

(* An instance's probes wait only after a probe of that kind has failed    *)
(* since the last one that succeeded, however many acknowledgements race.  *)
THEOREM WaitingHasAReason == LeaseSpec => []BackoffOnlyAfterFailure
<1>1. LeaseInit => BackoffOnlyAfterFailure
  BY DEF LeaseInit, FactsInit, BackoffOnlyAfterFailure
<1>2. TypeInv /\ BackoffOnlyAfterFailure /\ [LeaseNext]_leaseVars
        => BackoffOnlyAfterFailure'
  BY BackoffStep
<1>3. QED  BY <1>1, <1>2, TypeInvariant, PTL DEF LeaseSpec

-----------------------------------------------------------------------------
(***************************************************************************)
(* What leases promise when a pull handler is over within half a lease:    *)
(* between reading its candidates and updating the last of their rows, no  *)
(* row is leased to a request other than the one that holds its key.       *)
(***************************************************************************)

(* A handler that has just read a pending row may win the row's key only   *)
(* after it ran out, a full lease later.                                   *)
HalfLease == \A t \in Tasks : 2 * MaxStall < LeaseTtl(t)

\* A handler without a request has no rows at hand.
IdleIsEmpty == \A h \in PullHandlers : pullPc[h] = "idle" => batch[h] = {}

\* The key of the row a handler is about to update is as old as the handler
\* at most; nobody else is about to update that row.
KeyIsHeld ==
  \A h \in PullHandlers : \A t \in Tasks :
    MidGrant(h, t) => leaseKey[t] + age[h] >= LeaseTtl(t)

OneGrants ==
  \A g, h \in PullHandlers : \A t \in Tasks :
    MidGrant(g, t) /\ MidGrant(h, t) => g = h

\* A candidate that has been leased since it was read has a young key.
StaleIsProtected ==
  \A h \in PullHandlers : \A t \in batch[h] :
    status[t] = "leased" => leaseKey[t] + age[h] + MaxStall >= LeaseTtl(t)

LeasedOutlivesKey ==
  \A t \in Tasks :
    status[t] = "leased" => lease[t] # NoLease /\ leaseKey[t] <= lease[t]

TimingInv ==
  /\ IdleIsEmpty
  /\ KeyIsHeld
  /\ OneGrants
  /\ StaleIsProtected
  /\ NoDoubleLease
  /\ LeasedOutlivesKey

\* Types of what the invariant speaks of.
LEMMA TimingTypes ==
  ASSUME TypeInv
  PROVE  /\ MaxStall \in Nat
         /\ \A t \in Tasks : /\ LeaseTtl(t) \in Nat
                             /\ LeaseTtl(t) > 0
                             /\ leaseKey[t] \in Nat
                             /\ leaseKey[t] <= LeaseTtl(t)
                             /\ lease[t] \in Int
                             /\ lease[t] >= NoLease
         /\ \A h \in PullHandlers : /\ age[h] \in Nat
                                    /\ age[h] <= MaxStall
                                    /\ batch[h] \subseteq Tasks
BY LeaseTtlIsPositive, LeaseConstants
DEF TypeInv, LeaseTypeOK, TableTypeOK, PullTypeOK, NoLease

\* A step that touches neither pulls nor keys, and no more than takes the
\* status "leased" away.
LEMMA TimingStatus ==
  ASSUME TimingInv, UNCHANGED <<lease, leaseKey, pullPc, batch, age>>,
         \A t \in Tasks : status'[t] = "leased" => status[t] = "leased",
         \A h \in PullHandlers : batch[h] \subseteq Tasks
  PROVE  TimingInv'
BY DEF TimingInv, IdleIsEmpty, KeyIsHeld, OneGrants, StaleIsProtected, NoDoubleLease,
       LeasedOutlivesKey, MidGrant, IsNext

\* Acknowledgements never lease a row.
LEMMA AcksLeaveLeases ==
  ASSUME TypeInv,
         \/ \E h \in AckHandlers : AckSteps(h) \/ AckReply(h) \/ AckAbort(h)
         \/ \E h \in AckHandlers, m \in ClientMessages : AckArrive(h, m)
  PROVE  UNCHANGED lease /\ \A t \in Tasks : status'[t] = "leased" => status[t] = "leased"
<1>1. ASSUME NEW h \in AckHandlers,
             \/ AckSteps(h) \/ AckReply(h) \/ AckAbort(h)
             \/ \E m \in ClientMessages : AckArrive(h, m)
      PROVE  UNCHANGED lease
  BY <1>1 DEF AckSteps, AckRead, AckNotFound, AckWriteOk, AckWriteError, AckLog,
              AckFacts, AckProbeReset, AckProbeRead, AckProbeWrite, AckReply,
              AckAbort, AckEnds, AckArrive, tableVars
<1>2. ASSUME NEW h \in AckHandlers,
             \/ AckRead(h) \/ AckNotFound(h) \/ AckLog(h) \/ AckFacts(h)
             \/ AckProbeReset(h) \/ AckProbeRead(h) \/ AckProbeWrite(h)
             \/ AckReply(h) \/ AckAbort(h)
             \/ \E m \in ClientMessages : AckArrive(h, m)
      PROVE  UNCHANGED status
  BY <1>2 DEF AckRead, AckNotFound, AckLog, AckFacts, AckProbeReset, AckProbeRead,
              AckProbeWrite, AckReply, AckAbort, AckEnds, AckArrive, tableVars
<1>3. ASSUME NEW h \in AckHandlers, AckWriteOk(h) \/ AckWriteError(h)
      PROVE  \A t \in Tasks : status'[t] = "leased" => status[t] = "leased"
  BY <1>3 DEF AckWriteOk, AckWriteError, StatusAfterError,
              TypeInv, LeaseTypeOK, TableTypeOK
<1>4. QED  BY <1>1, <1>2, <1>3 DEF AckSteps

LEMMA TimingTick ==
  ASSUME HalfLease, TypeInv, TimingInv, Tick
  PROVE  TimingInv'
<1>1. /\ \A h \in PullHandlers : age'[h] = IF pullPc[h] # "idle" THEN age[h] + 1 ELSE age[h]
      /\ \A t \in Tasks : /\ leaseKey'[t] = CountDown(leaseKey[t])
                          /\ lease'[t] = CountDown(lease[t])
      /\ UNCHANGED <<status, pullPc, batch>>
  BY DEF Tick, KeyLeft
<1>2. ASSUME NEW h \in PullHandlers, NEW t \in Tasks
      PROVE  MidGrant(h, t)' <=> MidGrant(h, t)
  BY <1>1 DEF MidGrant, IsNext
<1>3. KeyIsHeld'
  <2>1. SUFFICES ASSUME NEW h \in PullHandlers, NEW t \in Tasks, MidGrant(h, t)
                 PROVE  leaseKey'[t] + age'[h] >= LeaseTtl(t)
    BY <1>2 DEF KeyIsHeld
  <2>2. leaseKey[t] + age[h] >= LeaseTtl(t) /\ pullPc[h] # "idle"
    BY <2>1 DEF TimingInv, KeyIsHeld, MidGrant
  <2>3. leaseKey[t] > 0
    BY <2>2, TimingTypes DEF HalfLease
  <2>4. QED  BY <1>1, <2>2, <2>3, TimingTypes DEF CountDown
<1>4. StaleIsProtected'
  <2>1. SUFFICES ASSUME NEW h \in PullHandlers, NEW t \in batch[h], status[t] = "leased"
                 PROVE  leaseKey'[t] + age'[h] + MaxStall >= LeaseTtl(t)
    BY <1>1 DEF StaleIsProtected
  <2>2. t \in Tasks /\ leaseKey[t] + age[h] + MaxStall >= LeaseTtl(t)
    BY <2>1, TimingTypes DEF TimingInv, StaleIsProtected
  <2>3. pullPc[h] # "idle"
    BY <2>1 DEF TimingInv, IdleIsEmpty
  <2>4. leaseKey[t] > 0
    BY <2>2, TimingTypes DEF HalfLease
  <2>5. QED  BY <1>1, <2>2, <2>3, <2>4, TimingTypes DEF CountDown
<1>5. LeasedOutlivesKey'
  BY <1>1, TimingTypes DEF TimingInv, LeasedOutlivesKey, CountDown, NoLease
<1>6. OneGrants' /\ NoDoubleLease' /\ IdleIsEmpty'
  BY <1>1, <1>2 DEF TimingInv, OneGrants, NoDoubleLease, IdleIsEmpty
<1>7. QED  BY <1>3, <1>4, <1>5, <1>6 DEF TimingInv

LEMMA TimingReclaim ==
  ASSUME TypeInv, TimingInv, NEW h \in PullHandlers, PullReclaim(h)
  PROVE  TimingInv'
<1>1. /\ \A t \in Tasks : status'[t] = "leased" => status[t] = "leased" /\ lease'[t] = lease[t]
      /\ UNCHANGED <<leaseKey, batch, age>>
  BY DEF PullReclaim
<1>2. \A g \in PullHandlers : pullPc'[g] # pullPc[g] => pullPc[g] = "reclaim" /\ pullPc'[g] = "select"
  BY DEF PullReclaim, TypeInv, LeaseTypeOK, PullTypeOK
<1>3. ASSUME NEW g \in PullHandlers, NEW t \in Tasks
      PROVE  MidGrant(g, t)' <=> MidGrant(g, t)
  BY <1>1, <1>2 DEF MidGrant, IsNext
<1>4. IdleIsEmpty'
  BY <1>1, <1>2 DEF TimingInv, IdleIsEmpty
<1>5. KeyIsHeld' /\ OneGrants'
  BY <1>1, <1>3 DEF TimingInv, KeyIsHeld, OneGrants
<1>6. StaleIsProtected'
  BY <1>1, TimingTypes DEF TimingInv, StaleIsProtected
<1>7. NoDoubleLease' /\ LeasedOutlivesKey'
  BY <1>1, <1>3 DEF TimingInv, NoDoubleLease, LeasedOutlivesKey
<1>8. QED  BY <1>4, <1>5, <1>6, <1>7 DEF TimingInv

LEMMA TimingSelect ==
  ASSUME TypeInv, TimingInv, NEW h \in PullHandlers, PullSelect(h)
  PROVE  TimingInv'
<1>1. UNCHANGED <<status, lease, leaseKey, age>>
  BY DEF PullSelect, tableVars
<1>2. /\ pullPc[h] = "select" /\ pullPc'[h] = "claim"
      /\ \A t \in batch'[h] : t \in Tasks /\ status[t] = "pending"
      /\ \A g \in PullHandlers \ {h} : UNCHANGED <<pullPc[g], batch[g]>>
  BY DEF PullSelect, Oldest, Candidates, TypeInv, LeaseTypeOK, PullTypeOK
<1>3. ASSUME NEW g \in PullHandlers, NEW t \in Tasks
      PROVE  MidGrant(g, t)' <=> MidGrant(g, t)
  BY <1>2 DEF MidGrant, IsNext
<1>4. IdleIsEmpty' /\ StaleIsProtected'
  BY <1>1, <1>2 DEF TimingInv, IdleIsEmpty, StaleIsProtected
<1>5. KeyIsHeld' /\ OneGrants' /\ NoDoubleLease' /\ LeasedOutlivesKey'
  BY <1>1, <1>3 DEF TimingInv, KeyIsHeld, OneGrants, NoDoubleLease, LeasedOutlivesKey
<1>6. QED  BY <1>4, <1>5 DEF TimingInv

LEMMA TimingClaim ==
  ASSUME HalfLease, TypeInv, TimingInv, NEW h \in PullHandlers, NEW t \in Tasks,
         PullClaim(h, t)
  PROVE  TimingInv'
<1>1. /\ UNCHANGED <<status, lease, batch, age>>
      /\ leaseKey[t] = 0
      /\ t \in batch[h]
      /\ \A u \in Tasks : leaseKey'[u] = IF u = t THEN LeaseTtl(t) ELSE leaseKey[u]
      /\ pullPc[h] = "claim"
      /\ \A g \in PullHandlers : pullPc'[g] = IF g = h THEN "grant" ELSE pullPc[g]
  BY DEF PullClaim, SetSucceeds, IsNext, tableVars, TypeInv, LeaseTypeOK, TableTypeOK, PullTypeOK
<1>2. ASSUME NEW g \in PullHandlers PROVE ~MidGrant(g, t)
  BY <1>1, TimingTypes DEF TimingInv, KeyIsHeld, HalfLease
<1>3. status[t] # "leased"
  BY <1>1, TimingTypes DEF TimingInv, StaleIsProtected, HalfLease
<1>4. ASSUME NEW g \in PullHandlers, NEW u \in Tasks
      PROVE  MidGrant(g, u)' <=> (MidGrant(g, u) \/ (g = h /\ u = t))
  <2>1. CASE g = h
    <3>1. IsNext(h, t)  BY DEF PullClaim
    <3>2. IsNext(h, u) => u = t
      BY <3>1, TimingTypes DEF IsNext, Tasks
    <3>3. QED  BY <1>1, <2>1, <3>1, <3>2 DEF MidGrant, IsNext
  <2>2. CASE g # h
    BY <1>1, <2>2 DEF MidGrant, IsNext
  <2>3. QED  BY <2>1, <2>2
<1>5. IdleIsEmpty'
  BY <1>1 DEF TimingInv, IdleIsEmpty
<1>6. KeyIsHeld'
  BY <1>1, <1>4, TimingTypes DEF TimingInv, KeyIsHeld
<1>7. OneGrants'
  BY <1>2, <1>4 DEF TimingInv, OneGrants
<1>8. StaleIsProtected'
  BY <1>1, <1>3, TimingTypes DEF TimingInv, StaleIsProtected
<1>9. NoDoubleLease' /\ LeasedOutlivesKey'
  BY <1>1, <1>3, <1>4 DEF TimingInv, NoDoubleLease, LeasedOutlivesKey
<1>10. QED  BY <1>5, <1>6, <1>7, <1>8, <1>9 DEF TimingInv

LEMMA TimingSkip ==
  ASSUME TypeInv, TimingInv, NEW h \in PullHandlers, NEW t \in Tasks, PullSkip(h, t)
  PROVE  TimingInv'
<1>1. /\ UNCHANGED <<status, lease, leaseKey, age, pullPc>>
      /\ pullPc[h] = "claim"
      /\ \A g \in PullHandlers : batch'[g] = IF g = h THEN batch[h] \ {t} ELSE batch[g]
  BY DEF PullSkip, tableVars, TypeInv, LeaseTypeOK, PullTypeOK
<1>2. ASSUME NEW g \in PullHandlers, NEW u \in Tasks
      PROVE  MidGrant(g, u)' <=> MidGrant(g, u)
  BY <1>1 DEF MidGrant, IsNext
<1>3. IdleIsEmpty' /\ StaleIsProtected'
  BY <1>1 DEF TimingInv, IdleIsEmpty, StaleIsProtected
<1>4. KeyIsHeld' /\ OneGrants' /\ NoDoubleLease' /\ LeasedOutlivesKey'
  BY <1>1, <1>2 DEF TimingInv, KeyIsHeld, OneGrants, NoDoubleLease, LeasedOutlivesKey
<1>5. QED  BY <1>3, <1>4 DEF TimingInv

LEMMA TimingGrant ==
  ASSUME HalfLease, TypeInv, TimingInv, NEW h \in PullHandlers, NEW t \in Tasks,
         PullGrant(h, t)
  PROVE  TimingInv'
<1>1. PICK left \in leaseKey[t] .. LeaseTtl(t) : lease' = [lease EXCEPT ![t] = left]
  BY DEF PullGrant, LeaseLeft
<1>2. /\ UNCHANGED <<leaseKey, age>>
      /\ MidGrant(h, t)
      /\ \A u \in Tasks : status'[u] = IF u = t THEN "leased" ELSE status[u]
      /\ \A u \in Tasks : lease'[u] = IF u = t THEN left ELSE lease[u]
      /\ \A g \in PullHandlers : /\ batch'[g] = IF g = h THEN batch[h] \ {t} ELSE batch[g]
                                 /\ pullPc'[g] = IF g = h THEN "claim" ELSE pullPc[g]
  BY <1>1 DEF PullGrant, MidGrant, TypeInv, LeaseTypeOK, TableTypeOK, PullTypeOK
<1>3. ASSUME NEW g \in PullHandlers, NEW u \in Tasks
      PROVE  MidGrant(g, u)' <=> (MidGrant(g, u) /\ g # h)
  BY <1>2 DEF MidGrant, IsNext
<1>4. IdleIsEmpty'
  BY <1>2 DEF TimingInv, IdleIsEmpty
<1>5. KeyIsHeld' /\ OneGrants'
  BY <1>2, <1>3 DEF TimingInv, KeyIsHeld, OneGrants
<1>6. StaleIsProtected'
  <2>1. leaseKey[t] + MaxStall >= LeaseTtl(t)
    BY <1>2, TimingTypes DEF TimingInv, KeyIsHeld
  <2>2. \A g \in PullHandlers : batch'[g] \subseteq batch[g] /\ batch[g] \subseteq Tasks
    BY <1>2, TimingTypes
  <2>3. ASSUME NEW g \in PullHandlers, NEW u \in batch'[g], status'[u] = "leased"
        PROVE  leaseKey'[u] + age'[g] + MaxStall >= LeaseTtl(u)
    BY <1>2, <2>1, <2>2, <2>3, TimingTypes DEF TimingInv, StaleIsProtected
  <2>4. QED  BY <2>3 DEF StaleIsProtected
<1>7. NoDoubleLease'
  BY <1>2, <1>3 DEF TimingInv, NoDoubleLease, OneGrants
<1>8. LeasedOutlivesKey'
  BY <1>2, TimingTypes DEF TimingInv, LeasedOutlivesKey, NoLease
<1>9. QED  BY <1>4, <1>5, <1>6, <1>7, <1>8 DEF TimingInv

LEMMA TimingClient ==
  ASSUME TypeInv, TimingInv, NEW h \in PullHandlers,
         (\E i \in Instances : PullArrive(h, i)) \/ PullReply(h) \/ PullAbort(h)
  PROVE  TimingInv'
<1>1. /\ UNCHANGED <<status, lease, leaseKey>>
      /\ \A g \in PullHandlers \ {h} : UNCHANGED <<pullPc[g], batch[g], age[g]>>
      /\ pullPc'[h] \in {"idle", "reclaim"}
  BY DEF PullArrive, PullReply, PullAbort, PullEnds, tableVars,
         TypeInv, LeaseTypeOK, PullTypeOK
<1>2. batch'[h] = {}
  BY DEF PullArrive, PullReply, PullAbort, PullEnds, TimingInv, IdleIsEmpty,
         TypeInv, LeaseTypeOK, PullTypeOK
<1>3. ASSUME NEW g \in PullHandlers, NEW u \in Tasks
      PROVE  MidGrant(g, u)' <=> (MidGrant(g, u) /\ g # h)
  BY <1>1 DEF MidGrant, IsNext
<1>4. IdleIsEmpty' /\ StaleIsProtected'
  BY <1>1, <1>2 DEF TimingInv, IdleIsEmpty, StaleIsProtected
<1>5. KeyIsHeld' /\ OneGrants' /\ NoDoubleLease' /\ LeasedOutlivesKey'
  BY <1>1, <1>3 DEF TimingInv, KeyIsHeld, OneGrants, NoDoubleLease, LeasedOutlivesKey
<1>6. QED  BY <1>4, <1>5 DEF TimingInv

LEMMA TimingStep ==
  ASSUME HalfLease, TypeInv, TimingInv, [LeaseNext]_leaseVars
  PROVE  TimingInv'
<1>0. \A h \in PullHandlers : batch[h] \subseteq Tasks
  BY TimingTypes
<1>1. CASE Tick
  BY <1>1, TimingTick
<1>2. CASE \E h \in PullHandlers : PullSteps(h)
  BY <1>2, TimingReclaim, TimingSelect, TimingClaim, TimingSkip, TimingGrant DEF PullSteps
<1>3. CASE \E h \in PullHandlers :
             (\E i \in Instances : PullArrive(h, i)) \/ PullReply(h) \/ PullAbort(h)
  BY <1>3, TimingClient
<1>4. CASE \E t \in Tasks : CreateTask(t) \/ TaskExpires(t)
  <2>1. \A t \in Tasks : status'[t] = "leased" => status[t] = "leased"
    BY <1>4 DEF CreateTask, TaskExpires, TypeInv, LeaseTypeOK, TableTypeOK
  <2>2. QED  BY <1>0, <1>4, <2>1, TimingStatus DEF CreateTask, TaskExpires, pullVars
<1>5. CASE \/ \E h \in AckHandlers : AckSteps(h) \/ AckReply(h) \/ AckAbort(h)
           \/ \E h \in AckHandlers, m \in ClientMessages : AckArrive(h, m)
  <2>1. UNCHANGED lease /\ \A t \in Tasks : status'[t] = "leased" => status[t] = "leased"
    BY <1>5, AcksLeaveLeases
  <2>2. QED  BY <1>0, <1>5, <2>1, AcksLeavePulls, TimingStatus DEF pullVars
<1>6. CASE FactsAge /\ UNCHANGED <<tableVars, leaseKey, pullVars, ackVars>>
  BY <1>0, <1>6, TimingStatus DEF tableVars, pullVars
<1>7. CASE UNCHANGED leaseVars
  BY <1>0, <1>7, TimingStatus DEF leaseVars, tableVars, pullVars
<1>8. QED
  BY <1>1, <1>2, <1>3, <1>4, <1>5, <1>6, <1>7 DEF LeaseNext, ServerSteps

LEMMA TimingInvariant == HalfLease /\ LeaseSpec => []TimingInv
<1>1. LeaseInit => TimingInv
  BY DEF LeaseInit, TimingInv, IdleIsEmpty, KeyIsHeld, OneGrants, StaleIsProtected,
         NoDoubleLease, LeasedOutlivesKey, MidGrant
<1>2. HalfLease /\ TypeInv /\ TimingInv /\ [LeaseNext]_leaseVars => TimingInv'
  BY TimingStep
<1>3. HalfLease => []HalfLease
  <2>1. HalfLease => HalfLease'  BY DEF HalfLease, LeaseTtl
  <2>2. QED  BY <2>1, PTL
<1>4. QED  BY <1>1, <1>2, <1>3, TypeInvariant, PTL DEF LeaseSpec

(* If no pull request lasts half a lease, the row update of a pull never   *)
(* lands on a row leased to another request.                               *)
THEOREM NoLeaseIsDoubled == HalfLease /\ LeaseSpec => []NoDoubleLease
<1>1. TimingInv => NoDoubleLease  BY DEF TimingInv
<1>2. QED  BY TimingInvariant, <1>1, PTL

(* Under the same assumption no leased row waits for a Redis key that is   *)
(* still there when its lease_expires_at has passed.                       *)
THEOREM LeasesOutliveKeys == HalfLease /\ LeaseSpec => []LeaseOutlivesKey
<1>1. TimingInv => LeaseOutlivesKey
  BY DEF TimingInv, LeasedOutlivesKey, LeaseOutlivesKey
<1>2. QED  BY TimingInvariant, <1>1, PTL

-----------------------------------------------------------------------------
(***************************************************************************)
(* What the queue is to the campaign reconciler.  A step of the queue      *)
(* changes the status of one task, or writes one instance's facts or one   *)
(* of its probe states.  Three things are not to be seen from the step     *)
(* alone: that the result under way is one the task's action may return,   *)
(* that probe states are written for probes only, and that a snapshot is   *)
(* out of date only when there is one.                                     *)
(***************************************************************************)

ResultsAreKnown ==
  \A h \in AckHandlers : ackPc[h] # "idle" => ackMsg[h] \in ClientMessages

NothingToInvalidate ==
  \A i \in Instances : facts[i].snapshot = NoSnapshot => ~facts[i].invalidated

ProbeStepsAreOfProbes ==
  \A h \in AckHandlers :
    ackPc[h] \in {"probe", "bump"} => IsProbeAction(ActionOf[ackMsg[h].task])

FeedInv == ResultsAreKnown /\ ProbeStepsAreOfProbes /\ NothingToInvalidate

LEMMA OpenProbesAreFinite ==
  ASSUME NEW i, NEW k
  PROVE  IsFiniteSet(OpenProbes(i, k))
<1>1. IsFiniteSet(Tasks)
  BY FS_Interval, TaskConstants DEF Tasks
<1>2. OpenProbes(i, k) \in SUBSET Tasks
  BY TaskConstants DEF OpenProbes
<1>3. QED  BY <1>1, <1>2, FS_Subset

LEMMA SameProbes ==
  ASSUME UNCHANGED factVars,
         \A i \in Instances : \A k \in ProbeKinds : OpenProbes(i, k)' = OpenProbes(i, k)
  PROVE  UNCHANGED Feed!feedVars
<1>1. ProbeCount' = ProbeCount
  BY DEF ProbeCount
<1>2. QED  BY <1>1 DEF Feed!feedVars, Feed!factVars, factVars

LEMMA TableLeavesProbes ==
  ASSUME UNCHANGED <<status, factVars>>
  PROVE  UNCHANGED Feed!feedVars
BY SameProbes DEF OpenProbes

LEMMA FactsLeaveProbes ==
  ASSUME UNCHANGED status
  PROVE  UNCHANGED ProbeCount
BY DEF ProbeCount, OpenProbes

\* One row changes its status: a probe task opens, settles, or nothing the
\* reconciler looks for changes.
LEMMA StatusFeeds ==
  ASSUME TypeInv, NEW t \in Tasks, NEW s,
         status' = [status EXCEPT ![t] = s], UNCHANGED factVars
  PROVE  [Feed!FeedNext]_Feed!feedVars
<1> DEFINE open(x) == x \in {"pending", "leased"}
           i == Target(t)
           k == ProbeKindOf(t)
           before == Cardinality(OpenProbes(i, k))
<1>0. status \in [Tasks -> Statuses]
  BY DEF TypeInv, LeaseTypeOK, TableTypeOK
<1>1. SystemTasks \subseteq Tasks \ GroupTasks
  BY TaskConstants
<1>2. CASE t \notin SystemTasks \/ (open(status[t]) <=> open(s))
  BY <1>0, <1>1, <1>2, SameProbes DEF OpenProbes
<1>3. CASE t \in SystemTasks /\ ~(open(status[t]) <=> open(s))
  <2>1. i \in Instances /\ k \in ProbeKinds
    BY <1>1, <1>3, TargetIsInstance DEF ProbeKindOf, ProbeKinds
  <2>2. \A j \in Instances : \A q \in ProbeKinds :
          j # i \/ q # k => OpenProbes(j, q)' = OpenProbes(j, q)
    BY <1>0, <1>1 DEF OpenProbes
  <2>3. ASSUME NEW n, Cardinality(OpenProbes(i, k)') = n
        PROVE  ProbeCount' = [ProbeCount EXCEPT ![i][k] = n]
    BY <2>1, <2>2, <2>3 DEF ProbeCount
  <2>4. ProbeCount[i][k] = before
    BY <2>1 DEF ProbeCount
  <2>5. before \in Nat
    BY OpenProbesAreFinite, FS_CardinalityType
  <2>6. CASE open(s)
    <3>1. OpenProbes(i, k)' = OpenProbes(i, k) \cup {t} /\ t \notin OpenProbes(i, k)
      BY <1>0, <1>1, <1>3, <2>6 DEF OpenProbes
    <3>2. Cardinality(OpenProbes(i, k)') = before + 1
      BY <3>1, OpenProbesAreFinite, FS_AddElement
    <3>3. ProbeCount' = [ProbeCount EXCEPT ![i][k] = @ + 1]
      BY <2>1, <2>3, <2>4, <3>2 DEF ProbeCount
    <3>4. Feed!ProbeOpens(i, k)
      BY <3>3 DEF Feed!ProbeOpens, Feed!factVars, factVars
    <3>5. QED  BY <2>1, <3>4 DEF Feed!FeedNext, Feed!ProbeKinds, ProbeKinds
  <2>7. CASE ~open(s)
    <3>1. OpenProbes(i, k)' = OpenProbes(i, k) \ {t} /\ t \in OpenProbes(i, k)
      BY <1>0, <1>1, <1>3, <2>7 DEF OpenProbes
    <3>2. Cardinality(OpenProbes(i, k)') = before - 1
      BY <3>1, OpenProbesAreFinite, FS_RemoveElement
    <3>3. before > 0
      BY <2>5, <3>1, OpenProbesAreFinite, FS_EmptySet
    <3>4. ProbeCount' = [ProbeCount EXCEPT ![i][k] = @ - 1]
      BY <2>1, <2>3, <2>4, <3>2 DEF ProbeCount
    <3>5. Feed!ProbeSettles(i, k)
      BY <2>4, <3>3, <3>4 DEF Feed!ProbeSettles, Feed!factVars, factVars
    <3>6. QED  BY <2>1, <3>5 DEF Feed!FeedNext, Feed!ProbeKinds, ProbeKinds
  <2>8. QED  BY <2>6, <2>7
<1>4. QED  BY <1>2, <1>3

\* Whose facts a handler writes, and what of.
LEMMA AckSubject ==
  ASSUME TypeInv, NEW h \in AckHandlers, ackPc[h] \in {"facts", "probe", "bump"}
  PROVE  /\ ackMsg[h].task \in Tasks \ GroupTasks
         /\ Target(ackMsg[h].task) \in Instances
         /\ ProbeKindOf(ackMsg[h].task) \in ProbeKinds
<1>1. ackMsg[h].task \in Tasks \ GroupTasks
  BY AckMessageType DEF TypeInv, LeaseTypeOK, FactStepsHaveTarget
<1>2. QED  BY <1>1, TargetIsInstance DEF ProbeKindOf, ProbeKinds

LEMMA ResultOfItsKind ==
  ASSUME TypeInv, ResultsAreKnown, NEW h \in AckHandlers,
         ackPc[h] \in {"facts", "probe", "bump"}, IsProbeAction(ActionOf[ackMsg[h].task])
  PROVE  ackMsg[h].result \in ResultsOfKind[ProbeKindOf(ackMsg[h].task)]
<1> DEFINE t == ackMsg[h].task
           k == ProbeKindOf(t)
<1>1. t \in ProbesOfKind(k) /\ k \in ProbeKinds
  BY AckSubject DEF ProbesOfKind
<1>2. ackMsg[h].result \in ResultsOf[t] \cup {NoResult}
  BY DEF ResultsAreKnown, ClientMessages
<1>3. QED  BY <1>1, <1>2 DEF ResultsOfKind

LEMMA AckFactsFeeds ==
  ASSUME TypeInv, FeedInv, NEW h \in AckHandlers, AckFacts(h)
  PROVE  [Feed!FeedNext]_Feed!feedVars
<1> DEFINE m == ackMsg[h]
           i == Target(m.task)
<1>1. i \in Instances
  BY AckSubject DEF AckFacts
<1>2. UNCHANGED ProbeCount /\ UNCHANGED probeState
  BY FactsLeaveProbes DEF AckFacts, tableVars
<1>3. SUFFICES Feed!FactsWritten(i) \/ UNCHANGED facts
  BY <1>1, <1>2 DEF Feed!FeedNext, Feed!feedVars, Feed!factVars
<1>4. CASE ActionOf[m.task] = "fleet.gateway.probe" /\ WriteGatewayFact(i, m.result)
  <2>1. m.result \in ResultsOfKind["gateway"]
    BY <1>4, ResultOfItsKind DEF AckFacts, IsProbeAction, ProbeKindOf, FeedInv
  <2>2. QED
    BY <1>2, <1>4, <2>1 DEF Feed!FactsWritten, Feed!WriteGatewayFact, WriteGatewayFact
<1>5. CASE BringsSnapshot(m.task) /\ WriteSnapshot(i, m.result)
  <2>1. m.result \in ResultsOfKind["skills"]
    BY <1>5, ResultOfItsKind DEF AckFacts, IsProbeAction, ProbeKindOf, FeedInv, BringsSnapshot
  <2>2. QED
    BY <1>2, <1>5, <2>1 DEF Feed!FactsWritten, Feed!WriteSnapshot, WriteSnapshot
<1>6. CASE InvalidateSnapshot(i)
  <2>1. CASE facts[i].snapshot # NoSnapshot
    BY <1>2, <1>6, <2>1
    DEF Feed!FactsWritten, Feed!InvalidateSnapshot, InvalidateSnapshot
  <2>2. CASE facts[i].snapshot = NoSnapshot
    <3>1. facts \in [Instances -> FactRow] /\ facts[i] \in FactRow
      BY <1>1 DEF TypeInv, LeaseTypeOK, FactsTypeOK
    <3>2. facts[i].invalidated = FALSE
      BY <1>1, <2>2, <3>1 DEF FeedInv, NothingToInvalidate, FactRow
    <3>3. facts' = [facts EXCEPT ![i].invalidated = FALSE]
      BY <1>6, <2>2 DEF InvalidateSnapshot
    <3>4. [facts[i] EXCEPT !.invalidated = FALSE] = facts[i]
      BY <3>1, <3>2, Zenon DEF FactRow
    <3>5. facts' = facts
      BY <3>1, <3>3, <3>4, Zenon
    <3>6. QED  BY <3>5
  <2>3. QED  BY <2>1, <2>2
<1>7. QED  BY <1>4, <1>5, <1>6 DEF AckFacts

LEMMA AckProbeFeeds ==
  ASSUME TypeInv, FeedInv, NEW h \in AckHandlers, AckProbeReset(h) \/ AckProbeWrite(h)
  PROVE  [Feed!FeedNext]_Feed!feedVars
<1> DEFINE t == ackMsg[h].task
           i == Target(t)
           k == ProbeKindOf(t)
<1>1. i \in Instances /\ k \in ProbeKinds
  BY AckSubject DEF AckProbeReset, AckProbeWrite
<1>2. UNCHANGED ProbeCount /\ UNCHANGED facts
  BY FactsLeaveProbes DEF AckProbeReset, AckProbeWrite, tableVars
<1>3. ResultsOfKind[k] # {}
  BY ResultOfItsKind DEF FeedInv, ProbeStepsAreOfProbes, AckProbeReset, AckProbeWrite
<1>4. seenFailures[h] \in 0 .. FailureBound
  BY DEF TypeInv, LeaseTypeOK, AckTypeOK
<1>5. Feed!ProbeStateWritten(i, k)
  BY <1>1, <1>2, <1>3, <1>4
  DEF Feed!ProbeStateWritten, Feed!ResetProbeState, Feed!WriteProbeFailure,
      AckProbeReset, AckProbeWrite, ResetProbeState, WriteProbeFailure
<1>6. QED  BY <1>1, <1>5 DEF Feed!FeedNext, Feed!ProbeKinds, ProbeKinds

\* A step of an acknowledgement keeps its message, one of the other handlers
\* keeps everything of it.
LEMMA AckStepsKeepMessage ==
  ASSUME TypeInv, NEW h \in AckHandlers, AckSteps(h)
  PROVE  /\ ackMsg' = ackMsg
         /\ ackPc[h] # "idle"
         /\ \A g \in AckHandlers \ {h} : ackPc'[g] = ackPc[g]
BY DEF AckSteps, AckRead, AckNotFound, AckWriteOk, AckWriteError, AckLog, AckFacts,
       AckProbeReset, AckProbeRead, AckProbeWrite, TypeInv, LeaseTypeOK, AckTypeOK

LEMMA FeedInvAckSteps ==
  ASSUME TypeInv, FeedInv, NEW h \in AckHandlers, AckSteps(h)
  PROVE  ResultsAreKnown' /\ ProbeStepsAreOfProbes'
<1>1. ResultsAreKnown'
  BY AckStepsKeepMessage DEF FeedInv, ResultsAreKnown
<1>2. ackPc'[h] \in {"probe", "bump"} => IsProbeAction(ActionOf[ackMsg[h].task])
  <2>1. ackPc \in [AckHandlers -> AckPcs]
    BY DEF TypeInv, LeaseTypeOK, AckTypeOK
  <2>2. CASE AckRead(h) \/ AckNotFound(h) \/ AckWriteOk(h) \/ AckWriteError(h)
    BY <2>1, <2>2 DEF AckRead, AckNotFound, AckWriteOk, AckWriteError
  <2>3. CASE AckLog(h)
    BY <2>1, <2>3 DEF AckLog, StepAfterLog, IsProbeAction
  <2>4. CASE AckFacts(h) \/ AckProbeReset(h) \/ AckProbeRead(h) \/ AckProbeWrite(h)
    BY <2>1, <2>4
    DEF AckFacts, AckProbeReset, AckProbeRead, AckProbeWrite, FeedInv, ProbeStepsAreOfProbes
  <2>5. QED  BY <2>2, <2>3, <2>4 DEF AckSteps
<1>3. ProbeStepsAreOfProbes'
  BY <1>2, AckStepsKeepMessage DEF FeedInv, ProbeStepsAreOfProbes
<1>4. QED  BY <1>1, <1>3

LEMMA FeedInvAckClient ==
  ASSUME TypeInv, FeedInv, NEW h \in AckHandlers,
         \/ \E m \in ClientMessages : AckArrive(h, m)
         \/ AckReply(h)
         \/ AckAbort(h)
  PROVE  FeedInv'
<1> USE DEF FeedInv
<1>0. ackPc \in [AckHandlers -> AckPcs] /\ ackMsg \in [AckHandlers -> AckMessages]
  BY DEF TypeInv, LeaseTypeOK, AckTypeOK
<1>1. NothingToInvalidate'
  BY DEF AckArrive, AckReply, AckAbort, AckEnds, factVars, NothingToInvalidate
<1>2. ASSUME NEW m \in ClientMessages, AckArrive(h, m)
      PROVE  ResultsAreKnown' /\ ProbeStepsAreOfProbes'
  BY <1>0, <1>2 DEF AckArrive, ResultsAreKnown, ProbeStepsAreOfProbes
<1>3. ASSUME AckEnds(h)
      PROVE  ResultsAreKnown' /\ ProbeStepsAreOfProbes'
  BY <1>0, <1>3 DEF AckEnds, ResultsAreKnown, ProbeStepsAreOfProbes
<1>4. QED  BY <1>1, <1>2, <1>3 DEF AckReply, AckAbort

LEMMA InvalidationsAck ==
  ASSUME TypeInv, NothingToInvalidate, NEW h \in AckHandlers, AckFacts(h)
  PROVE  NothingToInvalidate'
<1> DEFINE m == ackMsg[h]
           i == Target(m.task)
<1>0. facts \in [Instances -> FactRow]
  BY DEF TypeInv, LeaseTypeOK, FactsTypeOK
<1>1. CASE WriteGatewayFact(i, m.result)
  BY <1>0, <1>1 DEF WriteGatewayFact, NothingToInvalidate
<1>2. CASE WriteSnapshot(i, m.result)
  BY <1>0, <1>2 DEF WriteSnapshot, NothingToInvalidate
<1>3. CASE InvalidateSnapshot(i)
  <2>1. PICK old \in BOOLEAN : old = (facts[i].snapshot # NoSnapshot)
    OBVIOUS
  <2>2. facts' = [facts EXCEPT ![i].invalidated = old]
    BY <1>3, <2>1, Zenon DEF InvalidateSnapshot
  <2>3. facts[i].snapshot = NoSnapshot => old = FALSE
    BY <2>1
  <2>4. QED  BY <1>0, <2>2, <2>3 DEF NothingToInvalidate
<1>4. QED  BY <1>1, <1>2, <1>3 DEF AckFacts

LEMMA InvalidationsAge ==
  ASSUME TypeInv, NothingToInvalidate, FactsAge
  PROVE  NothingToInvalidate'
<1>1. facts \in [Instances -> FactRow]
  BY DEF TypeInv, LeaseTypeOK, FactsTypeOK
<1>2. PICK i \in Instances :
        \/ GatewayFactGoesStale(i) \/ VersionGoesStale(i) \/ SnapshotGoesStale(i)
        \/ UNCHANGED facts
  BY DEF FactsAge, BackoffLapses
<1>3. CASE GatewayFactGoesStale(i)
  BY <1>1, <1>3 DEF GatewayFactGoesStale, NothingToInvalidate
<1>4. CASE VersionGoesStale(i)
  BY <1>1, <1>4 DEF VersionGoesStale, NothingToInvalidate
<1>5. CASE SnapshotGoesStale(i)
  BY <1>1, <1>5 DEF SnapshotGoesStale, NothingToInvalidate
<1>6. CASE UNCHANGED facts
  BY <1>6 DEF NothingToInvalidate
<1>7. QED  BY <1>2, <1>3, <1>4, <1>5, <1>6

LEMMA FeedInvStep ==
  ASSUME TypeInv, FeedInv, [LeaseNext]_leaseVars
  PROVE  FeedInv'
<1>1. CASE UNCHANGED <<facts, ackPc, ackMsg>>
  BY <1>1 DEF FeedInv, ResultsAreKnown, ProbeStepsAreOfProbes, NothingToInvalidate
<1>2. CASE FactsAge /\ UNCHANGED <<tableVars, leaseKey, pullVars, ackVars>>
  BY <1>2, InvalidationsAge
  DEF FeedInv, ResultsAreKnown, ProbeStepsAreOfProbes, ackVars
<1>3. ASSUME NEW h \in AckHandlers, AckSteps(h) PROVE FeedInv'
  <2>1. NothingToInvalidate'
    <3>1. CASE AckFacts(h)
      BY <3>1, InvalidationsAck DEF FeedInv
    <3>2. CASE UNCHANGED facts
      BY <3>2 DEF FeedInv, NothingToInvalidate
    <3>3. QED
      BY <1>3, <3>1, <3>2
      DEF AckSteps, AckRead, AckNotFound, AckWriteOk, AckWriteError, AckLog,
          AckProbeReset, AckProbeRead, AckProbeWrite, factVars
  <2>2. QED  BY <1>3, <2>1, FeedInvAckSteps DEF FeedInv
<1>4. CASE \E h \in AckHandlers :
             (\E m \in ClientMessages : AckArrive(h, m)) \/ AckReply(h) \/ AckAbort(h)
  BY <1>4, FeedInvAckClient
<1>5. CASE \E h \in PullHandlers : PullSteps(h)
  BY <1>1, <1>5
  DEF PullSteps, PullReclaim, PullSelect, PullClaim, PullSkip, PullGrant, factVars, ackVars
<1>6. CASE \E h \in PullHandlers :
             (\E i \in Instances : PullArrive(h, i)) \/ PullReply(h) \/ PullAbort(h)
  BY <1>1, <1>6 DEF PullArrive, PullReply, PullAbort, PullEnds, factVars, ackVars
<1>7. CASE (\E t \in Tasks : CreateTask(t) \/ TaskExpires(t)) \/ Tick
  BY <1>1, <1>7 DEF CreateTask, TaskExpires, Tick, factVars, ackVars
<1>8. CASE UNCHANGED leaseVars
  BY <1>1, <1>8 DEF leaseVars, factVars, ackVars
<1>9. QED
  BY <1>2, <1>3, <1>4, <1>5, <1>6, <1>7, <1>8 DEF LeaseNext, ServerSteps

LEMMA AckStepsFeed ==
  ASSUME TypeInv, FeedInv, NEW h \in AckHandlers, AckSteps(h)
  PROVE  [Feed!FeedNext]_Feed!feedVars
<1>1. CASE AckWriteOk(h)
  BY <1>1, AckMessageType, StatusFeeds DEF AckWriteOk, TypeInv, LeaseTypeOK
<1>2. CASE AckWriteError(h)
  BY <1>2, AckMessageType, StatusFeeds DEF AckWriteError, TypeInv, LeaseTypeOK
<1>3. CASE AckFacts(h)
  BY <1>3, AckFactsFeeds
<1>4. CASE AckProbeReset(h) \/ AckProbeWrite(h)
  BY <1>4, AckProbeFeeds
<1>5. CASE AckRead(h) \/ AckNotFound(h) \/ AckLog(h) \/ AckProbeRead(h)
  <2>1. UNCHANGED <<status, factVars>>
    BY <1>5 DEF AckRead, AckNotFound, AckLog, AckProbeRead, tableVars
  <2>2. QED  BY <2>1, TableLeavesProbes
<1>6. QED  BY <1>1, <1>2, <1>3, <1>4, <1>5 DEF AckSteps

LEMMA PullStepsFeed ==
  ASSUME TypeInv, NEW h \in PullHandlers, PullSteps(h)
  PROVE  [Feed!FeedNext]_Feed!feedVars
<1>1. ASSUME NEW t \in Tasks, PullGrant(h, t) PROVE [Feed!FeedNext]_Feed!feedVars
  BY <1>1, StatusFeeds DEF PullGrant
<1>2. CASE PullReclaim(h)
  <2>1. \A t \in Tasks :
          status'[t] \in {"pending", "leased"} <=> status[t] \in {"pending", "leased"}
    BY <1>2 DEF PullReclaim, Reclaimable
  <2>2. \A i, k : OpenProbes(i, k)' = OpenProbes(i, k)
    BY <2>1, TaskConstants DEF OpenProbes
  <2>3. QED  BY <1>2, <2>2, SameProbes DEF PullReclaim
<1>3. CASE UNCHANGED <<status, factVars>>
  BY <1>3, TableLeavesProbes
<1>4. QED
  BY <1>1, <1>2, <1>3 DEF PullSteps, PullSelect, PullClaim, PullSkip, tableVars

LEMMA FeedStep ==
  ASSUME TypeInv, FeedInv, [LeaseNext]_leaseVars
  PROVE  [Feed!FeedNext]_Feed!feedVars
<1> DEFINE Fed == [Feed!FeedNext]_Feed!feedVars
<1>1. ASSUME UNCHANGED <<status, factVars>> PROVE Fed
  BY <1>1, TableLeavesProbes
<1>2. ASSUME \E h \in AckHandlers : AckSteps(h) PROVE Fed
  BY <1>2, AckStepsFeed
<1>3. ASSUME \E h \in PullHandlers : PullSteps(h) PROVE Fed
  BY <1>3, PullStepsFeed
<1>4. ASSUME NEW t \in Tasks, CreateTask(t) PROVE Fed
  BY <1>4, StatusFeeds DEF CreateTask
<1>5. ASSUME FactsAge, UNCHANGED <<tableVars, leaseKey, pullVars, ackVars>> PROVE Fed
  <2>1. UNCHANGED ProbeCount
    BY <1>5, FactsLeaveProbes DEF tableVars
  <2>2. Feed!FactsAge
    BY <1>5
    DEF FactsAge, GatewayFactGoesStale, VersionGoesStale, SnapshotGoesStale, BackoffLapses,
        Feed!FactsAge, Feed!GatewayFactGoesStale, Feed!VersionGoesStale,
        Feed!SnapshotGoesStale, Feed!BackoffLapses, ProbeKinds, Feed!ProbeKinds
  <2>3. QED  BY <2>1, <2>2 DEF Feed!FeedNext
<1> HIDE DEF Fed
<1>6. ASSUME NEW t \in Tasks, TaskExpires(t) PROVE Fed
  BY <1>1, <1>6 DEF TaskExpires
<1>7. ASSUME Tick PROVE Fed
  BY <1>1, <1>7 DEF Tick
<1>8. ASSUME \E h \in PullHandlers :
               (\E i \in Instances : PullArrive(h, i)) \/ PullReply(h) \/ PullAbort(h)
      PROVE  Fed
  BY <1>1, <1>8 DEF PullArrive, PullReply, PullAbort, PullEnds, tableVars
<1>9. ASSUME \E h \in AckHandlers :
               (\E m \in ClientMessages : AckArrive(h, m)) \/ AckReply(h) \/ AckAbort(h)
      PROVE  Fed
  BY <1>1, <1>9 DEF AckArrive, AckReply, AckAbort, AckEnds, tableVars
<1>10. ASSUME UNCHANGED leaseVars PROVE Fed
  BY <1>1, <1>10 DEF leaseVars, tableVars
<1>11. Fed
  BY <1>2, <1>3, <1>4, <1>5, <1>6, <1>7, <1>8, <1>9, <1>10 DEF LeaseNext, ServerSteps
<1>12. QED  BY <1>11 DEF Fed

LEMMA FeedStarts == LeaseInit => Feed!FeedInit /\ FeedInv
<1> SUFFICES ASSUME LeaseInit PROVE Feed!FeedInit /\ FeedInv  OBVIOUS
<1>1. \A i, k : OpenProbes(i, k) = {}
  BY TaskConstants DEF LeaseInit, OpenProbes
<1>2. ProbeCount = [i \in Instances |-> [k \in ProbeKinds |-> 0]]
  BY <1>1, FS_EmptySet DEF ProbeCount
<1>3. Feed!FactsInit
  BY DEF LeaseInit, FactsInit, Feed!FactsInit, ProbeKinds, Feed!ProbeKinds
<1>4. Feed!FeedInit
  BY <1>2, <1>3 DEF Feed!FeedInit, ProbeKinds, Feed!ProbeKinds
<1>5. FeedInv
  BY DEF LeaseInit, FactsInit, FeedInv, ResultsAreKnown, ProbeStepsAreOfProbes,
         NothingToInvalidate
<1>6. QED  BY <1>4, <1>5

(* The queue is to the campaign reconciler what ProbeFeed says, for any    *)
(* tasks and against any clients: facts change to what a probe of their    *)
(* kind returns, probe states for probes only, and the probe tasks that    *)
(* the reconciler looks for settle or open one at a time.                  *)
THEOREM QueueFeedsReconciler == LeaseSpec => FeedsReconciler
<1>1. LeaseInit => Feed!FeedInit /\ FeedInv
  BY FeedStarts
<1>2. TypeInv /\ FeedInv /\ [LeaseNext]_leaseVars
        => FeedInv' /\ [Feed!FeedNext]_Feed!feedVars
  BY FeedInvStep, FeedStep
<1>3. QED
  BY <1>1, <1>2, TypeInvariant, PTL DEF LeaseSpec, FeedsReconciler, Feed!FeedSpec
=============================================================================
