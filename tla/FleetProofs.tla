---------------------------- MODULE FleetProofs ----------------------------
(***************************************************************************)
(* Proofs about the fleet: the sidecars are clients of the control plane   *)
(* like any others, so everything proved of TaskLease holds of the fleet;  *)
(* a task that is done has been executed; and a task is executed no more   *)
(* often than its attempts say.                                            *)
(***************************************************************************)
EXTENDS FleetTasks, TaskLeaseProofs

(***************************************************************************)
(* FleetTasks implements TaskLease: every step of the fleet is a step of   *)
(* the control plane against arbitrary clients, or none at all.            *)
(***************************************************************************)

LEMMA PullStepsAreOpen ==
  ASSUME NEW r \in Runs, Host[r] \in Instances,
         \/ Poll(r) \/ PullAnswered(r) \/ PullAnsweredLate(r)
         \/ PullBreaks(r) \/ PullTimesOut(r)
  PROVE  [LeaseNext]_leaseVars
<1>1. r \in PullHandlers  BY FleetConstants
<1>2. \/ \E i \in Instances : PullArrive(r, i)
      \/ PullReply(r) \/ PullAbort(r)
      \/ UNCHANGED leaseVars
  BY DEF Poll, PullAnswered, PullAnsweredLate, PullBreaks, PullTimesOut
<1>3. QED  BY <1>1, <1>2 DEF LeaseNext

\* The messages of a sidecar are messages a client may send.
LEMMA MessageIsOpen ==
  ASSUME NEW t \in Tasks, NEW ok \in BOOLEAN, NEW res,
         res \in (IF ok THEN ResultsOf[t] \cup {NoResult} ELSE {NoResult})
  PROVE  [task |-> t, ok |-> ok, result |-> res] \in ClientMessages
<1>1. res \in AnyResult
  BY TaskConstants DEF AnyResult
<1>2. QED  BY <1>1 DEF ClientMessages, AckMessages

LEMMA AnswersAreResults ==
  ASSUME NEW r \in Runs, NEW t \in Tasks, completed[Host[r]] \subseteq Tasks
  PROVE  Answers(r, t) \subseteq ResultsOf[t]
BY SkillResults DEF Answers, InstalledSkills

LEMMA JobStepsAreOpen ==
  ASSUME NEW r \in Runs, NEW t \in Tasks, completed[Host[r]] \subseteq Tasks,
         \/ StartTask(r, t) \/ SkipTask(r, t)
         \/ TaskSucceeds(r, t) \/ TaskFails(r, t)
         \/ AckAnswered(r, t) \/ AckBreaks(r, t) \/ AckTimesOut(r, t)
  PROVE  [LeaseNext]_leaseVars
<1> DEFINE h == <<r, t>>
<1>1. h \in AckHandlers  BY FleetConstants
<1>2. CASE SkipTask(r, t)
  <2>1. [task |-> t, ok |-> TRUE, result |-> NoResult] \in ClientMessages
    BY MessageIsOpen
  <2>2. QED  BY <1>1, <1>2, <2>1 DEF SkipTask, Ack, LeaseNext
<1>3. CASE TaskSucceeds(r, t)
  <2>1. PICK res \in Answers(r, t) : Ack(r, t, TRUE, res)
    BY <1>3 DEF TaskSucceeds
  <2>2. [task |-> t, ok |-> TRUE, result |-> res] \in ClientMessages
    BY MessageIsOpen, AnswersAreResults
  <2>3. QED  BY <1>1, <2>1, <2>2 DEF Ack, LeaseNext
<1>4. CASE TaskFails(r, t)
  <2>1. [task |-> t, ok |-> FALSE, result |-> NoResult] \in ClientMessages
    BY MessageIsOpen
  <2>2. QED  BY <1>1, <1>4, <2>1 DEF TaskFails, Ack, LeaseNext
<1>5. CASE AckAnswered(r, t) \/ AckBreaks(r, t)
  BY <1>1, <1>5 DEF AckAnswered, AckBreaks, LeaseNext
<1>6. CASE StartTask(r, t) \/ AckTimesOut(r, t)
  BY <1>6 DEF StartTask, AckTimesOut
<1>7. QED  BY <1>2, <1>3, <1>4, <1>5, <1>6

LEMMA FleetStepIsOpen ==
  ASSUME SidecarTypeOK, [FleetNext]_fleetVars
  PROVE  [LeaseNext]_leaseVars
<1>1. \A r \in Runs : Host[r] \in Instances /\ completed[Host[r]] \subseteq Tasks
  BY SidecarConstants, FleetConstants DEF SidecarTypeOK
<1>2. CASE ServerSteps
  BY <1>2 DEF LeaseNext
<1>3. CASE \E i \in Instances : SidecarRestarts(i)
  BY <1>3 DEF SidecarRestarts
<1>4. CASE UNCHANGED fleetVars
  BY <1>4 DEF fleetVars
<1>5. QED
  BY <1>1, <1>2, <1>3, <1>4, PullStepsAreOpen, JobStepsAreOpen DEF FleetNext

-----------------------------------------------------------------------------
(* Types of the sidecars.                                                  *)

LEMMA SidecarFrame ==
  ASSUME SidecarTypeOK, UNCHANGED sidecarVars
  PROVE  SidecarTypeOK'
BY DEF SidecarTypeOK, sidecarVars

LEMMA SidecarStepType ==
  ASSUME SidecarTypeOK, TypeInv, [FleetNext]_fleetVars
  PROVE  SidecarTypeOK'
<1>1. ASSUME NEW r \in Runs,
             \/ Poll(r) \/ PullAnswered(r) \/ PullAnsweredLate(r)
             \/ PullBreaks(r) \/ PullTimesOut(r)
      PROVE  SidecarTypeOK'
  <2>1. CASE StartRun(r) \/ PullFails(r)
    BY <2>1 DEF StartRun, PullFails, SidecarTypeOK, RunStates
  <2>2. CASE ReceiveTasks(r, leased[r])
    BY <2>2 DEF ReceiveTasks, SidecarTypeOK, RunStates, JobStates
  <2>3. CASE UNCHANGED sidecarVars
    BY <2>3, SidecarFrame
  <2>4. QED
    BY <1>1, <2>1, <2>2, <2>3
    DEF Poll, PullAnswered, PullAnsweredLate, PullBreaks, PullTimesOut
<1>2. ASSUME NEW r \in Runs, NEW t \in Tasks,
             \/ StartTask(r, t) \/ SkipTask(r, t)
             \/ TaskSucceeds(r, t) \/ TaskFails(r, t)
             \/ AckAnswered(r, t) \/ AckBreaks(r, t) \/ AckTimesOut(r, t)
      PROVE  SidecarTypeOK'
  <2>0. Host[r] \in Sites /\ t \in Jobs
    BY SidecarConstants, FleetConstants
  <2>1. CASE Dispatch(r, t) \/ SkipExecuted(r, t) \/ DispatchFails(r, t)
    BY <2>1 DEF Dispatch, SkipExecuted, DispatchFails, SidecarTypeOK, JobStates
  <2>2. CASE DispatchOk(r, t)
    BY <2>0, <2>2 DEF DispatchOk, SidecarTypeOK, JobStates
  <2>3. CASE JobEnds(r, t)
    BY <2>3 DEF JobEnds, SidecarTypeOK, RunStates, JobStates
  <2>4. CASE UNCHANGED sidecarVars
    BY <2>4, SidecarFrame
  <2>5. QED
    BY <1>2, <2>1, <2>2, <2>3, <2>4
    DEF StartTask, SkipTask, TaskSucceeds, TaskFails, AckAnswered, AckBreaks, AckTimesOut
<1>3. ASSUME NEW i \in Instances, SidecarRestarts(i)
      PROVE  SidecarTypeOK'
  BY <1>3 DEF SidecarRestarts, Restart, SidecarTypeOK, RunStates, JobStates
<1>4. CASE ServerSteps /\ UNCHANGED <<sidecarVars, faults, calls>>
  BY <1>4, SidecarFrame
<1>5. CASE UNCHANGED fleetVars
  BY <1>5, SidecarFrame DEF fleetVars
<1>6. QED  BY <1>1, <1>2, <1>3, <1>4, <1>5 DEF FleetNext

LEMMA FleetInductive ==
  FleetSpec => [](TypeInv /\ SidecarTypeOK)
<1>1. FleetInit => TypeInv /\ SidecarTypeOK
  BY TypeInit DEF FleetInit, SidecarInit, SidecarTypeOK, RunStates, JobStates
<1>2. (TypeInv /\ SidecarTypeOK) /\ [FleetNext]_fleetVars
        => (TypeInv /\ SidecarTypeOK)'
  BY FleetStepIsOpen, TypeStep, SidecarStepType
<1>3. QED  BY <1>1, <1>2, PTL DEF FleetSpec

(* The fleet implements the open control plane: sidecars only ever do what *)
(* TaskLease allows a client to do, whatever is lost, late or repeated.    *)
THEOREM FleetImplementsLease == FleetSpec => LeaseSpec
<1>1. FleetInit => LeaseInit
  BY DEF FleetInit
<1>2. (TypeInv /\ SidecarTypeOK) /\ [FleetNext]_fleetVars => [LeaseNext]_leaseVars
  BY FleetStepIsOpen
<1>3. QED  BY <1>1, <1>2, FleetInductive, PTL DEF FleetSpec, LeaseSpec

(* With the sidecars of the instances as its clients the queue is to the   *)
(* campaign reconciler what ProbeFeed says: the whole deployment, sidecars *)
(* that crash and requests that get lost included, never gives the gates   *)
(* of the reconciler anything but what its model expects.                  *)
THEOREM FleetFeedsReconciler == FleetSpec => FeedsReconciler
BY FleetImplementsLease, QueueFeedsReconciler

(***************************************************************************)
(* A task that is done has been executed.  The invariant follows the task  *)
(* on its way: the rows a pull selects, the tasks of a run, the executor's *)
(* record and the acknowledgements under way are all of the run's own      *)
(* instance, and a positive acknowledgement speaks of completed work.      *)
(***************************************************************************)

PullsAreOwn ==
  \A r \in Runs :
    /\ pullPc[r] = "idle" => batch[r] = {} /\ leased[r] = {}
    /\ pullPc[r] # "idle" => puller[r] = Host[r]
    /\ \A t \in batch[r] \cup leased[r] : Host[r] \in Eligible[t]

JobsAreOwn ==
  \A r \in Runs : \A t \in Tasks : job[r][t] # "none" => Host[r] \in Eligible[t]

ExecutedIsCompleted == \A i \in Instances : executed[i] \subseteq completed[i]

AcksAreTrue ==
  \A r \in Runs : \A t \in Tasks :
    ackPc[<<r, t>>] # "idle" =>
      /\ ackMsg[<<r, t>>].task = t
      /\ ackMsg[<<r, t>>].ok => Host[r] \in Eligible[t] /\ t \in completed[Host[r]]

WorkInv ==
  PullsAreOwn /\ JobsAreOwn /\ ExecutedIsCompleted /\ AcksAreTrue /\ DoneIsExecuted

\* Names for the facts about constants and types that the steps need.
LEMMA FleetTypes ==
  ASSUME TypeInv, SidecarTypeOK
  PROVE  /\ PullHandlers = Runs /\ AckHandlers = Runs \X Tasks
         /\ Sites = Instances /\ Jobs = Tasks
         /\ \A r \in Runs : Host[r] \in Instances
         /\ \A t \in Tasks : Eligible[t] \subseteq Instances
         /\ pullPc \in [Runs -> PullPcs]
         /\ puller \in [Runs -> Instances]
         /\ batch \in [Runs -> SUBSET Tasks]
         /\ leased \in [Runs -> SUBSET Tasks]
         /\ status \in [Tasks -> Statuses]
         /\ ackPc \in [Runs \X Tasks -> AckPcs]
         /\ ackMsg \in [Runs \X Tasks -> AckMessages]
         /\ job \in [Runs -> [Tasks -> JobStates]]
         /\ run \in [Runs -> RunStates]
         /\ executed \in [Instances -> SUBSET Tasks]
         /\ completed \in [Instances -> SUBSET Tasks]
BY FleetConstants, SidecarConstants, TaskConstants
DEF TypeInv, LeaseTypeOK, PullTypeOK, TableTypeOK, AckTypeOK, SidecarTypeOK

\* The state of tasks, acknowledgements and sidecars is left alone.
LEMMA WorkPulls ==
  ASSUME WorkInv, PullsAreOwn',
         \A t \in Tasks : status'[t] = "done" => status[t] = "done",
         UNCHANGED <<ackPc, ackMsg, job, executed, completed>>
  PROVE  WorkInv'
BY DEF WorkInv, JobsAreOwn, ExecutedIsCompleted, AcksAreTrue, DoneIsExecuted

LEMMA OwnFrame ==
  ASSUME PullsAreOwn, UNCHANGED pullVars
  PROVE  PullsAreOwn'
BY DEF PullsAreOwn, pullVars

LEMMA WorkPullSteps ==
  ASSUME TypeInv, SidecarTypeOK, WorkInv, NEW r \in Runs, PullSteps(r),
         UNCHANGED sidecarVars
  PROVE  WorkInv'
<1>1. UNCHANGED <<ackPc, ackMsg, job, executed, completed>>
  BY DEF PullSteps, PullReclaim, PullSelect, PullClaim, PullSkip, PullGrant,
         ackVars, sidecarVars
<1>2. \A t \in Tasks : status'[t] = "done" => status[t] = "done"
  BY FleetTypes
  DEF PullSteps, PullReclaim, PullSelect, PullClaim, PullSkip, PullGrant, tableVars
<1>3. PullsAreOwn'
  <2>1. ASSUME NEW g \in Runs \ {r}
        PROVE  UNCHANGED <<pullPc[g], puller[g], batch[g], leased[g]>>
    BY FleetTypes DEF PullSteps, PullReclaim, PullSelect, PullClaim, PullSkip, PullGrant
  <2>2. pullPc[r] # "idle" /\ pullPc'[r] # "idle" /\ UNCHANGED puller[r]
    BY FleetTypes DEF PullSteps, PullReclaim, PullSelect, PullClaim, PullSkip, PullGrant
  <2>3. CASE PullSelect(r)
    BY <2>1, <2>2, <2>3, FleetTypes
    DEF PullSelect, Oldest, Candidates, WorkInv, PullsAreOwn
  <2>4. ASSUME ~PullSelect(r)
        PROVE  batch'[r] \cup leased'[r] \subseteq batch[r] \cup leased[r]
    BY <2>4, FleetTypes
    DEF PullSteps, PullReclaim, PullClaim, PullSkip, PullGrant, IsNext
  <2>5. CASE ~PullSelect(r)
    BY <2>1, <2>2, <2>4, <2>5 DEF WorkInv, PullsAreOwn
  <2>6. QED  BY <2>3, <2>5
<1>4. QED  BY <1>1, <1>2, <1>3, WorkPulls

LEMMA WorkAckSteps ==
  ASSUME TypeInv, SidecarTypeOK, WorkInv, NEW h \in AckHandlers, AckSteps(h),
         UNCHANGED sidecarVars
  PROVE  WorkInv'
<1>1. UNCHANGED <<job, executed, completed>>
  BY DEF sidecarVars
<1>2. PullsAreOwn'
  BY AcksLeavePulls, OwnFrame DEF WorkInv
<1>3. ackPc[h] # "idle" /\ UNCHANGED ackMsg /\ \A g \in AckHandlers \ {h} : UNCHANGED ackPc[g]
  BY FleetTypes
  DEF AckSteps, AckRead, AckNotFound, AckWriteOk, AckWriteError, AckLog, AckFacts,
      AckProbeReset, AckProbeRead, AckProbeWrite
<1>4. AcksAreTrue'
  BY <1>1, <1>3, FleetTypes DEF WorkInv, AcksAreTrue
<1>5. PICK r \in Runs, t \in Tasks : h = <<r, t>>
  BY FleetTypes
<1>6. ackMsg[h].task = t /\ (ackMsg[h].ok => Host[r] \in Eligible[t] /\ t \in completed[Host[r]])
  BY <1>3, <1>5 DEF WorkInv, AcksAreTrue
<1>7. DoneIsExecuted'
  <2>1. CASE AckWriteOk(h)
    BY <1>1, <1>6, <2>1, FleetTypes DEF AckWriteOk, WorkInv, DoneIsExecuted
  <2>2. CASE AckWriteError(h)
    BY <1>1, <2>2, FleetTypes
    DEF AckWriteError, StatusAfterError, WorkInv, DoneIsExecuted
  <2>3. CASE ~AckWriteOk(h) /\ ~AckWriteError(h)
    <3>1. UNCHANGED status
      BY <2>3 DEF AckSteps, AckRead, AckNotFound, AckLog, AckFacts, AckProbeReset,
                  AckProbeRead, AckProbeWrite, tableVars
    <3>2. QED  BY <1>1, <3>1 DEF WorkInv, DoneIsExecuted
  <2>4. QED  BY <2>1, <2>2, <2>3
<1>8. QED
  BY <1>1, <1>2, <1>4, <1>7 DEF WorkInv, JobsAreOwn, ExecutedIsCompleted

LEMMA WorkServer ==
  ASSUME TypeInv, SidecarTypeOK, WorkInv, ServerSteps, UNCHANGED sidecarVars
  PROVE  WorkInv'
<1>1. CASE \E h \in PullHandlers : PullSteps(h)
  BY <1>1, WorkPullSteps, FleetTypes
<1>2. CASE \E h \in AckHandlers : AckSteps(h)
  BY <1>2, WorkAckSteps
<1>3. CASE \E t \in Tasks : CreateTask(t) \/ TaskExpires(t)
  <2>1. PullsAreOwn'
    BY <1>3, OwnFrame DEF CreateTask, TaskExpires, WorkInv
  <2>2. \A t \in Tasks : status'[t] = "done" => status[t] = "done"
    BY <1>3, FleetTypes DEF CreateTask, TaskExpires
  <2>3. QED
    BY <1>3, <2>1, <2>2, WorkPulls DEF CreateTask, TaskExpires, ackVars, sidecarVars
<1>4. CASE Tick
  <2>1. PullsAreOwn'
    BY <1>4 DEF Tick, WorkInv, PullsAreOwn
  <2>2. QED  BY <1>4, <2>1, WorkPulls DEF Tick, ackVars, sidecarVars
<1>5. CASE FactsAge /\ UNCHANGED <<tableVars, leaseKey, pullVars, ackVars>>
  BY <1>5, OwnFrame, WorkPulls DEF WorkInv, tableVars, ackVars, sidecarVars
<1>6. QED  BY <1>1, <1>2, <1>3, <1>4, <1>5 DEF ServerSteps

\* A pull handler is over: nothing is at hand any more.
LEMMA OwnAfterEnd ==
  ASSUME TypeInv, SidecarTypeOK, PullsAreOwn, NEW r \in Runs, PullEnds(r)
  PROVE  PullsAreOwn'
BY FleetTypes DEF PullEnds, PullsAreOwn

LEMMA WorkScheduler ==
  ASSUME TypeInv, SidecarTypeOK, WorkInv, NEW r \in Runs,
         \/ Poll(r) \/ PullAnswered(r) \/ PullAnsweredLate(r)
         \/ PullBreaks(r) \/ PullTimesOut(r)
  PROVE  WorkInv'
<1>1. CASE Poll(r)
  <2>1. PullsAreOwn'
    BY <1>1, FleetTypes DEF Poll, PullArrive, WorkInv, PullsAreOwn
  <2>2. QED
    BY <1>1, <2>1, WorkPulls DEF Poll, StartRun, PullArrive, ackVars, tableVars
<1>2. CASE PullAnswered(r)
  <2>1. PullsAreOwn'
    BY <1>2, OwnAfterEnd DEF PullAnswered, PullReply, WorkInv
  <2>2. UNCHANGED <<status, ackPc, ackMsg, executed, completed>>
    BY <1>2 DEF PullAnswered, PullReply, PullEnds, ReceiveTasks, tableVars, ackVars
  <2>3. JobsAreOwn'
    <3>1. \A t \in leased[r] : Host[r] \in Eligible[t]
      BY DEF WorkInv, PullsAreOwn
    <3>2. QED
      BY <1>2, <3>1, FleetTypes DEF PullAnswered, ReceiveTasks, WorkInv, JobsAreOwn
  <2>4. QED
    BY <2>1, <2>2, <2>3 DEF WorkInv, ExecutedIsCompleted, AcksAreTrue, DoneIsExecuted
<1>3. CASE PullAnsweredLate(r) \/ PullBreaks(r)
  <2>1. PullEnds(r)
    BY <1>3 DEF PullAnsweredLate, PullBreaks, PullReply, PullAbort
  <2>2. UNCHANGED <<job, executed, completed>>
    BY <1>3 DEF PullAnsweredLate, PullBreaks, PullFails, sidecarVars
  <2>3. QED
    BY <2>1, <2>2, OwnAfterEnd, WorkPulls DEF WorkInv, PullEnds, tableVars, ackVars
<1>4. CASE PullTimesOut(r)
  BY <1>4, OwnFrame, WorkPulls
  DEF PullTimesOut, PullFails, WorkInv, leaseVars, tableVars, ackVars
<1>5. QED  BY <1>1, <1>2, <1>3, <1>4

\* A sidecar sends an acknowledgement that is true.
LEMMA WorkSend ==
  ASSUME TypeInv, SidecarTypeOK, WorkInv, NEW r \in Runs, NEW t \in Tasks,
         NEW ok \in BOOLEAN, NEW res, Ack(r, t, ok, res),
         job[r][t] # "none",
         job' = [job EXCEPT ![r][t] = "acking"],
         \A i \in Instances : executed'[i] \subseteq completed'[i]
                              /\ completed[i] \subseteq completed'[i],
         ok => t \in completed'[Host[r]]
  PROVE  WorkInv'
<1>1. Host[r] \in Eligible[t]
  BY DEF WorkInv, JobsAreOwn
<1>2. UNCHANGED status /\ PullsAreOwn'
  BY OwnFrame DEF Ack, AckArrive, tableVars, WorkInv
<1>3. ASSUME NEW g \in Runs, NEW u \in Tasks
      PROVE  /\ <<g, u>> # <<r, t>> => UNCHANGED <<ackPc[<<g, u>>], ackMsg[<<g, u>>]>>
             /\ <<g, u>> = <<r, t>> => ackMsg'[<<g, u>>] = [task |-> t, ok |-> ok, result |-> res]
  BY FleetTypes DEF Ack, AckArrive
<1>4. AcksAreTrue'
  <2>1. SUFFICES ASSUME NEW g \in Runs, NEW u \in Tasks, ackPc'[<<g, u>>] # "idle"
                 PROVE  /\ ackMsg'[<<g, u>>].task = u
                        /\ ackMsg'[<<g, u>>].ok =>
                             Host[g] \in Eligible[u] /\ u \in completed'[Host[g]]
    BY DEF AcksAreTrue
  <2>2. CASE g = r /\ u = t
    BY <1>1, <1>3, <2>2
  <2>3. CASE ~(g = r /\ u = t)
    <3>1. Host[g] \in Instances  BY FleetTypes
    <3>2. ackPc[<<g, u>>] # "idle" /\ ackMsg'[<<g, u>>] = ackMsg[<<g, u>>]
      BY <1>3, <2>1, <2>3
    <3>3. QED  BY <3>1, <3>2 DEF WorkInv, AcksAreTrue
  <2>4. QED  BY <2>2, <2>3
<1>5. JobsAreOwn'
  BY <1>1, FleetTypes DEF WorkInv, JobsAreOwn
<1>6. DoneIsExecuted'
  BY <1>2, FleetTypes DEF WorkInv, DoneIsExecuted
<1>7. QED  BY <1>2, <1>4, <1>5, <1>6 DEF WorkInv, ExecutedIsCompleted

\* The end of an acknowledgement, of a job, or of both.
LEMMA WorkEnd ==
  ASSUME TypeInv, SidecarTypeOK, WorkInv, NEW r \in Runs, NEW t \in Tasks,
         AckEnds(<<r, t>>) \/ UNCHANGED leaseVars,
         JobEnds(r, t) \/ UNCHANGED sidecarVars
  PROVE  WorkInv'
<1>1. UNCHANGED <<status, executed, completed>>
  BY DEF AckEnds, leaseVars, tableVars, JobEnds, sidecarVars
<1>2. PullsAreOwn'
  BY OwnFrame DEF AckEnds, leaseVars, WorkInv
<1>3. ASSUME NEW g \in Runs, NEW u \in Tasks
      PROVE  \/ ackPc'[<<g, u>>] = "idle"
             \/ UNCHANGED <<ackPc[<<g, u>>], ackMsg[<<g, u>>]>>
  <2>1. CASE AckEnds(<<r, t>>)
    BY <2>1, FleetTypes DEF AckEnds
  <2>2. CASE UNCHANGED leaseVars
    BY <2>2 DEF leaseVars, ackVars
  <2>3. QED  BY <2>1, <2>2
<1>4. AcksAreTrue'
  BY <1>1, <1>3 DEF WorkInv, AcksAreTrue
<1>5. ASSUME NEW g \in Runs, NEW u \in Tasks
      PROVE  job'[g][u] = "none" \/ job'[g][u] = job[g][u]
  <2>1. CASE JobEnds(r, t)
    BY <2>1, FleetTypes DEF JobEnds
  <2>2. CASE UNCHANGED sidecarVars
    BY <2>2 DEF sidecarVars
  <2>3. QED  BY <2>1, <2>2
<1>6. JobsAreOwn'
  BY <1>5 DEF WorkInv, JobsAreOwn
<1>7. QED
  BY <1>1, <1>2, <1>4, <1>6 DEF WorkInv, ExecutedIsCompleted, DoneIsExecuted

LEMMA WorkExecutor ==
  ASSUME TypeInv, SidecarTypeOK, WorkInv, NEW r \in Runs, NEW t \in Tasks,
         \/ StartTask(r, t) \/ SkipTask(r, t)
         \/ TaskSucceeds(r, t) \/ TaskFails(r, t)
         \/ AckAnswered(r, t) \/ AckBreaks(r, t) \/ AckTimesOut(r, t)
  PROVE  WorkInv'
<1>1. CASE StartTask(r, t)
  <2>1. UNCHANGED <<executed, completed>> /\ UNCHANGED leaseVars
    BY <1>1 DEF StartTask, Dispatch
  <2>2. JobsAreOwn'
    BY <1>1, FleetTypes DEF StartTask, Dispatch, Shifts, Queued, WorkInv, JobsAreOwn
  <2>3. QED
    BY <2>1, <2>2, OwnFrame
    DEF leaseVars, tableVars, ackVars, WorkInv, ExecutedIsCompleted, AcksAreTrue,
        DoneIsExecuted
<1>2. CASE SkipTask(r, t)
  <2>1. SkipExecuted(r, t) /\ Ack(r, t, TRUE, NoResult)
    BY <1>2 DEF SkipTask
  <2>2. job[r][t] # "none" /\ t \in completed[Host[r]]
    BY <2>1, FleetTypes
    DEF SkipExecuted, Shifts, Queued, WorkInv, ExecutedIsCompleted
  <2>3. QED
    BY <2>1, <2>2, WorkSend DEF SkipExecuted, WorkInv, ExecutedIsCompleted
<1>3. CASE TaskSucceeds(r, t)
  <2>1. PICK res \in Answers(r, t) : Ack(r, t, TRUE, res)
    BY <1>3 DEF TaskSucceeds
  <2>2. DispatchOk(r, t)
    BY <1>3 DEF TaskSucceeds
  <2>3. /\ \A i \in Instances : executed'[i] \subseteq completed'[i]
                               /\ completed[i] \subseteq completed'[i]
        /\ t \in completed'[Host[r]]
    BY <2>2, FleetTypes DEF DispatchOk, WorkInv, ExecutedIsCompleted
  <2>4. QED  BY <2>1, <2>2, <2>3, WorkSend DEF DispatchOk
<1>4. CASE TaskFails(r, t)
  <2>1. DispatchFails(r, t) /\ Ack(r, t, FALSE, NoResult)
    BY <1>4 DEF TaskFails
  <2>2. QED
    BY <2>1, WorkSend DEF DispatchFails, WorkInv, ExecutedIsCompleted
<1>5. CASE AckAnswered(r, t) \/ AckBreaks(r, t) \/ AckTimesOut(r, t)
  BY <1>5, WorkEnd DEF AckAnswered, AckBreaks, AckTimesOut, AckReply, AckAbort
<1>6. QED  BY <1>1, <1>2, <1>3, <1>4, <1>5

LEMMA WorkRestart ==
  ASSUME TypeInv, SidecarTypeOK, WorkInv, NEW i \in Instances, SidecarRestarts(i)
  PROVE  WorkInv'
<1>1. UNCHANGED leaseVars /\ UNCHANGED completed
  BY DEF SidecarRestarts, Restart
<1>2. JobsAreOwn' /\ ExecutedIsCompleted'
  BY FleetTypes
  DEF SidecarRestarts, Restart, WorkInv, JobsAreOwn, ExecutedIsCompleted
<1>3. QED
  BY <1>1, <1>2, OwnFrame
  DEF leaseVars, tableVars, ackVars, WorkInv, AcksAreTrue, DoneIsExecuted

LEMMA WorkStep ==
  ASSUME TypeInv, SidecarTypeOK, WorkInv, [FleetNext]_fleetVars
  PROVE  WorkInv'
<1>1. CASE UNCHANGED fleetVars
  BY <1>1, OwnFrame, WorkPulls
  DEF fleetVars, leaseVars, tableVars, ackVars, sidecarVars, WorkInv
<1>2. QED
  BY <1>1, WorkServer, WorkScheduler, WorkExecutor, WorkRestart DEF FleetNext

(* Whatever is lost, late, repeated or restarted: a task is done only when *)
(* the provider of an instance it was meant for has completed it.          *)
THEOREM DoneTasksAreExecuted == FleetSpec => []DoneIsExecuted
<1>1. FleetInit => WorkInv
  BY FleetConstants
  DEF FleetInit, LeaseInit, SidecarInit, WorkInv, PullsAreOwn, JobsAreOwn,
      ExecutedIsCompleted, AcksAreTrue, DoneIsExecuted
<1>2. (TypeInv /\ SidecarTypeOK) /\ WorkInv /\ [FleetNext]_fleetVars => WorkInv'
  BY WorkStep
<1>3. WorkInv => DoneIsExecuted
  BY DEF WorkInv
<1>4. QED  BY <1>1, <1>2, <1>3, FleetInductive, PTL DEF FleetSpec

(***************************************************************************)
(* Every provider call is paid for with an attempt.  An attempt is counted *)
(* when the row is leased; from then on the run that leased it is entitled *)
(* to one call, until it makes the call, loses the answer or restarts.     *)
(***************************************************************************)

Entitled(t) == {r \in Runs : t \in leased[r] \/ job[r][t] = "queued"}

Paid(t) ==
  /\ IsFiniteSet(Entitled(t))
  /\ attempts[t] < AttemptBound => calls[t] + Cardinality(Entitled(t)) <= attempts[t]

\* A run that works on its tasks has no pull under way.
WorkingIsAlone == \A r \in Runs : run[r] = "working" => pullPc[r] = "idle" /\ leased[r] = {}

CountersOK == faults \in 0..MaxFaults /\ calls \in [Tasks -> 0 .. AttemptBound + 1]

CallsInv == CountersOK /\ WorkingIsAlone /\ \A t \in Tasks : Paid(t)

LEMMA CallTypes ==
  ASSUME TypeInv, CallsInv, NEW t \in Tasks
  PROVE  /\ attempts[t] \in Nat /\ calls[t] \in Nat /\ AttemptBound \in Nat
         /\ Cardinality(Entitled(t)) \in Nat
BY BoundConstants, FS_CardinalityType
DEF TypeInv, LeaseTypeOK, TableTypeOK, CallsInv, CountersOK, Paid

\* No run becomes entitled, no call is made.
LEMMA CallsFrame ==
  ASSUME TypeInv, CallsInv, WorkingIsAlone', CountersOK', UNCHANGED <<calls, attempts>>,
         \A r \in Runs : \A t \in Tasks :
           t \in leased'[r] \/ job'[r][t] = "queued" => t \in leased[r] \/ job[r][t] = "queued"
  PROVE  CallsInv'
<1>1. ASSUME NEW t \in Tasks PROVE Paid(t)'
  <2> DEFINE E == Entitled(t)
             F == {r \in Runs : t \in leased'[r] \/ job'[r][t] = "queued"}
  <2>1. F \subseteq E
    BY DEF Entitled
  <2>2. IsFiniteSet(E)
    BY DEF CallsInv, Paid
  <2>3. IsFiniteSet(F) /\ Cardinality(F) <= Cardinality(E) /\ Cardinality(F) \in Nat
    BY <2>1, <2>2, FS_Subset, FS_CardinalityType
  <2>4. attempts[t] < AttemptBound => calls[t] + Cardinality(E) <= attempts[t]
    BY DEF CallsInv, Paid
  <2> HIDE DEF E, F
  <2>5. attempts[t] < AttemptBound => calls[t] + Cardinality(F) <= attempts[t]
    BY <2>3, <2>4, CallTypes DEF E
  <2>6. QED  BY <2>3, <2>5 DEF Paid, Entitled, F
<1>2. QED  BY <1>1 DEF CallsInv

\* The row is leased: an attempt is counted and the run is entitled to a call.
LEMMA CallsGrant ==
  ASSUME TypeInv, SidecarTypeOK, CallsInv, NEW r \in Runs, NEW t \in Tasks,
         PullGrant(r, t), UNCHANGED <<sidecarVars, faults, calls>>
  PROVE  CallsInv'
<1>1. CountersOK'
  BY DEF CallsInv, CountersOK
<1>2. WorkingIsAlone'
  BY FleetTypes DEF PullGrant, CallsInv, WorkingIsAlone, sidecarVars
<1>3. ASSUME NEW u \in Tasks \ {t} PROVE Paid(u)'
  <2>1. attempts'[u] = attempts[u] /\ UNCHANGED Entitled(u)
    BY FleetTypes DEF PullGrant, Entitled, sidecarVars, TypeInv, LeaseTypeOK, TableTypeOK
  <2>2. QED  BY <2>1 DEF Paid, CallsInv
<1>4. Paid(t)'
  <2> DEFINE E == Entitled(t)
             F == {g \in Runs : t \in leased'[g] \/ job'[g][t] = "queued"}
  <2>1. F = E \cup {r}
    BY FleetTypes DEF PullGrant, Entitled, sidecarVars
  <2>2. IsFiniteSet(E)
    BY DEF CallsInv, Paid
  <2>3. IsFiniteSet(F) /\ Cardinality(F) \in Nat /\ Cardinality(F) <= Cardinality(E) + 1
    <3>1. Cardinality(E) \in Nat
      BY <2>2, FS_CardinalityType
    <3>2. /\ IsFiniteSet(F)
          /\ Cardinality(F) = IF r \in E THEN Cardinality(E) ELSE Cardinality(E) + 1
      BY <2>1, <2>2, FS_AddElement
    <3> HIDE DEF E, F
    <3>3. QED  BY <3>1, <3>2
  <2>4. attempts[t] < AttemptBound => calls[t] + Cardinality(E) <= attempts[t]
    BY DEF CallsInv, Paid
  <2>5. attempts'[t] = NextAttempt(t)
    BY DEF PullGrant, TypeInv, LeaseTypeOK, TableTypeOK
  <2> HIDE DEF E, F
  <2>6. attempts'[t] < AttemptBound => calls[t] + Cardinality(F) <= attempts'[t]
    BY <2>3, <2>4, <2>5, CallTypes DEF NextAttempt, E
  <2>7. QED  BY <2>3, <2>6 DEF Paid, Entitled, F
<1>5. QED  BY <1>1, <1>2, <1>3, <1>4 DEF CallsInv

\* The call is made: the run has used its entitlement.
LEMMA CallsStart ==
  ASSUME TypeInv, SidecarTypeOK, CallsInv, NEW r \in Runs, NEW t \in Tasks,
         StartTask(r, t)
  PROVE  CallsInv'
<1>1. CountersOK'
  BY BoundConstants DEF StartTask, CallsInv, CountersOK
<1>2. WorkingIsAlone'
  BY DEF StartTask, Dispatch, CallsInv, WorkingIsAlone, leaseVars, pullVars
<1>3. ASSUME NEW u \in Tasks \ {t} PROVE Paid(u)'
  <2>1. calls'[u] = calls[u] /\ UNCHANGED Entitled(u) /\ UNCHANGED attempts
    BY FleetTypes
    DEF StartTask, Dispatch, Entitled, leaseVars, pullVars, tableVars, CallsInv, CountersOK
  <2>2. QED  BY <2>1 DEF Paid, CallsInv
<1>4. Paid(t)'
  <2> DEFINE E == Entitled(t)
             F == {g \in Runs : t \in leased'[g] \/ job'[g][t] = "queued"}
  <2>1. r \in E /\ leased[r] = {}
    BY FleetTypes DEF StartTask, Dispatch, Shifts, Queued, Entitled, CallsInv, WorkingIsAlone
  <2>2. F = E \ {r}
    BY <2>1, FleetTypes DEF StartTask, Dispatch, Entitled, leaseVars, pullVars
  <2>3. IsFiniteSet(E)
    BY DEF CallsInv, Paid
  <2>4. /\ IsFiniteSet(F)
        /\ Cardinality(F) \in Nat
        /\ Cardinality(F) = Cardinality(E) - 1
    BY <2>1, <2>2, <2>3, FS_RemoveElement, FS_CardinalityType
  <2>5. attempts[t] < AttemptBound => calls[t] + Cardinality(E) <= attempts[t]
    BY DEF CallsInv, Paid
  <2>6. UNCHANGED attempts /\ calls'[t] = IF calls[t] <= AttemptBound THEN calls[t] + 1 ELSE calls[t]
    BY DEF StartTask, leaseVars, tableVars, CallsInv, CountersOK
  <2> HIDE DEF E, F
  <2>7. attempts'[t] < AttemptBound => calls'[t] + Cardinality(F) <= attempts'[t]
    BY <2>4, <2>5, <2>6, CallTypes DEF E
  <2>8. QED  BY <2>4, <2>7 DEF Paid, Entitled, F
<1>5. QED  BY <1>1, <1>2, <1>3, <1>4 DEF CallsInv

LEMMA CallsPull ==
  ASSUME TypeInv, SidecarTypeOK, CallsInv, NEW r \in Runs, PullSteps(r),
         UNCHANGED <<sidecarVars, faults, calls>>
  PROVE  CallsInv'
<1>1. ASSUME NEW t \in Tasks, PullGrant(r, t) PROVE CallsInv'
  BY <1>1, CallsGrant
<1>2. CASE \A t \in Tasks : ~PullGrant(r, t)
  <2>1. UNCHANGED <<attempts, leased, job>>
    BY <1>2 DEF PullSteps, PullReclaim, PullSelect, PullClaim, PullSkip, tableVars, sidecarVars
  <2>2. WorkingIsAlone'
    BY <2>1, <1>2, FleetTypes
    DEF PullSteps, PullReclaim, PullSelect, PullClaim, PullSkip, CallsInv, WorkingIsAlone,
        sidecarVars
  <2>3. QED  BY <2>1, <2>2, CallsFrame DEF CallsInv, CountersOK
<1>3. QED  BY <1>1, <1>2

LEMMA CallsServer ==
  ASSUME TypeInv, SidecarTypeOK, CallsInv, ServerSteps,
         UNCHANGED <<sidecarVars, faults, calls>>
  PROVE  CallsInv'
<1>1. CASE \E h \in PullHandlers : PullSteps(h)
  BY <1>1, CallsPull, FleetTypes
<1>2. CASE UNCHANGED <<pullPc, leased, attempts>>
  BY <1>2, CallsFrame DEF CallsInv, CountersOK, WorkingIsAlone, sidecarVars
<1>3. CASE \E h \in AckHandlers : AckSteps(h)
  <2>1. UNCHANGED attempts
    BY <1>3 DEF AckSteps, AckRead, AckNotFound, AckWriteOk, AckWriteError, AckLog, AckFacts,
                AckProbeReset, AckProbeRead, AckProbeWrite, tableVars
  <2>2. QED  BY <1>2, <1>3, <2>1, AcksLeavePulls DEF pullVars
<1>4. CASE (\E t \in Tasks : CreateTask(t) \/ TaskExpires(t)) \/ Tick
  BY <1>2, <1>4 DEF CreateTask, TaskExpires, Tick, pullVars
<1>5. CASE FactsAge /\ UNCHANGED <<tableVars, leaseKey, pullVars, ackVars>>
  BY <1>2, <1>5 DEF tableVars, pullVars
<1>6. QED  BY <1>1, <1>3, <1>4, <1>5 DEF ServerSteps

LEMMA CallsScheduler ==
  ASSUME TypeInv, SidecarTypeOK, CallsInv, NEW r \in Runs,
         \/ Poll(r) \/ PullAnswered(r) \/ PullAnsweredLate(r)
         \/ PullBreaks(r) \/ PullTimesOut(r)
  PROVE  CallsInv'
<1>1. CountersOK' /\ UNCHANGED <<calls, attempts>>
  BY FleetConstants
  DEF Poll, PullArrive, PullAnswered, PullAnsweredLate, PullReply, PullBreaks, PullAbort,
      PullTimesOut, PullEnds, Fault, CallsInv, CountersOK, leaseVars, tableVars
<1>2. CASE Poll(r)
  BY <1>1, <1>2, CallsFrame, FleetTypes DEF Poll, StartRun, PullArrive, CallsInv, WorkingIsAlone
<1>3. CASE PullAnswered(r)
  <2>1. WorkingIsAlone'
    BY <1>3, FleetTypes DEF PullAnswered, PullReply, PullEnds, ReceiveTasks, CallsInv, WorkingIsAlone
  <2>2. QED
    BY <1>1, <1>3, <2>1, CallsFrame, FleetTypes DEF PullAnswered, PullReply, PullEnds, ReceiveTasks
<1>4. CASE PullAnsweredLate(r) \/ PullBreaks(r)
  <2>1. PullEnds(r) /\ UNCHANGED job /\ (UNCHANGED run \/ run' = [run EXCEPT ![r] = "idle"])
    BY <1>4 DEF PullAnsweredLate, PullBreaks, PullReply, PullAbort, PullFails, sidecarVars
  <2>2. WorkingIsAlone'
    BY <2>1, FleetTypes DEF PullEnds, CallsInv, WorkingIsAlone
  <2>3. QED
    BY <1>1, <2>1, <2>2, CallsFrame, FleetTypes DEF PullEnds
<1>5. CASE PullTimesOut(r)
  BY <1>1, <1>5, CallsFrame, FleetTypes
  DEF PullTimesOut, PullFails, leaseVars, pullVars, CallsInv, WorkingIsAlone
<1>6. QED  BY <1>2, <1>3, <1>4, <1>5

LEMMA CallsJobs ==
  ASSUME TypeInv, SidecarTypeOK, CallsInv, NEW r \in Runs, NEW t \in Tasks,
         \/ SkipTask(r, t) \/ TaskSucceeds(r, t) \/ TaskFails(r, t)
         \/ AckAnswered(r, t) \/ AckBreaks(r, t) \/ AckTimesOut(r, t)
  PROVE  CallsInv'
<1>1. CountersOK' /\ UNCHANGED calls
  <2>1. UNCHANGED calls /\ (UNCHANGED faults \/ Fault)
    BY DEF SkipTask, TaskSucceeds, TaskFails, AckAnswered, AckBreaks, AckTimesOut
  <2>2. QED  BY <2>1, FleetConstants DEF Fault, CallsInv, CountersOK
<1>2. UNCHANGED <<attempts, pullPc, leased>>
  BY DEF SkipTask, TaskSucceeds, TaskFails, Ack, AckArrive, AckAnswered, AckReply, AckBreaks,
         AckAbort, AckEnds, AckTimesOut, leaseVars, tableVars, pullVars
<1>3. \/ UNCHANGED <<run, job>>
      \/ UNCHANGED run /\ job' = [job EXCEPT ![r][t] = "acking"]
      \/ JobEnds(r, t)
  BY DEF SkipTask, SkipExecuted, TaskSucceeds, DispatchOk, TaskFails, DispatchFails,
         AckAnswered, AckBreaks, AckTimesOut, sidecarVars
<1>4. \A g \in Runs : run'[g] = "working" => run[g] = "working"
  BY <1>3, FleetTypes DEF JobEnds
<1>5. \A g \in Runs : \A u \in Tasks : job'[g][u] = "queued" => job[g][u] = "queued"
  <2>1. ASSUME NEW how \in {"acking", "none"}, job' = [job EXCEPT ![r][t] = how]
        PROVE  \A g \in Runs : \A u \in Tasks : job'[g][u] = "queued" => job[g][u] = "queued"
    BY <2>1, FleetTypes
  <2>2. QED  BY <1>3, <2>1 DEF JobEnds
<1>6. QED
  BY <1>1, <1>2, <1>4, <1>5, CallsFrame DEF CallsInv, WorkingIsAlone

LEMMA CallsStep ==
  ASSUME TypeInv, SidecarTypeOK, CallsInv, [FleetNext]_fleetVars
  PROVE  CallsInv'
<1>1. CASE UNCHANGED fleetVars
  BY <1>1, CallsFrame
  DEF fleetVars, leaseVars, tableVars, pullVars, sidecarVars, CallsInv, CountersOK, WorkingIsAlone
<1>2. ASSUME NEW i \in Instances, SidecarRestarts(i) PROVE CallsInv'
  <2>1. UNCHANGED <<calls, attempts, pullPc, leased>> /\ CountersOK'
    BY <1>2, FleetConstants
    DEF SidecarRestarts, Fault, leaseVars, tableVars, pullVars, CallsInv, CountersOK
  <2>2. QED
    BY <1>2, <2>1, CallsFrame, FleetTypes
    DEF SidecarRestarts, Restart, CallsInv, WorkingIsAlone
<1>3. QED
  BY <1>1, <1>2, CallsServer, CallsScheduler, CallsStart, CallsJobs DEF FleetNext

(* However leases, reclaims, lost answers and restarts follow one another, *)
(* a task is executed no more often than its attempts column says.         *)
THEOREM CallsArePaidFor == FleetSpec => []FleetInv
<1>1. FleetInit => CallsInv
  <2>1. ASSUME FleetInit, NEW t \in Tasks PROVE Paid(t)
    <3>1. Entitled(t) = {}
      BY <2>1, FleetConstants DEF FleetInit, LeaseInit, SidecarInit, Entitled
    <3>2. attempts[t] = 0 /\ calls[t] = 0
      BY <2>1 DEF FleetInit, LeaseInit
    <3>3. QED  BY <3>1, <3>2, FS_EmptySet DEF Paid
  <2>2. QED
    BY <2>1, FleetConstants, BoundConstants
    DEF FleetInit, SidecarInit, CallsInv, CountersOK, WorkingIsAlone
<1>2. (TypeInv /\ SidecarTypeOK) /\ CallsInv /\ [FleetNext]_fleetVars => CallsInv'
  BY CallsStep
<1>3. TypeInv /\ SidecarTypeOK /\ CallsInv => FleetInv
  <2>1. ASSUME TypeInv, SidecarTypeOK, CallsInv, NEW t \in Tasks, attempts[t] < AttemptBound
        PROVE  calls[t] <= attempts[t]
    BY <2>1, CallTypes DEF CallsInv, Paid
  <2>2. QED
    BY <2>1 DEF FleetInv, FleetTypeOK, TypeInv, CallsInv, CountersOK, CallsAreCounted
<1>4. QED  BY <1>1, <1>2, <1>3, FleetInductive, PTL DEF FleetSpec
=============================================================================
