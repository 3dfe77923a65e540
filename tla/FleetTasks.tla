----------------------------- MODULE FleetTasks -----------------------------
(***************************************************************************)
(* The whole life of a task: the control plane's queue (TaskLease) and the *)
(* sidecars of the instances (Sidecar), joined by HTTP requests that may   *)
(* be lost on the way there or on the way back.                            *)
(*                                                                         *)
(* The pull handler of slot r serves the pull of run r, the acknowledgement *)
(* handler of slot <<r, t>> the acknowledgement run r sends for task t.  A *)
(* client that stops waiting leaves its handler running.                   *)
(***************************************************************************)
EXTENDS TaskLease, Sidecar

CONSTANT MaxFaults   \* lost messages, broken requests and crashes, in all

ASSUME FleetConstants ==
  /\ PullHandlers = Runs
  /\ AckHandlers = Runs \X Tasks
  /\ Sites = Instances
  /\ Jobs = Tasks
  /\ MaxFaults \in Nat

\* The result of skills.status is the set of skill changes it reports.
ASSUME SkillResults ==
  \A t \in Tasks : ActionOf[t] = "skills.status" =>
    ResultsOf[t] = SUBSET {u \in Tasks : ChangesSkills(u)}

VARIABLES
  faults,            \* faults so far
  calls              \* history: provider calls made for each task

fleetVars == <<leaseVars, sidecarVars, faults, calls>>

FleetTypeOK ==
  /\ LeaseTypeOK
  /\ SidecarTypeOK
  /\ faults \in 0..MaxFaults
  /\ calls \in [Tasks -> 0 .. AttemptBound + 1]

FleetInit ==
  /\ LeaseInit
  /\ SidecarInit
  /\ faults = 0
  /\ calls = [t \in Tasks |-> 0]

Fault == faults < MaxFaults /\ faults' = faults + 1

-----------------------------------------------------------------------------
(* The scheduler's pull.                                                   *)

Poll(r) ==
  /\ StartRun(r)
  /\ PullArrive(r, Host[r])
  /\ UNCHANGED <<faults, calls>>

PullAnswered(r) ==
  /\ PullReply(r)
  /\ ReceiveTasks(r, leased[r])
  /\ UNCHANGED <<faults, calls>>

\* The client has stopped waiting, the answer goes nowhere.
PullAnsweredLate(r) ==
  /\ PullReply(r)
  /\ run[r] # "pulling"
  /\ UNCHANGED <<sidecarVars, faults, calls>>

\* The request is lost or answered with an error.
PullBreaks(r) ==
  /\ PullAbort(r)
  /\ \/ PullFails(r)
     \/ run[r] # "pulling" /\ UNCHANGED sidecarVars
  /\ Fault
  /\ UNCHANGED calls

\* The answer is lost or the client times out; the handler runs on.
PullTimesOut(r) ==
  /\ PullFails(r)
  /\ Fault
  /\ UNCHANGED <<leaseVars, calls>>

-----------------------------------------------------------------------------
(* The executor and the acknowledgement of each task.                      *)

Ack(r, t, ok, res) ==
  AckArrive(<<r, t>>, [task |-> t, ok |-> ok, result |-> res])

StartTask(r, t) ==
  /\ Dispatch(r, t)
  /\ calls' = [calls EXCEPT ![t] = IF @ <= AttemptBound THEN @ + 1 ELSE @]
  /\ UNCHANGED <<leaseVars, faults>>

SkipTask(r, t) ==
  /\ SkipExecuted(r, t)
  /\ Ack(r, t, TRUE, NoResult)
  /\ UNCHANGED <<faults, calls>>

\* What the provider of run r answers to the call for task t: skills.status
\* answers with the skill changes it has completed so far.
InstalledSkills(i) == {t \in completed[i] : ChangesSkills(t)}

Answers(r, t) ==
  IF ActionOf[t] = "skills.status" THEN {InstalledSkills(Host[r])} ELSE ResultsOf[t]

TaskSucceeds(r, t) ==
  /\ DispatchOk(r, t)
  /\ \E res \in Answers(r, t) : Ack(r, t, TRUE, res)
  /\ UNCHANGED <<faults, calls>>

TaskFails(r, t) ==
  /\ DispatchFails(r, t)
  /\ Ack(r, t, FALSE, NoResult)
  /\ UNCHANGED <<faults, calls>>

AckAnswered(r, t) ==
  /\ AckReply(<<r, t>>)
  /\ \/ JobEnds(r, t)
     \/ job[r][t] # "acking" /\ UNCHANGED sidecarVars
  /\ UNCHANGED <<faults, calls>>

AckBreaks(r, t) ==
  /\ AckAbort(<<r, t>>)
  /\ \/ JobEnds(r, t)
     \/ job[r][t] # "acking" /\ UNCHANGED sidecarVars
  /\ Fault
  /\ UNCHANGED calls

AckTimesOut(r, t) ==
  /\ JobEnds(r, t)
  /\ Fault
  /\ UNCHANGED <<leaseVars, calls>>

-----------------------------------------------------------------------------
SidecarRestarts(i) ==
  /\ Restart(i)
  /\ \E r \in Runs : Host[r] = i
  /\ Fault
  /\ UNCHANGED <<leaseVars, calls>>

FleetNext ==
  \/ ServerSteps /\ UNCHANGED <<sidecarVars, faults, calls>>
  \/ \E r \in Runs :
       \/ Poll(r) \/ PullAnswered(r) \/ PullAnsweredLate(r)
       \/ PullBreaks(r) \/ PullTimesOut(r)
       \/ \E t \in Tasks :
            \/ StartTask(r, t) \/ SkipTask(r, t)
            \/ TaskSucceeds(r, t) \/ TaskFails(r, t)
            \/ AckAnswered(r, t) \/ AckBreaks(r, t) \/ AckTimesOut(r, t)
  \/ \E i \in Instances : SidecarRestarts(i)

FleetSpec == FleetInit /\ [][FleetNext]_fleetVars

(***************************************************************************)
(* Fairness: timers fire, every handler that is not broken off makes its   *)
(* next step, every provider call returns or throws, every worker that is  *)
(* not answered sees its answer, and time passes.  An agent.run whose      *)
(* payload gives no positive timeoutMs arms no timer at the gateway client *)
(* and need not return (GatewayClient): such tasks are excluded here.      *)
(***************************************************************************)
Fairness ==
  /\ WF_fleetVars(Tick /\ UNCHANGED <<sidecarVars, faults, calls>>)
  /\ \A r \in Runs :
       /\ WF_fleetVars(Poll(r))
       /\ WF_fleetVars(PullSteps(r) /\ UNCHANGED <<sidecarVars, faults, calls>>)
       /\ WF_fleetVars(PullAnswered(r) \/ PullAnsweredLate(r))
       /\ \A t \in Tasks :
            /\ WF_fleetVars(StartTask(r, t) \/ SkipTask(r, t))
            /\ WF_fleetVars(TaskSucceeds(r, t) \/ TaskFails(r, t))
            /\ WF_fleetVars(AckSteps(<<r, t>>) /\ UNCHANGED <<sidecarVars, faults, calls>>)
            /\ WF_fleetVars(AckAnswered(r, t))

FairFleetSpec == FleetSpec /\ Fairness

-----------------------------------------------------------------------------
(* Properties.                                                             *)

(* A task is done only after the provider of one of its instances has      *)
(* completed it: neither a lost answer, a repeated delivery nor the        *)
(* executor's skip of executed tasks acknowledges work nobody did.         *)
DoneIsExecuted ==
  \A t \in Tasks :
    status[t] = "done" => \E i \in Eligible[t] : t \in completed[i]

(* Every provider call is paid for with an attempt: however leases,        *)
(* reclaims, lost answers and restarts follow one another, no task is      *)
(* executed more often than its attempts column says (api.md, "attempts is *)
(* incremented on lease"); the column is the one thing that bounds how     *)
(* often a task's side effects happen.                                     *)
CallsAreCounted ==
  \A t \in Tasks : attempts[t] < AttemptBound => calls[t] <= attempts[t]

(* Every task comes to rest, done or failed for good after finitely many   *)
(* leases, whatever was lost: it never waits for good behind a forgotten   *)
(* lease or behind other tasks.  Runs of a sidecar must not overlap for    *)
(* this: an acknowledgement that arrives between another run's claim and   *)
(* its row update leaves a settled task leased again, in every lease.      *)
ComesToRest ==
  \A t \in Tasks :
    <>[](status[t] \in {"absent", "done", "failed"} \/ t \in expired)

(* What a fleet always satisfies besides DoneIsExecuted: types, and calls  *)
(* that are paid for.                                                      *)
FleetInv == FleetTypeOK /\ CallsAreCounted
=============================================================================
