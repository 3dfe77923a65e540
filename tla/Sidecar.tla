------------------------------ MODULE Sidecar ------------------------------
(***************************************************************************)
(* The sidecar of an instance: the scheduler's timer-driven runs and the   *)
(* task executor.                                                          *)
(*                                                                         *)
(* The timer starts a run at every tick, whether or not earlier runs are   *)
(* over; the set of runs of an instance is the number of runs that may     *)
(* overlap.  A run pulls a batch, works on at most Concurrency of its      *)
(* tasks at a time and acknowledges each.  The executor's record of        *)
(* executed tasks lives in memory: it is loaded from the state file at     *)
(* start and never written back.                                           *)
(*                                                                         *)
(* The actions describe the sidecar's part of a step; FleetTasks joins     *)
(* them with the control plane's.                                          *)
(***************************************************************************)
EXTENDS Integers, FiniteSets

CONSTANTS
  Runs,           \* slots for the runs of all schedulers
  Host,           \* the instance each run belongs to
  Sites,          \* the instances
  Jobs,           \* tasks a run may receive, ordered as in a pull's answer
  Concurrency     \* "concurrency" of the sidecar configuration

ASSUME SidecarConstants ==
  /\ Host \in [Runs -> Sites]
  /\ Jobs \subseteq Int
  /\ Concurrency \in Nat \ {0}

VARIABLES
  run,            \* what each run waits for
  job,            \* the state of each task within a run
  executed,       \* state.executed of each executor
  completed       \* history: tasks whose provider call returned to an executor

sidecarVars == <<run, job, executed, completed>>

RunStates == {"idle", "pulling", "working"}
JobStates == {"none", "queued", "dispatched", "acking"}

SidecarTypeOK ==
  /\ run \in [Runs -> RunStates]
  /\ job \in [Runs -> [Jobs -> JobStates]]
  /\ executed \in [Sites -> SUBSET Jobs]
  /\ completed \in [Sites -> SUBSET Jobs]

SidecarInit ==
  /\ run = [r \in Runs |-> "idle"]
  /\ job = [r \in Runs |-> [t \in Jobs |-> "none"]]
  /\ executed = [i \in Sites |-> {}]
  /\ completed = [i \in Sites |-> {}]

-----------------------------------------------------------------------------
\* A timer tick whose heartbeat succeeds; a run whose heartbeat fails does
\* nothing further.
StartRun(r) ==
  /\ run[r] = "idle"
  /\ run' = [run EXCEPT ![r] = "pulling"]
  /\ UNCHANGED <<job, executed, completed>>

\* The answer of the pull: nothing to do, or a queue.
ReceiveTasks(r, tasks) ==
  /\ run[r] = "pulling"
  /\ run' = [run EXCEPT ![r] = IF tasks = {} THEN "idle" ELSE "working"]
  /\ job' = [job EXCEPT ![r] =
               [t \in Jobs |-> IF t \in tasks THEN "queued" ELSE "none"]]
  /\ UNCHANGED <<executed, completed>>

PullFails(r) ==
  /\ run[r] = "pulling"
  /\ run' = [run EXCEPT ![r] = "idle"]
  /\ UNCHANGED <<job, executed, completed>>

Queued(r) == {t \in Jobs : job[r][t] = "queued"}
Working(r) == {t \in Jobs : job[r][t] \in {"dispatched", "acking"}}

\* runWithLimit: a free worker shifts the head of the queue.
Shifts(r, t) ==
  /\ run[r] = "working"
  /\ t \in Queued(r)
  /\ \A u \in Queued(r) : t <= u
  /\ Cardinality(Working(r)) < Concurrency

\* The executor does not know the task: it calls the provider.
Dispatch(r, t) ==
  /\ Shifts(r, t)
  /\ t \notin executed[Host[r]]
  /\ job' = [job EXCEPT ![r][t] = "dispatched"]
  /\ UNCHANGED <<run, executed, completed>>

\* The executor has executed the task before: it is acknowledged as ok,
\* without a result.
SkipExecuted(r, t) ==
  /\ Shifts(r, t)
  /\ t \in executed[Host[r]]
  /\ job' = [job EXCEPT ![r][t] = "acking"]
  /\ UNCHANGED <<run, executed, completed>>

\* The provider call returns.
DispatchOk(r, t) ==
  /\ job[r][t] = "dispatched"
  /\ executed' = [executed EXCEPT ![Host[r]] = @ \cup {t}]
  /\ completed' = [completed EXCEPT ![Host[r]] = @ \cup {t}]
  /\ job' = [job EXCEPT ![r][t] = "acking"]
  /\ UNCHANGED run

\* Mutant: the executor records the task although its call has failed.
FailureRecorded(r, t) ==
  /\ job[r][t] = "dispatched"
  /\ executed' = [executed EXCEPT ![Host[r]] = @ \cup {t}]
  /\ job' = [job EXCEPT ![r][t] = "acking"]
  /\ UNCHANGED <<run, completed>>

\* The provider call throws.
DispatchFails(r, t) ==
  /\ job[r][t] = "dispatched"
  /\ job' = [job EXCEPT ![r][t] = "acking"]
  /\ UNCHANGED <<run, executed, completed>>

\* The acknowledgement is answered or has failed, which is only logged; the
\* run is over with its last task.
JobEnds(r, t) ==
  /\ job[r][t] = "acking"
  /\ job' = [job EXCEPT ![r][t] = "none"]
  /\ run' = [run EXCEPT ![r] =
               IF \A u \in Jobs \ {t} : job[r][u] = "none" THEN "idle" ELSE @]
  /\ UNCHANGED <<executed, completed>>

\* The process dies and is started again with what the state file holds, in
\* which no executed task was ever saved.  Provider calls in progress are
\* answered to nobody.
Restart(i) ==
  /\ run' = [r \in Runs |-> IF Host[r] = i THEN "idle" ELSE run[r]]
  /\ job' = [r \in Runs |-> IF Host[r] = i THEN [t \in Jobs |-> "none"] ELSE job[r]]
  /\ executed' = [executed EXCEPT ![i] = {}]
  /\ UNCHANGED completed
=============================================================================
