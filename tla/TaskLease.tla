----------------------------- MODULE TaskLease -----------------------------
(***************************************************************************)
(* The control plane's task queue: the tasks table, the Redis lease keys   *)
(* and the handlers of POST /v1/tasks, /v1/tasks/pull and /v1/tasks/ack.   *)
(*                                                                         *)
(* A handler is a sequence of steps, one per awaited call that reads or    *)
(* writes shared state; any number of steps of other handlers may come     *)
(* between two of them.  A handler may also stop after any step: a         *)
(* database or Redis call throws and the request answers 500, or the       *)
(* process dies.                                                           *)
(*                                                                         *)
(* Time is counted down.  leaseKey[t] is what is left of the Redis key     *)
(* task:<t>:lease (0: no such key), lease[t] what is left of               *)
(* lease_expires_at (0: in the past, NoLease: null).  A tick takes one     *)
(* unit from both.                                                         *)
(*                                                                         *)
(* The clients are left open here: any instance may pull at any time and   *)
(* acknowledge any task with any outcome.  FleetTasks closes the system    *)
(* with the sidecars of the instances.                                     *)
(***************************************************************************)
EXTENDS InstanceFacts, FiniteSets

CONSTANTS
  NumTasks,         \* tasks 1 .. NumTasks, numbered in order of created_at
  ActionOf,         \* the action of each task
  Eligible,         \* the instances whose pull selects the task
  GroupTasks,       \* tasks with target_type 'group' (rows of older releases)
  SystemTasks,      \* the reconciler's probe tasks (task_origin 'system')
  Expiring,         \* tasks created with an expires_at
  ResultsOf,        \* the results the action of each task may return
  PullHandlers,     \* slots for concurrent pull requests
  AckHandlers,      \* slots for concurrent acknowledgements
  PullLimit,        \* "limit" of a pull request
  MaxAttempts,      \* MAX_ATTEMPTS
  AttemptBound,     \* attempts is counted up to this bound
  ProbeLeaseTtl, DefaultLeaseTtl, BundleLeaseTtl,
  MaxStall          \* ticks a pull handler may last

Tasks == 1 .. NumTasks

\* "agents.files" stands for the three interactive file actions,
\* "skills.install" also for skills.update, "agent.run" for all the others.
Actions == {"fleet.gateway.probe", "skills.status", "agents.files",
            "skills.install", "fleet.skill_bundle.install", "agent.run"}

NoLease == -1

IsProbeAction(a) == a \in {"fleet.gateway.probe", "skills.status"}

LeaseTtl(t) ==
  IF IsProbeAction(ActionOf[t]) THEN ProbeLeaseTtl
  ELSE IF ActionOf[t] = "fleet.skill_bundle.install" THEN BundleLeaseTtl
  ELSE DefaultLeaseTtl

ASSUME TaskConstants ==
  /\ NumTasks \in Nat \ {0}
  /\ Instances # {}
  /\ ActionOf \in [Tasks -> Actions]
  /\ Eligible \in [Tasks -> SUBSET Instances]
  /\ GroupTasks \subseteq Tasks
  /\ \A t \in Tasks \ GroupTasks : \E i \in Instances : Eligible[t] = {i}
  /\ SystemTasks \subseteq {t \in Tasks \ GroupTasks : IsProbeAction(ActionOf[t])}
  /\ Expiring \subseteq Tasks
  /\ ResultsOf \in [Tasks -> SUBSET AnyResult]
  /\ PullLimit \in Nat \ {0}
  /\ MaxAttempts \in Nat \ {0}

ASSUME BoundConstants ==
  /\ AttemptBound \in Nat
  /\ AttemptBound >= MaxAttempts

ASSUME LeaseConstants ==
  /\ ProbeLeaseTtl \in Nat \ {0}
  /\ DefaultLeaseTtl \in Nat \ {0}
  /\ BundleLeaseTtl \in Nat \ {0}
  /\ MaxStall \in Nat

VARIABLES
  status,           \* tasks.status, "absent" before the row is inserted
  attempts,         \* tasks.attempts
  lease,            \* tasks.lease_expires_at
  result,           \* tasks.result
  expired,          \* the tasks whose expires_at has passed
  taskAttempts,     \* rows of task_attempts
  leaseKey,         \* the Redis keys task:<t>:lease
  pullPc, puller, batch, leased, age,   \* each pull handler
  ackPc, ackMsg, seen, seenFailures,    \* each acknowledgement handler
  grant             \* history: what is left of the lease a pull handler won

tableVars == <<status, attempts, lease, result, expired, taskAttempts>>
pullVars == <<pullPc, puller, batch, leased, age, grant>>
ackVars == <<ackPc, ackMsg, seen, seenFailures>>
leaseVars == <<tableVars, leaseKey, pullVars, ackVars, factVars>>

Statuses == {"absent", "pending", "leased", "done", "failed"}
PullPcs == {"idle", "reclaim", "select", "claim", "grant"}
AckPcs == {"idle", "read", "write", "log", "facts", "probe", "bump", "reply"}

\* The acknowledging instance is only copied to an event, never compared.
AckMessages == [task : Tasks, ok : BOOLEAN, result : AnyResult]

AttemptRows == [task : Tasks, attempt : 0..AttemptBound, ok : BOOLEAN]

TableTypeOK ==
  /\ status \in [Tasks -> Statuses]
  /\ attempts \in [Tasks -> 0..AttemptBound]
  /\ \A t \in Tasks : lease[t] \in {NoLease} \cup 0..LeaseTtl(t)
  /\ lease \in [Tasks -> Int]
  /\ result \in [Tasks -> AnyResult]
  /\ expired \subseteq Tasks
  /\ taskAttempts \subseteq AttemptRows
  /\ leaseKey \in [Tasks -> Nat]
  /\ \A t \in Tasks : leaseKey[t] <= LeaseTtl(t)

PullTypeOK ==
  /\ pullPc \in [PullHandlers -> PullPcs]
  /\ puller \in [PullHandlers -> Instances]
  /\ batch \in [PullHandlers -> SUBSET Tasks]
  /\ leased \in [PullHandlers -> SUBSET Tasks]
  /\ age \in [PullHandlers -> 0..MaxStall]
  /\ grant \in [PullHandlers -> [Tasks -> Nat]]

AckTypeOK ==
  /\ ackPc \in [AckHandlers -> AckPcs]
  /\ ackMsg \in [AckHandlers -> AckMessages]
  /\ seen \in [AckHandlers -> 0..AttemptBound]
  /\ seenFailures \in [AckHandlers -> 0..FailureBound]

LeaseTypeOK == TableTypeOK /\ PullTypeOK /\ AckTypeOK /\ FactsTypeOK

\* The value of the slots' records before their first use.
SomeInstance == CHOOSE i \in Instances : TRUE
SomeMessage == CHOOSE m \in AckMessages : TRUE

LeaseInit ==
  /\ status = [t \in Tasks |-> "absent"]
  /\ attempts = [t \in Tasks |-> 0]
  /\ lease = [t \in Tasks |-> NoLease]
  /\ result = [t \in Tasks |-> NoResult]
  /\ expired = {}
  /\ taskAttempts = {}
  /\ leaseKey = [t \in Tasks |-> 0]
  /\ pullPc = [h \in PullHandlers |-> "idle"]
  /\ puller = [h \in PullHandlers |-> SomeInstance]
  /\ batch = [h \in PullHandlers |-> {}]
  /\ leased = [h \in PullHandlers |-> {}]
  /\ age = [h \in PullHandlers |-> 0]
  /\ grant = [h \in PullHandlers |-> [t \in Tasks |-> 0]]
  /\ ackPc = [h \in AckHandlers |-> "idle"]
  /\ ackMsg = [h \in AckHandlers |-> SomeMessage]
  /\ seen = [h \in AckHandlers |-> 0]
  /\ seenFailures = [h \in AckHandlers |-> 0]
  /\ FactsInit

-----------------------------------------------------------------------------
(* POST /v1/tasks and the passage of time.                                 *)

CreateTask(t) ==
  /\ status[t] = "absent"
  /\ \A u \in Tasks : u < t => status[u] # "absent"
  /\ status' = [status EXCEPT ![t] = "pending"]
  /\ UNCHANGED <<attempts, lease, result, expired, taskAttempts, leaseKey>>
  /\ UNCHANGED <<pullVars, ackVars, factVars>>

TaskExpires(t) ==
  /\ t \in Expiring \ expired
  /\ status[t] # "absent"
  /\ expired' = expired \cup {t}
  /\ UNCHANGED <<status, attempts, lease, result, taskAttempts, leaseKey>>
  /\ UNCHANGED <<pullVars, ackVars, factVars>>

CountDown(n) == IF n > 0 THEN n - 1 ELSE n

\* Redis lets go of the key when its PX time is over.
KeyLeft(t) == CountDown(leaseKey[t])

\* One unit of time: lease keys, lease_expires_at and the leases still held
\* run down, pull handlers grow older.  No handler outlives MaxStall ticks.
Tick ==
  /\ \E t \in Tasks : leaseKey[t] > 0 \/ lease[t] > 0
  /\ \A h \in PullHandlers : pullPc[h] # "idle" => age[h] < MaxStall
  /\ leaseKey' = [t \in Tasks |-> KeyLeft(t)]
  /\ lease' = [t \in Tasks |-> CountDown(lease[t])]
  /\ grant' = [h \in PullHandlers |-> [t \in Tasks |-> CountDown(grant[h][t])]]
  /\ age' = [h \in PullHandlers |->
               IF pullPc[h] # "idle" THEN age[h] + 1 ELSE age[h]]
  /\ UNCHANGED <<status, attempts, result, expired, taskAttempts>>
  /\ UNCHANGED <<pullPc, puller, batch, leased, ackVars, factVars>>

-----------------------------------------------------------------------------
(* POST /v1/tasks/pull.                                                    *)

PullArrive(h, i) ==
  /\ pullPc[h] = "idle"
  /\ pullPc' = [pullPc EXCEPT ![h] = "reclaim"]
  /\ puller' = [puller EXCEPT ![h] = i]
  /\ grant' = [grant EXCEPT ![h] = [t \in Tasks |-> 0]]
  /\ UNCHANGED <<batch, leased, age, tableVars, leaseKey, ackVars, factVars>>

\* Mutant: expired leases are not taken back.
NeverReclaimed(t) == FALSE

\* The lease column has run out, whatever became of the Redis key.
Reclaimable(t) == status[t] = "leased" /\ lease[t] = 0

PullReclaim(h) ==
  /\ pullPc[h] = "reclaim"
  /\ pullPc' = [pullPc EXCEPT ![h] = "select"]
  /\ status' = [t \in Tasks |-> IF Reclaimable(t) THEN "pending" ELSE status[t]]
  /\ lease' = [t \in Tasks |-> IF Reclaimable(t) THEN NoLease ELSE lease[t]]
  /\ UNCHANGED <<attempts, result, expired, taskAttempts, leaseKey>>
  /\ UNCHANGED <<puller, batch, leased, age, grant, ackVars, factVars>>

Candidates(i) ==
  {t \in Tasks : status[t] = "pending" /\ i \in Eligible[t] /\ t \notin expired}

\* order by created_at asc limit PullLimit
Oldest(S) == {t \in S : Cardinality({u \in S : u < t}) < PullLimit}

PullSelect(h) ==
  /\ pullPc[h] = "select"
  /\ pullPc' = [pullPc EXCEPT ![h] = "claim"]
  /\ batch' = [batch EXCEPT ![h] = Oldest(Candidates(puller[h]))]
  /\ UNCHANGED <<puller, leased, age, grant>>
  /\ UNCHANGED <<tableVars, leaseKey, ackVars, factVars>>

\* The row the loop is at.
IsNext(h, t) == t \in batch[h] /\ \A u \in batch[h] : t <= u

\* Mutant: the key is set whether it exists or not.
SetAlways(t) == TRUE

\* SET task:<t>:lease NX finds no key.
SetSucceeds(t) == leaseKey[t] = 0

\* The key is set; the row is written in a later step.
PullClaim(h, t) ==
  /\ pullPc[h] = "claim"
  /\ IsNext(h, t)
  /\ SetSucceeds(t)
  /\ leaseKey' = [leaseKey EXCEPT ![t] = LeaseTtl(t)]
  /\ grant' = [grant EXCEPT ![h][t] = LeaseTtl(t)]
  /\ pullPc' = [pullPc EXCEPT ![h] = "grant"]
  /\ UNCHANGED <<puller, batch, leased, age, tableVars, ackVars, factVars>>

\* The key exists: continue with the next row.
PullSkip(h, t) ==
  /\ pullPc[h] = "claim"
  /\ IsNext(h, t)
  /\ ~SetSucceeds(t)
  /\ batch' = [batch EXCEPT ![h] = @ \ {t}]
  /\ UNCHANGED <<pullPc, puller, leased, age, grant>>
  /\ UNCHANGED <<tableVars, leaseKey, ackVars, factVars>>

\* Mutant: lease_expires_at is computed before the Redis key is set.
LeaseFromBefore(t) == 0 .. leaseKey[t]

\* lease_expires_at was computed after the Redis key was set and before the
\* update arrives.
LeaseLeft(t) == leaseKey[t] .. LeaseTtl(t)

\* Mutant: only the first lease is counted.
FirstAttemptOnly(t) == 1

\* attempts + 1, up to the bound of the model.
NextAttempt(t) == IF attempts[t] < AttemptBound THEN attempts[t] + 1 ELSE attempts[t]

\* The update names the row by its id only: it applies whatever the row's
\* status has become.
PullGrant(h, t) ==
  /\ pullPc[h] = "grant"
  /\ IsNext(h, t)
  /\ \E left \in LeaseLeft(t) : lease' = [lease EXCEPT ![t] = left]
  /\ status' = [status EXCEPT ![t] = "leased"]
  /\ attempts' = [attempts EXCEPT ![t] = NextAttempt(t)]
  /\ batch' = [batch EXCEPT ![h] = @ \ {t}]
  /\ leased' = [leased EXCEPT ![h] = @ \cup {t}]
  /\ pullPc' = [pullPc EXCEPT ![h] = "claim"]
  /\ UNCHANGED <<result, expired, taskAttempts, leaseKey>>
  /\ UNCHANGED <<puller, age, grant, ackVars, factVars>>

\* The handler is over: its slot is free.
PullEnds(h) ==
  /\ pullPc' = [pullPc EXCEPT ![h] = "idle"]
  /\ batch' = [batch EXCEPT ![h] = {}]
  /\ leased' = [leased EXCEPT ![h] = {}]
  /\ age' = [age EXCEPT ![h] = 0]
  /\ UNCHANGED <<puller, grant, tableVars, leaseKey, ackVars, factVars>>

PullReply(h) ==
  /\ pullPc[h] = "claim"
  /\ batch[h] = {}
  /\ PullEnds(h)

\* The request never arrives, a call throws or the process dies: what was
\* leased so far stays leased, the client learns nothing of it.
PullAbort(h) ==
  /\ pullPc[h] # "idle"
  /\ PullEnds(h)

-----------------------------------------------------------------------------
(* POST /v1/tasks/ack.                                                     *)

AckArrive(h, m) ==
  /\ ackPc[h] = "idle"
  /\ ackPc' = [ackPc EXCEPT ![h] = "read"]
  /\ ackMsg' = [ackMsg EXCEPT ![h] = m]
  /\ UNCHANGED <<seen, seenFailures, tableVars, leaseKey, pullVars, factVars>>

\* The row's attempts is read here and used by the writes that follow.
AckRead(h) ==
  LET t == ackMsg[h].task IN
  /\ ackPc[h] = "read"
  /\ status[t] # "absent"
  /\ seen' = [seen EXCEPT ![h] = attempts[t]]
  /\ ackPc' = [ackPc EXCEPT ![h] = "write"]
  /\ UNCHANGED <<ackMsg, seenFailures, tableVars, leaseKey, pullVars, factVars>>

AckNotFound(h) ==
  /\ ackPc[h] = "read"
  /\ status[ackMsg[h].task] = "absent"
  /\ ackPc' = [ackPc EXCEPT ![h] = "reply"]
  /\ UNCHANGED <<ackMsg, seen, seenFailures>>
  /\ UNCHANGED <<tableVars, leaseKey, pullVars, factVars>>

FailsFast(t) == ActionOf[t] \in {"skills.status", "agents.files"}

\* Mutant: the row takes the status word of the acknowledgement.
StatusOfAck(t, attemptsRead) ==
  IF FailsFast(t) \/ attemptsRead >= MaxAttempts THEN "error" ELSE "pending"

\* Mutant: the attempt under way is counted twice.
FailsTooEarly(t, attemptsRead) ==
  IF FailsFast(t) \/ attemptsRead + 1 >= MaxAttempts THEN "failed" ELSE "pending"

StatusAfterError(t, attemptsRead) ==
  IF FailsFast(t) \/ attemptsRead >= MaxAttempts THEN "failed" ELSE "pending"

\* The update names the row by its id only, and leaves lease_expires_at and
\* the Redis key as they are.
AckWriteOk(h) ==
  LET m == ackMsg[h] IN
  /\ ackPc[h] = "write"
  /\ m.ok
  /\ status' = [status EXCEPT ![m.task] = "done"]
  /\ result' = [result EXCEPT ![m.task] = m.result]
  /\ ackPc' = [ackPc EXCEPT ![h] = "log"]
  /\ UNCHANGED <<attempts, lease, expired, taskAttempts, leaseKey>>
  /\ UNCHANGED <<ackMsg, seen, seenFailures, pullVars, factVars>>

AckWriteError(h) ==
  LET m == ackMsg[h] IN
  /\ ackPc[h] = "write"
  /\ ~m.ok
  /\ status' = [status EXCEPT ![m.task] = StatusAfterError(m.task, seen[h])]
  /\ ackPc' = [ackPc EXCEPT ![h] = "log"]
  /\ UNCHANGED <<attempts, lease, result, expired, taskAttempts, leaseKey>>
  /\ UNCHANGED <<ackMsg, seen, seenFailures, pullVars, factVars>>

ChangesSkills(t) ==
  ActionOf[t] \in {"skills.install", "fleet.skill_bundle.install"}

\* What the handler still has to do for instance-targeted tasks after its
\* task_attempts row.
StepAfterLog(m) ==
  IF m.task \in GroupTasks THEN "reply"
  ELSE IF m.ok /\ (IsProbeAction(ActionOf[m.task]) \/ ChangesSkills(m.task)) THEN "facts"
  ELSE IF ~m.ok /\ ActionOf[m.task] = "skills.status" THEN "probe"
  ELSE "reply"

\* Mutant: the row is numbered as the attempt to come.
NextAttemptRow(h) ==
  [task |-> ackMsg[h].task, attempt |-> seen[h] + 1, ok |-> ackMsg[h].ok]

AttemptRow(h) ==
  [task |-> ackMsg[h].task, attempt |-> seen[h], ok |-> ackMsg[h].ok]

AckLog(h) ==
  /\ ackPc[h] = "log"
  /\ taskAttempts' = taskAttempts \cup {AttemptRow(h)}
  /\ ackPc' = [ackPc EXCEPT ![h] = StepAfterLog(ackMsg[h])]
  /\ UNCHANGED <<status, attempts, lease, result, expired, leaseKey>>
  /\ UNCHANGED <<ackMsg, seen, seenFailures, pullVars, factVars>>

Target(t) == CHOOSE i \in Instances : Eligible[t] = {i}

\* Mutant: the result of any probe is taken for a snapshot.
AnySnapshot(t) == IsProbeAction(ActionOf[t])

BringsSnapshot(t) == ActionOf[t] = "skills.status"

AckFacts(h) ==
  LET m == ackMsg[h]
      a == ActionOf[m.task]
  IN
  /\ ackPc[h] = "facts"
  /\ \/ a = "fleet.gateway.probe" /\ WriteGatewayFact(Target(m.task), m.result)
     \/ BringsSnapshot(m.task) /\ WriteSnapshot(Target(m.task), m.result)
     \/ ChangesSkills(m.task) /\ InvalidateSnapshot(Target(m.task))
  /\ ackPc' = [ackPc EXCEPT ![h] = IF IsProbeAction(a) THEN "probe" ELSE "reply"]
  /\ UNCHANGED probeState
  /\ UNCHANGED <<ackMsg, seen, seenFailures, tableVars, leaseKey, pullVars>>

ProbeKindOf(t) ==
  IF ActionOf[t] = "fleet.gateway.probe" THEN "gateway" ELSE "skills"

ProbeSucceeded(m) ==
  m.ok /\ (ActionOf[m.task] = "fleet.gateway.probe" => m.result \in UpResults)

AckProbeReset(h) ==
  LET m == ackMsg[h] IN
  /\ ackPc[h] = "probe"
  /\ ProbeSucceeded(m)
  /\ ResetProbeState(Target(m.task), ProbeKindOf(m.task))
  /\ ackPc' = [ackPc EXCEPT ![h] = "reply"]
  /\ UNCHANGED <<facts, ackMsg, seen, seenFailures, tableVars, leaseKey, pullVars>>

\* bumpProbeFailure reads the count in one call and writes it in another.
AckProbeRead(h) ==
  LET m == ackMsg[h] IN
  /\ ackPc[h] = "probe"
  /\ ~ProbeSucceeded(m)
  /\ seenFailures' = [seenFailures EXCEPT ![h] =
       probeState[Target(m.task)][ProbeKindOf(m.task)].failures]
  /\ ackPc' = [ackPc EXCEPT ![h] = "bump"]
  /\ UNCHANGED <<ackMsg, seen, tableVars, leaseKey, pullVars, factVars>>

AckProbeWrite(h) ==
  LET m == ackMsg[h] IN
  /\ ackPc[h] = "bump"
  /\ WriteProbeFailure(Target(m.task), ProbeKindOf(m.task), seenFailures[h])
  /\ ackPc' = [ackPc EXCEPT ![h] = "reply"]
  /\ UNCHANGED <<facts, ackMsg, seen, seenFailures, tableVars, leaseKey, pullVars>>

AckEnds(h) ==
  /\ ackPc' = [ackPc EXCEPT ![h] = "idle"]
  /\ ackMsg' = [ackMsg EXCEPT ![h] = SomeMessage]
  /\ seen' = [seen EXCEPT ![h] = 0]
  /\ seenFailures' = [seenFailures EXCEPT ![h] = 0]
  /\ UNCHANGED <<tableVars, leaseKey, pullVars, factVars>>

AckReply(h) ==
  /\ ackPc[h] = "reply"
  /\ AckEnds(h)

\* The acknowledgement is lost on its way, a call throws or the process dies.
AckAbort(h) ==
  /\ ackPc[h] # "idle"
  /\ AckEnds(h)

-----------------------------------------------------------------------------
PullSteps(h) ==
  \/ PullReclaim(h)
  \/ PullSelect(h)
  \/ \E t \in Tasks : PullClaim(h, t) \/ PullSkip(h, t) \/ PullGrant(h, t)

AckSteps(h) ==
  \/ AckRead(h) \/ AckNotFound(h)
  \/ AckWriteOk(h) \/ AckWriteError(h) \/ AckLog(h)
  \/ AckFacts(h) \/ AckProbeReset(h) \/ AckProbeRead(h) \/ AckProbeWrite(h)

\* Steps that no client takes part in.
ServerSteps ==
  \/ \E t \in Tasks : CreateTask(t) \/ TaskExpires(t)
  \/ \E h \in PullHandlers : PullSteps(h)
  \/ \E h \in AckHandlers : AckSteps(h)
  \/ Tick
  \/ FactsAge /\ UNCHANGED <<tableVars, leaseKey, pullVars, ackVars>>

\* An authenticated client may report any outcome of any task.
ClientMessages ==
  {m \in AckMessages : m.result \in (IF m.ok THEN ResultsOf[m.task] \cup {NoResult}
                                             ELSE {NoResult})}

LeaseNext ==
  \/ ServerSteps
  \/ \E h \in PullHandlers, i \in Instances : PullArrive(h, i)
  \/ \E h \in PullHandlers : PullReply(h) \/ PullAbort(h)
  \/ \E h \in AckHandlers, m \in ClientMessages : AckArrive(h, m)
  \/ \E h \in AckHandlers : AckReply(h) \/ AckAbort(h)

LeaseSpec == LeaseInit /\ [][LeaseNext]_leaseVars

-----------------------------------------------------------------------------
(* Properties.                                                             *)

\* Handler h has set the Redis key of task t and not yet updated its row.
MidGrant(h, t) == pullPc[h] = "grant" /\ IsNext(h, t)

(* A lease is exclusive: of two pull requests that won the lease of the    *)
(* same task, at most one still has time left on it.  This is what the     *)
(* Redis SET NX before the row update is for (api.md, "Leases are recorded *)
(* in Redis"), whatever rows a handler read before.                        *)
ExclusiveLease ==
  \A h1, h2 \in PullHandlers : \A t \in Tasks :
    grant[h1][t] > 0 /\ grant[h2][t] > 0 => h1 = h2

(* A leased row always has a lease_expires_at, and unless a handler is     *)
(* just renewing the key, that time is not before the key's own end: a     *)
(* reclaimed task (the update at the head of the pull handler) can be      *)
(* leased again at once, it does not wait for a forgotten key.             *)
LeaseOutlivesKey ==
  \A t \in Tasks : status[t] = "leased" =>
    /\ lease[t] # NoLease
    /\ (\A h \in PullHandlers : ~MidGrant(h, t)) => leaseKey[t] <= lease[t]

(* The row update of a pull never lands on a row that is leased to another *)
(* request, although candidate rows are read long before: a handler that   *)
(* is shorter than half a lease is protected by the Redis key.             *)
NoDoubleLease ==
  \A h \in PullHandlers : \A t \in Tasks : MidGrant(h, t) => status[t] # "leased"

(* A task fails for good only after MAX_ATTEMPTS leases, or at once for    *)
(* the actions that fail fast, although the handler decides on a count it  *)
(* read before other handlers changed the row.                             *)
FailedIsEarned ==
  \A t \in Tasks :
    status[t] = "failed" => FailsFast(t) \/ attempts[t] >= MaxAttempts

(* No task_attempts row is numbered beyond the leases of its task: attempts *)
(* is counted by the pull only and never goes down (api.md, "attempts is   *)
(* incremented on lease").                                                 *)
AttemptRowsCounted ==
  \A row \in taskAttempts : row.attempt <= attempts[row.task]

(* What always holds of the tables: types, and rows that are paid for.     *)
LeaseInv == LeaseTypeOK /\ AttemptRowsCounted

-----------------------------------------------------------------------------
(* What the queue is to the campaign reconciler.                           *)

\* The tasks that ensureProbeTaskScheduled looks for before it inserts one.
OpenProbes(i, k) ==
  {t \in SystemTasks :
     Target(t) = i /\ ProbeKindOf(t) = k /\ status[t] \in {"pending", "leased"}}

ProbeCount ==
  [i \in Instances |-> [k \in ProbeKinds |-> Cardinality(OpenProbes(i, k))]]

ProbesOfKind(k) ==
  {t \in Tasks \ GroupTasks : IsProbeAction(ActionOf[t]) /\ ProbeKindOf(t) = k}

ResultsOfKind ==
  [k \in ProbeKinds |-> UNION {ResultsOf[t] \cup {NoResult} : t \in ProbesOfKind(k)}]

Feed == INSTANCE ProbeFeed WITH ProbeResults <- ResultsOfKind, probes <- ProbeCount

(* Whatever clients pull and acknowledge, in whatever order the steps of   *)
(* the handlers come: the facts and the probe states change as the         *)
(* reconciler's model lets them change, by values that a probe of that     *)
(* kind returns, and probe tasks settle or are opened again one at a time. *)
FeedsReconciler == Feed!FeedSpec
=============================================================================
