------------------------------ MODULE TaskTable ------------------------------
(***************************************************************************)
(* The tables tasks and events as the console's pages read them.  Of what  *)
(* happens to a task (TaskLease has it in full) there is here what these   *)
(* pages tell apart: its status and the events it causes.  A status is not *)
(* for ever: pulls and acknowledgements name the row by its id only, and   *)
(* late ones open a task again that had ended.                             *)
(***************************************************************************)
EXTENDS Naturals, Sequences, FiniteSets

CONSTANTS
  Kinds,          \* what q, action, origin, instance and campaign tell apart
  Old,            \* number of tasks done at the start
  OldKind,
  MaxTasks        \* bound

Status == {"pending", "leased", "done", "failed"}
EventType == {"exec.queued", "exec.started", "exec.finished"}

ASSUME TaskTableAssumption == 
  /\ MaxTasks \in Nat \ {0} /\ Old \in 0..MaxTasks /\ OldKind \in Kinds

VARIABLES
  tasks,          \* the table tasks, in the order of creation; with deliveries not
                  \* yet acknowledged, whether a pull may have selected the row since
                  \* it was leased last, and (history) whether it changed after its end
  log             \* the table events

serverTables == <<tasks, log>>

TaskRow ==
  [kind : Kinds, status : Status, unanswered : Nat,
   offered : BOOLEAN, moved : BOOLEAN]
LogEntry == [task : 1..MaxTasks, type : EventType]

\* Each of the tasks at the start has caused its three events.  It had been taken
\* back, and perhaps selected again, before its acknowledgement came.
OldEvent(n) ==
  [task |-> (n + 2) \div 3,
   type |-> IF n % 3 = 1 THEN "exec.queued" ELSE IF n % 3 = 2 THEN "exec.started" ELSE "exec.finished"]
TableInit ==
  /\ tasks = [t \in 1..Old |-> [kind |-> OldKind, status |-> "done", unanswered |-> 0,
                              offered |-> TRUE, moved |-> FALSE]]
  /\ log = [n \in 1..(3 * Old) |-> OldEvent(n)]

NewTask(k) ==
  [kind |-> k, status |-> "pending", unanswered |-> 0, offered |-> TRUE, moved |-> FALSE]
Write(t, type) == log' = Append(log, [task |-> t, type |-> type])

Insert(k) ==
  /\ Len(tasks) < MaxTasks
  /\ tasks' = Append(tasks, NewTask(k)) /\ Write(Len(tasks) + 1, "exec.queued")

Settled(t) == tasks[t].status \in {"done", "failed"}

\* The row is updated by its id.  It was pending when the pull selected it; a late
\* acknowledgement may have come since.
PullTask(t) ==
  /\ tasks[t].offered
  /\ tasks' = [tasks EXCEPT ![t].status = "leased", ![t].unanswered = @ + 1, ![t].offered = FALSE,
                            ![t].moved = @ \/ Settled(t)]
  /\ Write(t, "exec.started")

\* The lease has run out; no event is written.
TakeBack(t) ==
  /\ tasks[t].status = "leased"
  /\ tasks' = [tasks EXCEPT ![t].status = "pending", ![t].offered = TRUE]
  /\ UNCHANGED log

\* Each delivery is acknowledged once at most, at any time after it.
Acknowledge(t, s) ==
  /\ tasks[t].unanswered > 0 /\ s # "leased"
  /\ tasks' = [tasks EXCEPT ![t].status = s, ![t].unanswered = @ - 1,
                            ![t].offered = @ \/ s = "pending",
                            ![t].moved = @ \/ (Settled(t) /\ tasks[t].status # s)]
  /\ Write(t, "exec.finished")

\* What sidecars and other clients do; the queue as long as the log is short.
Elsewhere(maxLog) ==
  \/ \E k \in Kinds : Insert(k)
  \/ /\ Len(log) < maxLog
     /\ \E t \in DOMAIN tasks :
          PullTask(t) \/ TakeBack(t) \/ \E s \in Status : Acknowledge(t, s)
=============================================================================
