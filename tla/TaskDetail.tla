----------------------------- MODULE TaskDetail -----------------------------
(***************************************************************************)
(* The console's page of one task (ui/src/pages/TaskDetail.tsx).  It reads *)
(* the task when it is mounted or is given another task, and again after   *)
(* a timeout as long as the row it shows has not ended.  Answers arrive in *)
(* any order; those of the timeout are shown whatever task the page has    *)
(* got since.                                                              *)
(***************************************************************************)
EXTENDS TaskTable

CONSTANTS
  NoTask,
  MaxTaskLog, MaxSteps, MaxFailures, MaxLoads, MaxVisits
                  \* bounds: events until the queue rests, what the operator does,
                  \* failed requests, reads under way, and tasks the page gets
                  \* while it is mounted

ASSUME TaskDetailAssumption ==
  /\ MaxTaskLog \in Nat /\ MaxSteps \in Nat /\ MaxFailures \in Nat /\ MaxLoads \in Nat /\ MaxVisits \in Nat
  /\ NoTask \notin 1..MaxTasks

VARIABLES
  route,          \* taskId, by the hash of the window; NoTask: another page
  shownTask,      \* the row shown: its task and status
  timers,         \* timeouts set
  loads,          \* reads under way
  retrying,       \* the kind of the task handleRetry creates
  spoiled,        \* history: a read for this task failed, or another task's came
  visits,         \* history: tasks the page has got since it was mounted
  steps, failures

pageOfTask == <<route, shownTask, timers, loads, spoiled, visits>>
taskDetailVars == <<serverTables, pageOfTask, retrying, steps, failures>>

NoRow == [of |-> NoTask, status |-> "pending"]
LoadType == [of : 1..MaxTasks, by : {"mount", "gone", "timer"}, slot : 1..MaxLoads,
             status : Status \cup {"unread"}]

TaskDetailTypeOK ==
  /\ tasks \in Seq(TaskRow) /\ Len(tasks) <= MaxTasks
  /\ route \in DOMAIN tasks \cup {NoTask}
  /\ shownTask \in [of : DOMAIN tasks \cup {NoTask}, status : Status]
  /\ timers \in Nat /\ loads \subseteq LoadType
  /\ \A l, m \in loads : l.slot = m.slot => l = m
  /\ retrying \in Kinds \cup {NoTask}
  /\ spoiled \in BOOLEAN /\ visits \in 0..MaxVisits
  /\ route = NoTask => (loads = {} /\ timers = 0 /\ shownTask = NoRow)

FreeSlots == {n \in 1..MaxLoads : \A l \in loads : l.slot # n}
Load(t, how) == [of |-> t, by |-> how, slot |-> CHOOSE n \in FreeSlots : TRUE, status |-> "unread"]

\* The effect with the timeout: its cleanup, and its next run for the row it sees.
EndsEarly(row) == row.of # NoTask /\ row.status \in {"leased", "done", "failed"}
Ended(row) == row.of # NoTask /\ row.status \in {"done", "failed"}
Rearm(row) == IF Ended(row) THEN 0 ELSE 1

\* The page is mounted, or gets another task.
Visit(t) ==
  /\ visits < MaxVisits /\ FreeSlots # {} /\ t # route
  /\ route' = t
  /\ visits' = visits + 1 /\ spoiled' = FALSE
  /\ loads' = {IF l.by = "mount" THEN [l EXCEPT !.by = "gone"] ELSE l : l \in loads}
              \cup {Load(t, "mount")}
  /\ timers' = Rearm(shownTask)
  /\ UNCHANGED shownTask

(***************************************************************************)
(* The operator.                                                           *)
(***************************************************************************)

Step == steps < MaxSteps /\ steps' = steps + 1

\* A row of the list, a link or the history of the window.
GoTo(t) ==
  /\ Step /\ t \in DOMAIN tasks /\ Visit(t)
  /\ UNCHANGED <<serverTables, retrying, failures>>

GoAwayOnly ==
  /\ Step /\ route # NoTask /\ route' = NoTask
  /\ shownTask' = NoRow /\ loads' = {} /\ spoiled' = FALSE /\ visits' = 0
  /\ UNCHANGED <<serverTables, timers, retrying, failures>>
\* Any other page.
GoAway ==
  /\ Step /\ route # NoTask /\ route' = NoTask
  /\ shownTask' = NoRow /\ timers' = 0 /\ loads' = {} /\ spoiled' = FALSE /\ visits' = 0
  /\ UNCHANGED <<serverTables, retrying, failures>>

\* handleRetry repeats the row that is shown.
Retry ==
  /\ Step /\ shownTask.of # NoTask /\ retrying = NoTask
  /\ retrying' = tasks[shownTask.of].kind
  /\ UNCHANGED <<serverTables, pageOfTask, failures>>

(***************************************************************************)
(* The timeout and the answers.                                            *)
(***************************************************************************)

PollAtIntervals ==
  /\ timers > 0 /\ FreeSlots # {}
  /\ loads' = loads \cup {Load(route, "timer")}
  /\ UNCHANGED <<serverTables, route, shownTask, timers, spoiled, visits, retrying, steps, failures>>
PollTask ==
  /\ timers > 0 /\ FreeSlots # {}
  /\ timers' = timers - 1
  /\ loads' = loads \cup {Load(route, "timer")}
  /\ UNCHANGED <<serverTables, route, shownTask, spoiled, visits, retrying, steps, failures>>

\* Of the requests of a read the one for the row counts.
ServeLoad(l) ==
  /\ l.status = "unread"
  /\ loads' = (loads \ {l}) \cup {[l EXCEPT !.status = tasks[l.of].status]}
  /\ UNCHANGED <<serverTables, route, shownTask, timers, spoiled, visits, retrying, steps, failures>>

ShowTask(l) ==
  /\ l.status # "unread"
  /\ loads' = loads \ {l}
  /\ IF l.by = "gone" THEN UNCHANGED <<shownTask, timers, spoiled>>
     ELSE /\ shownTask' = [of |-> l.of, status |-> l.status]
          /\ timers' = Rearm(shownTask')
          /\ spoiled' = (spoiled \/ l.of # route)
  /\ UNCHANGED <<serverTables, route, visits, retrying, steps, failures>>

\* Only an answer sets the timeout again.
LoadFails(l) ==
  /\ failures < MaxFailures /\ failures' = failures + 1
  /\ loads' = loads \ {l}
  /\ spoiled' = (spoiled \/ (l.by # "gone" /\ l.of = route))
  /\ UNCHANGED <<serverTables, route, shownTask, timers, visits, retrying, steps>>

\* createTask answers: the window goes to the new task wherever it is.
Retried ==
  /\ retrying # NoTask /\ retrying' = NoTask
  /\ Insert(retrying) /\ Visit(Len(tasks) + 1)
  /\ UNCHANGED <<steps, failures>>
RetryFails ==
  /\ retrying # NoTask /\ retrying' = NoTask
  /\ failures < MaxFailures /\ failures' = failures + 1
  /\ Insert(retrying) \/ UNCHANGED serverTables
  /\ UNCHANGED <<pageOfTask, steps>>

TaskDetailInit ==
  /\ TableInit
  /\ route = NoTask /\ shownTask = NoRow /\ timers = 0 /\ loads = {}
  /\ retrying = NoTask /\ spoiled = FALSE /\ visits = 0
  /\ steps = 0 /\ failures = 0

Stepping == (\E t \in 1..MaxTasks : GoTo(t)) \/ GoAway \/ Retry

\* The timeout and the answers.
Following == PollTask \/ \E l \in loads : ServeLoad(l) \/ ShowTask(l)

TaskDetailNext ==
  \/ Stepping \/ Following \/ Retried \/ RetryFails
  \/ \E l \in loads : LoadFails(l)
  \/ Elsewhere(MaxTaskLog) /\ UNCHANGED <<pageOfTask, retrying, steps, failures>>

TaskDetailSpec == TaskDetailInit /\ [][TaskDetailNext]_taskDetailVars
FairTaskDetail == TaskDetailSpec /\ WF_taskDetailVars(Following)

(***************************************************************************)
(* Properties.                                                             *)
(***************************************************************************)

\* However often the page gets another task and in whatever order answers come,
\* each task adds at most two reads or timeouts.
PollingDoesNotGrow ==
  timers + Cardinality({l \in loads : l.by # "gone"}) <= 2 * visits

\* The page's state has its types, and its polling is bounded.
TaskDetailInv == TaskDetailTypeOK /\ PollingDoesNotGrow

\* The page comes to show how far its task has got, and keeps it, unless a read
\* for the task failed or an answer for an earlier one came.  Of a task that is
\* opened again after it has ended it may go on to show the end.
TaskIsFollowed ==
  <>[]((route # NoTask /\ ~spoiled) =>
         /\ shownTask.of = route
         /\ \/ shownTask.status = tasks[route].status
            \/ tasks[route].moved /\ Ended(shownTask))
=============================================================================
