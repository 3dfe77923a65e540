------------------------------- MODULE Console -------------------------------
(***************************************************************************)
(* The console (ui/src/App.tsx): the hash of the window says which page is *)
(* mounted, one at a time.  The pages share no state, and what they read   *)
(* and write on the server does not overlap, so a session here is spent on *)
(* one of them.  The selector field of the page of groups is a view of its *)
(* own, since only what is typed there matters to it.                      *)
(***************************************************************************)
EXTENDS FilesPage, Targeting, TaskList, TaskDetail

VARIABLE view

Views == {"memory", "targeting", "selector", "operations", "task"}

taskPagesVars == <<serverTables, listVars, clicks, losses, pageOfTask, retrying, steps, failures>>
consoleVars == <<view, filesVars, targetingVars, taskPagesVars>>

listState == <<listVars, clicks, losses>>
detailState == <<pageOfTask, retrying, steps, failures>>

ConsoleInit ==
  /\ view \in Views
  /\ FilesInit /\ TargetingInit /\ TaskListInit /\ TaskDetailInit
  /\ mounted = (view = "operations")

MemoryView == view = "memory" /\ FilesNext /\ UNCHANGED <<view, targetingVars, taskPagesVars>>
TargetingView ==
  view = "targeting" /\ TargetingNext /\ UNCHANGED <<view, filesVars, taskPagesVars>>
SelectorView == view = "selector" /\ Typing /\ UNCHANGED <<view, filesVars, taskPagesVars>>
OperationsView ==
  view = "operations" /\ TaskListNext
  /\ UNCHANGED <<view, filesVars, targetingVars, detailState>>
TaskView ==
  view = "task" /\ TaskDetailNext
  /\ UNCHANGED <<view, filesVars, targetingVars, listState>>

ConsoleNext == MemoryView \/ TargetingView \/ SelectorView \/ OperationsView \/ TaskView

PageReads ==
  \/ view = "operations" /\ Reading /\ UNCHANGED <<view, filesVars, targetingVars, detailState>>
  \/ view = "task" /\ Following /\ UNCHANGED <<view, filesVars, targetingVars, listState>>

\* Timers fire, and a request is answered or fails.
ConsoleSpec == ConsoleInit /\ [][ConsoleNext]_consoleVars /\ WF_consoleVars(PageReads)

(***************************************************************************)
(* Properties.                                                             *)
(***************************************************************************)

\* The pages of tasks keep their types while reads, timers and the operator
\* interleave, and the polling of a task is bounded by the tasks visited.
TaskPagesInv == TaskListTypeOK /\ TaskDetailInv
=============================================================================
