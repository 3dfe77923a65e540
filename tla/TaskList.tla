------------------------------ MODULE TaskList ------------------------------
(***************************************************************************)
(* The console's list of tasks and events with its filters, paging and     *)
(* polling (ui/src/pages/Operations.tsx, hooks/usePolling.ts) and the form *)
(* that creates a task (components/TaskModal.tsx), with the routes they    *)
(* read (tasks-query.ts, events.ts).  A read counts first and then takes   *)
(* its page; answers arrive in any order, and none is refused for being    *)
(* late.                                                                   *)
(***************************************************************************)
EXTENDS TaskTable

CONSTANTS
  AnyKind, AnyStatus,
  FilterKinds, FilterStatus,
                  \* the kinds and statuses an operator asks for
  RowsPerPage,    \* page_size
  MaxListLog, MaxClicks, MaxLosses, MaxLookups
                  \* bounds: events until the queue rests, what the operator does,
                  \* failed requests, and reads under way when a poll starts

Tabs == {"tasks", "events"}

ASSUME TaskListAssumption ==
  /\ MaxListLog \in Nat /\ MaxClicks \in Nat /\ MaxLosses \in Nat /\ MaxLookups \in Nat /\ RowsPerPage \in Nat \ {0}
  /\ FilterKinds \subseteq Kinds
  /\ AnyKind \notin Kinds /\ AnyStatus \notin Status /\ FilterStatus \subseteq Status

VARIABLES
  mounted,        \* the page is shown
  tab, query,     \* the tab, and of each tab the query
  listing,        \* of each tab the answer shown
  modal,          \* modalOpen
  submitting,     \* a task is being created
  lookups,        \* reads under way
  clicks, losses

listVars == <<mounted, tab, query, listing, modal, submitting, lookups>>
taskListVars == <<serverTables, listVars, clicks, losses>>

Query == [kind : Kinds \cup {AnyKind}, status : FilterStatus \cup {AnyStatus}, page : Nat \ {0}]
NoFilter == [kind |-> AnyKind, status |-> AnyStatus, page |-> 1]
NothingYet == [total |-> 0, rows |-> <<>>]
Lookup(which, q) == [of |-> which, query |-> q, at |-> "sent", total |-> 0, rows |-> <<>>]

TaskListTypeOK ==
  /\ tasks \in Seq(TaskRow) /\ Len(tasks) <= MaxTasks /\ log \in Seq(LogEntry)
  /\ {mounted, modal, submitting} \subseteq BOOLEAN
  /\ tab \in Tabs /\ query \in [Tabs -> Query] /\ query["events"].status = AnyStatus
  /\ \A x \in Tabs : listing[x].total \in Nat /\ Len(listing[x].rows) <= RowsPerPage
  /\ \A r \in lookups : r.of \in Tabs /\ r.query \in Query /\ r.at \in {"sent", "counted", "read"}
  /\ ~mounted => lookups = {}
  /\ modal => tab = "tasks"

(***************************************************************************)
(* What the routes answer.                                                 *)
(***************************************************************************)

\* The rows a query selects.
Selected(which, q) ==
  IF which = "tasks"
  THEN {t \in DOMAIN tasks :
          q.kind \in {AnyKind, tasks[t].kind} /\ q.status \in {AnyStatus, tasks[t].status}}
  ELSE {e \in DOMAIN log : q.kind \in {AnyKind, tasks[log[e].task].kind}}

\* order by ... desc limit page_size offset (page - 1) * page_size
NthLatest(S, n) == CHOOSE i \in S : Cardinality({j \in S : j >= i}) = n
PageOf(S, p) ==
  LET before == (p - 1) * RowsPerPage
      left == Cardinality(S) - before
  IN [k \in 1..(IF left < RowsPerPage THEN left ELSE RowsPerPage) |-> NthLatest(S, before + k)]
Described(which, i) == IF which = "tasks" THEN <<i, tasks[i].status>> ELSE <<i, log[i].type>>
Answered(which, q) ==
  LET ids == PageOf(Selected(which, q), q.page) IN [k \in DOMAIN ids |-> Described(which, ids[k])]

(***************************************************************************)
(* The operator.                                                           *)
(***************************************************************************)

Click == mounted /\ clicks < MaxClicks /\ clicks' = clicks + 1

\* The effect that depends on the tab, the queries and the dialog.
Reload(x, qs) == lookups \cup {Lookup(x, qs[x])}

Ask(q) ==
  /\ q # query[tab]
  /\ query' = [query EXCEPT ![tab] = q]
  /\ lookups' = Reload(tab, query')
  /\ UNCHANGED <<serverTables, mounted, tab, listing, modal, submitting, losses>>

SwitchTab(x) ==
  /\ Click /\ ~modal /\ x # tab
  /\ tab' = x /\ lookups' = Reload(x, query)
  /\ UNCHANGED <<serverTables, mounted, query, listing, modal, submitting, losses>>

\* A filter goes back to the first page; events have none by status.
Filter(k, s) ==
  /\ Click /\ ~modal /\ (tab = "events" => s = AnyStatus)
  /\ Ask([kind |-> k, status |-> s, page |-> 1])

TotalPages ==
  IF listing[tab].total = 0 THEN 1 ELSE (listing[tab].total + RowsPerPage - 1) \div RowsPerPage
NextPage ==
  /\ Click /\ ~modal /\ query[tab].page < TotalPages
  /\ Ask([query[tab] EXCEPT !.page = @ + 1])
PrevPage ==
  /\ Click /\ ~modal /\ query[tab].page > 1
  /\ Ask([query[tab] EXCEPT !.page = @ - 1])

\* Nothing polls or reloads under the dialog.
OpenModal ==
  /\ Click /\ ~modal /\ tab = "tasks"
  /\ modal' = TRUE
  /\ UNCHANGED <<serverTables, mounted, tab, query, listing, submitting, lookups, losses>>
CloseModal ==
  /\ modal /\ modal' = FALSE
  /\ lookups' = Reload(tab, query)
  /\ UNCHANGED <<serverTables, mounted, tab, query, listing, submitting,
                 clicks, losses>>
Submit ==
  /\ Click /\ modal /\ ~submitting
  /\ submitting' = TRUE
  /\ UNCHANGED <<serverTables, mounted, tab, query, listing, modal, lookups, losses>>

(***************************************************************************)
(* Answers, and the timer.                                                 *)
(***************************************************************************)

\* usePolling calls the callback of the last rendering.
FirstQuery == NoFilter
PolledQuery == query[tab]

PollsForever ==
  /\ ~modal /\ Cardinality(lookups) < MaxLookups
  /\ lookups' = lookups \cup {Lookup(tab, PolledQuery)}
  /\ UNCHANGED <<serverTables, mounted, tab, query, listing, modal, submitting, clicks, losses>>
Poll ==
  /\ mounted /\ ~modal /\ Cardinality(lookups) < MaxLookups
  /\ lookups' = lookups \cup {Lookup(tab, PolledQuery)}
  /\ UNCHANGED <<serverTables, mounted, tab, query, listing, modal, submitting,
                 clicks, losses>>

WithLookup(r, s) == lookups' = (lookups \ {r}) \cup {s}
pageRest == <<serverTables, mounted, tab, query, modal, submitting, clicks>>

CountRows(r) ==
  /\ r.at = "sent"
  /\ WithLookup(r, [r EXCEPT !.at = "counted", !.total = Cardinality(Selected(r.of, r.query))])
  /\ UNCHANGED <<pageRest, listing, losses>>
ReadRows(r) ==
  /\ r.at = "counted"
  /\ WithLookup(r, [r EXCEPT !.at = "read", !.rows = Answered(r.of, r.query)])
  /\ UNCHANGED <<pageRest, listing, losses>>
ShowRows(r) ==
  /\ r.at = "read"
  /\ lookups' = lookups \ {r}
  /\ listing' = [listing EXCEPT ![r.of] = [total |-> r.total, rows |-> r.rows]]
  /\ UNCHANGED <<pageRest, losses>>

Lost == losses < MaxLosses /\ losses' = losses + 1
LookupFails(r) == Lost /\ lookups' = lookups \ {r} /\ UNCHANGED <<pageRest, listing>>

\* The window goes to the page of the new task.
Created ==
  /\ submitting /\ submitting' = FALSE
  /\ \E k \in Kinds : Insert(k)
  /\ mounted' = FALSE /\ modal' = FALSE /\ lookups' = {}
  /\ UNCHANGED <<tab, query, listing, clicks, losses>>
CreationFails ==
  /\ submitting /\ submitting' = FALSE /\ Lost
  /\ (\E k \in Kinds : Insert(k)) \/ UNCHANGED serverTables
  /\ UNCHANGED <<mounted, tab, query, listing, modal, lookups, clicks>>

TaskListInit ==
  /\ TableInit
  /\ mounted \in BOOLEAN /\ tab = "tasks" /\ query = [x \in Tabs |-> NoFilter]
  /\ listing = [x \in Tabs |-> NothingYet]
  /\ modal = FALSE /\ submitting = FALSE
  /\ lookups = IF mounted THEN {Lookup("tasks", NoFilter)} ELSE {}
  /\ clicks = 0 /\ losses = 0

Clicking ==
  \/ \E x \in Tabs : SwitchTab(x)
  \/ \E k \in FilterKinds \cup {AnyKind}, s \in FilterStatus \cup {AnyStatus} : Filter(k, s)
  \/ NextPage \/ PrevPage \/ OpenModal \/ CloseModal \/ Submit

\* The timer and the answers.
Reading == Poll \/ \E r \in lookups : CountRows(r) \/ ReadRows(r) \/ ShowRows(r)

TaskListNext ==
  \/ Clicking \/ Reading \/ Created \/ CreationFails
  \/ \E r \in lookups : LookupFails(r)
  \/ Elsewhere(MaxListLog) /\ UNCHANGED <<listVars, clicks, losses>>

TaskListSpec == TaskListInit /\ [][TaskListNext]_taskListVars
FairTaskList == TaskListSpec /\ WF_taskListVars(Reading)

(***************************************************************************)
(* Properties.                                                             *)
(***************************************************************************)

\* The list comes to show what the server has for its last query and keeps it,
\* whatever answers to earlier queries come late and whatever polls fail.
ListCatchesUp ==
  <>[]((mounted /\ ~modal) =>
         listing[tab] = [total |-> Cardinality(Selected(tab, query[tab])), rows |-> Answered(tab, query[tab])])
=============================================================================
