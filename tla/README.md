# OpenClaw Fleet: a TLA+ model of the control plane, its sidecars and its console

OpenClaw Fleet is a control plane (a Fastify server on Postgres and Redis) that
queues tasks for a fleet of OpenClaw instances, and a sidecar process on each
instance that polls the queue, executes tasks through a provider (the OpenClaw
gateway or a generic HTTP agent) and acknowledges them.  On top of the queue the
control plane runs *campaigns*: a label selector, gates on what is known of each
instance, and one task per matching instance.  A web console reads and changes
all of it through the same HTTP API.

This directory models that behaviour from the source in `src/`, checks it with
TLC on small instances and proves its main safety properties with TLAPS for
every value of the constants.

## 1. Inventory

| Component | Source (`src/src/`) | State | Operations | What makes it correct |
|---|---|---|---|---|
| Task queue | `routes/tasks-admin.ts`, `tasks-pull.ts`, `tasks-ack.ts` | tables `tasks`, `task_attempts`; Redis keys `task:<id>:lease` | create; pull = reclaim, select, lease one by one; ack = write, log, facts, probe state | a lease has one holder; a task is not leased twice at once; it fails only after its attempts; it comes to rest |
| Instance facts, probe state | written by `tasks-ack.ts`, read by `gate/evaluate.ts`, `probe/scheduler.ts` | columns of `instances`, table `instance_probe_states` | gateway fact, skills snapshot, invalidation, failure count and backoff | facts say what some execution observed; a stale snapshot never counts as fresh |
| Sidecar scheduler, executor | `sidecar/scheduler.ts`, `executor.ts`, `cli.ts`, `state-store.ts` | the runs under way, `state.executed` in memory, the state file | timer tick, heartbeat, pull, bounded workers, dispatch, ack, restart | what is acknowledged was executed; no execution goes uncounted |
| Campaign reconciler | `campaigns/reconciler.ts`, timer in `index.ts` | tables `campaigns`, `campaign_instances` | skip expired campaigns, match, gate, insert task, update target | a bounded number of tasks per campaign, generation and instance; no task without a gate; a ready target gets its task |
| Campaign routes | `routes/campaigns.ts` | the same tables | create, patch (new generation), close, delete | a generation stands for one action and payload and never goes back |
| Gates, probe scheduling | `gate/evaluate.ts`, `probe/scheduler.ts`, `probe/backoff.ts` | facts and probe state | evaluate; insert a probe task unless one is open or the backoff holds | no instance runs past a gate it does not meet; probes do not pile up |
| Labels, groups | `routes/labels.ts`, `groups.ts`, `labels/*.ts` | `instance_labels`, `groups`, `group_matches` | single-statement writes; parse and match a selector | matching agrees with the Kubernetes definition |
| Enrollment, heartbeat | `routes/enroll.ts`, `heartbeat.ts`, `auth.ts`, `sidecar/cli.ts`, `state-store.ts` | `instances`, Redis `hb:<id>` (90 s), the sidecar's state file | enroll = select by name, insert, token; save; heartbeat | one instance per name, one identity per machine, a machine comes online |
| Interactive files | `routes/instance-files.ts`, `ui/.../Memory.tsx` | a waiting HTTP request per call; the page's selection, editor and caches | create a task, poll five seconds for its end; list, get, set | what is shown and cached belongs to the file; a reported save stays |
| Gateway client | `sidecar/gateway-client.ts` | one WebSocket, pending requests, the ready promise | connect, request, timeout, close, reconnect | every request ends exactly once; the client finds back |
| Skill bundles, config patch | `sidecar/skill-bundles/install.ts`, `sidecar/config-patch.ts` | a directory, its backup, the gateway's configuration | swap, roll back, patch with a hash and one retry | the old or the new bundle is in place; nobody's configuration is lost |
| Console: groups and labels | `ui/.../Targeting.tsx`, `routes/groups.ts`, `labels.ts` | drafts, preview, the lists shown | create, edit, delete, match; label, unlabel | drafts and previews are true; what is stored is legal |
| Console: tasks | `ui/.../Operations.tsx`, `TaskDetail.tsx`, `TaskModal.tsx`, `usePolling.ts` | query and listing of each tab; the row shown and its timer | filter, page, poll, create, follow, retry | the pages catch up with the server; polling does not multiply |
| Console: instances | `ui/.../api/client.ts` `listInstances`, `routes/instances.ts` | a walk over pages | next page until the total is reached | the list is complete and without doubles |
| Console: campaigns, skill bundles, overview | `ui/.../Campaigns.tsx`, `Skills.tsx`, `Overview.tsx` | forms and lists | | |
| Events, artifacts, retention | `events/*.ts`, `routes/events.ts`, `artifacts.ts`, `retention/cleanup.ts` | append-only rows | append, page, delete expired | only the console reads them |
| Overview and health routes, CLI, providers, configuration | the rest of `src/src/` | none of their own | | |

How the parts interact.  Sidecars talk to the control plane by HTTP only; a
request or its answer may be lost, and a client that stops waiting leaves the
handler running.  Handlers share Postgres and Redis and nothing else; each
awaited call is one statement, there are no transactions around several of them
in the task path, and handlers interleave between any two calls.  Campaigns and
interactive files use the queue by inserting rows into `tasks` and reading them
back.  Gates read the facts that acknowledgements write.  The sidecar reaches the
gateway through one logical client over a sequence of WebSockets, and changes the
gateway's configuration under an optimistic hash that other clients change too.
The console keeps copies of what it read, and its reads are answered in any order.

What is hard here: the interleaving of handlers that trust rows read earlier
(pull, ack, `bumpProbeFailure`, the reconciler, PATCH of a campaign); leases kept
twice (a Redis key and a column) with different ends; lost acknowledgements and
redelivery; runs of one sidecar that overlap because the timer does not wait;
restarts of a sidecar whose record of executed tasks is never saved; facts
observed in one order and stored in another; events of a socket that has been
replaced; renames and a configuration patch that stop half way; answers that reach a
page after its selection, query or task has changed.  `PROJECT.json` lists these hazards
line by line with the properties that cover them.

## 2. Modules

| Module | Models | Used by |
|---|---|---|
| `InstanceFacts` | fact columns and probe state, the writes of the ack handler | `TaskLease`, `ProbeFeed` |
| `ProbeFeed` | abstract specification of what the queue and the reconciler share: facts, probe states, open probe tasks, and who may change them how | `Campaigns`; refined by `TaskLease` and `Reconciler` |
| `TaskLease` | the queue: tables, Redis keys, the three handlers step by step, open to any client | `FleetTasks` |
| `Sidecar` | scheduler runs and executor, without the control plane | `FleetTasks` |
| `FleetTasks` | both joined by lossy HTTP, with faults and fairness | |
| `Gate` | `evaluateGate` as an operator, and how copies of facts age | `Campaigns` |
| `Campaigns` | the table `campaigns`, its routes, and what changes around the reconciler | `Reconciler` |
| `Reconciler` | the reconcile run call by call, overlapping runs, stops half way | |
| `TargetLife` | abstract specification: what a campaign promises one instance in one generation | refined by `Reconciler` |
| `GatewayClient` | `createGatewayClient`: sockets, handshake, ready promise, requests, reconnection | |
| `GatewayCall` | abstract specification: what a caller is promised for one request | refined by `GatewayClient` |
| `SkillInstall` | overlapping `installSkillBundle` and `applyFleetConfigPatch`, with errors and crashes | |
| `Registry` | enrollment, state file, heartbeat, rename, the console's walk over pages | |
| `Selectors` | the selector parser and matcher and the rules for keys and values, as operators | `SelectorGrammar` |
| `SelectorGrammar` | reference: a text means what the grammar derives | `Targeting` |
| `Targeting` | the page of groups and labels with its routes and other clients of them | `Console` |
| `FilesPage` | the page of files, the routes of `instance-files.ts`, the instance behind them | `Console` |
| `TaskTable` | tasks and events as the console reads them | `TaskList`, `TaskDetail` |
| `TaskList`, `TaskDetail` | the list of tasks and events; the page of one task | `Console` |
| `Console` | the console: one page at a time | |
| `MC...` | instances for TLC | |
| `InstanceFactsProofs`, `TaskLeaseProofs`, `FleetProofs`, `ReconcilerProofs`, `GatewayClientProofs`, `SkillInstallProofs`, `RegistryProofs`, `ConsoleProofs` | theorems, each about the modules its name says; `InstanceFactsProofs` holds lemmas only | |

### How state and actions correspond to the code

**TaskLease.**  `status`, `attempts`, `lease`, `result`, `expired` are the columns
of `tasks`; `taskAttempts` is the table `task_attempts`; `leaseKey` the Redis keys.
Time is counted down: `lease[t]` is what is left of `lease_expires_at`, `leaseKey[t]`
what is left of the key's PX time, and `Tick` takes one unit from both.  A pull
handler is a slot `h` with a program counter: `PullArrive`, `PullReclaim` (the
update at the head of the handler), `PullSelect` (the query), then for each row
in order `PullClaim` or `PullSkip` (SET NX PX) and `PullGrant` (the update by id), and
`PullReply`.  An ack handler: `AckArrive`, `AckRead`, `AckWriteOk` or
`AckWriteError`, `AckLog`, `AckFacts`, `AckProbeReset` or `AckProbeRead`/`AckProbeWrite`,
`AckReply`.  `PullAbort` and `AckAbort` end a handler after any step: a call threw
or the process died.  `grant[h][t]` is a history variable: how much of the lease
that handler `h` won is left.

- Tasks are numbered in order of `created_at`; creation is in that order.
- Events and artifacts are written in the same steps and left out.
- The six action values stand for the classes of actions the code tells apart.
- A group-targeted task has a fixed set of eligible instances: group membership
  does not change during a behaviour.
- Postgres and the server share one clock.  The PX time of Redis and
  `lease_expires_at` run at the same speed.
- `SystemTasks` are the probe tasks of the reconciler (`task_origin` 'system'), created
  at any moment like the others; `OpenProbes` is what `ensureProbeTaskScheduled` looks for.

**InstanceFacts.**  A timestamp is modelled by what its readers ask of it: is the
fact younger than its time to live (`...Fresh`), is
`skills_snapshot_invalidated_at` later than `skills_snapshot_at` (`invalidated`), is
`next_allowed_at` still ahead (`waiting`).  A fact may go stale at any moment.

**Sidecar.**  A run is one call of `runOnce`; the number of runs of a host is how
many may overlap.  `job[r][t]` is the state of one queue entry.  `executed` is
`state.executed`, empty after every start: `cli.ts` loads the state file, but
nothing ever saves an executed task to it.  `completed` is history: what the
provider really did.

**FleetTasks.**  Pull handler slot `r` serves the pull of run `r`; ack handler slot
`<<r, t>>` the acknowledgement run `r` sends for task `t`.  `Poll`, `SkipTask`,
`TaskSucceeds` and `TaskFails` join a sidecar step with the arrival of its
request; `PullAnswered` and `AckAnswered` join the reply with its receipt.
`PullBreaks`/`AckBreaks` are a lost request or a handler that stops;
`PullTimesOut`/`AckTimesOut` a client that gives up while the handler runs on; a
slot still occupied by such a handler takes no new request.  Provider calls in
progress at a restart are answered to nobody.

**Campaigns.**  `campaign` is the table; "absent" rows are yet to be created, in
order of `created_at`.  `expired` says whether `expires_at` is past.  PATCH and DELETE are
two calls each, `PatchRead`/`PatchWrite` and `DeleteRead`/`DeleteWrite`, in an editor slot
`e` that keeps the row it read (`read`) and the body (`body`); `EditAborts` is a call
that throws.  `Patched` follows the update: fields the body leaves out keep what the row
has *now* (`coalesce`), the generation comes from the row read *before*.  A payload has
a spelling: `Stored[p]` is what a jsonb column gives back, and the handler compares
the spelling it was sent with the stored one.  Selectors are the sets of label sets
they match (`Selects`); parsing is not modelled.  `QueueSteps` is what task
acknowledgements may do at any time, the queue's part of `ProbeFeed`.  `ProbeReopens`
is a row update of the queue that comes late and makes a settled probe task pending
or leased again; `reopened` counts them, `MaxReopens` bounds them.  `Lasting` are
campaigns that nobody gives an expiry.

**ProbeFeed.**  The queue and the reconciler share three things: the facts, the probe
states, and the probe tasks that are pending or leased (`probes`, a number for each
instance and kind).  `FeedNext` lists every change of them.  The reconciler's model
takes the queue's changes as its environment (`QueueSteps`, `ProbeReopens`), and the
queue takes the reconciler's insertions as creations of `SystemTasks`.  That neither
does more than the other expects is a theorem on either side (section 4).

**Reconciler.**  `target` is the table `campaign_instances` (`tasked`: `task_id` is not
null), `execs[k]` the tasks inserted for target `k`, by what they run.  A run `r`
copies campaigns (`saw`), facts, labels and heartbeats, and then works on the copies, one
campaign after the other: `AddTarget`, `ReadTargets`/`DropTarget`, `ReadCandidates`,
`GateBlocks` or `GatePasses`, for a blocked target `ReadBackoff`, `LookForProbe`, `InsertProbe`,
then `ReadPending`, and for each pending target `InsertTask` and `LinkTask`.
`RunStops` ends a run after any call.  `cleared` is history: the targets that passed the
gate in some run.

- The order of loops over instances is left open; the code has one (`created_at`,
  or none at all for queries without `order by`).
- The gate judges copied facts by a clock read later: `Aged` lets each copy grow stale
  between two looks, at any speed.
- `next_allowed_at` is compared with the time at which the run took up the campaign, so a
  delay that has just ended may still hold for the run (`ReadBackoff`).
- All instances are enrolled from the start.

**TargetLife.**  A target joins, runs once (and once more for each stop), is settled when
its task is known, leaves, and never runs after it has settled or left.  `Reconciler!Life`
maps the rows and the tasks inserted to it.

**GatewayClient.**  `sock[s]` is how far the `s`-th WebSocket is ("failing": it reported
an error, its close is still to come; "aborted": closed while it was connecting).  All
sockets share the handlers, as in the code.  `ready` is the promise of the moment;
`wait[r]` says which promise a request waits on, the current one or one that
`openSocket` has replaced unsettled.  `wire[r]` is the socket a frame went out on.
`crashed`: an exception in an event handler ended the process (the challenge of an
old socket makes the client send on one that is still connecting).  `Timed` are the
requests whose `timeoutMs` is a finite number above zero: only they get a timer, and
`agent.run` passes on what the task's payload says, unchecked.  The gateway and
the library are external: it answers a request it received at any time or never, any
socket may fail at any time, and the close of a failed one may be late.  The signature
of the device identity is a parameter of connect and left out.

**SkillInstall.**  `pc[i]` is the next awaited call of an installation, `patchPc[p]` of a
configuration patch.  `dest` is the directory of the bundle, `backup[i]` what
installation `i` has moved aside; rename fails on a directory that holds something.
Any call may fail; `Crash` ends all executions of the process.  `hash` changes with
every change of the configuration.  That the gateway refuses a patch for another hash
is the gateway's behaviour; `IsCurrent` states it, and the sidecar's part is to send
the hash that belongs to the list it read.  `lost` and `placed` are history.

**Registry.**  `rows` is the table `instances`, of each row its name.  An enroll request
is a slot with the three calls of the handler; it goes on when its sidecar has ended,
and the sidecar gives up on it after its timeout (`Abandon`).  `held` and `file` are
the token in memory and in the state file.  `raced` is history: names for which two
requests found no row before either inserted one.  `given` is history: the names an
operator has given; `Rename` takes any name, a host name in use among them, as the route
does.  `walk` is one `listInstances`; the
server counts the rows of a page before it reads them, and rows come in between.

**FilesPage.**  A call is a request with the task it inserted.  Its sequence number is
modelled by `latest`: whether it is still the last of its kind, which is all the page
asks.  A React effect runs with the event that changes its dependencies.  The
instance runs a task (`RunTask`), acknowledges it (`AckTask`), may get it again when
nobody waits any more (`TaskAgain`).  `CallFails` is any error, the five seconds
included.  `was`, `told`, `doubtful`, `missed` are history.

**Selectors.**  A text is a sequence of marks, blanks and words; of a word only the
shapes of its parts count, which is what the regular expressions and length limits
tell apart.  The loops and the split at commas outside brackets are set expressions
over positions.

**Targeting.**  `op` is the operation the flag `busy` stands for: sent, served, answered,
then the reload that follows.  `reads` are the reads under way, each closed over the
selection of its moment; `ServeRead` takes the data, `ReceiveRead` delivers it.  The
routes (`Allowed`, `Apply`) serve the page and any other client (`ForeignRequest`).

**TaskList, TaskDetail.**  `TaskTable` has of a task its kind, status and events, and
`Elsewhere` moves tasks on as pull and ack do (`TaskLease` has them in full).  Rows are
updated by their id: a pull may come to a row it selected while it was pending
(`offered`) and that an acknowledgement has settled since, and each delivery
(`unanswered`) may be acknowledged after the lease was taken back (`TakeBack`), so a task
that has ended can be opened again; the history `moved` tells.  Left out are instances,
lease times and the limit of a pull, and expired rows are taken back one at a time
instead of all at once: the pages read between any of these steps anyway.  A read
of the list counts first and takes its page in a second query.  `timers` counts the
timeouts of the task page, `loads` its reads: by the mount effect ("mount", "gone"
after its cleanup) or by the timeout ("timer", which nothing cancels).  Simplified: the
several requests of one read of a task are one; an event is written with its row; the
target and the known instances of the form are left out.

**Console.**  The hash of the window names the page that is mounted.  Pages share no
state, and a session here stays on one; the selector field is a view of its own.

## 3. Runs

| Run | Question | Size |
|---|---|---|
| `task_lease` | Are leases exclusive, do row updates land only where they should, and are attempts counted right, when two pulls race with acks of any outcome? | 1 task, 2 pull slots, 1 ack slot, lease 3, a pull lasts at most 1 tick |
| `task_facts` | Can racing acks of a probe leave a backoff without a failure, and does the queue change what it shares with the reconciler only as `ProbeFeed` says? | 1 gateway probe of the reconciler, 2 ack slots, no pulls |
| `fleet_tasks` | Is what is done also executed, and is each execution counted? | 1 task, 2 overlapping runs, 3 attempts, 1 fault |
| `fleet_rest` | Does every task come to rest when runs do not overlap? | 2 tasks, limit 1, 1 run, 1 fault, lease 3 |
| `reconcile_overlap` | How many tasks and probes can overlapping reconcile runs insert, and does each task have a gate that was passed? | 1 campaign that needs the gateway and does not expire, 1 instance, 2 runs, 1 probe task opened again |
| `reconcile_single` | Without overlap, does a target live as promised, what does a stop cost, does each task have a gate that was passed, and does a generation stand for one content, while labels, heartbeats and the campaign change under the run? | 1 campaign, 1 instance, 1 run, 1 stop, 1 editor, 2 generations, 3 spellings of 2 payloads |
| `reconcile_live` | Does a ready target get its task although a run stops half way? | 2 campaigns, 1 instance, 1 run, 1 stop |
| `executed_twice` | a promise of the documents which the code does not keep (section 5) | small |
| `gateway_client` | Does every request end once, and does the client find back, whatever sockets report in whatever order? | 2 requests, one with a timer, the other without and with a final answer to wait for; 3 sockets |
| `skill_install` | Is a bundle that was there ever lost, and is anybody's configuration? | 3 installations, 1 patch, 1 other writer |
| `registry` | Is a name one instance, a machine one identity, the list complete, and does every machine come online? | 2 machines, 2 requests at once, 1 fault, at most 3 instances, renames to a host name and to another, pages of 1 |
| `console` | Do the pages show and keep what is true, although answers come late, fail or do not come? | one page a session: 2 instances, 2 files, 4 acts; 1 instance, 2 groups, 3 acts; selectors of 4 typed tokens; 2 tasks, rows of 1, 2 clicks; 2 tasks, 3 steps, 2 reads; the queue rests after 4 and 6 events |

Why the bounds are enough.  Every hazard in the queue is about one task and at
most two handlers of each kind: handlers share no state but the task's row, its
key and the facts of its target.  `MaxAttempts`, 5 in the code
(`tasks-ack.ts:20`), is 3 in `fleet_tasks`, 1 in `task_facts`, where
nothing is pulled, and 2 elsewhere, the smallest value that tells "one more attempt" from
"failed"; the theorems hold for any.  A lease of 3 ticks against a pull
of at most 1 lets a key run out while a handler is between its claim and its row
update.  `AttemptBound` stops the count of attempts; `CallsAreCounted` speaks of
counts below it.  `FailureBound` caps `consecutive_failures`.  `MaxFaults` bounds lost
messages and crashes together.  Two tasks with a limit of one are the smallest
case of a task waiting behind another.

Targets of a campaign share nothing but the run that works on them, and campaigns
nothing but the probes of an instance, so one instance is enough to see every race
on a target; a second campaign makes a run go round its outer loop.  Two generations
(`GenerationBound`) are the least that shows an old run next to a new one.
`MaxReopens` bounds the probe tasks opened again: one, in `reconcile_overlap`, shows that the
bound of `ProbesBounded` moves with it; none elsewhere, where no property counts probes.
`Lasting` leaves expiry to the other runs of the reconciler.
`MaxCrashes` bounds the runs that stop half way.  `reconcile_overlap` switches deadlock
checking off: when the only campaign is closed and nothing else can change, the
system rests.  The runs of the other parts do so too: a closed client, installations
that have ended, and an operator who has used up the bound on acts have nothing to do.

Three sockets are an old one with late events, the current one and its successor.
Of the two requests the untimed one waits for a final answer, as `agent.run` does; a timed
one that does so differs from the other only by an answer that leaves it open.
Of three installations one can be moving in while another rolls back and a third looks.
Two machines with names of their own show what one can do to the other; they need two
rows, and the one fault can cost one more, so with three the bound stops nobody
(`ComesOnline` would fail with two).  An operator who gives the name of one machine and a
name of nobody shows all that renaming can do to the other's.  A page of one row makes
every second row a walk or a page turn.
In the console a hazard takes one act (a selection, a query, a save), an answer under
way, and a second act; bounds of two to four acts allow for it, and `MaxCalls`,
`MaxReads`, `MaxLookups`, `MaxLoads` bound the reads under way to the late one and its
successor (that a third read at a time changes nothing for the bound on polling is what
`PollingIsBounded` proves).  `MaxListLog` and `MaxTaskLog` are the numbers of events after
which the queue rests, but for insertions.  Three belong to a task done at the start: the
task page has room for three more, so that either task is delivered and acknowledged,
the first of them for
the second time; the list has room for one, as any one change of a row between two reads
shifts its pages.  The selector field starts with what an operator typed or pasted
(`Pasted` holds openings of set expressions, so that four more tokens close them) and
gets every sequence of marks, blanks and words up to the bound.

Every property of a passing run has a mutant in `PROJECT.json`: a plausible bug in
one mapped definition that makes TLC find the property violated.  The mutant
forms stand right before the definitions they replace and are used nowhere else.

### What the properties of the reconciler mean

- `ExecutionsBounded`.  The code does not keep "at most one execution": the insert of a
  task and the update of its target are two calls without a transaction.  What does hold
  is a bound: as soon as one run has linked a task, `task_id` is set and never
  cleared, no later run selects the target, and only the runs already past
  their query insert once more each.  A stop between insert and link costs one
  more.  `LifeSpec` is the exact promise for one run at a time: the order of joining,
  running, settling and leaving, and at most one task for each stop on top of the one.
- `ProbesBounded` is the same argument for look and insert of a probe, with one more
  thing to count: a probe task that has settled can be opened again by the row update
  of a pull, or of an error ack, that comes late, after the reconciler found none open.  The
  look also finds probe tasks that operators or campaigns created; they may only keep the
  reconciler from inserting one, and are not counted.
- `ReconcilerInv` joins types, `OneContentPerGeneration` and `GateIsChecked`.
  `OneContentPerGeneration` holds while requests to change a campaign do not overlap.
  With two requests at once (a second editor in `MCReconcilerSingle.cfg`) it fails: two
  patches read generation 1 and both write 2, or a patch that changes only the expiry writes back the generation it read,
  next to the new payload.
- `GateIsChecked` holds while runs do not overlap, and for overlapping runs while labels
  and selectors stay as they are (`reconcile_overlap`).  With two runs and changing labels
  or selectors the second query of one run finds pending targets that the other has just
  added.
- `CatchUp` speaks of targets that stay ready.  It is checked with a campaign of gateway
  probes, whose gate asks for the heartbeat only: facts outlive their time to live (30 s
  for the gateway), and a target whose facts go stale for ever between two runs never
  gets its task, in the code as in the model.  Instances may come into scope but not
  leave: one that has left stays removed in that generation by design
  (`docs/bulk-management.md`, "not re-executed"), also when it never ran.

### What the properties of the other parts mean

- `LeaseInv` joins the types of the queue with `AttemptRowsCounted`.
- `FeedsReconciler` is the refinement of `ProbeFeed` by the queue.  It says more than
  types: no acknowledgement writes a snapshot or a gateway fact that is not the result of a
  probe of that kind, none touches the failures of a kind that has no probes, a reclaim
  leaves the probe tasks open, and no step opens or settles two of them.
- `CallSpec` is the refinement of `GatewayCall`: a request goes out at most once and ends
  once, with the answer the gateway gave to it or an error.  `PendingIsUnsettled`, the
  part of `GatewayInv` next to the types, ties the table to the promises: six handlers
  take entries out.  `EveryRequestEnds` speaks of requests with a timer, and of those without
  one once their socket has ended; others may wait for ever (section 5).  `NeverStranded` says that an open client always has a socket that can still report or a timer that runs.
- `BundleKept` and `KeptUntilDone` hold for any interruption; `NoGap`, which is proved
  only, says more but excepts a crash and a rollback that failed by itself.
  `DirsKept` and `PatchedOnce` depend on the order of `config.get` and `config.patch` and on which error is retried.
- `NamesAreUnique` excepts names for which two requests raced and names an operator gave:
  nothing else in the code duplicates a name, and nothing prevents either.  `RegistryInv`
  joins types and `NoSharedIdentity`: machines with different names act as one instance only
  if an operator gave the name of one of them to an instance, which the route allows.
  Machines that have one host name are one instance: enrollment by name is the code's idea
  of identity.
- `WalkIsComplete` holds because the list is ordered by creation and rows are only added.
- `PageShowsSelection` excepts sessions in which an answer came to a selection that was
  gone (`missed`); section 5 says what can happen then.  `CacheWasOnDisk`
  (in `FilesInv`) and `SavedStays` hold in those sessions, too.  `SavedStays`
  excepts files with a write that was given up or failed: the task may still run.
- `TargetingInv` joins types with what holds between the tables, other clients and the
  preview: stored selectors parse, no label has a system key, and the preview is of no
  group this page has deleted.  `TaskPagesInv` joins types with the bound on polling.
- `SelectorMeansWhatItSays` compares the parser with a grammar that derives a text in
  any way: the text has at most one meaning, and the parser finds it.
- `TaskIsFollowed` excepts a read that failed, an answer for an earlier task, and a task
  opened again after its end, which may go on to be shown as ended; a page that only gets
  answers of its own task follows it to its first end.

### Fairness

`FairFleetSpec` assumes weak fairness of: the timer (`Poll`: `setInterval` fires for
ever), each next step of a handler (a call that is neither lost nor broken
returns), the worker loop (`StartTask`/`SkipTask`), the provider call (it returns or
throws; it has no fairness towards success), the answers, and time.  That a provider call
returns is true of tasks whose gateway request has a timer; an `agent.run` with a
`timeoutMs` that sets none may never return, and `ComesToRest` does not speak of it.  Nothing is
assumed of faults, creation, expiry or the ageing of facts.  Two behaviours limit
the liveness that holds:

- `MaxStall` must be positive: with `MaxStall = 0` a handler slot that is always
  busy would stop time, an artefact of counting handlers' age in ticks.
- `ComesToRest` holds with one run at a time only.  With overlapping runs a late
  ack that arrives between another run's claim and its row update marks the
  task done, the row update makes it leased again, and after the lease the same may happen
  again.

`Reconciler!FairSpec` assumes weak fairness of `ReadCampaigns` (the `setInterval` of
`index.ts` starts runs for ever) and of each next call of a run.  Heartbeats, labels,
facts, routes and stops have none.

`GatewayClient` assumes that the timers it has set fire (requests outside `Timed` have none) and that the library reports the close of
a socket that failed or is closing; nothing of the gateway, which may never answer.
`Registry` assumes that the handler's calls return, that whoever runs a sidecar starts it
again (faults are bounded), and that its timer fires.  `Console` assumes of the page that is
mounted that its timer fires and a read under way is served and answered unless it fails
(`PageReads` as one disjunction: with timers that keep firing no read is left behind
in the bounds).  Nothing is assumed of operators.

## 4. Theorems

All constants are arbitrary within the named assumptions of the modules: any
number of tasks, instances, campaigns, runs, request slots, sockets, pages and
groups, any lease times, backoffs and page sizes.  The assumptions say that bounds are
numbers, that marks such as `None` are none of the values they stand beside, that there
is an instance, and that the console starts from tables its routes could have
written (the stored selectors parse, the history of old tasks fits).

| Theorem | Says | Rests on |
|---|---|---|
| `LeaseTypeCorrect` | `LeaseTypeOK` is invariant | inductive by itself, with one lemma per group of actions |
| `LeasesAreExclusive` | `ExclusiveLease` | `GrantsHoldKeys`: a grant never outlasts the Redis key, and two positive grants of a task are one; SET NX succeeds only when the key is gone, so when no grant is left |
| `FailuresAreEarned` | `FailedIsEarned` | the count an ack handler has read never exceeds `attempts`, which only grows |
| `AttemptRowsAreCounted` | `AttemptRowsCounted` | the same invariant |
| `NoLeaseIsDoubled`, `LeasesOutliveKeys` | `NoDoubleLease`, `LeaseOutlivesKey` | hypothesis `HalfLease`: `2 * MaxStall < LeaseTtl(t)` for every task, and an invariant that relates the age of a handler in its critical section to what is left of the key and of the column |
| `TablesAreSound` | `LeaseInv` | the two above |
| `QueueFeedsReconciler` | `FeedsReconciler`: `LeaseSpec` refines `ProbeFeed`, for any tasks and clients | `FeedInv`: a result under way is one that the task's action may return, probe states are written for probes only, a snapshot is out of date only when there is one; and a lemma that a change of one row's status changes the set of open probe tasks by that task or not at all |
| `FleetFeedsReconciler` | the same of `FleetSpec` | `FleetImplementsLease` |
| `ReconcilerUsesFeed` | `Spec => FeedSpec`: the reconciler with its environment refines `ProbeFeed`, too | the types; each action changes the three shared things by one change of `FeedNext` or none |
| `FleetImplementsLease` | `FleetSpec => LeaseSpec`: the fleet is one of the behaviours of the open control plane, so all of the above hold of it | every joined action is an action of `LeaseNext` or leaves its variables alone |
| `InstallTypeCorrect` | `InstallTypeOK` | inductive by itself |
| `BundlesAreKept`, `GapsAreClosed`, `NothingDroppedEarly` | `BundleKept`, `NoGap`, `KeptUntilDone`, for any number of installations | `FilesInv`: no backup before the own rename, and who left the place empty still has what it took and is not on the way to removing it |
| `DirectoriesAreKept`, `PatchesApplyOnce` | `DirsKept`, `PatchedOnce`, for any number of executions and other writers | `ConfigInv`: a hash seen is at most the current one, and the same hash means the same list; a patch that has not come past its second try is counted |
| `MachinesAreTheirOwn` | `RegistryInv` | `ClaimsOK`: whoever holds, has saved or is about to be given a row has the row's name, or an operator gave the row's name; two who claim one row share a name or an operator gave one of theirs |
| `OneInstancePerName` | `NamesAreUnique`, for any number of machines, requests and faults and renames to any names | `NamesOK`: a request that missed a name which was neither raced nor given is alone with it, and no row has it |
| `ListIsComplete` | `WalkIsComplete`, for every page size | `WalkOK`: what was read is the rows in place, whole pages until the count is reached; rows are only added, so no page on the way is empty |
| `DoneTasksAreExecuted` | `DoneIsExecuted` | `WorkInv`: pulls and jobs belong to the run's host, `executed` is contained in `completed`, and an ok ack on its way is for a completed task |
| `CallsArePaidFor` | `FleetInv`: the fleet's types and `CallsAreCounted` | `CallsInv`: a run that has leased a task is entitled to one call until it makes it, loses the answer or restarts; calls and entitled runs together never exceed `attempts`, up to the bound on it |
| `WaitingHasAReason` | `BackoffOnlyAfterFailure` | inductive with the types: the write counts from what was read and sets count and time together, the reset clears both |
| `TableAndPromisesAgree`, `ClientHasAWayBack`, `HandshakeIsLive` | `GatewayInv`, `NeverStranded`, `HelloIsLive`, for any number of sockets and requests | `GatewayIInv`: these three, sockets that open one after the other, and what was sent, answered and waits of each request; they need each other |
| `ClientImplementsCall` | `CallSpec` for every request | every handler is a step of `GatewayCall` or none, in the states of `GatewayIInv` |
| `ReconcilerTypeCorrect` | `ReconcilerTypeOK` | with it: a request that has read its row writes a generation within the bound, a run that is not over has a campaign |
| `ProbesDoNotPileUp` | `ProbesBounded`, for any number of overlapping runs | a run that has found no open probe counts as the probe it is about to insert; one that is opened again counts in `reopened` |
| `TasksAreBounded` | `ExecutionsBounded`, for any number of overlapping runs and stops | a target without a known task has at most a task for each run about to update its row and one for each that stopped before it could; once one is known only runs that had read the row before insert |
| `TasksPassTheGate` | `GateIsChecked` | hypothesis `OneRun`; the row the gate's loop works on is the row in the table, and a target left pending has passed |
| `GateHoldsWhenRunsOverlap` | `GateIsChecked`, for any number of overlapping runs, stops and changes of campaigns but for their selectors | hypothesis `FixedScope`; `OverlapInv`: targets are in scope, a run that comes to its gate has added all there are in scope, and no step makes a target that is passed, blocked or further into a pending one that has not passed |
| `TargetsLiveAsTold` | `LifeSpec` for every campaign, instance and generation | hypothesis `OneRun`; every step is a step of `TargetLife` or none |
| `GenerationsRunOneThing` | `OneContentPerGeneration` | hypothesis `OneEditor`; the row, the runs' copies, the tasks and what an open PATCH has read say the same of a generation, and none is of one the row has not reached |
| `ReconcilerIsSafe` | `ReconcilerInv` | the theorems above, under both hypotheses |
| `CacheIsOfTheFile`, `ReportedSavesStay`, `PageFollowsSelection` | `FilesInv`, `SavedStays`, `PageShowsSelection`, for any number of instances, files, calls and redeliveries | `FilesIInv`: what a task has read or written the file has had; one save is waited for at a time, and once its task has run the file has its text; the latest list is for the selection |
| `TablesAndPreviewAreLegal` | `TargetingInv`, against any other clients | `TargetingIInv`: an operation has what its kind needs and a read what was asked for; identifiers are not given twice, so a group deleted here is gone for good, and a preview under way is for none of these |
| `DraftsAreKept` | `DraftsKept` | by the cases of the steps; no invariant is needed |
| `EveryOperatorHasItsNegation` | `NegationsAreComplements`, for every text and all words | a text of one piece is parsed to what `ParseExpression` makes of it, and that is one of six forms or refused |
| `PollingIsBounded` | `TaskPagesInv`, for any tables, page sizes and visits | `TaskPagesIInv`: one timeout at most, each read in a slot of its own and for a task there is, a read's page no longer than a page, the dialog on a mounted page only; tables only grow, so neither page disturbs the other |

Why strengthening is needed: none of these is inductive alone.  `ExclusiveLease`
says nothing of the key, so a claim could add a second grant; `FailedIsEarned`
says nothing of what an ack handler has read; `DoneIsExecuted` nothing of acks
under way; `NoSharedIdentity` nothing of tokens in files and requests.

`ProbeFeed` is how the two halves of the control plane are put together without a
product of their states, which TLC could not enumerate.  `QueueFeedsReconciler` says that
whatever the queue does to the shared state is a step the reconciler's model expects
(`QueueSteps`, `ProbeReopens`) or an insertion; `ReconcilerUsesFeed` that whatever the
reconciler does to it is a step of the same specification.  So the theorems about the
reconciler, which hold for every environment that keeps to `QueueSteps` and `ProbeReopens`,
do not rest on guesses about the queue.  What is not proved is the count: in `Campaigns` the
number of probe tasks opened again is `MaxReopens`, an arbitrary constant; how many the
queue really opens again depends on how many late updates there are.

Each of these invariants was an invariant of a TLC run before it was proved.

Some theorems have hypotheses on what happens around the code.  They are not conveniences;
without them the properties are false, and the code enforces none of them.

- `HalfLease` is what the code relies on without saying: a pull handler is fast
  compared with the shortest lease (`PROBE_TASK_LEASE_MS`, 60 s, `tasks-pull.ts:17`).  With a
  slower handler a row update can land on a lease granted to another request in the
  meantime.  `MCTaskLease.cfg` satisfies it (1 tick of 3).
- `OneRun`: at most one reconcile run is under way (`\A r, s \in Runs : r = s`).  It is
  so in one server process whose runs end before the interval does; `executed_twice`
  (section 5) is what happens otherwise.  Runs may still stop after any call.
  `MCReconcilerSingle.cfg` satisfies it; `MCReconcilerOverlap.cfg` does not, and the
  theorems without the hypothesis are what remains then.
- `FixedScope`: no label moves and no PATCH carries a selector (`LabelMoves = {}`,
  `b.selector = Keep`).  It takes the place of `OneRun` for `GateIsChecked`: runs may
  overlap, stop anywhere and hold old copies of campaigns that are created, patched,
  closed and deleted meanwhile.  `MCReconcilerOverlap.cfg` satisfies it.
- `OneEditor`: at most one PATCH or DELETE is between its two calls.  Two requests that
  both read the row before either writes it count one generation for two contents.

Only model-checked:

- liveness under fairness (`ComesToRest`, `CatchUp`, `EveryRequestEnds`, `Reconnects`,
  `ComesOnline`, `ListCatchesUp`, `TaskIsFollowed` and what else section 3 lists under
  fairness): out of the prover's reach;
- `SelectorMeansWhatItSays`: the grammar's derivations are a recursive function on the
  text, and what it computes for every text takes an induction over data, which is out of
  the prover's reach as well.

## 5. Promises the code does not keep

`executed_twice` is a run that ends in a counterexample and a finding in
`PROJECT.json`: two overlapping reconcile runs insert two tasks for one target.

What follows was seen while modelling.  No run states it; the models have the
behaviour, and the properties above say how far they reach in spite of it.

- *Facts.*  After a lost ack a gateway probe is delivered again, skipped as executed and
  acknowledged without a result, which is stored as "unreachable" (`tasks-ack.ts:142`,
  against `docs/api.md:167`).  A skills snapshot taken before an installation and
  acknowledged after it clears the mark that the installation made (`tasks-ack.ts:168`,
  against `docs/bulk-management.md:163`).
- *Campaigns.*  A PATCH that repeats the stored payload with its members in another order
  than jsonb keeps them starts a new generation (`campaigns.ts:190`, against
  `docs/bulk-management.md:101`).
- *Gateway client.*  A request made between a close and the next connection waits on a
  promise that `openSocket` replaces unsettled, and ends by its timeout only.  A request
  whose `timeoutMs` is not a positive number has no timer (`gateway-client.ts:364`);
  `agent.run` passes the payload's unchecked (`openclaw.ts:93`), so such a task waits for
  ever on a promise that was replaced, or on a live socket that stays silent.  The challenge
  of an old socket, while a new one is connecting, makes `ws.send` throw uncaught.  A
  connect that is refused on a socket that stays open leaves the client unready until
  the close.
- *Instances.*  An operator may give an instance the host name of another machine
  (`instances.ts:6-7`, `124-125`; `001_init.sql:3-8` has no UNIQUE).  If that machine has not
  enrolled yet, it enrolls as this instance and shares it with the machine that holds it;
  otherwise two instances have the name, and after a lost state file it may get either.
- *Skill bundles.*  With three overlapping installations a slow rollback can put an older
  bundle over one that has succeeded.  A wrong checksum or a failed extraction leaves the
  staging directory, a failed configuration patch the backup.
- *Files page.*  Selecting a cached file does not outdate a read under way, which then
  lands in the editor of the file selected since.  A save answered after the selection
  changed sets the editor to the saved text and stores the list on show under the old
  instance's key.  Text typed during a save is overwritten.
- *Groups and labels.*  Lists of groups ask for no page, so the first ten are all there
  are.  Answers to reads for a selection that is gone are shown.  A description cannot be
  cleared; draft edits typed during a save are lost.  The system labels that the
  documents speak of are read-only in the routes and written nowhere.
- *Task pages.*  One failed poll ends the polling of the task page for good.  A late answer
  for an earlier task is shown under the new one and, if that task has ended, stays;
  Retry then repeats the wrong row.  An ack sets the status before the attempt, artifact
  and event are written, so the page may show a task as done without a result and stop.
  A task that a late pull or acknowledgement opens again stays shown as ended, since the
  page has stopped polling.  The answer to a creation moves the window after the operator
  has left.

## 6. Not modelled, and why

Artifacts, retention and redaction (nothing decides on them); the overview and health
routes, the command-line tool, configuration and logging (no state machine of their
own); uploading, listing and deleting skill bundles (single statements on rows nothing
else changes); the console's pages of campaigns, skill bundles and overview (forms and
lists of the kinds modelled: drafts as in `Targeting`, polled lists as in `TaskList`);
authentication (a request that fails it changes nothing); the parsing of version
strings (`Gate` takes the comparison as an arbitrary function); providers beyond what a
call may return.  Groups do not change while `TaskLease` has tasks for them.  The skew
between the clocks of Postgres, Redis and the server is not modelled, nor are instances
enrolled while a reconcile run is under way.  That a gate asks for a skills snapshot is in
`Gate`, but no run has a campaign that needs one.

## 7. What is left

1. *Breadth.*  The pages of campaigns and skill bundles; version parsing and redaction
   against reference definitions.
2. *Depth.*  `Reconciler` and `TaskLease` meet in `ProbeFeed`, which shares facts, probe
   states and probe tasks; the tasks of campaigns, and `LinkTask` on rows the queue may
   already have settled, are still on one side only.  A session of the console that
   changes pages.
3. *Proofs.*  Every safety invariant and action property that a run checks is a theorem but for
   `SelectorMeansWhatItSays`.  What is left are theorems about more: `OneContentPerGeneration` for requests that
   overlap but carry the same content, and the refinement of a task of `TaskTable` by one of
   `TaskLease`, for which deliveries under way have to be counted there.
