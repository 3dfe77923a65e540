----------------------------- MODULE Reconciler -----------------------------
(***************************************************************************)
(* The campaign reconciler: reconcileOpenCampaignsOnce, started by a timer *)
(* whether or not earlier runs are over, on the tables of Campaigns.       *)
(*                                                                         *)
(* A run copies the open campaigns, the instances' facts, their labels and *)
(* heartbeats, and then works on its copies: it adds the targets in scope, *)
(* drops those out of scope, passes the gate or blocks, and inserts a task *)
(* for each pending target.  Each awaited call is a step; a run may stop   *)
(* after any of them, because the call throws or the process dies.         *)
(*                                                                         *)
(* The order of a loop over instances is left open.                        *)
(***************************************************************************)
EXTENDS Campaigns, Sequences

CONSTANTS
  Runs,             \* slots for the runs that may overlap
  MaxCrashes        \* runs that stop half way, in all

ASSUME ReconcilerConstants ==
  /\ MaxCrashes \in Nat
  /\ IsFiniteSet(Runs)
  /\ Instances # {}

VARIABLES
  target,           \* the table campaign_instances
  execs,            \* the tasks inserted for each target, by what they run
  pc, todo, saw, sawFacts, sawLabels, sawOnline,   \* each run and its copies
  queue, row, focus, probeKind,                    \* its loops
  crashes,          \* runs that stopped half way
  cleared           \* history: targets that passed the gate in some run

copyVars == <<todo, saw, sawFacts, sawLabels, sawOnline>>
loopVars == <<queue, row, focus, probeKind>>
runVars == <<pc, copyVars, loopVars>>
tableVars == <<campaign, editVars, probes, target, execs>>
vars == <<tableVars, worldVars, runVars, crashes, cleared>>

Keys == CampaignIds \X Generations \X Instances

TargetRow ==
  [state : {"absent", "pending", "blocked", "queued", "removed"},
   reason : Reasons \cup {"none"}, tasked : BOOLEAN]

Content == [action : CampaignActions, payload : Payloads]

RunPcs == {"idle", "instances", "labels", "online", "add", "drop", "gate",
           "backoff", "look", "probe", "queue", "link"}

ReconcilerTypeOK ==
  /\ CampaignTypeOK
  /\ target \in [Keys -> TargetRow]
  /\ execs \in [Keys -> Seq(Content)]
  /\ pc \in [Runs -> RunPcs]
  /\ todo \in [Runs -> SUBSET CampaignIds]
  /\ saw \in [Runs -> [CampaignIds -> CampaignRow]]
  /\ sawFacts \in [Runs -> [Instances -> FactRow]]
  /\ sawLabels \in [Runs -> [Instances -> LabelSets]]
  /\ sawOnline \in [Runs -> [Instances -> BOOLEAN]]
  /\ queue \in [Runs -> SUBSET Instances]
  /\ row \in [Runs -> [Instances -> TargetRow]]
  /\ focus \in [Runs -> Instances]
  /\ probeKind \in [Runs -> ProbeKinds]
  /\ crashes \in 0 .. MaxCrashes
  /\ cleared \subseteq Keys

NoTarget == [state |-> "absent", reason |-> "none", tasked |-> FALSE]
NoRow == [i \in Instances |-> NoTarget]
SomeInstance == CHOOSE i \in Instances : TRUE

\* The value of a run's copies between two runs.
NoCampaigns == [c \in CampaignIds |-> SomeRow]
NoFacts == [i \in Instances |->
  [reachable |-> "null", reachableFresh |-> FALSE, version |-> NoVersion,
   versionFresh |-> FALSE, snapshot |-> NoSnapshot, snapshotFresh |-> FALSE,
   invalidated |-> FALSE]]
NotOnline == [i \in Instances |-> FALSE]

Init ==
  /\ CampaignInit
  /\ target = [k \in Keys |-> NoTarget]
  /\ execs = [k \in Keys |-> <<>>]
  /\ pc = [r \in Runs |-> "idle"]
  /\ todo = [r \in Runs |-> {}]
  /\ saw = [r \in Runs |-> NoCampaigns]
  /\ sawFacts = [r \in Runs |-> NoFacts]
  /\ sawLabels = [r \in Runs |-> FirstLabels]
  /\ sawOnline = [r \in Runs |-> NotOnline]
  /\ queue = [r \in Runs |-> {}]
  /\ row = [r \in Runs |-> NoRow]
  /\ focus = [r \in Runs |-> SomeInstance]
  /\ probeKind = [r \in Runs |-> "gateway"]
  /\ crashes = 0
  /\ cleared = {}

-----------------------------------------------------------------------------
(* The copies a run works on.                                              *)

Live(c) == campaign[c].status = "open" /\ ~campaign[c].expired

\* A run that finds no open campaign does nothing further.
ReadCampaigns(r) ==
  /\ pc[r] = "idle"
  /\ \E c \in CampaignIds : Live(c)
  /\ todo' = [todo EXCEPT ![r] = {c \in CampaignIds : Live(c)}]
  /\ saw' = [saw EXCEPT ![r] = campaign]
  /\ pc' = [pc EXCEPT ![r] = "instances"]
  /\ UNCHANGED <<sawFacts, sawLabels, sawOnline, loopVars>>
  /\ UNCHANGED <<tableVars, worldVars, crashes, cleared>>

ReadInstances(r) ==
  /\ pc[r] = "instances"
  /\ sawFacts' = [sawFacts EXCEPT ![r] = facts]
  /\ pc' = [pc EXCEPT ![r] = "labels"]
  /\ UNCHANGED <<todo, saw, sawLabels, sawOnline, loopVars>>
  /\ UNCHANGED <<tableVars, worldVars, crashes, cleared>>

ReadLabels(r) ==
  /\ pc[r] = "labels"
  /\ sawLabels' = [sawLabels EXCEPT ![r] = label]
  /\ queue' = [queue EXCEPT ![r] = Instances]
  /\ pc' = [pc EXCEPT ![r] = "online"]
  /\ UNCHANGED <<todo, saw, sawFacts, sawOnline, row, focus, probeKind>>
  /\ UNCHANGED <<tableVars, worldVars, crashes, cleared>>

ReadOnline(r, i) ==
  /\ pc[r] = "online"
  /\ i \in queue[r]
  /\ sawOnline' = [sawOnline EXCEPT ![r][i] = online[i]]
  /\ queue' = [queue EXCEPT ![r] = @ \ {i}]
  /\ UNCHANGED <<pc, todo, saw, sawFacts, sawLabels, row, focus, probeKind>>
  /\ UNCHANGED <<tableVars, worldVars, crashes, cleared>>

-----------------------------------------------------------------------------
(* One campaign after the other, the oldest first.                         *)

Current(r) == CHOOSE c \in todo[r] : \A d \in todo[r] : c <= d

Key(r, i) == <<Current(r), saw[r][Current(r)].generation, i>>

InScope(r, c) ==
  {i \in Instances : sawLabels[r][i] \in Selects[saw[r][c].selector]}

Matching(r) == InScope(r, Current(r))

\* All copies are made: the oldest campaign's targets are added.
BeginCampaigns(r) ==
  /\ pc[r] = "online"
  /\ queue[r] = {}
  /\ queue' = [queue EXCEPT ![r] = Matching(r)]
  /\ pc' = [pc EXCEPT ![r] = "add"]
  /\ UNCHANGED <<copyVars, row, focus, probeKind>>
  /\ UNCHANGED <<tableVars, worldVars, crashes, cleared>>

\* insert ... on conflict do nothing
AddTarget(r, i) ==
  /\ pc[r] = "add"
  /\ i \in queue[r]
  /\ target' = [target EXCEPT ![Key(r, i)] =
       IF @.state = "absent" THEN [@ EXCEPT !.state = "pending"] ELSE @]
  /\ queue' = [queue EXCEPT ![r] = @ \ {i}]
  /\ UNCHANGED <<pc, copyVars, row, focus, probeKind>>
  /\ UNCHANGED <<campaign, editVars, probes, execs, worldVars, crashes, cleared>>

\* The targets of the run's campaign and generation in one of these states.
TargetsIn(r, states) == {i \in Instances : target[Key(r, i)].state \in states}

OpenStates == {"pending", "blocked", "queued"}

ToDrop(r) == TargetsIn(r, OpenStates) \ Matching(r)

ReadTargets(r) ==
  /\ pc[r] = "add"
  /\ queue[r] = {}
  /\ queue' = [queue EXCEPT ![r] = ToDrop(r)]
  /\ pc' = [pc EXCEPT ![r] = "drop"]
  /\ UNCHANGED <<copyVars, row, focus, probeKind>>
  /\ UNCHANGED <<tableVars, worldVars, crashes, cleared>>

DropTarget(r, i) ==
  /\ pc[r] = "drop"
  /\ i \in queue[r]
  /\ target' = [target EXCEPT ![Key(r, i)].state =
       IF @ \in OpenStates THEN "removed" ELSE @]
  /\ queue' = [queue EXCEPT ![r] = @ \ {i}]
  /\ UNCHANGED <<pc, copyVars, row, focus, probeKind>>
  /\ UNCHANGED <<campaign, editVars, probes, execs, worldVars, crashes, cleared>>

-----------------------------------------------------------------------------
(* The gate, and the probes of ensureProbeTaskScheduled.                   *)

ReadCandidates(r) ==
  /\ pc[r] = "drop"
  /\ queue[r] = {}
  /\ queue' = [queue EXCEPT ![r] = TargetsIn(r, {"pending", "blocked"})]
  /\ row' = [row EXCEPT ![r] = [i \in Instances |->
       IF i \in queue'[r] THEN target[Key(r, i)] ELSE NoTarget]]
  /\ pc' = [pc EXCEPT ![r] = "gate"]
  /\ UNCHANGED <<copyVars, focus, probeKind>>
  /\ UNCHANGED <<tableVars, worldVars, crashes, cleared>>

\* The run is done with instance i, and with the row it read of it.
LoopGoesOn(r, i) ==
  /\ queue' = [queue EXCEPT ![r] = @ \ {i}]
  /\ row' = [row EXCEPT ![r][i] = NoTarget]

\* What the gate says of instance i, by the run's copies and its clock.
Verdict(r, i, f) ==
  LET c == saw[r][Current(r)] IN
  GateVerdict(c.action, sawOnline[r][i], f, c.minVersion)

\* The update names the row by its key only: it applies whatever the row's
\* state has become.
GateBlocks(r, i) ==
  /\ pc[r] = "gate"
  /\ i \in queue[r]
  /\ \E f \in Aged(sawFacts[r][i]) :
       LET verdict == Verdict(r, i, f) IN
       /\ verdict # "ok"
       /\ sawFacts' = [sawFacts EXCEPT ![r][i] = f]
       /\ target' = [target EXCEPT ![Key(r, i)] =
            IF row[r][i].state = "blocked" /\ row[r][i].reason = verdict THEN @
            ELSE [@ EXCEPT !.state = "blocked", !.reason = verdict]]
       /\ \/ /\ NeedsProbes(verdict) = {}
             /\ UNCHANGED <<pc, focus, probeKind>>
          \/ \E k \in NeedsProbes(verdict) :
               /\ pc' = [pc EXCEPT ![r] = "backoff"]
               /\ focus' = [focus EXCEPT ![r] = i]
               /\ probeKind' = [probeKind EXCEPT ![r] = k]
  /\ LoopGoesOn(r, i)
  /\ UNCHANGED <<todo, saw, sawLabels, sawOnline>>
  /\ UNCHANGED <<campaign, editVars, probes, execs, worldVars, crashes, cleared>>

\* Mutant: the name of the event is written as the state.
EventAsState(t, seen) ==
  IF seen.state = "blocked" THEN [t EXCEPT !.state = "unblocked", !.reason = "none"] ELSE t

\* Mutant: a blocked target is never taken up again.
StaysAsItIs(t, seen) == t

\* The target after its gate was passed; the update of a blocked one names the
\* row by its key only.
AfterPass(t, seen) ==
  IF seen.state = "blocked" THEN [t EXCEPT !.state = "pending", !.reason = "none"] ELSE t

GatePasses(r, i) ==
  /\ pc[r] = "gate"
  /\ i \in queue[r]
  /\ \E f \in Aged(sawFacts[r][i]) :
       /\ Verdict(r, i, f) = "ok"
       /\ sawFacts' = [sawFacts EXCEPT ![r][i] = f]
  /\ target' = [target EXCEPT ![Key(r, i)] = AfterPass(@, row[r][i])]
  /\ cleared' = cleared \cup {Key(r, i)}
  /\ LoopGoesOn(r, i)
  /\ UNCHANGED <<pc, todo, saw, sawLabels, sawOnline, focus, probeKind>>
  /\ UNCHANGED <<campaign, editVars, probes, execs, worldVars, crashes>>

\* next_allowed_at is compared with the time at which the run took up the
\* campaign: a delay that is over by now may still hold for the run.
ReadBackoff(r) ==
  LET p == probeState[focus[r]][probeKind[r]] IN
  /\ pc[r] = "backoff"
  /\ \E waits \in {p.waiting, p.failures > 0} :
       pc' = [pc EXCEPT ![r] = IF waits THEN "gate" ELSE "look"]
  /\ UNCHANGED <<copyVars, loopVars, tableVars, worldVars, crashes, cleared>>

\* Mutant: open probe tasks are not looked for.
NoneOpen(r) == TRUE

ProbeMissing(r) == probes[focus[r]][probeKind[r]] = 0

\* The query also finds the probe tasks of operators and of campaigns, which
\* are not counted in probes.
LookForProbe(r) ==
  /\ pc[r] = "look"
  /\ \E others \in BOOLEAN :
       pc' = [pc EXCEPT ![r] = IF ProbeMissing(r) /\ ~others THEN "probe" ELSE "gate"]
  /\ UNCHANGED <<copyVars, loopVars, tableVars, worldVars, crashes, cleared>>

InsertProbe(r) ==
  /\ pc[r] = "probe"
  /\ ProbeOpens(focus[r], probeKind[r])
  /\ pc' = [pc EXCEPT ![r] = "gate"]
  /\ UNCHANGED <<copyVars, loopVars, worldVars, crashes, cleared>>
  /\ UNCHANGED <<campaign, editVars, target, execs>>

-----------------------------------------------------------------------------
(* The tasks.                                                              *)

\* Mutant: targets that have a task are selected again.
AnyPending(r) == TargetsIn(r, {"pending", "queued"})

\* Mutant: blocked targets are selected, too.
EvenBlocked(r) ==
  {i \in TargetsIn(r, {"pending", "blocked"}) : ~target[Key(r, i)].tasked}

Untasked(r) == {i \in TargetsIn(r, {"pending"}) : ~target[Key(r, i)].tasked}

ReadPending(r) ==
  /\ pc[r] = "gate"
  /\ queue[r] = {}
  /\ queue' = [queue EXCEPT ![r] = Untasked(r)]
  /\ pc' = [pc EXCEPT ![r] = "queue"]
  /\ UNCHANGED <<copyVars, row, focus, probeKind>>
  /\ UNCHANGED <<tableVars, worldVars, crashes, cleared>>

ContentOf(c) == [action |-> c.action, payload |-> c.payload]

\* The task is there; its target does not know it yet.
InsertTask(r, i) ==
  /\ pc[r] = "queue"
  /\ i \in queue[r]
  /\ execs' = [execs EXCEPT ![Key(r, i)] = Append(@, ContentOf(saw[r][Current(r)]))]
  /\ focus' = [focus EXCEPT ![r] = i]
  /\ pc' = [pc EXCEPT ![r] = "link"]
  /\ UNCHANGED <<copyVars, queue, row, probeKind, worldVars, crashes, cleared>>
  /\ UNCHANGED <<campaign, editVars, probes, target>>

\* The update names the row by its key only.
LinkTask(r) ==
  /\ pc[r] = "link"
  /\ target' = [target EXCEPT ![Key(r, focus[r])].state = "queued",
                              ![Key(r, focus[r])].tasked = TRUE]
  /\ queue' = [queue EXCEPT ![r] = @ \ {focus[r]}]
  /\ pc' = [pc EXCEPT ![r] = "queue"]
  /\ UNCHANGED <<copyVars, row, focus, probeKind, worldVars, crashes, cleared>>
  /\ UNCHANGED <<campaign, editVars, probes, execs>>

NextCampaign(r) ==
  LET rest == todo[r] \ {Current(r)} IN
  /\ pc[r] = "queue"
  /\ queue[r] = {}
  /\ rest # {}
  /\ todo' = [todo EXCEPT ![r] = rest]
  /\ queue' = [queue EXCEPT ![r] =
       InScope(r, CHOOSE c \in rest : \A d \in rest : c <= d)]
  /\ pc' = [pc EXCEPT ![r] = "add"]
  /\ UNCHANGED <<saw, sawFacts, sawLabels, sawOnline, row, focus, probeKind>>
  /\ UNCHANGED <<tableVars, worldVars, crashes, cleared>>

\* The run is over: its slot is free.
RunEnds(r) ==
  /\ pc' = [pc EXCEPT ![r] = "idle"]
  /\ todo' = [todo EXCEPT ![r] = {}]
  /\ saw' = [saw EXCEPT ![r] = NoCampaigns]
  /\ sawFacts' = [sawFacts EXCEPT ![r] = NoFacts]
  /\ sawLabels' = [sawLabels EXCEPT ![r] = FirstLabels]
  /\ sawOnline' = [sawOnline EXCEPT ![r] = NotOnline]
  /\ queue' = [queue EXCEPT ![r] = {}]
  /\ row' = [row EXCEPT ![r] = NoRow]
  /\ focus' = [focus EXCEPT ![r] = SomeInstance]
  /\ probeKind' = [probeKind EXCEPT ![r] = "gateway"]
  /\ UNCHANGED <<tableVars, worldVars, cleared>>

RunReturns(r) ==
  /\ pc[r] = "queue"
  /\ queue[r] = {}
  /\ todo[r] = {Current(r)}
  /\ RunEnds(r)
  /\ UNCHANGED crashes

RunStops(r) ==
  /\ pc[r] # "idle"
  /\ crashes < MaxCrashes
  /\ crashes' = crashes + 1
  /\ RunEnds(r)

-----------------------------------------------------------------------------
RunSteps(r) ==
  \/ ReadInstances(r) \/ ReadLabels(r) \/ BeginCampaigns(r)
  \/ ReadTargets(r) \/ ReadCandidates(r) \/ ReadPending(r)
  \/ ReadBackoff(r) \/ LookForProbe(r) \/ InsertProbe(r)
  \/ \E i \in Instances :
       \/ ReadOnline(r, i) \/ AddTarget(r, i) \/ DropTarget(r, i)
       \/ GateBlocks(r, i) \/ GatePasses(r, i) \/ InsertTask(r, i)
  \/ LinkTask(r) \/ NextCampaign(r) \/ RunReturns(r)

Next ==
  \/ RouteSteps /\ UNCHANGED <<target, execs, runVars, crashes, cleared>>
  \/ WorldSteps /\ UNCHANGED <<target, execs, runVars, crashes, cleared>>
  \/ \E r \in Runs : ReadCampaigns(r) \/ RunSteps(r) \/ RunStops(r)

Spec == Init /\ [][Next]_vars

(***************************************************************************)
(* Fairness: the timer fires, and a call that does not throw returns.      *)
(***************************************************************************)
FairSpec ==
  /\ Spec
  /\ \A r \in Runs :
       /\ WF_vars(ReadCampaigns(r))
       /\ WF_vars(RunSteps(r))

-----------------------------------------------------------------------------
(* Properties.                                                             *)

(* The tasks inserted for one target, in one generation of one campaign,   *)
(* are bounded by the runs that may overlap and the runs that stopped half *)
(* way: each overlapping run and each stop between the insert of a task    *)
(* and the update of its target costs at most one task too many.           *)
ExecutionsBounded ==
  \A k \in Keys : Len(execs[k]) <= Cardinality(Runs) + crashes

(* The reconciler's probe tasks do not pile up: of one kind and instance   *)
(* no more are open than runs may overlap, although each run looks in one  *)
(* call and inserts in another, and settled ones that a late update of the *)
(* task queue opened again.                                                *)
ProbesBounded ==
  \A i \in Instances : \A k \in ProbeKinds :
    probes[i][k] <= Cardinality(Runs) + reopened

(* All tasks of one generation of a campaign run the same thing, whichever *)
(* runs inserted them and however old their copies of the campaign were.   *)
OneContentPerGeneration ==
  \A k1, k2 \in Keys :
    k1[1] = k2[1] /\ k1[2] = k2[2] =>
      \A m \in DOMAIN execs[k1], n \in DOMAIN execs[k2] : execs[k1][m] = execs[k2][n]

(* No task without a gate: when a task is inserted the gate was passed for *)
(* its target, in this generation (bulk-management.md, Gate: an instance   *)
(* whose facts are not satisfied is blocked).  It holds while runs do not  *)
(* overlap, or do and neither labels nor selectors change: the pending     *)
(* targets are read again after the gate.                                  *)
GateIsChecked == \A k \in Keys : execs[k] # <<>> => k \in cleared

(* With runs that do not overlap a target has the life that operators are  *)
(* told of (TargetLife): a run that stops half way costs at most one task, *)
(* a target that has left is never run again, one that was run and marked  *)
(* neither.                                                                *)
Stage(k) ==
  CASE target[k].state = "absent" -> "none"
    [] target[k].state \in {"pending", "blocked"} -> "waiting"
    [] target[k].state = "queued" -> "queued"
    [] target[k].state = "removed" -> "gone"

Life == INSTANCE TargetLife WITH
  Targets <- Keys,
  stage <- [k \in Keys |-> Stage(k)],
  tasks <- [k \in Keys |-> Len(execs[k])],
  stops <- crashes

LifeSpec == Life!LifeSpec

\* Nothing stands between the target and its task.
Ready(k) ==
  LET c == campaign[k[1]]  i == k[3] IN
  /\ Live(k[1])
  /\ c.generation = k[2]
  /\ label[i] \in Selects[c.selector]
  /\ GateVerdict(c.action, online[i], facts[i], c.minVersion) = "ok"

(* A target that stays ready gets its task in the end, although runs stop  *)
(* half way and leave targets behind in any state (bulk-management.md,     *)
(* "Reconciliation must be restart-safe").                                 *)
CatchUp == \A k \in Keys : <>[]Ready(k) => <>(execs[k] # <<>>)

(***************************************************************************)
(* What the documents promise and the code does not keep.                  *)
(***************************************************************************)

(* v0.1-scope.md, "per-instance per-campaign generation executes at most   *)
(* once".                                                                  *)
AtMostOnce == \A k \in Keys : Len(execs[k]) <= 1

(* What holds between any two calls of a run: types, one content for each  *)
(* generation, and no task without a gate.                                 *)
ReconcilerInv == ReconcilerTypeOK /\ OneContentPerGeneration /\ GateIsChecked
=============================================================================
