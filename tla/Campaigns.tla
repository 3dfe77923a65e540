----------------------------- MODULE Campaigns -----------------------------
(***************************************************************************)
(* The campaigns table and the handlers that change it: POST, PATCH, close *)
(* and delete of /v1/campaigns; and what changes around the reconciler     *)
(* while it works: labels, heartbeats, facts and the fate of probe tasks.  *)
(*                                                                         *)
(* PATCH and DELETE read the row in one call and write it in another.  A   *)
(* request occupies an editor slot in between.                             *)
(***************************************************************************)
EXTENDS Gate, ProbeFeed, FiniteSets

CONSTANTS
  NumCampaigns,     \* campaigns 1 .. NumCampaigns, in order of created_at
  NewCampaigns,     \* the rows POST may insert
  Changes,          \* the bodies PATCH may carry
  Keep,             \* a field that the body of a PATCH leaves out
  Payloads,         \* payloads, as requests spell them
  Stored,           \* what a jsonb column keeps of each: its members, reordered
  Selectors,        \* selectors of campaigns
  LabelSets,        \* sets of labels of an instance
  Selects,          \* the label sets each selector matches
  FirstLabels,      \* the labels of each instance at first
  LabelMoves,       \* the changes of labels that operators make
  Lasting,          \* campaigns that never get an expires_at
  Flaky,            \* the instances whose heartbeat may lapse
  Editors,          \* slots for concurrent PATCH and DELETE requests
  GenerationBound,  \* generations are counted up to this bound
  MaxReopens        \* settled probe tasks that are opened again, in all

CampaignIds == 1 .. NumCampaigns
Generations == 1 .. GenerationBound

CampaignRow ==
  [status : {"absent", "open", "closed", "deleted"}, expired : BOOLEAN,
   action : CampaignActions, payload : Payloads, selector : Selectors,
   minVersion : MinVersions \cup {NoMinVersion}, generation : Generations]

Change ==
  [action : CampaignActions \cup {Keep}, payload : Payloads \cup {Keep},
   selector : Selectors \cup {Keep}, minVersion : MinVersions \cup {NoMinVersion, Keep},
   expires : {"later", Keep}]

ASSUME CampaignConstants ==
  /\ NumCampaigns \in Nat \ {0}
  /\ GenerationBound \in Nat \ {0}
  /\ MaxReopens \in Nat
  /\ NewCampaigns # {}
  /\ NewCampaigns \subseteq {c \in CampaignRow :
       /\ c.status = "open"
       /\ ~c.expired
       /\ c.generation = 1
       /\ c.payload = Stored[c.payload]}
  /\ Changes # {}
  /\ Changes \subseteq Change
  /\ Stored \in [Payloads -> Payloads]
  /\ \A p \in Payloads : Stored[Stored[p]] = Stored[p]
  /\ Keep \notin CampaignActions \cup Payloads \cup Selectors \cup MinVersions \cup {NoMinVersion}
  /\ Selects \in [Selectors -> SUBSET LabelSets]
  /\ FirstLabels \in [Instances -> LabelSets]
  /\ LabelMoves \subseteq LabelSets \X LabelSets
  /\ Flaky \subseteq Instances
  /\ ProbeResults \in [ProbeKinds -> SUBSET AnyResult]

VARIABLES
  campaign,                   \* the campaigns table
  editing, edited, body, read,   \* each request: step, campaign, change, row
  label,                      \* instance_labels
  online,                     \* the Redis keys hb:<instance>
  reopened                    \* history: probe tasks opened again so far

editVars == <<editing, edited, body, read>>
worldVars == <<label, online, reopened, factVars>>

CampaignTypeOK ==
  /\ campaign \in [CampaignIds -> CampaignRow]
  /\ editing \in [Editors -> {"idle", "patch", "delete"}]
  /\ edited \in [Editors -> CampaignIds]
  /\ body \in [Editors -> Changes]
  /\ read \in [Editors -> CampaignRow]
  /\ label \in [Instances -> LabelSets]
  /\ online \in [Instances -> BOOLEAN]
  /\ reopened \in 0 .. MaxReopens
  /\ probes \in [Instances -> [ProbeKinds -> Nat]]
  /\ FactsTypeOK

SomeRow == [CHOOSE c \in NewCampaigns : TRUE EXCEPT !.status = "absent"]
SomeChange == CHOOSE b \in Changes : TRUE

CampaignInit ==
  /\ campaign = [c \in CampaignIds |-> SomeRow]
  /\ editing = [e \in Editors |-> "idle"]
  /\ edited = [e \in Editors |-> 1]
  /\ body = [e \in Editors |-> SomeChange]
  /\ read = [e \in Editors |-> SomeRow]
  /\ label = FirstLabels
  /\ online = [i \in Instances |-> FALSE]
  /\ reopened = 0
  /\ FeedInit

-----------------------------------------------------------------------------
(* The routes of /v1/campaigns.                                            *)

CreateCampaign(c) ==
  /\ campaign[c].status = "absent"
  /\ \A d \in CampaignIds : d < c => campaign[d].status # "absent"
  /\ \E row \in NewCampaigns : campaign' = [campaign EXCEPT ![c] = row]
  /\ UNCHANGED <<editVars, probes, worldVars>>

Present(c) == campaign[c].status \notin {"absent", "deleted"}

\* Mutant: a change of the payload alone is not noticed.
GenerationOfAction(row, b) ==
  IF b.action \in {Keep, row.action} THEN row.generation ELSE row.generation + 1

\* The generation is computed from the row as it was read.  Payloads are
\* compared as text: the request's spelling with the stored one.
NextGeneration(row, b) ==
  IF b.action \in {Keep, row.action} /\ b.payload \in {Keep, row.payload}
  THEN row.generation ELSE row.generation + 1

PatchRead(e, c, b) ==
  /\ editing[e] = "idle"
  /\ Present(c)
  /\ NextGeneration(campaign[c], b) <= GenerationBound
  /\ editing' = [editing EXCEPT ![e] = "patch"]
  /\ edited' = [edited EXCEPT ![e] = c]
  /\ body' = [body EXCEPT ![e] = b]
  /\ read' = [read EXCEPT ![e] = campaign[c]]
  /\ UNCHANGED <<campaign, probes, worldVars>>

\* coalesce($n, column)
Coalesce(new, old) == IF new = Keep THEN old ELSE new

Patched(row, b, readRow) ==
  [row EXCEPT !.action = Coalesce(b.action, @),
              !.payload = IF b.payload = Keep THEN @ ELSE Stored[b.payload],
              !.selector = Coalesce(b.selector, @),
              !.minVersion = Coalesce(b.minVersion, @),
              !.expired = IF b.expires = Keep THEN @ ELSE FALSE,
              !.generation = NextGeneration(readRow, b)]

\* The handler is over: its slot is free.
EditEnds(e) ==
  /\ editing' = [editing EXCEPT ![e] = "idle"]
  /\ edited' = [edited EXCEPT ![e] = 1]
  /\ body' = [body EXCEPT ![e] = SomeChange]
  /\ read' = [read EXCEPT ![e] = SomeRow]
  /\ UNCHANGED <<probes, worldVars>>

\* Fields that the body leaves out keep the value the row has now, the
\* generation is computed from the row read before.
PatchWrite(e) ==
  LET c == edited[e] IN
  /\ editing[e] = "patch"
  /\ campaign' = [campaign EXCEPT ![c] =
       IF Present(c) THEN Patched(@, body[e], read[e]) ELSE @]
  /\ EditEnds(e)

CloseCampaign(c) ==
  /\ campaign[c].status = "open"
  /\ campaign' = [campaign EXCEPT ![c].status = "closed"]
  /\ UNCHANGED <<editVars, probes, worldVars>>

DeleteRead(e, c) ==
  /\ editing[e] = "idle"
  /\ campaign[c].status = "closed"
  /\ editing' = [editing EXCEPT ![e] = "delete"]
  /\ edited' = [edited EXCEPT ![e] = c]
  /\ UNCHANGED <<campaign, body, read, probes, worldVars>>

DeleteWrite(e) ==
  /\ editing[e] = "delete"
  /\ campaign' = [campaign EXCEPT ![edited[e]].status = "deleted"]
  /\ EditEnds(e)

\* A call throws, the client is told 500.
EditAborts(e) ==
  /\ editing[e] # "idle"
  /\ EditEnds(e)
  /\ UNCHANGED campaign

-----------------------------------------------------------------------------
(* The world around the reconciler.                                        *)

CampaignExpires(c) ==
  /\ c \notin Lasting
  /\ Present(c)
  /\ ~campaign[c].expired
  /\ campaign' = [campaign EXCEPT ![c].expired = TRUE]
  /\ UNCHANGED <<editVars, probes, worldVars>>

\* One label of the instance is written or deleted.
LabelsChange(i) ==
  /\ \E l \in LabelSets :
       /\ <<label[i], l>> \in LabelMoves
       /\ label' = [label EXCEPT ![i] = l]
  /\ UNCHANGED <<campaign, editVars, probes, online, reopened, factVars>>

Heartbeat(i) ==
  /\ ~online[i]
  /\ online' = [online EXCEPT ![i] = TRUE]
  /\ UNCHANGED <<campaign, editVars, probes, label, reopened, factVars>>

HeartbeatLapses(i) ==
  /\ i \in Flaky
  /\ online[i]
  /\ online' = [online EXCEPT ![i] = FALSE]
  /\ UNCHANGED <<campaign, editVars, probes, label, reopened, factVars>>

\* The task queue's handlers write facts and settle probe tasks.  Which one
\* writes what and when is TaskLease's concern: here it may be at any time.
QueueSteps ==
  /\ \/ \E i \in Instances :
          \/ FactsWritten(i)
          \/ \E k \in ProbeKinds : ProbeStateWritten(i, k) \/ ProbeSettles(i, k)
     \/ FactsAge /\ UNCHANGED probes
  /\ UNCHANGED <<campaign, editVars, label, online, reopened>>

\* A late update of the queue opens a settled probe task again.  Settled tasks
\* are not kept: there may always be one of an earlier time.
ProbeReopens(i, k) ==
  /\ ProbeResults[k] # {}
  /\ reopened < MaxReopens
  /\ reopened' = reopened + 1
  /\ ProbeOpens(i, k)
  /\ UNCHANGED <<campaign, editVars, label, online>>

RouteSteps ==
  \/ \E c \in CampaignIds : CreateCampaign(c) \/ CloseCampaign(c)
  \/ \E e \in Editors :
       \/ \E c \in CampaignIds : \E b \in Changes : PatchRead(e, c, b)
       \/ \E c \in CampaignIds : DeleteRead(e, c)
       \/ PatchWrite(e) \/ DeleteWrite(e) \/ EditAborts(e)

WorldSteps ==
  \/ \E c \in CampaignIds : CampaignExpires(c)
  \/ \E i \in Instances :
       \/ LabelsChange(i) \/ Heartbeat(i) \/ HeartbeatLapses(i)
       \/ \E k \in ProbeKinds : ProbeReopens(i, k)
  \/ QueueSteps
=============================================================================
