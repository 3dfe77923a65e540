------------------------------ MODULE Targeting ------------------------------
(***************************************************************************)
(* The console's page of groups and labels (ui/src/pages/Targeting.tsx)    *)
(* with the routes it calls (groups.ts, labels.ts) and other clients of    *)
(* those routes.  Labels under a system key are read-only there, and no    *)
(* other code of the repository writes one.                                *)
(*                                                                         *)
(* An operation of the page is a request and then, if it succeeds, a       *)
(* reload; the flag busy keeps the page to one operation at a time, but    *)
(* not the reads its effects start.  A read is served at one moment and    *)
(* its answer arrives at a later one, in any order.                        *)
(***************************************************************************)
EXTENDS SelectorGrammar

CONSTANTS
  Sites,          \* the instances
  GivenTexts,     \* selectors that are used in forms, drafts and requests
  Pasted,         \* texts an operator pastes into the selector field
  BusinessKeys, SystemKeys, LabelValues,
  NoNote,         \* no description
  Notes,          \* descriptions
  MaxGroups, MaxActs, MaxTyped, MaxReads,
                  \* bounds: groups, acts of everybody, tokens typed, and reads
                  \* under way when the operator acts
  GroupPageSize,  \* groups.ts: the default of page_size
  FirstRows,      \* the groups at the start
  FirstSite,      \* the first of the list of instances
  Typeable,       \* tokens an operator types
  Nobody

Row == [selector : GivenTexts, note : Notes \cup {NoNote}]

ASSUME TargetingAssumption ==
  /\ MaxGroups \in Nat \ {0} /\ MaxActs \in Nat /\ MaxTyped \in Nat /\ MaxReads \in Nat
  /\ GroupPageSize \in Nat \ {0}
  /\ BusinessKeys \cap SystemKeys = {} /\ NoNote \notin Notes
  /\ Nobody \notin Sites \cup (1..MaxGroups)
  /\ FirstRows \in Seq(Row) /\ Len(FirstRows) <= MaxGroups
  /\ \A g \in DOMAIN FirstRows : ParseLabelSelector(FirstRows[g].selector) # Invalid
  /\ FirstSite \in Sites /\ Typeable \subseteq Token /\ Pasted \subseteq Seq(Token)

VARIABLES
  groups, made,   \* the table groups and how many rows it ever had
  labels,         \* the table instance_labels: of each instance a function
  shown,          \* groups: the rows last loaded
  editing,        \* the drafts of rows
  preview,        \* matchesFor and matches
  chosen,         \* selectedInstanceId
  shownLabels,    \* labels: those last loaded
  field,          \* groupSelector: the selector of the form
  op,             \* the operation busy stands for
  reads,          \* the reads under way
  deletedHere,    \* history: groups the page has deleted
  acts            \* number of acts

tablesVars == <<groups, made, labels>>
targetingVars == <<tablesVars, shown, editing, preview, chosen,
                   shownLabels, field, op, reads, deletedHere, acts>>

Ids == 1..MaxGroups
Rows == UNION {[S -> Row] : S \in SUBSET Ids}
LabelKeys == BusinessKeys \cup SystemKeys
Labellings == UNION {[S -> LabelValues] : S \in SUBSET LabelKeys}
NoRows == [g \in {} |-> Nobody]
Idle == [kind |-> "none", at |-> "idle"]
NoPreview == [of |-> Nobody, items |-> {}]

Drop(f, x) == [y \in DOMAIN f \ {x} |-> f[y]]
Put(f, x, v) == [y \in DOMAIN f \cup {x} |-> IF y = x THEN v ELSE f[y]]

TargetingTypeOK ==
  /\ groups \in Rows /\ shown \in Rows /\ editing \in Rows
  /\ labels \in [Sites -> Labellings]
  /\ made \in 0..MaxGroups /\ deletedHere \subseteq Ids
  /\ preview.of \in Ids \cup {Nobody} /\ preview.items \subseteq Sites
  /\ chosen \in Sites \cup {Nobody}
  /\ shownLabels \in Labellings
  /\ field \in Seq(Token)
  /\ op.at \in {"idle", "sent", "group", "ok", "refused", "reload"}
  /\ \A r \in reads : r.what \in {"groups", "instances", "labels"} /\ r.served \in BOOLEAN
  /\ acts \in Nat

(***************************************************************************)
(* The routes that change the tables, for any client.                      *)
(***************************************************************************)

Request(kind, id, text, note) ==
  [kind |-> kind, id |-> id, selector |-> text, note |-> note, at |-> "sent"]
LabelRequest(kind, site, key, value) ==
  [kind |-> kind, site |-> site, key |-> key, value |-> value, at |-> "sent"]

\* "selector" of a PATCH is optional.
PatchUnchecked(o) == o.id \in DOMAIN groups
PatchAllowed(o) ==
  o.id \in DOMAIN groups /\ (o.selector # Nobody => ParseLabelSelector(o.selector) # Invalid)

Allowed(o) ==
  CASE o.kind = "create"  -> ParseLabelSelector(o.selector) # Invalid /\ made < MaxGroups
    [] o.kind = "patch"   -> PatchAllowed(o)
    [] o.kind = "delete"  -> o.id \in DOMAIN groups
    [] o.kind = "upsert"  -> o.key \in BusinessKeys /\ ValidKey(o.key) /\ ValidValue(o.value)
    [] o.kind = "unlabel" -> o.key \in BusinessKeys /\ o.key \in DOMAIN labels[o.site]

PatchedInFull(row, o) == [selector |-> o.selector, note |-> o.note]
\* coalesce: what a PATCH leaves out stays.
Patched(row, o) ==
  [selector |-> IF o.selector # Nobody THEN o.selector ELSE row.selector,
   note |-> IF o.note = NoNote THEN row.note ELSE o.note]

Apply(o) ==
  /\ made' = made + (IF o.kind = "create" THEN 1 ELSE 0)
  /\ groups' =
       CASE o.kind = "create" -> Put(groups, made + 1, [selector |-> o.selector, note |-> o.note])
         [] o.kind = "patch"  -> Put(groups, o.id, Patched(groups[o.id], o))
         [] o.kind = "delete" -> Drop(groups, o.id)
         [] OTHER             -> groups
  /\ labels' =
       CASE o.kind = "upsert"  -> [labels EXCEPT ![o.site] = Put(@, o.key, o.value)]
         [] o.kind = "unlabel" -> [labels EXCEPT ![o.site] = Drop(@, o.key)]
         [] OTHER              -> labels

(***************************************************************************)
(* Reads.  loadGroups takes the first page and no other.                   *)
(***************************************************************************)

FirstPage == [g \in {h \in DOMAIN groups : Cardinality({k \in DOMAIN groups : k <= h}) <= GroupPageSize}
                |-> groups[g]]

\* The list of instances does not change here: its read counts as served.
Read(what, forOp, site) == [what |-> what, forOp |-> forOp, site |-> site,
                              served |-> what = "instances", data |-> NoRows]

\* The effect that depends on selectedInstanceId, for the selection it closes over.
Effect(site) == {Read("groups", FALSE, site), Read("instances", FALSE, site)}

TargetingInit ==
  /\ groups = FirstRows /\ made = Cardinality(DOMAIN FirstRows)
  /\ labels = [i \in Sites |-> NoRows]
  /\ shown = NoRows /\ editing = NoRows /\ preview = NoPreview /\ chosen = Nobody
  /\ shownLabels = NoRows /\ field = <<>>
  /\ op = Idle /\ reads = Effect(Nobody)
  /\ deletedHere = {} /\ acts = 0

(***************************************************************************)
(* The operator.                                                           *)
(***************************************************************************)

Act == acts < MaxActs /\ acts' = acts + 1 /\ Cardinality(reads) <= MaxReads
NotBusy == op = Idle
Sends(o) == op' = o
formVars == <<editing, preview, chosen, shownLabels, field>>

HandleCreateGroup(t, n) ==
  /\ Act /\ NotBusy /\ Trim(t) # <<>> /\ Sends(Request("create", Nobody, t, n))
  /\ UNCHANGED <<tablesVars, shown, formVars, reads, deletedHere>>

StartEdit(g) ==
  /\ Act /\ NotBusy /\ g \in DOMAIN shown /\ g \notin DOMAIN editing
  /\ editing' = Put(editing, g, shown[g])
  /\ UNCHANGED <<tablesVars, shown, preview, chosen, shownLabels, field, op, reads,
                 deletedHere>>

\* A draft's fields are not disabled while the page is busy.
EditDraft(g, t, n) ==
  /\ Act /\ g \in DOMAIN editing /\ g \in DOMAIN shown
  /\ editing' = Put(editing, g, [selector |-> t, note |-> n]) /\ editing' # editing
  /\ UNCHANGED <<tablesVars, shown, preview, chosen, shownLabels, field, op, reads,
                 deletedHere>>

CancelEdit(g) ==
  /\ Act /\ NotBusy /\ g \in DOMAIN editing /\ g \in DOMAIN shown
  /\ editing' = Drop(editing, g)
  /\ UNCHANGED <<tablesVars, shown, preview, chosen, shownLabels, field, op, reads,
                 deletedHere>>

\* A blank selector is left out.
Given(t) == IF Trim(t) = <<>> THEN Nobody ELSE t

SaveEdit(g) ==
  /\ Act /\ NotBusy /\ g \in DOMAIN editing /\ g \in DOMAIN shown
  /\ Sends(Request("patch", g, Given(editing[g].selector), editing[g].note))
  /\ UNCHANGED <<tablesVars, shown, formVars, reads, deletedHere>>

HandleDeleteGroup(g) ==
  /\ Act /\ NotBusy /\ g \in DOMAIN shown /\ g \notin DOMAIN editing
  /\ Sends(Request("delete", g, <<>>, NoNote))
  /\ UNCHANGED <<tablesVars, shown, formVars, reads, deletedHere>>

ShowMatches(g) ==
  /\ Act /\ NotBusy /\ g \in DOMAIN shown
  /\ Sends(Request("matches", g, <<>>, NoNote))
  /\ UNCHANGED <<tablesVars, shown, formVars, reads, deletedHere>>

HandleUpsertLabel(k, v) ==
  /\ Act /\ NotBusy /\ chosen # Nobody
  /\ Sends(LabelRequest("upsert", chosen, k, v))
  /\ UNCHANGED <<tablesVars, shown, formVars, reads, deletedHere>>

\* The button is there for labels whose source is "business".
HandleDeleteLabel(k) ==
  /\ Act /\ NotBusy /\ chosen # Nobody /\ k \in DOMAIN shownLabels \cap BusinessKeys
  /\ Sends(LabelRequest("unlabel", chosen, k, Nobody))
  /\ UNCHANGED <<tablesVars, shown, formVars, reads, deletedHere>>

LabelsOf(i) == IF i = Nobody THEN {} ELSE {Read("labels", FALSE, i)}
SelectSite(i) ==
  /\ Act /\ i # chosen
  /\ chosen' = i
  /\ reads' = reads \cup Effect(i) \cup LabelsOf(i)
  /\ UNCHANGED <<tablesVars, shown, editing, preview, shownLabels, field, op,
                 deletedHere>>

\* The form's selector field: a text is typed or pasted.
TypeToken(x) ==
  /\ acts < MaxTyped /\ acts' = acts + 1
  /\ (field # <<>> /\ x \in Words) => Last(field) \notin Words
  /\ field' = Append(field, x)
  /\ UNCHANGED <<tablesVars, shown, editing, preview, chosen, shownLabels, op, reads,
                 deletedHere>>

Paste(t) ==
  /\ field = <<>> /\ field' = t
  /\ UNCHANGED <<tablesVars, shown, editing, preview, chosen, shownLabels, op, reads,
                 deletedHere, acts>>

(***************************************************************************)
(* The control plane and the answers.                                      *)
(***************************************************************************)

At(x) == op' = [op EXCEPT !.at = x]

ServeRequest ==
  /\ op.at = "sent" /\ op.kind # "matches"
  /\ IF Allowed(op) THEN Apply(op) /\ At("ok") ELSE At("refused") /\ UNCHANGED tablesVars
  /\ UNCHANGED <<shown, formVars, reads, deletedHere, acts>>

\* GET matches reads the group, then the instances with their labels.
ReadGroup ==
  /\ op.at = "sent" /\ op.kind = "matches"
  /\ op' = IF op.id \in DOMAIN groups
           THEN [op EXCEPT !.at = "group", !.selector = groups[op.id].selector]
           ELSE [op EXCEPT !.at = "refused"]
  /\ UNCHANGED <<tablesVars, shown, formVars, reads, deletedHere, acts>>

Matching(t) == {i \in Sites : MatchLabelSelector(ParseLabelSelector(t), labels[i])}

MatchInstances ==
  /\ op.at = "group"
  /\ op' = [kind |-> "matches", at |-> "ok", id |-> op.id, items |-> Matching(op.selector)]
  /\ UNCHANGED <<tablesVars, shown, formVars, reads, deletedHere, acts>>

\* What the page does after its request: drafts and preview, then the reload.
CloseDraft(o) == editing' = IF o.kind = "patch" THEN Drop(editing, o.id) ELSE editing
KeepPreview(o) == preview' = preview
ClearPreview(o) == preview' = IF o.kind = "delete" /\ preview.of = o.id THEN NoPreview ELSE preview

Continue ==
  /\ op.at = "ok" /\ op.kind # "matches"
  /\ CloseDraft(op) /\ ClearPreview(op)
  /\ deletedHere' = IF op.kind = "delete" THEN deletedHere \cup {op.id} ELSE deletedHere
  /\ op' = [kind |-> op.kind, at |-> "reload"]
  /\ reads' = reads \cup {IF op.kind \in {"upsert", "unlabel"}
                          THEN Read("labels", TRUE, op.site) ELSE Read("groups", TRUE, Nobody)}
  /\ UNCHANGED <<tablesVars, shown, chosen, shownLabels, field, acts>>

ShowPreview ==
  /\ op.at = "ok" /\ op.kind = "matches"
  /\ preview' = [of |-> op.id, items |-> op.items]
  /\ op' = Idle
  /\ UNCHANGED <<tablesVars, shown, editing, chosen, shownLabels, field, reads,
                 deletedHere, acts>>

FailsAndCloses ==
  /\ op.at \in {"sent", "group", "ok", "refused"}
  /\ CloseDraft(op) /\ op' = Idle
  /\ UNCHANGED <<tablesVars, shown, preview, chosen, shownLabels, field, reads, deletedHere, acts>>

\* Refused, or lost before the server had it or on the way back.
RequestFails ==
  /\ op.at \in {"sent", "group", "ok", "refused"}
  /\ op' = Idle
  /\ UNCHANGED <<tablesVars, shown, formVars, reads, deletedHere, acts>>

ServeRead(r) ==
  /\ ~r.served
  /\ reads' = (reads \ {r}) \cup
       {[r EXCEPT !.served = TRUE,
                  !.data = IF r.what = "groups" THEN FirstPage ELSE labels[r.site]]}
  /\ UNCHANGED <<tablesVars, shown, formVars, op, deletedHere, acts>>

\* The end of an operation is the end of its reload.
Ends(r) == op' = IF r.forOp THEN Idle ELSE op

ReceiveRead(r) ==
  /\ r.served
  /\ shown' = IF r.what = "groups" THEN r.data ELSE shown
  /\ shownLabels' = IF r.what = "labels" THEN r.data ELSE shownLabels
  /\ IF r.what = "instances" /\ r.site = Nobody /\ chosen # FirstSite
     THEN /\ chosen' = FirstSite
          /\ reads' = (reads \ {r}) \cup Effect(FirstSite) \cup LabelsOf(FirstSite)
     ELSE /\ reads' = reads \ {r} /\ UNCHANGED chosen
  /\ Ends(r)
  /\ UNCHANGED <<tablesVars, editing, preview, field, deletedHere, acts>>

ReadFails(r) ==
  /\ r.served /\ reads' = reads \ {r} /\ Ends(r)
  /\ UNCHANGED <<tablesVars, shown, formVars, deletedHere, acts>>

(***************************************************************************)
(* Everybody else.                                                         *)
(***************************************************************************)

ForeignRequests ==
  {Request("patch", g, t, NoNote) : g \in Ids, t \in GivenTexts}
  \cup {Request("delete", g, <<>>, NoNote) : g \in Ids}
  \cup {LabelRequest("upsert", i, k, v) : i \in Sites, k \in LabelKeys, v \in LabelValues}

ForeignRequest(o) ==
  /\ acts < MaxActs /\ acts' = acts + 1
  /\ Allowed(o) /\ Apply(o)
  /\ UNCHANGED <<shown, formVars, op, reads, deletedHere>>

Typing == (\E x \in Typeable : TypeToken(x)) \/ (\E t \in Pasted : Paste(t))

Acting ==
  \/ \E t \in GivenTexts, n \in Notes \cup {NoNote} : HandleCreateGroup(t, n)
  \/ \E g \in Ids :
       \/ StartEdit(g) \/ CancelEdit(g) \/ SaveEdit(g) \/ HandleDeleteGroup(g) \/ ShowMatches(g)
       \/ \E t \in GivenTexts, n \in Notes \cup {NoNote} : EditDraft(g, t, n)
  \/ \E k \in LabelKeys : HandleDeleteLabel(k) \/ \E v \in LabelValues : HandleUpsertLabel(k, v)
  \/ \E i \in Sites \cup {Nobody} : SelectSite(i)

Answering ==
  \/ ServeRequest \/ ReadGroup \/ MatchInstances \/ Continue \/ ShowPreview \/ RequestFails
  \/ \E r \in reads : ServeRead(r) \/ ReceiveRead(r) \/ ReadFails(r)

Others == \E o \in ForeignRequests : ForeignRequest(o)

TargetingNext == Acting \/ Answering \/ Others

TargetingSpec == TargetingInit /\ [][TargetingNext]_targetingVars
TypingSpec == TargetingInit /\ [][Typing]_targetingVars

(***************************************************************************)
(* Properties.                                                             *)
(***************************************************************************)

\* A text in the selector field has at most one meaning, and the parser finds it:
\* splitting at top-level commas and trying the forms in its order loses none.
SelectorMeansWhatItSays == MeansWhatItSays(field)

\* An operator and its negation divide the instances between them, those without
\* the label included.
NegationsAreComplements ==
  LET reqs == ParseLabelSelector(field) IN
  (reqs # Invalid /\ Len(reqs) = 1) =>
    \A m \in Labellings :
      MatchLabelSelector(reqs, m)
        # MatchLabelSelector(<<[reqs[1] EXCEPT !.op = Negation(@)]>>, m)

\* Whatever pages and other clients send, in any order, every stored selector can
\* be parsed by the routes and the reconciler that read it later, and no label is
\* stored under a system key.
TablesStayLegal ==
  /\ \A g \in DOMAIN groups : ParseLabelSelector(groups[g].selector) # Invalid
  /\ \A i \in Sites : DOMAIN labels[i] \cap SystemKeys = {}

\* The preview is not of a group this page has deleted.
PreviewIsCleared == preview.of \notin deletedHere

\* The tables and the page, whatever of their steps come in between each other.
TargetingInv == TargetingTypeOK /\ TablesStayLegal /\ PreviewIsCleared

\* A draft goes away by its cancel button or by a save the server accepted.
DraftsKept ==
  [][\A g \in DOMAIN editing \ DOMAIN editing' :
       CancelEdit(g) \/ (op.kind = "patch" /\ op.at = "ok" /\ op.id = g)]_targetingVars
=============================================================================
