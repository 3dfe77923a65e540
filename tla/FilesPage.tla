------------------------------ MODULE FilesPage ------------------------------
(***************************************************************************)
(* The console's page of agent files with what lies behind it: the page's  *)
(* selection, editor and two caches (ui/src/pages/Memory.tsx), the routes  *)
(* of instance-files.ts, which turn a request into a task and wait five    *)
(* seconds for its result, and the instance that carries the task out.     *)
(*                                                                         *)
(* An effect runs with the event that causes it.  The sequence number of   *)
(* a read is modelled by whether it is still the latest of its kind.  A    *)
(* task's lease lasts half an hour: it is run again only when nobody waits *)
(* for it any more.  A missing file has the empty text.                    *)
(***************************************************************************)
EXTENDS Naturals, FiniteSets

CONSTANTS
  Instances,
  NumFiles,       \* FLEET_MANAGED_FILE_NAMES, by their place in the list
  Texts, Empty,   \* contents of a file
  Typed,          \* those an operator types
  Original,       \* the contents at the start
  None,           \* no selection, nothing cached
  MaxCalls,       \* bound: calls under way at once, with abandoned writes
  MaxEvents       \* bound: what the operator does

Files == 1..NumFiles

ASSUME FilesPageAssumption ==
  /\ NumFiles \in Nat \ {0} /\ MaxCalls \in Nat /\ MaxEvents \in Nat
  /\ Empty \in Texts /\ Typed \subseteq Texts
  /\ Original \in [Instances -> [Files -> Texts]]
  /\ None \notin Instances \cup Files \cup Texts

VARIABLES
  loaded,         \* the page has the list of instances
  target,         \* targetId
  selected,       \* selectedFileName
  list,           \* files: of each the instance it describes and "missing"
  editor,         \* content, and the file it was loaded for
  listCache, contentCache,
  loading, saving,
  calls,          \* requests with their tasks
  disk,           \* the files of the instances
  was,            \* history: every text a file has had
  told,           \* history: the text whose saving was reported last
  doubtful,       \* history: files with a write that was given up or failed
  missed,         \* history: an answer reached a selection that was gone
  events          \* number of the operator's events

pageVars == <<loaded, target, selected, list, editor, listCache, contentCache,
              loading, saving>>
filesVars == <<pageVars, calls, disk, was, told, doubtful, missed, events>>

Keys == Instances \X Files
Item == [of : Instances, missing : BOOLEAN]
Lists == UNION {[F -> Item] : F \in SUBSET Files}
NoList == [f \in {} |-> None]
Blank == [text |-> Empty, of |-> None]
Contents == UNION {[F -> Texts] : F \in SUBSET Files}

Call == [op : {"list", "get", "set"}, inst : Instances, file : Files \cup {None},
         text : Texts, latest : BOOLEAN, task : {"open", "ran", "done"},
         res : Contents, waits : BOOLEAN]

FilesTypeOK ==
  /\ loaded \in BOOLEAN /\ loading \in BOOLEAN /\ saving \in BOOLEAN
  /\ target \in Instances \cup {None} /\ selected \in Files \cup {None}
  /\ list \in Lists
  /\ editor \in [text : Texts, of : Keys \cup {None}]
  /\ listCache \in [Instances -> Lists \cup {None}]
  /\ contentCache \in [Instances -> [Files -> Texts \cup {None}]]
  /\ calls \subseteq Call
  /\ disk \in [Instances -> [Files -> Texts]]
  /\ was \in [Instances -> [Files -> SUBSET Texts]]
  /\ told \in [Instances -> [Files -> Texts \cup {None}]]
  /\ doubtful \subseteq Keys /\ missed \in BOOLEAN
  /\ events \in 0..MaxEvents

PageInit ==
  /\ loaded = FALSE /\ target = None /\ selected = None /\ list = NoList
  /\ editor = Blank
  /\ listCache = [i \in Instances |-> None]
  /\ contentCache = [i \in Instances |-> [f \in Files |-> None]]
  /\ loading = FALSE /\ saving = FALSE

FilesInit ==
  /\ PageInit
  /\ calls = {} /\ disk = Original
  /\ was = [i \in Instances |-> [f \in Files |-> {Original[i][f]}]]
  /\ told = [i \in Instances |-> [f \in Files |-> None]]
  /\ doubtful = {} /\ missed = FALSE /\ events = 0

(***************************************************************************)
(* What the page's effects do.                                             *)
(***************************************************************************)

NewCall(op, i, f, t) ==
  [op |-> op, inst |-> i, file |-> f, text |-> t, latest |-> TRUE,
   task |-> "open", res |-> [g \in {} |-> Empty], waits |-> TRUE]

\* The next sequence number: earlier reads of the kind are outdated.
Outdate(op, cs) == {IF c.op = op THEN [c EXCEPT !.latest = FALSE] ELSE c : c \in cs}

\* pickFileName: the first file that is there, or else the first.
FirstOf(F) == CHOOSE f \in F : \A g \in F : f <= g
Pick(l) ==
  LET there == {f \in DOMAIN l : ~l[f].missing}
  IN IF there # {} THEN FirstOf(there) ELSE IF l # NoList THEN FirstOf(DOMAIN l) ELSE None

MergeReplaces(l, f, i, m) == [g \in DOMAIN l |-> IF g = f THEN [missing |-> m] ELSE l[g]]
\* item.name === fileName ? {...item, ...file} : item
Merge(l, f, i, m) ==
  [g \in DOMAIN l |-> IF g = f THEN [of |-> i, missing |-> m] ELSE l[g]]

\* loadFileContent without force, for a list l and the calls cs: from the cache
\* or by a request.
LoadContent(i, f, l, cs) ==
  LET cached == contentCache[i][f] IN
  IF cached # None
  THEN /\ editor' = [text |-> cached, of |-> <<i, f>>]
       /\ loading' = FALSE
       /\ list' = Merge(l, f, i, cached = Empty)
       /\ calls' = cs
  ELSE /\ editor' = Blank
       /\ loading' = TRUE
       /\ list' = l
       /\ calls' = Outdate("get", cs) \cup {NewCall("get", i, f, Empty)}

\* A selection with its effect; i may be None.
Show(i, f, l, cs) ==
  /\ target' = i /\ selected' = f
  /\ IF i # None /\ f # None
     THEN LoadContent(i, f, l, cs)
     ELSE editor' = Blank /\ list' = l /\ calls' = cs /\ UNCHANGED loading

\* setTargetId with loadFiles.
Turn(i) ==
  IF listCache[i] # None
  THEN Show(i, Pick(listCache[i]), listCache[i], Outdate("list", calls))
  ELSE Show(i, None, NoList, Outdate("list", calls) \cup {NewCall("list", i, None, Empty)})

(***************************************************************************)
(* The operator.  The bound leaves room for the two reads of a step.       *)
(***************************************************************************)

Room == Cardinality(calls) < MaxCalls
serverVars == <<disk, was, told, doubtful, missed>>

InstancesLoaded ==
  /\ ~loaded /\ loaded' = TRUE
  /\ \E i \in Instances : Turn(i)
  /\ UNCHANGED <<listCache, contentCache, saving, serverVars>>

SelectInstance(i) ==
  /\ loaded /\ i # target /\ Room
  /\ Turn(i)
  /\ UNCHANGED <<loaded, listCache, contentCache, saving, serverVars>>

\* The select's empty entry; a list under way stays the latest.
SelectNoInstance ==
  /\ loaded /\ target # None
  /\ Show(None, None, NoList, calls)
  /\ UNCHANGED <<loaded, listCache, contentCache, saving, serverVars>>

SelectFile(f) ==
  /\ f \in DOMAIN list /\ f # selected /\ Room
  /\ Show(target, f, list, calls)
  /\ UNCHANGED <<loaded, listCache, contentCache, saving, serverVars>>

\* The refresh button: force and preserveContent.
Refresh ==
  /\ target # None /\ selected # None /\ ~loading /\ Room
  /\ loading' = TRUE
  /\ calls' = Outdate("get", calls) \cup {NewCall("get", target, selected, Empty)}
  /\ UNCHANGED <<loaded, target, selected, list, editor, listCache, contentCache,
                 saving, serverVars>>

Type(t) ==
  /\ selected # None
  /\ editor' = [text |-> t, of |-> None]
  /\ UNCHANGED <<loaded, target, selected, list, listCache, contentCache, loading,
                 saving, calls, serverVars>>

\* handleSave up to its request.
Save ==
  /\ target # None /\ selected # None /\ ~saving /\ Room
  /\ saving' = TRUE
  /\ calls' = calls \cup {NewCall("set", target, selected, editor.text)}
  /\ told' = [told EXCEPT ![target][selected] = None]
  /\ UNCHANGED <<loaded, target, selected, list, editor, listCache, contentCache,
                 loading, disk, was, doubtful, missed>>

\* The page is left, or loaded anew: its state is gone, its requests go on.
GivenUp(cs) == {[c EXCEPT !.waits = FALSE] : c \in {d \in cs : d.op = "set"}}
Doubted(cs) == {<<c.inst, c.file>> : c \in {d \in cs : d.op = "set" /\ d.waits}}

Leave ==
  /\ loaded
  /\ loaded' = FALSE /\ target' = None /\ selected' = None /\ list' = NoList
  /\ editor' = Blank
  /\ listCache' = [i \in Instances |-> None]
  /\ contentCache' = [i \in Instances |-> [f \in Files |-> None]]
  /\ loading' = FALSE /\ saving' = FALSE
  /\ calls' = GivenUp(calls)
  /\ doubtful' = doubtful \cup Doubted(calls)
  /\ UNCHANGED <<disk, was, told, missed>>

(***************************************************************************)
(* The instance: its sidecar takes the open tasks in any order.            *)
(***************************************************************************)

WithTask(c, s, res) == (calls \ {c}) \cup {[c EXCEPT !.task = s, !.res = res]}

\* agents.files.list, get and set, and what they return.
Result(c, d) == [f \in IF c.op = "list" THEN Files ELSE {c.file} |-> d[f]]

RunTask(c) ==
  /\ c.task = "open"
  /\ disk' = IF c.op = "set" THEN [disk EXCEPT ![c.inst][c.file] = c.text] ELSE disk
  /\ was' = IF c.op = "set" THEN [was EXCEPT ![c.inst][c.file] = @ \cup {c.text}] ELSE was
  /\ calls' = WithTask(c, "ran", Result(c, disk'[c.inst]))
  /\ UNCHANGED <<pageVars, told, doubtful, missed>>

\* The acknowledgement; a write nobody waits for is then over.
AckTask(c) ==
  /\ c.task = "ran"
  /\ calls' = IF c.waits THEN WithTask(c, "done", c.res) ELSE calls \ {c}
  /\ UNCHANGED <<pageVars, disk, was, told, doubtful, missed>>

\* The acknowledgement was lost and the lease has ended.
TaskAgain(c) ==
  /\ c.task = "ran" /\ ~c.waits
  /\ calls' = WithTask(c, "open", [g \in {} |-> Empty])
  /\ UNCHANGED <<pageVars, disk, was, told, doubtful, missed>>

(***************************************************************************)
(* waitForTaskResult and what the page does with the answer.               *)
(***************************************************************************)

WritesAtOnce(c) == c.waits /\ (c.op = "set" \/ c.task = "done")
Finished(c) == c.waits /\ c.task = "done"

ListAnswer(c) ==
  /\ c.op = "list" /\ Finished(c)
  /\ IF c.latest
     THEN LET items == [f \in Files |-> [of |-> c.inst, missing |-> c.res[f] = Empty]] IN
          /\ listCache' = [listCache EXCEPT ![c.inst] = items]
          /\ Show(target, Pick(items), items, calls \ {c})
     ELSE calls' = calls \ {c} /\ UNCHANGED <<target, selected, list, editor, listCache, loading>>
  /\ UNCHANGED <<loaded, contentCache, saving, serverVars>>

OfAnyRead(c) == TRUE
OfLatestRead(c) == c.latest

GetAnswer(c) ==
  /\ c.op = "get" /\ Finished(c)
  /\ calls' = calls \ {c}
  /\ IF OfLatestRead(c)
     THEN LET text == c.res[c.file] IN
          /\ contentCache' = [contentCache EXCEPT ![c.inst][c.file] = text]
          /\ editor' = [text |-> text, of |-> <<c.inst, c.file>>]
          /\ list' = Merge(list, c.file, c.inst, text = Empty)
          /\ loading' = FALSE
          /\ missed' = (missed \/ (c.latest /\ <<c.inst, c.file>> # <<target, selected>>))
     ELSE UNCHANGED <<contentCache, editor, list, loading, missed>>
  /\ UNCHANGED <<loaded, target, selected, listCache, saving, disk, was, told, doubtful>>

KeyOfSelection(c) == IF <<target, selected>> \in Keys THEN <<target, selected>> ELSE <<c.inst, c.file>>
KeyOfCall(c) == <<c.inst, c.file>>

\* The rest of handleSave, with the selection of the click.
SaveAnswer(c) ==
  LET key == KeyOfCall(c)
      items == Merge(list, c.file, c.inst, FALSE) IN
  /\ c.op = "set" /\ Finished(c)
  /\ calls' = calls \ {c}
  /\ list' = items
  /\ listCache' = [listCache EXCEPT ![c.inst] = items]
  /\ contentCache' = [contentCache EXCEPT ![key[1]][key[2]] = c.text]
  /\ editor' = [text |-> c.text, of |-> <<c.inst, c.file>>]
  /\ saving' = FALSE
  /\ told' = [told EXCEPT ![c.inst][c.file] = c.text]
  /\ missed' = (missed \/ <<c.inst, c.file>> # <<target, selected>>)
  /\ UNCHANGED <<loaded, target, selected, loading, disk, was, doubtful>>

\* The five seconds are over, the task failed, or the answer is lost: the task of
\* a write stays.
CallFails(c) ==
  /\ c.waits
  /\ calls' = IF c.op = "set" /\ c.task # "done"
              THEN (calls \ {c}) \cup {[c EXCEPT !.waits = FALSE]} ELSE calls \ {c}
  /\ loading' = (loading /\ ~(c.op = "get" /\ c.latest))
  /\ saving' = (saving /\ c.op # "set")
  /\ doubtful' = doubtful \cup Doubted({c})
  /\ UNCHANGED <<loaded, target, selected, list, editor, listCache, contentCache,
                 disk, was, told, missed>>

Operator ==
  /\ events < MaxEvents /\ events' = events + 1
  /\ \/ InstancesLoaded \/ SelectNoInstance \/ Refresh \/ Save \/ Leave
     \/ \E i \in Instances : SelectInstance(i)
     \/ \E f \in Files : SelectFile(f)
     \/ \E t \in Typed : Type(t)

Progress(c) ==
  RunTask(c) \/ AckTask(c) \/ ListAnswer(c) \/ GetAnswer(c) \/ SaveAnswer(c) \/ CallFails(c)

FilesNext ==
  \/ Operator
  \/ (\E c \in calls : Progress(c) \/ TaskAgain(c)) /\ UNCHANGED events

FilesSpec == FilesInit /\ [][FilesNext]_filesVars

(***************************************************************************)
(* Properties.                                                             *)
(***************************************************************************)

\* What the content cache holds for a file is a text this file had, whatever was
\* selected when the answer came.
CacheWasOnDisk ==
  \A i \in Instances, f \in Files :
    contentCache[i][f] # None => contentCache[i][f] \in was[i][f]

\* The page's state has its types, and its cache holds texts of the right files.
FilesInv == FilesTypeOK /\ CacheWasOnDisk

\* A save the page has reported stays, as long as none for the file was given up.
SavedStays ==
  \A i \in Instances, f \in Files :
    (told[i][f] # None /\ <<i, f>> \notin doubtful) => disk[i][f] = told[i][f]

\* The page shows and remembers each list for its instance and the editor holds
\* the selected file's text or the operator's, as long as no answer came to a
\* selection that had changed.
Describes(l, i) == \A f \in DOMAIN l : l[f].of = i
PageShowsSelection ==
  missed \/ /\ target # None => Describes(list, target)
            /\ \A i \in Instances : listCache[i] # None => Describes(listCache[i], i)
            /\ editor.of # None => editor.of = <<target, selected>>
=============================================================================
