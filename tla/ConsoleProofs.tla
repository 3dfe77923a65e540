---------------------------- MODULE ConsoleProofs ----------------------------
(***************************************************************************)
(* What the console's pages keep, for any number of instances, files,      *)
(* groups and tasks, any contents and any order of answers.                *)
(***************************************************************************)
EXTENDS Console, TLAPS, FiniteSetTheorems, WellFoundedInduction

USE DEF pageVars, serverVars, Keys

(***************************************************************************)
(* The page of files: the inductive invariant, in parts.                   *)
(***************************************************************************)

\* The files whose texts the task of a call returns.
Served(c) == IF c.op = "list" THEN Files ELSE {c.file}

\* A call names its file unless it lists them, its task has run when there is a
\* result, and only writes are given up.
CallsAreSane ==
  \A c \in calls :
    /\ c.op # "list" => c.file \in Files
    /\ c.task # "open" => DOMAIN c.res = Served(c)
    /\ ~c.waits => c.op = "set"

\* What is on disk, and what a task has read or written, a file has had.
AnswersWereOnDisk ==
  /\ \A i \in Instances, f \in Files : disk[i][f] \in was[i][f]
  /\ \A c \in calls :
       /\ \A f \in DOMAIN c.res : c.res[f] \in was[c.inst][f]
       /\ (c.op = "set" /\ c.task # "open") => c.text \in was[c.inst][c.file]

\* One save is waited for at a time.  Nothing has been reported for its file since
\* it was asked for, and once its task has run the file has its text.
Writing(c) == c \in calls /\ c.op = "set"
SavesAreAlone ==
  /\ \A c \in calls : Writing(c) /\ c.waits => saving
  /\ \A c, d \in calls : (Writing(c) /\ Writing(d) /\ c.waits /\ d.waits) => c = d
  /\ \A c \in calls :
       (Writing(c) /\ KeyOfCall(c) \notin doubtful) =>
          /\ c.waits /\ told[c.inst][c.file] = None
          /\ c.task # "open" => disk[c.inst][c.file] = c.text

\* The latest list is for the instance that is selected, if any is.
ListsAreForTarget ==
  \A c \in calls : (c.op = "list" /\ c.latest /\ target # None) => c.inst = target

FilesIInv ==
  /\ FilesTypeOK /\ CacheWasOnDisk /\ CallsAreSane /\ AnswersWereOnDisk
  /\ SavesAreAlone /\ SavedStays
  /\ ListsAreForTarget /\ PageShowsSelection

(***************************************************************************)
(* The operators the page is built from.                                   *)
(***************************************************************************)

LEMMA ListsAre == \A l : l \in Lists <=> (DOMAIN l \subseteq Files /\ l \in [DOMAIN l -> Item])
BY DEF Lists

LEMMA ContentsAre ==
  \A r : r \in Contents <=> (DOMAIN r \subseteq Files /\ r \in [DOMAIN r -> Texts])
BY DEF Contents

\* A set of files has a first one.
LEMMA FirstExists ==
  ASSUME NEW F \in SUBSET Files, F # {}
  PROVE  FirstOf(F) \in F
<1>1. F \subseteq Nat BY FilesPageAssumption DEF Files
<1>2. PICK f \in F : \A g \in F : ~ (<<g, f>> \in OpToRel(<, Nat))
  BY <1>1, WFMin, NatLessThanWellFounded
<1>3. \A g \in F : ~(g < f) BY <1>1, <1>2 DEF OpToRel
<1>4. \A g \in F : f <= g BY <1>1, <1>3
<1>5. QED BY <1>4 DEF FirstOf

LEMMA PickIsInList ==
  ASSUME NEW l \in Lists
  PROVE  Pick(l) \in DOMAIN l \cup {None}
<1>1. DOMAIN l \subseteq Files BY ListsAre
<1>2. ASSUME l # NoList PROVE DOMAIN l # {}
  <2>1. l = [f \in DOMAIN l |-> l[f]] BY ListsAre
  <2>2. QED BY <1>2, <2>1 DEF NoList
<1> DEFINE there == {f \in DOMAIN l : ~l[f].missing}
<1>3. CASE there # {}
  <2>1. FirstOf(there) \in there BY <1>1, <1>3, FirstExists
  <2>2. QED BY <1>3, <2>1 DEF Pick
<1>4. CASE there = {} /\ l # NoList
  <2>1. FirstOf(DOMAIN l) \in DOMAIN l BY <1>1, <1>2, <1>4, FirstExists
  <2>2. QED BY <1>4, <2>1 DEF Pick
<1>5. CASE there = {} /\ l = NoList BY <1>5 DEF Pick
<1>6. QED BY <1>3, <1>4, <1>5

LEMMA NoListIsList == NoList \in Lists /\ \A i : Describes(NoList, i)
<1>1. DOMAIN NoList = {} BY DEF NoList
<1>2. NoList \in [{} -> Item] BY DEF NoList
<1>3. QED BY <1>1, <1>2, ListsAre DEF Describes

LEMMA MergeKeeps ==
  ASSUME NEW l \in Lists, NEW f, NEW i \in Instances, NEW m \in BOOLEAN
  PROVE  /\ Merge(l, f, i, m) \in Lists
         /\ Describes(l, i) => Describes(Merge(l, f, i, m), i)
<1>1. DOMAIN l \subseteq Files /\ l \in [DOMAIN l -> Item] BY ListsAre
<1>2. [of |-> i, missing |-> m] \in Item BY DEF Item
<1>3. DOMAIN Merge(l, f, i, m) = DOMAIN l BY DEF Merge
<1>4. Merge(l, f, i, m) \in [DOMAIN l -> Item] BY <1>1, <1>2 DEF Merge
<1>5. Merge(l, f, i, m) \in Lists BY <1>1, <1>3, <1>4, ListsAre
<1>6. ASSUME Describes(l, i) PROVE Describes(Merge(l, f, i, m), i)
  BY <1>3, <1>6 DEF Describes, Merge
<1>7. QED BY <1>5, <1>6

\* What a listing task returns, as the page shows it.
LEMMA ItemsAreList ==
  ASSUME NEW i \in Instances, NEW r
  PROVE  LET items == [f \in Files |-> [of |-> i, missing |-> r[f] = Empty]]
         IN items \in Lists /\ Describes(items, i)
<1> DEFINE items == [f \in Files |-> [of |-> i, missing |-> r[f] = Empty]]
<1>1. DOMAIN items = Files OBVIOUS
<1>2. items \in [Files -> Item] BY DEF Item
<1>3. \A f \in Files : items[f].of = i OBVIOUS
<1>4. items \in Lists BY <1>1, <1>2, ListsAre
<1>5. Describes(items, i) BY <1>1, <1>3 DEF Describes
<1>6. QED BY <1>4, <1>5

LEMMA BlankIsBlank == Blank \in [text : Texts, of : Keys \cup {None}] /\ Blank.of = None
BY FilesPageAssumption DEF Blank

(***************************************************************************)
(* What becomes of the calls when a page reads.                            *)
(***************************************************************************)

\* The same call, perhaps outdated; a write as it was.
Same(d, c) ==
  /\ d \in Call /\ d.op = c.op /\ d.inst = c.inst /\ d.file = c.file /\ d.text = c.text
  /\ d.task = c.task /\ d.res = c.res /\ d.waits = c.waits
  /\ d.latest => c.latest
  /\ c.op = "set" => d = c

\* A read just begun.
FreshRead(d) ==
  /\ d \in Call /\ d.op \in {"list", "get"} /\ (d.op = "get" => d.file \in Files)
  /\ d.task = "open" /\ DOMAIN d.res = {} /\ d.waits

LEMMA NewCallIsCall ==
  ASSUME NEW o \in {"list", "get", "set"}, NEW i \in Instances, NEW f \in Files \cup {None},
         NEW t \in Texts
  PROVE  NewCall(o, i, f, t) \in Call /\ DOMAIN NewCall(o, i, f, t).res = {}
<1> DEFINE none == [g \in {} |-> Empty]
<1>1. DOMAIN none = {} /\ none \in [{} -> Texts] OBVIOUS
<1>2. none \in Contents BY <1>1, ContentsAre
<1>3. QED BY <1>1, <1>2 DEF NewCall, Call

LEMMA OutdateKeeps ==
  ASSUME NEW cs \in SUBSET Call, NEW o \in {"list", "get"}
  PROVE  \A d \in Outdate(o, cs) :
           /\ \E c \in cs : Same(d, c)
           /\ d.op = o => ~d.latest
<1> TAKE d \in Outdate(o, cs)
<1>1. PICK c \in cs : d = IF c.op = o THEN [c EXCEPT !.latest = FALSE] ELSE c
  BY DEF Outdate
<1>2. c \in Call OBVIOUS
<1>3. CASE c.op = o
  <2>1. d = [c EXCEPT !.latest = FALSE] BY <1>1, <1>3
  <2>2. d \in Call BY <1>2, <2>1 DEF Call
  <2>3. QED BY <1>2, <1>3, <2>1, <2>2 DEF Same, Call
<1>4. CASE c.op # o BY <1>1, <1>2, <1>4 DEF Same, Call
<1>5. QED BY <1>3, <1>4

LEMMA SameIsTransitive ==
  ASSUME NEW a, NEW b, NEW c, Same(a, b), Same(b, c)
  PROVE  Same(a, c)
BY DEF Same

\* A selection with its effect begins at most a read of the file selected.
LEMMA ShowKeeps ==
  ASSUME FilesTypeOK, NEW i \in Instances \cup {None}, NEW f \in Files \cup {None},
         NEW l \in Lists, NEW cs \in SUBSET Call, Show(i, f, l, cs)
  PROVE  /\ target' = i /\ selected' = f
         /\ list' \in Lists /\ (Describes(l, i) => (i # None => Describes(list', i)))
         /\ editor' \in [text : Texts, of : Keys \cup {None}]
         /\ editor'.of # None => editor'.of = <<i, f>>
         /\ loading' \in BOOLEAN
         /\ calls' \subseteq Call
         /\ \A d \in calls' : (\E c \in cs : Same(d, c)) \/ (FreshRead(d) /\ d.op = "get")
<1>0. \A c \in cs : Same(c, c) BY DEF Same
<1>1. target' = i /\ selected' = f BY DEF Show
<1>2. CASE ~(i # None /\ f # None)
  <2>1. editor' = Blank /\ list' = l /\ calls' = cs /\ loading' = loading BY <1>2 DEF Show
  <2>2. loading' \in BOOLEAN BY <2>1 DEF FilesTypeOK
  <2>3. QED BY <1>0, <1>1, <2>1, <2>2, BlankIsBlank
<1>3. CASE i # None /\ f # None
  <2>0. i \in Instances /\ f \in Files /\ LoadContent(i, f, l, cs) BY <1>3 DEF Show
  <2> DEFINE cached == contentCache[i][f]
  <2>1. cached \in Texts \cup {None} BY <2>0 DEF FilesTypeOK
  <2>2. CASE cached # None
    <3>1. /\ editor' = [text |-> cached, of |-> <<i, f>>] /\ loading' = FALSE
          /\ list' = Merge(l, f, i, cached = Empty) /\ calls' = cs
      BY <2>0, <2>2 DEF LoadContent
    <3>2. list' \in Lists /\ (Describes(l, i) => Describes(list', i))
      BY <2>0, <3>1, MergeKeeps
    <3>3. QED BY <1>0, <1>1, <2>0, <2>1, <2>2, <3>1, <3>2
  <2>3. CASE cached = None
    <3> DEFINE new == NewCall("get", i, f, Empty)
    <3>1. /\ editor' = Blank /\ loading' = TRUE /\ list' = l
          /\ calls' = Outdate("get", cs) \cup {new}
      BY <2>0, <2>3 DEF LoadContent
    <3>2. new \in Call /\ DOMAIN new.res = {}
      BY <2>0, NewCallIsCall, FilesPageAssumption
    <3>3. FreshRead(new) /\ new.op = "get" BY <2>0, <3>2 DEF FreshRead, NewCall
    <3>4. \A d \in Outdate("get", cs) : d \in Call /\ \E c \in cs : Same(d, c)
      BY OutdateKeeps DEF Same
    <3> HIDE DEF new
    <3>5. \A d \in calls' : (\E c \in cs : Same(d, c)) \/ (FreshRead(d) /\ d.op = "get")
      BY <3>1, <3>3, <3>4
    <3>6. calls' \subseteq Call BY <3>1, <3>2, <3>4
    <3>7. QED BY <1>1, <3>1, <3>5, <3>6, BlankIsBlank
  <2>4. QED BY <2>2, <2>3
<1>4. QED BY <1>2, <1>3

(***************************************************************************)
(* The parts, by what an action does.                                      *)
(***************************************************************************)

\* Nothing but reads begin or end, and nothing is written.
ReadEffect ==
  /\ UNCHANGED <<saving, disk, was, told, doubtful>>
  /\ calls' \subseteq Call
  /\ \A d \in calls' : (\E c \in calls : Same(d, c)) \/ FreshRead(d)

LEMMA ReadsKeepCalls ==
  ASSUME FilesIInv, ReadEffect
  PROVE  (CallsAreSane /\ AnswersWereOnDisk /\ SavesAreAlone /\ SavedStays)'
<1> USE DEF FilesIInv, ReadEffect
<1>1. CallsAreSane'
  <2> SUFFICES ASSUME NEW d \in calls'
               PROVE  /\ d.op # "list" => d.file \in Files
                      /\ d.task # "open" => DOMAIN d.res = Served(d)
                      /\ ~d.waits => d.op = "set"
    BY DEF CallsAreSane, Served
  <2>1. CASE FreshRead(d) BY <2>1 DEF FreshRead
  <2>2. ASSUME NEW c \in calls, Same(d, c)
        PROVE  /\ d.op # "list" => d.file \in Files
               /\ d.task # "open" => DOMAIN d.res = Served(d)
               /\ ~d.waits => d.op = "set"
    BY <2>2 DEF Same, CallsAreSane, Served
  <2>3. QED BY <2>1, <2>2
<1>2. AnswersWereOnDisk'
  <2> SUFFICES ASSUME NEW d \in calls'
               PROVE  /\ \A f \in DOMAIN d.res : d.res[f] \in was[d.inst][f]
                      /\ (d.op = "set" /\ d.task # "open") => d.text \in was[d.inst][d.file]
    BY DEF AnswersWereOnDisk
  <2>1. CASE FreshRead(d) BY <2>1 DEF FreshRead
  <2>2. ASSUME NEW c \in calls, Same(d, c)
        PROVE  /\ \A f \in DOMAIN d.res : d.res[f] \in was[d.inst][f]
               /\ (d.op = "set" /\ d.task # "open") => d.text \in was[d.inst][d.file]
    BY <2>2 DEF Same, AnswersWereOnDisk
  <2>3. QED BY <2>1, <2>2
<1>3. \A d \in calls' : d.op = "set" => d \in calls
  BY DEF Same, FreshRead
<1>4. SavesAreAlone' BY <1>3 DEF SavesAreAlone, Writing, KeyOfCall
<1>5. SavedStays' BY DEF SavedStays
<1>6. QED BY <1>1, <1>2, <1>4, <1>5

\* An instance is selected, and its list read unless it is cached.
LEMMA TurnKeeps ==
  ASSUME FilesIInv, NEW i \in Instances, Turn(i)
  PROVE  /\ target' = i /\ selected' \in Files \cup {None}
         /\ list' \in Lists /\ (~missed => Describes(list', i))
         /\ editor' \in [text : Texts, of : Keys \cup {None}]
         /\ editor'.of # None => editor'.of = <<target', selected'>>
         /\ loading' \in BOOLEAN
         /\ calls' \subseteq Call
         /\ \A d \in calls' : (\E c \in calls : Same(d, c)) \/ FreshRead(d)
         /\ \A d \in calls' : (d.op = "list" /\ d.latest) => d.inst = i
<1>0. FilesTypeOK /\ calls \in SUBSET Call BY DEF FilesIInv, FilesTypeOK
<1> DEFINE old == Outdate("list", calls)
<1>1. \A d \in old : d \in Call /\ (\E c \in calls : Same(d, c)) /\ (d.op = "list" => ~d.latest)
  BY <1>0, OutdateKeeps DEF Same
<1>2. old \in SUBSET Call BY <1>1
<1>3. CASE listCache[i] # None
  <2> DEFINE l == listCache[i]
  <2>1. l \in Lists BY <1>0, <1>3 DEF FilesTypeOK
  <2>2. ~missed => Describes(l, i) BY <1>3 DEF FilesIInv, PageShowsSelection
  <2>3. Pick(l) \in Files \cup {None} BY <2>1, PickIsInList, ListsAre
  <2>4. Show(i, Pick(l), l, old) BY <1>3 DEF Turn
  <2>5. \A d \in calls' : (\E c \in old : Same(d, c)) \/ (FreshRead(d) /\ d.op = "get")
    BY <1>0, <1>2, <2>1, <2>3, <2>4, ShowKeeps
  <2> HIDE DEF old
  <2>6. \A d \in calls' : (\E c \in calls : Same(d, c)) \/ FreshRead(d)
    BY <1>1, <2>5, SameIsTransitive
  <2>7. \A d \in calls' : (d.op = "list" /\ d.latest) => d.inst = i
    BY <1>1, <2>5 DEF Same
  <2> HIDE DEF l
  <2>8. i # None BY FilesPageAssumption
  <2>9. QED BY <1>0, <1>2, <2>1, <2>2, <2>3, <2>4, <2>6, <2>7, <2>8, ShowKeeps
<1>4. CASE listCache[i] = None
  <2> DEFINE new == NewCall("list", i, None, Empty)
             cs == old \cup {new}
  <2>1. Show(i, None, NoList, cs) BY <1>4 DEF Turn
  <2>2. new \in Call /\ DOMAIN new.res = {} BY NewCallIsCall, FilesPageAssumption
  <2>3. FreshRead(new) /\ new.inst = i BY <2>2 DEF FreshRead, NewCall
  <2> HIDE DEF new, old
  <2>4. cs \in SUBSET Call BY <1>2, <2>2
  <2>5. \A d \in calls' : (\E c \in cs : Same(d, c)) \/ (FreshRead(d) /\ d.op = "get")
    BY <1>0, <2>1, <2>4, NoListIsList, ShowKeeps
  <2>6. \A d \in calls' : Same(d, new) => FreshRead(d)
    BY <2>3 DEF Same, FreshRead
  <2>7. \A d \in calls' : (\E c \in calls : Same(d, c)) \/ FreshRead(d)
    BY <1>1, <2>5, <2>6, SameIsTransitive
  <2>8. \A d \in calls' : (d.op = "list" /\ d.latest) => d.inst = i
    BY <1>1, <2>3, <2>5 DEF Same
  <2> HIDE DEF cs
  <2>9. QED BY <1>0, <2>1, <2>4, <2>7, <2>8, NoListIsList, ShowKeeps, FilesPageAssumption
<1>5. QED BY <1>3, <1>4

(***************************************************************************)
(* The operator's actions.                                                 *)
(***************************************************************************)

\* For a selection of an instance, with the list and cache it finds.
LEMMA TurningKeeps ==
  ASSUME FilesIInv, NEW i \in Instances, Turn(i), loaded' \in BOOLEAN, events' \in 0..MaxEvents,
         UNCHANGED <<listCache, contentCache, saving, serverVars>>
  PROVE  FilesIInv'
<1>1. /\ target' = i /\ selected' \in Files \cup {None}
      /\ list' \in Lists /\ (~missed => Describes(list', i))
      /\ editor' \in [text : Texts, of : Keys \cup {None}]
      /\ editor'.of # None => editor'.of = <<target', selected'>>
      /\ loading' \in BOOLEAN
      /\ calls' \subseteq Call
      /\ \A d \in calls' : (\E c \in calls : Same(d, c)) \/ FreshRead(d)
      /\ \A d \in calls' : (d.op = "list" /\ d.latest) => d.inst = i
  BY TurnKeeps
<1>2. FilesTypeOK' BY <1>1 DEF FilesIInv, FilesTypeOK
<1>3. CacheWasOnDisk' BY DEF FilesIInv, CacheWasOnDisk
<1>4. ReadEffect BY <1>1 DEF ReadEffect
<1>5. (CallsAreSane /\ AnswersWereOnDisk /\ SavesAreAlone /\ SavedStays)'
  BY <1>4, ReadsKeepCalls
<1>6. ListsAreForTarget' BY <1>1 DEF ListsAreForTarget
<1>7. PageShowsSelection'
  BY <1>1 DEF FilesIInv, PageShowsSelection, Describes
<1>8. QED BY <1>2, <1>3, <1>5, <1>6, <1>7 DEF FilesIInv

\* For a file selected, or none.
LEMMA ShowingKeeps ==
  ASSUME FilesIInv, NEW i \in {target, None}, NEW f \in Files \cup {None}, NEW l \in {list, NoList},
         Show(i, f, l, calls), events' \in 0..MaxEvents,
         UNCHANGED <<loaded, listCache, contentCache, saving, serverVars>>
  PROVE  FilesIInv'
<1>1. /\ FilesTypeOK /\ i \in Instances \cup {None} /\ l \in Lists
      /\ calls \in SUBSET Call
  BY NoListIsList DEF FilesIInv, FilesTypeOK
<1>2. (~missed /\ i # None) => Describes(l, i)
  BY NoListIsList DEF FilesIInv, PageShowsSelection
<1>3. /\ target' = i /\ selected' = f
      /\ list' \in Lists /\ (Describes(l, i) => (i # None => Describes(list', i)))
      /\ editor' \in [text : Texts, of : Keys \cup {None}]
      /\ editor'.of # None => editor'.of = <<i, f>>
      /\ loading' \in BOOLEAN
      /\ calls' \subseteq Call
      /\ \A d \in calls' : (\E c \in calls : Same(d, c)) \/ (FreshRead(d) /\ d.op = "get")
  BY <1>1, ShowKeeps
<1>4. FilesTypeOK' BY <1>1, <1>3 DEF FilesTypeOK
<1>5. CacheWasOnDisk' BY DEF FilesIInv, CacheWasOnDisk
<1>6. ReadEffect BY <1>3 DEF ReadEffect
<1>7. (CallsAreSane /\ AnswersWereOnDisk /\ SavesAreAlone /\ SavedStays)'
  BY <1>6, ReadsKeepCalls
<1>8. ListsAreForTarget' BY <1>3 DEF FilesIInv, ListsAreForTarget, Same
<1>9. PageShowsSelection'
  BY <1>2, <1>3 DEF FilesIInv, PageShowsSelection, Describes
<1>10. QED BY <1>4, <1>5, <1>7, <1>8, <1>9 DEF FilesIInv

LEMMA RefreshKeeps ==
  ASSUME FilesIInv, Refresh, events' \in 0..MaxEvents
  PROVE  FilesIInv'
<1> USE DEF Refresh
<1> DEFINE old == Outdate("get", calls)
           new == NewCall("get", target, selected, Empty)
<1>0. FilesTypeOK /\ calls \in SUBSET Call /\ target \in Instances /\ selected \in Files
  BY DEF FilesIInv, FilesTypeOK
<1>1. \A d \in old : d \in Call /\ (\E c \in calls : Same(d, c))
  BY <1>0, OutdateKeeps DEF Same
<1>2. new \in Call /\ DOMAIN new.res = {}
  BY <1>0, NewCallIsCall, FilesPageAssumption
<1>3. FreshRead(new) /\ new.op = "get" BY <1>0, <1>2 DEF FreshRead, NewCall
<1>4. calls' = old \cup {new} OBVIOUS
<1> HIDE DEF old, new
<1>5. /\ calls' \subseteq Call
      /\ \A d \in calls' : (\E c \in calls : Same(d, c)) \/ (FreshRead(d) /\ d.op = "get")
  BY <1>1, <1>2, <1>3, <1>4
<1>6. FilesTypeOK' BY <1>0, <1>5 DEF FilesTypeOK
<1>7. CacheWasOnDisk' BY DEF FilesIInv, CacheWasOnDisk
<1>8. ReadEffect BY <1>5 DEF ReadEffect
<1>9. (CallsAreSane /\ AnswersWereOnDisk /\ SavesAreAlone /\ SavedStays)'
  BY <1>8, ReadsKeepCalls
<1>10. ListsAreForTarget' BY <1>5 DEF FilesIInv, ListsAreForTarget, Same
<1>11. PageShowsSelection' BY DEF FilesIInv, PageShowsSelection, Describes
<1>12. QED BY <1>6, <1>7, <1>9, <1>10, <1>11 DEF FilesIInv

LEMMA TypeKeeps ==
  ASSUME FilesIInv, NEW t \in Typed, Type(t), events' \in 0..MaxEvents
  PROVE  FilesIInv'
<1> USE DEF Type
<1>1. t \in Texts BY FilesPageAssumption
<1>2. FilesTypeOK' BY <1>1 DEF FilesIInv, FilesTypeOK
<1>3. CacheWasOnDisk' BY DEF FilesIInv, CacheWasOnDisk
<1>4. ReadEffect BY DEF ReadEffect, Same, FilesIInv, FilesTypeOK
<1>5. (CallsAreSane /\ AnswersWereOnDisk /\ SavesAreAlone /\ SavedStays)'
  BY <1>4, ReadsKeepCalls
<1>6. ListsAreForTarget' BY DEF FilesIInv, ListsAreForTarget
<1>7. PageShowsSelection' BY DEF FilesIInv, PageShowsSelection, Describes
<1>8. QED BY <1>2, <1>3, <1>5, <1>6, <1>7 DEF FilesIInv

\* A save is the only one waited for, and takes back what was reported of its file.
LEMMA SaveKeeps ==
  ASSUME FilesIInv, Save, events' \in 0..MaxEvents
  PROVE  FilesIInv'
<1> USE DEF Save
<1> DEFINE new == NewCall("set", target, selected, editor.text)
<1>0. /\ FilesTypeOK /\ calls \in SUBSET Call /\ target \in Instances /\ selected \in Files
      /\ editor.text \in Texts
  BY DEF FilesIInv, FilesTypeOK
<1>1. new \in Call /\ DOMAIN new.res = {} BY <1>0, NewCallIsCall
<1>2. /\ new.op = "set" /\ new.inst = target /\ new.file = selected
      /\ new.waits /\ new.task = "open"
  BY DEF NewCall
<1>3. calls' = calls \cup {new} OBVIOUS
<1> HIDE DEF new
<1>4. told' \in [Instances -> [Files -> Texts \cup {None}]]
  BY <1>0 DEF FilesTypeOK
<1>5. FilesTypeOK' BY <1>0, <1>1, <1>3, <1>4 DEF FilesTypeOK
<1>6. CacheWasOnDisk' BY DEF FilesIInv, CacheWasOnDisk
<1>7. CallsAreSane' BY <1>0, <1>1, <1>2, <1>3 DEF FilesIInv, CallsAreSane, Served
<1>8. AnswersWereOnDisk' BY <1>1, <1>2, <1>3 DEF FilesIInv, AnswersWereOnDisk
<1>9. \A c \in calls : Writing(c) => ~c.waits BY DEF FilesIInv, SavesAreAlone
<1>10. \A i \in Instances, f \in Files :
         told'[i][f] = IF i = target /\ f = selected THEN None ELSE told[i][f]
  BY <1>0 DEF FilesTypeOK
<1>11. SavesAreAlone'
  <2>1. \A c \in calls' : (c.op = "set" /\ c.waits) => c = new
    BY <1>3, <1>9 DEF Writing
  <2>2. ASSUME NEW c \in calls', c.op = "set", KeyOfCall(c) \notin doubtful
        PROVE  /\ c.waits /\ told'[c.inst][c.file] = None
               /\ c.task # "open" => disk[c.inst][c.file] = c.text
    <3>1. CASE c \in calls
      BY <1>9, <2>2, <3>1 DEF FilesIInv, SavesAreAlone, Writing
    <3>2. CASE c = new BY <1>0, <1>2, <1>10, <3>2
    <3>3. QED BY <1>3, <3>1, <3>2
  <2>3. QED BY <2>1, <2>2 DEF SavesAreAlone, Writing, KeyOfCall
<1>12. SavedStays' BY <1>10 DEF FilesIInv, SavedStays
<1>13. ListsAreForTarget' BY <1>2, <1>3 DEF FilesIInv, ListsAreForTarget
<1>14. PageShowsSelection' BY DEF FilesIInv, PageShowsSelection, Describes
<1>15. QED BY <1>5, <1>6, <1>7, <1>8, <1>11, <1>12, <1>13, <1>14 DEF FilesIInv

LEMMA GivenUpKeeps ==
  ASSUME NEW c \in Call
  PROVE  LET d == [c EXCEPT !.waits = FALSE] IN
         /\ d \in Call /\ ~d.waits /\ d.op = c.op /\ d.inst = c.inst /\ d.file = c.file
         /\ d.text = c.text /\ d.latest = c.latest /\ d.task = c.task /\ d.res = c.res
BY DEF Call

\* The writes under way when the page is left are in doubt.
LEMMA LeaveKeeps ==
  ASSUME FilesIInv, Leave, events' \in 0..MaxEvents
  PROVE  FilesIInv'
<1> USE DEF Leave
<1>0. FilesTypeOK /\ calls \in SUBSET Call BY DEF FilesIInv, FilesTypeOK
<1>1. \A d \in calls' : \E c \in calls :
        /\ c.op = "set" /\ d \in Call /\ ~d.waits /\ d.op = "set" /\ d.inst = c.inst
        /\ d.file = c.file /\ d.text = c.text /\ d.task = c.task /\ d.res = c.res
  <2> TAKE d \in calls'
  <2>1. PICK c \in calls : c.op = "set" /\ d = [c EXCEPT !.waits = FALSE] BY DEF GivenUp
  <2>2. c \in Call BY <1>0
  <2>3. QED BY <2>1, <2>2, GivenUpKeeps
<1>2. \A c \in calls : c.op = "set" => KeyOfCall(c) \in doubtful'
  BY DEF FilesIInv, SavesAreAlone, Writing, Doubted, KeyOfCall
<1>3. doubtful' \subseteq Keys
  BY <1>0 DEF FilesTypeOK, FilesIInv, CallsAreSane, Doubted, Call
<1>4. calls' \subseteq Call BY <1>1
<1>5. FilesTypeOK'
  BY <1>0, <1>3, <1>4, NoListIsList, BlankIsBlank DEF FilesTypeOK
<1>6. CacheWasOnDisk' BY DEF CacheWasOnDisk
<1>7. CallsAreSane' BY <1>1 DEF FilesIInv, CallsAreSane, Served
<1>8. AnswersWereOnDisk' BY <1>1 DEF FilesIInv, AnswersWereOnDisk
<1>9. \A d \in calls' : KeyOfCall(d) \in doubtful'
  BY <1>1, <1>2 DEF KeyOfCall
<1>10. SavesAreAlone' BY <1>1, <1>9 DEF SavesAreAlone, Writing, KeyOfCall
<1>11. SavedStays' BY DEF FilesIInv, SavedStays
<1>12. ListsAreForTarget' BY <1>1 DEF ListsAreForTarget
<1>13. PageShowsSelection' BY BlankIsBlank DEF PageShowsSelection
<1>14. QED BY <1>5, <1>6, <1>7, <1>8, <1>10, <1>11, <1>12, <1>13 DEF FilesIInv

LEMMA OperatorKeeps ==
  ASSUME FilesIInv, Operator
  PROVE  FilesIInv'
<1> USE DEF Operator
<1>0. events' \in 0..MaxEvents
  BY FilesPageAssumption DEF FilesIInv, FilesTypeOK
<1>1. CASE InstancesLoaded BY <1>0, <1>1, TurningKeeps DEF InstancesLoaded
<1>2. CASE SelectNoInstance
  BY <1>0, <1>2, ShowingKeeps DEF SelectNoInstance
<1>3. CASE Refresh BY <1>0, <1>3, RefreshKeeps
<1>4. CASE Save BY <1>0, <1>4, SaveKeeps
<1>5. CASE Leave BY <1>0, <1>5, LeaveKeeps
<1>6. ASSUME NEW i \in Instances, SelectInstance(i) PROVE FilesIInv'
  <2>1. loaded' \in BOOLEAN BY <1>6 DEF SelectInstance
  <2>2. QED BY <1>0, <1>6, <2>1, TurningKeeps DEF SelectInstance
<1>7. ASSUME NEW f \in Files, SelectFile(f) PROVE FilesIInv'
  BY <1>0, <1>7, ShowingKeeps DEF SelectFile
<1>8. ASSUME NEW t \in Typed, Type(t) PROVE FilesIInv'
  BY <1>0, <1>8, TypeKeeps
<1>9. QED BY <1>1, <1>2, <1>3, <1>4, <1>5, <1>6, <1>7, <1>8

(***************************************************************************)
(* The instance's actions.                                                 *)
(***************************************************************************)

\* A call moves on with a result r: what the parts ask of r.
LEMMA MovingKeeps ==
  ASSUME FilesIInv, NEW c \in calls, NEW s \in {"open", "ran", "done"}, NEW r \in Contents,
         calls' = WithTask(c, s, r),
         UNCHANGED <<pageVars, told, doubtful, missed, events>>,
         s # "open" => DOMAIN r = Served(c),
         disk' \in [Instances -> [Files -> Texts]],
         was' \in [Instances -> [Files -> SUBSET Texts]],
         \A i \in Instances, f \in Files : was[i][f] \subseteq was'[i][f],
         \A i \in Instances, f \in Files : disk'[i][f] \in was'[i][f],
         \A f \in DOMAIN r : r[f] \in was'[c.inst][f],
         (c.op = "set" /\ s # "open") => c.text \in was'[c.inst][c.file],
         \A i \in Instances, f \in Files :
           disk'[i][f] # disk[i][f] => (c.op = "set" /\ <<i, f>> = KeyOfCall(c)),
         (Writing(c) /\ s # "open" /\ KeyOfCall(c) \notin doubtful)
            => disk'[c.inst][c.file] = c.text
  PROVE  FilesIInv'
<1>0. FilesTypeOK /\ calls \in SUBSET Call /\ c \in Call BY DEF FilesIInv, FilesTypeOK
<1> DEFINE new == [c EXCEPT !.task = s, !.res = r]
<1>1. /\ new \in Call /\ new.task = s /\ new.res = r /\ new.op = c.op /\ new.inst = c.inst
      /\ new.file = c.file /\ new.text = c.text /\ new.latest = c.latest /\ new.waits = c.waits
  BY <1>0 DEF Call
<1>2. calls' = (calls \ {c}) \cup {new} BY DEF WithTask
<1> HIDE DEF new
<1>3. FilesTypeOK' BY <1>0, <1>1, <1>2 DEF FilesTypeOK
<1>4. CacheWasOnDisk' BY DEF FilesIInv, CacheWasOnDisk
<1>5. CallsAreSane' BY <1>1, <1>2 DEF FilesIInv, CallsAreSane, Served
<1>6. AnswersWereOnDisk'
  <2>1. \A i \in Instances, f \in Files : disk'[i][f] \in was'[i][f] OBVIOUS
  <2>2. ASSUME NEW d \in calls, d # c
        PROVE  /\ \A f \in DOMAIN d.res : d.res[f] \in was'[d.inst][f]
               /\ (d.op = "set" /\ d.task # "open") => d.text \in was'[d.inst][d.file]
    <3>1. d \in Call /\ d.inst \in Instances /\ DOMAIN d.res \subseteq Files
      BY <1>0, ContentsAre DEF Call
    <3>2. d.op = "set" => d.file \in Files BY DEF FilesIInv, CallsAreSane
    <3>3. QED BY <3>1, <3>2 DEF FilesIInv, AnswersWereOnDisk
  <2>3. QED BY <1>1, <1>2, <2>1, <2>2 DEF AnswersWereOnDisk
<1>7. SavesAreAlone'
  <2>1. \A d \in calls' : (d.op = "set" /\ d.waits) => saving
    BY <1>1, <1>2 DEF FilesIInv, SavesAreAlone, Writing
  <2>2. \A d, e \in calls' : (d.op = "set" /\ e.op = "set" /\ d.waits /\ e.waits) => d = e
    BY <1>1, <1>2 DEF FilesIInv, SavesAreAlone, Writing
  <2>3. ASSUME NEW d \in calls', d.op = "set", KeyOfCall(d) \notin doubtful
        PROVE  /\ d.waits /\ told[d.inst][d.file] = None
               /\ d.task # "open" => disk'[d.inst][d.file] = d.text
    <3>1. CASE d = new
      BY <1>1, <2>3, <3>1 DEF FilesIInv, SavesAreAlone, Writing, KeyOfCall
    <3>2. CASE d \in calls /\ d # c
      <4>1. /\ d.waits /\ told[d.inst][d.file] = None
            /\ d.task # "open" => disk[d.inst][d.file] = d.text
        BY <2>3, <3>2 DEF FilesIInv, SavesAreAlone, Writing
      <4>2. KeyOfCall(d) \in Keys
        BY <1>0, <2>3, <3>2 DEF Call, KeyOfCall, FilesIInv, CallsAreSane
      <4>3. c.op = "set" => KeyOfCall(c) # KeyOfCall(d)
        BY <2>3, <3>2 DEF FilesIInv, SavesAreAlone, Writing
      <4>4. disk'[d.inst][d.file] = disk[d.inst][d.file]
        BY <4>2, <4>3 DEF KeyOfCall
      <4>5. QED BY <4>1, <4>4
    <3>3. QED BY <1>2, <3>1, <3>2
  <2>4. QED BY <2>1, <2>2, <2>3 DEF SavesAreAlone, Writing, KeyOfCall
<1>8. SavedStays'
  <2> SUFFICES ASSUME NEW i \in Instances, NEW f \in Files, told[i][f] # None,
                      <<i, f>> \notin doubtful
               PROVE  disk'[i][f] = told[i][f]
    BY DEF SavedStays
  <2>1. disk[i][f] = told[i][f] BY DEF FilesIInv, SavedStays
  <2>2. ~(c.op = "set" /\ <<i, f>> = KeyOfCall(c))
    BY DEF FilesIInv, SavesAreAlone, Writing, KeyOfCall
  <2>3. QED BY <2>1, <2>2
<1>9. ListsAreForTarget' BY <1>1, <1>2 DEF FilesIInv, ListsAreForTarget
<1>10. PageShowsSelection' BY DEF FilesIInv, PageShowsSelection, Describes
<1>11. QED BY <1>3, <1>4, <1>5, <1>6, <1>7, <1>8, <1>9, <1>10 DEF FilesIInv

LEMMA RunTaskKeeps ==
  ASSUME FilesIInv, NEW c \in calls, RunTask(c), UNCHANGED events
  PROVE  FilesIInv'
<1>0. /\ FilesTypeOK /\ c \in Call /\ c.inst \in Instances /\ c.text \in Texts
      /\ c.op # "list" => c.file \in Files
  BY DEF FilesIInv, FilesTypeOK, CallsAreSane, Call
<1>1. /\ disk' = IF c.op = "set" THEN [disk EXCEPT ![c.inst][c.file] = c.text] ELSE disk
      /\ was' = IF c.op = "set" THEN [was EXCEPT ![c.inst][c.file] = @ \cup {c.text}] ELSE was
      /\ calls' = WithTask(c, "ran", Result(c, disk'[c.inst]))
      /\ UNCHANGED <<pageVars, told, doubtful, missed>>
  BY DEF RunTask
<1>2. /\ disk' \in [Instances -> [Files -> Texts]]
      /\ was' \in [Instances -> [Files -> SUBSET Texts]]
  BY <1>0, <1>1 DEF FilesTypeOK
<1>3. \A i \in Instances, f \in Files :
        /\ disk'[i][f] = IF c.op = "set" /\ i = c.inst /\ f = c.file THEN c.text ELSE disk[i][f]
        /\ was'[i][f] = IF c.op = "set" /\ i = c.inst /\ f = c.file
                        THEN was[i][f] \cup {c.text} ELSE was[i][f]
  BY <1>0, <1>1 DEF FilesTypeOK
<1>4. \A i \in Instances, f \in Files : was[i][f] \subseteq was'[i][f] BY <1>3
<1>5. ASSUME NEW i \in Instances, NEW f \in Files PROVE disk'[i][f] \in was'[i][f]
  <2>1. disk[i][f] \in was[i][f] BY DEF FilesIInv, AnswersWereOnDisk
  <2>2. QED BY <1>3, <2>1
<1> DEFINE r == Result(c, disk'[c.inst])
<1>6. /\ DOMAIN r = Served(c) /\ Served(c) \subseteq Files
      /\ \A f \in DOMAIN r : r[f] = disk'[c.inst][f]
  BY <1>0 DEF Result, Served, Call
<1>7. r \in Contents
  <2>1. r \in [DOMAIN r -> Texts] BY <1>0, <1>2, <1>6 DEF Result
  <2>2. QED BY <1>6, <2>1, ContentsAre
<1>8. \A f \in DOMAIN r : r[f] \in was'[c.inst][f] BY <1>0, <1>5, <1>6
<1>9. c.op = "set" => c.text \in was'[c.inst][c.file] /\ disk'[c.inst][c.file] = c.text
  BY <1>0, <1>3
<1>10. \A i \in Instances, f \in Files :
         disk'[i][f] # disk[i][f] => (c.op = "set" /\ <<i, f>> = KeyOfCall(c))
  BY <1>3 DEF KeyOfCall
<1> HIDE DEF r
<1>11. calls' = WithTask(c, "ran", r) BY <1>1 DEF r
<1>12. QED
  BY <1>1, <1>2, <1>4, <1>5, <1>6, <1>7, <1>8, <1>9, <1>10, <1>11, MovingKeeps DEF Writing

\* A call leaves the table, or an abandoned write.
LEMMA GoneKeeps ==
  ASSUME FilesIInv, NEW c \in calls, calls' = calls \ {c},
         UNCHANGED <<pageVars, disk, was, told, doubtful, missed, events>>
  PROVE  FilesIInv'
<1>1. FilesTypeOK' BY DEF FilesIInv, FilesTypeOK
<1>2. CacheWasOnDisk' BY DEF FilesIInv, CacheWasOnDisk
<1>3. CallsAreSane' BY DEF FilesIInv, CallsAreSane, Served
<1>4. AnswersWereOnDisk' BY DEF FilesIInv, AnswersWereOnDisk
<1>5. SavesAreAlone' BY DEF FilesIInv, SavesAreAlone, Writing, KeyOfCall
<1>6. SavedStays' BY DEF FilesIInv, SavedStays
<1>7. ListsAreForTarget' BY DEF FilesIInv, ListsAreForTarget
<1>8. PageShowsSelection' BY DEF FilesIInv, PageShowsSelection, Describes
<1>9. QED BY <1>1, <1>2, <1>3, <1>4, <1>5, <1>6, <1>7, <1>8 DEF FilesIInv

LEMMA AckTaskKeeps ==
  ASSUME FilesIInv, NEW c \in calls, AckTask(c), UNCHANGED events
  PROVE  FilesIInv'
<1> USE DEF AckTask
<1>0. FilesTypeOK /\ c \in Call /\ c.res \in Contents BY DEF FilesIInv, FilesTypeOK, Call
<1>1. CASE ~c.waits BY <1>1, GoneKeeps
<1>2. CASE c.waits
  <2>1. /\ DOMAIN c.res = Served(c) /\ \A f \in DOMAIN c.res : c.res[f] \in was[c.inst][f]
        /\ c.op = "set" => c.text \in was[c.inst][c.file]
        /\ \A i \in Instances, f \in Files : disk[i][f] \in was[i][f]
        /\ (c.op = "set" /\ KeyOfCall(c) \notin doubtful) => disk[c.inst][c.file] = c.text
    BY DEF FilesIInv, CallsAreSane, AnswersWereOnDisk, SavesAreAlone, Writing
  <2>2. calls' = WithTask(c, "done", c.res) BY <1>2
  <2>3. QED BY <1>0, <2>1, <2>2, MovingKeeps DEF FilesTypeOK, Writing
<1>3. QED BY <1>1, <1>2

LEMMA TaskAgainKeeps ==
  ASSUME FilesIInv, NEW c \in calls, TaskAgain(c), UNCHANGED events
  PROVE  FilesIInv'
<1> USE DEF TaskAgain
<1> DEFINE none == [g \in {} |-> Empty]
<1>0. FilesTypeOK BY DEF FilesIInv
<1>1. DOMAIN none = {} /\ none \in [{} -> Texts] OBVIOUS
<1>2. none \in Contents BY <1>1, ContentsAre
<1>3. calls' = WithTask(c, "open", none) OBVIOUS
<1> HIDE DEF none
<1>4. \A i \in Instances, f \in Files : disk[i][f] \in was[i][f]
  BY DEF FilesIInv, AnswersWereOnDisk
<1>5. QED BY <1>0, <1>1, <1>2, <1>3, <1>4, MovingKeeps DEF FilesTypeOK

(***************************************************************************)
(* The answers, and what else ends a call.                                 *)
(***************************************************************************)

\* A call that ends and writes nothing keeps what is asked of the others.
LEMMA EndingReads ==
  ASSUME FilesIInv, NEW c \in calls, NEW e, e \in SUBSET (calls \ {c}), calls' = e,
         UNCHANGED <<saving, disk, was, told, doubtful>>
  PROVE  ReadEffect
<1>1. calls \in SUBSET Call BY DEF FilesIInv, FilesTypeOK
<1>2. \A d \in calls : Same(d, d) BY <1>1 DEF Same
<1>3. QED BY <1>1, <1>2 DEF ReadEffect

LEMMA ListAnswerKeeps ==
  ASSUME FilesIInv, NEW c \in calls, ListAnswer(c), UNCHANGED events
  PROVE  FilesIInv'
<1> USE DEF ListAnswer
<1>0. /\ FilesTypeOK /\ calls \in SUBSET Call /\ c \in Call /\ c.inst \in Instances
      /\ calls \ {c} \in SUBSET Call
  BY DEF FilesIInv, FilesTypeOK, Call
<1> DEFINE items == [f \in Files |-> [of |-> c.inst, missing |-> c.res[f] = Empty]]
<1>1. CASE ~c.latest BY <1>1, GoneKeeps
<1>2. CASE c.latest
  <2>1. /\ listCache' = [listCache EXCEPT ![c.inst] = items]
        /\ Show(target, Pick(items), items, calls \ {c})
    BY <1>2
  <2>2. items \in Lists /\ Describes(items, c.inst) BY <1>0, ItemsAreList
  <2> HIDE DEF items
  <2>3. Pick(items) \in Files \cup {None} BY <2>2, PickIsInList, ListsAre
  <2>4. target # None => c.inst = target BY <1>2 DEF FilesIInv, ListsAreForTarget, ListAnswer
  <2>5. target \in Instances \cup {None} BY <1>0 DEF FilesTypeOK
  <2>6. /\ target' = target /\ selected' = Pick(items)
        /\ list' \in Lists
        /\ (Describes(items, target) => (target # None => Describes(list', target)))
        /\ editor' \in [text : Texts, of : Keys \cup {None}]
        /\ editor'.of # None => editor'.of = <<target, Pick(items)>>
        /\ loading' \in BOOLEAN
        /\ calls' \subseteq Call
        /\ \A d \in calls' : (\E b \in calls \ {c} : Same(d, b)) \/ (FreshRead(d) /\ d.op = "get")
    BY <1>0, <2>1, <2>2, <2>3, <2>5, ShowKeeps
  <2>7. listCache' \in [Instances -> Lists \cup {None}]
    BY <1>0, <2>1, <2>2 DEF FilesTypeOK
  <2>8. FilesTypeOK' BY <1>0, <2>3, <2>5, <2>6, <2>7 DEF FilesTypeOK
  <2>9. CacheWasOnDisk' BY DEF FilesIInv, CacheWasOnDisk
  <2>10. ReadEffect BY <2>6 DEF ReadEffect
  <2>11. (CallsAreSane /\ AnswersWereOnDisk /\ SavesAreAlone /\ SavedStays)'
    BY <2>10, ReadsKeepCalls
  <2>12. ListsAreForTarget' BY <2>6 DEF FilesIInv, ListsAreForTarget, Same
  <2>13. \A i \in Instances : listCache'[i] = IF i = c.inst THEN items ELSE listCache[i]
    BY <1>0, <2>1 DEF FilesTypeOK
  <2>14. ASSUME ~missed
         PROVE  \A i \in Instances : listCache'[i] # None => Describes(listCache'[i], i)
    BY <2>2, <2>13, <2>14 DEF FilesIInv, PageShowsSelection
  <2>15. PageShowsSelection'
    BY <2>2, <2>4, <2>6, <2>14 DEF PageShowsSelection, Describes
  <2>16. QED BY <2>8, <2>9, <2>11, <2>12, <2>15 DEF FilesIInv
<1>3. QED BY <1>1, <1>2

LEMMA GetAnswerKeeps ==
  ASSUME FilesIInv, NEW c \in calls, GetAnswer(c), UNCHANGED events
  PROVE  FilesIInv'
<1> USE DEF GetAnswer, OfLatestRead
<1>0. /\ FilesTypeOK /\ calls \in SUBSET Call /\ c \in Call /\ c.inst \in Instances
      /\ c.file \in Files /\ c.op = "get" /\ c.task = "done"
  BY DEF FilesIInv, FilesTypeOK, Call, CallsAreSane, Finished
<1>1. CASE ~c.latest BY <1>1, GoneKeeps
<1>2. CASE c.latest
  <2> DEFINE text == c.res[c.file]
  <2>0. DOMAIN c.res = {c.file}
    BY <1>0 DEF FilesIInv, CallsAreSane, Served
  <2>1. text \in Texts /\ text \in was[c.inst][c.file]
    <3>1. c.res \in [DOMAIN c.res -> Texts] BY <1>0, ContentsAre DEF Call
    <3>2. QED BY <2>0, <3>1 DEF FilesIInv, AnswersWereOnDisk
  <2>2. /\ contentCache' = [contentCache EXCEPT ![c.inst][c.file] = text]
        /\ editor' = [text |-> text, of |-> <<c.inst, c.file>>]
        /\ list' = Merge(list, c.file, c.inst, text = Empty)
        /\ loading' = FALSE
        /\ missed' = (missed \/ (c.latest /\ <<c.inst, c.file>> # <<target, selected>>))
    BY <1>2
  <2> HIDE DEF text
  <2>3. list' \in Lists /\ (Describes(list, c.inst) => Describes(list', c.inst))
    BY <1>0, <2>2, MergeKeeps DEF FilesTypeOK
  <2>4. \A i \in Instances, f \in Files :
          contentCache'[i][f] = IF i = c.inst /\ f = c.file THEN text ELSE contentCache[i][f]
    BY <1>0, <2>2 DEF FilesTypeOK
  <2>5. contentCache' \in [Instances -> [Files -> Texts \cup {None}]]
    BY <1>0, <2>1, <2>2 DEF FilesTypeOK
  <2>6. FilesTypeOK' BY <1>0, <2>1, <2>2, <2>3, <2>5 DEF FilesTypeOK
  <2>7. CacheWasOnDisk' BY <2>1, <2>4 DEF FilesIInv, CacheWasOnDisk
  <2>8. ReadEffect BY EndingReads
  <2>9. (CallsAreSane /\ AnswersWereOnDisk /\ SavesAreAlone /\ SavedStays)'
    BY <2>8, ReadsKeepCalls
  <2>10. ListsAreForTarget' BY DEF FilesIInv, ListsAreForTarget
  <2>11. ASSUME ~missed' PROVE target = c.inst /\ selected = c.file /\ ~missed
    BY <1>2, <2>2, <2>11
  <2>12. PageShowsSelection'
    BY <2>2, <2>3, <2>11 DEF FilesIInv, PageShowsSelection, Describes
  <2>13. QED BY <2>6, <2>7, <2>9, <2>10, <2>12 DEF FilesIInv
<1>3. QED BY <1>1, <1>2

LEMMA SaveAnswerKeeps ==
  ASSUME FilesIInv, NEW c \in calls, SaveAnswer(c), UNCHANGED events
  PROVE  FilesIInv'
<1>0. /\ FilesTypeOK /\ calls \in SUBSET Call /\ c \in Call /\ c.inst \in Instances
      /\ c.file \in Files /\ c.op = "set" /\ c.task = "done" /\ c.waits /\ c.text \in Texts
      /\ c.text \in was[c.inst][c.file]
  BY DEF FilesIInv, FilesTypeOK, Call, CallsAreSane, Finished, AnswersWereOnDisk, SaveAnswer
<1> DEFINE items == Merge(list, c.file, c.inst, FALSE)
<1>1. /\ calls' = calls \ {c} /\ list' = items
      /\ listCache' = [listCache EXCEPT ![c.inst] = items]
      /\ contentCache' = [contentCache EXCEPT ![c.inst][c.file] = c.text]
      /\ editor' = [text |-> c.text, of |-> <<c.inst, c.file>>]
      /\ saving' = FALSE
      /\ told' = [told EXCEPT ![c.inst][c.file] = c.text]
      /\ missed' = (missed \/ <<c.inst, c.file>> # <<target, selected>>)
      /\ UNCHANGED <<loaded, target, selected, loading, disk, was, doubtful>>
  BY DEF KeyOfCall, SaveAnswer
<1>2. items \in Lists /\ (Describes(list, c.inst) => Describes(items, c.inst))
  BY <1>0, MergeKeeps DEF FilesTypeOK
<1> HIDE DEF items
<1>3. \A i \in Instances, f \in Files :
        /\ contentCache'[i][f] = IF i = c.inst /\ f = c.file THEN c.text ELSE contentCache[i][f]
        /\ told'[i][f] = IF i = c.inst /\ f = c.file THEN c.text ELSE told[i][f]
  BY <1>0, <1>1 DEF FilesTypeOK
<1>4. /\ contentCache' \in [Instances -> [Files -> Texts \cup {None}]]
      /\ told' \in [Instances -> [Files -> Texts \cup {None}]]
  <2>1. contentCache' \in [Instances -> [Files -> Texts \cup {None}]]
    BY <1>0, <1>1 DEF FilesTypeOK
  <2>2. told' \in [Instances -> [Files -> Texts \cup {None}]]
    BY <1>0, <1>1 DEF FilesTypeOK
  <2>3. QED BY <2>1, <2>2
<1>5. /\ listCache' \in [Instances -> Lists \cup {None}]
      /\ \A i \in Instances : listCache'[i] = IF i = c.inst THEN items ELSE listCache[i]
  BY <1>0, <1>1, <1>2 DEF FilesTypeOK
<1>6. FilesTypeOK' BY <1>0, <1>1, <1>2, <1>4, <1>5 DEF FilesTypeOK
<1>7. CacheWasOnDisk' BY <1>0, <1>1, <1>3 DEF FilesIInv, CacheWasOnDisk
<1>8. CallsAreSane' BY <1>1 DEF FilesIInv, CallsAreSane, Served
<1>9. AnswersWereOnDisk' BY <1>1 DEF FilesIInv, AnswersWereOnDisk
<1>10. \A d \in calls' : d.op = "set" => ~d.waits
  BY <1>0, <1>1 DEF FilesIInv, SavesAreAlone, Writing
<1>11. \A d \in calls' : d.op = "set" => KeyOfCall(d) \in doubtful
  BY <1>1, <1>10 DEF FilesIInv, SavesAreAlone, Writing
<1>12. SavesAreAlone' BY <1>1, <1>10, <1>11 DEF SavesAreAlone, Writing, KeyOfCall
<1>13. SavedStays'
  <2>1. <<c.inst, c.file>> \notin doubtful => disk[c.inst][c.file] = c.text
    BY <1>0 DEF FilesIInv, SavesAreAlone, Writing, KeyOfCall
  <2>2. QED BY <1>1, <1>3, <2>1 DEF FilesIInv, SavedStays
<1>14. ListsAreForTarget' BY <1>1 DEF FilesIInv, ListsAreForTarget
<1>15. ASSUME ~missed' PROVE target = c.inst /\ selected = c.file /\ ~missed
  BY <1>1, <1>15
<1>16. target \in Instances => target # None BY FilesPageAssumption
<1>17. PageShowsSelection'
  BY <1>0, <1>1, <1>2, <1>5, <1>15, <1>16 DEF FilesIInv, PageShowsSelection, Describes
<1>18. QED BY <1>6, <1>7, <1>8, <1>9, <1>12, <1>13, <1>14, <1>17 DEF FilesIInv

\* A write that is given up is in doubt, whether its task is still there or not.
LEMMA CallFailsKeeps ==
  ASSUME FilesIInv, NEW c \in calls, CallFails(c), UNCHANGED events
  PROVE  FilesIInv'
<1> USE DEF CallFails
<1>0. /\ FilesTypeOK /\ calls \in SUBSET Call /\ c \in Call /\ c.waits
  BY DEF FilesIInv, FilesTypeOK
<1> DEFINE left == [c EXCEPT !.waits = FALSE]
<1>1. /\ left \in Call /\ ~left.waits /\ left.op = c.op /\ left.inst = c.inst
      /\ left.file = c.file /\ left.text = c.text /\ left.latest = c.latest
      /\ left.task = c.task /\ left.res = c.res
  BY <1>0, GivenUpKeeps
<1>2. /\ \A d \in calls' : (d \in calls /\ d # c) \/ (d = left /\ c.op = "set")
      /\ saving' = (saving /\ c.op # "set")
      /\ loading' = (loading /\ ~(c.op = "get" /\ c.latest))
  OBVIOUS
<1>3. c.op = "set" => (c.file \in Files /\ KeyOfCall(c) \in Keys /\ KeyOfCall(c) \in doubtful')
  BY <1>0 DEF Doubted, KeyOfCall, FilesIInv, CallsAreSane, Call
<1>4. doubtful \subseteq doubtful' /\ doubtful' \subseteq Keys
  BY <1>0, <1>3 DEF Doubted, KeyOfCall, FilesTypeOK
<1> HIDE DEF left
<1>5. calls' \subseteq Call BY <1>0, <1>1, <1>2
<1>6. FilesTypeOK' BY <1>0, <1>2, <1>4, <1>5 DEF FilesTypeOK
<1>7. CacheWasOnDisk' BY DEF FilesIInv, CacheWasOnDisk
<1>8. CallsAreSane' BY <1>1, <1>2 DEF FilesIInv, CallsAreSane, Served
<1>9. AnswersWereOnDisk' BY <1>1, <1>2 DEF FilesIInv, AnswersWereOnDisk
<1>10. SavesAreAlone'
  <2>1. \A d \in calls' : (d.op = "set" /\ d.waits) => (d \in calls /\ saving')
    BY <1>0, <1>1, <1>2 DEF FilesIInv, SavesAreAlone, Writing
  <2>2. \A d \in calls' : (d.op = "set" /\ KeyOfCall(d) \notin doubtful') => d \in calls
    BY <1>1, <1>2, <1>3 DEF KeyOfCall
  <2>3. QED BY <1>4, <2>1, <2>2 DEF FilesIInv, SavesAreAlone, Writing, KeyOfCall
<1>11. SavedStays' BY <1>4 DEF FilesIInv, SavedStays
<1>12. ListsAreForTarget' BY <1>1, <1>2 DEF FilesIInv, ListsAreForTarget
<1>13. PageShowsSelection' BY DEF FilesIInv, PageShowsSelection, Describes
<1>14. QED BY <1>6, <1>7, <1>8, <1>9, <1>10, <1>11, <1>12, <1>13 DEF FilesIInv

LEMMA FilesStepKeeps ==
  ASSUME FilesIInv, [FilesNext]_filesVars
  PROVE  FilesIInv'
<1>1. CASE Operator BY <1>1, OperatorKeeps
<1>2. ASSUME NEW c \in calls, Progress(c), UNCHANGED events PROVE FilesIInv'
  BY <1>2, RunTaskKeeps, AckTaskKeeps, ListAnswerKeeps, GetAnswerKeeps, SaveAnswerKeeps,
     CallFailsKeeps DEF Progress
<1>3. ASSUME NEW c \in calls, TaskAgain(c), UNCHANGED events PROVE FilesIInv'
  BY <1>3, TaskAgainKeeps
<1>4. CASE UNCHANGED filesVars
  <2> USE <1>4 DEF filesVars, FilesIInv
  <2>1. FilesTypeOK' BY DEF FilesTypeOK
  <2>2. CacheWasOnDisk' BY DEF CacheWasOnDisk
  <2>3. CallsAreSane' BY DEF CallsAreSane, Served
  <2>4. AnswersWereOnDisk' BY DEF AnswersWereOnDisk
  <2>5. SavesAreAlone' BY DEF SavesAreAlone, Writing, KeyOfCall
  <2>6. SavedStays' BY DEF SavedStays
  <2>7. ListsAreForTarget' BY DEF ListsAreForTarget
  <2>8. PageShowsSelection' BY DEF PageShowsSelection, Describes
  <2>9. QED BY <2>1, <2>2, <2>3, <2>4, <2>5, <2>6, <2>7, <2>8
<1>5. QED BY <1>1, <1>2, <1>3, <1>4 DEF FilesNext

LEMMA FilesInitKeeps ==
  ASSUME FilesInit
  PROVE  FilesIInv
<1> USE DEF FilesInit, PageInit
<1>1. FilesTypeOK
  <2>1. was \in [Instances -> [Files -> SUBSET Texts]] BY FilesPageAssumption
  <2>2. list \in Lists BY NoListIsList
  <2>3. editor \in [text : Texts, of : Keys \cup {None}] BY BlankIsBlank
  <2>4. listCache \in [Instances -> Lists \cup {None}] OBVIOUS
  <2>5. /\ contentCache \in [Instances -> [Files -> Texts \cup {None}]]
        /\ told \in [Instances -> [Files -> Texts \cup {None}]]
    OBVIOUS
  <2>6. events \in 0..MaxEvents /\ disk \in [Instances -> [Files -> Texts]]
    BY FilesPageAssumption
  <2>7. QED BY <2>1, <2>2, <2>3, <2>4, <2>5, <2>6 DEF FilesTypeOK
<1>2. AnswersWereOnDisk BY FilesPageAssumption DEF AnswersWereOnDisk
<1>3. QED
  BY <1>1, <1>2, BlankIsBlank
  DEF FilesIInv, CacheWasOnDisk, CallsAreSane, SavesAreAlone, SavedStays, ListsAreForTarget,
      PageShowsSelection

\* A session at the page of files is one of FilesSpec's.
LEMMA ConsoleStepsInFiles == [ConsoleNext]_consoleVars => [FilesNext]_filesVars
BY DEF ConsoleNext, consoleVars, MemoryView, TargetingView, SelectorView, OperationsView, TaskView

(***************************************************************************)
(* The page of files: theorems.                                            *)
(***************************************************************************)

\* However answers, timeouts, abandoned writes and selections interleave, the
\* parts above hold together (Memory.tsx, instance-files.ts).
THEOREM FilesAreInductive == ConsoleSpec => []FilesIInv
<1>1. ConsoleInit => FilesIInv BY FilesInitKeeps DEF ConsoleInit
<1>2. FilesIInv /\ [ConsoleNext]_consoleVars => FilesIInv'
  BY ConsoleStepsInFiles, FilesStepKeeps
<1>3. QED BY <1>1, <1>2, PTL DEF ConsoleSpec

\* The content cache holds for each file a text that this file had: FilesInv.
THEOREM CacheIsOfTheFile == ConsoleSpec => []FilesInv
<1>1. FilesIInv => FilesInv BY DEF FilesIInv, FilesInv
<1>2. QED BY <1>1, FilesAreInductive, PTL

\* A save the page has reported stays on the instance as long as no save of that
\* file was given up: SavedStays.
THEOREM ReportedSavesStay == ConsoleSpec => []SavedStays
<1>1. FilesIInv => SavedStays BY DEF FilesIInv
<1>2. QED BY <1>1, FilesAreInductive, PTL

\* As long as no answer reached a selection that had changed, the page shows the
\* selected instance's list and the selected file's text: PageShowsSelection.
THEOREM PageFollowsSelection == ConsoleSpec => []PageShowsSelection
<1>1. FilesIInv => PageShowsSelection BY DEF FilesIInv
<1>2. QED BY <1>1, FilesAreInductive, PTL

(***************************************************************************)
(* The page of groups and labels: the inductive invariant, in parts.       *)
(***************************************************************************)

Stages == {"sent", "ok", "refused"}
Remarks == Notes \cup {NoNote}
Creates == [kind : {"create"}, id : {Nobody}, selector : GivenTexts, note : Remarks, at : Stages]
Patches ==
  [kind : {"patch"}, id : Ids, selector : GivenTexts \cup {Nobody}, note : Remarks, at : Stages]
Deletes == [kind : {"delete"}, id : Ids, selector : {<<>>}, note : {NoNote}, at : Stages]
Previews ==
  [kind : {"matches"}, id : Ids, selector : GivenTexts \cup {<<>>}, note : {NoNote},
   at : {"sent", "group", "refused"}]
Found == [kind : {"matches"}, at : {"ok"}, id : Ids, items : SUBSET Sites]
Upserts == [kind : {"upsert"}, site : Sites, key : LabelKeys, value : LabelValues, at : Stages]
Unlabels == [kind : {"unlabel"}, site : Sites, key : LabelKeys, value : {Nobody}, at : Stages]
Writes == Creates \cup Patches \cup Deletes \cup Upserts \cup Unlabels
Reloads == [kind : {"create", "patch", "delete", "upsert", "unlabel"}, at : {"reload"}]

\* An operation has what its kind needs.
OpOK == op \in {Idle} \cup Writes \cup Previews \cup Found \cup Reloads

\* A read has what was asked for once it is served.
ReadOK(r) ==
  /\ r \in [what : {"groups", "instances", "labels"}, forOp : BOOLEAN,
            site : Sites \cup {Nobody}, served : BOOLEAN, data : Rows \cup Labellings]
  /\ r.what = "labels" => r.site \in Sites
  /\ r.what = "instances" => r.served
  /\ (r.what = "groups" /\ r.served) => r.data \in Rows
  /\ (r.what = "labels" /\ r.served) => r.data \in Labellings
ReadsOK == \A r \in reads : ReadOK(r)

\* Identifiers are not given twice: a group this page has deleted, or is about to
\* hear that it has, is gone for good, and a preview is of a group still there
\* when it was read.
DeletedAreGone ==
  /\ DOMAIN groups \subseteq 1..made /\ deletedHere \subseteq (1..made) \ DOMAIN groups
  /\ (op.kind = "delete" /\ op.at = "ok") => op.id \in (1..made) \ DOMAIN groups
  /\ (op.kind = "matches" /\ op.at \in {"group", "ok"}) => op.id \notin deletedHere

TargetingIInv ==
  /\ TargetingTypeOK /\ OpOK /\ ReadsOK /\ DeletedAreGone /\ TablesStayLegal
  /\ PreviewIsCleared

(***************************************************************************)
(* Tables as functions with a domain that changes.                         *)
(***************************************************************************)

LEMMA PutRow ==
  ASSUME NEW f \in Rows, NEW g \in Ids, NEW row \in Row
  PROVE  /\ Put(f, g, row) \in Rows /\ DOMAIN Put(f, g, row) = DOMAIN f \cup {g}
         /\ Put(f, g, row)[g] = row
         /\ \A h \in DOMAIN f : h # g => Put(f, g, row)[h] = f[h]
<1>1. DOMAIN f \in SUBSET Ids /\ f \in [DOMAIN f -> Row] BY DEF Rows
<1>2. DOMAIN f \cup {g} \in SUBSET Ids BY <1>1
<1>3. Put(f, g, row) \in [DOMAIN f \cup {g} -> Row] BY <1>1 DEF Put
<1>4. QED BY <1>2, <1>3 DEF Put, Rows

LEMMA DropRow ==
  ASSUME NEW f \in Rows, NEW g
  PROVE  /\ Drop(f, g) \in Rows /\ DOMAIN Drop(f, g) = DOMAIN f \ {g}
         /\ \A h \in DOMAIN f \ {g} : Drop(f, g)[h] = f[h]
<1>1. DOMAIN f \in SUBSET Ids /\ f \in [DOMAIN f -> Row] BY DEF Rows
<1>2. DOMAIN f \ {g} \in SUBSET Ids BY <1>1
<1>3. Drop(f, g) \in [DOMAIN f \ {g} -> Row] BY <1>1 DEF Drop
<1>4. QED BY <1>2, <1>3 DEF Drop, Rows

LEMMA PutLabel ==
  ASSUME NEW m \in Labellings, NEW k \in LabelKeys, NEW v \in LabelValues
  PROVE  Put(m, k, v) \in Labellings /\ DOMAIN Put(m, k, v) = DOMAIN m \cup {k}
<1>1. DOMAIN m \in SUBSET LabelKeys /\ m \in [DOMAIN m -> LabelValues] BY DEF Labellings
<1>2. DOMAIN m \cup {k} \in SUBSET LabelKeys BY <1>1
<1>3. Put(m, k, v) \in [DOMAIN m \cup {k} -> LabelValues] BY <1>1 DEF Put
<1>4. QED BY <1>2, <1>3 DEF Put, Labellings

LEMMA DropLabel ==
  ASSUME NEW m \in Labellings, NEW k
  PROVE  Drop(m, k) \in Labellings /\ DOMAIN Drop(m, k) = DOMAIN m \ {k}
<1>1. DOMAIN m \in SUBSET LabelKeys /\ m \in [DOMAIN m -> LabelValues] BY DEF Labellings
<1>2. DOMAIN m \ {k} \in SUBSET LabelKeys BY <1>1
<1>3. Drop(m, k) \in [DOMAIN m \ {k} -> LabelValues] BY <1>1 DEF Drop
<1>4. QED BY <1>2, <1>3 DEF Drop, Labellings

LEMMA NoRowsAreRows == NoRows \in Rows /\ NoRows \in Labellings /\ DOMAIN NoRows = {}
<1>1. NoRows \in [{} -> Row] /\ NoRows \in [{} -> LabelValues] BY DEF NoRows
<1>2. QED BY <1>1 DEF Rows, Labellings, NoRows

LEMMA FirstPageIsRows ==
  ASSUME groups \in Rows
  PROVE  FirstPage \in Rows
<1> DEFINE D == {h \in DOMAIN groups : Cardinality({k \in DOMAIN groups : k <= h}) <= GroupPageSize}
<1>1. DOMAIN groups \in SUBSET Ids /\ groups \in [DOMAIN groups -> Row] BY DEF Rows
<1>2. D \in SUBSET Ids BY <1>1
<1>3. FirstPage \in [D -> Row]
  <2>1. FirstPage = [g \in D |-> groups[g]] BY DEF FirstPage
  <2>2. \A g \in D : groups[g] \in Row BY <1>1
  <2> HIDE DEF D
  <2>3. QED BY <2>1, <2>2
<1> HIDE DEF D
<1>4. QED BY <1>2, <1>3 DEF Rows

LEMMA NewReadsAreOK ==
  ASSUME NEW i \in Sites \cup {Nobody}
  PROVE  /\ \A r \in Effect(i) \cup LabelsOf(i) : ReadOK(r)
         /\ ReadOK(Read("groups", TRUE, Nobody))
         /\ i \in Sites => ReadOK(Read("labels", TRUE, i))
<1>1. ASSUME NEW w \in {"groups", "instances", "labels"}, NEW b \in BOOLEAN,
             NEW j \in Sites \cup {Nobody}, w = "labels" => j \in Sites
      PROVE  ReadOK(Read(w, b, j))
  <2>1. NoRows \in Rows \cup Labellings BY NoRowsAreRows
  <2>2. QED BY <1>1, <2>1, NoRowsAreRows DEF Read, ReadOK
<1>2. ASSUME NEW r \in Effect(i) PROVE ReadOK(r) BY <1>1 DEF Effect
<1>3. ASSUME NEW r \in LabelsOf(i) PROVE ReadOK(r) BY <1>1 DEF LabelsOf
<1>4. QED BY <1>1, <1>2, <1>3

(***************************************************************************)
(* The routes.                                                             *)
(***************************************************************************)

\* A route that accepts a request keeps the tables legal and reuses no identifier.
LEMMA ApplyKeeps ==
  ASSUME TargetingIInv, NEW o \in Writes, Allowed(o), Apply(o)
  PROVE  /\ groups' \in Rows /\ labels' \in [Sites -> Labellings]
         /\ made' \in 0..MaxGroups /\ DOMAIN groups' \subseteq 1..made'
         /\ (1..made) \ DOMAIN groups \subseteq (1..made') \ DOMAIN groups'
         /\ o.kind = "delete" => o.id \in (1..made') \ DOMAIN groups'
         /\ TablesStayLegal'
<1> DEFINE Goal ==
         /\ groups' \in Rows /\ labels' \in [Sites -> Labellings]
         /\ made' \in 0..MaxGroups /\ DOMAIN groups' \subseteq 1..made'
         /\ (1..made) \ DOMAIN groups \subseteq (1..made') \ DOMAIN groups'
         /\ o.kind = "delete" => o.id \in (1..made') \ DOMAIN groups'
         /\ TablesStayLegal'
<1>0. /\ groups \in Rows /\ labels \in [Sites -> Labellings] /\ made \in 0..MaxGroups
      /\ DOMAIN groups \subseteq 1..made /\ DOMAIN groups \subseteq Ids
      /\ \A g \in DOMAIN groups : groups[g] \in Row /\ ParseLabelSelector(groups[g].selector) # Invalid
      /\ \A i \in Sites : DOMAIN labels[i] \cap SystemKeys = {}
      /\ MaxGroups \in Nat /\ BusinessKeys \cap SystemKeys = {}
  BY TargetingAssumption DEF TargetingIInv, TargetingTypeOK, DeletedAreGone, TablesStayLegal, Rows
<1>1. CASE o.kind = "create"
  <2> DEFINE new == [selector |-> o.selector, note |-> o.note]
  <2>1. /\ ParseLabelSelector(o.selector) # Invalid /\ made < MaxGroups
        /\ made' = made + 1 /\ groups' = Put(groups, made + 1, new) /\ labels' = labels
    BY <1>1 DEF Allowed, Apply
  <2>2. new \in Row /\ new.selector = o.selector
    BY <1>1 DEF Row, Writes, Creates, Patches, Deletes, Upserts, Unlabels, Remarks
  <2>3. made + 1 \in Ids BY <1>0, <2>1 DEF Ids
  <2> HIDE DEF new
  <2>4. /\ groups' \in Rows /\ DOMAIN groups' = DOMAIN groups \cup {made + 1}
        /\ groups'[made + 1] = new
        /\ \A y \in DOMAIN groups : y # made + 1 => groups'[y] = groups[y]
    <3>0. groups \in Rows /\ new \in Row /\ made + 1 \in Ids BY <1>0, <2>2, <2>3
    <3>1. /\ Put(groups, made + 1, new) \in Rows
          /\ DOMAIN Put(groups, made + 1, new) = DOMAIN groups \cup {made + 1}
          /\ Put(groups, made + 1, new)[made + 1] = new
          /\ \A h \in DOMAIN groups : h # made + 1 => Put(groups, made + 1, new)[h] = groups[h]
      BY <3>0, PutRow
    <3>2. QED BY <2>1, <3>1
  <2>5. made + 1 \notin DOMAIN groups BY <1>0
  <2>6. \A g \in DOMAIN groups' : ParseLabelSelector(groups'[g].selector) # Invalid
    BY <1>0, <2>1, <2>2, <2>4
  <2>7. TablesStayLegal' BY <1>0, <2>1, <2>6 DEF TablesStayLegal
  <2>8. made' \in 0..MaxGroups /\ DOMAIN groups' \subseteq 1..made'
    BY <1>0, <2>1, <2>4
  <2>9. (1..made) \ DOMAIN groups \subseteq (1..made') \ DOMAIN groups'
    BY <1>0, <2>1, <2>4
  <2>10. QED BY <1>0, <1>1, <2>1, <2>4, <2>7, <2>8, <2>9
<1>2. CASE o.kind = "patch"
  <2> DEFINE row == Patched(groups[o.id], o)
  <2>1. /\ o.id \in DOMAIN groups
        /\ o.selector # Nobody => ParseLabelSelector(o.selector) # Invalid
        /\ made' = made /\ groups' = Put(groups, o.id, row) /\ labels' = labels
    BY <1>0, <1>2 DEF Allowed, PatchAllowed, Apply
  <2>2. /\ o.selector \in GivenTexts \cup {Nobody} /\ o.note \in Remarks
    BY <1>2 DEF Writes, Creates, Patches, Deletes, Upserts, Unlabels
  <2>3. row \in Row /\ ParseLabelSelector(row.selector) # Invalid
    <3>1. groups[o.id] \in Row /\ ParseLabelSelector(groups[o.id].selector) # Invalid
      BY <1>0, <2>1
    <3>2. QED BY <2>1, <2>2, <3>1 DEF Patched, Row, Remarks
  <2> HIDE DEF row
  <2>4. /\ groups' \in Rows /\ DOMAIN groups' = DOMAIN groups
        /\ groups'[o.id] = row
        /\ \A y \in DOMAIN groups : y # o.id => groups'[y] = groups[y]
    <3>1. groups \in Rows /\ row \in Row /\ o.id \in Ids BY <1>0, <2>1, <2>3
    <3>2. /\ Put(groups, o.id, row) \in Rows
          /\ DOMAIN Put(groups, o.id, row) = DOMAIN groups \cup {o.id}
          /\ Put(groups, o.id, row)[o.id] = row
          /\ \A h \in DOMAIN groups : h # o.id => Put(groups, o.id, row)[h] = groups[h]
      BY <3>1, PutRow
    <3>3. QED BY <2>1, <3>2
  <2>5. \A g \in DOMAIN groups' : ParseLabelSelector(groups'[g].selector) # Invalid
    BY <1>0, <2>3, <2>4
  <2>6. TablesStayLegal' BY <1>0, <2>1, <2>5 DEF TablesStayLegal
  <2>7. QED BY <1>0, <1>2, <2>1, <2>4, <2>6
<1>3. CASE o.kind = "delete"
  <2>1. o.id \in DOMAIN groups /\ made' = made /\ groups' = Drop(groups, o.id) /\ labels' = labels
    BY <1>0, <1>3 DEF Allowed, Apply
  <2>2. /\ groups' \in Rows /\ DOMAIN groups' = DOMAIN groups \ {o.id}
        /\ \A y \in DOMAIN groups \ {o.id} : groups'[y] = groups[y]
    BY <1>0, <2>1, DropRow
  <2>3. \A g \in DOMAIN groups' : ParseLabelSelector(groups'[g].selector) # Invalid
    BY <1>0, <2>2
  <2>4. TablesStayLegal' BY <1>0, <2>1, <2>3 DEF TablesStayLegal
  <2>5. QED BY <1>0, <1>3, <2>1, <2>2, <2>4
<1>4. CASE o.kind = "upsert"
  <2> DEFINE l == Put(labels[o.site], o.key, o.value)
  <2>1. /\ o.key \in BusinessKeys /\ made' = made /\ groups' = groups
        /\ labels' = [labels EXCEPT ![o.site] = l]
    BY <1>0, <1>4 DEF Allowed, Apply
  <2>2. o.site \in Sites /\ o.key \in LabelKeys /\ o.value \in LabelValues
    BY <1>4 DEF Writes, Creates, Patches, Deletes, Upserts, Unlabels
  <2>3. l \in Labellings /\ DOMAIN l = DOMAIN labels[o.site] \cup {o.key}
    BY <1>0, <2>2, PutLabel
  <2> HIDE DEF l
  <2>4. /\ labels' \in [Sites -> Labellings]
        /\ \A i \in Sites : labels'[i] = IF i = o.site THEN l ELSE labels[i]
    BY <1>0, <2>1, <2>2, <2>3
  <2>5. \A i \in Sites : DOMAIN labels'[i] \cap SystemKeys = {}
    BY <1>0, <2>1, <2>2, <2>3, <2>4
  <2>6. TablesStayLegal' BY <1>0, <2>1, <2>5 DEF TablesStayLegal
  <2>7. QED BY <1>0, <1>4, <2>1, <2>4, <2>6
<1>5. CASE o.kind = "unlabel"
  <2> DEFINE l == Drop(labels[o.site], o.key)
  <2>1. /\ made' = made /\ groups' = groups
        /\ labels' = [labels EXCEPT ![o.site] = l]
    BY <1>0, <1>5 DEF Allowed, Apply
  <2>2. o.site \in Sites
    BY <1>5 DEF Writes, Creates, Patches, Deletes, Upserts, Unlabels
  <2>3. l \in Labellings /\ DOMAIN l = DOMAIN labels[o.site] \ {o.key}
    BY <1>0, <2>2, DropLabel
  <2> HIDE DEF l
  <2>4. /\ labels' \in [Sites -> Labellings]
        /\ \A i \in Sites : labels'[i] = IF i = o.site THEN l ELSE labels[i]
    BY <1>0, <2>1, <2>2, <2>3
  <2>5. \A i \in Sites : DOMAIN labels'[i] \cap SystemKeys = {}
    BY <1>0, <2>2, <2>3, <2>4
  <2>6. TablesStayLegal' BY <1>0, <2>1, <2>5 DEF TablesStayLegal
  <2>7. QED BY <1>0, <1>5, <2>1, <2>4, <2>6
<1>6. o.kind \in {"create", "patch", "delete", "upsert", "unlabel"}
  BY DEF Writes, Creates, Patches, Deletes, Upserts, Unlabels
<1>7. Goal BY <1>1, <1>2, <1>3, <1>4, <1>5, <1>6
<1>8. QED BY <1>7

\* What leaves the tables alone.
LEMMA QuietKeeps ==
  ASSUME TargetingIInv, UNCHANGED <<tablesVars, deletedHere>>,
         shown' \in Rows, editing' \in Rows, shownLabels' \in Labellings,
         preview'.of \in Ids \cup {Nobody}, preview'.items \subseteq Sites,
         preview'.of \notin deletedHere,
         chosen' \in Sites \cup {Nobody}, field' \in Seq(Token), acts' \in Nat,
         OpOK', ReadsOK',
         (op'.kind = "delete" /\ op'.at = "ok") => op' = op,
         (op'.kind = "matches" /\ op'.at \in {"group", "ok"}) => op'.id \notin deletedHere
  PROVE  TargetingIInv'
<1> USE DEF TargetingIInv, tablesVars
<1>1. op'.at \in {"idle", "sent", "group", "ok", "refused", "reload"}
  BY DEF OpOK, Idle, Writes, Creates, Patches, Deletes, Upserts, Unlabels, Previews, Found,
         Reloads, Stages
<1>2. \A r \in reads' : r.what \in {"groups", "instances", "labels"} /\ r.served \in BOOLEAN
  BY DEF ReadsOK, ReadOK
<1>3. TargetingTypeOK' BY <1>1, <1>2 DEF TargetingTypeOK
<1>4. DeletedAreGone' BY DEF DeletedAreGone
<1>5. TablesStayLegal' BY DEF TablesStayLegal
<1>6. PreviewIsCleared' BY DEF PreviewIsCleared
<1>7. QED BY <1>3, <1>4, <1>5, <1>6

(***************************************************************************)
(* The operator, the answers and everybody else.                           *)
(***************************************************************************)

USE DEF tablesVars, formVars

\* What an action that leaves the tables alone may rely on.
LEMMA TargetingFacts ==
  ASSUME TargetingIInv
  PROVE  /\ groups \in Rows /\ shown \in Rows /\ editing \in Rows /\ shownLabels \in Labellings
         /\ preview.of \in Ids \cup {Nobody} /\ preview.items \subseteq Sites
         /\ preview.of \notin deletedHere
         /\ chosen \in Sites \cup {Nobody} /\ field \in Seq(Token) /\ acts \in Nat
         /\ acts + 1 \in Nat
         /\ OpOK /\ ReadsOK
         /\ (op.kind = "matches" /\ op.at \in {"group", "ok"}) => op.id \notin deletedHere
         /\ FirstSite \in Sites
BY TargetingAssumption DEF TargetingIInv, TargetingTypeOK, DeletedAreGone, PreviewIsCleared

LEMMA DraftIsRow ==
  ASSUME NEW l \in Rows, NEW g \in DOMAIN l
  PROVE  g \in Ids /\ l[g] \in Row /\ l[g].selector \in GivenTexts /\ l[g].note \in Remarks
<1>1. g \in Ids /\ l[g] \in Row BY DEF Rows
<1>2. QED BY <1>1 DEF Row, Remarks

\* An operation sent has what its kind needs.
LEMMA SendingIsOK ==
  ASSUME NEW o \in Writes \cup Previews, o.at = "sent", Sends(o)
  PROVE  OpOK' /\ op'.at = "sent"
BY DEF OpOK, Sends

LEMMA SendingKeeps ==
  ASSUME TargetingIInv, NEW o \in Writes \cup Previews, o.at = "sent", Act, Sends(o),
         UNCHANGED <<tablesVars, shown, formVars, reads, deletedHere>>
  PROVE  TargetingIInv'
<1>1. OpOK' /\ op'.at = "sent" BY SendingIsOK
<1>2. ReadsOK' BY TargetingFacts DEF ReadsOK, ReadOK
<1>3. acts' \in Nat BY TargetingFacts DEF Act
<1>4. QED BY <1>1, <1>2, <1>3, TargetingFacts, QuietKeeps

\* What the operator does to drafts.
LEMMA DraftingKeeps ==
  ASSUME TargetingIInv, editing' \in Rows, Act,
         UNCHANGED <<tablesVars, shown, preview, chosen, shownLabels, field, op, reads,
                     deletedHere>>
  PROVE  TargetingIInv'
<1>1. OpOK' BY TargetingFacts DEF OpOK
<1>2. ReadsOK' BY TargetingFacts DEF ReadsOK, ReadOK
<1>3. acts' \in Nat BY TargetingFacts DEF Act
<1>4. QED BY <1>1, <1>2, <1>3, TargetingFacts, QuietKeeps

LEMMA GroupActionsKeep ==
  ASSUME TargetingIInv, NEW g \in Ids,
         \/ StartEdit(g) \/ CancelEdit(g) \/ SaveEdit(g) \/ HandleDeleteGroup(g) \/ ShowMatches(g)
         \/ \E t \in GivenTexts, n \in Notes \cup {NoNote} : EditDraft(g, t, n)
  PROVE  TargetingIInv'
<1>0. shown \in Rows /\ editing \in Rows BY TargetingFacts
<1>1. CASE StartEdit(g)
  <2>1. shown[g] \in Row BY <1>0, <1>1, DraftIsRow DEF StartEdit
  <2>2. Put(editing, g, shown[g]) \in Rows BY <1>0, <2>1, PutRow
  <2>3. QED BY <1>1, <2>2, DraftingKeeps DEF StartEdit
<1>2. CASE CancelEdit(g)
  <2>1. Drop(editing, g) \in Rows BY <1>0, DropRow
  <2>2. QED BY <1>2, <2>1, DraftingKeeps DEF CancelEdit
<1>3. CASE SaveEdit(g)
  <2> DEFINE o == Request("patch", g, Given(editing[g].selector), editing[g].note)
  <2>1. editing[g].selector \in GivenTexts /\ editing[g].note \in Remarks
    BY <1>0, <1>3, DraftIsRow DEF SaveEdit
  <2>2. Given(editing[g].selector) \in GivenTexts \cup {Nobody} BY <2>1 DEF Given
  <2>3. o \in Patches /\ o.at = "sent" BY <2>1, <2>2 DEF Request, Patches, Stages
  <2> HIDE DEF o
  <2>4. Act /\ Sends(o) /\ UNCHANGED <<tablesVars, shown, formVars, reads, deletedHere>>
    BY <1>3 DEF SaveEdit, o
  <2>5. QED BY <2>3, <2>4, SendingKeeps DEF Writes
<1>4. CASE HandleDeleteGroup(g)
  <2> DEFINE o == Request("delete", g, <<>>, NoNote)
  <2>1. o \in Deletes /\ o.at = "sent" BY DEF Request, Deletes, Stages
  <2> HIDE DEF o
  <2>2. Act /\ Sends(o) /\ UNCHANGED <<tablesVars, shown, formVars, reads, deletedHere>>
    BY <1>4 DEF HandleDeleteGroup, o
  <2>3. QED BY <2>1, <2>2, SendingKeeps DEF Writes
<1>5. CASE ShowMatches(g)
  <2> DEFINE o == Request("matches", g, <<>>, NoNote)
  <2>1. o \in Previews /\ o.at = "sent" BY DEF Request, Previews
  <2> HIDE DEF o
  <2>2. Act /\ Sends(o) /\ UNCHANGED <<tablesVars, shown, formVars, reads, deletedHere>>
    BY <1>5 DEF ShowMatches, o
  <2>3. QED BY <2>1, <2>2, SendingKeeps
<1>6. ASSUME NEW t \in GivenTexts, NEW n \in Notes \cup {NoNote}, EditDraft(g, t, n)
      PROVE  TargetingIInv'
  <2>1. [selector |-> t, note |-> n] \in Row BY DEF Row
  <2>2. Put(editing, g, [selector |-> t, note |-> n]) \in Rows BY <1>0, <2>1, PutRow
  <2>3. QED BY <1>6, <2>2, DraftingKeeps DEF EditDraft
<1>7. QED BY <1>1, <1>2, <1>3, <1>4, <1>5, <1>6

LEMMA OtherRequestsKeep ==
  ASSUME TargetingIInv,
         \/ \E t \in GivenTexts, n \in Notes \cup {NoNote} : HandleCreateGroup(t, n)
         \/ \E k \in LabelKeys : HandleDeleteLabel(k) \/ \E v \in LabelValues : HandleUpsertLabel(k, v)
  PROVE  TargetingIInv'
<1>1. ASSUME NEW t \in GivenTexts, NEW n \in Notes \cup {NoNote}, HandleCreateGroup(t, n)
      PROVE  TargetingIInv'
  <2> DEFINE o == Request("create", Nobody, t, n)
  <2>1. o \in Creates /\ o.at = "sent" BY DEF Request, Creates, Stages, Remarks
  <2> HIDE DEF o
  <2>2. Act /\ Sends(o) /\ UNCHANGED <<tablesVars, shown, formVars, reads, deletedHere>>
    BY <1>1 DEF HandleCreateGroup, o
  <2>3. QED BY <2>1, <2>2, SendingKeeps DEF Writes
<1>2. chosen # Nobody => chosen \in Sites BY TargetingFacts
<1>3. ASSUME NEW k \in LabelKeys, HandleDeleteLabel(k) PROVE TargetingIInv'
  <2> DEFINE o == LabelRequest("unlabel", chosen, k, Nobody)
  <2>1. o \in Unlabels /\ o.at = "sent"
    BY <1>2, <1>3 DEF HandleDeleteLabel, LabelRequest, Unlabels, Stages
  <2> HIDE DEF o
  <2>2. Act /\ Sends(o) /\ UNCHANGED <<tablesVars, shown, formVars, reads, deletedHere>>
    BY <1>3 DEF HandleDeleteLabel, o
  <2>3. QED BY <2>1, <2>2, SendingKeeps DEF Writes
<1>4. ASSUME NEW k \in LabelKeys, NEW v \in LabelValues, HandleUpsertLabel(k, v)
      PROVE  TargetingIInv'
  <2> DEFINE o == LabelRequest("upsert", chosen, k, v)
  <2>1. o \in Upserts /\ o.at = "sent"
    BY <1>2, <1>4 DEF HandleUpsertLabel, LabelRequest, Upserts, Stages
  <2> HIDE DEF o
  <2>2. Act /\ Sends(o) /\ UNCHANGED <<tablesVars, shown, formVars, reads, deletedHere>>
    BY <1>4 DEF HandleUpsertLabel, o
  <2>3. QED BY <2>1, <2>2, SendingKeeps DEF Writes
<1>5. QED BY <1>1, <1>3, <1>4

LEMMA SelectSiteKeeps ==
  ASSUME TargetingIInv, NEW i \in Sites \cup {Nobody}, SelectSite(i)
  PROVE  TargetingIInv'
<1>1. /\ chosen' = i /\ reads' = reads \cup Effect(i) \cup LabelsOf(i) /\ Act
      /\ UNCHANGED <<tablesVars, shown, editing, preview, shownLabels, field, op, deletedHere>>
  BY DEF SelectSite
<1>2. ReadsOK' BY <1>1, NewReadsAreOK, TargetingFacts DEF ReadsOK, ReadOK
<1>3. OpOK' BY <1>1, TargetingFacts DEF OpOK
<1>4. acts' \in Nat BY <1>1, TargetingFacts DEF Act
<1>5. QED BY <1>1, <1>2, <1>3, <1>4, TargetingFacts, QuietKeeps

LEMMA TypingKeeps ==
  ASSUME TargetingIInv, Typing
  PROVE  TargetingIInv'
<1>1. /\ field' \in Seq(Token) /\ acts' \in Nat
      /\ UNCHANGED <<tablesVars, shown, editing, preview, chosen, shownLabels, op, reads,
                     deletedHere>>
  <2>1. ASSUME NEW x \in Typeable, TypeToken(x)
        PROVE  /\ field' \in Seq(Token) /\ acts' \in Nat
               /\ UNCHANGED <<tablesVars, shown, editing, preview, chosen, shownLabels, op, reads,
                              deletedHere>>
    BY <2>1, TargetingFacts, TargetingAssumption DEF TypeToken
  <2>2. ASSUME NEW t \in Pasted, Paste(t)
        PROVE  /\ field' \in Seq(Token) /\ acts' \in Nat
               /\ UNCHANGED <<tablesVars, shown, editing, preview, chosen, shownLabels, op, reads,
                              deletedHere>>
    BY <2>2, TargetingFacts, TargetingAssumption DEF Paste
  <2>3. QED BY <2>1, <2>2 DEF Typing
<1>2. OpOK' BY <1>1, TargetingFacts DEF OpOK
<1>3. ReadsOK' BY <1>1, TargetingFacts DEF ReadsOK, ReadOK
<1>4. QED BY <1>1, <1>2, <1>3, TargetingFacts, QuietKeeps

\* An operation at a stage is of the kind that has this stage.
LEMMA OperationsAtStages ==
  ASSUME OpOK
  PROVE  /\ (op.at = "sent" /\ op.kind # "matches") => (op \in Writes /\ op.at \in Stages)
         /\ (op.at = "sent" /\ op.kind = "matches") => op \in Previews
         /\ op.at = "group" => op \in Previews
         /\ (op.at = "ok" /\ op.kind = "matches") => op \in Found
         /\ (op.at = "ok" /\ op.kind # "matches") => op \in Writes
BY DEF OpOK, Idle, Writes, Creates, Patches, Deletes, Upserts, Unlabels, Previews, Found,
       Reloads, Stages

\* The answer to a request changes no more of it than how far it is.
LEMMA AnsweredIsOK ==
  ASSUME NEW o \in Writes, NEW s \in Stages
  PROVE  /\ [o EXCEPT !.at = s] \in Writes /\ [o EXCEPT !.at = s].at = s
         /\ [o EXCEPT !.at = s].kind = o.kind /\ [o EXCEPT !.at = s].kind # "matches"
         /\ o.kind = "delete" => [o EXCEPT !.at = s].id = o.id
<1> DEFINE new == [o EXCEPT !.at = s]
           Goal == new \in Writes /\ new.at = s /\ new.kind = o.kind /\ new.kind # "matches"
                   /\ (o.kind = "delete" => new.id = o.id)
<1>1. CASE o \in Creates
  <2>1. new \in Creates /\ new.at = s /\ new.kind = "create" BY <1>1 DEF Creates
  <2>2. QED BY <1>1, <2>1 DEF Writes, Creates
<1>2. CASE o \in Patches
  <2>1. new \in Patches /\ new.at = s /\ new.kind = "patch" BY <1>2 DEF Patches
  <2>2. QED BY <1>2, <2>1 DEF Writes, Patches
<1>3. CASE o \in Deletes
  <2>1. new \in Deletes /\ new.at = s /\ new.kind = "delete" /\ new.id = o.id
    BY <1>3 DEF Deletes
  <2>2. QED BY <1>3, <2>1 DEF Writes, Deletes
<1>4. CASE o \in Upserts
  <2>1. new \in Upserts /\ new.at = s /\ new.kind = "upsert" BY <1>4 DEF Upserts
  <2>2. QED BY <1>4, <2>1 DEF Writes, Upserts
<1>5. CASE o \in Unlabels
  <2>1. new \in Unlabels /\ new.at = s /\ new.kind = "unlabel" BY <1>5 DEF Unlabels
  <2>2. QED BY <1>5, <2>1 DEF Writes, Unlabels
<1>6. QED BY <1>1, <1>2, <1>3, <1>4, <1>5 DEF Writes

LEMMA ServeRequestKeeps ==
  ASSUME TargetingIInv, ServeRequest
  PROVE  TargetingIInv'
<1>1. op \in Writes /\ op.at = "sent"
  BY TargetingFacts, OperationsAtStages DEF ServeRequest
<1>2. UNCHANGED <<shown, formVars, reads, deletedHere, acts>> BY DEF ServeRequest
<1>3. ReadsOK' BY <1>2, TargetingFacts DEF ReadsOK, ReadOK
<1>4. CASE Allowed(op)
  <2>1. Apply(op) /\ op' = [op EXCEPT !.at = "ok"] BY <1>4 DEF ServeRequest, At
  <2>2. /\ groups' \in Rows /\ labels' \in [Sites -> Labellings]
        /\ made' \in 0..MaxGroups /\ DOMAIN groups' \subseteq 1..made'
        /\ (1..made) \ DOMAIN groups \subseteq (1..made') \ DOMAIN groups'
        /\ op.kind = "delete" => op.id \in (1..made') \ DOMAIN groups'
        /\ TablesStayLegal'
    BY <1>1, <1>4, <2>1, ApplyKeeps
  <2>3. /\ op' \in Writes /\ op'.at = "ok" /\ op'.kind = op.kind /\ op'.kind # "matches"
        /\ op.kind = "delete" => op'.id = op.id
    BY <1>1, <2>1, AnsweredIsOK DEF Stages
  <2>4. OpOK' BY <2>3 DEF OpOK
  <2>5. TargetingTypeOK'
    BY <1>2, <2>2, <2>3 DEF TargetingIInv, TargetingTypeOK
  <2>6. DeletedAreGone' BY <1>2, <2>2, <2>3 DEF TargetingIInv, DeletedAreGone
  <2>7. PreviewIsCleared' BY <1>2 DEF TargetingIInv, PreviewIsCleared
  <2>8. QED BY <1>3, <2>2, <2>4, <2>5, <2>6, <2>7 DEF TargetingIInv
<1>5. CASE ~Allowed(op)
  <2>1. op' = [op EXCEPT !.at = "refused"] /\ UNCHANGED tablesVars
    BY <1>5 DEF ServeRequest, At
  <2>2. op' \in Writes /\ op'.at = "refused"
    BY <1>1, <2>1, AnsweredIsOK DEF Stages
  <2>3. OpOK' BY <2>2 DEF OpOK
  <2>4. QED BY <1>2, <1>3, <2>1, <2>2, <2>3, TargetingFacts, QuietKeeps
<1>6. QED BY <1>4, <1>5

LEMMA ReadGroupKeeps ==
  ASSUME TargetingIInv, ReadGroup
  PROVE  TargetingIInv'
<1>1. op \in Previews /\ op.at = "sent" /\ op.id \in Ids
  BY TargetingFacts, OperationsAtStages DEF ReadGroup, Previews
<1>2. UNCHANGED <<tablesVars, shown, formVars, reads, deletedHere, acts>> BY DEF ReadGroup
<1>3. ReadsOK' BY <1>2, TargetingFacts DEF ReadsOK, ReadOK
<1>4. CASE op.id \in DOMAIN groups
  <2>1. op' = [op EXCEPT !.at = "group", !.selector = groups[op.id].selector]
    BY <1>4 DEF ReadGroup
  <2>2. groups[op.id].selector \in GivenTexts BY <1>4, TargetingFacts, DraftIsRow
  <2>3. op' \in Previews /\ op'.at = "group" /\ op'.id = op.id
    BY <1>1, <2>1, <2>2 DEF Previews
  <2>4. op.id \notin deletedHere BY <1>4 DEF TargetingIInv, DeletedAreGone
  <2>5. OpOK' BY <2>3 DEF OpOK
  <2>6. QED BY <1>2, <1>3, <2>3, <2>4, <2>5, TargetingFacts, QuietKeeps
<1>5. CASE op.id \notin DOMAIN groups
  <2>1. op' = [op EXCEPT !.at = "refused"] BY <1>5 DEF ReadGroup
  <2>2. op' \in Previews /\ op'.at = "refused" BY <1>1, <2>1 DEF Previews
  <2>3. OpOK' BY <2>2 DEF OpOK
  <2>4. QED BY <1>2, <1>3, <2>2, <2>3, TargetingFacts, QuietKeeps
<1>6. QED BY <1>4, <1>5

LEMMA MatchInstancesKeeps ==
  ASSUME TargetingIInv, MatchInstances
  PROVE  TargetingIInv'
<1>1. op \in Previews /\ op.at = "group" /\ op.id \in Ids /\ op.kind = "matches"
  BY TargetingFacts, OperationsAtStages DEF MatchInstances, Previews
<1>2. /\ op' = [kind |-> "matches", at |-> "ok", id |-> op.id, items |-> Matching(op.selector)]
      /\ UNCHANGED <<tablesVars, shown, formVars, reads, deletedHere, acts>>
  BY DEF MatchInstances
<1>3. Matching(op.selector) \subseteq Sites BY DEF Matching
<1>4. op' \in Found /\ op'.id = op.id /\ op'.kind = "matches" BY <1>1, <1>2, <1>3 DEF Found
<1>5. op.id \notin deletedHere BY <1>1, TargetingFacts
<1>6. OpOK' BY <1>4 DEF OpOK
<1>7. ReadsOK' BY <1>2, TargetingFacts DEF ReadsOK, ReadOK
<1>8. QED BY <1>2, <1>4, <1>5, <1>6, <1>7, TargetingFacts, QuietKeeps

\* The page hears of its success: a deleted group was gone before, so it is neither
\* in the preview nor on the way into it.
LEMMA ContinueKeeps ==
  ASSUME TargetingIInv, Continue
  PROVE  TargetingIInv'
<1>0. MaxGroups \in Nat /\ Nobody \notin Ids BY TargetingAssumption DEF Ids
<1>1. op \in Writes /\ op.at = "ok" /\ op.kind # "matches"
  BY TargetingFacts, OperationsAtStages DEF Continue
<1>2. /\ CloseDraft(op) /\ ClearPreview(op)
      /\ deletedHere' = IF op.kind = "delete" THEN deletedHere \cup {op.id} ELSE deletedHere
      /\ op' = [kind |-> op.kind, at |-> "reload"]
      /\ reads' = reads \cup {IF op.kind \in {"upsert", "unlabel"}
                              THEN Read("labels", TRUE, op.site) ELSE Read("groups", TRUE, Nobody)}
      /\ UNCHANGED <<tablesVars, shown, chosen, shownLabels, field, acts>>
  BY DEF Continue
<1>3. op.kind \in {"create", "patch", "delete", "upsert", "unlabel"}
  BY <1>1 DEF Writes, Creates, Patches, Deletes, Upserts, Unlabels
<1>4. op' \in Reloads /\ op'.at = "reload" BY <1>2, <1>3 DEF Reloads
<1>5. OpOK' BY <1>4 DEF OpOK
<1>6. op.kind \in {"upsert", "unlabel"} => op.site \in Sites
  BY <1>1 DEF Writes, Creates, Patches, Deletes, Upserts, Unlabels
<1>7. ReadsOK'
  <2>1. ReadOK(Read("groups", TRUE, Nobody)) BY NewReadsAreOK
  <2>2. op.kind \in {"upsert", "unlabel"} => ReadOK(Read("labels", TRUE, op.site))
    BY <1>6, NewReadsAreOK
  <2>3. QED BY <1>2, <2>1, <2>2, TargetingFacts DEF ReadsOK, ReadOK
<1>8. editing' \in Rows BY <1>2, TargetingFacts, DropRow DEF CloseDraft
<1>9. /\ deletedHere' \subseteq (1..made) \ DOMAIN groups /\ deletedHere' \subseteq Ids
  <2>1. op.kind = "delete" => op.id \in (1..made) \ DOMAIN groups
    BY <1>1 DEF TargetingIInv, DeletedAreGone
  <2>2. made \in 0..MaxGroups /\ deletedHere \subseteq (1..made) \ DOMAIN groups
    BY DEF TargetingIInv, TargetingTypeOK, DeletedAreGone
  <2>3. deletedHere' \subseteq (1..made) \ DOMAIN groups BY <1>2, <2>1, <2>2
  <2>4. QED BY <1>0, <2>2, <2>3 DEF Ids
<1>10. /\ preview'.of \in Ids \cup {Nobody} /\ preview'.items \subseteq Sites
       /\ preview'.of \notin deletedHere'
  <2>1. CASE op.kind = "delete" /\ preview.of = op.id
    <3>1. preview' = NoPreview BY <1>2, <2>1 DEF ClearPreview
    <3>2. QED BY <1>0, <1>9, <3>1 DEF NoPreview
  <2>2. CASE ~(op.kind = "delete" /\ preview.of = op.id)
    <3>1. preview' = preview BY <1>2, <2>2 DEF ClearPreview
    <3>2. QED BY <1>2, <2>2, <3>1, TargetingFacts
  <2>3. QED BY <2>1, <2>2
<1>11. TargetingTypeOK'
  <2>1. \A r \in reads' : r.what \in {"groups", "instances", "labels"} /\ r.served \in BOOLEAN
    BY <1>7 DEF ReadsOK, ReadOK
  <2>2. QED BY <1>2, <1>4, <1>8, <1>9, <1>10, <2>1 DEF TargetingIInv, TargetingTypeOK
<1>12. DeletedAreGone' BY <1>2, <1>4, <1>9 DEF TargetingIInv, DeletedAreGone
<1>13. TablesStayLegal' BY <1>2 DEF TargetingIInv, TablesStayLegal
<1>14. PreviewIsCleared' BY <1>10 DEF PreviewIsCleared
<1>15. QED BY <1>5, <1>7, <1>11, <1>12, <1>13, <1>14 DEF TargetingIInv

LEMMA ShowPreviewKeeps ==
  ASSUME TargetingIInv, ShowPreview
  PROVE  TargetingIInv'
<1>1. op \in Found /\ op.at = "ok" /\ op.kind = "matches" /\ op.id \in Ids /\ op.items \subseteq Sites
  BY TargetingFacts, OperationsAtStages DEF ShowPreview, Found
<1>2. /\ preview' = [of |-> op.id, items |-> op.items] /\ op' = Idle
      /\ UNCHANGED <<tablesVars, shown, editing, chosen, shownLabels, field, reads,
                     deletedHere, acts>>
  BY DEF ShowPreview
<1>3. op.id \notin deletedHere BY <1>1, TargetingFacts
<1>4. OpOK' /\ op'.kind = "none" BY <1>2 DEF OpOK, Idle
<1>5. ReadsOK' BY <1>2, TargetingFacts DEF ReadsOK, ReadOK
<1>6. QED BY <1>1, <1>2, <1>3, <1>4, <1>5, TargetingFacts, QuietKeeps

LEMMA RequestFailsKeeps ==
  ASSUME TargetingIInv, RequestFails
  PROVE  TargetingIInv'
<1>1. op' = Idle /\ UNCHANGED <<tablesVars, shown, formVars, reads, deletedHere, acts>>
  BY DEF RequestFails
<1>2. OpOK' /\ op'.kind = "none" BY <1>1 DEF OpOK, Idle
<1>3. ReadsOK' BY <1>1, TargetingFacts DEF ReadsOK, ReadOK
<1>4. QED BY <1>1, <1>2, <1>3, TargetingFacts, QuietKeeps

LEMMA ServeReadKeeps ==
  ASSUME TargetingIInv, NEW r \in reads, ServeRead(r)
  PROVE  TargetingIInv'
<1> DEFINE answer == IF r.what = "groups" THEN FirstPage ELSE labels[r.site]
           new == [r EXCEPT !.served = TRUE, !.data = answer]
<1>1. /\ ~r.served /\ reads' = (reads \ {r}) \cup {new}
      /\ UNCHANGED <<tablesVars, shown, formVars, op, deletedHere, acts>>
  BY DEF ServeRead
<1>2. ReadOK(r) BY TargetingFacts DEF ReadsOK
<1>3. r.what \in {"groups", "labels"} BY <1>1, <1>2 DEF ReadOK
<1>4. (r.what = "groups" => answer \in Rows) /\ (r.what = "labels" => answer \in Labellings)
  <2>1. FirstPage \in Rows BY TargetingFacts, FirstPageIsRows
  <2>2. r.what = "labels" => labels[r.site] \in Labellings
    BY <1>2 DEF ReadOK, TargetingIInv, TargetingTypeOK
  <2>3. QED BY <2>1, <2>2
<1> HIDE DEF answer
<1>5. ReadOK(new) BY <1>2, <1>3, <1>4 DEF ReadOK
<1> HIDE DEF new
<1>6. ReadsOK' BY <1>1, <1>5, TargetingFacts DEF ReadsOK, ReadOK
<1>7. OpOK' BY <1>1, TargetingFacts DEF OpOK
<1>8. QED BY <1>1, <1>6, <1>7, TargetingFacts, QuietKeeps

LEMMA EndsIsOK ==
  ASSUME OpOK, NEW r, Ends(r)
  PROVE  OpOK' /\ (op' = op \/ op'.kind = "none")
BY DEF OpOK, Ends, Idle

LEMMA ReceiveReadKeeps ==
  ASSUME TargetingIInv, NEW r \in reads, ReceiveRead(r)
  PROVE  TargetingIInv'
<1>1. /\ r.served
      /\ shown' = IF r.what = "groups" THEN r.data ELSE shown
      /\ shownLabels' = IF r.what = "labels" THEN r.data ELSE shownLabels
      /\ Ends(r)
      /\ UNCHANGED <<tablesVars, editing, preview, field, deletedHere, acts>>
  BY DEF ReceiveRead
<1>2. ReadOK(r) BY TargetingFacts DEF ReadsOK
<1>3. shown' \in Rows /\ shownLabels' \in Labellings
  BY <1>1, <1>2, TargetingFacts DEF ReadOK
<1>4. chosen' \in Sites \cup {Nobody} /\ ReadsOK'
  <2>1. CASE r.what = "instances" /\ r.site = Nobody /\ chosen # FirstSite
    <3>1. chosen' = FirstSite
          /\ reads' = (reads \ {r}) \cup Effect(FirstSite) \cup LabelsOf(FirstSite)
      BY <2>1 DEF ReceiveRead
    <3>2. QED BY <3>1, NewReadsAreOK, TargetingFacts DEF ReadsOK, ReadOK
  <2>2. CASE ~(r.what = "instances" /\ r.site = Nobody /\ chosen # FirstSite)
    <3>1. reads' = reads \ {r} /\ chosen' = chosen BY <2>2 DEF ReceiveRead
    <3>2. QED BY <3>1, TargetingFacts DEF ReadsOK, ReadOK
  <2>3. QED BY <2>1, <2>2
<1>5. OpOK' /\ (op' = op \/ op'.kind = "none") BY <1>1, EndsIsOK, TargetingFacts
<1>6. QED BY <1>1, <1>3, <1>4, <1>5, TargetingFacts, QuietKeeps

LEMMA ReadFailsKeeps ==
  ASSUME TargetingIInv, NEW r \in reads, ReadFails(r)
  PROVE  TargetingIInv'
<1>1. /\ reads' = reads \ {r} /\ Ends(r)
      /\ UNCHANGED <<tablesVars, shown, formVars, deletedHere, acts>>
  BY DEF ReadFails
<1>2. OpOK' /\ (op' = op \/ op'.kind = "none") BY <1>1, EndsIsOK, TargetingFacts
<1>3. ReadsOK' BY <1>1, TargetingFacts DEF ReadsOK, ReadOK
<1>4. QED BY <1>1, <1>2, <1>3, TargetingFacts, QuietKeeps

\* Whatever else is sent to the routes.
LEMMA ForeignRequestKeeps ==
  ASSUME TargetingIInv, NEW o \in ForeignRequests, ForeignRequest(o)
  PROVE  TargetingIInv'
<1>1. o \in Writes
  <2>1. ASSUME NEW g \in Ids, NEW t \in GivenTexts PROVE Request("patch", g, t, NoNote) \in Patches
    BY DEF Request, Patches, Stages, Remarks
  <2>2. ASSUME NEW g \in Ids PROVE Request("delete", g, <<>>, NoNote) \in Deletes
    BY DEF Request, Deletes, Stages
  <2>3. ASSUME NEW i \in Sites, NEW k \in LabelKeys, NEW v \in LabelValues
        PROVE  LabelRequest("upsert", i, k, v) \in Upserts
    BY DEF LabelRequest, Upserts, Stages
  <2>4. QED BY <2>1, <2>2, <2>3 DEF ForeignRequests, Writes
<1>2. /\ acts' = acts + 1 /\ Allowed(o) /\ Apply(o)
      /\ UNCHANGED <<shown, formVars, op, reads, deletedHere>>
  BY DEF ForeignRequest
<1>3. /\ groups' \in Rows /\ labels' \in [Sites -> Labellings]
      /\ made' \in 0..MaxGroups /\ DOMAIN groups' \subseteq 1..made'
      /\ (1..made) \ DOMAIN groups \subseteq (1..made') \ DOMAIN groups'
      /\ TablesStayLegal'
  BY <1>1, <1>2, ApplyKeeps
<1>4. acts' \in Nat BY <1>2, TargetingFacts
<1>5. TargetingTypeOK' BY <1>2, <1>3, <1>4 DEF TargetingIInv, TargetingTypeOK
<1>6. OpOK' BY <1>2, TargetingFacts DEF OpOK
<1>7. ReadsOK' BY <1>2, TargetingFacts DEF ReadsOK, ReadOK
<1>8. DeletedAreGone' BY <1>2, <1>3 DEF TargetingIInv, DeletedAreGone
<1>9. PreviewIsCleared' BY <1>2 DEF TargetingIInv, PreviewIsCleared
<1>10. QED BY <1>3, <1>5, <1>6, <1>7, <1>8, <1>9 DEF TargetingIInv

LEMMA TargetingStepKeeps ==
  ASSUME TargetingIInv, [TargetingNext \/ Typing]_targetingVars
  PROVE  TargetingIInv'
<1>1. CASE Acting
  <2>1. ASSUME NEW i \in Sites \cup {Nobody}, SelectSite(i) PROVE TargetingIInv'
    BY <2>1, SelectSiteKeeps
  <2>2. QED BY <1>1, <2>1, GroupActionsKeep, OtherRequestsKeep DEF Acting
<1>2. CASE Answering
  <2>1. ASSUME NEW r \in reads, ServeRead(r) \/ ReceiveRead(r) \/ ReadFails(r)
        PROVE  TargetingIInv'
    BY <2>1, ServeReadKeeps, ReceiveReadKeeps, ReadFailsKeeps
  <2>2. QED
    BY <1>2, <2>1, ServeRequestKeeps, ReadGroupKeeps, MatchInstancesKeeps, ContinueKeeps,
       ShowPreviewKeeps, RequestFailsKeeps
    DEF Answering
<1>3. CASE Others BY <1>3, ForeignRequestKeeps DEF Others
<1>4. CASE Typing BY <1>4, TypingKeeps
<1>5. CASE UNCHANGED targetingVars
  <2>1. UNCHANGED <<tablesVars, shown, formVars, op, reads, deletedHere, acts>>
    BY <1>5 DEF targetingVars
  <2>2. OpOK' BY <2>1, TargetingFacts DEF OpOK
  <2>3. ReadsOK' BY <2>1, TargetingFacts DEF ReadsOK, ReadOK
  <2>4. QED BY <2>1, <2>2, <2>3, TargetingFacts, QuietKeeps
<1>6. QED BY <1>1, <1>2, <1>3, <1>4, <1>5 DEF TargetingNext

LEMMA TargetingInitKeeps ==
  ASSUME TargetingInit
  PROVE  TargetingIInv
<1> USE DEF TargetingInit
<1> DEFINE n == Len(FirstRows)
<1>1. /\ FirstRows \in Seq(Row) /\ n \in Nat /\ n <= MaxGroups /\ MaxGroups \in Nat
      /\ DOMAIN FirstRows = 1..n
      /\ \A g \in 1..n : FirstRows[g] \in Row
      /\ \A g \in 1..n : ParseLabelSelector(FirstRows[g].selector) # Invalid
      /\ Nobody \notin Ids
  BY TargetingAssumption DEF Ids
<1>2. made = n
  <2>1. Cardinality(1..n) = n
    <3> HIDE DEF n
    <3>1. n \in Int /\ 1 \in Int BY <1>1
    <3>2. Cardinality(1..n) = IF 1 > n THEN 0 ELSE n - 1 + 1 BY <3>1, FS_Interval
    <3>3. QED BY <1>1, <3>2
  <2>2. QED BY <1>1, <2>1
<1>3. groups \in Rows /\ DOMAIN groups = 1..n
  <2>1. FirstRows \in [1..n -> Row] /\ 1..n \in SUBSET Ids BY <1>1 DEF Ids
  <2>2. QED BY <1>1, <2>1 DEF Rows
<1>4. labels \in [Sites -> Labellings] BY NoRowsAreRows
<1>5. OpOK /\ op.at = "idle" /\ op.kind = "none" BY DEF OpOK, Idle
<1>6. ReadsOK BY NewReadsAreOK DEF ReadsOK
<1>7. TargetingTypeOK
  <2>1. \A r \in reads : r.what \in {"groups", "instances", "labels"} /\ r.served \in BOOLEAN
    BY <1>6 DEF ReadsOK, ReadOK
  <2>2. field \in Seq(Token) OBVIOUS
  <2>3. preview.of \in Ids \cup {Nobody} /\ preview.items \subseteq Sites BY DEF NoPreview
  <2>4. made \in 0..MaxGroups BY <1>1, <1>2
  <2>5. QED BY <1>3, <1>4, <1>5, <2>1, <2>2, <2>3, <2>4, NoRowsAreRows DEF TargetingTypeOK
<1>8. DeletedAreGone BY <1>1, <1>2, <1>3, <1>5 DEF DeletedAreGone
<1>9. TablesStayLegal
  <2>1. \A i \in Sites : DOMAIN labels[i] = {} BY NoRowsAreRows
  <2>2. QED BY <1>1, <2>1 DEF TablesStayLegal
<1>10. PreviewIsCleared BY DEF PreviewIsCleared
<1>11. QED BY <1>5, <1>6, <1>7, <1>8, <1>9, <1>10 DEF TargetingIInv

\* A session at the page of groups, or at its selector field, is one of these.
LEMMA ConsoleStepsInTargeting ==
  [ConsoleNext]_consoleVars => [TargetingNext \/ Typing]_targetingVars
BY DEF ConsoleNext, consoleVars, MemoryView, TargetingView, SelectorView, OperationsView, TaskView

(***************************************************************************)
(* The page of groups and labels: theorems.                                *)
(***************************************************************************)

\* However the page's operations, its reads and other clients' requests
\* interleave, the parts above hold together (Targeting.tsx, groups.ts, labels.ts).
THEOREM TargetingIsInductive == ConsoleSpec => []TargetingIInv
<1>1. ConsoleInit => TargetingIInv BY TargetingInitKeeps DEF ConsoleInit
<1>2. TargetingIInv /\ [ConsoleNext]_consoleVars => TargetingIInv'
  BY ConsoleStepsInTargeting, TargetingStepKeeps
<1>3. QED BY <1>1, <1>2, PTL DEF ConsoleSpec

\* Every stored selector can be parsed, no label is stored under a system key and
\* the preview is not of a group that was deleted here: TargetingInv.
THEOREM TablesAndPreviewAreLegal == ConsoleSpec => []TargetingInv
<1>1. TargetingIInv => TargetingInv BY DEF TargetingIInv, TargetingInv
<1>2. QED BY <1>1, TargetingIsInductive, PTL

\* A draft goes away by its cancel button or by a save the server accepted, and by
\* nothing else: DraftsKept.
LEMMA DraftsGoOneByOne ==
  ASSUME [TargetingNext \/ Typing]_targetingVars, NEW g \in DOMAIN editing \ DOMAIN editing'
  PROVE  CancelEdit(g) \/ (op.kind = "patch" /\ op.at = "ok" /\ op.id = g)
<1> DEFINE Goal == CancelEdit(g) \/ (op.kind = "patch" /\ op.at = "ok" /\ op.id = g)
<1>1. UNCHANGED editing => Goal OBVIOUS
<1>2. ASSUME NEW h, NEW row, editing' = Put(editing, h, row) PROVE Goal
  BY <1>2 DEF Put
<1>3. ASSUME NEW h, CancelEdit(h) PROVE Goal
  <2>1. DOMAIN editing' = DOMAIN editing \ {h} BY <1>3 DEF CancelEdit, Drop
  <2>2. QED BY <1>3, <2>1
<1>4. ASSUME Continue PROVE Goal
  <2>1. CASE op.kind = "patch"
    <3>1. DOMAIN editing' = DOMAIN editing \ {op.id}
      BY <1>4, <2>1 DEF Continue, CloseDraft, Drop
    <3>2. QED BY <1>4, <2>1, <3>1 DEF Continue
  <2>2. CASE op.kind # "patch" BY <1>1, <1>4, <2>2 DEF Continue, CloseDraft
  <2>3. QED BY <2>1, <2>2
<1>5. CASE Acting
  <2>1. ASSUME NEW h \in Ids, StartEdit(h) PROVE Goal BY <1>2, <2>1 DEF StartEdit
  <2>2. ASSUME NEW h \in Ids, NEW t, NEW n, EditDraft(h, t, n) PROVE Goal
    BY <1>2, <2>2 DEF EditDraft
  <2>3. ASSUME NEW h \in Ids, SaveEdit(h) \/ HandleDeleteGroup(h) \/ ShowMatches(h) PROVE Goal
    BY <1>1, <2>3 DEF SaveEdit, HandleDeleteGroup, ShowMatches
  <2>4. ASSUME NEW k, NEW v, HandleDeleteLabel(k) \/ HandleUpsertLabel(k, v) PROVE Goal
    BY <1>1, <2>4 DEF HandleDeleteLabel, HandleUpsertLabel
  <2>5. ASSUME NEW t, NEW n, HandleCreateGroup(t, n) PROVE Goal
    BY <1>1, <2>5 DEF HandleCreateGroup
  <2>6. ASSUME NEW i, SelectSite(i) PROVE Goal BY <1>1, <2>6 DEF SelectSite
  <2> HIDE DEF Goal
  <2>7. Goal BY <1>3, <1>5, <2>1, <2>2, <2>3, <2>4, <2>5, <2>6 DEF Acting
  <2>8. QED BY <2>7 DEF Goal
<1>6. CASE Answering
  <2>1. ASSUME ServeRequest \/ ReadGroup \/ MatchInstances \/ ShowPreview \/ RequestFails
        PROVE  Goal
    BY <1>1, <2>1 DEF ServeRequest, ReadGroup, MatchInstances, ShowPreview, RequestFails
  <2>2. ASSUME NEW r, ServeRead(r) \/ ReceiveRead(r) \/ ReadFails(r) PROVE Goal
    BY <1>1, <2>2 DEF ServeRead, ReceiveRead, ReadFails
  <2> HIDE DEF Goal
  <2>3. Goal BY <1>4, <1>6, <2>1, <2>2 DEF Answering
  <2>4. QED BY <2>3 DEF Goal
<1>7. CASE Others BY <1>1, <1>7 DEF Others, ForeignRequest
<1>8. CASE Typing BY <1>1, <1>8 DEF Typing, TypeToken, Paste
<1>9. CASE UNCHANGED targetingVars BY <1>1, <1>9 DEF targetingVars
<1>10. QED BY <1>5, <1>6, <1>7, <1>8, <1>9 DEF TargetingNext

\* Drafts of group edits are lost by no answer, reload, failure or other client
\* (Targeting.tsx, editingGroups): DraftsKept.
THEOREM DraftsAreKept == ConsoleSpec => DraftsKept
<1>1. [ConsoleNext]_consoleVars =>
        [\A g \in DOMAIN editing \ DOMAIN editing' :
           CancelEdit(g) \/ (op.kind = "patch" /\ op.at = "ok" /\ op.id = g)]_targetingVars
  BY ConsoleStepsInTargeting, DraftsGoOneByOne
<1>2. QED BY <1>1, PTL DEF ConsoleSpec, DraftsKept

(***************************************************************************)
(* The selector field: an operator and its negation.                       *)
(***************************************************************************)

Operators == {"exists", "doesNotExist", "eq", "neq", "in", "notin"}

\* What the parser makes of one expression is refused or one of the six forms.
LEMMA ParsedExpression ==
  ASSUME NEW e, ParseExpression(e) # Invalid
  PROVE  \E o \in Operators : \E k, v : ParseExpression(e) = [op |-> o, key |-> k, values |-> v]
<1> DEFINE Good(r) == \E o \in Operators : \E k, v : r = [op |-> o, key |-> k, values |-> v]
<1>1. ASSUME NEW o \in Operators, NEW k, NEW v, Requirement(o, k, v) # Invalid
      PROVE  Good(Requirement(o, k, v))
  BY <1>1 DEF Requirement
<1>2. ASSUME NEW o \in {"eq", "neq"}, NEW at, NEW length, Comparison(o, e, at, length) # Invalid
      PROVE  Good(Comparison(o, e, at, length))
  <2> DEFINE key == KeyIn(SubSeq(e, 1, at - 1))
             values == {ValueIn(SubSeq(e, at + length, Len(e)))}
  <2>1. o \in Operators BY DEF Operators
  <2>2. Comparison(o, e, at, length) = Requirement(o, key, values) BY DEF Comparison
  <2> HIDE DEF key, values, Good
  <2>3. QED BY <1>1, <1>2, <2>1, <2>2
<1>3. ASSUME SetRequirement(e) # Invalid PROVE Good(SetRequirement(e))
  <2> DEFINE a == FirstOfSet(SetWords(e))
             b == CHOOSE i \in NextSolid(e, a) : TRUE
             values == ValuesIn(SubSeq(e, b + 1, Len(e) - 1))
             o == IF e[a] = InWord THEN "in" ELSE "notin"
             key == KeyIn(SubSeq(e, 1, a - 1))
  <2>1. SetRequirement(e) = IF values = {} THEN Invalid ELSE Requirement(o, key, values)
    BY DEF SetRequirement
  <2>2. o \in Operators BY DEF Operators
  <2> HIDE DEF values, o, key, Good
  <2>3. QED BY <1>1, <1>3, <2>1, <2>2
<1>4. {"exists", "doesNotExist"} \subseteq Operators /\ "eq" \in {"eq", "neq"} /\ "neq" \in {"eq", "neq"}
  BY DEF Operators
<1>5. Good(ParseExpression(e))
  <2> HIDE DEF Good
  <2>1. QED BY <1>1, <1>2, <1>3, <1>4 DEF ParseExpression
<1>6. QED BY <1>5

\* Every instance's labels match such a requirement or its negation, and never both.
LEMMA NegationComplements ==
  ASSUME NEW o \in Operators, NEW k, NEW v, NEW m
  PROVE  LET r == [op |-> o, key |-> k, values |-> v] IN
         MatchLabelSelector(<<r>>, m) # MatchLabelSelector(<<[r EXCEPT !.op = Negation(@)]>>, m)
<1> DEFINE r == [op |-> o, key |-> k, values |-> v]
           n == [op |-> Negation(o), key |-> k, values |-> v]
<1>1. [r EXCEPT !.op = Negation(@)] = n OBVIOUS
<1>2. ASSUME NEW x PROVE MatchLabelSelector(<<x>>, m) <=> MatchesRequirement(x, m)
  <2>1. DOMAIN <<x>> = {1} /\ <<x>>[1] = x OBVIOUS
  <2>2. MatchLabelSelector(<<x>>, m) <=> MatchesRequirement(<<x>>[1], m)
    BY <2>1 DEF MatchLabelSelector
  <2>3. QED BY <2>1, <2>2
<1>3. MatchesRequirement(r, m) <=> ~MatchesRequirement(n, m)
  <2>1. CASE o = "exists" BY <2>1 DEF MatchesRequirement, Negation, Has
  <2>2. CASE o = "doesNotExist" BY <2>2 DEF MatchesRequirement, Negation, Has
  <2>3. CASE o = "eq" BY <2>3 DEF MatchesRequirement, Negation, Has
  <2>4. CASE o = "neq" BY <2>4 DEF MatchesRequirement, Negation, Has
  <2>5. CASE o = "in" BY <2>5 DEF MatchesRequirement, Negation, Has
  <2>6. CASE o = "notin" BY <2>6 DEF MatchesRequirement, Negation, Has
  <2>7. QED BY <2>1, <2>2, <2>3, <2>4, <2>5, <2>6 DEF Operators
<1>4. QED BY <1>1, <1>2, <1>3

\* A text of one piece is parsed to the list of its one requirement.
LEMMA OnlyRequirement ==
  ASSUME NEW t \in Seq(Token), ParseLabelSelector(t) # Invalid, Len(ParseLabelSelector(t)) = 1
  PROVE  \E e : ParseExpression(e) # Invalid /\ ParseLabelSelector(t) = <<ParseExpression(e)>>
<1> DEFINE parts == SplitAt(t, TopCommas(t))
           reqs == [k \in DOMAIN parts |-> ParseExpression(parts[k])]
<1>1. PICK n \in Nat : DOMAIN parts = 1..n
  <2> DEFINE C == TopCommas(t)
             commaAfter(p) == CHOOSE c \in C \cup {Len(t) + 1} :
                                p <= c /\ \A d \in C : p <= d => c <= d
             pieceFrom(p) == IF p - 1 \in C \cup {0} THEN Trim(SubSeq(t, p, commaAfter(p) - 1)) ELSE <<>>
             starts == {p \in DOMAIN t : pieceFrom(p) # <<>>}
  <2>1. parts = [k \in 1..Cardinality(starts) |-> pieceFrom(Nth(starts, k))] BY DEF SplitAt
  <2> HIDE DEF pieceFrom
  <2>2. IsFiniteSet(1..Len(t)) BY FS_Interval
  <2>3. starts \subseteq 1..Len(t) OBVIOUS
  <2>4. Cardinality(starts) \in Nat BY <2>2, <2>3, FS_Subset, FS_CardinalityType
  <2> HIDE DEF starts, parts
  <2>5. QED BY <2>1, <2>4
<1>2. ParseLabelSelector(t) = reqs /\ \A k \in DOMAIN reqs : reqs[k] # Invalid
  BY DEF ParseLabelSelector
<1> HIDE DEF parts
<1>3. n = 1
  <2> DEFINE S == {ParseExpression(parts[k]) : k \in 1..n}
  <2>1. reqs \in [1..n -> S] BY <1>1
  <2> HIDE DEF reqs, S
  <2>2. Len(reqs) = n BY <2>1
  <2>3. QED BY <1>2, <2>2
<1>4. reqs = <<ParseExpression(parts[1])>>
  BY <1>1, <1>3
<1>5. QED BY <1>1, <1>2, <1>3, <1>4

\* Whatever is typed or pasted into the selector field, the operator it is parsed
\* to and its negation divide the instances between them, those without the label
\* included (label-selector.ts): NegationsAreComplements.
THEOREM EveryOperatorHasItsNegation == ConsoleSpec => []NegationsAreComplements
<1>1. TargetingIInv => NegationsAreComplements
  <2> SUFFICES ASSUME TargetingIInv, ParseLabelSelector(field) # Invalid,
                      Len(ParseLabelSelector(field)) = 1, NEW m \in Labellings
               PROVE  LET reqs == ParseLabelSelector(field) IN
                      MatchLabelSelector(reqs, m)
                        # MatchLabelSelector(<<[reqs[1] EXCEPT !.op = Negation(@)]>>, m)
    BY DEF NegationsAreComplements
  <2>1. field \in Seq(Token) BY DEF TargetingIInv, TargetingTypeOK
  <2>2. PICK e : ParseExpression(e) # Invalid /\ ParseLabelSelector(field) = <<ParseExpression(e)>>
    BY <2>1, OnlyRequirement
  <2>3. PICK o \in Operators : \E k, v : ParseExpression(e) = [op |-> o, key |-> k, values |-> v]
    BY <2>2, ParsedExpression
  <2>4. PICK k, v : ParseExpression(e) = [op |-> o, key |-> k, values |-> v] BY <2>3
  <2>5. QED BY <2>2, <2>4, NegationComplements
<1>2. QED BY <1>1, TargetingIsInductive, PTL

(***************************************************************************)
(* The pages of tasks: what holds with TaskPagesInv in every state.        *)
(***************************************************************************)

TablesOK == tasks \in Seq(TaskRow) /\ Len(tasks) <= MaxTasks /\ log \in Seq(LogEntry)

\* The tables grow, and a row keeps its task.
TablesGrow == TablesOK' /\ Len(tasks) <= Len(tasks')

\* A read under way has its count and its page within the bounds of the list, and
\* the dialog is open on a mounted page only.
LookupOK(r) ==
  /\ DOMAIN r = {"of", "query", "at", "total", "rows"}
  /\ r.of \in Tabs /\ r.query \in Query /\ r.at \in {"sent", "counted", "read"}
  /\ r.total \in Nat /\ Len(r.rows) <= RowsPerPage
ListIInv ==
  /\ TaskListTypeOK
  /\ DOMAIN listing = Tabs
  /\ \A r \in lookups : LookupOK(r)
  /\ modal => mounted

\* At most one timeout is set, and what is read is a task there is.
Live(S) == {l \in S : l.by # "gone"}
DetailIInv ==
  /\ TaskDetailInv
  /\ timers <= 1
  /\ IsFiniteSet(loads)
  /\ \A l \in loads : l.of \in DOMAIN tasks

(***************************************************************************)
(* The tables.                                                             *)
(***************************************************************************)

LEMMA TaskConstantsTyped ==
  /\ MaxTasks \in Nat \ {0} /\ Old \in 0..MaxTasks /\ OldKind \in Kinds
  /\ RowsPerPage \in Nat \ {0} /\ MaxLoads \in Nat /\ MaxVisits \in Nat
  /\ NoTask \notin 1..MaxTasks /\ FilterKinds \subseteq Kinds /\ FilterStatus \subseteq Status
BY TaskTableAssumption, TaskListAssumption, TaskDetailAssumption

LEMMA EventIsWritten ==
  ASSUME TablesOK, NEW t \in 1..MaxTasks, NEW type \in EventType, Write(t, type)
  PROVE  log' \in Seq(LogEntry)
<1>1. [task |-> t, type |-> type] \in LogEntry BY DEF LogEntry
<1>2. QED BY <1>1 DEF TablesOK, Write

LEMMA InsertGrows ==
  ASSUME TablesOK, NEW k \in Kinds, Insert(k)
  PROVE  TablesGrow /\ Len(tasks') = Len(tasks) + 1
<1>1. NewTask(k) \in TaskRow BY DEF NewTask, TaskRow, Status
<1>2. /\ tasks \in Seq(TaskRow) /\ tasks' = Append(tasks, NewTask(k))
      /\ Len(tasks) < MaxTasks /\ Write(Len(tasks) + 1, "exec.queued")
  BY DEF TablesOK, Insert
<1>3. tasks' \in Seq(TaskRow) /\ Len(tasks') = Len(tasks) + 1 BY <1>1, <1>2
<1>4. Len(tasks) + 1 \in 1..MaxTasks /\ "exec.queued" \in EventType
  BY <1>2, TaskConstantsTyped DEF EventType
<1>5. log' \in Seq(LogEntry) BY <1>2, <1>4, EventIsWritten
<1>6. QED BY <1>2, <1>3, <1>4, <1>5 DEF TablesGrow, TablesOK

\* A row is changed in place.
LEMMA RowIsChanged ==
  ASSUME TablesOK, NEW t \in DOMAIN tasks, NEW row \in TaskRow,
         tasks' = [tasks EXCEPT ![t] = row],
         UNCHANGED log \/ \E type \in EventType : Write(t, type)
  PROVE  TablesGrow
<1>1. tasks \in Seq(TaskRow) /\ Len(tasks) \in Nat /\ t \in 1..Len(tasks) BY DEF TablesOK
<1>2. tasks' \in Seq(TaskRow) /\ Len(tasks') = Len(tasks) BY <1>1
<1>3. t \in 1..MaxTasks BY <1>1, TaskConstantsTyped DEF TablesOK
<1>4. log' \in Seq(LogEntry)
  <2>1. CASE UNCHANGED log BY <2>1 DEF TablesOK
  <2>2. CASE \E type \in EventType : Write(t, type) BY <1>3, <2>2, EventIsWritten
  <2>3. QED BY <2>1, <2>2
<1>5. QED BY <1>1, <1>2, <1>4 DEF TablesGrow, TablesOK

\* A row with other values in it is a row.
LEMMA RowWithValues ==
  ASSUME NEW row \in TaskRow, NEW s \in Status, NEW n \in Nat, NEW o \in BOOLEAN, NEW m \in BOOLEAN
  PROVE  [row EXCEPT !.status = s, !.unanswered = n, !.offered = o, !.moved = m] \in TaskRow
BY DEF TaskRow

LEMMA ElsewhereGrows ==
  ASSUME TablesOK, NEW maxLog, Elsewhere(maxLog)
  PROVE  TablesGrow
<1>1. ASSUME NEW t \in DOMAIN tasks
      PROVE  /\ tasks[t] \in TaskRow
             /\ tasks[t].status \in Status /\ tasks[t].unanswered \in Nat
             /\ tasks[t].offered \in BOOLEAN /\ tasks[t].moved \in BOOLEAN
  <2>1. tasks[t] \in TaskRow BY <1>1 DEF TablesOK
  <2>2. QED BY <2>1 DEF TaskRow
<1>2. ASSUME NEW t \in DOMAIN tasks, PullTask(t) PROVE TablesGrow
  <2> DEFINE late == tasks[t].moved \/ Settled(t)
             row == [tasks[t] EXCEPT !.status = "leased", !.unanswered = tasks[t].unanswered + 1,
                                     !.offered = FALSE, !.moved = late]
  <2>1. tasks[t].unanswered + 1 \in Nat /\ "leased" \in Status BY <1>1, <1>2 DEF Status
  <2>2. late \in BOOLEAN BY DEF Settled
  <2>3. tasks' = [tasks EXCEPT ![t] = row] /\ Write(t, "exec.started") BY <1>2 DEF PullTask
  <2> HIDE DEF late
  <2>4. row \in TaskRow BY <1>1, <1>2, <2>1, <2>2, RowWithValues
  <2>5. "exec.started" \in EventType BY DEF EventType
  <2> HIDE DEF row
  <2>6. QED BY <1>2, <2>3, <2>4, <2>5, RowIsChanged
<1>3. ASSUME NEW t \in DOMAIN tasks, TakeBack(t) PROVE TablesGrow
  <2> DEFINE row == [tasks[t] EXCEPT !.status = "pending", !.offered = TRUE]
  <2>1. row \in TaskRow BY <1>1, <1>3 DEF TaskRow, Status
  <2>2. tasks' = [tasks EXCEPT ![t] = row] /\ UNCHANGED log BY <1>3 DEF TakeBack
  <2> HIDE DEF row
  <2>3. QED BY <1>3, <2>1, <2>2, RowIsChanged
<1>4. ASSUME NEW t \in DOMAIN tasks, NEW s \in Status, Acknowledge(t, s) PROVE TablesGrow
  <2> DEFINE again == tasks[t].offered \/ s = "pending"
             late == tasks[t].moved \/ (Settled(t) /\ tasks[t].status # s)
             row == [tasks[t] EXCEPT !.status = s, !.unanswered = tasks[t].unanswered - 1,
                                     !.offered = again, !.moved = late]
  <2>1. tasks[t].unanswered > 0 BY <1>4 DEF Acknowledge
  <2>2. tasks[t].unanswered - 1 \in Nat BY <1>1, <1>4, <2>1
  <2>3. again \in BOOLEAN /\ late \in BOOLEAN BY DEF Settled
  <2>4. tasks' = [tasks EXCEPT ![t] = row] /\ Write(t, "exec.finished") BY <1>4 DEF Acknowledge
  <2> HIDE DEF again, late
  <2>5. row \in TaskRow BY <1>1, <1>4, <2>2, <2>3, RowWithValues
  <2>6. "exec.finished" \in EventType BY DEF EventType
  <2> HIDE DEF row
  <2>7. QED BY <1>4, <2>4, <2>5, <2>6, RowIsChanged
<1>5. QED BY <1>2, <1>3, <1>4, InsertGrows DEF Elsewhere

LEMMA TablesStayGrow ==
  ASSUME TablesOK, UNCHANGED serverTables
  PROVE  TablesGrow
BY DEF TablesOK, TablesGrow, serverTables

LEMMA TablesStart ==
  ASSUME TableInit
  PROVE  TablesOK
<1>1. Old \in Nat /\ Old <= MaxTasks /\ OldKind \in Kinds BY TaskConstantsTyped
<1>2. tasks \in [1..Old -> TaskRow] BY <1>1 DEF TableInit, TaskRow, Status
<1>3. tasks \in Seq(TaskRow) /\ Len(tasks) = Old BY <1>1, <1>2
<1>4. ASSUME NEW n \in 1..(3 * Old) PROVE OldEvent(n) \in LogEntry
  <2>1. (n + 2) \div 3 \in 1..MaxTasks BY <1>1, <1>4, TaskConstantsTyped
  <2>2. QED BY <2>1 DEF OldEvent, LogEntry, EventType
<1>5. log \in [1..(3 * Old) -> LogEntry] BY <1>4 DEF TableInit
<1>6. log \in Seq(LogEntry)
  <2>1. 3 * Old \in Nat BY <1>1
  <2>2. QED BY <1>5, <2>1
<1>7. QED BY <1>1, <1>3, <1>6 DEF TablesOK

(***************************************************************************)
(* The list: what the routes answer.                                       *)
(***************************************************************************)

LEMMA SelectedIsFinite ==
  ASSUME TablesOK, NEW which, NEW q
  PROVE  Cardinality(Selected(which, q)) \in Nat
<1>1. ASSUME NEW n \in Nat, NEW S \in SUBSET (1..n) PROVE Cardinality(S) \in Nat
  <2>1. IsFiniteSet(1..n) BY FS_Interval
  <2>2. QED BY <2>1, FS_Subset, FS_CardinalityType
<1>2. Len(tasks) \in Nat /\ Len(log) \in Nat BY DEF TablesOK
<1>3. Selected(which, q) \in SUBSET (1..Len(tasks)) \/ Selected(which, q) \in SUBSET (1..Len(log))
  BY DEF TablesOK, Selected
<1>4. QED BY <1>1, <1>2, <1>3

\* A page has at most RowsPerPage rows, whatever page is asked for.
LEMMA AnswerIsOnePage ==
  ASSUME TablesOK, NEW which, NEW q \in Query
  PROVE  Len(Answered(which, q)) \in Nat /\ Len(Answered(which, q)) <= RowsPerPage
<1> DEFINE S == Selected(which, q)
           before == (q.page - 1) * RowsPerPage
           left == Cardinality(S) - before
           width == IF left < RowsPerPage THEN left ELSE RowsPerPage
           ids == PageOf(S, q.page)
           page == IF width < 0 THEN 0 ELSE width
<1>1. RowsPerPage \in Nat /\ q.page \in Nat \ {0} BY TaskConstantsTyped DEF Query
<1>2. before \in Int
  <2>1. q.page - 1 \in Int BY <1>1
  <2>2. QED BY <1>1, <2>1
<1>3. left \in Int BY <1>2, SelectedIsFinite
<1>4. width \in Int /\ width <= RowsPerPage BY <1>1, <1>3
<1>5. page \in Nat /\ page <= RowsPerPage /\ 1..width = 1..page BY <1>1, <1>4
<1>6. DOMAIN ids = 1..page
  <2>1. ids = [k \in 1..width |-> NthLatest(S, before + k)] BY DEF PageOf
  <2> HIDE DEF width, page, ids, before
  <2>2. QED BY <1>5, <2>1
<1>7. Answered(which, q) = [k \in 1..page |-> Described(which, ids[k])]
  <2>1. Answered(which, q) = [k \in DOMAIN ids |-> Described(which, ids[k])] BY DEF Answered
  <2> HIDE DEF ids, page
  <2>2. QED BY <1>6, <2>1
<1> HIDE DEF ids, page
<1>8. Len([k \in 1..page |-> Described(which, ids[k])]) = page BY <1>5
<1>9. QED BY <1>5, <1>7, <1>8

(***************************************************************************)
(* The list: its steps.                                                    *)
(***************************************************************************)

LEMMA ListFacts ==
  ASSUME ListIInv
  PROVE  /\ TablesOK
         /\ {mounted, modal, submitting} \subseteq BOOLEAN
         /\ tab \in Tabs /\ query \in [Tabs -> Query] /\ query["events"].status = AnyStatus
         /\ DOMAIN listing = Tabs
         /\ \A x \in Tabs : listing[x].total \in Nat /\ Len(listing[x].rows) <= RowsPerPage
         /\ \A r \in lookups : LookupOK(r)
         /\ ~mounted => lookups = {}
         /\ modal => tab = "tasks" /\ mounted
         /\ query[tab] \in Query
BY DEF ListIInv, TaskListTypeOK, TablesOK

LEMMA ListFromFacts ==
  ASSUME /\ TablesOK'
         /\ {mounted', modal', submitting'} \subseteq BOOLEAN
         /\ tab' \in Tabs /\ query' \in [Tabs -> Query] /\ query'["events"].status = AnyStatus
         /\ DOMAIN listing' = Tabs
         /\ \A x \in Tabs : listing'[x].total \in Nat /\ Len(listing'[x].rows) <= RowsPerPage
         /\ \A r \in lookups' : LookupOK(r)
         /\ ~mounted' => lookups' = {}
         /\ modal' => tab' = "tasks" /\ mounted'
  PROVE  ListIInv'
BY DEF ListIInv, TaskListTypeOK, TablesOK, LookupOK

\* A read starts with no rows.
LEMMA NewLookupIsOK ==
  ASSUME NEW which \in Tabs, NEW q \in Query
  PROVE  LookupOK(Lookup(which, q))
BY TaskConstantsTyped DEF LookupOK, Lookup

\* Only the reads under way change.
LEMMA ReadsOnlyKeep ==
  ASSUME ListIInv, UNCHANGED <<serverTables, mounted, tab, query, modal, submitting, listing>>,
         \A r \in lookups' : LookupOK(r), mounted \/ lookups' = {}
  PROVE  ListIInv'
<1>1. TablesOK' BY ListFacts DEF TablesOK, serverTables
<1>2. QED BY <1>1, ListFacts, ListFromFacts

LEMMA AskKeeps ==
  ASSUME ListIInv, mounted, NEW q \in Query, Ask(q), tab = "events" => q.status = AnyStatus
  PROVE  ListIInv'
<1>1. query' = [query EXCEPT ![tab] = q] /\ lookups' = lookups \cup {Lookup(tab, query'[tab])}
  BY DEF Ask, Reload
<1>2. query' \in [Tabs -> Query] /\ query'[tab] = q /\ query'["events"].status = AnyStatus
  BY <1>1, ListFacts DEF Tabs
<1>3. \A r \in lookups' : LookupOK(r) BY <1>1, <1>2, ListFacts, NewLookupIsOK
<1>4. TablesOK' BY ListFacts DEF TablesOK, serverTables, Ask
<1>5. UNCHANGED <<mounted, tab, listing, modal, submitting>> BY DEF Ask
<1>6. QED BY <1>2, <1>3, <1>4, <1>5, ListFacts, ListFromFacts

LEMMA ClickingKeeps ==
  ASSUME ListIInv, Clicking
  PROVE  ListIInv'
<1> DEFINE Quiet == UNCHANGED <<serverTables, mounted, query, listing>>
<1>1. ASSUME UNCHANGED serverTables PROVE TablesOK'
  BY <1>1, ListFacts DEF TablesOK, serverTables
<1>2. ASSUME NEW x \in Tabs, SwitchTab(x) PROVE ListIInv'
  <2>1. /\ mounted /\ ~modal /\ tab' = x /\ lookups' = lookups \cup {Lookup(x, query[x])}
        /\ UNCHANGED <<serverTables, mounted, query, listing, modal, submitting>>
    BY <1>2 DEF SwitchTab, Click, Reload
  <2>2. query[x] \in Query BY <1>2, ListFacts
  <2>3. \A r \in lookups' : LookupOK(r) BY <1>2, <2>1, <2>2, ListFacts, NewLookupIsOK
  <2>4. QED BY <1>1, <1>2, <2>1, <2>3, ListFacts, ListFromFacts
<1>3. ASSUME NEW k \in FilterKinds \cup {AnyKind}, NEW s \in FilterStatus \cup {AnyStatus}, Filter(k, s)
      PROVE  ListIInv'
  <2> DEFINE q == [kind |-> k, status |-> s, page |-> 1]
  <2>1. q \in Query BY <1>3, TaskConstantsTyped DEF Query
  <2>2. mounted /\ Ask(q) /\ (tab = "events" => q.status = AnyStatus)
    BY <1>3 DEF Filter, Click
  <2> HIDE DEF q
  <2>3. QED BY <2>1, <2>2, AskKeeps
<1>4. ASSUME NEW n \in Nat \ {0}, mounted, Ask([query[tab] EXCEPT !.page = n]) PROVE ListIInv'
  <2> DEFINE q == [query[tab] EXCEPT !.page = n]
  <2>1. q \in Query /\ q.status = query[tab].status BY <1>4, ListFacts DEF Query
  <2>2. Ask(q) /\ (tab = "events" => q.status = AnyStatus) BY <1>4, <2>1, ListFacts
  <2> HIDE DEF q
  <2>3. QED BY <1>4, <2>1, <2>2, AskKeeps
<1>5. query[tab].page \in Nat \ {0} BY ListFacts DEF Query
<1>6. CASE NextPage
  <2>1. query[tab].page + 1 \in Nat \ {0} BY <1>5
  <2>2. mounted /\ Ask([query[tab] EXCEPT !.page = query[tab].page + 1]) BY <1>6 DEF NextPage, Click
  <2>3. QED BY <1>4, <2>1, <2>2
<1>7. CASE PrevPage
  <2>1. mounted /\ query[tab].page > 1 /\ Ask([query[tab] EXCEPT !.page = query[tab].page - 1])
    BY <1>7 DEF PrevPage, Click
  <2>2. query[tab].page - 1 \in Nat \ {0} BY <1>5, <2>1
  <2>3. QED BY <1>4, <2>1, <2>2
<1>8. CASE OpenModal
  <2>1. /\ mounted /\ tab = "tasks" /\ modal' = TRUE
        /\ UNCHANGED <<serverTables, mounted, tab, query, listing, submitting, lookups>>
    BY <1>8 DEF OpenModal, Click
  <2>2. QED BY <1>1, <2>1, ListFacts, ListFromFacts
<1>9. CASE CloseModal
  <2>1. /\ modal /\ modal' = FALSE /\ lookups' = lookups \cup {Lookup(tab, query[tab])}
        /\ UNCHANGED <<serverTables, mounted, tab, query, listing, submitting>>
    BY <1>9 DEF CloseModal, Reload
  <2>2. \A r \in lookups' : LookupOK(r) BY <2>1, ListFacts, NewLookupIsOK
  <2>3. QED BY <1>1, <2>1, <2>2, ListFacts, ListFromFacts
<1>10. CASE Submit
  <2>1. /\ submitting' = TRUE
        /\ UNCHANGED <<serverTables, mounted, tab, query, listing, modal, lookups>>
    BY <1>10 DEF Submit
  <2>2. QED BY <1>1, <2>1, ListFacts, ListFromFacts
<1>11. QED BY <1>2, <1>3, <1>6, <1>7, <1>8, <1>9, <1>10 DEF Clicking

LEMMA ReadingKeeps ==
  ASSUME ListIInv, Reading
  PROVE  ListIInv'
<1>1. CASE Poll
  <2>1. /\ mounted /\ lookups' = lookups \cup {Lookup(tab, query[tab])}
        /\ UNCHANGED <<serverTables, mounted, tab, query, modal, submitting, listing>>
    BY <1>1 DEF Poll, PolledQuery
  <2>2. \A r \in lookups' : LookupOK(r) BY <2>1, ListFacts, NewLookupIsOK
  <2>3. QED BY <2>1, <2>2, ReadsOnlyKeep
<1>2. ASSUME NEW r \in lookups, CountRows(r) PROVE ListIInv'
  <2> DEFINE n == Cardinality(Selected(r.of, r.query))
             s == [r EXCEPT !.at = "counted", !.total = n]
  <2>1. LookupOK(r) /\ TablesOK /\ mounted BY <1>2, ListFacts
  <2>2. n \in Nat BY <2>1, SelectedIsFinite
  <2>3. LookupOK(s)
    <3> HIDE DEF n
    <3>1. /\ DOMAIN s = DOMAIN r /\ s.of = r.of /\ s.query = r.query /\ s.at = "counted"
          /\ s.total = n /\ s.rows = r.rows
      BY <2>1 DEF LookupOK
    <3> HIDE DEF s
    <3>2. QED BY <2>1, <2>2, <3>1 DEF LookupOK
  <2>4. /\ lookups' = (lookups \ {r}) \cup {s}
        /\ UNCHANGED <<serverTables, mounted, tab, query, modal, submitting, listing>>
    BY <1>2 DEF CountRows, WithLookup, pageRest
  <2> HIDE DEF s
  <2>5. \A x \in lookups' : LookupOK(x) BY <2>3, <2>4, ListFacts
  <2>6. QED BY <2>1, <2>4, <2>5, ReadsOnlyKeep
<1>3. ASSUME NEW r \in lookups, ReadRows(r) PROVE ListIInv'
  <2> DEFINE rows == Answered(r.of, r.query)
             s == [r EXCEPT !.at = "read", !.rows = rows]
  <2>1. LookupOK(r) /\ TablesOK /\ mounted BY <1>3, ListFacts
  <2>2. Len(rows) <= RowsPerPage
    <3>1. r.query \in Query BY <2>1 DEF LookupOK
    <3>2. QED BY <2>1, <3>1, AnswerIsOnePage
  <2>3. LookupOK(s)
    <3> HIDE DEF rows
    <3>1. /\ DOMAIN s = DOMAIN r /\ s.of = r.of /\ s.query = r.query /\ s.at = "read"
          /\ s.total = r.total /\ s.rows = rows
      BY <2>1 DEF LookupOK
    <3> HIDE DEF s
    <3>2. QED BY <2>1, <2>2, <3>1 DEF LookupOK
  <2>4. /\ lookups' = (lookups \ {r}) \cup {s}
        /\ UNCHANGED <<serverTables, mounted, tab, query, modal, submitting, listing>>
    BY <1>3 DEF ReadRows, WithLookup, pageRest
  <2> HIDE DEF s
  <2>5. \A x \in lookups' : LookupOK(x) BY <2>3, <2>4, ListFacts
  <2>6. QED BY <2>1, <2>4, <2>5, ReadsOnlyKeep
<1>4. ASSUME NEW r \in lookups, ShowRows(r) PROVE ListIInv'
  <2>1. /\ lookups' = lookups \ {r}
        /\ listing' = [listing EXCEPT ![r.of] = [total |-> r.total, rows |-> r.rows]]
        /\ UNCHANGED <<serverTables, mounted, tab, query, modal, submitting>>
    BY <1>4 DEF ShowRows, pageRest
  <2>2. LookupOK(r) BY <1>4, ListFacts
  <2>3. r.of \in Tabs /\ r.total \in Nat /\ Len(r.rows) <= RowsPerPage BY <2>2 DEF LookupOK
  <2>4. DOMAIN listing' = Tabs BY <2>1, ListFacts
  <2>5. \A x \in Tabs : listing'[x].total \in Nat /\ Len(listing'[x].rows) <= RowsPerPage
    BY <2>1, <2>3, ListFacts
  <2>6. TablesOK' BY <2>1, ListFacts DEF TablesOK, serverTables
  <2>7. QED BY <2>1, <2>4, <2>5, <2>6, ListFacts, ListFromFacts
<1>5. QED BY <1>1, <1>2, <1>3, <1>4 DEF Reading

\* Tables that grow leave the page as it is.
LEMMA TablesLeaveTheList ==
  ASSUME ListIInv, TablesGrow, UNCHANGED listVars
  PROVE  ListIInv'
<1>1. TablesOK' BY DEF TablesGrow
<1>2. UNCHANGED <<mounted, tab, query, listing, modal, submitting, lookups>> BY DEF listVars
<1>3. QED BY <1>1, <1>2, ListFacts, ListFromFacts

LEMMA TaskListStepKeeps ==
  ASSUME ListIInv, TaskListNext
  PROVE  ListIInv' /\ TablesGrow
<1>1. ASSUME UNCHANGED serverTables PROVE TablesGrow BY <1>1, ListFacts, TablesStayGrow
<1>2. CASE Clicking
  <2>1. UNCHANGED serverTables
    BY <1>2 DEF Clicking, SwitchTab, Filter, NextPage, PrevPage, Ask, OpenModal, CloseModal, Submit
  <2>2. QED BY <1>1, <1>2, <2>1, ClickingKeeps
<1>3. CASE Reading
  <2>1. UNCHANGED serverTables BY <1>3 DEF Reading, Poll, CountRows, ReadRows, ShowRows, pageRest
  <2>2. QED BY <1>1, <1>3, <2>1, ReadingKeeps
<1>4. CASE Created
  <2>1. TablesGrow BY <1>4, ListFacts, InsertGrows DEF Created
  <2>2. /\ submitting' = FALSE /\ mounted' = FALSE /\ modal' = FALSE /\ lookups' = {}
        /\ UNCHANGED <<tab, query, listing>>
    BY <1>4 DEF Created
  <2>3. TablesOK' BY <2>1 DEF TablesGrow
  <2>4. QED BY <2>1, <2>2, <2>3, ListFacts, ListFromFacts
<1>5. CASE CreationFails
  <2>1. TablesGrow BY <1>1, <1>5, ListFacts, InsertGrows DEF CreationFails
  <2>2. submitting' = FALSE /\ UNCHANGED <<mounted, tab, query, listing, modal, lookups>>
    BY <1>5 DEF CreationFails
  <2>3. TablesOK' BY <2>1 DEF TablesGrow
  <2>4. QED BY <2>1, <2>2, <2>3, ListFacts, ListFromFacts
<1>6. ASSUME NEW r \in lookups, LookupFails(r) PROVE ListIInv' /\ TablesGrow
  <2>1. /\ lookups' = lookups \ {r}
        /\ UNCHANGED <<serverTables, mounted, tab, query, modal, submitting, listing>>
    BY <1>6 DEF LookupFails, pageRest
  <2>2. QED BY <1>1, <2>1, ListFacts, ReadsOnlyKeep
<1>7. CASE Elsewhere(MaxListLog) /\ UNCHANGED <<listVars, clicks, losses>>
  <2>1. TablesGrow BY <1>7, ListFacts, ElsewhereGrows
  <2>2. QED BY <1>7, <2>1, TablesLeaveTheList
<1>8. QED BY <1>2, <1>3, <1>4, <1>5, <1>6, <1>7 DEF TaskListNext

LEMMA TaskListInitKeeps ==
  ASSUME TaskListInit
  PROVE  ListIInv
<1>1. TablesOK BY TablesStart DEF TaskListInit
<1>2. NoFilter \in Query BY DEF NoFilter, Query
<1>3. \A r \in lookups : LookupOK(r)
  BY <1>2, NewLookupIsOK DEF TaskListInit, Tabs
<1>4. /\ {mounted, modal, submitting} \subseteq BOOLEAN /\ tab \in Tabs
      /\ query \in [Tabs -> Query] /\ query["events"].status = AnyStatus
      /\ ~mounted => lookups = {} /\ ~modal
  BY <1>2 DEF TaskListInit, Tabs, NoFilter
<1>5. DOMAIN listing = Tabs /\ \A x \in Tabs : listing[x].total \in Nat /\ Len(listing[x].rows) <= RowsPerPage
  BY TaskConstantsTyped DEF TaskListInit, NothingYet
<1>6. modal = FALSE /\ (~mounted => lookups = {}) BY DEF TaskListInit
<1>7. TaskListTypeOK
  BY <1>1, <1>3, <1>4, <1>5, <1>6 DEF TaskListTypeOK, TablesOK, LookupOK
<1>8. QED BY <1>3, <1>5, <1>6, <1>7 DEF ListIInv

(***************************************************************************)
(* The page of one task: its reads.                                        *)
(***************************************************************************)

LoadsOK(S, n) ==
  /\ S \subseteq LoadType /\ IsFiniteSet(S)
  /\ \A l, m \in S : l.slot = m.slot => l = m
  /\ \A l \in S : l.of \in 1..n

LEMMA LiveIsFinite ==
  ASSUME NEW S, IsFiniteSet(S)
  PROVE  IsFiniteSet(Live(S)) /\ Cardinality(Live(S)) \in Nat
<1>1. Live(S) \subseteq S BY DEF Live
<1>2. IsFiniteSet(Live(S)) BY <1>1, FS_Subset
<1>3. QED BY <1>2, FS_CardinalityType

LEMMA LoadIsAdded ==
  ASSUME NEW S, NEW n \in Nat, LoadsOK(S, n), NEW x \in LoadType, x.of \in 1..n,
         \A l \in S : l.slot # x.slot
  PROVE  /\ LoadsOK(S \cup {x}, n)
         /\ Cardinality(Live(S \cup {x})) <= Cardinality(Live(S)) + 1
         /\ x.by = "gone" => Live(S \cup {x}) = Live(S)
<1>1. IsFiniteSet(S) /\ IsFiniteSet(S \cup {x}) BY FS_AddElement DEF LoadsOK
<1>2. LoadsOK(S \cup {x}, n) BY <1>1 DEF LoadsOK
<1>3. IsFiniteSet(Live(S)) /\ Cardinality(Live(S)) \in Nat BY <1>1, LiveIsFinite
<1>4. Live(S \cup {x}) = Live(S) \/ Live(S \cup {x}) = Live(S) \cup {x} BY DEF Live
<1>5. x.by = "gone" => Live(S \cup {x}) = Live(S) BY DEF Live
<1>6. Cardinality(Live(S) \cup {x}) <= Cardinality(Live(S)) + 1
  <2> DEFINE L == Live(S)
  <2> HIDE DEF L
  <2>1. IsFiniteSet(L) /\ Cardinality(L) \in Nat BY <1>3 DEF L
  <2>2. Cardinality(L \cup {x}) = IF x \in L THEN Cardinality(L) ELSE Cardinality(L) + 1
    BY <2>1, FS_AddElement
  <2>3. Cardinality(L \cup {x}) <= Cardinality(L) + 1 BY <2>1, <2>2
  <2>4. QED BY <2>3 DEF L
<1>7. QED BY <1>2, <1>3, <1>4, <1>5, <1>6

LEMMA LoadIsDropped ==
  ASSUME NEW S, NEW n \in Nat, LoadsOK(S, n), NEW x \in S
  PROVE  /\ LoadsOK(S \ {x}, n)
         /\ \A l \in S \ {x} : l.slot # x.slot
         /\ Cardinality(Live(S \ {x})) \in Nat
         /\ Cardinality(Live(S \ {x})) <= Cardinality(Live(S))
         /\ x.by # "gone" => Cardinality(Live(S \ {x})) = Cardinality(Live(S)) - 1
         /\ x.by = "gone" => Live(S \ {x}) = Live(S)
<1>1. IsFiniteSet(S) /\ IsFiniteSet(S \ {x}) BY FS_Subset DEF LoadsOK
<1>2. LoadsOK(S \ {x}, n) /\ \A l \in S \ {x} : l.slot # x.slot BY <1>1 DEF LoadsOK
<1>3. /\ IsFiniteSet(Live(S)) /\ Cardinality(Live(S)) \in Nat
      /\ Cardinality(Live(S \ {x})) \in Nat
  BY <1>1, LiveIsFinite
<1>4. Live(S \ {x}) \subseteq Live(S) BY DEF Live
<1>5. Cardinality(Live(S \ {x})) <= Cardinality(Live(S)) BY <1>3, <1>4, FS_Subset
<1>6. x.by # "gone" => Cardinality(Live(S \ {x})) = Cardinality(Live(S)) - 1
  <2>1. x.by # "gone" => x \in Live(S) /\ Live(S \ {x}) = Live(S) \ {x} BY DEF Live
  <2>2. QED BY <1>3, <2>1, FS_RemoveElement
<1>7. x.by = "gone" => Live(S \ {x}) = Live(S) BY DEF Live
<1>8. QED BY <1>2, <1>3, <1>5, <1>6, <1>7

LEMMA LoadIsServed ==
  ASSUME NEW S, NEW n \in Nat, LoadsOK(S, n), NEW x \in S, NEW s \in Status
  PROVE  LET T == (S \ {x}) \cup {[x EXCEPT !.status = s]} IN
         LoadsOK(T, n) /\ Cardinality(Live(T)) <= Cardinality(Live(S))
<1> DEFINE y == [x EXCEPT !.status = s]
<1>1. /\ y \in LoadType /\ y.slot = x.slot /\ y.by = x.by /\ y.of \in 1..n
  BY DEF LoadsOK, LoadType
<1> HIDE DEF y
<1>2. LoadsOK(S \ {x}, n) /\ \A l \in S \ {x} : l.slot # y.slot BY <1>1, LoadIsDropped
<1>3. /\ LoadsOK((S \ {x}) \cup {y}, n)
      /\ Cardinality(Live((S \ {x}) \cup {y})) <= Cardinality(Live(S \ {x})) + 1
      /\ y.by = "gone" => Live((S \ {x}) \cup {y}) = Live(S \ {x})
  BY <1>1, <1>2, LoadIsAdded
<1>4. /\ IsFiniteSet(S) /\ IsFiniteSet((S \ {x}) \cup {y})
  BY <1>3 DEF LoadsOK
<1>5. Cardinality(Live(S)) \in Nat /\ Cardinality(Live((S \ {x}) \cup {y})) \in Nat
  BY <1>4, LiveIsFinite
<1>6. Cardinality(Live((S \ {x}) \cup {y})) <= Cardinality(Live(S))
  <2>1. CASE x.by = "gone" BY <1>1, <1>3, <1>5, <2>1, LoadIsDropped
  <2>2. CASE x.by # "gone"
    <3>1. Cardinality(Live(S \ {x})) = Cardinality(Live(S)) - 1 BY <2>2, LoadIsDropped
    <3>2. QED BY <1>3, <1>5, <3>1
  <2>3. QED BY <2>1, <2>2
<1>7. QED BY <1>3, <1>6 DEF y

\* The effect's cleanup: the answer of its read is refused from now on.
Abandoned(S) == {IF l.by = "mount" THEN [l EXCEPT !.by = "gone"] ELSE l : l \in S}

LEMMA LoadsAreAbandoned ==
  ASSUME NEW S, NEW n \in Nat, LoadsOK(S, n)
  PROVE  /\ LoadsOK(Abandoned(S), n)
         /\ \A l \in Abandoned(S) : \E m \in S : l.slot = m.slot
         /\ Cardinality(Live(Abandoned(S))) <= Cardinality(Live(S))
<1> DEFINE f == [l \in S |-> IF l.by = "mount" THEN [l EXCEPT !.by = "gone"] ELSE l]
<1>1. Abandoned(S) = {f[l] : l \in S} BY DEF Abandoned
<1>2. ASSUME NEW l \in S
      PROVE  f[l] \in LoadType /\ f[l].slot = l.slot /\ f[l].of \in 1..n
             /\ (f[l].by = "gone" \/ f[l] = l)
  <2>1. l \in LoadType /\ l.of \in 1..n BY <1>2 DEF LoadsOK
  <2>2. [l EXCEPT !.by = "gone"] \in LoadType BY <2>1 DEF LoadType
  <2>3. /\ [l EXCEPT !.by = "gone"].slot = l.slot /\ [l EXCEPT !.by = "gone"].of = l.of
        /\ [l EXCEPT !.by = "gone"].by = "gone"
    BY <2>1 DEF LoadType
  <2>4. QED BY <2>1, <2>2, <2>3
<1> HIDE DEF f
<1>3. IsFiniteSet(Abandoned(S))
  <2>1. IsFiniteSet(S) BY DEF LoadsOK
  <2>2. f \in Surjection(S, Abandoned(S))
    <3>1. DOMAIN f = S /\ \A l \in S : f[l] \in Abandoned(S) BY <1>1 DEF f
    <3>2. f = [l \in S |-> f[l]] BY DEF f
    <3>3. f \in [S -> Abandoned(S)] BY <3>1, <3>2
    <3>4. QED BY <1>1, <3>3 DEF Surjection
  <2>3. QED BY <2>1, <2>2, FS_Surjection
<1>4. LoadsOK(Abandoned(S), n)
  <2>1. Abandoned(S) \subseteq LoadType /\ \A l \in Abandoned(S) : l.of \in 1..n BY <1>1, <1>2
  <2>2. \A l, m \in Abandoned(S) : l.slot = m.slot => l = m
    <3>1. \A l, m \in S : l.slot = m.slot => l = m BY DEF LoadsOK
    <3>2. QED BY <1>1, <1>2, <3>1
  <2>3. QED BY <1>3, <2>1, <2>2 DEF LoadsOK
<1>5. \A l \in Abandoned(S) : \E m \in S : l.slot = m.slot BY <1>1, <1>2
<1>6. Live(Abandoned(S)) \subseteq Live(S) BY <1>1, <1>2 DEF Live
<1>7. IsFiniteSet(Live(S)) BY LiveIsFinite DEF LoadsOK
<1>8. Cardinality(Live(Abandoned(S))) <= Cardinality(Live(S)) BY <1>6, <1>7, FS_Subset
<1>9. QED BY <1>4, <1>5, <1>8

(***************************************************************************)
(* The page of one task: its steps.                                        *)
(***************************************************************************)

LEMMA DetailFacts ==
  ASSUME DetailIInv
  PROVE  /\ tasks \in Seq(TaskRow) /\ Len(tasks) \in Nat /\ DOMAIN tasks = 1..Len(tasks)
         /\ DOMAIN tasks \subseteq 1..MaxTasks
         /\ route \in DOMAIN tasks \cup {NoTask}
         /\ shownTask \in [of : DOMAIN tasks \cup {NoTask}, status : Status]
         /\ timers \in 0..1
         /\ LoadsOK(loads, Len(tasks))
         /\ retrying \in Kinds \cup {NoTask} /\ spoiled \in BOOLEAN /\ visits \in 0..MaxVisits
         /\ route = NoTask => loads = {} /\ timers = 0 /\ shownTask = NoRow
         /\ Cardinality(Live(loads)) \in Nat
         /\ timers + Cardinality(Live(loads)) <= 2 * visits
<1>1. /\ tasks \in Seq(TaskRow) /\ Len(tasks) <= MaxTasks
      /\ timers \in Nat /\ timers <= 1 /\ IsFiniteSet(loads)
      /\ timers + Cardinality(Live(loads)) <= 2 * visits
  BY DEF DetailIInv, TaskDetailInv, TaskDetailTypeOK, PollingDoesNotGrow, Live
<1>2. Len(tasks) \in Nat /\ DOMAIN tasks = 1..Len(tasks) /\ DOMAIN tasks \subseteq 1..MaxTasks
  BY <1>1, TaskConstantsTyped
<1>3. LoadsOK(loads, Len(tasks))
  BY <1>1, <1>2 DEF LoadsOK, DetailIInv, TaskDetailInv, TaskDetailTypeOK
<1>4. Cardinality(Live(loads)) \in Nat BY <1>1, LiveIsFinite
<1>5. QED BY <1>1, <1>2, <1>3, <1>4 DEF DetailIInv, TaskDetailInv, TaskDetailTypeOK, TablesOK

LEMMA DetailFromFacts ==
  ASSUME /\ TablesOK'
         /\ route' \in DOMAIN tasks' \cup {NoTask}
         /\ shownTask' \in [of : DOMAIN tasks' \cup {NoTask}, status : Status]
         /\ timers' \in 0..1
         /\ LoadsOK(loads', Len(tasks'))
         /\ retrying' \in Kinds \cup {NoTask} /\ spoiled' \in BOOLEAN /\ visits' \in 0..MaxVisits
         /\ route' = NoTask => loads' = {} /\ timers' = 0 /\ shownTask' = NoRow
         /\ timers' + Cardinality(Live(loads')) <= 2 * visits'
  PROVE  DetailIInv'
<1>1. DOMAIN tasks' = 1..Len(tasks') BY DEF TablesOK
<1>2. /\ loads' \subseteq LoadType /\ IsFiniteSet(loads')
      /\ \A l, m \in loads' : l.slot = m.slot => l = m
      /\ \A l \in loads' : l.of \in DOMAIN tasks'
  BY <1>1 DEF LoadsOK
<1>3. timers' \in Nat /\ timers' <= 1 OBVIOUS
<1>4. TaskDetailTypeOK' BY <1>2, <1>3 DEF TaskDetailTypeOK, TablesOK
<1>5. PollingDoesNotGrow' BY DEF PollingDoesNotGrow, Live
<1>6. QED BY <1>2, <1>3, <1>4, <1>5 DEF DetailIInv, TaskDetailInv

LEMMA ArmedTimers ==
  ASSUME NEW row
  PROVE  Rearm(row) \in 0..1
BY DEF Rearm

\* A read that starts has a slot of its own.
LEMMA LoadIsFresh ==
  ASSUME DetailIInv, FreeSlots # {}, NEW t \in 1..MaxTasks, NEW how \in {"mount", "timer"}
  PROVE  LET x == Load(t, how) IN
         /\ x \in LoadType /\ x.of = t /\ x.by = how
         /\ x.slot \in FreeSlots
         /\ \A l \in loads : l.slot # x.slot
<1> DEFINE x == Load(t, how)
<1>1. (CHOOSE n \in FreeSlots : TRUE) \in FreeSlots OBVIOUS
<1>2. x \in LoadType /\ x.of = t /\ x.by = how /\ x.slot \in FreeSlots
  BY <1>1 DEF Load, LoadType, FreeSlots
<1>3. \A l \in loads : l.slot # x.slot BY <1>2 DEF FreeSlots
<1>4. QED BY <1>2, <1>3

\* A grown table has the tasks it had.
LEMMA GrownTable ==
  ASSUME DetailIInv, TablesGrow
  PROVE  /\ TablesOK' /\ DOMAIN tasks \subseteq DOMAIN tasks' /\ DOMAIN tasks' = 1..Len(tasks')
         /\ Len(tasks) \in Nat /\ Len(tasks') \in Nat
         /\ \A S : LoadsOK(S, Len(tasks)) => LoadsOK(S, Len(tasks'))
<1>1. /\ tasks \in Seq(TaskRow) /\ tasks' \in Seq(TaskRow) /\ Len(tasks) <= Len(tasks') /\ TablesOK'
  BY DetailFacts DEF TablesGrow, TablesOK
<1>2. /\ DOMAIN tasks = 1..Len(tasks) /\ DOMAIN tasks' = 1..Len(tasks')
      /\ Len(tasks) \in Nat /\ Len(tasks') \in Nat
  BY <1>1
<1>3. 1..Len(tasks) \subseteq 1..Len(tasks') BY <1>1, <1>2
<1>4. \A S : LoadsOK(S, Len(tasks)) => LoadsOK(S, Len(tasks')) BY <1>3 DEF LoadsOK
<1>5. QED BY <1>1, <1>2, <1>3, <1>4

LEMMA TablesLeaveThePage ==
  ASSUME DetailIInv, TablesGrow, UNCHANGED pageOfTask, retrying' \in Kinds \cup {NoTask}
  PROVE  DetailIInv'
<1>1. UNCHANGED <<route, shownTask, timers, loads, spoiled, visits>> BY DEF pageOfTask
<1>2. LoadsOK(loads', Len(tasks')) BY <1>1, DetailFacts, GrownTable
<1>3. /\ route' \in DOMAIN tasks' \cup {NoTask}
      /\ shownTask' \in [of : DOMAIN tasks' \cup {NoTask}, status : Status]
  BY <1>1, DetailFacts, GrownTable
<1>4. QED BY <1>1, <1>2, <1>3, DetailFacts, GrownTable, DetailFromFacts

\* The page is mounted or gets another task: one timeout and one read more.
LEMMA VisitKeeps ==
  ASSUME DetailIInv, TablesGrow, NEW t \in DOMAIN tasks', Visit(t),
         retrying' \in Kinds \cup {NoTask}
  PROVE  DetailIInv'
<1> DEFINE x == Load(t, "mount")
           S == Abandoned(loads)
<1>1. /\ visits < MaxVisits /\ FreeSlots # {} /\ route' = t /\ visits' = visits + 1
      /\ spoiled' = FALSE /\ loads' = S \cup {x} /\ timers' = Rearm(shownTask)
      /\ UNCHANGED shownTask
  BY DEF Visit, Abandoned
<1>2. t \in 1..MaxTasks /\ t \in 1..Len(tasks')
  BY GrownTable, TaskConstantsTyped DEF TablesOK
<1>3. /\ x \in LoadType /\ x.of = t /\ \A l \in loads : l.slot # x.slot
  BY <1>1, <1>2, LoadIsFresh
<1>4. /\ LoadsOK(S, Len(tasks)) /\ \A l \in S : l.slot # x.slot
      /\ Cardinality(Live(S)) <= Cardinality(Live(loads))
  BY <1>3, DetailFacts, LoadsAreAbandoned
<1>5. LoadsOK(S, Len(tasks')) /\ Len(tasks') \in Nat BY <1>4, GrownTable
<1> HIDE DEF x, S
<1>6. /\ LoadsOK(loads', Len(tasks'))
      /\ Cardinality(Live(loads')) <= Cardinality(Live(S)) + 1
  BY <1>1, <1>2, <1>3, <1>4, <1>5, LoadIsAdded
<1>7. IsFiniteSet(S) /\ IsFiniteSet(loads') BY <1>4, <1>6 DEF LoadsOK
<1>8. Cardinality(Live(S)) \in Nat /\ Cardinality(Live(loads')) \in Nat BY <1>7, LiveIsFinite
<1>9. timers' \in 0..1 BY <1>1, ArmedTimers
<1>10. visits' \in 0..MaxVisits BY <1>1, TaskConstantsTyped, DetailFacts
<1>11. timers' + Cardinality(Live(loads')) <= 2 * visits'
  <2>1. /\ timers \in Nat /\ visits \in Nat /\ Cardinality(Live(loads)) \in Nat
        /\ timers + Cardinality(Live(loads)) <= 2 * visits
    BY TaskConstantsTyped, DetailFacts
  <2>2. Cardinality(Live(loads')) <= Cardinality(Live(loads)) + 1 BY <1>4, <1>6, <1>8, <2>1
  <2>3. timers' \in Nat /\ timers' <= 1 /\ visits' = visits + 1 BY <1>1, <1>9
  <2>4. QED BY <1>8, <2>1, <2>2, <2>3
<1>12. route' # NoTask BY <1>1, <1>2, TaskConstantsTyped
<1>13. shownTask' \in [of : DOMAIN tasks' \cup {NoTask}, status : Status]
  BY <1>1, DetailFacts, GrownTable
<1>14. QED BY <1>1, <1>6, <1>9, <1>10, <1>11, <1>12, <1>13, GrownTable, DetailFromFacts

LEMMA SteppingKeeps ==
  ASSUME DetailIInv, TablesOK, Stepping
  PROVE  DetailIInv' /\ TablesGrow
<1>1. UNCHANGED serverTables BY DEF Stepping, GoTo, GoAway, Retry
<1>2. TablesGrow BY <1>1, TablesStayGrow
<1>3. tasks' = tasks BY <1>1 DEF serverTables
<1>4. ASSUME NEW t \in 1..MaxTasks, GoTo(t) PROVE DetailIInv'
  <2>1. t \in DOMAIN tasks' /\ Visit(t) /\ retrying' \in Kinds \cup {NoTask}
    BY <1>3, <1>4, DetailFacts DEF GoTo
  <2>2. QED BY <1>2, <2>1, VisitKeeps
<1>5. CASE GoAway
  <2>1. /\ route' = NoTask /\ shownTask' = NoRow /\ timers' = 0 /\ loads' = {}
        /\ spoiled' = FALSE /\ visits' = 0 /\ retrying' = retrying
    BY <1>5 DEF GoAway
  <2>2. LoadsOK({}, Len(tasks')) BY FS_EmptySet DEF LoadsOK
  <2>3. Cardinality(Live({})) = 0 BY FS_EmptySet DEF Live
  <2>4. NoRow \in [of : DOMAIN tasks' \cup {NoTask}, status : Status] BY DEF NoRow, Status
  <2>5. 0 \in 0..MaxVisits BY TaskConstantsTyped
  <2>6. /\ timers' \in 0..1 /\ visits' \in 0..MaxVisits /\ LoadsOK(loads', Len(tasks'))
        /\ shownTask' \in [of : DOMAIN tasks' \cup {NoTask}, status : Status]
    <3>1. timers' \in 0..1 /\ visits' \in 0..MaxVisits BY <2>1, <2>5
    <3>2. LoadsOK(loads', Len(tasks')) BY <2>1, <2>2
    <3>3. shownTask' \in [of : DOMAIN tasks' \cup {NoTask}, status : Status] BY <2>1, <2>4
    <3>4. QED BY <3>1, <3>2, <3>3
  <2>7. timers' + Cardinality(Live(loads')) <= 2 * visits' BY <2>1, <2>3
  <2>8. TablesOK' BY <1>2, GrownTable
  <2>9. /\ route' \in DOMAIN tasks' \cup {NoTask} /\ spoiled' \in BOOLEAN
        /\ retrying' \in Kinds \cup {NoTask}
        /\ route' = NoTask => loads' = {} /\ timers' = 0 /\ shownTask' = NoRow
    BY <2>1, DetailFacts
  <2>10. DetailIInv' BY <2>6, <2>7, <2>8, <2>9, DetailFromFacts
  <2>11. QED BY <1>2, <2>10
<1>6. CASE Retry
  <2>1. /\ shownTask.of # NoTask /\ retrying' = tasks[shownTask.of].kind /\ UNCHANGED pageOfTask
    BY <1>6 DEF Retry
  <2>2. shownTask.of \in DOMAIN tasks BY <2>1, DetailFacts
  <2>3. tasks[shownTask.of] \in TaskRow BY <2>2, DetailFacts
  <2>4. retrying' \in Kinds BY <2>1, <2>3 DEF TaskRow
  <2>5. QED BY <1>2, <2>1, <2>4, TablesLeaveThePage
<1>7. QED BY <1>2, <1>4, <1>5, <1>6 DEF Stepping

LEMMA PollTaskKeeps ==
  ASSUME DetailIInv, TablesGrow, PollTask
  PROVE  DetailIInv'
<1> DEFINE x == Load(route, "timer")
<1>1. /\ timers > 0 /\ FreeSlots # {} /\ timers' = timers - 1 /\ loads' = loads \cup {x}
      /\ UNCHANGED <<route, shownTask, spoiled, visits, retrying, tasks>>
  BY DEF PollTask, serverTables
<1>2. route \in DOMAIN tasks /\ route \in 1..MaxTasks /\ route \in 1..Len(tasks)
  BY <1>1, DetailFacts
<1>3. x \in LoadType /\ x.of = route /\ \A l \in loads : l.slot # x.slot
  BY <1>1, <1>2, LoadIsFresh
<1> HIDE DEF x
<1>4. /\ LoadsOK(loads', Len(tasks)) /\ Cardinality(Live(loads')) <= Cardinality(Live(loads)) + 1
  BY <1>1, <1>2, <1>3, DetailFacts, LoadIsAdded
<1>5. Cardinality(Live(loads')) \in Nat BY <1>4, LiveIsFinite DEF LoadsOK
<1>6. timers' \in 0..1 /\ timers' + Cardinality(Live(loads')) <= 2 * visits'
  BY <1>1, <1>4, <1>5, DetailFacts
<1>7. route' # NoTask BY <1>1, <1>2, TaskConstantsTyped
<1>8. QED BY <1>1, <1>4, <1>6, <1>7, DetailFacts, GrownTable, DetailFromFacts

LEMMA ServeLoadKeeps ==
  ASSUME DetailIInv, TablesGrow, NEW l \in loads, ServeLoad(l)
  PROVE  DetailIInv'
<1> DEFINE s == tasks[l.of].status
<1>1. /\ loads' = (loads \ {l}) \cup {[l EXCEPT !.status = s]}
      /\ UNCHANGED <<route, shownTask, timers, spoiled, visits, retrying, tasks>>
  BY DEF ServeLoad, serverTables
<1>2. s \in Status
  <2>1. l.of \in DOMAIN tasks BY DetailFacts DEF LoadsOK
  <2>2. tasks[l.of] \in TaskRow BY <2>1, DetailFacts
  <2>3. QED BY <2>2 DEF TaskRow
<1> HIDE DEF s
<1>3. LoadsOK(loads', Len(tasks)) /\ Cardinality(Live(loads')) <= Cardinality(Live(loads))
  BY <1>1, <1>2, DetailFacts, LoadIsServed
<1>4. Cardinality(Live(loads')) \in Nat BY <1>3, LiveIsFinite DEF LoadsOK
<1>5. timers' + Cardinality(Live(loads')) <= 2 * visits' BY <1>1, <1>3, <1>4, DetailFacts
<1>6. route' # NoTask BY <1>1, DetailFacts
<1>7. QED BY <1>1, <1>3, <1>5, <1>6, DetailFacts, GrownTable, DetailFromFacts

LEMMA ShowTaskKeeps ==
  ASSUME DetailIInv, TablesGrow, NEW l \in loads, ShowTask(l)
  PROVE  DetailIInv'
<1>1. /\ l.status # "unread" /\ loads' = loads \ {l}
      /\ UNCHANGED <<route, visits, retrying, tasks>>
  BY DEF ShowTask, serverTables
<1>2. /\ LoadsOK(loads', Len(tasks)) /\ Cardinality(Live(loads')) \in Nat
      /\ l.by # "gone" => Cardinality(Live(loads')) = Cardinality(Live(loads)) - 1
      /\ l.by = "gone" => Live(loads') = Live(loads)
  BY <1>1, DetailFacts, LoadIsDropped
<1>3. route' # NoTask BY <1>1, DetailFacts
<1>4. CASE l.by = "gone"
  <2>1. UNCHANGED <<shownTask, timers, spoiled>> BY <1>4 DEF ShowTask
  <2>2. QED BY <1>1, <1>2, <1>3, <1>4, <2>1, DetailFacts, GrownTable, DetailFromFacts
<1>5. CASE l.by # "gone"
  <2>1. /\ shownTask' = [of |-> l.of, status |-> l.status] /\ timers' = Rearm(shownTask')
        /\ spoiled' = (spoiled \/ l.of # route)
    BY <1>5 DEF ShowTask
  <2>2. timers' \in 0..1 BY <2>1, ArmedTimers
  <2>3. l.of \in DOMAIN tasks /\ l.status \in Status
    <3>1. l \in LoadType /\ l.of \in DOMAIN tasks BY DetailFacts DEF LoadsOK
    <3>2. QED BY <1>1, <3>1 DEF LoadType
  <2>4. timers' + Cardinality(Live(loads')) <= 2 * visits'
    BY <1>1, <1>2, <1>5, <2>2, DetailFacts
  <2>5. spoiled' \in BOOLEAN BY <2>1, DetailFacts
  <2>6. QED BY <1>1, <1>2, <1>3, <2>1, <2>2, <2>3, <2>4, <2>5, DetailFacts, GrownTable, DetailFromFacts
<1>6. QED BY <1>4, <1>5

LEMMA LoadFailsKeeps ==
  ASSUME DetailIInv, TablesGrow, NEW l \in loads, LoadFails(l)
  PROVE  DetailIInv'
<1>1. /\ loads' = loads \ {l} /\ spoiled' = (spoiled \/ (l.by # "gone" /\ l.of = route))
      /\ UNCHANGED <<route, shownTask, timers, visits, retrying, tasks>>
  BY DEF LoadFails, serverTables
<1>2. /\ LoadsOK(loads', Len(tasks)) /\ Cardinality(Live(loads')) \in Nat
      /\ Cardinality(Live(loads')) <= Cardinality(Live(loads))
  BY <1>1, DetailFacts, LoadIsDropped
<1>3. timers' + Cardinality(Live(loads')) <= 2 * visits' BY <1>1, <1>2, DetailFacts
<1>4. route' # NoTask /\ spoiled' \in BOOLEAN BY <1>1, DetailFacts
<1>5. QED BY <1>1, <1>2, <1>3, <1>4, DetailFacts, GrownTable, DetailFromFacts

LEMMA TaskDetailStepKeeps ==
  ASSUME DetailIInv, TablesOK, TaskDetailNext
  PROVE  DetailIInv' /\ TablesGrow
<1>1. ASSUME UNCHANGED serverTables PROVE TablesGrow BY <1>1, TablesStayGrow
<1>2. CASE PollTask BY <1>1, <1>2, PollTaskKeeps DEF PollTask
<1>3. ASSUME NEW l \in loads, ServeLoad(l) PROVE DetailIInv' /\ TablesGrow
  BY <1>1, <1>3, ServeLoadKeeps DEF ServeLoad
<1>4. ASSUME NEW l \in loads, ShowTask(l) PROVE DetailIInv' /\ TablesGrow
  BY <1>1, <1>4, ShowTaskKeeps DEF ShowTask
<1>5. ASSUME NEW l \in loads, LoadFails(l) PROVE DetailIInv' /\ TablesGrow
  BY <1>1, <1>5, LoadFailsKeeps DEF LoadFails
<1>6. CASE Retried
  <2>1. retrying \in Kinds /\ retrying' = NoTask /\ Insert(retrying) /\ Visit(Len(tasks) + 1)
    BY <1>6, DetailFacts DEF Retried
  <2>2. TablesGrow /\ Len(tasks') = Len(tasks) + 1 BY <2>1, InsertGrows
  <2>3. Len(tasks) + 1 \in DOMAIN tasks' BY <2>2, GrownTable
  <2>4. QED BY <2>1, <2>2, <2>3, VisitKeeps
<1>7. CASE RetryFails
  <2>1. retrying \in Kinds /\ retrying' = NoTask /\ UNCHANGED pageOfTask
        /\ (Insert(retrying) \/ UNCHANGED serverTables)
    BY <1>7, DetailFacts DEF RetryFails
  <2>2. TablesGrow BY <1>1, <2>1, InsertGrows
  <2>3. QED BY <2>1, <2>2, TablesLeaveThePage
<1>8. CASE Elsewhere(MaxTaskLog) /\ UNCHANGED <<pageOfTask, retrying, steps, failures>>
  <2>1. TablesGrow BY <1>8, ElsewhereGrows
  <2>2. retrying' \in Kinds \cup {NoTask} BY <1>8, DetailFacts
  <2>3. QED BY <1>8, <2>1, <2>2, TablesLeaveThePage
<1>9. QED BY <1>2, <1>3, <1>4, <1>5, <1>6, <1>7, <1>8, SteppingKeeps DEF TaskDetailNext, Following

LEMMA TaskDetailInitKeeps ==
  ASSUME TaskDetailInit
  PROVE  DetailIInv
<1>1. TablesOK BY TablesStart DEF TaskDetailInit
<1>2. /\ route = NoTask /\ shownTask = NoRow /\ timers = 0 /\ loads = {}
      /\ retrying = NoTask /\ spoiled = FALSE /\ visits = 0
  BY DEF TaskDetailInit
<1>3. NoRow \in [of : DOMAIN tasks \cup {NoTask}, status : Status] BY DEF NoRow, Status
<1>4. {l \in loads : l.by # "gone"} = {} /\ IsFiniteSet(loads) /\ Cardinality({}) = 0
  BY <1>2, FS_EmptySet
<1>5. 0 \in 0..MaxVisits /\ 0 \in Nat BY TaskConstantsTyped
<1>6. TaskDetailTypeOK BY <1>1, <1>2, <1>3, <1>5 DEF TaskDetailTypeOK, TablesOK
<1>7. PollingDoesNotGrow BY <1>2, <1>4 DEF PollingDoesNotGrow
<1>8. QED BY <1>2, <1>4, <1>6, <1>7 DEF DetailIInv, TaskDetailInv

(***************************************************************************)
(* The pages of tasks: theorems.                                           *)
(***************************************************************************)

TaskPagesIInv == ListIInv /\ DetailIInv

\* Whatever the operator, the timers, late and lost answers and other clients do in
\* any order, the parts above hold together (Operations.tsx, TaskDetail.tsx).
THEOREM TaskPagesAreInductive == ConsoleSpec => []TaskPagesIInv
<1>1. ConsoleInit => TaskPagesIInv
  BY TaskListInitKeeps, TaskDetailInitKeeps DEF ConsoleInit, TaskPagesIInv
<1>2. TaskPagesIInv /\ [ConsoleNext]_consoleVars => TaskPagesIInv'
  <2> SUFFICES ASSUME ListIInv, DetailIInv, [ConsoleNext]_consoleVars
               PROVE  ListIInv' /\ DetailIInv'
    BY DEF TaskPagesIInv
  <2>1. CASE OperationsView
    <3>1. TaskListNext /\ UNCHANGED pageOfTask /\ UNCHANGED retrying
      BY <2>1 DEF OperationsView, detailState
    <3>2. ListIInv' /\ TablesGrow BY <3>1, TaskListStepKeeps
    <3>3. retrying' \in Kinds \cup {NoTask} BY <3>1, DetailFacts
    <3>4. QED BY <3>1, <3>2, <3>3, TablesLeaveThePage
  <2>2. CASE TaskView
    <3>1. TaskDetailNext /\ UNCHANGED listVars BY <2>2 DEF TaskView, listState
    <3>2. DetailIInv' /\ TablesGrow BY <3>1, ListFacts, TaskDetailStepKeeps
    <3>3. QED BY <3>1, <3>2, TablesLeaveTheList
  <2>3. CASE UNCHANGED taskPagesVars
    <3>1. UNCHANGED serverTables /\ UNCHANGED listVars /\ UNCHANGED pageOfTask /\ UNCHANGED retrying
      BY <2>3 DEF taskPagesVars
    <3>2. TablesGrow BY <3>1, ListFacts, TablesStayGrow
    <3>3. retrying' \in Kinds \cup {NoTask} BY <3>1, DetailFacts
    <3>4. QED BY <3>1, <3>2, <3>3, TablesLeaveTheList, TablesLeaveThePage
  <2>4. QED
    BY <2>1, <2>2, <2>3 DEF ConsoleNext, MemoryView, TargetingView, SelectorView, consoleVars
<1>3. QED BY <1>1, <1>2, PTL DEF ConsoleSpec

\* The lists, the reads and the page of a task keep within their bounds, and each
\* task a page gets adds at most two reads or timeouts: TaskPagesInv.
THEOREM PollingIsBounded == ConsoleSpec => []TaskPagesInv
<1>1. TaskPagesIInv => TaskPagesInv BY DEF TaskPagesIInv, TaskPagesInv, ListIInv, DetailIInv
<1>2. QED BY <1>1, TaskPagesAreInductive, PTL
=============================================================================
