--------------------------- MODULE RegistryProofs ---------------------------
(***************************************************************************)
(* What Registry promises of names, identities and the list of instances,  *)
(* for any number of machines, requests, instances and failures.           *)
(***************************************************************************)
EXTENDS Registry, TLAPS, FiniteSetTheorems, SequenceTheorems

USE DEF vars, sidecarVars

(***************************************************************************)
(* The inductive invariant, in parts.                                      *)
(***************************************************************************)

\* A sidecar past enrollment has its token, an answered request its row.
TokensOK ==
  /\ \A h \in Hosts : proc[h] \in {"saving", "running"} => held[h] # NoToken
  /\ \A s \in Slots : req[s] # Idle => (req[s].at = "token" <=> req[s].row # NoToken)

\* What machine h holds, has saved or is about to be given.
Claims(h, i) ==
  \/ held[h] = i \/ file[h] = i
  \/ \E s \in Slots : req[s] # Idle /\ req[s].host = h /\ req[s].row = i

\* One name, or an operator has given one of the two.
Alike(m, n) == m = n \/ {m, n} \cap given # {}

\* A claimed row has the claimant's name or one that an operator gave; its
\* claimants share a name or an operator has given that of one of them.
ClaimsOK ==
  \A i \in Ids : \A g, h \in Hosts :
    /\ Claims(h, i) => rows[i] \in given \cup {HostName[h]}
    /\ (Claims(g, i) /\ Claims(h, i)) => Alike(HostName[g], HostName[h])

\* Names that only enrollment gives, one request after the other.
Enrolled == HostNames \ (raced \cup given)

\* Such a name has one row, or one request about to insert it.
NamesOK ==
  \A n \in Enrolled :
    /\ \A i, j \in Ids : rows[i] = n /\ rows[j] = n => i = j
    /\ \A s \in Slots : MissedBy(s) /\ NameOf(s) = n =>
         /\ \A i \in Ids : rows[i] # n
         /\ \A t \in Slots : MissedBy(t) /\ NameOf(t) = n => t = s

\* The walk has read the rows in place, whole pages as long as it goes on.
WalkOK ==
  /\ walk.total <= Len(rows) /\ walk.known \subseteq 1..walk.total
  /\ \A k \in DOMAIN walk.items : walk.items[k] = k
  /\ walk.page = 0 => walk.items = <<>>
  /\ walk.page # 0 => walk.counted
  /\ (walk.page # 0 /\ ~WalkDone) => Len(walk.items) = walk.page * PageSize

RegistryIInv == RegistryTypeOK /\ TokensOK /\ ClaimsOK /\ NamesOK /\ WalkOK

(***************************************************************************)
(* The operators.                                                          *)
(***************************************************************************)

LEMMA Requested ==
  ASSUME RegistryTypeOK, NEW s \in Slots, req[s] # Idle
  PROVE  /\ req[s] \in Requests
         /\ req[s].at \in {"select", "insert", "token"} /\ req[s].host \in Hosts
         /\ req[s].row \in Ids \cup {NoToken} /\ req[s].waited \in BOOLEAN
<1>1. req[s] \in Requests \cup {Idle} BY DEF RegistryTypeOK
<1>2. req[s] \in Requests BY <1>1
<1>3. QED BY <1>2 DEF Requests

LEMMA RowsType ==
  ASSUME RegistryTypeOK
  PROVE  /\ rows \in Seq(HostNames \cup NewNames) /\ Len(rows) \in Nat /\ Ids = 1..Len(rows)
         /\ \A i \in Ids : rows[i] \in HostNames \cup NewNames
BY DEF RegistryTypeOK, Ids

\* How many rows a page has: it is full, or it reaches the last row.
LEMMA PageRows ==
  ASSUME RegistryTypeOK, NEW p \in Nat
  PROVE  LET n == RowsOf(p + 1) IN
         /\ n \in Nat /\ p * PageSize \in Nat
         /\ n # 0 => p * PageSize + n <= Len(rows)
         /\ n = PageSize \/ p * PageSize + n >= Len(rows)
         /\ n = PageSize => p * PageSize + n = (p + 1) * PageSize
         /\ p * PageSize < Len(rows) => n # 0
<1> DEFINE q == p * PageSize
<1>1. PageSize \in Nat \ {0} BY RegistryAssumption
<1>2. q \in Nat BY <1>1, SMT
<1>3. (p + 1) * PageSize = q + PageSize BY <1>1, SMT
<1>4. ((p + 1) - 1) * PageSize = q BY <1>1, SMT
<1>5. RowsOf(p + 1) = IF q + PageSize <= Len(rows) THEN PageSize
                      ELSE IF q < Len(rows) THEN Len(rows) - q ELSE 0
  BY <1>3, <1>4 DEF RowsOf
<1>6. Len(rows) \in Nat BY RowsType
<1> HIDE DEF q
<1>7. /\ RowsOf(p + 1) \in Nat
      /\ RowsOf(p + 1) # 0 => q + RowsOf(p + 1) <= Len(rows)
      /\ RowsOf(p + 1) = PageSize \/ q + RowsOf(p + 1) >= Len(rows)
      /\ q < Len(rows) => RowsOf(p + 1) # 0
  BY <1>1, <1>2, <1>5, <1>6
<1>8. QED BY <1>2, <1>3, <1>7 DEF q

\* Page p + 1 lists the rows that follow the first p pages.
LEMMA PageRead ==
  ASSUME RegistryTypeOK, NEW p \in Nat
  PROVE  /\ Page(p + 1) \in Seq(Ids) /\ Len(Page(p + 1)) = RowsOf(p + 1)
         /\ \A k \in 1..RowsOf(p + 1) : Page(p + 1)[k] = p * PageSize + k
<1> DEFINE q == p * PageSize
<1>1. PageSize \in Nat \ {0} BY RegistryAssumption
<1>2. q \in Nat BY <1>1, SMT
<1>3. ((p + 1) - 1) * PageSize = q BY <1>1, SMT
<1>4. Page(p + 1) = [k \in 1..RowsOf(p + 1) |-> q + k] BY <1>3 DEF Page
<1>5. /\ RowsOf(p + 1) \in Nat
      /\ RowsOf(p + 1) # 0 => q + RowsOf(p + 1) <= Len(rows)
  BY PageRows
<1>6. Len(rows) \in Nat BY RowsType
<1> HIDE DEF q
<1>7. \A k \in 1..RowsOf(p + 1) : q + k \in Ids BY <1>2, <1>5, <1>6 DEF Ids
<1>8. Page(p + 1) \in [1..RowsOf(p + 1) -> Ids] BY <1>4, <1>7
<1>9. Page(p + 1) \in Seq(Ids) /\ Len(Page(p + 1)) = RowsOf(p + 1) BY <1>5, <1>8
<1>10. QED BY <1>4, <1>9 DEF q

(***************************************************************************)
(* Types and tokens.                                                       *)
(***************************************************************************)

LEMMA RegistryInit == Init => RegistryIInv
<1> SUFFICES ASSUME Init PROVE RegistryIInv OBVIOUS
<1> USE RegistryAssumption DEF Init
<1>1. Ids = {} /\ Len(rows) = 0 BY DEF Ids
<1>2. RegistryTypeOK BY <1>1 DEF RegistryTypeOK, NoWalk
<1>3. TokensOK
  <2>1. \A h \in Hosts : proc[h] = "off" OBVIOUS
  <2>2. \A s \in Slots : req[s] = Idle OBVIOUS
  <2>3. \A h \in Hosts : proc[h] \notin {"saving", "running"} BY <2>1
  <2>4. QED BY <2>2, <2>3 DEF TokensOK
<1>4. ClaimsOK /\ NamesOK BY <1>1 DEF ClaimsOK, NamesOK, MissedBy
<1>5. WalkOK BY <1>1 DEF WalkOK, NoWalk
<1>6. QED BY <1>2, <1>3, <1>4, <1>5 DEF RegistryIInv

\* Rows stay where they are, and a sequence of rows stays one.
LEMMA RowsKept ==
  ASSUME RegistryTypeOK, [Next]_vars
  PROVE  /\ rows' \in Seq(HostNames \cup NewNames)
         /\ Len(rows) <= Len(rows)' /\ Len(rows)' <= MaxRows
         /\ Ids \subseteq Ids' /\ Seq(Ids) \subseteq Seq(Ids')
<1> DEFINE Kept == /\ rows' \in Seq(HostNames \cup NewNames)
                   /\ Len(rows) <= Len(rows)' /\ Len(rows)' <= MaxRows
<1>1. /\ Len(rows) <= MaxRows /\ MaxRows \in Nat /\ Len(rows) \in Nat
      /\ rows \in Seq(HostNames \cup NewNames)
  BY RegistryAssumption, RowsType DEF RegistryTypeOK
<1>2. rows' = rows => Kept BY <1>1
<1>3. ASSUME NEW s \in Slots, EnrollInsert(s) PROVE Kept
  <2>1. NameOf(s) \in HostNames BY <1>3, Requested DEF NameOf, HostNames, EnrollInsert
  <2>2. rows' = Append(rows, NameOf(s)) /\ Len(rows) < MaxRows BY <1>3 DEF EnrollInsert
  <2>3. QED BY <1>1, <2>1, <2>2
<1>4. ASSUME NEW i \in Ids, NEW n \in NewNames, Rename(i, n) PROVE Kept
  <2>1. rows' = [rows EXCEPT ![i] = n] BY <1>4 DEF Rename
  <2>2. rows' \in Seq(HostNames \cup NewNames) /\ Len(rows') = Len(rows)
    BY <1>1, <2>1 DEF Ids
  <2>3. QED BY <1>1, <2>2
<1>5. Kept
  <2>1. CASE UNCHANGED vars BY <1>2, <2>1
  <2>2. ASSUME NEW h \in Hosts, Start(h) \/ SaveState(h) \/ SidecarEnds(h) \/ Heartbeat(h)
        PROVE  Kept
    BY <1>2, <2>2 DEF Start, SaveState, SidecarEnds, Heartbeat
  <2>3. ASSUME NEW s \in Slots, EnrollSelect(s) \/ EnrollAnswer(s) \/ EnrollFails(s) PROVE Kept
    BY <1>2, <2>3 DEF EnrollSelect, EnrollAnswer, EnrollFails
  <2>4. ASSUME NEW i \in Ids, HeartbeatEnds(i) PROVE Kept BY <1>2, <2>4 DEF HeartbeatEnds
  <2>5. CASE ListCount \/ ListFirst \/ ListNext \/ ListAgain
    BY <1>2, <2>5 DEF ListCount, ListFirst, ListNext, ListAgain
  <2>6. QED BY <1>3, <1>4, <2>1, <2>2, <2>3, <2>4, <2>5 DEF Next
<1>6. Ids \subseteq Ids'
  BY <1>1, <1>5 DEF Ids
<1>7. Seq(Ids) \subseteq Seq(Ids') BY <1>6
<1>8. QED BY <1>5, <1>6, <1>7

\* The parts of the state but the rows and the walk.
OthersOK ==
  /\ proc \in [Hosts -> {"off", "enrolling", "saving", "running"}]
  /\ held \in [Hosts -> Ids \cup {NoToken}] /\ file \in [Hosts -> Ids \cup {NoToken}]
  /\ req \in [Slots -> Requests \cup {Idle}]
  /\ raced \subseteq HostNames /\ given \subseteq NewNames /\ online \subseteq Ids
  /\ faults \in 0..MaxFaults

\* A step that leaves the walk alone needs to type those parts only.
LEMMA OthersSuffice ==
  ASSUME RegistryTypeOK, [Next]_vars, walk' = walk, OthersOK'
  PROVE  RegistryTypeOK'
<1> DEFINE Walks(I) == [counted : BOOLEAN, page : Nat, total : Nat,
                        items : Seq(I), known : SUBSET I]
<1>1. Ids \subseteq Ids' /\ Seq(Ids) \subseteq Seq(Ids') BY RowsKept
<1>2. Walks(Ids) \subseteq Walks(Ids') BY <1>1
<1>3. walk' \in Walks(Ids') BY <1>2 DEF RegistryTypeOK
<1>4. rows' \in Seq(HostNames \cup NewNames) /\ Len(rows)' <= MaxRows BY RowsKept
<1>5. QED BY <1>3, <1>4 DEF OthersOK, RegistryTypeOK

LEMMA SidecarTypes ==
  ASSUME RegistryIInv, NEW h \in Hosts,
         Start(h) \/ SaveState(h) \/ SidecarEnds(h) \/ Heartbeat(h)
  PROVE  OthersOK'
<1>1. RegistryTypeOK /\ TokensOK BY DEF RegistryIInv
<1>2. OthersOK BY <1>1 DEF RegistryTypeOK, OthersOK
<1>3. rows' = rows BY DEF Start, SaveState, SidecarEnds, Heartbeat
<1>4. Ids' = Ids /\ Requests' = Requests BY <1>3 DEF Ids, Requests
<1>5. CASE Start(h)
  <2>1. req' \in [Slots -> Requests \cup {Idle}]
    <3>1. [at |-> "select", host |-> h, row |-> NoToken, waited |-> TRUE] \in Requests
      BY DEF Requests
    <3>2. QED BY <1>2, <1>5, <3>1 DEF Start, OthersOK
  <2>2. proc' \in [Hosts -> {"off", "enrolling", "saving", "running"}]
    BY <1>2, <1>5 DEF Start, OthersOK
  <2>3. held' \in [Hosts -> Ids \cup {NoToken}] BY <1>2, <1>5 DEF Start, OthersOK
  <2>4. file' = file /\ raced' = raced /\ given' = given /\ online' = online /\ faults' = faults
    BY <1>5 DEF Start
  <2>5. QED BY <1>2, <1>4, <2>1, <2>2, <2>3, <2>4 DEF OthersOK
<1>6. CASE SaveState(h) BY <1>2, <1>4, <1>6 DEF SaveState, OthersOK
<1>7. CASE SidecarEnds(h)
  <2>1. ASSUME NEW s \in Slots PROVE Abandon(h)[s] \in Requests \cup {Idle}
    <3>1. CASE req[s] # Idle /\ req[s].host = h
      <4>1. req[s] \in Requests BY <1>1, <3>1, Requested
      <4>2. [req[s] EXCEPT !.waited = FALSE] \in Requests BY <4>1 DEF Requests
      <4>3. QED BY <3>1, <4>2 DEF Abandon
    <3>2. CASE ~(req[s] # Idle /\ req[s].host = h) BY <1>2, <3>2 DEF Abandon, OthersOK
    <3>3. QED BY <3>1, <3>2
  <2>2. req' \in [Slots -> Requests \cup {Idle}] BY <1>7, <2>1 DEF Abandon, SidecarEnds
  <2>3. faults' \in 0..MaxFaults BY <1>2, <1>7, RegistryAssumption DEF SidecarEnds, OthersOK
  <2>4. QED BY <1>2, <1>4, <1>7, <2>2, <2>3 DEF SidecarEnds, OthersOK
<1>8. CASE Heartbeat(h)
  <2>1. held[h] \in Ids BY <1>1, <1>2, <1>8 DEF Heartbeat, TokensOK, OthersOK
  <2>2. QED BY <1>2, <1>4, <1>8, <2>1 DEF Heartbeat, OthersOK
<1>9. QED BY <1>5, <1>6, <1>7, <1>8

LEMMA GoOnType ==
  ASSUME RegistryTypeOK, NEW s \in Slots, req[s] # Idle, Ids \subseteq Ids',
         NEW at \in {"select", "insert", "token"}, NEW row \in Ids' \cup {NoToken},
         GoOn(s, at, row)
  PROVE  req' \in [Slots -> Requests' \cup {Idle}]
<1>1. Requests \subseteq Requests' BY DEF Requests
<1>2. req \in [Slots -> Requests' \cup {Idle}] BY <1>1 DEF RegistryTypeOK
<1>3. req[s] \in Requests' BY <1>1, Requested
<1>4. [req[s] EXCEPT !.at = at, !.row = row] \in Requests' BY <1>3 DEF Requests
<1>5. req' = [req EXCEPT ![s] = [req[s] EXCEPT !.at = at, !.row = row]]
  BY <1>2 DEF GoOn
<1>6. QED BY <1>2, <1>4, <1>5

LEMMA EnrollTypes ==
  ASSUME RegistryIInv, [Next]_vars, NEW s \in Slots,
         EnrollSelect(s) \/ EnrollInsert(s) \/ EnrollAnswer(s) \/ EnrollFails(s)
  PROVE  RegistryTypeOK'
<1> USE RegistryAssumption DEF RegistryIInv
<1>1. Ids \subseteq Ids' /\ Seq(Ids) \subseteq Seq(Ids') /\ Len(rows)' <= MaxRows
      /\ rows' \in Seq(HostNames \cup NewNames)
  BY RowsKept
<1>2. req[s] # Idle BY DEF EnrollSelect, EnrollInsert, EnrollAnswer, EnrollFails
<1>3. req[s].host \in Hosts /\ req[s].row \in Ids \cup {NoToken} BY <1>2, Requested
<1>4. Requests \subseteq Requests' BY <1>1 DEF Requests
<1>5. CASE EnrollSelect(s)
  <2>1. req' \in [Slots -> Requests' \cup {Idle}]
    <3>1. CASE Named(NameOf(s)) = {} BY <1>1, <1>2, <1>5, <3>1, GoOnType DEF EnrollSelect
    <3>2. ASSUME NEW i \in Named(NameOf(s)), GoOn(s, "token", i)
          PROVE  req' \in [Slots -> Requests' \cup {Idle}]
      BY <1>1, <1>2, <3>2, GoOnType DEF Named
    <3>3. QED BY <1>5, <3>1, <3>2 DEF EnrollSelect
  <2>2. raced' \subseteq HostNames
    BY <1>3, <1>5 DEF EnrollSelect, NameOf, HostNames, RegistryTypeOK
  <2>3. QED BY <1>1, <1>5, <2>1, <2>2 DEF EnrollSelect, RegistryTypeOK, Ids
<1>6. CASE EnrollInsert(s)
  <2>1. rows' = Append(rows, NameOf(s)) /\ rows \in Seq(HostNames \cup NewNames)
    BY <1>6 DEF EnrollInsert, RegistryTypeOK
  <2>2. NameOf(s) \in HostNames BY <1>3 DEF NameOf, HostNames
  <2>3. Len(rows) + 1 \in Ids' BY <2>1, <2>2 DEF Ids
  <2>4. req' \in [Slots -> Requests' \cup {Idle}]
    BY <1>1, <1>2, <1>6, <2>3, GoOnType DEF EnrollInsert
  <2>5. QED BY <1>1, <1>6, <2>4 DEF EnrollInsert, RegistryTypeOK
<1>7. CASE EnrollAnswer(s) \/ EnrollFails(s)
  <2>1. Ids' = Ids /\ rows' = rows BY <1>7 DEF Ids, EnrollAnswer, EnrollFails
  <2>2. Requests' = Requests BY <2>1 DEF Requests
  <2>3. req' \in [Slots -> Requests' \cup {Idle}]
    BY <1>7, <2>2 DEF EnrollAnswer, EnrollFails, RegistryTypeOK
  <2>4. proc' \in [Hosts -> {"off", "enrolling", "saving", "running"}]
        /\ held' \in [Hosts -> Ids \cup {NoToken}]
    BY <1>3, <1>7 DEF EnrollAnswer, EnrollFails, RegistryTypeOK
  <2>5. faults' \in 0..MaxFaults BY <1>7 DEF EnrollAnswer, EnrollFails, RegistryTypeOK
  <2>6. QED BY <1>7, <2>1, <2>2, <2>3, <2>4, <2>5 DEF EnrollAnswer, EnrollFails, RegistryTypeOK
<1>8. QED BY <1>5, <1>6, <1>7

LEMMA WalkTypes ==
  ASSUME RegistryTypeOK, ListCount \/ ListFirst \/ ListNext \/ ListAgain
  PROVE  RegistryTypeOK'
<1> DEFINE Walks == [counted : BOOLEAN, page : Nat, total : Nat,
                     items : Seq(Ids), known : SUBSET Ids]
<1>1. /\ rows' = rows /\ proc' = proc /\ held' = held /\ file' = file /\ req' = req
      /\ raced' = raced /\ given' = given /\ online' = online /\ faults' = faults
  BY DEF ListCount, ListFirst, ListNext, ListAgain
<1>2. Ids' = Ids /\ Requests' = Requests BY <1>1 DEF Ids, Requests
<1>3. walk \in Walks /\ Len(rows) \in Nat BY RowsType DEF RegistryTypeOK
<1>4. walk' \in Walks
  <2>1. CASE ListCount BY <1>3, <2>1 DEF ListCount
  <2>2. CASE ListFirst
    <3>1. Page(0 + 1) \in Seq(Ids) BY PageRead
    <3>2. Page(1) \in Seq(Ids) BY <3>1
    <3>3. walk' = [walk EXCEPT !.page = 1, !.items = Page(1)] BY <2>2 DEF ListFirst
    <3>4. QED BY <1>3, <3>2, <3>3
  <2>3. CASE ListNext
    <3>1. Page(walk.page + 1) \in Seq(Ids) BY <1>3, PageRead
    <3>2. walk.items \o Page(walk.page + 1) \in Seq(Ids) BY <1>3, <3>1
    <3>3. PICK items \in Seq(Ids), total \in Nat :
            walk' = [walk EXCEPT !.page = walk.page + 1, !.items = items, !.total = total]
      <4>1. walk.total \in Nat BY <1>3
      <4>2. QED BY <2>3, <3>2, <4>1 DEF ListNext
    <3>4. walk.page + 1 \in Nat BY <1>3
    <3>5. QED BY <1>3, <3>3, <3>4
  <2>4. CASE ListAgain BY <2>4 DEF ListAgain, NoWalk
  <2>5. QED BY <2>1, <2>2, <2>3, <2>4
<1>5. QED BY <1>1, <1>2, <1>4 DEF RegistryTypeOK

LEMMA TypeStep == ASSUME RegistryIInv, [Next]_vars PROVE RegistryTypeOK'
<1>1. RegistryTypeOK /\ OthersOK BY DEF RegistryIInv, RegistryTypeOK, OthersOK
<1>2. CASE UNCHANGED vars
  BY <1>1, <1>2, OthersSuffice DEF OthersOK, Ids, Requests
<1>3. ASSUME NEW h \in Hosts, Start(h) \/ SaveState(h) \/ SidecarEnds(h) \/ Heartbeat(h)
      PROVE  RegistryTypeOK'
  <2>1. walk' = walk BY <1>3 DEF Start, SaveState, SidecarEnds, Heartbeat
  <2>2. OthersOK' BY <1>3, SidecarTypes
  <2>3. QED BY <1>1, <2>1, <2>2, OthersSuffice
<1>4. ASSUME NEW s \in Slots,
             EnrollSelect(s) \/ EnrollInsert(s) \/ EnrollAnswer(s) \/ EnrollFails(s)
      PROVE  RegistryTypeOK'
  BY <1>4, EnrollTypes
<1>5. ASSUME NEW i \in Ids, HeartbeatEnds(i) PROVE RegistryTypeOK'
  <2>1. OthersOK' BY <1>1, <1>5 DEF HeartbeatEnds, OthersOK, Ids, Requests
  <2>2. QED BY <1>1, <1>5, <2>1, OthersSuffice DEF HeartbeatEnds
<1>6. ASSUME NEW i \in Ids, NEW n \in NewNames, Rename(i, n) PROVE RegistryTypeOK'
  <2>1. rows \in Seq(HostNames \cup NewNames) BY <1>1, RowsType
  <2>2. Len(rows') = Len(rows) BY <1>6, <2>1 DEF Rename
  <2>3. Ids' = Ids BY <2>2 DEF Ids
  <2>4. OthersOK' BY <1>1, <1>6, <2>3 DEF Rename, OthersOK, Requests
  <2>5. QED BY <1>1, <1>6, <2>4, OthersSuffice DEF Rename
<1>7. CASE ListCount \/ ListFirst \/ ListNext \/ ListAgain BY <1>1, <1>7, WalkTypes
<1>8. QED BY <1>2, <1>3, <1>4, <1>5, <1>6, <1>7 DEF Next

LEMMA TokensStep == ASSUME RegistryIInv, [Next]_vars PROVE TokensOK'
<1>1. RegistryTypeOK /\ TokensOK BY DEF RegistryIInv
<1>2. /\ proc \in [Hosts -> {"off", "enrolling", "saving", "running"}]
      /\ held \in [Hosts -> Ids \cup {NoToken}]
      /\ req \in [Slots -> Requests \cup {Idle}]
  BY <1>1 DEF RegistryTypeOK
<1>3. NoToken \notin Ids /\ NoToken # Len(rows) + 1
  BY <1>1, RowsType, RegistryAssumption
<1>4. CASE proc' = proc /\ held' = held /\ req' = req BY <1>1, <1>4 DEF TokensOK
<1>5. ASSUME NEW h \in Hosts, Start(h) \/ SaveState(h) \/ SidecarEnds(h) PROVE TokensOK'
  <2>1. CASE Start(h)
    <3>1. CASE MustEnroll(h)
      <4>1. PICK s \in Slots :
              req' = [req EXCEPT ![s] = [at |-> "select", host |-> h,
                                         row |-> NoToken, waited |-> TRUE]]
        BY <2>1, <3>1 DEF Start
      <4>2. \A t \in Slots : req'[t] # Idle => (req'[t].at = "token" <=> req'[t].row # NoToken)
        BY <1>1, <1>2, <4>1 DEF TokensOK
      <4>3. \A g \in Hosts : proc'[g] \in {"saving", "running"} => held'[g] # NoToken
        BY <1>1, <1>2, <2>1, <3>1 DEF Start, TokensOK
      <4>4. QED BY <4>2, <4>3 DEF TokensOK
    <3>2. CASE ~MustEnroll(h)
      <4>1. file[h] # NoToken BY <3>2 DEF MustEnroll
      <4>2. QED BY <1>1, <1>2, <2>1, <3>2, <4>1 DEF Start, TokensOK
    <3>3. QED BY <3>1, <3>2
  <2>2. CASE SaveState(h) BY <1>1, <1>2, <2>2 DEF SaveState, TokensOK
  <2>3. CASE SidecarEnds(h)
    <3>1. ASSUME NEW s \in Slots, req'[s] # Idle
          PROVE  req[s] # Idle /\ req'[s].at = req[s].at /\ req'[s].row = req[s].row
      <4>1. req[s] # Idle BY <1>2, <2>3, <3>1 DEF SidecarEnds, Abandon
      <4>2. req[s] \in Requests BY <1>1, <4>1, Requested
      <4>3. /\ [req[s] EXCEPT !.waited = FALSE].at = req[s].at
            /\ [req[s] EXCEPT !.waited = FALSE].row = req[s].row
        BY <4>2 DEF Requests
      <4>4. QED BY <2>3, <4>1, <4>3 DEF SidecarEnds, Abandon
    <3>2. QED BY <1>1, <1>2, <2>3, <3>1 DEF SidecarEnds, TokensOK
  <2>4. QED BY <1>5, <2>1, <2>2, <2>3
<1>6. ASSUME NEW s \in Slots, req[s] # Idle, NEW at, NEW row, GoOn(s, at, row),
             at = "token" <=> row # NoToken, proc' = proc, held' = held
      PROVE  TokensOK'
  <2>1. req[s] \in Requests BY <1>1, <1>6, Requested
  <2>2. /\ [req[s] EXCEPT !.at = at, !.row = row].at = at
        /\ [req[s] EXCEPT !.at = at, !.row = row].row = row
    BY <2>1 DEF Requests
  <2>3. req' = [req EXCEPT ![s] = [req[s] EXCEPT !.at = at, !.row = row]]
    BY <1>2, <1>6 DEF GoOn
  <2>4. \A t \in Slots : req'[t] # Idle => (req'[t].at = "token" <=> req'[t].row # NoToken)
    BY <1>1, <1>2, <1>6, <2>2, <2>3 DEF TokensOK
  <2>5. QED BY <1>1, <1>6, <2>4 DEF TokensOK
<1>7. ASSUME NEW s \in Slots, EnrollSelect(s) PROVE TokensOK'
  <2>1. CASE Named(NameOf(s)) = {} BY <1>6, <1>7, <2>1 DEF EnrollSelect
  <2>2. CASE Named(NameOf(s)) # {}
    <3>1. PICK i \in Named(NameOf(s)) : GoOn(s, "token", i) BY <1>7, <2>2 DEF EnrollSelect
    <3>2. i # NoToken BY <1>3 DEF Named
    <3>3. QED BY <1>6, <1>7, <3>1, <3>2 DEF EnrollSelect
  <2>3. QED BY <2>1, <2>2
<1>8. ASSUME NEW s \in Slots, EnrollInsert(s) PROVE TokensOK'
  BY <1>3, <1>6, <1>8 DEF EnrollInsert
<1>9. ASSUME NEW s \in Slots, EnrollAnswer(s) \/ EnrollFails(s) PROVE TokensOK'
  <2>1. req[s] # Idle /\ req' = [req EXCEPT ![s] = Idle]
    BY <1>9 DEF EnrollAnswer, EnrollFails
  <2>2. \A t \in Slots : req'[t] # Idle => (req'[t].at = "token" <=> req'[t].row # NoToken)
    BY <1>1, <1>2, <2>1 DEF TokensOK
  <2>3. req[s].host \in Hosts BY <1>1, <2>1, Requested
  <2>4. \A g \in Hosts : proc'[g] \in {"saving", "running"} => held'[g] # NoToken
    <3>1. CASE EnrollAnswer(s)
      <4>1. req[s].row # NoToken BY <1>1, <3>1 DEF EnrollAnswer, TokensOK
      <4>2. QED BY <1>1, <1>2, <2>3, <3>1, <4>1 DEF EnrollAnswer, TokensOK
    <3>2. CASE EnrollFails(s) BY <1>1, <1>2, <2>3, <3>2 DEF EnrollFails, TokensOK
    <3>3. QED BY <1>9, <3>1, <3>2
  <2>5. QED BY <2>2, <2>4 DEF TokensOK
<1>10. QED
  <2>1. ASSUME NEW h \in Hosts, Heartbeat(h) PROVE TokensOK' BY <1>4, <2>1 DEF Heartbeat
  <2>2. ASSUME NEW i \in Ids, HeartbeatEnds(i) \/ \E n \in NewNames : Rename(i, n)
        PROVE  TokensOK'
    BY <1>4, <2>2 DEF HeartbeatEnds, Rename
  <2>3. CASE ListCount \/ ListFirst \/ ListNext \/ ListAgain
    BY <1>4, <2>3 DEF ListCount, ListFirst, ListNext, ListAgain
  <2>4. CASE UNCHANGED vars BY <1>4, <2>4
  <2>5. QED BY <1>5, <1>7, <1>8, <1>9, <2>1, <2>2, <2>3, <2>4 DEF Next

(***************************************************************************)
(* Identities.                                                             *)
(***************************************************************************)

\* A request that goes on claims the row it goes on with, and nothing else is new.
LEMMA GoOnClaims ==
  ASSUME RegistryTypeOK, NEW s \in Slots, req[s] # Idle, NEW at, NEW row, GoOn(s, at, row),
         held' = held, file' = file, NEW h \in Hosts, NEW i, Claims(h, i)'
  PROVE  Claims(h, i) \/ (h = req[s].host /\ i = row)
<1>1. req \in [Slots -> Requests \cup {Idle}] /\ req[s] \in Requests
  BY Requested DEF RegistryTypeOK
<1>2. /\ [req[s] EXCEPT !.at = at, !.row = row].host = req[s].host
      /\ [req[s] EXCEPT !.at = at, !.row = row].row = row
  BY <1>1 DEF Requests
<1>3. req' = [req EXCEPT ![s] = [req[s] EXCEPT !.at = at, !.row = row]]
  BY <1>1 DEF GoOn
<1>4. QED BY <1>1, <1>2, <1>3 DEF Claims

LEMMA FewerClaims ==
  ASSUME ClaimsOK, rows' = rows, given' = given,
         \A h \in Hosts, i \in Ids : Claims(h, i)' => Claims(h, i)
  PROVE  ClaimsOK'
<1>1. Ids' = Ids BY DEF Ids
<1>2. QED BY <1>1 DEF ClaimsOK, Alike

LEMMA SidecarClaims ==
  ASSUME RegistryTypeOK, NEW g \in Hosts, Start(g) \/ SaveState(g) \/ SidecarEnds(g),
         NEW h \in Hosts, NEW i \in Ids, Claims(h, i)'
  PROVE  Claims(h, i)
<1>1. /\ req \in [Slots -> Requests \cup {Idle}]
      /\ held \in [Hosts -> Ids \cup {NoToken}] /\ file \in [Hosts -> Ids \cup {NoToken}]
  BY DEF RegistryTypeOK
<1>2. i # NoToken BY RowsType, RegistryAssumption
<1>3. CASE Start(g)
  <2>1. CASE MustEnroll(g)
    <3>1. PICK s \in Slots :
            req' = [req EXCEPT ![s] = [at |-> "select", host |-> g,
                                       row |-> NoToken, waited |-> TRUE]]
      BY <1>3, <2>1 DEF Start
    <3>2. held' = held /\ file' = file BY <1>3, <2>1 DEF Start
    <3>3. QED BY <1>1, <1>2, <3>1, <3>2 DEF Claims
  <2>2. CASE ~MustEnroll(g) BY <1>1, <1>3, <2>2 DEF Start, Claims
  <2>3. QED BY <2>1, <2>2
<1>4. CASE SaveState(g) BY <1>1, <1>4 DEF SaveState, Claims
<1>5. CASE SidecarEnds(g)
  <2>1. ASSUME NEW s \in Slots, req'[s] # Idle
        PROVE  req[s] # Idle /\ req'[s].host = req[s].host /\ req'[s].row = req[s].row
    <3>1. req[s] # Idle BY <1>1, <1>5, <2>1 DEF SidecarEnds, Abandon
    <3>2. req[s] \in Requests BY <3>1, Requested
    <3>3. /\ [req[s] EXCEPT !.waited = FALSE].host = req[s].host
          /\ [req[s] EXCEPT !.waited = FALSE].row = req[s].row
      BY <3>2 DEF Requests
    <3>4. QED BY <1>5, <3>1, <3>3 DEF SidecarEnds, Abandon
  <2>2. held' = [held EXCEPT ![g] = NoToken] /\ file' = file BY <1>5 DEF SidecarEnds
  <2>3. QED BY <1>1, <1>2, <2>1, <2>2 DEF Claims
<1>6. QED BY <1>3, <1>4, <1>5

LEMMA ClaimsStep == ASSUME RegistryIInv, [Next]_vars PROVE ClaimsOK'
<1>1. RegistryTypeOK /\ ClaimsOK BY DEF RegistryIInv
<1>2. /\ req \in [Slots -> Requests \cup {Idle}]
      /\ held \in [Hosts -> Ids \cup {NoToken}] /\ file \in [Hosts -> Ids \cup {NoToken}]
  BY <1>1 DEF RegistryTypeOK
<1>3. Ids = 1..Len(rows) /\ Len(rows) \in Nat /\ NoToken \notin Nat
  BY <1>1, RowsType, RegistryAssumption
<1>4. CASE rows' = rows /\ given' = given /\ held' = held /\ file' = file /\ req' = req
  BY <1>1, <1>4, FewerClaims DEF Claims
<1>5. ASSUME NEW h \in Hosts, Start(h) \/ SaveState(h) \/ SidecarEnds(h) PROVE ClaimsOK'
  <2>1. rows' = rows /\ given' = given BY <1>5 DEF Start, SaveState, SidecarEnds
  <2>2. QED BY <1>1, <1>5, <2>1, FewerClaims, SidecarClaims
<1>6. ASSUME NEW s \in Slots, EnrollSelect(s) PROVE ClaimsOK'
  <2>1. req[s] # Idle /\ rows' = rows /\ given' = given /\ held' = held /\ file' = file
    BY <1>6 DEF EnrollSelect
  <2>2. CASE Named(NameOf(s)) = {}
    <3>1. GoOn(s, "insert", NoToken) BY <1>6, <2>2 DEF EnrollSelect
    <3>2. QED BY <1>1, <1>3, <2>1, <3>1, FewerClaims, GoOnClaims
  <2>3. CASE Named(NameOf(s)) # {}
    <3>1. PICK i \in Named(NameOf(s)) : GoOn(s, "token", i) BY <1>6, <2>3 DEF EnrollSelect
    <3>2. req[s].host \in Hosts BY <1>1, <2>1, Requested
    <3>3. i \in Ids /\ rows[i] = HostName[req[s].host] BY DEF Named, NameOf
    <3>4. \A h \in Hosts : Claims(h, i) => rows[i] \in given \cup {HostName[h]}
      BY <1>1, <3>3 DEF ClaimsOK
    <3>5. \A h \in Hosts : Claims(h, i) => /\ Alike(HostName[h], HostName[req[s].host])
                                          /\ Alike(HostName[req[s].host], HostName[h])
      BY <3>3, <3>4 DEF Alike
    <3>6. \A h \in Hosts, j \in Ids : Claims(h, j)' =>
            Claims(h, j) \/ (h = req[s].host /\ j = i)
      BY <1>1, <2>1, <3>1, GoOnClaims
    <3>7. Ids' = Ids BY <2>1 DEF Ids
    <3>8. ASSUME NEW j \in Ids, NEW g \in Hosts, NEW h \in Hosts
          PROVE  /\ Claims(h, j)' => rows[j] \in given \cup {HostName[h]}
                 /\ (Claims(g, j)' /\ Claims(h, j)') => Alike(HostName[g], HostName[h])
      <4>1. CASE j = i
        <5>1. Alike(HostName[req[s].host], HostName[req[s].host]) BY DEF Alike
        <5>2. (Claims(g, i) /\ Claims(h, i)) => Alike(HostName[g], HostName[h])
          BY <1>1, <3>3 DEF ClaimsOK
        <5>3. QED BY <3>3, <3>4, <3>5, <3>6, <4>1, <5>1, <5>2
      <4>2. CASE j # i BY <1>1, <3>6, <4>2 DEF ClaimsOK
      <4>3. QED BY <4>1, <4>2
    <3>9. QED BY <2>1, <3>7, <3>8 DEF ClaimsOK, Alike
  <2>4. QED BY <2>2, <2>3
<1>7. ASSUME NEW s \in Slots, EnrollInsert(s) PROVE ClaimsOK'
  <2>1. /\ req[s] # Idle /\ held' = held /\ file' = file /\ given' = given
        /\ rows' = Append(rows, NameOf(s)) /\ GoOn(s, "token", Len(rows) + 1)
    BY <1>7 DEF EnrollInsert
  <2> DEFINE new == Len(rows) + 1
  <2>2. \A h \in Hosts : ~Claims(h, new)
    <3>1. new \notin Ids \cup {NoToken} BY <1>3
    <3>2. \A t \in Slots : req[t] # Idle => req[t].row \in Ids \cup {NoToken}
      BY <1>1, Requested
    <3>3. QED BY <1>2, <3>1, <3>2 DEF Claims
  <2>3. \A h \in Hosts, j \in Ids' : Claims(h, j)' =>
          Claims(h, j) \/ (h = req[s].host /\ j = new)
    BY <1>1, <2>1, GoOnClaims
  <2>4. /\ Ids' = Ids \cup {new} /\ new \notin Ids /\ rows'[new] = HostName[req[s].host]
        /\ \A j \in Ids : rows'[j] = rows[j]
    <3>1. rows \in Seq(HostNames \cup NewNames) BY <1>1, RowsType
    <3>2. Len(rows') = Len(rows) + 1 /\ rows'[new] = NameOf(s)
          /\ \A j \in 1..Len(rows) : rows'[j] = rows[j]
      BY <2>1, <3>1
    <3>3. QED BY <1>3, <3>2 DEF Ids, NameOf
  <2> HIDE DEF new
  <2>5. ASSUME NEW j \in Ids', NEW g \in Hosts, NEW h \in Hosts
        PROVE  /\ Claims(h, j)' => rows'[j] \in given \cup {HostName[h]}
               /\ (Claims(g, j)' /\ Claims(h, j)') => Alike(HostName[g], HostName[h])
    <3>1. CASE j = new BY <2>2, <2>3, <2>4, <3>1 DEF Alike
    <3>2. CASE j # new BY <1>1, <2>3, <2>4, <3>2 DEF ClaimsOK
    <3>3. QED BY <3>1, <3>2
  <2>6. QED BY <2>1, <2>5 DEF ClaimsOK, Alike
<1>8. ASSUME NEW s \in Slots, EnrollAnswer(s) \/ EnrollFails(s) PROVE ClaimsOK'
  <2>1. /\ rows' = rows /\ given' = given /\ file' = file
        /\ req[s] # Idle /\ req' = [req EXCEPT ![s] = Idle]
    BY <1>8 DEF EnrollAnswer, EnrollFails
  <2>2. held' = held \/ held' = [held EXCEPT ![req[s].host] = req[s].row]
    BY <1>8 DEF EnrollAnswer, EnrollFails
  <2>3. \A h \in Hosts, i \in Ids : Claims(h, i)' => Claims(h, i)
    BY <1>2, <2>1, <2>2 DEF Claims
  <2>4. QED BY <1>1, <2>1, <2>3, FewerClaims
<1>9. ASSUME NEW k \in Ids, NEW n \in NewNames, Rename(k, n) PROVE ClaimsOK'
  <2>1. /\ rows' = [rows EXCEPT ![k] = n] /\ given' = given \cup {n}
        /\ held' = held /\ file' = file /\ req' = req
    BY <1>9 DEF Rename
  <2>2. \A h \in Hosts, i \in Ids : Claims(h, i)' = Claims(h, i) BY <2>1 DEF Claims
  <2>3. rows \in Seq(HostNames \cup NewNames) BY <1>1, RowsType
  <2>4. /\ Len(rows') = Len(rows)
        /\ \A i \in Ids : rows'[i] = IF i = k THEN n ELSE rows[i]
    BY <1>3, <2>1, <2>3
  <2>5. Ids' = Ids BY <2>4 DEF Ids
  <2>6. \A l, m : Alike(l, m) => Alike(l, m)' BY <2>1 DEF Alike
  <2>7. \A h \in Hosts, i \in Ids : Claims(h, i) => rows'[i] \in given' \cup {HostName[h]}
    BY <1>1, <2>1, <2>4 DEF ClaimsOK
  <2>8. \A g, h \in Hosts, i \in Ids :
          (Claims(g, i) /\ Claims(h, i)) => Alike(HostName[g], HostName[h])'
    BY <1>1, <2>6 DEF ClaimsOK
  <2>9. QED BY <2>2, <2>5, <2>7, <2>8 DEF ClaimsOK
<1>10. QED
  <2>1. ASSUME NEW h \in Hosts, Heartbeat(h) PROVE ClaimsOK' BY <1>4, <2>1 DEF Heartbeat
  <2>2. ASSUME NEW i \in Ids, HeartbeatEnds(i) PROVE ClaimsOK'
    BY <1>4, <2>2 DEF HeartbeatEnds
  <2>3. CASE ListCount \/ ListFirst \/ ListNext \/ ListAgain
    BY <1>4, <2>3 DEF ListCount, ListFirst, ListNext, ListAgain
  <2>4. CASE UNCHANGED vars BY <1>4, <2>4
  <2>5. QED BY <1>5, <1>6, <1>7, <1>8, <1>9, <2>1, <2>2, <2>3, <2>4 DEF Next

(***************************************************************************)
(* Names.                                                                  *)
(***************************************************************************)

LEMMA FewerMisses ==
  ASSUME NamesOK, rows' = rows, raced' = raced, given' = given,
         \A s \in Slots : MissedBy(s)' => MissedBy(s) /\ NameOf(s)' = NameOf(s)
  PROVE  NamesOK'
<1>1. Ids' = Ids BY DEF Ids
<1>2. QED BY <1>1 DEF NamesOK, Enrolled

\* A request keeps its machine; the others are not touched.
LEMMA GoOnMisses ==
  ASSUME RegistryTypeOK, NEW s \in Slots, req[s] # Idle, NEW at, NEW row, GoOn(s, at, row)
  PROVE  /\ \A t \in Slots : NameOf(t)' = NameOf(t)
         /\ \A t \in Slots \ {s} : MissedBy(t)' = MissedBy(t)
         /\ MissedBy(s)' => at = "insert"
<1>1. req \in [Slots -> Requests \cup {Idle}] /\ req[s] \in Requests
  BY Requested DEF RegistryTypeOK
<1>2. /\ [req[s] EXCEPT !.at = at, !.row = row].host = req[s].host
      /\ [req[s] EXCEPT !.at = at, !.row = row].at = at
  BY <1>1 DEF Requests
<1>3. req' = [req EXCEPT ![s] = [req[s] EXCEPT !.at = at, !.row = row]]
  BY <1>1 DEF GoOn
<1>4. QED BY <1>1, <1>2, <1>3 DEF MissedBy, NameOf

LEMMA SidecarMisses ==
  ASSUME RegistryTypeOK, NEW g \in Hosts, Start(g) \/ SaveState(g) \/ SidecarEnds(g),
         NEW s \in Slots, MissedBy(s)'
  PROVE  MissedBy(s) /\ NameOf(s)' = NameOf(s)
<1>1. req \in [Slots -> Requests \cup {Idle}] BY DEF RegistryTypeOK
<1>2. CASE req' = req BY <1>2 DEF MissedBy, NameOf
<1>3. ASSUME Start(g), NEW t \in Slots,
             req' = [req EXCEPT ![t] = [at |-> "select", host |-> g,
                                        row |-> NoToken, waited |-> TRUE]]
      PROVE  MissedBy(s) /\ NameOf(s)' = NameOf(s)
  BY <1>1, <1>3 DEF MissedBy, NameOf
<1>4. CASE SidecarEnds(g)
  <2>1. req'[s] # Idle BY DEF MissedBy
  <2>2. req[s] # Idle BY <1>1, <1>4, <2>1 DEF SidecarEnds, Abandon
  <2>3. req[s] \in Requests BY <2>2, Requested
  <2>4. /\ [req[s] EXCEPT !.waited = FALSE].host = req[s].host
        /\ [req[s] EXCEPT !.waited = FALSE].at = req[s].at
        /\ [req[s] EXCEPT !.waited = FALSE].row = req[s].row
    BY <2>3 DEF Requests
  <2>5. req'[s].host = req[s].host /\ req'[s].at = req[s].at /\ req'[s].row = req[s].row
    BY <1>4, <2>2, <2>4 DEF SidecarEnds, Abandon
  <2>6. QED BY <2>2, <2>5 DEF MissedBy, NameOf
<1>5. QED BY <1>2, <1>3, <1>4 DEF Start, SaveState

LEMMA NamesStep == ASSUME RegistryIInv, [Next]_vars PROVE NamesOK'
<1>1. RegistryTypeOK /\ NamesOK /\ TokensOK BY DEF RegistryIInv
<1>2. Ids = 1..Len(rows) /\ Len(rows) \in Nat /\ rows \in Seq(HostNames \cup NewNames)
  BY <1>1, RowsType
<1>3. CASE rows' = rows /\ raced' = raced /\ given' = given /\ req' = req
  BY <1>1, <1>3, FewerMisses DEF MissedBy, NameOf
<1>4. ASSUME NEW h \in Hosts, Start(h) \/ SaveState(h) \/ SidecarEnds(h) PROVE NamesOK'
  <2>1. rows' = rows /\ raced' = raced /\ given' = given BY <1>4 DEF Start, SaveState, SidecarEnds
  <2>2. QED BY <1>1, <1>4, <2>1, FewerMisses, SidecarMisses
<1>5. ASSUME NEW s \in Slots, EnrollSelect(s) PROVE NamesOK'
  <2>1. req[s] # Idle /\ rows' = rows /\ given' = given /\ Ids' = Ids BY <1>5 DEF EnrollSelect, Ids
  <2>2. CASE Named(NameOf(s)) = {}
    <3>1. GoOn(s, "insert", NoToken) BY <1>5, <2>2 DEF EnrollSelect
    <3>2. raced' = IF \E t \in Slots \ {s} : MissedBy(t) /\ NameOf(t) = NameOf(s)
                   THEN raced \cup {NameOf(s)} ELSE raced
      BY <1>5, <2>2 DEF EnrollSelect
    <3>3. /\ \A t \in Slots : NameOf(t)' = NameOf(t)
          /\ \A t \in Slots \ {s} : MissedBy(t)' = MissedBy(t)
      BY <1>1, <2>1, <3>1, GoOnMisses
    <3>4. \A i \in Ids : rows[i] # NameOf(s) BY <2>2 DEF Named
    <3>5. ASSUME NEW n \in Enrolled', NEW t \in Slots, MissedBy(t)', NameOf(t) = n
          PROVE  /\ \A i \in Ids : rows[i] # n
                 /\ \A u \in Slots : MissedBy(u)' /\ NameOf(u) = n => u = t
      <4>1. n \in Enrolled BY <2>1, <3>2 DEF Enrolled
      <4>2. CASE n = NameOf(s)
        <5>1. \A u \in Slots \ {s} : ~(MissedBy(u) /\ NameOf(u) = n)
          BY <3>2, <3>5, <4>2 DEF Enrolled
        <5>2. QED BY <3>3, <3>4, <3>5, <4>2, <5>1
      <4>3. CASE n # NameOf(s) BY <1>1, <3>3, <3>5, <4>1, <4>3 DEF NamesOK
      <4>4. QED BY <4>2, <4>3
    <3>6. \A n \in Enrolled' : \A i, j \in Ids : rows[i] = n /\ rows[j] = n => i = j
      BY <1>1, <2>1, <3>2 DEF NamesOK, Enrolled
    <3>7. QED BY <2>1, <3>3, <3>5, <3>6 DEF NamesOK
  <2>3. CASE Named(NameOf(s)) # {}
    <3>1. PICK i \in Named(NameOf(s)) : GoOn(s, "token", i) /\ raced' = raced
      BY <1>5, <2>3 DEF EnrollSelect
    <3>2. \A t \in Slots : MissedBy(t)' => MissedBy(t) /\ NameOf(t)' = NameOf(t)
      BY <1>1, <2>1, <3>1, GoOnMisses
    <3>3. QED BY <1>1, <2>1, <3>1, <3>2, FewerMisses
  <2>4. QED BY <2>2, <2>3
<1>6. ASSUME NEW s \in Slots, EnrollInsert(s) PROVE NamesOK'
  <2>1. /\ req[s] # Idle /\ req[s].at = "insert" /\ raced' = raced /\ given' = given
        /\ rows' = Append(rows, NameOf(s)) /\ GoOn(s, "token", Len(rows) + 1)
    BY <1>6 DEF EnrollInsert
  <2> DEFINE new == Len(rows) + 1
  <2>2. MissedBy(s) BY <1>1, <2>1 DEF MissedBy, TokensOK
  <2>3. /\ Ids' = Ids \cup {new} /\ new \notin Ids /\ rows'[new] = NameOf(s)
        /\ \A i \in Ids : rows'[i] = rows[i]
    <3>1. NameOf(s) \in HostNames BY <1>1, <2>1, Requested DEF NameOf, HostNames
    <3>2. Len(rows') = Len(rows) + 1 /\ rows'[new] = NameOf(s)
          /\ \A j \in 1..Len(rows) : rows'[j] = rows[j]
      BY <1>2, <2>1, <3>1
    <3>3. QED BY <1>2, <3>2 DEF Ids
  <2> HIDE DEF new
  <2>4. /\ \A t \in Slots : NameOf(t)' = NameOf(t)
        /\ \A t \in Slots : MissedBy(t)' => t # s /\ MissedBy(t)
    BY <1>1, <2>1, GoOnMisses
  <2>5. ASSUME NEW n \in Enrolled, NEW i \in Ids', NEW j \in Ids',
               rows'[i] = n, rows'[j] = n
        PROVE  i = j
    <3>1. CASE n = NameOf(s)
      <4>1. \A k \in Ids : rows[k] # n BY <1>1, <2>2, <3>1 DEF NamesOK
      <4>2. QED BY <2>3, <2>5, <4>1
    <3>2. CASE n # NameOf(s) BY <1>1, <2>3, <2>5, <3>2 DEF NamesOK
    <3>3. QED BY <3>1, <3>2
  <2>6. ASSUME NEW n \in Enrolled, NEW t \in Slots, MissedBy(t)', NameOf(t) = n
        PROVE  /\ \A i \in Ids' : rows'[i] # n
               /\ \A u \in Slots : MissedBy(u)' /\ NameOf(u) = n => u = t
    <3>1. t # s /\ MissedBy(t) BY <2>4, <2>6
    <3>2. n # NameOf(s) BY <1>1, <2>2, <2>6, <3>1 DEF NamesOK
    <3>3. QED BY <1>1, <2>3, <2>4, <2>6, <3>1, <3>2 DEF NamesOK
  <2>7. QED BY <2>1, <2>4, <2>5, <2>6 DEF NamesOK, Enrolled
<1>7. ASSUME NEW s \in Slots, EnrollAnswer(s) \/ EnrollFails(s) PROVE NamesOK'
  <2>1. rows' = rows /\ raced' = raced /\ given' = given /\ req' = [req EXCEPT ![s] = Idle]
    BY <1>7 DEF EnrollAnswer, EnrollFails
  <2>2. req \in [Slots -> Requests \cup {Idle}] BY <1>1 DEF RegistryTypeOK
  <2>3. \A t \in Slots : MissedBy(t)' => MissedBy(t) /\ NameOf(t)' = NameOf(t)
    BY <2>1, <2>2 DEF MissedBy, NameOf
  <2>4. QED BY <1>1, <2>1, <2>3, FewerMisses
<1>8. ASSUME NEW k \in Ids, NEW n \in NewNames, Rename(k, n) PROVE NamesOK'
  <2>1. /\ rows' = [rows EXCEPT ![k] = n] /\ given' = given \cup {n}
        /\ raced' = raced /\ req' = req
    BY <1>8 DEF Rename
  <2>2. \A t \in Slots : MissedBy(t)' = MissedBy(t) /\ NameOf(t)' = NameOf(t)
    BY <2>1 DEF MissedBy, NameOf
  <2>3. Len(rows') = Len(rows) /\ \A i \in Ids : rows'[i] = IF i = k THEN n ELSE rows[i]
    BY <1>2, <2>1
  <2>4. Ids' = Ids BY <2>3 DEF Ids
  <2>5. \A m \in Enrolled' : m \in Enrolled /\ m # n BY <2>1 DEF Enrolled
  <2>6. \A m \in Enrolled', i \in Ids : rows'[i] = m => rows[i] = m BY <2>3, <2>5
  <2>7. QED BY <1>1, <2>2, <2>4, <2>5, <2>6 DEF NamesOK
<1>9. QED
  <2>1. ASSUME NEW h \in Hosts, Heartbeat(h) PROVE NamesOK' BY <1>3, <2>1 DEF Heartbeat
  <2>2. ASSUME NEW i \in Ids, HeartbeatEnds(i) PROVE NamesOK'
    BY <1>3, <2>2 DEF HeartbeatEnds
  <2>3. CASE ListCount \/ ListFirst \/ ListNext \/ ListAgain
    BY <1>3, <2>3 DEF ListCount, ListFirst, ListNext, ListAgain
  <2>4. CASE UNCHANGED vars BY <1>3, <2>4
  <2>5. QED BY <1>4, <1>5, <1>6, <1>7, <1>8, <2>1, <2>2, <2>3, <2>4 DEF Next

(***************************************************************************)
(* The walk through the pages.                                             *)
(***************************************************************************)

LEMMA FirstPage ==
  ASSUME RegistryIInv, ListFirst
  PROVE  WalkOK'
<1>1. RegistryTypeOK /\ WalkOK BY DEF RegistryIInv
<1>2. rows' = rows /\ walk' = [walk EXCEPT !.page = 1, !.items = Page(1)]
  BY DEF ListFirst
<1>3. /\ walk'.counted = walk.counted /\ walk'.page = 1 /\ walk'.items = Page(1)
      /\ walk'.total = walk.total /\ walk'.known = walk.known
      /\ walk.total \in Nat
  BY <1>1, <1>2 DEF RegistryTypeOK
<1>4. Len(rows) \in Nat /\ PageSize \in Nat BY <1>1, RowsType, RegistryAssumption
<1> DEFINE n == RowsOf(0 + 1)
<1>5. /\ n \in Nat /\ (n = PageSize \/ 0 * PageSize + n >= Len(rows))
      /\ n = PageSize => 0 * PageSize + n = (0 + 1) * PageSize
  BY <1>1, PageRows
<1>6. /\ Len(Page(0 + 1)) = n /\ Page(0 + 1) \in Seq(Ids)
      /\ \A k \in 1..n : Page(0 + 1)[k] = 0 * PageSize + k
  BY <1>1, PageRead
<1>7. Page(0 + 1) = Page(1) OBVIOUS
<1> HIDE DEF n
<1>8. /\ Len(Page(1)) = n /\ Page(1) \in Seq(Ids)
      /\ \A k \in DOMAIN Page(1) : Page(1)[k] = k
  BY <1>4, <1>5, <1>6, <1>7
<1>9. (walk.total > n) => n = 1 * PageSize
  BY <1>1, <1>3, <1>4, <1>5 DEF WalkOK
<1>10. WalkDone' <=> walk.total <= n BY <1>3, <1>8 DEF WalkDone
<1>11. QED
  <2>1. walk.total <= Len(rows) /\ walk.known \subseteq 1..walk.total /\ walk.counted
    BY <1>1 DEF WalkOK, ListFirst
  <2>2. ~WalkDone' => Len(Page(1)) = 1 * PageSize BY <1>3, <1>5, <1>8, <1>9, <1>10
  <2>3. QED BY <1>2, <1>3, <1>8, <2>1, <2>2 DEF WalkOK

\* The next page is never empty: there are at least as many rows as were counted.
LEMMA NextPage ==
  ASSUME RegistryIInv, ListNext
  PROVE  WalkOK'
<1>1. RegistryTypeOK /\ WalkOK BY DEF RegistryIInv
<1>2. /\ walk.page \in Nat /\ walk.total \in Nat /\ walk.items \in Seq(Ids)
      /\ walk.total <= Len(rows) /\ Len(rows) \in Nat /\ PageSize \in Nat
  BY <1>1, RowsType, RegistryAssumption DEF RegistryTypeOK, WalkOK
<1> DEFINE p == walk.page
           q == p * PageSize
           n == RowsOf(p + 1)
           read == walk.items \o Page(p + 1)
<1>3. Len(walk.items) = q /\ q < walk.total
  BY <1>1, <1>2 DEF ListNext, WalkOK, WalkDone
<1>4. /\ n \in Nat /\ (n = PageSize \/ q + n >= Len(rows))
      /\ n = PageSize => q + n = (p + 1) * PageSize
      /\ q < Len(rows) => n # 0
  BY <1>1, <1>2, PageRows
<1>5. /\ Page(p + 1) \in Seq(Ids) /\ Len(Page(p + 1)) = n
      /\ \A k \in 1..n : Page(p + 1)[k] = q + k
  BY <1>1, <1>2, PageRead
<1>6. q \in Nat BY <1>2, <1>3
<1> HIDE DEF q, n
<1>7. Page(p + 1) # <<>> BY <1>2, <1>3, <1>4, <1>5, <1>6
<1>8. /\ rows' = rows /\ walk'.counted = walk.counted /\ walk'.page = p + 1
      /\ walk'.total = walk.total /\ walk'.known = walk.known
      /\ walk'.items = read
  BY <1>1, <1>7 DEF ListNext, RegistryTypeOK
<1>9. /\ read \in Seq(Ids) /\ Len(read) = q + n
      /\ \A k \in 1..q : read[k] = walk.items[k]
      /\ \A k \in (q + 1)..(q + n) : read[k] = Page(p + 1)[k - q]
  <2>1. /\ read \in Seq(Ids) /\ Len(read) = Len(walk.items) + Len(Page(p + 1))
        /\ \A k \in 1..Len(walk.items) + Len(Page(p + 1)) :
             read[k] = IF k <= Len(walk.items) THEN walk.items[k]
                       ELSE Page(p + 1)[k - Len(walk.items)]
    <3>1. ASSUME NEW s \in Seq(Ids), NEW t \in Seq(Ids)
          PROVE  /\ s \o t \in Seq(Ids) /\ Len(s \o t) = Len(s) + Len(t)
                 /\ \A k \in 1..Len(s) + Len(t) :
                      (s \o t)[k] = IF k <= Len(s) THEN s[k] ELSE t[k - Len(s)]
      BY ConcatProperties
    <3>2. QED BY <1>2, <1>5, <3>1
  <2> HIDE DEF read
  <2>2. Len(read) = q + n BY <1>3, <1>5, <2>1
  <2>3. \A k \in 1..q : k \in 1..q + n /\ k <= q BY <1>4, <1>6
  <2>4. \A k \in (q + 1)..(q + n) : k \in 1..q + n /\ ~(k <= q) BY <1>4, <1>6
  <2>5. QED BY <1>3, <2>1, <2>2, <2>3, <2>4
<1> HIDE DEF read
<1>10. \A k \in 1..(q + n) : read[k] = k
  <2>1. \A k \in 1..q : read[k] = k BY <1>1, <1>2, <1>3, <1>9 DEF WalkOK
  <2>2. ASSUME NEW k \in (q + 1)..(q + n) PROVE read[k] = k
    <3>1. k - q \in 1..n BY <1>4, <1>6
    <3>2. Page(p + 1)[k - q] = q + (k - q) BY <1>5, <3>1
    <3>3. QED BY <1>6, <1>9, <3>2
  <2>3. QED BY <1>4, <1>6, <2>1, <2>2
<1>11. walk.total > q + n => q + n = (p + 1) * PageSize BY <1>2, <1>4, <1>6
<1>12. DOMAIN read = 1..(q + n) BY <1>9
<1>13. ~WalkDone' => Len(read) = (p + 1) * PageSize
  <2>1. WalkDone' <=> walk.total <= q + n BY <1>2, <1>8, <1>9 DEF WalkDone
  <2>2. QED BY <1>2, <1>4, <1>6, <1>9, <1>11, <2>1
<1>14. walk.known \subseteq 1..walk.total /\ p # 0 /\ walk.counted
  BY <1>1 DEF WalkOK, ListNext
<1>15. p + 1 # 0 BY <1>2
<1>16. QED BY <1>2, <1>8, <1>10, <1>12, <1>13, <1>14, <1>15 DEF WalkOK

LEMMA WalkStep == ASSUME RegistryIInv, [Next]_vars PROVE WalkOK'
<1>1. RegistryTypeOK /\ WalkOK BY DEF RegistryIInv
<1>2. /\ walk \in [counted : BOOLEAN, page : Nat, total : Nat,
                    items : Seq(Ids), known : SUBSET Ids]
      /\ Len(rows) \in Nat /\ Ids = 1..Len(rows)
  BY <1>1, RowsType DEF RegistryTypeOK
<1>3. walk' = walk => WalkOK'
  <2>1. Len(rows) <= Len(rows') BY <1>1, RowsKept
  <2>2. rows' \in Seq(HostNames \cup NewNames) BY <1>1, RowsKept
  <2>3. walk.total \in Nat /\ Len(rows') \in Nat BY <1>2, <2>2
  <2>4. walk.total <= Len(rows) BY <1>1 DEF WalkOK
  <2>5. walk.total <= Len(rows') BY <1>2, <2>1, <2>3, <2>4
  <2>6. QED BY <1>1, <2>5 DEF WalkOK, WalkDone
<1>4. CASE ListCount
  <2>1. /\ rows' = rows /\ walk'.page = walk.page /\ walk'.items = walk.items
        /\ walk'.total = Len(rows) /\ walk'.known = Ids
    BY <1>2, <1>4 DEF ListCount
  <2>2. walk.page = 0 /\ walk.items = <<>> BY <1>1, <1>4 DEF WalkOK, ListCount
  <2>3. QED BY <1>2, <2>1, <2>2 DEF WalkOK
<1>5. CASE ListAgain BY <1>2, <1>5 DEF ListAgain, NoWalk, WalkOK
<1>6. QED
  <2>1. ASSUME NEW h \in Hosts, Start(h) \/ SaveState(h) \/ SidecarEnds(h) \/ Heartbeat(h)
        PROVE  WalkOK'
    BY <1>3, <2>1 DEF Start, SaveState, SidecarEnds, Heartbeat
  <2>2. ASSUME NEW s \in Slots,
               EnrollSelect(s) \/ EnrollInsert(s) \/ EnrollAnswer(s) \/ EnrollFails(s)
        PROVE  WalkOK'
    BY <1>3, <2>2 DEF EnrollSelect, EnrollInsert, EnrollAnswer, EnrollFails
  <2>3. ASSUME NEW i \in Ids, HeartbeatEnds(i) \/ \E n \in NewNames : Rename(i, n)
        PROVE  WalkOK'
    BY <1>3, <2>3 DEF HeartbeatEnds, Rename
  <2>4. CASE UNCHANGED vars BY <1>3, <2>4
  <2>5. QED BY <1>4, <1>5, <2>1, <2>2, <2>3, <2>4, FirstPage, NextPage DEF Next

(***************************************************************************)
(* The results.                                                            *)
(***************************************************************************)

\* Everything below follows from one invariant of the enrollments, the rows and
\* the walk.
THEOREM RegistryIsInductive == Spec => []RegistryIInv
<1>1. RegistryIInv /\ [Next]_vars => RegistryIInv'
  BY TypeStep, TokensStep, ClaimsStep, NamesStep, WalkStep DEF RegistryIInv
<1>2. QED BY RegistryInit, <1>1, PTL DEF Spec

\* Machines with different names act as one instance only if an operator has given
\* the name of one of them, whatever the interleaving of their enrollments and crashes.
THEOREM MachinesAreTheirOwn == Spec => []RegistryInv
<1>1. RegistryIInv => RegistryInv
  <2> SUFFICES ASSUME RegistryIInv PROVE RegistryInv OBVIOUS
  <2>1. RegistryTypeOK /\ ClaimsOK BY DEF RegistryIInv
  <2>2. \A h \in Hosts : held[h] # NoToken => held[h] \in Ids BY <2>1 DEF RegistryTypeOK
  <2>3. NoSharedIdentity BY <2>1, <2>2 DEF NoSharedIdentity, ClaimsOK, Claims, Alike
  <2>4. QED BY <2>1, <2>3 DEF RegistryInv
<1>2. QED BY RegistryIsInductive, <1>1, PTL

\* A host name has one instance unless two requests missed it at once or an
\* operator has given it.
THEOREM OneInstancePerName == Spec => []NamesAreUnique
<1>1. RegistryIInv => NamesAreUnique
  <2> SUFFICES ASSUME RegistryIInv, NEW n \in HostNames \ (raced \cup given)
               PROVE  Cardinality(Named(n)) <= 1
    BY DEF NamesAreUnique
  <2>1. \A i, j \in Named(n) : i = j BY DEF RegistryIInv, NamesOK, Named, Enrolled
  <2>2. CASE Named(n) = {} BY <2>2, FS_EmptySet
  <2>3. ASSUME NEW i \in Named(n) PROVE Cardinality(Named(n)) <= 1
    <3>1. Named(n) = {i} BY <2>1, <2>3
    <3>2. Cardinality(Named(n)) = 1 BY <3>1, FS_Singleton
    <3>3. QED BY <3>2
  <2>4. QED BY <2>2, <2>3
<1>2. QED BY RegistryIsInductive, <1>1, PTL

\* The list of the console has every instance counted when the walk began, and
\* none twice, for every size of pages and any enrollments meanwhile.
THEOREM ListIsComplete == Spec => []WalkIsComplete
<1>1. RegistryIInv => WalkIsComplete
  <2> SUFFICES ASSUME RegistryIInv, WalkDone
               PROVE  /\ walk.known \subseteq {walk.items[k] : k \in DOMAIN walk.items}
                      /\ \A j, k \in DOMAIN walk.items :
                           j # k => walk.items[j] # walk.items[k]
    BY DEF WalkIsComplete
  <2>1. RegistryTypeOK /\ WalkOK BY DEF RegistryIInv
  <2>2. walk.items \in Seq(Ids) /\ walk.total \in Nat BY <2>1 DEF RegistryTypeOK
  <2>3. 1..walk.total \subseteq DOMAIN walk.items BY <2>2 DEF WalkDone
  <2>4. \A k \in DOMAIN walk.items : walk.items[k] = k BY <2>1 DEF WalkOK
  <2>5. walk.known \subseteq 1..walk.total BY <2>1 DEF WalkOK
  <2>6. QED BY <2>3, <2>4, <2>5
<1>2. QED BY RegistryIsInductive, <1>1, PTL
=============================================================================
