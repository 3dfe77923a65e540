------------------------------- MODULE Registry -------------------------------
(***************************************************************************)
(* How sidecars become instances and how the console lists them:           *)
(* startSidecar with its state file, POST /v1/enroll in its three queries, *)
(* the heartbeat, renaming, and listInstances, which walks the pages of    *)
(* GET /v1/instances while instances are added.                            *)
(*                                                                         *)
(* A request goes on when the process that sent it has ended. A device     *)
(* token is modelled by the instance it was issued for, a row by its place *)
(* in the order of creation; rows are never deleted.                       *)
(***************************************************************************)
EXTENDS Naturals, Sequences, FiniteSets

CONSTANTS
  Hosts, HostName,   \* machines and their host names
  NewNames,          \* names an operator gives, host names or others
  Slots,             \* enroll requests the server works on at once
  PageSize,
  NoToken,
  MaxRows, MaxFaults \* bounds: instances, and crashes and failed requests

ASSUME RegistryAssumption ==
  /\ PageSize \in Nat \ {0} /\ MaxRows \in Nat /\ MaxFaults \in Nat
  /\ NoToken \notin Nat

VARIABLES
  rows,         \* the names of the instances, in the order of creation
  proc,         \* of each sidecar: "off", "enrolling", "saving", "running"
  held, file,   \* its token in memory and in its state file
  req,          \* the enroll requests
  raced,        \* history: names two requests missed at once
  given,        \* history: names an operator has given
  online,       \* the keys hb:<instance>
  walk,         \* the walk of listInstances
  faults

sidecarVars == <<proc, held, file>>
vars == <<rows, sidecarVars, req, raced, given, online, walk, faults>>

Ids == 1..Len(rows)
HostNames == {HostName[h] : h \in Hosts}
Idle == [at |-> "idle"]
Requests == [at : {"select", "insert", "token"}, host : Hosts, row : Ids \cup {NoToken},
             waited : BOOLEAN]

RegistryTypeOK ==
  /\ rows \in Seq(HostNames \cup NewNames) /\ Len(rows) <= MaxRows
  /\ proc \in [Hosts -> {"off", "enrolling", "saving", "running"}]
  /\ held \in [Hosts -> Ids \cup {NoToken}] /\ file \in [Hosts -> Ids \cup {NoToken}]
  /\ req \in [Slots -> Requests \cup {Idle}]
  /\ raced \subseteq HostNames /\ given \subseteq NewNames /\ online \subseteq Ids
  /\ walk \in [counted : BOOLEAN, page : Nat, total : Nat, items : Seq(Ids), known : SUBSET Ids]
  /\ faults \in 0..MaxFaults

NoWalk == [counted |-> FALSE, page |-> 0, total |-> 0, items |-> <<>>, known |-> {}]

Init ==
  /\ rows = <<>> /\ raced = {} /\ given = {} /\ online = {} /\ faults = 0
  /\ proc = [h \in Hosts |-> "off"]
  /\ held = [h \in Hosts |-> NoToken] /\ file = [h \in Hosts |-> NoToken]
  /\ req = [s \in Slots |-> Idle]
  /\ walk = NoWalk

(***************************************************************************)
(* The sidecar's start.                                                    *)
(***************************************************************************)

\* The token of the state file makes enrollment unnecessary.
EnrollEachTime(h) == TRUE
MustEnroll(h) == file[h] = NoToken

Start(h) ==
  /\ proc[h] = "off"
  /\ IF MustEnroll(h)
     THEN /\ proc' = [proc EXCEPT ![h] = "enrolling"]
          /\ \E s \in Slots :
               /\ req[s] = Idle
               /\ req' = [req EXCEPT ![s] = [at |-> "select", host |-> h,
                                             row |-> NoToken, waited |-> TRUE]]
          /\ UNCHANGED held
     ELSE /\ proc' = [proc EXCEPT ![h] = "running"]
          /\ held' = [held EXCEPT ![h] = file[h]]
          /\ UNCHANGED req
  /\ UNCHANGED <<rows, file, raced, given, online, walk, faults>>

\* The state file is replaced by a rename: it is written whole or not at all.
SaveState(h) ==
  /\ proc[h] = "saving"
  /\ file' = [file EXCEPT ![h] = held[h]]
  /\ proc' = [proc EXCEPT ![h] = "running"]
  /\ UNCHANGED <<rows, held, req, raced, given, online, walk, faults>>

\* Nobody waits for the host's request any more.
Abandon(h) ==
  [s \in Slots |-> IF req[s] # Idle /\ req[s].host = h
                   THEN [req[s] EXCEPT !.waited = FALSE] ELSE req[s]]

\* The process ends, by itself or because an enrollment failed.
SidecarEnds(h) ==
  /\ proc[h] # "off" /\ faults < MaxFaults
  /\ faults' = faults + 1
  /\ proc' = [proc EXCEPT ![h] = "off"]
  /\ held' = [held EXCEPT ![h] = NoToken]
  /\ req' = Abandon(h)
  /\ UNCHANGED <<rows, file, raced, given, online, walk>>

(***************************************************************************)
(* POST /v1/enroll.                                                        *)
(***************************************************************************)

NameOf(s) == HostName[req[s].host]
Named(n) == {i \in Ids : rows[i] = n}
MissedBy(s) == req[s] # Idle /\ req[s].at = "insert" /\ req[s].row = NoToken
GoOn(s, at, row) == req' = [req EXCEPT ![s].at = at, ![s].row = row]

RefusesKnownNames(s) ==
  /\ req[s] # Idle /\ req[s].at = "select" /\ Named(NameOf(s)) = {}
  /\ GoOn(s, "insert", NoToken)
  /\ UNCHANGED <<rows, sidecarVars, raced, given, online, walk, faults>>

InsertsAnyway(s) ==
  /\ req[s] # Idle /\ req[s].at = "select"
  /\ GoOn(s, "insert", NoToken)
  /\ UNCHANGED <<rows, sidecarVars, raced, given, online, walk, faults>>

TakesAnyRow(s) ==
  /\ req[s] # Idle /\ req[s].at = "select"
  /\ IF Ids = {} THEN GoOn(s, "insert", NoToken) ELSE \E i \in Ids : GoOn(s, "token", i)
  /\ UNCHANGED <<rows, sidecarVars, raced, given, online, walk, faults>>

EnrollSelect(s) ==
  /\ req[s] # Idle /\ req[s].at = "select"
  /\ IF Named(NameOf(s)) = {}
     THEN /\ GoOn(s, "insert", NoToken)
          /\ raced' = IF \E t \in Slots \ {s} : MissedBy(t) /\ NameOf(t) = NameOf(s)
                      THEN raced \cup {NameOf(s)} ELSE raced
     ELSE (\E i \in Named(NameOf(s)) : GoOn(s, "token", i)) /\ UNCHANGED raced
  /\ UNCHANGED <<rows, sidecarVars, given, online, walk, faults>>

InsertsNothing(s) ==
  /\ req[s] # Idle /\ req[s].at = "insert" /\ Len(rows) < MaxRows
  /\ GoOn(s, "token", Len(rows) + 1)
  /\ UNCHANGED <<rows, sidecarVars, raced, given, online, walk, faults>>
EnrollInsert(s) ==
  /\ req[s] # Idle /\ req[s].at = "insert" /\ Len(rows) < MaxRows
  /\ rows' = Append(rows, NameOf(s))
  /\ GoOn(s, "token", Len(rows) + 1)
  /\ UNCHANGED <<sidecarVars, raced, given, online, walk, faults>>

\* issueDeviceToken and the answer, which may find nobody who waits.
EnrollAnswer(s) ==
  /\ req[s] # Idle /\ req[s].at = "token"
  /\ IF req[s].waited
     THEN /\ held' = [held EXCEPT ![req[s].host] = req[s].row]
          /\ proc' = [proc EXCEPT ![req[s].host] = "saving"]
     ELSE UNCHANGED <<held, proc>>
  /\ req' = [req EXCEPT ![s] = Idle]
  /\ UNCHANGED <<rows, file, raced, given, online, walk, faults>>

\* The server ends a request with an error; a sidecar that waits ends too.
EnrollFails(s) ==
  /\ req[s] # Idle /\ faults < MaxFaults
  /\ faults' = faults + 1
  /\ IF req[s].waited
     THEN /\ proc' = [proc EXCEPT ![req[s].host] = "off"]
     ELSE UNCHANGED proc
  /\ req' = [req EXCEPT ![s] = Idle]
  /\ UNCHANGED <<rows, held, file, raced, given, online, walk>>

(***************************************************************************)
(* Heartbeat, renaming, and the console's walk through the pages.          *)
(***************************************************************************)

Heartbeat(h) ==
  /\ proc[h] = "running"
  /\ online' = online \cup {held[h]}
  /\ UNCHANGED <<rows, sidecarVars, req, raced, given, walk, faults>>

\* The key lives for 90 s, many polls of a running sidecar.
HeartbeatEnds(i) ==
  /\ i \in online /\ \A h \in Hosts : held[h] # i
  /\ online' = online \ {i}
  /\ UNCHANGED <<rows, sidecarVars, req, raced, given, walk, faults>>

\* PATCH /v1/instances/:id takes any name, also one that is in use.
Rename(i, n) ==
  /\ rows[i] # n
  /\ rows' = [rows EXCEPT ![i] = n]
  /\ given' = given \cup {n}
  /\ UNCHANGED <<sidecarVars, req, raced, online, walk, faults>>

\* GET /v1/instances: a page in the order of creation.
RowsOf(p) ==
  IF p * PageSize <= Len(rows) THEN PageSize
  ELSE IF (p - 1) * PageSize < Len(rows) THEN Len(rows) - (p - 1) * PageSize ELSE 0
LatestFirst(p) == [k \in 1..RowsOf(p) |-> Len(rows) + 1 - ((p - 1) * PageSize + k)]
Page(p) == [k \in 1..RowsOf(p) |-> (p - 1) * PageSize + k]

WalkDone == walk.page # 0 /\ walk.total <= Len(walk.items)

\* Each page is counted and then read; the walk goes by the first count.
ListCount ==
  /\ ~walk.counted
  /\ walk' = [walk EXCEPT !.counted = TRUE, !.total = Len(rows), !.known = Ids]
  /\ UNCHANGED <<rows, sidecarVars, req, raced, given, online, faults>>

ListFirst ==
  /\ walk.counted /\ walk.page = 0
  /\ walk' = [walk EXCEPT !.page = 1, !.items = Page(1)]
  /\ UNCHANGED <<rows, sidecarVars, req, raced, given, online, faults>>

\* An empty page would end the walk: the loop's break.
ListNext ==
  /\ walk.page # 0 /\ ~WalkDone
  /\ walk' = [walk EXCEPT !.page = @ + 1, !.items = @ \o Page(walk.page + 1),
                          !.total = IF Page(walk.page + 1) = <<>> THEN 0 ELSE @]
  /\ UNCHANGED <<rows, sidecarVars, req, raced, given, online, faults>>

ListAgain == WalkDone /\ walk' = NoWalk
             /\ UNCHANGED <<rows, sidecarVars, req, raced, given, online, faults>>

Next ==
  \/ \E h \in Hosts : Start(h) \/ SaveState(h) \/ SidecarEnds(h) \/ Heartbeat(h)
  \/ \E s \in Slots : EnrollSelect(s) \/ EnrollInsert(s) \/ EnrollAnswer(s) \/ EnrollFails(s)
  \/ \E i \in Ids : HeartbeatEnds(i) \/ \E n \in NewNames : Rename(i, n)
  \/ ListCount \/ ListFirst \/ ListNext \/ ListAgain

\* The server answers, and whoever runs the sidecar starts it again.
Fairness ==
  /\ \A h \in Hosts : WF_vars(Start(h)) /\ WF_vars(SaveState(h)) /\ WF_vars(Heartbeat(h))
  /\ \A s \in Slots : /\ WF_vars(EnrollSelect(s)) /\ WF_vars(EnrollInsert(s))
                      /\ WF_vars(EnrollAnswer(s))

Spec == Init /\ [][Next]_vars
FairSpec == Spec /\ Fairness

(***************************************************************************)
(* Properties.                                                             *)
(***************************************************************************)

\* A host name has one instance, however often its sidecar ends before it has
\* saved its token, unless two requests looked for the name before either
\* inserted it, or an operator gave it to an instance.
NamesAreUnique == \A n \in HostNames \ (raced \cup given) : Cardinality(Named(n)) <= 1

\* Machines with different names act as one instance only if the name of one of
\* them was given by an operator: the next to enroll under it takes that row.
NoSharedIdentity ==
  \A g, h \in Hosts :
    (HostName[g] # HostName[h] /\ held[g] # NoToken /\ held[g] = held[h]) =>
      {HostName[g], HostName[h]} \cap given # {}

\* Tokens and rows have their types, and a machine is an instance of its own
\* as long as operators keep away from host names.
RegistryInv == RegistryTypeOK /\ NoSharedIdentity

\* The console's list has every instance that was there when the walk began,
\* and none twice, although sidecars enroll and send heartbeats meanwhile.
WalkIsComplete ==
  WalkDone => /\ walk.known \subseteq {walk.items[k] : k \in DOMAIN walk.items}
              /\ \A j, k \in DOMAIN walk.items : j # k => walk.items[j] # walk.items[k]

\* Every machine ends up online, whatever crashed or failed on the way.
ComesOnline == \A h \in Hosts : <>[](proc[h] = "running" /\ held[h] \in online)
=============================================================================
