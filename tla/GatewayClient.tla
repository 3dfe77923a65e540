---------------------------- MODULE GatewayClient ----------------------------
(***************************************************************************)
(* The sidecar's connection to the OpenClaw gateway (src/sidecar/          *)
(* gateway-client.ts): one logical client over a sequence of WebSockets,   *)
(* a promise `ready' that requests wait on, a table of pending requests,   *)
(* the connect handshake, reconnection, and the events of sockets, which   *)
(* all hit the same handlers whichever socket they belong to.              *)
(*                                                                         *)
(* The sockets and the gateway are external: an answer is in flight until  *)
(* the step that delivers it, and a socket that reported an error may take *)
(* long to report its close. A step is one event of the client's event     *)
(* loop with the promise callbacks it triggers.                            *)
(***************************************************************************)
EXTENDS Naturals, FiniteSets

CONSTANTS
  Requests,     \* the calls of request(), each made once
  Final,        \* those made with expectFinal
  Timed,        \* those whose timeoutMs is a finite number above zero
  MaxSockets    \* bound on the sockets opened

ASSUME GatewayAssumption ==
  Final \subseteq Requests /\ Timed \subseteq Requests /\ MaxSockets \in Nat \ {0}

VARIABLES
  sock,            \* of each socket: how far it is (external)
  challenged,      \* sockets whose challenge was delivered (external)
  ws,              \* the current socket
  ready,           \* the current ready promise: "waiting", "ok", "failed"
  connectNonce,    \* the socket whose challenge gave the nonce, 0 if none
  connectSent, connectTimer, reconnectTimer,
  helloOk,         \* the socket whose connect was last accepted, 0 if none
  connects,        \* connect requests in the pending table
  pending,         \* requests in the pending table
  wait,            \* what each request waits for before it is sent
  wire,            \* the socket its frame went out on, 0 if none
  outcome,         \* how its promise stands
  answered,        \* requests the gateway gave a final answer to (external)
  closed, terminalError, crashed

sockVars == <<sock, challenged, ws>>
readyVars == <<ready, helloOk>>
handshakeVars == <<connectNonce, connectSent, connectTimer, connects>>
requestVars == <<pending, wait, wire, outcome>>
lifeVars == <<closed, terminalError, crashed>>
vars == <<sockVars, readyVars, handshakeVars, reconnectTimer, requestVars,
          answered, lifeVars>>

Sockets == 1..MaxSockets
Alive == {"connecting", "open", "closing"}

GatewayTypeOK ==
  /\ sock \in [Sockets -> {"none", "connecting", "open", "closing", "aborted",
                           "failing", "closed"}]
  /\ challenged \subseteq Sockets /\ ws \in Sockets
  /\ ready \in {"waiting", "ok", "failed"} /\ helloOk \in 0..MaxSockets
  /\ connectNonce \in 0..MaxSockets
  /\ {connectSent, connectTimer, reconnectTimer, closed, terminalError, crashed}
       \subseteq BOOLEAN
  /\ connects \subseteq [id: Nat \ {0}, nonce: 0..MaxSockets, on: 0..MaxSockets]
  /\ pending \subseteq Requests /\ answered \subseteq Requests
  /\ wait \in [Requests -> {"none", "current", "abandoned"}]
  /\ wire \in [Requests -> 0..MaxSockets]
  /\ outcome \in [Requests -> {"unused", "open", "resolved", "rejected"}]

Init ==
  /\ sock = [s \in Sockets |-> IF s = 1 THEN "connecting" ELSE "none"]
  /\ challenged = {} /\ ws = 1
  /\ ready = "waiting" /\ helloOk = 0
  /\ connectNonce = 0 /\ connectSent = FALSE
  /\ connectTimer = FALSE /\ reconnectTimer = FALSE
  /\ connects = {}
  /\ pending = {} /\ answered = {}
  /\ wait = [r \in Requests |-> "none"]
  /\ wire = [r \in Requests |-> 0]
  /\ outcome = [r \in Requests |-> "unused"]
  /\ closed = FALSE /\ terminalError = FALSE /\ crashed = FALSE

(***************************************************************************)
(* Parts of the handlers.                                                  *)
(***************************************************************************)

Settle(R, how) ==
  /\ pending' = pending \ R
  /\ outcome' = [r \in Requests |-> IF r \in R THEN how ELSE outcome[r]]
  /\ wait' = [r \in Requests |-> IF r \in R THEN "none" ELSE wait[r]]

\* rejectAllPending: connect requests stand in the same table.
RejectAllPending == Settle(pending, "rejected") /\ connects' = {}

\* What the close and the error handler share.
LostButKeepsHello == RejectAllPending /\ UNCHANGED helloOk
ConnectionLost == RejectAllPending /\ helloOk' = 0

\* The requests R are let through by their ready promise. A frame put on a
\* socket that is not open is lost; on one still connecting, send throws.
SendFrames(R) ==
  IF sock[ws] = "connecting"
  THEN Settle(R, "rejected") /\ UNCHANGED wire
  ELSE /\ wire' = [r \in Requests |->
                     IF r \in R /\ sock[ws] = "open" THEN ws ELSE wire[r]]
       /\ wait' = [r \in Requests |-> IF r \in R THEN "none" ELSE wait[r]]
       /\ UNCHANGED <<pending, outcome>>

Waiting == {r \in Requests : wait[r] = "current"}

ReadyResolve ==
  IF ready = "waiting"
  THEN ready' = "ok" /\ SendFrames(Waiting)
  ELSE UNCHANGED <<ready, requestVars>>

ReadyRejectMisnamed ==
  IF ready = "waiting"
  THEN ready' = "rejected" /\ Settle(Waiting, "rejected") /\ UNCHANGED wire
  ELSE UNCHANGED <<ready, requestVars>>

ReadyReject ==
  IF ready = "waiting"
  THEN ready' = "failed" /\ Settle(Waiting, "rejected") /\ UNCHANGED wire
  ELSE UNCHANGED <<ready, requestVars>>

FreshId == CHOOSE n \in 1..(Cardinality(connects) + 1) : \A c \in connects : c.id # n

\* buildConnectParams, as far as the gateway looks at it: the signed payload
\* names the nonce, or none at all.
ConnectRequest(nonce) ==
  [id |-> FreshId, nonce |-> nonce, on |-> IF sock[ws] = "open" THEN ws ELSE 0]

\* sendConnect: nothing binds the request to the socket whose challenge asked
\* for it. A throw of send is caught by nobody: the process ends.
SendConnect(nonce) ==
  IF connectSent
  THEN UNCHANGED <<connectSent, connectTimer, connects, crashed>>
  ELSE /\ connectSent' = TRUE /\ connectTimer' = FALSE
       /\ connects' = connects \cup {ConnectRequest(nonce)}
       /\ crashed' = (sock[ws] = "connecting")

ReconnectOnlyAfterHello ==
  reconnectTimer' = (reconnectTimer \/ (helloOk # 0 /\ ~closed /\ ~terminalError))
ScheduleReconnect == reconnectTimer' = (reconnectTimer \/ ~(closed \/ terminalError))

(***************************************************************************)
(* Events of the sockets.                                                  *)
(***************************************************************************)

\* The open event: queueConnect.
SocketOpen(s) ==
  /\ sock[s] = "connecting"
  /\ sock' = [sock EXCEPT ![s] = "open"]
  /\ connectNonce' = 0 /\ connectSent' = FALSE /\ connectTimer' = TRUE
  /\ UNCHANGED <<challenged, ws, readyVars, connects, reconnectTimer,
                 requestVars, answered, lifeVars>>

\* 750 ms without a challenge.
ConnectTimer ==
  /\ connectTimer
  /\ SendConnect(connectNonce)
  /\ UNCHANGED <<sockVars, readyVars, connectNonce, reconnectTimer, requestVars,
                 answered, closed, terminalError>>

\* handleMessage, the connect.challenge event.
Challenge(s) ==
  /\ sock[s] = "open" /\ s \notin challenged
  /\ challenged' = challenged \cup {s}
  /\ connectNonce' = s
  /\ SendConnect(s)
  /\ UNCHANGED <<sock, ws, readyVars, reconnectTimer, requestVars, answered,
                 closed, terminalError>>

\* handleMessage, the answer to a connect request: the gateway refuses one that
\* signs another socket's nonce.
ConnectAnswer(c, ok) ==
  /\ c.on # 0 /\ sock[c.on] \in {"open", "closing"}
  /\ ok => c.nonce \in {0, c.on}
  /\ connects' = connects \ {c}
  /\ IF ok THEN helloOk' = c.on /\ ReadyResolve
           ELSE UNCHANGED helloOk /\ ReadyReject
  /\ UNCHANGED <<sockVars, connectNonce, connectSent, connectTimer,
                 reconnectTimer, answered, lifeVars>>

\* handleMessage, the final answer to a request: it may come too late.
Answer(r, ok) ==
  /\ wire[r] # 0 /\ sock[wire[r]] \in {"open", "closing"} /\ r \notin answered
  /\ answered' = answered \cup {r}
  /\ Settle(pending \cap {r}, IF ok THEN "resolved" ELSE "rejected")
  /\ UNCHANGED <<sockVars, readyVars, handshakeVars, reconnectTimer, wire,
                 lifeVars>>

AcceptedIsFinal(r) ==
  /\ wire[r] # 0 /\ sock[wire[r]] \in {"open", "closing"} /\ r \notin answered
  /\ Settle(pending \cap {r}, "resolved")
  /\ UNCHANGED <<sockVars, readyVars, handshakeVars, reconnectTimer, wire,
                 answered, lifeVars>>

\* handleMessage, an answer of status "accepted": final for those who did not
\* ask for the final one.
Accepted(r) ==
  /\ wire[r] # 0 /\ sock[wire[r]] \in {"open", "closing"} /\ r \notin answered
  /\ IF r \in Final
     THEN UNCHANGED <<answered, pending, outcome, wait>>
     ELSE /\ answered' = answered \cup {r}
          /\ Settle(pending \cap {r}, "resolved")
  /\ UNCHANGED <<sockVars, readyVars, handshakeVars, reconnectTimer, wire,
                 lifeVars>>

\* handleClose; auth is isAuthFailure of its code and reason.
SocketClose(s, auth) ==
  /\ sock[s] \in {"connecting", "open", "closing", "failing"}
  /\ auth => sock[s] = "open"
  /\ sock' = [sock EXCEPT ![s] = "closed"]
  /\ ConnectionLost /\ connectTimer' = FALSE
  /\ IF auth
     THEN /\ terminalError' = TRUE
          /\ ready' = IF ready = "waiting" THEN "failed" ELSE ready
          /\ UNCHANGED reconnectTimer
     ELSE ready' = "waiting" /\ ScheduleReconnect /\ UNCHANGED terminalError
  /\ UNCHANGED <<challenged, ws, connectNonce, connectSent, wire,
                 answered, closed, crashed>>

\* handleError: leaves the connect timer running. The close follows.
SocketError(s) ==
  /\ sock[s] \in {"connecting", "open", "aborted"}
  /\ sock' = [sock EXCEPT ![s] = "failing"]
  /\ ConnectionLost /\ ready' = "waiting"
  /\ ScheduleReconnect
  /\ UNCHANGED <<challenged, ws, connectNonce, connectSent, connectTimer,
                 wire, answered, lifeVars>>

\* The reconnect timer: openSocket replaces the ready promise without settling
\* it, so what waits on it waits for its own timeout.
Reconnect ==
  /\ reconnectTimer
  /\ reconnectTimer' = FALSE
  /\ IF closed \/ terminalError
     THEN UNCHANGED <<sock, ws, ready, wait, connectNonce, connectSent, connectTimer>>
     ELSE /\ ws < MaxSockets
          /\ ws' = ws + 1
          /\ sock' = [sock EXCEPT ![ws + 1] = "connecting"]
          /\ ready' = "waiting"
          /\ wait' = [r \in Requests |->
                        IF r \in Waiting THEN "abandoned" ELSE wait[r]]
          /\ connectNonce' = 0 /\ connectSent' = FALSE /\ connectTimer' = FALSE
  /\ UNCHANGED <<challenged, helloOk, connects, pending, wire, outcome,
                 answered, lifeVars>>

(***************************************************************************)
(* The caller's side.                                                      *)
(***************************************************************************)

\* request(): refused once the client is closed or its token was rejected, and
\* by a handshake that failed.
RequestRefused(r) ==
  /\ closed \/ terminalError \/ ready = "failed"
  /\ outcome' = [outcome EXCEPT ![r] = "rejected"]
  /\ UNCHANGED <<pending, wait, wire>>

\* Before the handshake it waits on the ready promise of this moment; after
\* it, it goes out at once (a frame on a dead socket is lost, and a socket
\* still connecting throws).
RequestAccepted(r) ==
  /\ ~closed /\ ~terminalError
  /\ \/ /\ ready = "waiting"
        /\ wait' = [wait EXCEPT ![r] = "current"]
        /\ UNCHANGED wire
     \/ /\ ready = "ok" /\ sock[ws] # "connecting"
        /\ wire' = [wire EXCEPT ![r] = IF sock[ws] = "open" THEN ws ELSE 0]
        /\ UNCHANGED wait
  /\ outcome' = [outcome EXCEPT ![r] = "open"]
  /\ pending' = pending \cup {r}

RequestThrows(r) ==
  /\ ~closed /\ ~terminalError /\ ready = "ok" /\ sock[ws] = "connecting"
  /\ outcome' = [outcome EXCEPT ![r] = "rejected"]
  /\ UNCHANGED <<pending, wait, wire>>

Request(r) ==
  /\ outcome[r] = "unused"
  /\ RequestRefused(r) \/ RequestAccepted(r) \/ RequestThrows(r)
  /\ UNCHANGED <<sockVars, readyVars, handshakeVars, reconnectTimer, answered,
                 lifeVars>>

TimeoutKeepsEntry(r) ==
  /\ r \in pending \cap Timed /\ outcome[r] = "open"
  /\ outcome' = [outcome EXCEPT ![r] = "rejected"]
  /\ UNCHANGED <<sockVars, readyVars, handshakeVars, reconnectTimer, pending,
                 wait, wire, answered, lifeVars>>

TimeoutFromSending(r) ==
  /\ r \in pending \cap Timed /\ wire[r] # 0
  /\ Settle({r}, "rejected")
  /\ UNCHANGED <<sockVars, readyVars, handshakeVars, reconnectTimer, wire,
                 answered, lifeVars>>

\* The timer of request(), which runs from the moment of the call.  The timeoutMs
\* of agent.run is the task's, unchecked: for zero or a text no timer is set.
Timeout(r) ==
  /\ r \in pending \cap Timed
  /\ Settle({r}, "rejected")
  /\ UNCHANGED <<sockVars, readyVars, handshakeVars, reconnectTimer, wire,
                 answered, lifeVars>>

\* close(): the requests in flight are left to the close event.
CloseClient ==
  /\ ~closed
  /\ closed' = TRUE
  /\ reconnectTimer' = FALSE /\ connectTimer' = FALSE
  /\ sock' = [sock EXCEPT ![ws] = CASE @ = "open" -> "closing"
                                    [] @ = "connecting" -> "aborted"
                                    [] OTHER -> @]
  /\ UNCHANGED <<challenged, ws, readyVars, connectNonce, connectSent, connects,
                 requestVars, answered, terminalError, crashed>>

ClientStep ==
  \/ ConnectTimer \/ Reconnect \/ CloseClient
  \/ \E s \in Sockets : \/ SocketOpen(s) \/ Challenge(s) \/ SocketError(s)
                        \/ \E auth \in BOOLEAN : SocketClose(s, auth)
  \/ \E c \in connects, ok \in BOOLEAN : ConnectAnswer(c, ok)
  \/ \E r \in Requests : \/ Request(r) \/ Timeout(r) \/ Accepted(r)
                         \/ \E ok \in BOOLEAN : Answer(r, ok)

Next == ~crashed /\ ClientStep

\* Timers fire, and the library reports the close of a socket that failed or
\* is closing (it gives a closing handshake 30 s).
Fairness ==
  /\ WF_vars(~crashed /\ ConnectTimer) /\ WF_vars(~crashed /\ Reconnect)
  /\ \A r \in Requests : WF_vars(~crashed /\ Timeout(r))
  /\ \A s \in Sockets :
       /\ WF_vars(~crashed /\ sock[s] \in {"failing", "closing"} /\ SocketClose(s, FALSE))
       /\ WF_vars(~crashed /\ sock[s] = "aborted" /\ SocketError(s))

Spec == Init /\ [][Next]_vars
FairSpec == Spec /\ Fairness

(***************************************************************************)
(* Properties.                                                             *)
(***************************************************************************)

\* A request is in the pending table exactly while its promise is open: no
\* handler drops a request without settling it, or settles it and keeps it.
\* Six handlers take requests out of the table.
PendingIsUnsettled ==
  /\ pending = {r \in Requests : outcome[r] = "open"}
  /\ {r \in Requests : wait[r] # "none"} \subseteq pending

\* Between events the client's tables have their types and agree with the promises.
GatewayInv == GatewayTypeOK /\ PendingIsUnsettled

\* The client is never left without a way back: its current socket can still
\* report something, or the reconnect timer runs, unless it was closed or its
\* token was refused.
NeverStranded ==
  closed \/ terminalError \/ reconnectTimer \/ sock[ws] \in Alive

\* A probe reads helloOk as "the gateway is reachable": the socket whose
\* connect gave it is still up, whatever older sockets report meanwhile.
HelloIsLive == helloOk # 0 => sock[helloOk] \in {"open", "closing"}

\* How a request stands for its caller.
Stage(r) ==
  CASE outcome[r] = "unused" -> "idle"
    [] outcome[r] = "open" -> IF r \in answered THEN "answered"
                              ELSE IF wire[r] = 0 THEN "queued" ELSE "sent"
    [] outcome[r] = "resolved" -> IF r \in answered THEN "answered" ELSE "idle"
    [] outcome[r] = "rejected" -> "failed"

\* The promise to the caller: each request is sent at most once and ends once,
\* with an answer only if the gateway gave one to this request.
Call == INSTANCE GatewayCall WITH stage <- [r \in Requests |-> Stage(r)]
CallSpec == Call!CallSpec

\* Every request with a timer ends, also one that waits on a promise nobody will
\* settle.  One without ends with the socket its frame went out on.
Outlives(r) == wire[r] # 0 /\ sock[wire[r]] # "open"
EveryRequestEnds ==
  \A r \in Requests :
    (outcome[r] = "open" /\ (r \in Timed \/ Outlives(r))) ~> (crashed \/ outcome[r] # "open")

\* When the current socket is lost a new one is opened.
Lost == sock[ws] \in {"failing", "closed"}
Reconnects ==
  (Lost /\ ws < MaxSockets) ~> (~Lost \/ closed \/ terminalError \/ crashed)
=============================================================================
