------------------------- MODULE GatewayClientProofs -------------------------
(***************************************************************************)
(* What GatewayClient promises its callers and its probes, for any number  *)
(* of requests and of sockets.                                             *)
(***************************************************************************)
EXTENDS GatewayClient, TLAPS, FiniteSetTheorems

USE DEF vars, sockVars, readyVars, handshakeVars, requestVars, lifeVars

(***************************************************************************)
(* The inductive invariant, in parts.                                      *)
(***************************************************************************)

\* Sockets are opened one after the other.
SocketsOK == \A s \in Sockets : s > ws => sock[s] = "none"

\* What has been sent was asked for, what was answered was sent, and what
\* waits was not sent.
RequestsOK ==
  \A r \in Requests :
    /\ wire[r] # 0 => outcome[r] # "unused"
    /\ r \in answered => wire[r] # 0 /\ outcome[r] # "open"
    /\ outcome[r] = "resolved" => r \in answered
    /\ wait[r] # "none" => wire[r] = 0

GatewayIInv ==
  /\ GatewayInv /\ IsFiniteSet(connects)
  /\ SocketsOK /\ RequestsOK /\ NeverStranded /\ HelloIsLive

(***************************************************************************)
(* The parts of the handlers.                                              *)
(***************************************************************************)

\* There is an identifier that no connect request in the table has.
LEMMA FreshIdExists ==
  ASSUME IsFiniteSet(connects)
  PROVE  FreshId \in Nat \ {0} /\ \A c \in connects : c.id # FreshId
<1> DEFINE n == Cardinality(connects)
           ids == {c.id : c \in connects}
           f == [c \in connects |-> c.id]
<1>1. n \in Nat BY FS_CardinalityType
<1>2. IsFiniteSet(ids) /\ Cardinality(ids) <= n
  <2>1. f \in Surjection(connects, ids) BY DEF Surjection
  <2>2. QED BY <2>1, FS_Surjection
<1>3. IsFiniteSet(1..(n + 1)) /\ Cardinality(1..(n + 1)) = n + 1
  BY <1>1, FS_Interval
<1>4. ~(1..(n + 1) \subseteq ids)
  <2>1. ASSUME 1..(n + 1) \subseteq ids PROVE FALSE
    <3>1. Cardinality(1..(n + 1)) <= Cardinality(ids) BY <1>2, <2>1, FS_Subset
    <3>2. Cardinality(ids) \in Nat BY <1>2, FS_CardinalityType
    <3>3. QED BY <1>1, <1>2, <1>3, <3>1, <3>2
  <2>2. QED BY <2>1
<1>5. \E m \in 1..(n + 1) : \A c \in connects : c.id # m BY <1>4
<1> HIDE DEF n
<1>6. FreshId \in 1..(n + 1) /\ \A c \in connects : c.id # FreshId
  BY <1>5 DEF FreshId, n
<1>7. QED BY <1>1, <1>6

\* Taking requests of the table out of it settles their promises.
LEMMA SettleKeeps ==
  ASSUME GatewayInv, NEW R \in SUBSET pending, NEW how \in {"resolved", "rejected"},
         Settle(R, how)
  PROVE  /\ pending' \subseteq Requests
         /\ wait' \in [Requests -> {"none", "current", "abandoned"}]
         /\ outcome' \in [Requests -> {"unused", "open", "resolved", "rejected"}]
         /\ PendingIsUnsettled'
BY DEF Settle, GatewayInv, GatewayTypeOK, PendingIsUnsettled

(***************************************************************************)
(* What a step does to the requests.                                       *)
(***************************************************************************)

\* Promises are rejected.
Failing(R) == R \subseteq pending /\ Settle(R, "rejected") /\ UNCHANGED <<wire, answered>>

\* Frames of requests that waited go out, or are lost.
Sending ==
  /\ wire' = [r \in Requests |-> IF r \in Waiting /\ sock[ws] = "open" THEN ws ELSE wire[r]]
  /\ wait' = [r \in Requests |-> IF r \in Waiting THEN "none" ELSE wait[r]]
  /\ UNCHANGED <<pending, outcome, answered>>

\* The gateway's last word on a request arrives, in time or too late.
Finishing(r, how) ==
  /\ wire[r] # 0 /\ r \notin answered /\ answered' = answered \cup {r}
  /\ Settle(pending \cap {r}, how) /\ UNCHANGED wire

\* The ready promise is replaced.
Forgetting ==
  /\ wait' = [r \in Requests |-> IF r \in Waiting THEN "abandoned" ELSE wait[r]]
  /\ UNCHANGED <<pending, outcome, wire, answered>>

RequestEffect ==
  \/ UNCHANGED <<requestVars, answered>>
  \/ \E R \in SUBSET Requests : Failing(R)
  \/ Sending \/ Forgetting
  \/ \E r \in Requests, how \in {"resolved", "rejected"} : Finishing(r, how)
  \/ \E r \in Requests :
       /\ outcome[r] = "unused" /\ UNCHANGED answered
       /\ RequestRefused(r) \/ RequestAccepted(r) \/ RequestThrows(r)

LEMMA WaitingIsPending ==
  ASSUME GatewayInv
  PROVE  Waiting \subseteq pending /\ pending \subseteq Requests
BY DEF GatewayInv, GatewayTypeOK, PendingIsUnsettled, Waiting

LEMMA StepsHaveEffects == ASSUME GatewayIInv, [Next]_vars PROVE RequestEffect
<1>1. GatewayInv /\ Waiting \subseteq pending /\ pending \subseteq Requests
  BY WaitingIsPending DEF GatewayIInv
<1>2. CASE UNCHANGED vars BY <1>2 DEF RequestEffect
<1>3. CASE ConnectTimer \/ CloseClient BY <1>3 DEF ConnectTimer, CloseClient, RequestEffect
<1>4. CASE Reconnect
  <2>1. CASE closed \/ terminalError BY <1>4, <2>1 DEF Reconnect, RequestEffect
  <2>2. CASE ~(closed \/ terminalError)
    BY <1>4, <2>2 DEF Reconnect, RequestEffect, Forgetting
  <2>3. QED BY <2>1, <2>2
<1>5. ASSUME NEW s \in Sockets, SocketOpen(s) \/ Challenge(s) PROVE RequestEffect
  BY <1>5 DEF SocketOpen, Challenge, RequestEffect
<1>6. ASSUME NEW s \in Sockets,
             SocketError(s) \/ \E auth \in BOOLEAN : SocketClose(s, auth)
      PROVE  RequestEffect
  <2>1. Failing(pending)
    BY <1>6 DEF SocketError, SocketClose, ConnectionLost, RejectAllPending, Failing
  <2>2. QED BY <1>1, <2>1 DEF RequestEffect
<1>7. ASSUME NEW c \in connects, NEW ok \in BOOLEAN, ConnectAnswer(c, ok)
      PROVE  RequestEffect
  <2>1. ReadyResolve \/ ReadyReject BY <1>7 DEF ConnectAnswer
  <2>2. UNCHANGED answered BY <1>7 DEF ConnectAnswer
  <2>3. CASE UNCHANGED requestVars BY <2>2, <2>3 DEF RequestEffect
  <2>4. CASE Settle(Waiting, "rejected") /\ UNCHANGED wire
    BY <1>1, <2>2, <2>4 DEF RequestEffect, Failing
  <2>5. CASE SendFrames(Waiting) /\ sock[ws] # "connecting"
    BY <2>2, <2>5 DEF SendFrames, Sending, RequestEffect
  <2>6. QED BY <2>1, <2>3, <2>4, <2>5 DEF ReadyResolve, ReadyReject, SendFrames
<1>8. ASSUME NEW r \in Requests, Request(r) PROVE RequestEffect
  BY <1>8 DEF Request, RequestEffect
<1>9. ASSUME NEW r \in Requests, Timeout(r) PROVE RequestEffect
  <2>1. Failing({r}) BY <1>9 DEF Timeout, Failing
  <2>2. QED BY <2>1 DEF RequestEffect
<1>10. ASSUME NEW r \in Requests, Accepted(r) PROVE RequestEffect
  <2>1. CASE r \in Final BY <1>10, <2>1 DEF Accepted, RequestEffect
  <2>2. CASE r \notin Final
    <3>1. Finishing(r, "resolved") BY <1>10, <2>2 DEF Accepted, Finishing
    <3>2. QED BY <3>1 DEF RequestEffect
  <2>3. QED BY <2>1, <2>2
<1>11. ASSUME NEW r \in Requests, NEW ok \in BOOLEAN, Answer(r, ok) PROVE RequestEffect
  <2>1. \E how \in {"resolved", "rejected"} : Finishing(r, how)
    BY <1>11 DEF Answer, Finishing
  <2>2. QED BY <2>1 DEF RequestEffect
<1>12. QED
  BY <1>2, <1>3, <1>4, <1>5, <1>6, <1>7, <1>8, <1>9, <1>10, <1>11 DEF Next, ClientStep

RequestTypes ==
  /\ pending \subseteq Requests /\ answered \subseteq Requests
  /\ wait \in [Requests -> {"none", "current", "abandoned"}]
  /\ wire \in [Requests -> 0..MaxSockets]
  /\ outcome \in [Requests -> {"unused", "open", "resolved", "rejected"}]

\* Every such effect keeps the table and the promises in step.
LEMMA EffectsKeepRequests ==
  ASSUME GatewayIInv, RequestEffect
  PROVE  RequestTypes' /\ PendingIsUnsettled' /\ RequestsOK'
<1>1. GatewayInv /\ GatewayTypeOK /\ RequestTypes /\ PendingIsUnsettled /\ RequestsOK
  BY DEF GatewayIInv, GatewayInv, GatewayTypeOK, RequestTypes
<1>2. ws \in 1..MaxSockets /\ MaxSockets \in Nat
  BY <1>1, GatewayAssumption DEF GatewayTypeOK, Sockets
<1>3. CASE UNCHANGED <<requestVars, answered>>
  BY <1>1, <1>3 DEF RequestTypes, PendingIsUnsettled, RequestsOK
<1>4. ASSUME NEW R \in SUBSET Requests, Failing(R)
      PROVE  RequestTypes' /\ PendingIsUnsettled' /\ RequestsOK'
  <2>1. R \in SUBSET pending /\ Settle(R, "rejected") /\ UNCHANGED <<wire, answered>>
    BY <1>4 DEF Failing
  <2>2. RequestTypes' /\ PendingIsUnsettled' BY <1>1, <2>1, SettleKeeps DEF RequestTypes
  <2>3. RequestsOK'
    BY <1>1, <2>1 DEF RequestTypes, PendingIsUnsettled, RequestsOK, Settle
  <2>4. QED BY <2>2, <2>3
<1>5. CASE Sending
  <2>1. \A r \in Waiting : outcome[r] = "open"
    BY <1>1 DEF Waiting, PendingIsUnsettled, RequestTypes
  <2>2. RequestTypes' BY <1>1, <1>2, <1>5 DEF Sending, RequestTypes
  <2>3. PendingIsUnsettled' BY <1>1, <1>5 DEF Sending, RequestTypes, PendingIsUnsettled
  <2>4. RequestsOK'
    <3>1. ASSUME NEW r \in Requests
          PROVE  /\ wire'[r] # 0 => outcome[r] # "unused"
                 /\ r \in answered => wire'[r] # 0 /\ outcome[r] # "open"
                 /\ outcome[r] = "resolved" => r \in answered
                 /\ wait'[r] # "none" => wire'[r] = 0
      <4>1. CASE r \in Waiting BY <1>1, <1>2, <1>5, <2>1, <4>1 DEF Sending, RequestsOK
      <4>2. CASE r \notin Waiting BY <1>1, <1>5, <4>2 DEF Sending, RequestsOK
      <4>3. QED BY <4>1, <4>2
    <3>2. QED BY <1>5, <3>1 DEF Sending, RequestsOK
  <2>5. QED BY <2>2, <2>3, <2>4
<1>6. CASE Forgetting
  <2>1. RequestTypes' BY <1>1, <1>6 DEF Forgetting, RequestTypes
  <2>2. \A r \in Requests : wait'[r] # "none" => wait[r] # "none"
    BY <1>6 DEF Forgetting, Waiting
  <2>3. PendingIsUnsettled' BY <1>1, <1>6, <2>2 DEF Forgetting, PendingIsUnsettled
  <2>4. RequestsOK' BY <1>1, <1>6, <2>2 DEF Forgetting, RequestsOK
  <2>5. QED BY <2>1, <2>3, <2>4
<1>7. ASSUME NEW r \in Requests, NEW how \in {"resolved", "rejected"}, Finishing(r, how)
      PROVE  RequestTypes' /\ PendingIsUnsettled' /\ RequestsOK'
  <2>1. pending \cap {r} \in SUBSET pending OBVIOUS
  <2>2. RequestTypes' /\ PendingIsUnsettled'
    BY <1>1, <1>7, <2>1, SettleKeeps DEF Finishing, RequestTypes
  <2>3. RequestsOK'
    BY <1>1, <1>7 DEF Finishing, RequestTypes, PendingIsUnsettled, RequestsOK, Settle
  <2>4. QED BY <2>2, <2>3
<1>8. ASSUME NEW r \in Requests, outcome[r] = "unused", UNCHANGED answered,
             RequestRefused(r) \/ RequestAccepted(r) \/ RequestThrows(r)
      PROVE  RequestTypes' /\ PendingIsUnsettled' /\ RequestsOK'
  <2>1. wire[r] = 0 /\ r \notin answered /\ r \notin pending /\ wait[r] = "none"
    BY <1>1, <1>8 DEF RequestsOK, PendingIsUnsettled, RequestTypes
  <2>2. CASE RequestRefused(r) \/ RequestThrows(r)
    BY <1>1, <1>8, <2>1, <2>2
    DEF RequestRefused, RequestThrows, RequestTypes, PendingIsUnsettled, RequestsOK
  <2>3. CASE RequestAccepted(r)
    <3>1. RequestTypes' BY <1>1, <1>2, <1>8, <2>3 DEF RequestAccepted, RequestTypes
    <3>2. PendingIsUnsettled'
      BY <1>1, <1>8, <2>1, <2>3 DEF RequestAccepted, RequestTypes, PendingIsUnsettled
    <3>3. RequestsOK'
      BY <1>1, <1>8, <2>1, <2>3 DEF RequestAccepted, RequestTypes, RequestsOK
    <3>4. QED BY <3>1, <3>2, <3>3
  <2>4. QED BY <1>8, <2>2, <2>3
<1>9. QED BY <1>3, <1>4, <1>5, <1>6, <1>7, <1>8 DEF RequestEffect

(***************************************************************************)
(* Sockets, the handshake and the timers.                                  *)
(***************************************************************************)

\* The types of what the requests do not touch.
ClientTypes ==
  /\ sock \in [Sockets -> {"none", "connecting", "open", "closing", "aborted",
                           "failing", "closed"}]
  /\ challenged \subseteq Sockets /\ ws \in Sockets
  /\ ready \in {"waiting", "ok", "failed"} /\ helloOk \in 0..MaxSockets
  /\ connectNonce \in 0..MaxSockets
  /\ connectSent \in BOOLEAN /\ connectTimer \in BOOLEAN /\ reconnectTimer \in BOOLEAN
  /\ closed \in BOOLEAN /\ terminalError \in BOOLEAN /\ crashed \in BOOLEAN
  /\ connects \subseteq [id: Nat \ {0}, nonce: 0..MaxSockets, on: 0..MaxSockets]
  /\ IsFiniteSet(connects)

LEMMA TypesSplit ==
  GatewayTypeOK /\ IsFiniteSet(connects) <=> ClientTypes /\ RequestTypes
BY DEF GatewayTypeOK, ClientTypes, RequestTypes

\* A connect request is added to the table, whatever nonce it signs.
LEMMA SendConnectTypes ==
  ASSUME ClientTypes, NEW nonce \in 0..MaxSockets, SendConnect(nonce)
  PROVE  /\ connectSent' \in BOOLEAN /\ connectTimer' \in BOOLEAN /\ crashed' \in BOOLEAN
         /\ connects' \subseteq [id: Nat \ {0}, nonce: 0..MaxSockets, on: 0..MaxSockets]
         /\ IsFiniteSet(connects')
<1>1. CASE connectSent BY <1>1 DEF SendConnect, ClientTypes
<1>2. CASE ~connectSent
  <2>1. FreshId \in Nat \ {0} BY FreshIdExists DEF ClientTypes
  <2>2. (IF sock[ws] = "open" THEN ws ELSE 0) \in 0..MaxSockets
    BY GatewayAssumption DEF ClientTypes, Sockets
  <2>3. ConnectRequest(nonce) \in [id: Nat \ {0}, nonce: 0..MaxSockets, on: 0..MaxSockets]
    BY <2>1, <2>2 DEF ConnectRequest
  <2>4. IsFiniteSet(connects \cup {ConnectRequest(nonce)})
    BY FS_AddElement DEF ClientTypes
  <2>5. QED BY <1>2, <2>3, <2>4 DEF SendConnect, ClientTypes
<1>3. QED BY <1>1, <1>2 DEF ClientTypes

\* All connect requests leave the table with the connection.
LEMMA ConnectionLostTypes ==
  ASSUME ConnectionLost
  PROVE  connects' = {} /\ IsFiniteSet(connects') /\ helloOk' = 0
BY FS_EmptySet DEF ConnectionLost, RejectAllPending

SocketParts == ClientTypes /\ SocketsOK /\ NeverStranded /\ HelloIsLive

LEMMA StepsKeepSockets ==
  ASSUME SocketParts, [Next]_vars
  PROVE  SocketParts'
<1> DEFINE Parts == SocketParts'
<1>1. ClientTypes /\ SocketsOK /\ NeverStranded /\ HelloIsLive BY DEF SocketParts
<1>2. MaxSockets \in Nat \ {0} /\ Sockets = 1..MaxSockets
  BY GatewayAssumption DEF Sockets
<1>3. ws \in 1..MaxSockets /\ 0 \in 0..MaxSockets BY <1>1, <1>2 DEF ClientTypes
<1> USE DEF SocketParts, ClientTypes, SocketsOK, NeverStranded, HelloIsLive
<1>4. CASE UNCHANGED <<sockVars, readyVars, handshakeVars, reconnectTimer, lifeVars>>
  BY <1>1, <1>4
<1>5. ASSUME NEW s \in Sockets, SocketOpen(s) PROVE Parts
  <2>1. /\ sock[s] = "connecting" /\ sock' = [sock EXCEPT ![s] = "open"]
        /\ connectNonce' = 0 /\ connectSent' = FALSE /\ connectTimer' = TRUE
        /\ UNCHANGED <<challenged, ws, readyVars, connects, reconnectTimer, lifeVars>>
    BY <1>5 DEF SocketOpen
  <2>2. ClientTypes' BY <1>1, <1>3, <2>1
  <2>3. SocketsOK' BY <1>1, <2>1
  <2>4. NeverStranded' /\ HelloIsLive' BY <1>1, <1>2, <2>1 DEF Alive
  <2>5. QED BY <2>2, <2>3, <2>4
<1>6. CASE ConnectTimer
  <2>1. SendConnect(connectNonce) BY <1>6 DEF ConnectTimer
  <2>2. /\ connectSent' \in BOOLEAN /\ connectTimer' \in BOOLEAN /\ crashed' \in BOOLEAN
        /\ connects' \subseteq [id: Nat \ {0}, nonce: 0..MaxSockets, on: 0..MaxSockets]
        /\ IsFiniteSet(connects')
    BY <1>1, <2>1, SendConnectTypes
  <2>3. QED BY <1>1, <1>6, <2>2 DEF ConnectTimer
<1>7. ASSUME NEW s \in Sockets, Challenge(s) PROVE Parts
  <2>1. SendConnect(s) /\ s \in 0..MaxSockets BY <1>2, <1>7 DEF Challenge
  <2>2. /\ connectSent' \in BOOLEAN /\ connectTimer' \in BOOLEAN /\ crashed' \in BOOLEAN
        /\ connects' \subseteq [id: Nat \ {0}, nonce: 0..MaxSockets, on: 0..MaxSockets]
        /\ IsFiniteSet(connects')
    BY <1>1, <2>1, SendConnectTypes
  <2>3. QED BY <1>1, <1>7, <2>1, <2>2 DEF Challenge
<1>8. ASSUME NEW c \in connects, NEW ok \in BOOLEAN, ConnectAnswer(c, ok) PROVE Parts
  <2>1. c.on \in Sockets BY <1>1, <1>2, <1>8 DEF ConnectAnswer
  <2>2. IsFiniteSet(connects \ {c}) BY <1>1, FS_RemoveElement
  <2>3. ready' \in {"waiting", "ok", "failed"}
    BY <1>1, <1>8 DEF ConnectAnswer, ReadyResolve, ReadyReject
  <2>4. helloOk' = helloOk \/ helloOk' = c.on BY <1>8 DEF ConnectAnswer
  <2>5. sock[c.on] \in {"open", "closing"} BY <1>8 DEF ConnectAnswer
  <2>6. UNCHANGED <<sockVars, connectNonce, connectSent, connectTimer,
                    reconnectTimer, lifeVars>>
        /\ connects' = connects \ {c}
    BY <1>8 DEF ConnectAnswer
  <2>7. QED BY <1>1, <1>2, <2>1, <2>2, <2>3, <2>4, <2>5, <2>6
<1>9. ASSUME NEW s \in Sockets, NEW auth \in BOOLEAN, SocketClose(s, auth) PROVE Parts
  <2>1. connects' = {} /\ IsFiniteSet(connects') /\ helloOk' = 0
    BY <1>9, ConnectionLostTypes DEF SocketClose
  <2>2. ready' \in {"waiting", "ok", "failed"} /\ terminalError' \in BOOLEAN
        /\ reconnectTimer' \in BOOLEAN
    BY <1>1, <1>9 DEF SocketClose, ScheduleReconnect
  <2>3. ClientTypes' BY <1>1, <1>3, <1>9, <2>1, <2>2 DEF SocketClose
  <2>4. SocketsOK' BY <1>1, <1>9 DEF SocketClose
  <2>5. closed' \/ terminalError' \/ reconnectTimer'
    BY <1>1, <1>9 DEF SocketClose, ScheduleReconnect
  <2>6. QED BY <2>1, <2>3, <2>4, <2>5
<1>10. ASSUME NEW s \in Sockets, SocketError(s) PROVE Parts
  <2>1. connects' = {} /\ IsFiniteSet(connects') /\ helloOk' = 0
    BY <1>10, ConnectionLostTypes DEF SocketError
  <2>2. reconnectTimer' \in BOOLEAN BY <1>1, <1>10 DEF SocketError, ScheduleReconnect
  <2>3. ClientTypes' BY <1>1, <1>3, <1>10, <2>1, <2>2 DEF SocketError
  <2>4. SocketsOK' BY <1>1, <1>10 DEF SocketError
  <2>5. closed' \/ terminalError' \/ reconnectTimer'
    BY <1>1, <1>10 DEF SocketError, ScheduleReconnect
  <2>6. QED BY <2>1, <2>3, <2>4, <2>5
<1>11. CASE Reconnect
  <2>1. CASE closed \/ terminalError BY <1>1, <1>11, <2>1 DEF Reconnect
  <2>2. CASE ~(closed \/ terminalError)
    <3>1. /\ ws < MaxSockets /\ ws' = ws + 1 /\ reconnectTimer' = FALSE
          /\ sock' = [sock EXCEPT ![ws + 1] = "connecting"]
          /\ ready' = "waiting" /\ connectNonce' = 0 /\ connectSent' = FALSE
          /\ connectTimer' = FALSE
          /\ UNCHANGED <<challenged, helloOk, connects, lifeVars>>
      BY <1>11, <2>2 DEF Reconnect
    <3>2. ws + 1 \in Sockets /\ sock[ws + 1] = "none" BY <1>1, <1>2, <1>3, <3>1
    <3>3. ClientTypes' BY <1>1, <1>3, <3>1, <3>2
    <3>4. SocketsOK' BY <1>1, <1>2, <1>3, <3>1
    <3>5. sock'[ws'] = "connecting" BY <1>1, <3>1, <3>2
    <3>6. HelloIsLive' BY <1>1, <1>2, <3>1, <3>2
    <3>7. QED BY <3>3, <3>4, <3>5, <3>6 DEF Alive
  <2>3. QED BY <2>1, <2>2
<1>12. CASE CloseClient
  <2>1. /\ sock' \in [Sockets -> {"none", "connecting", "open", "closing", "aborted",
                                  "failing", "closed"}]
        /\ \A s \in Sockets : s # ws => sock'[s] = sock[s]
        /\ sock[ws] \in {"open", "closing"} => sock'[ws] = "closing"
    BY <1>1, <1>12 DEF CloseClient
  <2>2. /\ closed' = TRUE /\ connectTimer' = FALSE /\ reconnectTimer' = FALSE
        /\ UNCHANGED <<challenged, ws, readyVars, connectNonce, connectSent, connects,
                       terminalError, crashed>>
    BY <1>12 DEF CloseClient
  <2>3. ClientTypes' BY <1>1, <2>1, <2>2
  <2>4. SocketsOK'
    <3>1. \A s \in Sockets : s > ws => s # ws BY <1>2, <1>3
    <3>2. QED BY <1>1, <2>1, <2>2, <3>1
  <2>5. HelloIsLive'
    <3>1. CASE helloOk = ws BY <1>1, <2>1, <2>2, <3>1
    <3>2. CASE helloOk # ws BY <1>1, <1>2, <2>1, <2>2, <3>2
    <3>3. QED BY <3>1, <3>2
  <2>6. QED BY <2>2, <2>3, <2>4, <2>5
<1>13. ASSUME NEW r \in Requests,
              Request(r) \/ Timeout(r) \/ Accepted(r) \/ \E ok \in BOOLEAN : Answer(r, ok)
       PROVE  Parts
  BY <1>4, <1>13 DEF Request, Timeout, Accepted, Answer
<1>14. QED
  BY <1>4, <1>5, <1>6, <1>7, <1>8, <1>9, <1>10, <1>11, <1>12, <1>13 DEF Next, ClientStep

(***************************************************************************)
(* The results.                                                            *)
(***************************************************************************)

LEMMA GatewayStarts == Init => GatewayIInv
<1> SUFFICES ASSUME Init PROVE GatewayIInv OBVIOUS
<1>1. 1 \in Sockets /\ MaxSockets \in Nat BY GatewayAssumption DEF Sockets
<1>2. GatewayTypeOK /\ IsFiniteSet(connects)
  <2>1. ClientTypes
    <3>1. sock \in [Sockets -> {"none", "connecting", "open", "closing", "aborted",
                                "failing", "closed"}]
      BY DEF Init
    <3>2. connects = {} /\ IsFiniteSet(connects) BY FS_EmptySet DEF Init
    <3>3. 0 \in 0..MaxSockets BY <1>1
    <3>4. QED BY <1>1, <3>1, <3>2, <3>3 DEF Init, ClientTypes
  <2>2. RequestTypes BY <1>1 DEF Init, RequestTypes
  <2>3. QED BY <2>1, <2>2, TypesSplit
<1>3. PendingIsUnsettled /\ RequestsOK BY DEF Init, PendingIsUnsettled, RequestsOK
<1>4. SocketsOK BY DEF Init, SocketsOK, Sockets
<1>5. NeverStranded /\ HelloIsLive
  BY <1>1 DEF Init, NeverStranded, HelloIsLive, Alive
<1>6. QED BY <1>2, <1>3, <1>4, <1>5 DEF GatewayIInv, GatewayInv

LEMMA GatewaySteps == GatewayIInv /\ [Next]_vars => GatewayIInv'
<1> SUFFICES ASSUME GatewayIInv, [Next]_vars PROVE GatewayIInv' OBVIOUS
<1>1. RequestTypes' /\ PendingIsUnsettled' /\ RequestsOK'
  BY StepsHaveEffects, EffectsKeepRequests
<1>2. SocketParts BY TypesSplit DEF GatewayIInv, GatewayInv, SocketParts
<1>3. SocketParts' BY <1>2, StepsKeepSockets
<1>4. GatewayTypeOK' /\ IsFiniteSet(connects)' 
  BY <1>1, <1>3 DEF SocketParts, GatewayTypeOK, ClientTypes, RequestTypes
<1>5. QED BY <1>1, <1>3, <1>4 DEF GatewayIInv, GatewayInv, SocketParts

THEOREM GatewayIsInductive == Spec => []GatewayIInv
BY GatewayStarts, GatewaySteps, PTL DEF Spec

\* The tables of the client keep their types, and a request stands in the
\* table of pending requests exactly while its promise is open.
THEOREM TableAndPromisesAgree == Spec => []GatewayInv
<1>1. GatewayIInv => GatewayInv BY DEF GatewayIInv
<1>2. QED BY GatewayIsInductive, <1>1, PTL

\* The client always has a way back to the gateway.
THEOREM ClientHasAWayBack == Spec => []NeverStranded
<1>1. GatewayIInv => NeverStranded BY DEF GatewayIInv
<1>2. QED BY GatewayIsInductive, <1>1, PTL

\* A handshake counts only while its own socket is up.
THEOREM HandshakeIsLive == Spec => []HelloIsLive
<1>1. GatewayIInv => HelloIsLive BY DEF GatewayIInv
<1>2. QED BY GatewayIsInductive, <1>1, PTL

(***************************************************************************)
(* The client implements the promise to its callers.                       *)
(***************************************************************************)

\* In the states that occur the stage follows from the promise and the wire.
LEMMA StageValues ==
  ASSUME RequestTypes, RequestsOK, NEW r \in Requests
  PROVE  /\ outcome[r] = "unused" => Stage(r) = "idle"
         /\ (outcome[r] = "open" /\ wire[r] = 0) => Stage(r) = "queued"
         /\ (outcome[r] = "open" /\ wire[r] # 0) => Stage(r) = "sent"
         /\ outcome[r] = "resolved" => Stage(r) = "answered"
         /\ outcome[r] = "rejected" => Stage(r) = "failed"
BY DEF RequestTypes, RequestsOK, Stage

\* A request that nothing happened to stands as before.
LEMMA StageKept ==
  ASSUME NEW r \in Requests, outcome'[r] = outcome[r], wire'[r] = wire[r],
         r \in answered' <=> r \in answered
  PROVE  Stage(r)' = Stage(r)
BY DEF Stage

Stages == [r \in Requests |-> Stage(r)]

\* To show that the requests R advance, their stages before and after suffice.
LEMMA AdvanceSuffices ==
  ASSUME NEW R \in SUBSET Requests, NEW from, NEW to,
         \A r \in R : Stage(r) \in from /\ Stage(r)' = to,
         \A r \in Requests \ R : Stage(r)' = Stage(r)
  PROVE  Call!Advance(R, from, to)
BY DEF Call!Advance

LEMMA FailingIsFail ==
  ASSUME GatewayIInv, RequestTypes', RequestsOK', NEW R \in SUBSET Requests, Failing(R)
  PROVE  Call!CallNext
<1>1. RequestTypes /\ RequestsOK /\ PendingIsUnsettled
  BY DEF GatewayIInv, GatewayInv, GatewayTypeOK, RequestTypes
<1>2. /\ R \subseteq pending /\ UNCHANGED <<wire, answered>>
      /\ outcome' = [r \in Requests |-> IF r \in R THEN "rejected" ELSE outcome[r]]
  BY DEF Failing, Settle
<1>3. \A r \in R : Stage(r) \in {"idle", "queued", "sent"}
  BY <1>1, <1>2, StageValues DEF PendingIsUnsettled
<1>4. \A r \in R : Stage(r)' = "failed" BY <1>2 DEF Stage
<1>5. \A r \in Requests \ R : Stage(r)' = Stage(r) BY <1>2, StageKept
<1>6. Call!Fail(R) BY <1>3, <1>4, <1>5, AdvanceSuffices DEF Call!Fail
<1>7. QED BY <1>6 DEF Call!CallNext

LEMMA SendingIsSend ==
  ASSUME GatewayIInv, RequestTypes', RequestsOK', Sending
  PROVE  [Call!CallNext]_Stages
<1>1. RequestTypes /\ RequestsOK /\ PendingIsUnsettled /\ GatewayTypeOK
  BY DEF GatewayIInv, GatewayInv, GatewayTypeOK, RequestTypes
<1>2. \A r \in Waiting : outcome[r] = "open" /\ wire[r] = 0
  BY <1>1 DEF Waiting, PendingIsUnsettled, RequestTypes, RequestsOK
<1>3. UNCHANGED <<outcome, answered>> BY DEF Sending
<1>4. \A r \in Requests \ Waiting : Stage(r)' = Stage(r)
  BY <1>3, StageKept DEF Sending
<1>5. CASE sock[ws] = "open"
  <2>1. ws # 0 BY <1>1 DEF GatewayTypeOK, Sockets
  <2>2. \A r \in Waiting : Stage(r) \in {"idle", "queued"} BY <1>1, <1>2, StageValues DEF Waiting
  <2>3. \A r \in Waiting : Stage(r)' = "sent"
    <3>1. ASSUME NEW r \in Waiting PROVE Stage(r)' = "sent"
      <4>1. outcome'[r] = "open" /\ wire'[r] = ws /\ r \notin answered'
        BY <1>1, <1>2, <1>3, <1>5, <3>1 DEF Sending, Waiting, RequestsOK
      <4>2. QED BY <2>1, <4>1 DEF Stage
    <3>2. QED BY <3>1
  <2>4. Waiting \in SUBSET Requests BY DEF Waiting
  <2>5. Call!Send(Waiting) BY <1>4, <2>2, <2>3, <2>4, AdvanceSuffices DEF Call!Send
  <2>6. QED BY <2>4, <2>5 DEF Call!CallNext
<1>6. CASE sock[ws] # "open"
  <2>1. \A r \in Waiting : Stage(r)' = Stage(r)
    BY <1>1, <1>3, <1>6, StageKept DEF Sending, Waiting, RequestTypes
  <2>2. QED BY <1>4, <2>1 DEF Stages
<1>7. QED BY <1>5, <1>6

LEMMA FinishingIsAnswerOrFail ==
  ASSUME GatewayIInv, NEW r \in Requests, NEW how \in {"resolved", "rejected"},
         Finishing(r, how)
  PROVE  [Call!CallNext]_Stages
<1>1. RequestTypes /\ RequestsOK /\ PendingIsUnsettled
  BY DEF GatewayIInv, GatewayInv, GatewayTypeOK, RequestTypes
<1>2. /\ wire[r] # 0 /\ r \notin answered /\ answered' = answered \cup {r} /\ wire' = wire
      /\ outcome' = [q \in Requests |-> IF q \in pending \cap {r} THEN how ELSE outcome[q]]
  BY DEF Finishing, Settle
<1>3. \A q \in Requests \ {r} : Stage(q)' = Stage(q) BY <1>2, StageKept
<1>4. CASE r \in pending
  <2>1. Stage(r) = "sent" BY <1>1, <1>2, <1>4, StageValues DEF PendingIsUnsettled
  <2>2. outcome'[r] = how /\ r \in answered' BY <1>2, <1>4
  <2>3. CASE how = "resolved"
    <3>1. Stage(r)' = "answered" BY <2>2, <2>3 DEF Stage
    <3>2. Call!Answered(r) BY <1>3, <2>1, <3>1, AdvanceSuffices DEF Call!Answered
    <3>3. QED BY <3>2 DEF Call!CallNext
  <2>4. CASE how = "rejected"
    <3>1. Stage(r)' = "failed" BY <2>2, <2>4 DEF Stage
    <3>2. Call!Fail({r}) BY <1>3, <2>1, <3>1, AdvanceSuffices DEF Call!Fail
    <3>3. QED BY <3>2 DEF Call!CallNext
  <2>5. QED BY <2>3, <2>4
<1>5. CASE r \notin pending
  <2>1. outcome[r] = "rejected"
    BY <1>1, <1>2, <1>5 DEF RequestTypes, RequestsOK, PendingIsUnsettled
  <2>2. outcome'[r] = "rejected" BY <1>2, <1>5, <2>1
  <2>3. Stage(r)' = Stage(r) BY <2>1, <2>2 DEF Stage
  <2>4. QED BY <1>3, <2>3 DEF Stages
<1>6. QED BY <1>4, <1>5

LEMMA AskingIsQueueSendOrFail ==
  ASSUME GatewayIInv, NEW r \in Requests, outcome[r] = "unused", UNCHANGED answered,
         RequestRefused(r) \/ RequestAccepted(r) \/ RequestThrows(r)
  PROVE  Call!CallNext
<1>1. RequestTypes /\ RequestsOK /\ GatewayTypeOK
  BY DEF GatewayIInv, GatewayInv, GatewayTypeOK, RequestTypes
<1>2. Stage(r) = "idle" BY <1>1, StageValues
<1>3. wire[r] = 0 /\ r \notin answered BY <1>1 DEF RequestsOK
<1>4. \A q \in Requests \ {r} : Stage(q)' = Stage(q)
  <2>1. \A q \in Requests \ {r} : outcome'[q] = outcome[q] /\ wire'[q] = wire[q]
    BY <1>1 DEF RequestRefused, RequestAccepted, RequestThrows, RequestTypes
  <2>2. QED BY <2>1, StageKept
<1>5. CASE RequestRefused(r) \/ RequestThrows(r)
  <2>1. outcome'[r] = "rejected"
    BY <1>1, <1>5 DEF RequestRefused, RequestThrows, RequestTypes
  <2>2. Stage(r)' = "failed" BY <2>1 DEF Stage
  <2>3. Call!Fail({r}) BY <1>2, <1>4, <2>2, AdvanceSuffices DEF Call!Fail
  <2>4. QED BY <2>3 DEF Call!CallNext
<1>6. CASE RequestAccepted(r)
  <2>1. outcome'[r] = "open" /\ r \notin answered'
    BY <1>1, <1>3, <1>6 DEF RequestAccepted, RequestTypes
  <2>2. CASE wire'[r] = 0
    <3>1. Stage(r)' = "queued" BY <2>1, <2>2 DEF Stage
    <3>2. Call!Queue(r) BY <1>2, <1>4, <3>1, AdvanceSuffices DEF Call!Queue
    <3>3. QED BY <3>2 DEF Call!CallNext
  <2>3. CASE wire'[r] # 0
    <3>1. Stage(r)' = "sent" BY <2>1, <2>3 DEF Stage
    <3>2. Call!Send({r}) BY <1>2, <1>4, <3>1, AdvanceSuffices DEF Call!Send
    <3>3. QED BY <3>2 DEF Call!CallNext
  <2>4. QED BY <2>2, <2>3
<1>7. QED BY <1>5, <1>6

\* Each request is sent at most once and ends at most once, with an answer
\* only if the gateway gave it to this request: CallSpec.
THEOREM ClientImplementsCall == Spec => CallSpec
<1>1. Init => Call!CallInit
  <2> SUFFICES ASSUME Init PROVE Call!CallInit OBVIOUS
  <2>1. \A r \in Requests : outcome[r] = "unused" BY DEF Init
  <2>2. \A r \in Requests : Stage(r) = "idle" BY <2>1 DEF Stage
  <2>3. QED BY <2>2 DEF Call!CallInit
<1>2. GatewayIInv /\ [Next]_vars => [Call!CallNext]_Stages
  <2> SUFFICES ASSUME GatewayIInv, [Next]_vars PROVE [Call!CallNext]_Stages OBVIOUS
  <2>1. RequestEffect /\ RequestTypes' /\ RequestsOK'
    BY StepsHaveEffects, EffectsKeepRequests
  <2>2. CASE UNCHANGED <<outcome, wire, answered>>
    <3>1. \A r \in Requests : Stage(r)' = Stage(r) BY <2>2, StageKept
    <3>2. QED BY <3>1 DEF Stages
  <2>3. CASE UNCHANGED <<requestVars, answered>> \/ Forgetting
    BY <2>2, <2>3 DEF Forgetting
  <2>4. ASSUME NEW R \in SUBSET Requests, Failing(R) PROVE [Call!CallNext]_Stages
    BY <2>1, <2>4, FailingIsFail
  <2>5. CASE Sending BY <2>1, <2>5, SendingIsSend
  <2>6. ASSUME NEW r \in Requests, NEW how \in {"resolved", "rejected"}, Finishing(r, how)
        PROVE  [Call!CallNext]_Stages
    BY <2>6, FinishingIsAnswerOrFail
  <2>7. ASSUME NEW r \in Requests, outcome[r] = "unused", UNCHANGED answered,
               RequestRefused(r) \/ RequestAccepted(r) \/ RequestThrows(r)
        PROVE  [Call!CallNext]_Stages
    BY <2>7, AskingIsQueueSendOrFail
  <2>8. QED BY <2>1, <2>3, <2>4, <2>5, <2>6, <2>7 DEF RequestEffect
<1>3. QED BY <1>1, <1>2, GatewayIsInductive, PTL DEF Spec, CallSpec, Call!CallSpec, Stages
=============================================================================
