----------------------------- MODULE GatewayCall -----------------------------
(***************************************************************************)
(* What a caller of the gateway client is promised for each request: the   *)
(* request goes out at most once, and it ends at most once, with the       *)
(* answer the gateway gave to this very request or with an error.          *)
(***************************************************************************)

CONSTANT Requests

VARIABLE stage   \* of each request: "idle", "queued", "sent", "answered", "failed"

CallInit == stage = [r \in Requests |-> "idle"]

Advance(R, from, to) ==
  /\ \A r \in R : stage[r] \in from
  /\ stage' = [r \in Requests |-> IF r \in R THEN to ELSE stage[r]]

\* A request may go out as soon as it is made, or wait with others.
Queue(r) == Advance({r}, {"idle"}, "queued")
Send(R) == Advance(R, {"idle", "queued"}, "sent")
Answered(r) == Advance({r}, {"sent"}, "answered")
Fail(R) == Advance(R, {"idle", "queued", "sent"}, "failed")

CallNext ==
  \/ \E r \in Requests : Queue(r) \/ Answered(r)
  \/ \E R \in SUBSET Requests : Send(R) \/ Fail(R)

CallSpec == CallInit /\ [][CallNext]_stage
=============================================================================
