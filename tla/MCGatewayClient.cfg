\* Two requests over three sockets, one of them waiting for the final answer and
\* without a timer.
SPECIFICATION FairSpec
CONSTANTS
  r1 = r1  r2 = r2
  Requests <- MCRequests
  Final <- MCFinal
  Timed <- MCTimed
  MaxSockets = 3
INVARIANTS
  GatewayInv
  NeverStranded
  HelloIsLive
PROPERTIES
  CallSpec
  EveryRequestEnds
  Reconnects
\* A client that was closed, or is out of sockets, may come to rest.
CHECK_DEADLOCK FALSE
