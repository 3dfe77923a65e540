--------------------------- MODULE MCGatewayClient ---------------------------
EXTENDS GatewayClient

CONSTANTS r1, r2

MCRequests == {r1, r2}
MCFinal == {r2}
MCTimed == {r1}
=============================================================================
