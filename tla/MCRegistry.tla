------------------------------ MODULE MCRegistry ------------------------------
EXTENDS Registry

CONSTANTS h1, h2, a, b

MCHostName == [h \in Hosts |-> IF h = h1 THEN a ELSE b]
=============================================================================
