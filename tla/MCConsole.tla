------------------------------ MODULE MCConsole ------------------------------
EXTENDS Console

CONSTANTS k, v, bad, in, notin, system, i1, i2, x, y, e, k1

\* The managed file is there on one instance and missing on the other.
Originals == [i \in Instances |-> [f \in Files |-> IF i = i1 THEN x ELSE IF f = 1 THEN y ELSE e]]

P(n, a, b) == [length |-> n, name |-> a, dns |-> b]
Shapes ==
  [w \in Words |->
     CASE w = k      -> <<P(15, TRUE, TRUE), P(3, TRUE, TRUE)>>
       [] w = bad    -> <<P(15, TRUE, TRUE), P(0, FALSE, FALSE)>>
       [] w = system -> <<P(11, TRUE, TRUE), P(3, TRUE, TRUE)>>
       [] OTHER      -> <<P(2, TRUE, TRUE)>>]

OneRow == <<[selector |-> <<k>>, note |-> NoNote]>>
Forms == {<<k>>, <<bad>>, <<" ">>}
Starts == {<<k, " ", in, "(">>, <<k, " ", notin, " ", "(">>, <<bad>>}
=============================================================================
