--------------------------- MODULE SelectorGrammar ---------------------------
(***************************************************************************)
(* What a selector text means, as a grammar: commas join expressions, an   *)
(* expression is one of the six forms of docs/cli.md, blanks and empty     *)
(* pieces do not count.  A text may be derived in any way the grammar      *)
(* allows; nothing says in which order to look, or how to find the commas  *)
(* between expressions.                                                    *)
(***************************************************************************)
EXTENDS Selectors

\* "!=" is one mark when nothing stands between its two characters.
Glue(s) ==
  [i \in DOMAIN s |->
     IF s[i] = "!" /\ i < Len(s) /\ s[i + 1] = "=" THEN "!="
     ELSE IF s[i] = "=" /\ i > 1 /\ s[i - 1] = "!" THEN " " ELSE s[i]]
Solid(s) == SelectSeq(Glue(s), LAMBDA x : x # " ")

From(q, i) == SubSeq(q, i, Len(q))
ValueOf(q) == IF q = <<>> THEN EmptyWord ELSE q[1]
IsValueText(q) == q = <<>> \/ (Len(q) = 1 /\ ValidValue(q[1]))
IsValueList(q) ==
  /\ \A i \in DOMAIN q : q[i] = "," \/ ValidValue(q[i])
  /\ \A i \in 1..(Len(q) - 1) : q[i] = "," \/ q[i + 1] = ","
  /\ \E i \in DOMAIN q : q[i] # ","

Form(op, key, values) == [op |-> op, key |-> key, values |-> values]

\* The requirements a text without blanks can be read as.
Readings(q) ==
  (IF Len(q) = 1 /\ ValidKey(q[1]) THEN {Form("exists", q[1], {})} ELSE {})
  \cup (IF Len(q) = 2 /\ q[1] = "!" /\ ValidKey(q[2])
        THEN {Form("doesNotExist", q[2], {})} ELSE {})
  \cup (IF Len(q) >= 2 /\ ValidKey(q[1]) /\ q[2] \in {"=", "!="} /\ IsValueText(From(q, 3))
        THEN {Form(IF q[2] = "=" THEN "eq" ELSE "neq", q[1], {ValueOf(From(q, 3))})} ELSE {})
  \cup (IF /\ Len(q) >= 5 /\ ValidKey(q[1]) /\ q[2] \in {InWord, NotinWord}
           /\ q[3] = "(" /\ Last(q) = ")" /\ IsValueList(Front(From(q, 4)))
        THEN {Form(IF q[2] = InWord THEN "in" ELSE "notin", q[1],
                   ToSet(Front(From(q, 4))) \ {","})} ELSE {})

Piece(s) == IF Solid(s) = <<>> THEN {<<>>} ELSE {<<r>> : r \in Readings(Solid(s))}

\* All the lists of requirements a text can be derived from.
Denotes(t) ==
  LET from[i \in 1..(Len(t) + 1)] ==
        Piece(From(t, i))
        \cup UNION {{a \o b : a \in Piece(SubSeq(t, i, c - 1)), b \in from[c + 1]} :
                    c \in {k \in Positions(t, ",") : k >= i}}
  IN from[1]

\* The parser finds the one meaning of a text, and refuses a text without one.
MeansWhatItSays(t) ==
  LET p == ParseLabelSelector(t) IN Denotes(t) = IF p = Invalid THEN {} ELSE {p}

\* An operator and its negation divide the instances between them, those without
\* the label included.
Negation(op) ==
  CASE op = "exists" -> "doesNotExist" [] op = "doesNotExist" -> "exists"
    [] op = "eq" -> "neq" [] op = "neq" -> "eq"
    [] op = "in" -> "notin" [] op = "notin" -> "in"
=============================================================================
