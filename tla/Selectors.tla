------------------------------ MODULE Selectors ------------------------------
(***************************************************************************)
(* Label selectors: the parser and the matcher of label-selector.ts and    *)
(* the rules for keys and values of k8s-labels.ts, as operators.           *)
(*                                                                         *)
(* A text is a sequence of tokens: marks, blanks and words.  What matters  *)
(* of a word is the shape of its parts, the pieces between its slashes.    *)
(* Two words are never adjacent (they would be one).  The operators of a   *)
(* set expression are words, too, and may serve as keys.                   *)
(***************************************************************************)
EXTENDS Integers, Sequences, FiniteSets, SequencesExt

CONSTANTS
  Words,
  Shape,          \* of a word: the sequence of its parts
  InWord, NotinWord,
  EmptyWord,      \* the empty value
  Invalid         \* what the parser answers to a text it refuses

Marks == {"(", ")", ",", "!", "="}
Token == Marks \cup {" "} \cup Words

\* A part: its length, whether it has only the characters of a name, a letter or
\* digit at both ends, and whether each of its dns labels is a legal one.
Part == [length : Nat, name : BOOLEAN, dns : BOOLEAN]

ASSUME SelectorsAssumption ==
  /\ InWord \in Words /\ NotinWord \in Words /\ EmptyWord \notin Words
  /\ Shape \in [Words -> Seq(Part)]

(***************************************************************************)
(* k8s-labels.ts                                                           *)
(***************************************************************************)

ValidName(p) == p.length \in 1..63 /\ p.name
ValidPrefix(p) == p.length \in 1..253 /\ p.dns

ValidKey(w) ==
  /\ w \in Words
  /\ Len(Shape[w]) \in 1..2
  /\ ValidName(Last(Shape[w]))
  /\ Len(Shape[w]) = 2 => ValidPrefix(Shape[w][1])

ValidValue(w) == w = EmptyWord \/ (w \in Words /\ Len(Shape[w]) = 1 /\ ValidName(Shape[w][1]))

(***************************************************************************)
(* label-selector.ts: parsing.                                             *)
(***************************************************************************)

Positions(t, x) == {i \in DOMAIN t : t[i] = x}
IsWord(s) == Len(s) = 1 /\ s[1] \in Words

Trim(t) ==
  LET B == {i \in DOMAIN t : t[i] # " "}
  IN IF B = {} THEN <<>>
     ELSE SubSeq(t, CHOOSE i \in B : \A j \in B : i <= j, CHOOSE i \in B : \A j \in B : j <= i)

\* The k-th of a set of numbers.
Nth(S, k) == CHOOSE p \in S : Cardinality({q \in S : q <= p}) = k

\* The pieces between the commas at the positions C, trimmed, without empty ones:
\* a piece starts at a position whose predecessor is a comma or nothing.
SplitAt(t, C) ==
  LET commaAfter(p) == CHOOSE c \in C \cup {Len(t) + 1} :
                         p <= c /\ \A d \in C : p <= d => c <= d
      pieceFrom(p) == IF p - 1 \in C \cup {0} THEN Trim(SubSeq(t, p, commaAfter(p) - 1)) ELSE <<>>
      starts == {p \in DOMAIN t : pieceFrom(p) # <<>>}
  IN [k \in 1..Cardinality(starts) |-> pieceFrom(Nth(starts, k))]

\* splitTopLevelCommas
Depth(t, i) ==
  Cardinality({j \in Positions(t, "(") : j <= i}) - Cardinality({j \in Positions(t, ")") : j <= i})
Balanced(t) == (\A i \in DOMAIN t : Depth(t, i) >= 0) /\ Depth(t, Len(t)) = 0
EveryComma(t) == Positions(t, ",")
TopCommas(t) == {i \in Positions(t, ",") : Depth(t, i) = 0}

\* parseKey, parseValue, parseValues
KeyIn(s) == IF IsWord(Trim(s)) /\ ValidKey(Trim(s)[1]) THEN Trim(s)[1] ELSE Invalid
ValueIn(s) ==
  IF Trim(s) = <<>> THEN EmptyWord
  ELSE IF IsWord(Trim(s)) /\ ValidValue(Trim(s)[1]) THEN Trim(s)[1] ELSE Invalid
ValuesIn(s) ==
  LET parts == SplitAt(s, Positions(s, ","))
  IN IF parts # <<>> /\ \A k \in DOMAIN parts : IsWord(parts[k]) /\ ValidValue(parts[k][1])
     THEN {parts[k][1] : k \in DOMAIN parts} ELSE {}

Requirement(op, key, values) ==
  IF key = Invalid \/ Invalid \in values THEN Invalid
  ELSE [op |-> op, key |-> key, values |-> values]

\* The regular expression of "key in (values)": where "in" may be and what
\* bracket follows it; the first that fits.
NextSolid(e, k) == {i \in DOMAIN e : k < i /\ e[i] # " " /\ \A j \in (k + 1)..(i - 1) : e[j] = " "}
SetWords(e) ==
  {k \in 3..Len(e) : /\ e[k] \in {InWord, NotinWord} /\ e[k - 1] = " "
                     /\ \E b \in NextSolid(e, k) : e[b] = "(" /\ b < Len(e)
                     /\ Last(e) = ")"}
FirstOfSet(S) == CHOOSE k \in S : \A j \in S : k <= j

SetRequirement(e) ==
  LET a == FirstOfSet(SetWords(e))
      b == CHOOSE i \in NextSolid(e, a) : TRUE
      values == ValuesIn(SubSeq(e, b + 1, Len(e) - 1))
  IN IF values = {} THEN Invalid
     ELSE Requirement(IF e[a] = InWord THEN "in" ELSE "notin", KeyIn(SubSeq(e, 1, a - 1)), values)

EqualsOnly(e) == {}
NotEquals(e) == {i \in Positions(e, "!") : i < Len(e) /\ e[i + 1] = "="}

Comparison(op, e, at, length) ==
  Requirement(op, KeyIn(SubSeq(e, 1, at - 1)), {ValueIn(SubSeq(e, at + length, Len(e)))})

\* One expression, trimmed and not empty, in the order in which the code tries.
ParseExpression(e) ==
  IF e[1] = "!" THEN Requirement("doesNotExist", KeyIn(Tail(e)), {})
  ELSE IF SetWords(e) # {} THEN SetRequirement(e)
  ELSE IF NotEquals(e) # {} THEN Comparison("neq", e, FirstOfSet(NotEquals(e)), 2)
  ELSE IF Positions(e, "=") # {} THEN Comparison("eq", e, FirstOfSet(Positions(e, "=")), 1)
  ELSE Requirement("exists", KeyIn(e), {})

ParseLabelSelector(t) ==
  LET parts == SplitAt(t, TopCommas(t))
      reqs == [k \in DOMAIN parts |-> ParseExpression(parts[k])]
  IN IF Balanced(t) /\ \A k \in DOMAIN reqs : reqs[k] # Invalid THEN reqs ELSE Invalid

(***************************************************************************)
(* label-selector.ts: matching.  An instance's labels are a function.      *)
(***************************************************************************)

Has(labels, key, values) == key \in DOMAIN labels /\ labels[key] \in values

MatchesOnlyPresent(r, labels) ==
  IF r.op = "doesNotExist" THEN r.key \notin DOMAIN labels
  ELSE r.key \in DOMAIN labels /\ (r.op \in {"neq", "notin"} => labels[r.key] \notin r.values)
                               /\ (r.op \in {"eq", "in"} => labels[r.key] \in r.values)
MatchesRequirement(r, labels) ==
  CASE r.op = "exists" -> r.key \in DOMAIN labels
    [] r.op = "doesNotExist" -> r.key \notin DOMAIN labels
    [] r.op \in {"eq", "in"} -> Has(labels, r.key, r.values)
    [] r.op \in {"neq", "notin"} -> ~Has(labels, r.key, r.values)

MatchLabelSelector(reqs, labels) == \A k \in DOMAIN reqs : MatchesRequirement(reqs[k], labels)
=============================================================================
