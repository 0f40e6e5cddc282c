------------------------------- MODULE MCValues -------------------------------
(***************************************************************************)
(* A byte has 2 bits: INTEGER is -8 .. 7, a literal and a 64 bit register  *)
(* have 16 bits, and the immediate of MOVQI 2.  Every operator is tried on *)
(* variables of every two types, and with literals on both sides; and      *)
(* short texts of pieces that a scanner may take wrongly.                  *)
(***************************************************************************)
EXTENDS Values

\* "\n" for the end of a line.
Chars(s) == [i \in 1 .. Len(s) |->
               IF SubSeq(s, i, i) = "\n" THEN "nl" ELSE SubSeq(s, i, i)]
CharsOf(S) == {Chars(s) : s \in S}

Types == {I(s) : s \in {1, 2, 4, 8}} \cup {U(s) : s \in {1, 2, 4, 8}}
Typing(a, b) == [v \in {"a", "b"} |-> IF v = "a" THEN a ELSE b]

Ops == {"+", "-", "*", " div ", " mod ", " and ", " or ", " xor ", " shl ", " shr ", " asr ",
        "<", ">", "<=", ">=", "=", "<>"}
Arith == {"+", "-", "*", " div ", " mod ", " xor ", " shl ", " shr ", " asr "}

Assigned(v, Xs) == {v \o ":=" \o x : x \in Xs}
Both(L, O, R) == {l \o o \o r : l \in L, o \in O, r \in R}

\* Variables of every two types; with a literal, or two, into two kinds of
\* variables; and into a Boolean.
OfTypes(name, length, TA, TB) ==
  {[types |-> Typing(a, b), script |-> name, length |-> length] : a \in TA, b \in TB}
MCSessions ==
  OfTypes("two", 3, Types, Types) \cup OfTypes("literal", 2, Types, {U(2), I(8)})
    \cup OfTypes("compare", 2, Types, {Boolean}) \cup OfTypes("scanned", 1, {I(2)}, {I(2)})

Pieces == {" ", "\n", "a", "e", "x", "0", ".", "..", "1.5", "$f", "%1", "&", "'", "#1",
           "{", "}", "(*", "*)", "//", ":", "=", "<", "+"}

MCTexts(script, i) ==
  CharsOf(
    CASE script = "two" /\ i = 1 -> Assigned("a", {"-$80", "-2", "%11"})
      [] script = "two" /\ i = 2 -> Assigned("b", {"-1", "12"})
      [] script = "two" /\ i = 3 -> Assigned("a", Both({"a"}, Ops, {"b"}))
                                    \cup Assigned("b", {"a", "-a", "not a"})
      [] script = "literal" /\ i = 1 -> Assigned("a", {"1", "-2", "-$64", "200"})
      [] script = "literal" /\ i = 2 ->
           Assigned("b", Both({"a", "-a"}, Arith, {"1", "2", "-1", "5", "200"})
                           \cup Both({"3", "-200"}, Arith, {"a"})
                           \cup Both({"6", "-5"}, Arith, {"0", "1", "-3"}))
      [] script = "compare" /\ i = 1 -> Assigned("a", {"1", "-2", "7"})
      [] script = "compare" /\ i = 2 -> Assigned("b", Both({"a", "-3", "2"}, Ops, {"a", "-3", "2"}))
      [] script = "scanned" ->
           Both(Pieces, Pieces, Pieces) \cup {p \o q : p \in Pieces, q \in Pieces})
MCGarbage == {43690}
===============================================================================
