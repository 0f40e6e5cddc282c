------------------------------- MODULE MCCodegen -------------------------------
EXTENDS Codegen

Less == [k |-> "cmp", swapped |-> FALSE, not |-> FALSE]       \* i < j
LessEqual == [k |-> "cmp", swapped |-> TRUE, not |-> FALSE]   \* i <= j
NotLess == [k |-> "cmp", swapped |-> FALSE, not |-> TRUE]     \* not (i < j)
Var == [k |-> "var"]
Lit(val) == [k |-> "lit", val |-> val]

MCSimple == {Less, LessEqual, Var, Lit(TRUE), Lit(FALSE)}
Compounds(k, pairs) == {[k |-> k, l |-> p[1], r |-> p[2]] : p \in pairs}

\* Operands of one sense and of two, literals left and right.
MCCompound ==
  Compounds("and", {<<Less, Less>>, <<NotLess, LessEqual>>, <<Lit(TRUE), Var>>,
                    <<Var, Lit(FALSE)>>, <<Less, LessEqual>>})
    \cup Compounds("or", {<<Less, Less>>, <<LessEqual, NotLess>>, <<Lit(FALSE), Less>>,
                          <<Less, Lit(TRUE)>>, <<Var, Var>>})
MCConditions == MCSimple \cup {[k |-> "notvar"]} \cup MCCompound

\* Loops and BREAK nest deepest; what is dear here comes fewer at a time.
MCCost == [c \in MCConditions |-> IF c = Less THEN 0 ELSE IF c.k = "lit" THEN 2 ELSE 4]
MCWeight == [k \in Kinds |-> CASE k = "begin" -> 1
                               [] k \in {"while", "for", "break"} -> 2
                               [] k \in {"if", "simple"} -> 3
                               [] OTHER -> 4]
================================================================================
