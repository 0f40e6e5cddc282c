------------------------------- MODULE MCSession -------------------------------
EXTENDS Session

Plain(names, size) == [names |-> names, size |-> size, init |-> FALSE, typed |-> TRUE]
Given(n, size) == [names |-> <<n>>, size |-> size, init |-> TRUE, typed |-> TRUE]
Untyped == [names |-> <<"v">>, size |-> 1, init |-> FALSE, typed |-> FALSE]

MCParameters == {<<>>, <<"v", "f">>}
MCBlocks == {<<Plain(<<"g">>, 9)>>, <<Given("v", 5), Plain(<<"g">>, 4)>>,
             <<Plain(<<"v", "g">>, 4), Given("f", 1)>>, <<Plain(<<"g">>, 4), Untyped>>}

MCWeight == [w \in {"text", "sub", "call", "block"} |->
               CASE w = "text" -> 1 [] w \in {"sub", "call"} -> 2 [] OTHER -> 3]
================================================================================
