-------------------------------- MODULE MCPvm --------------------------------
(* A recursive subroutine, a second one that writes, and two main blocks, as   *)
(* two lines of the REPL would leave them in the chunk.                        *)
EXTENDS Pvm

I(op, n, to) == [op |-> op, n |-> n, to |-> to]

MCCode ==
  << I("enter", 1, {}),          \* 1: the recursive one, with a local
     I("branch", 0, {7}),
     I("push", 1, {}),           \*    the caller's registers
     I("call", 0, {1}),
     I("pop", 1, {}),
     I("div", 0, {}),
     I("local", 0, {}),          \* 7
     I("exit", 0, {}),
     I("enter", 0, {}),          \* 9: writes one argument
     I("push", 2, {}),
     I("write", 1, {}),
     I("exit", 0, {}),
     I("enter", 1, {}),          \* 13: a main block, with a call by pointer
     I("addsp", 1, {}),
     I("call", 0, {1, 9}),
     I("addsp", -1, {}),
     I("local", 0, {}),
     I("exit", 0, {}),
     I("enter", 0, {}),          \* 19: another
     I("branch", 0, {22}),
     I("call", 0, {9}),
     I("exit", 0, {}) >>

U == -1
MCHeight == <<U, 1, 1, 2, 2, 1, 1, 1, U, 0, 2, 0, U, 1, 2, 2, 1, 1, U, 0, 0, 0>>
MCEntries == {13, 19}
=============================================================================
