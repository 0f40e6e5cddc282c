------------------------------- MODULE Registers -------------------------------
(***************************************************************************)
(* Register allocation in src/src/Compiler/Emitter.c, as the expression    *)
(* compiler, argument lists, calls, WRITE and FOR use it, and a VM that    *)
(* runs each instruction as it is emitted: code is emitted in the order in *)
(* which straight-line code runs.                                          *)
(*                                                                         *)
(* `todo' is the compiler's own C stack: the operands, calls and loops it  *)
(* is in the middle of, the innermost last.  A value is known by its tag,  *)
(* the place in `todo' of what it was computed for; so a register holds    *)
(* what it should when it holds the tag of the operand that names it.      *)
(* Registers RegCount .. 2*RegCount-1 are F0, F1, ...; the stack counts in *)
(* words, SP being the word last pushed.                                   *)
(*                                                                         *)
(* Left out: records (hidden parameters), type conversions, CALLPTR,       *)
(* assignments to a FOR counter, and what becomes of an operand in memory  *)
(* once its base register, freed with it, is allocated to something else:  *)
(* `Spare' excludes that.                                                  *)
(* OneTooMany, PoppedAscending and KeepsArgs are no part of the model:     *)
(* they are wrong versions of what follows them.                           *)
(***************************************************************************)
EXTENDS Integers, FiniteSets, FiniteSetsExt, Sequences, SequencesExt

CONSTANTS
  RegCount,      \* PVM_REG_COUNT; the last three are GP, FP and SP
  ArgRegs,       \* PVM_ARGREG_COUNT
  ArgCounts,     \* how many parameters subroutines have
  Banks,         \* the banks expressions use, a subset of {"int", "flt"}
  Places,        \* where operands are: a subset of {"local", "global", "literal"}
  SpillTable,    \* entries in SpilledIntRegLocation and SpilledFltRegLocation
  FrameTop,      \* SP behind ENTER, above the locals and SpilledRegSpace
  StackWords,    \* bound: words of the stack the model keeps, enough for MaxTodo calls
  MaxTodo,       \* bound: what may be pending at one time
  MaxDisorderly  \* bound: the same where the code has not been Orderly

ASSUME RegistersAssumption ==
  /\ RegCount \in Nat /\ RegCount % 2 = 0 /\ RegCount >= 6
  /\ ArgRegs \in 1 .. RegCount \div 2 /\ ArgCounts \subseteq Nat
  /\ Banks \subseteq {"int", "flt"} /\ Banks # {}
  /\ Places \subseteq {"local", "global", "literal"}
  /\ SpillTable \in Nat \ {0} /\ StackWords \in Nat
  /\ FrameTop \in 2 * SpillTable .. StackWords - 1
  /\ MaxTodo \in Nat /\ MaxDisorderly \in Nat
  /\ \E most \in 0 .. StackWords :
       /\ \A p \in ArgCounts \cup {0} : 2 * RegCount + p <= most
       /\ FrameTop + MaxTodo * most < StackWords

VARIABLES
  st,      \* the emitter's and the VM's registers, see Machine
  todo,    \* what is being compiled
  orderly  \* ghost: so far nothing was asked of the emitter that it cannot do

vars == <<st, todo, orderly>>

GP == RegCount - 3
FP == RegCount - 2
SP == RegCount - 1
Reserved == {GP, FP, SP}         \* EMPTY_REGLIST
Regs == 0 .. 2 * RegCount - 1
Half == RegCount \div 2          \* registers per PSHL, PSHH, FPSHL, FPSHH

Bank(r) == IF r < RegCount THEN "int" ELSE "flt"
First(bank) == IF bank = "int" THEN 0 ELSE RegCount
BankRegs(bank) == First(bank) .. First(bank) + RegCount - 1

Junk == 0
Tags == 0 .. MaxTodo
Words == 0 .. StackWords - 1

\* The form of st.
Machine == [
  reglist : SUBSET Regs,         \* Reglist
  spilled : [{"int", "flt"} -> Seq(1 .. 2 * SpillTable)],  \* Spilled*RegLocation, negated
  dead    : BOOLEAN,             \* "dynamic register spilling table?"
  reg     : [Regs -> Tags],      \* R and F
  word    : [Words -> Tags],
  sp      : Int ]

Fresh == [
  reglist |-> Reserved,
  spilled |-> [b \in {"int", "flt"} |-> << >>],
  dead    |-> FALSE,
  reg     |-> [r \in Regs |-> Junk],
  word    |-> [w \in Words |-> Junk],
  sp      |-> FrameTop ]

-----------------------------------------------------------------------------
(* AllocateRegister, FreeRegister and PVMEmitIntoReg, on a machine s *)

FreeRegs(s, bank) == BankRegs(bank) \ s.reglist
SpillCount(s) == Len(s.spilled.int) + Len(s.spilled.flt)

\* The register allocated: the lowest free one, or the next victim, which is
\* counted from R0 for floats too.
NextReg(s, bank) ==
  IF FreeRegs(s, bank) # {} THEN Min(FreeRegs(s, bank))
  ELSE Len(s.spilled[bank]) % RegCount

OneTooMany(s, bank) == Len(s.spilled[bank]) > SpillTable
TableFull(s, bank) == Len(s.spilled[bank]) = SpillTable

Allocate(s, bank) ==
  IF FreeRegs(s, bank) # {} THEN [s EXCEPT !.reglist = @ \cup {NextReg(s, bank)}]
  ELSE IF TableFull(s, bank) THEN [s EXCEPT !.dead = TRUE]
  ELSE [s EXCEPT
          !.spilled[bank] = Append(@, SpillCount(s) + 1),
          !.word[s.sp - (SpillCount(s) + 1)] = s.reg[NextReg(s, bank)]]

Put(s, r, tag) == [s EXCEPT !.reg[r] = tag]

\* PVMFreeRegister passes a float register's number less 16; the last condition
\* of FreeRegister holds whatever the count is.
Free(s, r) ==
  LET bank == Bank(r)
      i == r % RegCount
      n == Len(s.spilled[bank])
      unspill == n > 0 /\ i = (n - 1) % RegCount
      old == IF unspill
             THEN [s EXCEPT !.reg[i] = s.word[s.sp - Last(s.spilled[bank])],
                            !.spilled[bank] = Front(@)]
             ELSE s
  IN  [old EXCEPT !.reglist = @ \ {i}]

\* From the highest register down.
FreeAll(s, rs) ==
  LET done[n \in 0 .. 2 * RegCount] ==
        IF n = 0 THEN s
        ELSE LET r == 2 * RegCount - n IN
             IF r \in rs THEN Free(done[n - 1], r) ELSE done[n - 1]
  IN  done[2 * RegCount]

\* A register taken for one instruction and given back.
Temporary(s, bank) == Free(Put(Allocate(s, bank), NextReg(s, bank), Junk), NextReg(s, bank))

-----------------------------------------------------------------------------
(* PVMEmitSaveCallerRegs and PVMEmitUnsaveCallerRegs *)

Saved(s, ret) == s.reglist \ (Reserved \cup ret)

\* PSHL, PSHH, FPSHL and FPSHH each push from the lowest register up; then all
\* are freed.
Save(s, ret) ==
  LET rs == Saved(s, ret)
      place(r) == s.sp + Cardinality({q \in rs : q <= r})
      pushed == [s EXCEPT
        !.sp = @ + Cardinality(rs),
        !.word = [w \in Words |->
                    IF \E r \in rs : place(r) = w
                    THEN s.reg[CHOOSE r \in rs : place(r) = w] ELSE @[w]]]
  IN  FreeAll(pushed, rs)

\* POPL, POPH, FPOPL, FPOPH pop in the order of the pushes, each from the highest
\* register of its half down; POPH and FPOPH fill the low half.
PoppedAscending(q, r) ==
  \/ q \div Half < r \div Half
  \/ q \div Half = r \div Half /\ q < r

PoppedBefore(q, r) ==
  \/ q \div Half < r \div Half
  \/ q \div Half = r \div Half /\ q > r

Filled(r) == First(Bank(r)) + (r % Half)

Restore(s, rs, ret) ==
  LET content(r) == s.word[s.sp - Cardinality({q \in rs : PoppedBefore(q, r)})]
      into(x) == {r \in rs : Filled(r) = x}
  IN  [s EXCEPT
        !.sp = @ - Cardinality(rs),
        !.reg = [x \in Regs |-> IF into(x) = {} THEN @[x] ELSE content(Max(into(x)))],
        !.reglist = rs \cup Reserved \cup ret]

-----------------------------------------------------------------------------
(* What can be pending *)

None == -1

\* An operand, or an argument in its place: at "reg" or "word"; at "mem" with the
\* register its address is relative to; or at "lit".  A FOR counter is an operand
\* whose register is Persistent and whose value is the loop's.
Item(kind, at, r, tag, bank, fixed) ==
  [kind |-> kind, at |-> at, reg |-> r, tag |-> tag, bank |-> bank, fixed |-> fixed]
Value(at, r, tag, bank, fixed) == Item("value", at, r, tag, bank, fixed)

\* A call (fn or proc) or WRITE in progress: the register of the result, the
\* registers saved, the number of parameters; a ghost, SP before its first
\* instruction.
Marker(kind, ret, bank, saved, params) ==
  [kind |-> kind, at |-> "none", reg |-> None, tag |-> Junk, bank |-> bank,
   fixed |-> FALSE, ret |-> ret, saved |-> saved, params |-> params, sp |-> st.sp]

\* Parameters passed on the stack.
StackArgs(params) == IF params > ArgRegs THEN params - ArgRegs ELSE 0

IsCall(i) == i.kind \in {"fn", "proc"}
IsMarker(i) == IsCall(i) \/ i.kind = "write"

N == Len(todo)
Top == todo[N]
TopIs(kind) == N > 0 /\ Top.kind = kind
ValueOn(kinds) == N > 1 /\ Top.kind = "value" /\ todo[N - 1].kind \in kinds

\* The innermost call or WRITE, and how many of its arguments are in place.
Inner == SelectLastInSeq(todo, IsMarker)
Passed == N - Inner
Between == Inner > 0 /\ (N = Inner \/ TopIs("arg"))

AtStatement == N = 0 \/ TopIs("stop")

\* An expression begins a statement, follows an operator, stands in the header of
\* a FOR, or is an argument.
ExprExpected ==
  \/ AtStatement \/ TopIs("value") \/ TopIs("for")
  \/ Between /\ (Passed < todo[Inner].params \/ todo[Inner].kind = "write")

\* Tags of what is no longer pending mean nothing, and nor do words above SP.
Forget(s, n) ==
  [s EXCEPT !.reg = [r \in Regs |-> IF @[r] > n THEN Junk ELSE @[r]],
            !.word = [w \in Words |-> IF @[w] > n \/ w > s.sp THEN Junk ELSE @[w]]]

\* An operand is what it should be: a copy of it is then too.
Holds(s, i) ==
  /\ i.at = "reg" => s.reg[i.reg] = i.tag
  /\ i.at = "word" => s.word[i.reg] = i.tag
Copy(s, i, tag) == IF Holds(s, i) THEN tag ELSE Junk

-----------------------------------------------------------------------------
(* What the emitter can be asked *)

\* What is in a register that no call in progress has saved.
Live(k) ==
  /\ todo[k].at = "reg"
  /\ \A j \in k + 1 .. N : IsMarker(todo[j]) => todo[k].reg \notin todo[j].saved

\* No live value's register was freed under it.
Owned == \A k \in 1 .. N : Live(k) => todo[k].reg \in st.reglist

\* No counter is read inside a call that has saved it.
CountersInPlace ==
  \A k \in 1 .. N : todo[k].kind = "value" /\ todo[k].fixed =>
    \A j \in todo[k].tag + 1 .. k - 1 : IsMarker(todo[j]) => todo[k].reg \notin todo[j].saved

\* Two registers of each bank are left: nothing is spilled.
Spare == \A b \in {"int", "flt"} : Cardinality(FreeRegs(st, b) \ Reserved) >= 2

\* What is saved is in one low half, and not over stack arguments.
SavesAreSmall ==
  \A k \in 1 .. N : IsMarker(todo[k]) =>
    /\ \E b \in {"int", "flt"} : todo[k].saved \subseteq First(b) .. First(b) + Half - 1
    /\ todo[k].kind = "fn" /\ StackArgs(todo[k].params) > 0 => todo[k].saved = {}

Orderly == Owned /\ CountersInPlace /\ Spare /\ SavesAreSmall

Under(n) == SubSeq(todo, 1, N - n)

\* The step to machine s with items pending.
Become(s, items) ==
  /\ ~st.dead /\ (orderly \/ Len(items) <= MaxDisorderly)
  /\ st' = Forget(s, Len(items)) /\ todo' = items
  /\ orderly' = (orderly /\ Orderly')

-----------------------------------------------------------------------------
(* Operands and operators *)

\* A variable, local or global, or a literal.
Source(place, bank) ==
  CASE place = "local"   -> Value("mem", FP, Junk, bank, FALSE)
    [] place = "global"  -> Value("mem", GP, Junk, bank, FALSE)
    [] place = "literal" -> Value("lit", None, Junk, bank, FALSE)

Operand(place, bank) ==
  /\ ExprExpected /\ N < MaxTodo
  /\ Become(st, Append(todo, Source(place, bank)))

\* The counter of an enclosing FOR, once it has a value: its register.
Counter(k) ==
  /\ ExprExpected /\ N < MaxTodo
  /\ todo[k].kind = "for" /\ todo[k].at = "reg"
  /\ Become(st, Append(todo, Value("reg", todo[k].reg, k, "int", TRUE)))

\* PVMEmitIntoReg: a register that is not Persistent, or is only read, will do.
InReg(i, readOnly) == i.at = "reg" /\ (readOnly \/ ~i.fixed)

RegOf(s, i, readOnly) == IF InReg(i, readOnly) THEN i.reg ELSE NextReg(s, i.bank)

Load(s, i, readOnly, tag) ==
  IF InReg(i, readOnly) THEN s
  ELSE Put(Allocate(s, i.bank), NextReg(s, i.bank), Copy(s, i, tag))

\* Read through a register of its own, which is given back.
Use(s, i) == IF InReg(i, TRUE) THEN s ELSE Temporary(s, i.bank)

\* FreeExpr: an operand's register, or the base of its address.
FreeExpr(s, i) == IF i.at \in {"reg", "mem"} THEN Free(s, i.reg) ELSE s

\* An arithmetic operator: BIN_OP of RuntimeExprBinary; then ParseAssignmentLhs
\* frees the left operand.  A literal to the right may be an immediate.
Infix ==
  /\ ValueOn({"value"})
  /\ LET left == todo[N - 1]
         r == RegOf(st, left, FALSE)
         loaded == Load(st, left, FALSE, N - 1)
         tag == IF Holds(loaded, Top) /\ Holds(st, left) THEN N - 1 ELSE Junk
     IN  /\ left.bank = Top.bank /\ ~(left.at = "lit" /\ Top.at = "lit")
         /\ \E s \in {Use(loaded, Top)} \cup (IF Top.at = "lit" THEN {loaded} ELSE {}) :
              Become(FreeExpr(Put(s, r, tag), left),
                     Append(Under(2), Value("reg", r, N - 1, left.bank, FALSE)))

\* A value, or two compared, that stand for themselves in a statement.
WholeExpr(n) == N = n \/ (N > n /\ todo[N - n].kind = "stop")

\* The condition of a statement: SET_IF, whose result is the flag.
Condition ==
  /\ ValueOn({"value"}) /\ WholeExpr(2)
  /\ LET left == todo[N - 1]
         both == Use(Load(st, left, TRUE, N - 1), Top)
         s == IF InReg(left, TRUE) THEN both ELSE Free(both, RegOf(st, left, TRUE))
     IN  /\ left.bank = Top.bank /\ ~(left.at = "lit" /\ Top.at = "lit")
         /\ Become(FreeExpr(s, left), Under(2))

\* CompileAssignStmt, to a variable in memory.
Assign ==
  /\ TopIs("value") /\ WholeExpr(1)
  /\ Become(FreeExpr(Use(st, Top), Top), Under(1))

-----------------------------------------------------------------------------
(* Calls *)

Room(n) == N + n <= MaxTodo

\* CompileCallWithReturnValue: space for stack arguments, the result's register,
\* then the registers of the caller.
CallFunction(params, bank) ==
  /\ ExprExpected /\ Room(1 + params)
  /\ LET spaced == [st EXCEPT !.sp = @ + StackArgs(params)]
         ret == {NextReg(spaced, bank)}
         taken == Allocate(spaced, bank)
     IN  Become(Save(taken, ret), Append(todo, Marker("fn", ret, bank, Saved(taken, ret), params)))

\* CompileCallWithoutReturnValue: the other way round.
CallProcedure(params) ==
  /\ AtStatement /\ Room(1 + params)
  /\ LET saved == Save(st, {}) IN
     Become([saved EXCEPT !.sp = @ + StackArgs(params)],
            Append(todo, Marker("proc", {}, "int", Saved(st, {}), params)))

\* PVMSetArg for the argument being passed, which is number Passed - 1.
ArgReg == First(Top.bank) + Passed - 1
ArgWord == st.sp - (Passed - 1 - ArgRegs)

ArgDone(kinds) == ValueOn({"arg"} \cup kinds) /\ todo[Inner].kind \in kinds

\* CompilePartialArgumentList: CompileExprInto, PVMMarkArgAsOccupied.
RegisterArg ==
  /\ ArgDone({"fn", "proc"}) /\ Passed <= ArgRegs
  /\ LET s == FreeExpr(Put(st, ArgReg, Copy(st, Top, N)), Top) IN
     Become([s EXCEPT !.reglist = @ \cup {ArgReg}],
            Append(Under(1), Item("arg", "reg", ArgReg, N, Top.bank, FALSE)))

StackArg ==
  /\ ArgDone({"fn", "proc"}) /\ Passed > ArgRegs
  /\ LET s == FreeExpr([Use(st, Top) EXCEPT !.word[ArgWord] = Copy(st, Top, N)], Top) IN
     Become([s EXCEPT !.reglist = @ \cup {SP}],
            Append(Under(1), Item("arg", "word", ArgWord, N, Top.bank, FALSE)))

KeepsArgs(s, params) == s
DropArgs(s, params) == [s EXCEPT !.sp = @ - StackArgs(params)]

\* The callee may leave anything in any register but FP and SP.
Clobbered(s) == [s EXCEPT !.reg = [r \in Regs |-> Junk]]

\* CALL, the result moved from R0 or F0, the stack arguments dropped, and the
\* caller's registers restored.
Call ==
  /\ Between /\ IsCall(todo[Inner]) /\ Passed = todo[Inner].params
  /\ LET m == todo[Inner]
         back == [Clobbered(st) EXCEPT !.reg = [r \in Regs |-> IF r \in m.ret THEN Inner ELSE @[r]]]
         result == {Value("reg", r, Inner, m.bank, FALSE) : r \in m.ret}
     IN  Become(Restore(DropArgs(back, m.params), m.saved, m.ret),
                Under(1 + Passed) \o SetToSeq(result))

-----------------------------------------------------------------------------
(* WRITE and FOR *)

WriteStart ==
  /\ AtStatement /\ Room(2)
  /\ Become(Save(st, {}), Append(todo, Marker("write", {}, "int", Saved(st, {}), 0)))

Push(s, tag) == [s EXCEPT !.sp = @ + 1, !.word[s.sp + 1] = tag]

\* The argument and its type are pushed, each through a register if need be. The
\* newline of WRITELN is one argument more.
WriteArg ==
  /\ ArgDone({"write"})
  /\ LET value == Push(Use(st, Top), Copy(st, Top, N)) IN
     Become(FreeExpr(Push(Temporary(value, "int"), Junk), Top),
            Append(Under(1), Item("arg", "word", st.sp + 1, N, Top.bank, FALSE)))

\* The number of arguments goes to R0, the file to R1; SYS WRITE pops them all.
Write ==
  /\ Between /\ todo[Inner].kind = "write"
  /\ LET s == [Put(Put(st, 0, Junk), 1, Junk) EXCEPT !.sp = @ - 2 * Passed] IN
     Become(Restore(s, todo[Inner].saved, {}), Under(1 + Passed))

\* CompileForStmt: a register for the counter, its first value, then the stop
\* value in a register of its own; both are freed at the end.
ForStart ==
  /\ AtStatement /\ Room(2)
  /\ Become(Allocate(st, "int"),
            Append(todo, Item("for", "none", NextReg(st, "int"), N + 1, "int", TRUE)))

ForInit ==
  /\ ValueOn({"for"}) /\ Top.bank = "int" /\ todo[N - 1].at = "none"
  /\ Become(FreeExpr(Put(st, todo[N - 1].reg, Copy(st, Top, N - 1)), Top),
            Append(Under(2), [todo[N - 1] EXCEPT !.at = "reg"]))

ForStop ==
  /\ ValueOn({"for"}) /\ Top.bank = "int" /\ todo[N - 1].at = "reg"
  /\ Become(Load(st, Top, FALSE, N),
            Append(Under(1), Item("stop", "reg", RegOf(st, Top, FALSE), N, "int", FALSE)))

ForEnd ==
  /\ TopIs("stop")
  /\ Become(Free(Free(st, todo[N - 1].reg), Top.reg), Under(2))

\* PVMEmitterReset, after a line of the REPL.
Reset == N = 0 /\ st' = Fresh /\ todo' = << >> /\ orderly' = TRUE

-----------------------------------------------------------------------------
Init == st = Fresh /\ todo = << >> /\ orderly = TRUE

Compile ==
  \/ \E p \in Places, b \in Banks : Operand(p, b)
  \/ \E k \in 1 .. N : Counter(k)
  \/ Infix \/ Condition \/ Assign
  \/ \E p \in ArgCounts, b \in Banks : CallFunction(p, b)
  \/ \E p \in ArgCounts : CallProcedure(p)
  \/ RegisterArg \/ StackArg \/ Call
  \/ WriteStart \/ WriteArg \/ Write
  \/ ForStart \/ ForInit \/ ForStop \/ ForEnd

Next == Compile \/ Reset

Spec == Init /\ [][Next]_vars

-----------------------------------------------------------------------------
(* Properties *)

\* Registers, words and SP stay in their ranges, and the reglist in its 32 bits.
TypeOK ==
  /\ st.reglist \subseteq Regs /\ st.dead \in BOOLEAN
  /\ \A b \in {"int", "flt"} : Len(st.spilled[b]) <= SpillTable
  /\ st.reg \in [Regs -> Tags] /\ st.word \in [Words -> Tags] /\ st.sp \in Words
  /\ N <= MaxTodo /\ orderly \in BOOLEAN
  /\ \A k \in 1 .. N : todo[k].reg \in Regs \cup Words \cup {None}

\* A call or WRITE leaves SP where it was before its first instruction, whatever
\* was pending, saved, spilled and passed on the stack meanwhile: else every
\* access to a local after it would still be right, and every EXIT, but not what
\* an enclosing call has pushed.
SpComesBack == [][Call \/ Write => st'.sp = todo[Inner].sp]_vars

\* Every operand, counter, stop value and argument is in the register or stack
\* word that names it, through calls nested in operands and in arguments: as long
\* as the code has been orderly.
OperandsHold ==
  orderly => \A k \in 1 .. N : Live(k) \/ todo[k].at = "word" => Holds(st, todo[k])

\* "exit(LocA * Locb * a * b)", which test2/function/Function2.pas expects to be
\* the product of all four: a result keeps its register until it is used.
ResultsAreKept ==
  \A k \in 1 .. N : Live(k) /\ todo[k].kind = "value" /\ ~todo[k].fixed => Holds(st, todo[k])
=============================================================================
