-------------------------------- MODULE Codegen --------------------------------
(***************************************************************************)
(* Control statements: the one-pass compiler of src/src/Compiler/          *)
(* Compiler.c, the branches it emits and patches (Emitter.c), the code of  *)
(* conditions (Expr.c) and the VM that runs it (PVM.c).                    *)
(*                                                                         *)
(* `todo' is the compiler's C stack, the innermost construct last.  The    *)
(* program is chosen token by token while it is compiled, and `made'       *)
(* collects its meaning.  Then the code runs beside that meaning: `src' is *)
(* what the source still has to do, its head next.  What can be seen of    *)
(* either are events: a statement, the outcome of a test, the step of a    *)
(* FOR counter, the exit.  Outcomes are the environment's choice.          *)
(*                                                                         *)
(* Assignments and calls are one word, an event; a comparison, its loads   *)
(* included, is one word too.  AND and OR do not nest.  Branches reach far *)
(* enough, save BRI's.  Left out: what is a syntax or type error, and      *)
(* debug information.                                                      *)
(*                                                                         *)
(* `orderly' is lost where the code does something else than the source    *)
(* says; README.md lists those places.                                     *)
(* Unsigned, PatchedAsWritten, LastOnly, AsWritten, EmitsAgain,            *)
(* KeepsBreaks and EnterNarrow are no part of the model: they are wrong    *)
(* versions of what follows them.                                          *)
(***************************************************************************)
EXTENDS Integers, Sequences, SequencesExt

CONSTANTS
  Conditions,  \* the conditions programs use, see SimpleConditions
  Cost,        \* what each adds to the size of a program,
  Weight,      \* and what each kind of statement does
  MaxSize,     \* bound: size of a program
  MaxArms,     \* bound: arms of a CASE
  MaxBreaks,   \* STATIC_ARRAY_SIZE(Breaks)
  Reach        \* BRI goes at most this many words back; 2^15

Comparisons == [k : {"cmp"}, swapped : BOOLEAN, not : BOOLEAN]
SimpleConditions == Comparisons \cup [k : {"var", "notvar"}]
                      \cup [k : {"lit"}, val : BOOLEAN]
CompoundConditions ==
  [k : {"and", "or"}, l : SimpleConditions, r : SimpleConditions]

Kinds == {"simple", "exit", "break", "begin", "if", "while", "for", "repeat", "case"}

ASSUME CodegenAssumption ==
  /\ Conditions \subseteq SimpleConditions \cup CompoundConditions
  /\ Cost \in [Conditions -> Nat] /\ Weight \in [Kinds -> Nat \ {0}]
  /\ {MaxSize, MaxArms, MaxBreaks} \subseteq Nat /\ Reach \in Nat \ {0}

VARIABLES
  em,      \* code, ShouldEmit and whether the compiler has died
  todo,    \* constructs being compiled
  wants,   \* CompileStmt is next; otherwise a statement has just been compiled
  made,    \* ghost: the meaning of that statement
  breaks,  \* Breaks[0 .. BreakCount - 1]
  inLoop,  \* InLoop
  size,    \* names constructs
  orderly, \* ghost: nothing so far is among the places README.md lists
  vm,      \* IP, Condition and the register tested, once the code runs
  src,     \* ghost: what the source has still to do
  turn     \* ghost: changes with every event

compiling == <<todo, wants, made, breaks, inLoop, size>>
vars == <<em, todo, wants, made, breaks, inLoop, size, orderly, vm, src, turn>>

Running == todo = << >>

-----------------------------------------------------------------------------
(* The emitter e = [code, emit, dead] *)

Here(e) == Len(e.code)                 \* PVMGetCurrentLocation
SecondHalf == [op |-> "half"]
WordAt(e, at) == IF at < Here(e) THEN e.code[at + 1] ELSE SecondHalf

Emit(e, word) == IF e.emit THEN [e EXCEPT !.code = Append(@, word)] ELSE e

BranchSize == 2
Branches == {"BR", "BCT", "BCF", "BEZ", "BNZ"}

\* A branch and the second half of its offset; where it is.
EmitBranch(e, op, to) ==
  Emit(Emit(e, [op |-> op, by |-> to - Here(e) - BranchSize]), SecondHalf)
BranchAt(e) == IF e.emit THEN Here(e) - BranchSize ELSE Here(e)

\* The offset of BRI is its second half alone.
Unsigned(by) == by % (2 * Reach)
Wrap(by) == ((by + Reach) % (2 * Reach)) - Reach
EmitBranchAndInc(e, n, to) ==
  Emit(Emit(e, [op |-> "BRI", n |-> n, by |-> Wrap(to - Here(e) - BranchSize)]),
       SecondHalf)

PatchedAsWritten(e, from, to) ==
  IF WordAt(e, from).op \in Branches
  THEN [e EXCEPT !.code[from + 1].by = to - from - BranchSize]
  ELSE [e EXCEPT !.dead = TRUE]
\* What is patched is what is there, were it what this construct emitted or not.
Patch(e, from, to) ==
  IF ~e.emit THEN e
  ELSE IF WordAt(e, from).op \in Branches
       THEN [e EXCEPT !.code[from + 1].by = to - from - BranchSize]
       ELSE [e EXCEPT !.dead = TRUE]
PatchToCurrent(e, from) == Patch(e, from, Here(e))
LastOnly(e, froms) == IF froms = << >> THEN e ELSE PatchToCurrent(e, Last(froms))
\* One after the other; the order does not matter.
PatchAll(e, froms) ==
  IF ~e.emit THEN e
  ELSE [e EXCEPT
         !.code = [i \in DOMAIN @ |->
                     IF i - 1 \in ToSet(froms) /\ @[i].op \in Branches
                     THEN [@[i] EXCEPT !.by = Here(e) - (i - 1) - BranchSize] ELSE @[i]],
         !.dead = @ \/ \E from \in ToSet(froms) : WordAt(e, from).op \notin Branches]

-----------------------------------------------------------------------------
(* Conditions.  <<n, side>> names a test: the one test of construct n, or  *)
(* one of the two operands of its AND or OR, or one arm of its CASE.       *)

Test(e, n, side, neg) == Emit(e, [op |-> "set", n |-> n, side |-> side, neg |-> neg])
Load(e, n, side, neg) == Emit(e, [op |-> "load", n |-> n, side |-> side, neg |-> neg])

\* CompileExpr for a simple condition: `<=', `>=' and `<>' are their opposites
\* computed, NOT of a flag computes nothing, a variable is not loaded yet.
Operand(e, c, n, side) ==
  CASE c.k = "cmp"    -> Test(e, n, side, c.swapped)
    [] c.k = "notvar" -> Load(e, n, side, TRUE)
    [] OTHER          -> e

AsWritten(c) == c.not = FALSE
AsIs(c) == c.swapped = c.not         \* FlagValueAsIs
Literal(c, val) == c.k = "lit" /\ c.val = val

\* PVMEmitBranchIfTrue, PVMEmitBranchIfFalse.
BranchIf(e, c, n, side, sense) ==
  LET loaded == CASE c.k = "var" -> Load(e, n, side, FALSE)
                  [] c.k = "lit" -> Emit(e, [op |-> "imm", val |-> c.val])
                  [] OTHER       -> e
      op == CASE c.k = "cmp" -> IF sense = AsIs(c) THEN "BCT" ELSE "BCF"
              [] OTHER       -> IF sense THEN "BNZ" ELSE "BEZ"
  IN  EmitBranch(loaded, op, Here(loaded) + BranchSize)

Compound(c) == c.k \in {"and", "or"}

\* ExprAnd and ExprOr: what the left operand skips is the right operand's code,
\* and what the whole is, is what the right operand is.
Expr(e, c, n) ==
  IF ~Compound(c) THEN Operand(e, c, n, 1)
  ELSE LET left == Operand(e, c.l, n, 1)
           skip == c.k = "or"
           gate == [left EXCEPT !.emit = @ /\ ~Literal(c.l, skip)]
           jump == BranchIf(gate, c.l, n, 1, skip)
           right == Operand(jump, c.r, n, 2)
       IN  [PatchToCurrent(right, BranchAt(jump)) EXCEPT !.emit = e.emit]

Result(c) == IF Compound(c) THEN c.r ELSE c
Side(c) == IF Compound(c) THEN 2 ELSE 1
BranchUnless(e, c, n) == BranchIf(e, Result(c), n, Side(c), FALSE)

\* Where what the right operand is says what the whole is.
ShortCircuits(c) ==
  LET decided == c.k = "or" IN
  Compound(c) =>
    CASE Literal(c.l, ~decided) -> TRUE
      [] c.l.k = "cmp" /\ c.r.k = "cmp" -> AsIs(c.l) = AsIs(c.r)
      [] OTHER -> Literal(c.r, decided)

-----------------------------------------------------------------------------
(* CompileStmt: each action begins a statement *)

Begin(frame) == todo' = Append(todo, frame) /\ wants' = TRUE /\ made' = << >>
Done(meaning) == wants' = FALSE /\ made' = meaning
Finish(e, meaning) ==
  /\ em' = e /\ Done(meaning) /\ todo' = Front(todo)
Whole(meaning) ==
  /\ Done(meaning) /\ UNCHANGED <<todo, vm, src, turn>>

Ready == ~Running /\ orderly /\ ~em.dead
Start(kind, cost) ==
  /\ Ready /\ wants
  /\ size' = size + Weight[kind] + cost /\ size' <= MaxSize

Act(n, what) == [k |-> "act", n |-> n, what |-> what]
ActWord(n, what) == [op |-> "act", n |-> n, what |-> what]

\* An assignment or a call.
Simple ==
  /\ Start("simple", 0)
  /\ em' = Emit(em, ActWord(size, "do"))
  /\ Whole(<<Act(size, "do")>>)
  /\ UNCHANGED <<breaks, inLoop, orderly>>

NullStmt ==
  /\ Ready /\ wants
  /\ Done(<< >>)
  /\ UNCHANGED <<em, todo, breaks, inLoop, size, orderly, vm, src, turn>>

ExitStmt ==
  /\ Start("exit", 0)
  /\ em' = Emit(em, [op |-> "EXIT"])
  /\ Whole(<<[k |-> "exit"]>>)
  /\ UNCHANGED <<breaks, inLoop, orderly>>

Loops == {"while", "repeat", "for"}
Innermost == LET d == SelectLastInSubSeq(todo, 1, Len(todo), LAMBDA f : f.k \in Loops)
             IN  todo[d]

\* In code that is not emitted the place noted is that of whatever comes next;
\* a REPEAT is no loop for InLoop.
BreakStmt ==
  /\ Start("break", 0) /\ inLoop
  /\ IF Len(breaks) >= MaxBreaks
     THEN /\ em' = [em EXCEPT !.dead = TRUE] /\ UNCHANGED breaks
     ELSE LET e == EmitBranch(em, "BR", 0)
          IN  em' = e /\ breaks' = Append(breaks, BranchAt(e))
  /\ orderly' = /\ Innermost.k # "repeat"
                /\ em.emit = Innermost.live
                /\ Len(breaks) < MaxBreaks
  /\ Whole(<<[k |-> "break"]>>)
  /\ UNCHANGED inLoop

BeginStmt ==
  /\ Start("begin", 0)
  /\ Begin([k |-> "begin", list |-> << >>])
  /\ UNCHANGED <<em, breaks, inLoop, orderly, vm, src, turn>>

Never(c) == Literal(Result(c), FALSE)
Always(c) == Literal(Result(c), TRUE)
Unknown(c) == ~Never(c) /\ ~Always(c)

IfHead(c) ==
  LET e == [Expr(em, c, size) EXCEPT !.emit = @ /\ ~Never(c)]
  IN  IF Unknown(c) THEN BranchUnless(e, c, size) ELSE e
IfStmt(c) ==
  /\ Start("if", Cost[c])
  /\ em' = IfHead(c)
  /\ todo' = Append(todo, [k |-> "then", n |-> size, c |-> c, last |-> em.emit,
                           from |-> IF Unknown(c) THEN BranchAt(IfHead(c)) ELSE 0,
                           yes |-> << >>])
  /\ orderly' = ShortCircuits(c)
  /\ UNCHANGED <<wants, made, breaks, inLoop, vm, src, turn>>

LoopBody(k, c, head, exit) ==
  /\ todo' = Append(todo, [k |-> k, c |-> c, n |-> size, head |-> head, exit |-> exit,
                           last |-> em.emit, live |-> em'.emit,
                           prev |-> Len(breaks), was |-> inLoop])
  /\ inLoop' = TRUE
  /\ UNCHANGED <<wants, made, breaks, vm, src, turn>>

WhileHead(c) == BranchUnless([Expr(em, c, size) EXCEPT !.emit = @ /\ ~Never(c)], c, size)
WhileStmt(c) ==
  /\ Start("while", Cost[c])
  /\ em' = WhileHead(c)
  /\ LoopBody("while", c, Here(em), BranchAt(WhileHead(c)))
  /\ orderly' = ShortCircuits(c)

Counter == [k |-> "cmp", swapped |-> TRUE, not |-> FALSE]   \* `<=' or `>='

\* The counter's first value, the bound, then the head of the loop.
ForStmt ==
  LET set == Emit(Emit(em, ActWord(size, "init")), ActWord(size, "bound"))
      e == BranchUnless(Operand(set, Counter, size, 1), Counter, size)
  IN  /\ Start("for", 0)
      /\ em' = e
      /\ LoopBody("for", Counter, Here(set), BranchAt(e))
      /\ UNCHANGED orderly

RepeatStmt ==
  /\ Start("repeat", 0)
  /\ Begin([k |-> "repeat", n |-> size, head |-> Here(em), live |-> em.emit,
            list |-> << >>])
  /\ UNCHANGED <<em, breaks, inLoop, orderly, vm, src, turn>>

\* CASE of a variable, which each arm loads, or of a literal.
CaseStmt(const) ==
  /\ Start("case", 0)
  /\ todo' = Append(todo, [k |-> "case", n |-> size, const |-> const, last |-> em.emit,
                           emitted |-> FALSE, outs |-> << >>, arms |-> << >>, list |-> << >>])
  /\ Done(<< >>)
  /\ UNCHANGED <<em, breaks, inLoop, orderly, vm, src, turn>>

Statement ==
  \/ Simple \/ NullStmt \/ ExitStmt \/ BreakStmt \/ BeginStmt
  \/ ForStmt \/ RepeatStmt
  \/ \E c \in Conditions : IfStmt(c) \/ WhileStmt(c)
  \/ \E const \in BOOLEAN : CaseStmt(const)

-----------------------------------------------------------------------------
(* The statement inside has been compiled *)

After(k) == Ready /\ ~wants /\ Last(todo).k = k
Top == Last(todo)
Become(frame) == todo' = Append(Front(todo), frame)
Still == UNCHANGED <<vm, src, turn>>

If(c, n, yes, no) ==
  <<[k |-> "test", c |-> c, n |-> n, side |-> 1, yes |-> yes, no |-> no]>>
Mark == [k |-> "mark"]           \* where a BREAK leads
Loop(k, c, n, body) ==
  <<[k |-> "loop", again |-> [k |-> k, c |-> c, n |-> n, body |-> body]]>>

\* `;'
Semicolon ==
  /\ \E k \in {"begin", "repeat", "otherwise"} : After(k)
  /\ Become([Top EXCEPT !.list = @ \o made])
  /\ wants' = TRUE /\ made' = << >>
  /\ UNCHANGED <<em, breaks, inLoop, size, orderly>> /\ Still

EndBegin ==
  /\ After("begin") /\ Len(todo) > 1
  /\ Finish(em, Top.list \o made)
  /\ UNCHANGED <<breaks, inLoop, size, orderly>> /\ Still

\* ELSE: a literal condition emits no branch, and then 0 is patched.
EmitsAgain ==
  LET restored == [em EXCEPT !.emit = Top.last /\ ~Always(Top.c)]
      jump == IF Unknown(Top.c) THEN EmitBranch(restored, "BR", 0) ELSE restored
  IN  [PatchToCurrent(jump, Top.from) EXCEPT !.emit = Top.last]
ElseHead ==
  LET restored == [em EXCEPT !.emit = Top.last /\ ~Always(Top.c)]
      jump == IF Unknown(Top.c) THEN EmitBranch(restored, "BR", 0) ELSE restored
  IN  PatchToCurrent(jump, Top.from)
Else ==
  /\ After("then")
  /\ em' = ElseHead
  /\ Become([Top EXCEPT !.k = "else", !.from = BranchAt(ElseHead), !.yes = made])
  /\ wants' = TRUE /\ made' = << >>
  /\ orderly' = ~(Never(Top.c) /\ Top.last)
  /\ UNCHANGED <<breaks, inLoop, size>> /\ Still

EndIf ==
  LET restored == [em EXCEPT !.emit = Top.last]
      patched == IF Unknown(Top.c) THEN PatchToCurrent(restored, Top.from) ELSE restored
  IN  /\ \/ After("then") /\ Finish(patched, If(Top.c, Top.n, made, << >>))
         \/ After("else") /\ Finish([patched EXCEPT !.emit = Top.last],
                                     If(Top.c, Top.n, Top.yes, made))
      /\ UNCHANGED <<breaks, inLoop, size, orderly>> /\ Still

\* CompilerPatchBreaks: those noted since the loop began.
PatchBreaks(e) == PatchAll(e, SubSeq(breaks, Top.prev + 1, Len(breaks)))
KeepsBreaks ==
  /\ breaks' = breaks
  /\ inLoop' = Top.was
LeaveLoop ==
  /\ breaks' = SubSeq(breaks, 1, Top.prev)
  /\ inLoop' = Top.was

EndWhile ==
  LET e == PatchBreaks(PatchToCurrent(EmitBranch(em, "BR", Top.head), Top.exit))
  IN  /\ After("while")
      /\ Finish([e EXCEPT !.emit = Top.last], Loop("while", Top.c, Top.n, made))
      /\ LeaveLoop
      /\ UNCHANGED <<size, orderly>> /\ Still

EndFor ==
  LET e == PatchBreaks(PatchToCurrent(EmitBranchAndInc(em, Top.n, Top.head), Top.exit))
  IN  /\ After("for")
      /\ Finish(Emit(e, ActWord(Top.n, "put")),
                <<Act(Top.n, "init"), Act(Top.n, "bound")>>
                  \o Loop("for", Counter, Top.n, made) \o <<Act(Top.n, "put")>>)
      /\ LeaveLoop
      /\ orderly' = (em.emit => Here(em) + BranchSize - Top.head <= Reach)
      /\ UNCHANGED size /\ Still

Until(c) ==
  LET e == BranchUnless(Expr(em, c, Top.n), c, Top.n)
  IN  /\ After("repeat") /\ size + Cost[c] <= MaxSize
      /\ Finish(Patch(e, BranchAt(e), Top.head),
                Loop("repeat", c, Top.n, Top.list \o made))
      /\ size' = size + Cost[c]
      /\ orderly' = ShortCircuits(c)
      /\ UNCHANGED <<breaks, inLoop>> /\ Still

\* An arm; `equal' is whether its literal is the literal of a constant CASE.
ArmSide == Len(Top.arms) + 1
ArmTest == EmitBranch(Test([em EXCEPT !.emit = @ /\ ~Top.const], Top.n, ArmSide, FALSE),
                      "BCF", Here(em) + 1 + BranchSize)
Arm(equal) ==
  LET next == BranchAt(ArmTest)
      c == IF Top.const THEN [k |-> "lit", val |-> equal] ELSE [k |-> "cmp",
                               swapped |-> FALSE, not |-> FALSE]
  IN  /\ After("case") /\ Len(Top.arms) < MaxArms
      /\ em' = [ArmTest EXCEPT !.emit = IF Top.const THEN equal ELSE @]
      /\ Become([Top EXCEPT !.k = "arm", !.emitted = @ \/ (Top.const /\ equal),
                            !.arms = Append(@, [c |-> c, side |-> ArmSide, next |-> next,
                                                body |-> << >>])])
      /\ wants' = TRUE /\ made' = << >>
      /\ orderly' = (Top.const /\ equal => Top.last /\ ~Top.emitted)
      /\ UNCHANGED <<breaks, inLoop, size>> /\ Still

EndArm ==
  LET here == [em EXCEPT !.emit = @ /\ ~Top.const]
      out == EmitBranch(here, "BR", 0)
  IN  /\ After("arm")
      /\ em' = [PatchToCurrent(out, Last(Top.arms).next) EXCEPT !.emit = Top.last]
      /\ Become([Top EXCEPT !.k = "case", !.outs = Append(@, BranchAt(out)),
                            !.arms[Len(Top.arms)].body = made])
      /\ Done(<< >>)
      /\ UNCHANGED <<breaks, inLoop, size, orderly>> /\ Still

CaseElse ==
  /\ After("case")
  /\ em' = [em EXCEPT !.emit = @ /\ ~(Top.const /\ Top.emitted)]
  /\ Become([Top EXCEPT !.k = "otherwise"]) /\ wants' = TRUE /\ made' = << >>
  /\ UNCHANGED <<breaks, inLoop, size, orderly>> /\ Still

EndCase ==
  LET e == IF Top.const THEN em ELSE PatchAll(em, Top.outs)
      otherwise == IF Top.k = "otherwise" THEN Top.list \o made ELSE << >>
  IN  /\ After("case") \/ After("otherwise")
      /\ Finish([e EXCEPT !.emit = Top.last],
                <<[k |-> "case", n |-> Top.n, arms |-> Top.arms, otherwise |-> otherwise]>>)
      /\ UNCHANGED <<breaks, inLoop, size, orderly>> /\ Still

EnterNarrow == 2
EnterSize == 3

\* `end.': the program's own EXIT; the VM starts at the entry point.
EndProgram ==
  /\ After("begin") /\ Len(todo) = 1
  /\ em' = Emit(em, [op |-> "EXIT"])
  /\ todo' = << >> /\ Done(<< >>)
  /\ src' = Top.list \o made \o <<[k |-> "exit"]>>
  /\ vm' = [ip |-> EnterSize, flag |-> FALSE, reg |-> FALSE]
  /\ size' = 0
  /\ UNCHANGED <<breaks, inLoop, orderly, turn>>

Continue ==
  \/ Semicolon \/ EndBegin \/ Else \/ EndIf \/ EndWhile \/ EndFor
  \/ \E c \in Conditions : Until(c)
  \/ \E equal \in BOOLEAN : Arm(equal)
  \/ EndArm \/ CaseElse \/ EndCase \/ EndProgram

-----------------------------------------------------------------------------
(* What the source means *)

\* Steps nobody sees: what replaces the head of src.
Unfold(s) ==
  CASE s.k = "loop"   -> <<s.again, Mark>>
    [] s.k = "while"  -> If(s.c, s.n, Append(s.body, s), << >>)
    [] s.k = "repeat" -> s.body \o If(s.c, s.n, << >>, <<s>>)
    [] s.k = "for"    -> If(s.c, s.n, s.body \o <<Act(s.n, "next"), s>>, << >>)
    [] s.k = "mark"   -> << >>
    [] s.k = "case" /\ s.arms = << >> -> s.otherwise
    [] s.k = "case" /\ s.arms # << >> ->
         <<[k |-> "test", c |-> Head(s.arms).c, n |-> s.n, side |-> Head(s.arms).side,
            yes |-> Head(s.arms).body, no |-> <<[s EXCEPT !.arms = Tail(@)]>>]>>
    [] s.k = "test" /\ s.c.k = "lit" -> IF s.c.val THEN s.yes ELSE s.no
    [] s.k = "test" /\ s.c.k = "and" ->
         <<[s EXCEPT !.c = s.c.l, !.yes = <<[s EXCEPT !.c = s.c.r, !.side = 2]>>]>>
    [] s.k = "test" /\ s.c.k = "or" ->
         <<[s EXCEPT !.c = s.c.l, !.no = <<[s EXCEPT !.c = s.c.r, !.side = 2]>>]>>

Visible(s) == s.k \in {"act", "exit"} \/ (s.k = "test" /\ s.c.k \in {"cmp", "var", "notvar"})
SourceWaits == src # << >> /\ Visible(Head(src))

SourceStep ==
  /\ Running /\ src # << >> /\ ~Visible(Head(src))
  /\ src' = IF Head(src).k = "break"
            THEN SubSeq(src, SelectInSeq(src, LAMBDA s : s.k = "mark") + 1, Len(src))
            ELSE Unfold(Head(src)) \o Tail(src)
  /\ UNCHANGED <<em, compiling, orderly, vm, turn>>

\* What is seen of the head of src.
SourceEvent(s) ==
  CASE s.k = "act"  -> <<s.n, s.what>>
    [] s.k = "test" -> <<s.n, s.side>>
    [] OTHER        -> <<s.k>>

\* The outcome is that of the comparison or variable; NOT comes after it.
Outcome(s, outcome) ==
  CASE s.k = "act"  -> << >>
    [] s.k = "test" -> IF outcome = (s.c.k = "notvar" \/ (s.c.k = "cmp" /\ s.c.not))
                       THEN s.no ELSE s.yes
-----------------------------------------------------------------------------
(* The VM *)

Fetched == WordAt(em, vm.ip)
Jump(taken) == [vm EXCEPT !.ip = @ + BranchSize + (IF taken THEN Fetched.by ELSE 0)]

Taken == CASE Fetched.op = "BR"  -> TRUE
           [] Fetched.op = "BCT" -> vm.flag
           [] Fetched.op = "BCF" -> ~vm.flag
           [] Fetched.op = "BNZ" -> vm.reg
           [] Fetched.op = "BEZ" -> ~vm.reg

\* BR, BCT, BCF, BEZ, BNZ and MOVI.
VMStep ==
  /\ Running /\ SourceWaits
  /\ \/ Fetched.op \in Branches /\ vm' = Jump(Taken)
     \/ Fetched.op = "imm" /\ vm' = [vm EXCEPT !.ip = @ + 1, !.reg = Fetched.val]
  /\ UNCHANGED <<em, compiling, orderly, src, turn>>

WordEvent(w) ==
  CASE w.op = "act" -> <<w.n, w.what>>
    [] w.op = "BRI" -> <<w.n, "next">>
    [] w.op \in {"set", "load"} -> <<w.n, w.side>>
    [] OTHER -> <<"exit">>

Seen == {"act", "BRI", "set", "load", "EXIT"}

\* A step of the VM that is seen is a step of the source too.
EventStep(outcome) ==
  /\ Running /\ SourceWaits /\ Fetched.op \in Seen
  /\ WordEvent(Fetched) = SourceEvent(Head(src))
  /\ vm' = CASE Fetched.op = "BRI"  -> Jump(TRUE)
             [] Fetched.op = "set"  -> [vm EXCEPT !.ip = @ + 1, !.flag = outcome # Fetched.neg]
             [] Fetched.op = "load" -> [vm EXCEPT !.ip = @ + 1, !.reg = outcome # Fetched.neg]
             [] Fetched.op = "act"  -> [vm EXCEPT !.ip = @ + 1]
             [] OTHER -> vm
  /\ src' = IF Head(src).k = "exit" THEN << >> ELSE Outcome(Head(src), outcome) \o Tail(src)
  /\ turn' = ~turn
  /\ UNCHANGED <<em, compiling, orderly>>

-----------------------------------------------------------------------------
Init ==
  /\ em = [code |-> <<[op |-> "ENTER"], SecondHalf, SecondHalf>>,
           emit |-> TRUE, dead |-> FALSE]
  /\ todo = <<[k |-> "begin", list |-> << >>]>>
  /\ wants = TRUE /\ made = << >>
  /\ breaks = << >> /\ inLoop = FALSE
  /\ size = 0 /\ orderly = TRUE
  /\ vm = [ip |-> 0, flag |-> FALSE, reg |-> FALSE]
  /\ src = << >> /\ turn = FALSE

Run == SourceStep \/ VMStep \/ \E outcome \in BOOLEAN : EventStep(outcome)

Next == Statement \/ Continue \/ Run

Spec == Init /\ [][Next]_vars /\ WF_vars(Run)

-----------------------------------------------------------------------------
(* Properties *)

Words == {"ENTER", "half", "act", "set", "load", "imm", "EXIT", "BRI"} \cup Branches

TypeOK ==
  /\ em.emit \in BOOLEAN /\ em.dead \in BOOLEAN
  /\ \A i \in DOMAIN em.code : em.code[i].op \in Words
  /\ wants \in BOOLEAN /\ inLoop \in BOOLEAN /\ orderly \in BOOLEAN /\ turn \in BOOLEAN
  /\ breaks \in Seq(Nat) /\ size \in 0 .. MaxSize
  /\ vm.ip \in Nat /\ vm.flag \in BOOLEAN /\ vm.reg \in BOOLEAN
  /\ Running => Fetched.op # "half"

\* Compiling does not kill the compiler: what is patched is a branch
\* (PVMPatchBranch's PASCAL_UNREACHABLE), whatever is nested in whatever.
PatchesBranches == orderly => ~em.dead

\* The code does what the source says, in the source's order: when the source
\* waits for something to happen and the VM is where something does, it is the
\* same thing.
InStep ==
  Running /\ orderly /\ SourceWaits /\ Fetched.op \in Seen
    => WordEvent(Fetched) = SourceEvent(Head(src))

Pending(k) == {i \in DOMAIN todo : todo[i].k \in k}
\* Code is emitted but in what can never be reached: a construct that switches
\* emission off switches it on again when it is over, and no other one does.
EmitsWhatRuns ==
  ~em.dead /\ orderly => 
    (em.emit <=>
       /\ \A i \in Pending({"then", "while"}) : ~Never(todo[i].c)
       /\ \A i \in Pending({"else"}) : ~Always(todo[i].c)
       /\ \A i \in Pending({"arm"}) : Literal(Last(todo[i].arms).c, TRUE) \/ ~todo[i].const
       /\ \A i \in Pending({"otherwise"}) : ~(todo[i].const /\ todo[i].emitted))

\* Where instructions begin.
Starts == {i \in 1 .. Len(em.code) : em.code[i].op # "half"} \ {1}
\* A finished program has no branch left that nobody patched, nor one into the
\* middle of an instruction: behind a 1-word or a 2-word instruction alike.
BranchesLand ==
  Running /\ orderly =>
    \A i \in Starts : em.code[i].op \in Branches \cup {"BRI"} =>
      i + BranchSize + em.code[i].by \in Starts

\* The breaks noted are those of the loops being compiled, and outside loops
\* there are none: none leaves a loop it is not in.
BreaksOfPending ==
  LET loops == Pending({"while", "for"}) IN
  orderly =>
    /\ inLoop <=> loops # {}
    /\ \A i \in loops : todo[i].prev <= Len(breaks)
    /\ loops = {} => breaks = << >>

\* While the source waits, the VM gets to what it waits for: no branch leads
\* round in a circle or off the code.
StepsOn == \A b \in BOOLEAN :
  (Running /\ orderly /\ SourceWaits /\ turn = b) ~> (turn # b)
================================================================================
