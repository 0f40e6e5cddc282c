-------------------------------- MODULE Session --------------------------------
(***************************************************************************)
(* A session of the REPL, or the run of a file: blocks, subroutines,       *)
(* scopes and storage (src/src/Compiler/Compiler.c, Data.c, VarList.c),    *)
(* the chunk they are written to (PVM/Chunk.c), and the lines of           *)
(* PascalRepl.c that keep the subroutines of a line for the next ones,     *)
(* failed or not.                                                          *)
(*                                                                         *)
(* The text is chosen piece by piece while it is compiled.  Then the code  *)
(* runs beside what the source says: `calls' of the line and of every      *)
(* subroutine.  Statements other than calls, arguments and initialisers    *)
(* of locals emit nothing here (see Codegen and Registers); records and    *)
(* pointers to subroutines are left out.  One text stands for a line of    *)
(* the REPL and those its callback adds.                                   *)
(*                                                                         *)
(* A subroutine is `kept' once a line without error has declared it.  Two  *)
(* things the code does not do as the source says are told by ghosts:      *)
(* calls of a subroutine that is not kept, not located or that contains    *)
(* others, or after a run that has filled the return stack (see Sound),    *)
(* and global variables of a declaration that mixes initialised ones with  *)
(* others before them (`sure').                                            *)
(* FromOutermost, ToSite, KeepsReferences, DropsAll, KeepsLines,           *)
(* NoParameters, Unrounded and OuterGoesOn are no part of the model: they  *)
(* are wrong versions of what follows them.                                *)
(***************************************************************************)
EXTENDS Integers, Sequences, FiniteSets, SequencesExt

CONSTANTS
  Modes,      \* "repl", "program"
  Names,      \* identifiers
  Parameters, \* parameter lists: sequences of names
  Blocks,     \* VAR blocks: sequences of declarations, see Declarations
  MaxSubs,    \* bound: subroutines
  Weight,     \* what a text, a subroutine, a call and a block add to the size
  MaxSize,    \* bound: size of a session
  MaxScope,   \* PVM_MAX_SCOPE_COUNT
  RetSlots,   \* the VM's return stack
  ArgRegs,    \* PVM_ARGREG_COUNT
  Few,        \* entries the line table searches one by one; 10
  InitialCap  \* bytes of global data at first; 1024

\* `typed' is FALSE where the type does not parse.
Declarations == [names : Seq(Names) \ {<< >>}, size : Nat \ {0}, init : BOOLEAN, typed : BOOLEAN]

ASSUME SessionAssumption ==
  /\ Modes \subseteq {"repl", "program"}
  /\ Parameters \subseteq Seq(Names) /\ \A p \in Parameters : Cardinality(ToSet(p)) = Len(p)
  /\ Blocks \subseteq Seq(Declarations)
  /\ Weight \in [{"text", "sub", "call", "block"} -> Nat \ {0}]
  /\ {MaxSubs, MaxSize, RetSlots, ArgRegs} \subseteq Nat /\ Few \in Nat \ {0}
  /\ MaxScope \in Nat \ {0} /\ InitialCap \in Nat /\ InitialCap >= 3

VARIABLES
  mode,    \* CompMode
  status,  \* "idle", "compiling", "running", "reset", "dead" or "quit"
  subs,    \* subroutines, the first declared first: Subroutine records
  tables,  \* Vartabs: that of global names, 0, and those of subroutines
  comp,    \* the compiler: Scope, Locals, references, EntryPoint, Error, StackSize
  open,    \* blocks being compiled, the outermost, which is sub 0, first
  chunk,   \* code, entry point, line table and global data
  calls,   \* ghost: subroutines the main block of this text calls
  vm,      \* IP and return addresses
  act,     \* ghost: activations the source says there are
  spent    \* size of the session so far

vars == <<mode, status, subs, tables, comp, open, chunk, calls, vm, act, spent>>

Invalid == -1 \* SUBROUTINE_INVALID_LOCATION
Undefined == [is |-> "undefined"]
SubIs(s) == [is |-> "sub", sub |-> s]
VarAt(at, size, sure) == [is |-> "var", at |-> at, size |-> size, sure |-> sure]
Other == [is |-> "other"] \* a type or a constant

RoundUp(n, to) == ((n + to - 1) \div to) * to
StackAlign == 8
GlobalAlign == 4

-----------------------------------------------------------------------------
(* Names *)

CurrentScope == IF comp.scope = 0 THEN 0 ELSE comp.locals[comp.scope]

FromOutermost(n) ==
  LET has == {i \in 1 .. comp.scope : tables[comp.locals[i]][n] # Undefined}
  IN  IF has = {} THEN tables[0][n]
      ELSE tables[comp.locals[CHOOSE i \in has : \A j \in has : i <= j]][n]
FindIdentifier(n) ==
  LET has == {i \in 1 .. comp.scope : tables[comp.locals[i]][n] # Undefined}
  IN  IF has = {} THEN tables[0][n]
      ELSE tables[comp.locals[CHOOSE i \in has : \A j \in has : j <= i]][n]

\* Innermost open block first, as the source nests them.
Visible(n) ==
  LET has == {i \in 1 .. Len(open) : tables[open[i].sub][n] # Undefined}
  IN  IF has = {} THEN Undefined
      ELSE tables[open[CHOOSE i \in has : \A j \in has : j <= i].sub][n]

\* A name that is taken keeps what it stands for.
Define(tab, n, as) == IF tab[n] = Undefined THEN [tab EXCEPT ![n] = as] ELSE tab

\* Any name that can be seen is taken for a new subroutine.
NameTaken(n) == FindIdentifier(n) # Undefined

PushSubroutine(c, s) == [c EXCEPT !.locals[c.scope + 1] = s, !.scope = @ + 1]
PopSubroutine(c) == [c EXCEPT !.scope = @ - 1]
TooDeep == comp.scope + 1 >= MaxScope

PushReference(c, site, s) == [c EXCEPT !.refs = Append(@, [site |-> site, sub |-> s])]

-----------------------------------------------------------------------------
(* Code and the line table *)

Here == Len(chunk.code)
\* Every word remembers the line it was written for, an offset into the code.
LastLine(c) == IF c.lines = <<>> THEN Invalid ELSE Last(c.lines).offset
Emit(c, op, arg, size, tag) ==
  LET word(i) == [op |-> IF i = 1 THEN op ELSE "operand", arg |-> IF i = 1 THEN arg ELSE 0,
                  tag |-> tag, line |-> LastLine(c)]
  IN  [c EXCEPT !.code = @ \o [i \in 1 .. size |-> word(i)]]

EmitEnter(c, tag) == Emit(c, "ENTER", 0, 3, tag)
EmitExit(c, tag) == Emit(c, "EXIT", 0, 1, tag)
BranchSize == 2
EmitCall(c, tag) == Emit(c, "CALL", 0 - Len(c.code) - BranchSize, BranchSize, tag)

PatchEnter(c, at, size) ==
  [c EXCEPT !.code[at + 1].arg = RoundUp(size, StackAlign)]

ToSite(c, from, to) == [c EXCEPT !.code[from + 1].arg = to - from]
PatchBranch(c, from, to) == [c EXCEPT !.code[from + 1].arg = to - from - BranchSize]

\* The same instruction gets at most 8 lines; they make one entry.
WriteDebugInfo(c) ==
  IF c.lines # <<>> /\ Last(c.lines).offset = Len(c.code)
  THEN [c EXCEPT !.lines[Len(c.lines)].count = IF @ < 8 THEN @ + 1 ELSE @]
  ELSE [c EXCEPT !.lines = Append(@, [offset |-> Len(c.code), count |-> 1])]

\* The binary search of ChunkGetDebugInfo, indices from 1, then the linear one.
\* More than a few lines are left where it ends only if mid is the one.
Offset(i) == chunk.lines[i].offset
Narrow(at, s) ==
  IF s.high - s.low <= Few \/ at = Offset(s.mid) THEN s
  ELSE IF at > Offset(s.mid) THEN [s EXCEPT !.low = s.mid, !.mid = @ + (s.high - @) \div 2]
  ELSE [s EXCEPT !.high = s.mid, !.mid = s.low + (@ - s.low) \div 2]
BinarySearch(at) ==
  LET n == Len(chunk.lines)
      after[i \in 0 .. n] ==
        IF i = 0 THEN [low |-> 1, mid |-> n \div 2 + 1, high |-> n] ELSE Narrow(at, after[i - 1])
  IN  after[n]
GetDebugInfo(at) ==
  LET n == Len(chunk.lines)
      s == BinarySearch(at)
      stops == {i \in s.low .. s.high - 1 : Offset(i) = at \/ Offset(i + 1) > at}
  IN  IF Offset(n) <= at THEN n
      ELSE IF s.high - s.low > Few THEN s.mid
      ELSE IF stops = {} THEN s.high ELSE CHOOSE i \in stops : \A j \in stops : i <= j

-----------------------------------------------------------------------------
(* Storage *)

Unrounded(c, size) ==
  [c EXCEPT !.cap = IF c.count + size > @ THEN 2 * @ + size ELSE @,
            !.count = @ + size]
WriteGlobalData(c, size) ==
  [c EXCEPT !.cap = IF c.count + size > @ THEN 2 * @ + size ELSE @,
            !.count = @ + RoundUp(size, GlobalAlign)]

\* Where the block starts, what it has taken since, and what can go wrong.
BlockStart(atGlobal) ==
  [tab |-> tables[CurrentScope], base |-> IF atGlobal THEN chunk.count ELSE comp.stack,
   total |-> 0, chunk |-> chunk, error |-> FALSE, gone |-> FALSE, dead |-> FALSE]

Initialize(b, d, atGlobal) ==
  IF ~ atGlobal THEN [b EXCEPT !.error = @ \/ Len(d.names) # 1]
  ELSE [b EXCEPT !.error = @ \/ Len(d.names) # 1, !.base = @ + b.total, !.total = 0,
                 !.chunk = WriteGlobalData(@, b.tab[Head(d.names)].size)]

VarList(b, d, atGlobal, sure) ==
  LET aligned == RoundUp(d.size, IF atGlobal THEN GlobalAlign ELSE StackAlign)
      at(i) == b.base + b.total + (i - 1) * aligned
      isNew(i) == /\ b.tab[d.names[i]] = Undefined
                  /\ \A j \in 1 .. i - 1 : d.names[j] # d.names[i]
      new(n) == {i \in DOMAIN d.names : d.names[i] = n /\ isNew(i)}
  IN  [b EXCEPT
         !.tab = [n \in Names |-> IF new(n) = {} THEN @[n]
                                  ELSE VarAt(at(CHOOSE i \in new(n) : TRUE), d.size, sure)],
         !.error = @ \/ \E i \in DOMAIN d.names : ~ isNew(i),
         !.total = @ + Len(d.names) * aligned]

Declare(b, d, atGlobal, sure) ==
  LET listed == VarList(b, d, atGlobal, sure)
  IN  IF b.gone \/ b.dead THEN b
      ELSE IF ~ d.typed THEN [b EXCEPT !.error = TRUE, !.gone = TRUE]
      ELSE IF ~ d.init THEN listed
      ELSE IF listed.tab[Head(d.names)].is # "var" THEN [listed EXCEPT !.dead = TRUE]
      ELSE Initialize(listed, d, atGlobal)

Declared(block, atGlobal, sure) ==
  LET upTo[i \in 0 .. Len(block)] ==
        IF i = 0 THEN BlockStart(atGlobal) ELSE Declare(upTo[i - 1], block[i], atGlobal, sure)
  IN  upTo[Len(block)]

\* Ghost: names are new, types are right, and no initialised variable comes
\* with others or after one that is not.
Regular(block, tab) ==
  /\ \A i \in DOMAIN block : block[i].typed /\ (block[i].init => Len(block[i].names) = 1)
  /\ \A i, j \in DOMAIN block : i < j /\ block[j].init => block[i].init
  /\ \A i, j \in DOMAIN block : \A k \in DOMAIN block[i].names, l \in DOMAIN block[j].names :
       /\ tab[block[i].names[k]] = Undefined
       /\ block[i].names[k] = block[j].names[l] => i = j /\ k = l

\* Parameters in registers are moved to the frame, the others lie below it.
ParameterSize == 4
NoParameters(ps) == 0
ParameterSpace(ps) == StackAlign * (IF Len(ps) < ArgRegs THEN Len(ps) ELSE ArgRegs)
ParameterAt(i) == IF i <= ArgRegs THEN (i - 1) * StackAlign ELSE (ArgRegs - i) * ParameterSize
LocalParameters(ps) ==
  [n \in Names |-> IF n \in ToSet(ps)
                   THEN VarAt(ParameterAt(CHOOSE i \in DOMAIN ps : ps[i] = n), ParameterSize, TRUE)
                   ELSE Undefined]

-----------------------------------------------------------------------------
(* Blocks *)

Top == Last(open)
Compiling(part) == status = "compiling" /\ Top.part = part
AtGlobal == comp.scope = 0
WithTop(part) == [open EXCEPT ![Len(open)].part = part]
Dies == status' = "dead" /\ UNCHANGED <<subs, tables, comp, open, chunk, calls, vm, act>>

Takes(what) == spent + Weight[what] <= MaxSize /\ spent' = spent + Weight[what]

\* An error among declarations: a file goes on at the next block, the REPL
\* gives up what is left of the text.
Report(error, c, o) ==
  /\ comp' = [c EXCEPT !.error = @ \/ error, !.eof = @ \/ (error /\ mode = "repl")]
  /\ open' = [o EXCEPT ![Len(o)].part = IF error /\ mode = "repl" THEN "over" ELSE @]

BeginText ==
  /\ status = "idle" /\ Takes("text")
  /\ status' = "compiling"
  /\ open' = <<[sub |-> 0, part |-> "declarations", stack |-> 0]>>
  /\ comp' = [comp EXCEPT !.error = FALSE, !.eof = FALSE, !.last = comp.entry]
  /\ calls' = <<>>
  /\ UNCHANGED <<mode, subs, tables, chunk, vm, act>>

VarBlock(block) ==
  /\ Compiling("declarations") /\ Takes("block")
  /\ LET here == CurrentScope
         sure == Regular(block, tables[here])
         b == Declared(block, AtGlobal, sure)
     IN  \/ b.dead /\ Dies
         \/ /\ ~ b.dead
            /\ tables' = [tables EXCEPT ![here] = b.tab]
            /\ chunk' = IF AtGlobal /\ ~ b.gone THEN WriteGlobalData(b.chunk, b.total) ELSE b.chunk
            /\ Report(b.error, [comp EXCEPT !.stack =
                                  IF AtGlobal \/ b.gone THEN @ ELSE @ + b.total], open)
            /\ UNCHANGED <<status, subs, calls, vm, act>>
  /\ UNCHANGED mode

\* TYPE and CONST: a name is a name.
DefinitionBlock(n) ==
  /\ Compiling("declarations") /\ Takes("block")
  /\ LET here == CurrentScope
     IN  /\ tables' = [tables EXCEPT ![here] = Define(@, n, Other)]
         /\ Report(tables[here][n] # Undefined, comp, open)
  /\ UNCHANGED <<mode, status, subs, chunk, calls, vm, act>>

\* The header, and the frame of the body if one follows.
SubroutineBlock(n, ps, forward) ==
  LET s == Len(subs) + 1
      lined == WriteDebugInfo(chunk)
      sub == [loc |-> IF forward THEN Invalid ELSE Here, calls |-> <<>>, fate |-> "fresh",
              holds |-> FALSE]
      within == [i \in DOMAIN subs |->
                   IF i = Top.sub THEN [subs[i] EXCEPT !.holds = @ \/ ~ forward] ELSE subs[i]]
  IN  /\ Compiling("declarations") /\ Takes("sub") /\ s <= MaxSubs
          /\ UNCHANGED mode
      /\ \/ /\ NameTaken(n) \/ (~ forward /\ TooDeep)
            /\ Dies
         \/ /\ ~ NameTaken(n) /\ (forward \/ ~ TooDeep)
            /\ subs' = Append(within, sub)
            /\ tables' = [tables EXCEPT ![CurrentScope] = Define(@, n, SubIs(s)),
                            ![s] = IF forward THEN @ ELSE LocalParameters(ps)]
            /\ chunk' = IF forward THEN lined ELSE EmitEnter(lined, <<s, 0>>)
            /\ open' = IF forward THEN open
                       ELSE Append(open, [sub |-> s, part |-> "declarations", stack |-> comp.stack])
            /\ comp' = IF forward THEN comp
                       ELSE [PushSubroutine(comp, s) EXCEPT !.stack = @ + ParameterSpace(ps)]
            /\ UNCHANGED <<status, calls, vm, act>>

BeginBlock ==
  /\ Compiling("declarations")
  /\ open' = WithTop("body")
  /\ comp' = IF AtGlobal THEN [comp EXCEPT !.entry = Here] ELSE comp
  /\ chunk' = IF AtGlobal THEN EmitEnter(chunk, <<0, 0>>) ELSE chunk
  /\ UNCHANGED <<mode, status, subs, tables, calls, vm, act, spent>>

\* What the source has the block being compiled call.
Meant == IF Top.sub = 0 THEN calls ELSE subs[Top.sub].calls
Noted(s) ==
  IF Top.sub = 0 THEN calls' = Append(calls, s) /\ UNCHANGED subs
  ELSE subs' = [subs EXCEPT ![Top.sub].calls = Append(@, s)] /\ UNCHANGED calls

CallStmt(n) ==
  /\ Compiling("body") /\ Takes("call")
  /\ UNCHANGED <<mode, status, tables, open, vm, act>>
  /\ LET found == FindIdentifier(n)
     IN  \/ /\ found.is # "sub"
            /\ comp' = [comp EXCEPT !.error = TRUE]
            /\ UNCHANGED <<subs, chunk, calls>>
         \/ /\ found.is = "sub"
            /\ comp' = PushReference(comp, Here, found.sub)
            /\ chunk' = EmitCall(WriteDebugInfo(chunk), <<Top.sub, Len(Meant) + 1>>)
            /\ Noted((IF Visible(n).is = "sub" THEN Visible(n) ELSE found).sub)

EndBlock(atEnd) ==
  /\ chunk' = IF AtGlobal THEN PatchEnter(chunk, comp.entry, comp.stack) ELSE chunk
  /\ comp' = [comp EXCEPT !.error = @ \/ atEnd, !.eof = @ \/ atEnd]
  /\ open' = WithTop("over")
End ==
  /\ Compiling("body") /\ EndBlock(FALSE)
  /\ UNCHANGED <<mode, status, subs, tables, calls, vm, act, spent>>

\* The text ends too early, or, among declarations, goes on with no block.
TextEnds ==
  /\ \/ Compiling("body") /\ EndBlock(TRUE)
     \/ /\ Compiling("declarations")
        /\ \E eof \in {TRUE, mode = "repl"} : comp' = [comp EXCEPT !.error = TRUE, !.eof = eof]
        /\ open' = WithTop("over") /\ UNCHANGED chunk
  /\ UNCHANGED <<mode, status, subs, tables, calls, vm, act, spent>>

OuterGoesOn(o) == Front(o)
Outer(o) ==
  [Front(o) EXCEPT ![Len(o) - 1].part = IF comp.eof THEN "over" ELSE @]

EndSubroutine ==
  /\ Compiling("over") /\ Len(open) > 1
  /\ LET s == Top.sub
     IN  /\ chunk' = EmitExit(WriteDebugInfo(PatchEnter(chunk, subs[s].loc, comp.stack)),
                              <<s, Len(subs[s].calls) + 1>>)
  /\ comp' = [PopSubroutine(comp) EXCEPT !.stack = Top.stack]
  /\ open' = Outer(open)
  /\ UNCHANGED <<mode, status, subs, tables, calls, vm, act, spent>>

\* A site has one reference.
Resolve(c) ==
  LET refs(i) == {k \in DOMAIN comp.refs : comp.refs[k].site = i - 1}
      target(i) == subs[comp.refs[CHOOSE k \in refs(i) : TRUE].sub].loc
  IN  [c EXCEPT !.code = [i \in DOMAIN @ |-> IF refs(i) = {} THEN @[i]
                                             ELSE PatchBranch(c, i - 1, target(i)).code[i]]]

\* The least set with these calls and all that is called from it.
Closed(set) == \A s \in set : ToSet(subs[s].calls) \subseteq set
Reach(calls0) ==
  {s \in DOMAIN subs : \A set \in SUBSET DOMAIN subs :
                         ToSet(calls0) \subseteq set /\ Closed(set) => s \in set}
\* Every subroutine that can run has been kept, is located and holds no other.
Sound(kept) ==
  \A s \in Reach(calls) : kept[s].fate = "kept" /\ kept[s].loc # Invalid /\ ~ kept[s].holds

\* Ghost: what becomes of the subroutines of this text.
Settled(fate) ==
  [s \in DOMAIN subs |-> IF subs[s].fate = "fresh" THEN [subs[s] EXCEPT !.fate = fate] ELSE subs[s]]

\* The file is patched, and gets its entry point and EXIT, whatever happened.
EndText(dot) ==
  LET error == comp.error \/ ~ dot
      resolved == EmitExit([Resolve(chunk) EXCEPT !.entry = comp.entry], <<0, Len(calls) + 1>>)
      settled == Settled(IF error THEN "lost" ELSE "kept")
  IN  /\ Compiling("over") /\ Len(open) = 1
      /\ dot => ~ comp.eof
      /\ subs' = settled
      /\ chunk' = IF error /\ mode = "repl" THEN chunk ELSE resolved
      /\ comp' = [comp EXCEPT !.error = error,
                    !.entry = IF error /\ mode = "repl" THEN comp.last ELSE @,
                    !.refs = IF error /\ mode = "repl" THEN @ ELSE <<>>]
      /\ open' = <<>>
      /\ status' = IF error THEN "reset" ELSE "running"
      /\ vm' = [vm EXCEPT !.pc = comp.entry]
      /\ act' = IF error \/ ~ Sound(settled) \/ vm.ret # <<>> THEN <<>> ELSE <<[unit |-> 0, next |-> 0]>>
      /\ UNCHANGED <<mode, tables, calls, spent>>

-----------------------------------------------------------------------------
(* Running it, and the next text *)

At(pc) == chunk.code[pc + 1]
CallsOf(unit) == IF unit = 0 THEN calls ELSE subs[unit].calls

Stops == status' = "reset" /\ UNCHANGED <<vm, act>>

VMEnter ==
  /\ At(vm.pc).op = "ENTER"
  /\ vm' = [vm EXCEPT !.pc = @ + 3]
  /\ act' = [act EXCEPT ![Len(act)].next = 1]
  /\ UNCHANGED status

VMCall ==
  /\ At(vm.pc).op = "CALL"
  /\ IF Len(vm.ret) = RetSlots THEN Stops
     ELSE LET a == Last(act)
          IN  /\ vm' = [pc |-> vm.pc + BranchSize + At(vm.pc).arg,
                        ret |-> Append(vm.ret, vm.pc + BranchSize)]
              /\ act' = Append([act EXCEPT ![Len(act)].next = @ + 1],
                               [unit |-> CallsOf(a.unit)[a.next], next |-> 0])
              /\ UNCHANGED status

VMExit ==
  /\ At(vm.pc).op = "EXIT"
  /\ IF vm.ret = <<>> THEN Stops
     ELSE /\ vm' = [pc |-> Last(vm.ret), ret |-> Front(vm.ret)]
          /\ act' = Front(act)
          /\ UNCHANGED status

\* A text that is not sound goes where the code left there leads.
Derailed == act = <<>> /\ Stops

Run ==
  /\ status = "running"
  /\ Derailed \/ (act # <<>> /\ (VMEnter \/ VMCall \/ VMExit))
  /\ UNCHANGED <<mode, subs, tables, comp, open, chunk, calls, spent>>

DropsAll(c) == [c EXCEPT !.code = <<>>, !.lines = <<>>]
KeepsLines(c) == [c EXCEPT !.code = SubSeq(@, 1, c.entry)]
\* As many lines go as are at the entry point or behind it: the last ones.
ChunkReset(c) ==
  [c EXCEPT !.code = SubSeq(@, 1, c.entry),
            !.lines = SubSeq(@, 1, Cardinality({i \in DOMAIN @ : @[i].offset < c.entry}))]

KeepsReferences(c) == [c EXCEPT !.error = FALSE, !.stack = 0, !.locals = [i \in 1 .. MaxScope |-> 0]]
CompilerReset(c) ==
  [c EXCEPT !.refs = <<>>, !.error = FALSE, !.stack = 0, !.locals = [i \in 1 .. MaxScope |-> 0]]

\* After a line of the REPL; a file is done.
Reset ==
  /\ status = "reset"
  /\ \/ /\ mode = "repl" /\ status' = "idle"
        /\ comp' = CompilerReset(comp) /\ chunk' = ChunkReset(chunk)
     \/ /\ mode = "program" /\ status' = "quit"
        /\ UNCHANGED <<comp, chunk>>
  /\ UNCHANGED <<mode, subs, tables, open, calls, vm, act, spent>>

Init ==
  /\ mode \in Modes
  /\ status = "idle"
  /\ subs = <<>>
  /\ tables = [i \in 0 .. MaxSubs |-> [n \in Names |-> Undefined]]
  /\ comp = [scope |-> 0, locals |-> [i \in 1 .. MaxScope |-> 0], refs |-> <<>>, entry |-> 0,
             last |-> 0, error |-> FALSE, eof |-> FALSE, stack |-> 0]
  /\ open = <<>>
  /\ chunk = [code |-> <<>>, entry |-> 0, lines |-> <<>>, count |-> 0, cap |-> InitialCap]
  /\ calls = <<>>
  /\ vm = [pc |-> 0, ret |-> <<>>]
  /\ act = <<>>
  /\ spent = 0

Step ==
  \/ EndSubroutine
  \/ \E dot \in BOOLEAN : EndText(dot)
  \/ Run
  \/ Reset
Next ==
  \/ BeginText
  \/ \E block \in Blocks : VarBlock(block)
  \/ \E n \in Names : DefinitionBlock(n) \/ CallStmt(n)
  \/ \E n \in Names, ps \in Parameters, forward \in BOOLEAN : SubroutineBlock(n, ps, forward)
  \/ BeginBlock \/ End \/ TextEnds
  \/ Step

\* What follows the end of a text takes no more of it.
Spec == Init /\ [][Next]_vars /\ WF_vars(Step)

-----------------------------------------------------------------------------
(* Properties *)

Entities ==
  {Undefined, Other} \cup [is : {"sub"}, sub : 1 .. MaxSubs]
    \cup [is : {"var"}, at : Int, size : Nat \ {0}, sure : BOOLEAN]
Tags == (0 .. MaxSubs) \X (0 .. MaxSize)
Words == [op : {"ENTER", "CALL", "EXIT", "operand"}, arg : Int, tag : Tags, line : Int]

\* Types.  Beyond them: subroutines nest less deep than the arrays of scopes
\* (Data.c: CompilerPushSubroutine), every text begins at global scope, and
\* references to patch are CALLs of the code there is.
TypeOK ==
  /\ mode \in Modes /\ status \in {"idle", "compiling", "running", "reset", "dead", "quit"}
  /\ subs \in Seq([loc : Int, calls : Seq(1 .. MaxSubs), fate : {"fresh", "kept", "lost"},
                   holds : BOOLEAN])
  /\ tables \in [0 .. MaxSubs -> [Names -> Entities]]
  /\ comp.scope \in 0 .. MaxScope - 1 /\ comp.locals \in [1 .. MaxScope -> 0 .. MaxSubs]
  /\ comp.stack \in Nat /\ {comp.entry, comp.last} \subseteq Nat
  /\ status = "idle" => comp.scope = 0 /\ comp.refs = <<>>
  /\ \A i \in DOMAIN comp.refs : comp.refs[i].site < Here => At(comp.refs[i].site).op = "CALL"
  /\ chunk.code \in Seq(Words) /\ chunk.entry \in 0 .. Here
  /\ chunk.lines \in Seq([offset : Nat, count : 1 .. 8])
  /\ calls \in Seq(1 .. MaxSubs)

\* A name means what the innermost open block that declares it, then the
\* texts before, say: the array of scopes, which no reset shortens, always is
\* that of the blocks being compiled, whatever failed (Data.c: FindIdentifier).
NamesFound ==
  status = "compiling" => \A n \in Names : FindIdentifier(n) = Visible(n)

\* A text without error runs its own calls and those of the subroutines that
\* texts before it have declared, each reaching the ENTER of the subroutine
\* that was meant, and returns to the statement after it (Data.c:
\* ResolveSubroutineReferences; Compiler.c: PascalCompileRepl).
InStep ==
  status = "running" /\ act # <<>> =>
    LET a == Last(act)
        n == Len(CallsOf(a.unit))
    IN  /\ vm.pc < Here /\ At(vm.pc).tag = <<a.unit, a.next>>
        /\ At(vm.pc).op = IF a.next = 0 THEN "ENTER" ELSE IF a.next <= n THEN "CALL" ELSE "EXIT"

\* The code of a subroutine that is kept is never cut off or written again
\* by a later text, be it one that fails (Chunk.c: ChunkReset).
KeepsSubroutines ==
  [][\A i \in DOMAIN chunk.code :
       LET s == chunk.code[i].tag[1]
       IN  s # 0 /\ s \in DOMAIN subs /\ subs[s].fate = "kept" =>
             i \in DOMAIN chunk'.code /\ chunk'.code[i] = chunk.code[i]]_vars

Overlap(v, w) == v.at < w.at + w.size /\ w.at < v.at + v.size
Variables(s) == {n \in Names : tables[s][n].is = "var" /\ tables[s][n].sure}
Apart(s) == \A n, m \in Variables(s) : n # m => ~ Overlap(tables[s][n], tables[s][m])

\* Global variables, of any text and among any declarations, have bytes of
\* their own, and these are reserved (Compiler.c: CompileVarBlock, Chunk.c:
\* ChunkWriteGlobalData, whose capacity check is made before rounding).
GlobalsApart ==
  /\ Apart(0)
  /\ \A n \in Variables(0) :
       LET v == tables[0][n] IN v.at + v.size <= chunk.count /\ v.at + v.size <= chunk.cap

\* So have the parameters and locals of a subroutine, in the frame its ENTER
\* makes, though blocks nested in it share the count (Compiler.c:
\* CompileLocalParameter, CompileSubroutineBlock).
FramesHold ==
  \A s \in DOMAIN subs :
    subs[s].fate = "kept" /\ subs[s].loc # Invalid =>
      /\ Apart(s)
      /\ \A n \in Variables(s) :
           tables[s][n].at + tables[s][n].size <= At(subs[s].loc).arg

\* The line found for an instruction is the last one written before it, in
\* code kept from earlier texts as in that of the current one (Chunk.c:
\* ChunkGetDebugInfo).
LinesFound ==
  \A i \in DOMAIN chunk.code :
    chunk.code[i].line # Invalid => Offset(GetDebugInfo(i - 1)) = chunk.code[i].line

\* A text that has ended, however many blocks it leaves open, is given up or
\* run, and the session goes on (Compiler.c: NoMoreToken, CompileBlock).
GoesOn == status = "compiling" /\ comp.eof ~> status \in {"idle", "quit"}

================================================================================
