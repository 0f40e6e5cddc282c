# A verification development for SPC

SPC is a Pascal compiler in C and the virtual machine (PVM) it compiles to. It
runs as a compiler of one file (`PascalFile.c`) or as a REPL (`PascalRepl.c`)
that compiles and runs one line at a time in one VM. This directory holds TLA+
models of its parts, TLC configurations that check them on small instances, and
proofs, checked by TLAPS, of what holds for every instance.

## 1. The system

One thread; no locks, no messages. What makes it hard is state that outlives
the operation that made it: a heap whose nodes split and merge, a hash table
with graves, a one-pass compiler that emits code before it knows where it will
jump to, which registers will have to be saved, or whether the line will
compile at all, and a VM that is run again after an error stopped it half way.

| Component | Source (src/src) | State | Operations | What makes it correct |
|---|---|---|---|---|
| General purpose allocator | Memory.c 85-275 | one arena, a list of nodes with a free tag in the size | GPAAllocate, GPAReallocate, GPADeallocate, GPADeinit | nodes tile the arena; held nodes are not free; blocks never overlap; a request fails only if no free node has room for it and for what rounding adds |
| Arena allocator | Memory.c 290-378 | four regions, used and capacity | ArenaAllocate, ArenaReset | blocks are disjoint; nothing outlives a reset |
| Identifier table | Vartab.c | slots, Cap, Count | Set, Find, Delete, Reset, Clone | finds what was last set; an empty slot is always left |
| Chunk | PVM/Chunk.c | code, global data, line info | write, reset, look up a line | offsets handed out stay valid; a line is found for every instruction |
| PVM: calls and frames | PVM/PVM.c | IP, FP, SP, stack, return stack | ENTER, EXIT, CALL, pushes, errors, PVMInit, PVMRun | returns go to callers with frame and stack as they were |
| PVM: data instructions | PVM/PVM.c, Isa.h | registers, condition, one temporary string | arithmetic, loads, stores, strings | the encoding is read as it was written; widths |
| Register allocation | Compiler/Emitter.c | register list, spill lists, StackSpace | allocate, free, spill, save, restore, arguments | two live values never share a register; what a call saves comes back |
| Branches and calls emitted | Compiler/Emitter.c | code, pending patches | branch, patch, call | every patched branch lands where it should |
| Statements | Compiler/Compiler.c | breaks, panic flag | if, loops, case, break, exit | the code does what the statement means |
| Subroutines and blocks | Compiler/Compiler.c | scopes, references, forward declarations | declare, define, call | a call reaches the body, wherever that comes |
| Scopes | Compiler/Data.c | stack of tables, identifiers in progress | push, pop, define, look up | the innermost declaration wins |
| Expressions | Compiler/Expr.c | none of its own | literals folded, runtime code | both give the same value |
| Argument lists | Compiler/VarList.c | none of its own | declare parameters, pass arguments | caller and callee agree on places |
| Builtins | Compiler/Builtins.c | none of its own | write, writeln, sizeof, ord | the stack is as before |
| Tokenizer | Tokenizer.c | position | next token | literals have the value they spell |
| Strings | PascalString.c | length byte and 255 bytes | copy, concatenate, compare | no length beyond 255 |
| Drivers | PascalRepl.c, PascalFile.c | one compiler, chunk, VM | read, compile, run, reset | a failed line leaves no trace |
| Disassembler, debugger, error messages | Disassembler.c, Debugger.c, Error.c | none | printing | not modelled: only text |

How they interact: the driver owns a `PascalCompiler` (which owns scopes of
`Vartab`s and a `PVMEmitter`), a `PVMChunk` the emitter writes to, and a
`PascalVM` that runs it. Tables, chunk and code live in `GPA` memory and so move when
they grow. The compiler calls the emitter directly; compiler and VM share only
the chunk and the calling convention. The REPL resets compiler and chunk after
a line and never resets the VM.

### What is hard here, and what answers it

- *A call into a half-built structure*: nodes that are being swallowed while
  their `Next` is stale (Memory.c 150-182), a table that is rebuilt while it is
  probed (Vartab.c 187-211). `Gpa` cuts the functions at their loops.
- *Legal calls in an unlucky order*: free, then grow, then grow again; delete,
  then set, then resize; a runtime error three calls deep, then another line.
  All runs enumerate every order.
- *Limits*: the last node of the arena, the last slot under the load limit, the
  last return frame, 16 registers, an odd byte count.
- *State that outlives its owner*: `RetStack` over runs, registers freed while
  an operand or a FOR counter still lives in them.
- *Code written before its meaning is known*: branches patched when a construct
  ends, breaks kept in one array for all loops, calls of subroutines whose body
  comes later or never, a line that fails half way. `Codegen` and `Session`
  choose the text piece by piece and hold the code against what it says.
- *One meaning, three places*: a literal is folded by the compiler, an immediate
  built by the emitter, or a register computed by the VM, each with types,
  widths and signs of its own. `Values` runs all three against the number meant.
- *Termination*: a first-fit search over a list that changes, a probe that stops
  only at an empty slot, a recursion that ends only by the return stack.

## 2. The modules and their order

| Module | Composes | Promise it is held against |
|---|---|---|
| `BlockPool` | - | the abstract pool of blocks |
| `Gpa` | instance of `BlockPool` | implements it; tiling, holding, fitting; proofs in `GpaProofs` |
| `Vartab` | - | a finite map, as long as the table has its first size; proofs in `VartabProofs` |
| `Pvm` | - | calls return to callers, frames are where the code thinks; proofs in `PvmProofs` |
| `Registers` | the emitter's register list with the VM's registers and stack | an operand is what it was when it is used; SP balanced round every call; proofs in `RegistersProofs` |
| `Codegen` | control statements and conditions, the emitter's branches, the VM's | the code of every small program runs as the program means, for every outcome of its tests; proofs in `CodegenProofs`, `CodegenMeaning` and `CodegenRuns` |
| `Session` | blocks, scopes, storage, calls, the chunk, the VM's calls, over several texts | names, calls, storage and lines are those of the source, and a text that fails leaves what earlier ones kept; proofs in `SessionProofs` |
| `Values` | tokenizer, folding and conversion, integer code, the VM's arithmetic and memory | tokens are what the characters say; a variable gets the number the source means |

The three compiler modules cut the language across: `Codegen` knows nothing of
values (a test has any outcome), `Values` nothing of control (one assignment),
`Session` only names, calls and storage. What one leaves out is another's.

Modules to be proved about hold no RECURSIVE operator: recursion over slots or
declarations is a recursive function, followed step by step in the proofs. The
scanner of `Values` recurs over its text, and stays with TLC.

## 3. The modules

### Gpa and BlockPool

| Code | Model |
|---|---|
| `GPAHeader.Size` with its free tag, `Next` | `size`, `next`: functions on header addresses; a byte offset is an address |
| `Prev` | left out: written, never read |
| the function being executed, its locals | `call`, `node`, `cur`, `bytes` |
| GPAAllocate, GPADeallocate, GPAReallocate (called) | `Allocate`, `Deallocate`, `Reallocate`, `ReallocateInPlace` |
| GPAFindFreeNode's loop | `FindSkip`, `FindForAllocate`, `FindForReallocate`, `OutOfMemory` |
| GPASplitNode | `SplitNode` (with `Divisible`, `Rest`) |
| GPACoalesceNode's loop and end | `CoalesceStep`, `CoalesceEnd`, `GrowExact`, `GrowSplit`, `GrowElsewhere` |
| memcpy and the release of the old node | `Move` |
| GPADeinit | `Deinit` |
| what clients hold | ghost `owned`: address given and bytes asked for |

A relocated block is given back as its header's address (Memory.c returns
`NewPtr`, not `NewPtr->Data`). A client that uses it writes over the list, so
`UseMisplaced` ends the model in `undefined`; every other client goes on. The
properties are `Tiled`, `BusyIsHeld`, `Fits`, `RefusedForCause`, `CallsReturn`,
and `ImplementsPool`: under the mapping `Blocks` every step is a step of
`BlockPool` or a stutter.

GPAFindFreeNode rounds a multiple of the alignment up to the *next* one, so that a
free node of exactly the bytes asked for is passed over, and the process may die of
"Out of memory" with it free: in `gpa`, allocate 1 and 50, which leaves a free node
of 64, and ask for 64. `RefusedForCause` is what does hold when it dies: no free node
has an alignment to spare for the request, and a block that was to grow first took
all the free space behind it. Free space before it, or in two neighbours freed in the
other order, is not merged, and nothing is claimed of it.

### Vartab

`cap`, `count` and `table` are the struct's fields; `defined` is what the calls
so far have bound. One C function is one action. `FindValidSlot` is the probe
loop said as sets: the first index on the way round that shows the name or an
empty slot, and the first grave before it. `Resize` rebuilds slot by slot and,
as the code does, probes the new table with the *old* `Cap` (`ProbeCap`), so
after a resize names land where later lookups do not look: `FindReturnsTheEntry`
fails, and `LookupsAgree` is stated for a table of its first size. What a resize
does keep is `EntriesSurvive`. `CountIsUsedSlots` is exact up to a second resize: by
then a name set again where the first had misplaced it may be in two slots, and
VartabResize counts it twice while it copies both to one. Count is then too large,
which costs an early resize and nothing else.

### Pvm

`Code` is any program of the shape the compiler emits; `CodeAssumption` says
which: ENTER first, EXIT last, branches inside, and the words on the stack known
for every address (`Height`). Subroutines nested in others do not have this
shape (the inner body follows the outer ENTER); `Session` has them.

| Code | Model |
|---|---|
| IP, R(FP), R(SP) | `ip`, `fp`, `sp`, in instructions and words |
| RetStack.Start / Val / SizeLeft | `saved`, `val`, `sizeLeft` |
| PVMInit | `Init` |
| PVMInterpret's prologue | `Run(e)` |
| OP_ENTER, OP_CALL, OP_CALLPTR, OP_EXIT | `Enter`, `Call`, `CallStackOverflow`, `Return`, `Finish` |
| PSHx, POPx, FPSHx, FPOPx, SYS WRITE, ADD to SP, loads and stores off FP | `UseStack`, `LeaveStack` |
| Bcc, BR | `Branch` |
| DIV and MOD by 0 | `Divide`, `DivideBy0` |

Ghosts: `own`, how many frames are this run's; `asked`, where each CALL expects
to go on; `clean`, whether the run found the return stack empty.

### Registers

A one-pass compiler allocates registers while it emits, so the model runs the
emitter and the VM together: each action emits a piece of code and executes it.

| Code | Model |
|---|---|
| PVMEmitter's Reglist, SpilledInt/FltRegLocation | `st.reglist`, `st.spilled` |
| the VM's R and F, stack, SP | `st.reg`, `st.word`, `st.sp`; a value is a tag: the place of what it was computed for |
| the C stack of the recursive-descent compiler | `todo`: operands, arguments in place, calls, WRITEs and FORs in progress |
| AllocateRegister, FreeRegister, PVMEmitIntoReg | `Allocate`, `Free`, `Load` |
| PVMEmitSaveCallerRegs with PSHx, PVMEmitUnsaveCallerRegs with POPx | `Save`, `Restore` |
| FactorVariable, FactorLiteral; RuntimeExprBinary and ParseAssignmentLhs | `Operand`, `Counter`; `Infix`, `Condition` |
| CompileCallWithReturnValue, CompileCallWithoutReturnValue | `CallFunction`, `CallProcedure`, then `RegisterArg`, `StackArg`, `Call` |
| CompileSysWrite | `WriteStart`, `WriteArg`, `Write` |
| CompileAssignStmt, CompileForStmt, PVMEmitterReset | `Assign`; `ForStart`, `ForInit`, `ForStop`, `ForEnd`; `Reset` |

The allocator is not sound, and the model follows it: the result of an operator
shares a register with the left operand, which is then freed
(`ResultsAreKept` fails); using a FOR counter frees it; a local that is used
frees FP; freeing F3 frees R3; a right operand's register is never freed; what
POPH pops lands in R0..R7; a function's stack arguments overlap the registers
saved for the call. The ghost `orderly` says that none of these has bitten so
far: every live register is allocated (`Owned`), two of each bank are left
(`Spare`), what is saved lies in one low half and not over stack arguments
(`SavesAreSmall`), and no counter is read inside a call that saved it
(`CountersInPlace`). All four speak of what is allocated, and none of contents;
under them `OperandsHold` says that all contents are right. `SpComesBack` and
`TypeOK` need no hypothesis.

A loop's body is run once and no branch is taken: what differs between two paths
to one place is not modelled.

### Codegen

| Code | Model |
|---|---|
| PVMEmitter's chunk, ShouldEmit | `em.code`, `em.emit`; `em.dead` after a PASCAL_UNREACHABLE |
| the C stack of CompileStmt and its callees | `todo`, the innermost construct last; `wants` while CompileStmt is next |
| Breaks, BreakCount, InLoop | `breaks` (and `prev` in each loop), `inLoop` |
| CompileIfStmt, CompileWhileStmt, CompileForStmt, CompileRepeatUntilStmt, CompileCaseStmt, CompileBeginStmt, CompileBreakStmt, CompileExitStmt | `IfStmt`, `WhileStmt`, ... where they begin; `Else`, `EndIf`, `EndWhile`, `EndFor`, `Until`, `Arm`, `EndArm`, `CaseElse`, `EndCase`, `EndBegin` where they go on |
| PVMEmitBranch..., PVMPatchBranch, PVMEmitBranchAndInc | `EmitBranch`, `BranchIf`, `Patch`, `EmitBranchAndInc` |
| ExprAnd, ExprOr and conditions | `Expr`, `ShortCircuits`, `Test` |
| the VM's IP, Condition, branches | `vm`, `VMStep`, `EventStep` |

`made` collects the meaning of what has been compiled; when the program is
complete its code runs beside that meaning, `src`, and the two are compared at
each event (`InStep`). `orderly` is lost where the compiler does something else
than the source says:

1. IF with the literal FALSE and an ELSE, where code is emitted: location 0 is patched and the compiler dies.
2. BREAK in code that is not emitted inside a loop that is: what comes next is patched.
3. A CASE of a constant in dead code with an arm that matches, or with two equal labels.
4. BREAK directly in a REPEAT inside another loop leaves the outer loop.
5. AND and OR whose operands are not flags of one sense.
6. A FOR body longer than BRI reaches (2^15 words).
7. More than 256 breaks: the compiler dies.

### Session

| Code | Model |
|---|---|
| Scope, Locals, Global | `comp.scope`, `comp.locals`, `tables` |
| SubroutineReferences, EntryPoint, Error, StackSize | `comp.refs`, `.entry`, `.error`, `.stack` |
| the C stack of CompileBlock and CompileSubroutineBlock | `open` |
| PascalSubroutines with their Location | `subs`; ghosts: the calls it makes, whether a text without error declared it |
| the chunk: code, EntryPoint, line table, global data | `chunk` |
| PascalCompileRepl, PascalCompileProgram | `BeginText`, `End`, `TextEnds`, then `EndText`, `CompilerReset` |
| CompileVarBlock, CompileTypeBlock and CONST, CompileSubroutineBlock, CompileBeginBlock | `VarBlock`, `DefinitionBlock`, `SubroutineBlock` and `EndSubroutine`, `BeginBlock` |
| CompilerEmitCall, ResolveSubroutineReferences | `CallStmt`, `Resolve` |
| the VM's ENTER, CALL, EXIT | `VMEnter`, `VMCall`, `VMExit`, beside `act`, the activations the source says there are |

Two hypotheses keep claims to what the code means to do. `Sound`, of `InStep`,
leaves out calls of a subroutine declared by a text that failed, of a forward one
whose body never came (its location is invalid), of one that holds others (the
outer ENTER is followed by the inner body), and runs after one that filled the
return stack, which is not reset. So, in a REPL, a procedure of a line that fails
stays defined with its code discarded, and a later call of it runs whatever the
next line put there. `sure` leaves out the variables of a VAR block that has
initialised ones after others: the block's base moves on and they overlap
(`var a: integer; b: integer = 5; var c: integer;`, then `c := 7`, prints b as
7). A second declaration of a visible name, the body of a forward one included,
kills the compiler, in spite of the comment at Compiler.c 1027. Left out: statements
other than calls, arguments, code of local initialisers, records, pointers to
subroutines, literals in global data, what panic skips inside an erroneous header.

Two of the assumptions on constants say what the code relies on without saying
it. The global data has room for at least 3 bytes at first (the code's 1024 do):
ChunkWriteGlobalData checks its capacity before it rounds the size up, and that
is safe only because the excess, at most 3, has its place (`Fitted` in
`SessionProofs`). And a declaration names a variable, since the parser's list of
names is never empty.

### Values

| Code | Model |
|---|---|
| TokenizerInit, TokenizerGetToken; Curr, Line, LinePtr | `Begin`, `Scan` with `SkipWhitespace` and `GetToken`; `lex` |
| CompileAssignStmt with `:=` | `CompileAssignStmt`, `Reject`, `DivideInCompiler` |
| ExprUnary, ExprBinary, TryCoercingTypes, LiteralExprBinary, ConvertTypeImplicitly | `Operand`, `Evaluate`, `TryCoercingTypes`, `LiteralExprBinary`, `Convert` |
| PVMEmitMove and the loads, stores and conversions; PVMEmitAdd ... PVMEmitSetIf... | `IntoReg`, `Store`, `Conversion`; `EmitBinary`, `AddImm`, `MulImm`, `EmitDiv`, `EmitShift`, `EmitSetIf` |
| ChunkWriteMovImm, GET_SEX_IMM | `MovImm`, `Immediate`; `ImmediateAt` |
| the VM's integer instructions; R, Condition, global data | `Compute`, `SetFlag`, `StoreBytes`, `DivisionByZero`, `Trap`; `vm`, `mem` |

`val` is what the source says the variables are. What the code does not do as
the source says is outside of `Claimed` (statements) or `Pascal` (texts), and
all of it was seen in the built program:

- *Folding.* Literals are unsigned, so `-5 < 3` is FALSE and `-7 mod 2` is 1;
  `-`, `*` and `div` of two literals add (6-2 is 8); `shr` shifts left, `asr` gives 0;
  MOD by the literal 0 kills the compiler.
- *A literal on the right.* `x + 20` subtracts; adding or subtracting a small one does
  nothing or, for a signed type, takes the next instructions as its immediate
  (`Wild`); `x * lit`
  multiplies by a register nobody loaded but for -1, 0, 1 and powers of two below
  2^16; `x div -1` is 1; a negative number divided by a power of two rounds down.
- *At run time.* MOD of signed operands is unsigned; `<` and `>` compare signed
  operands unsigned and the other way round; `<=`, `>=`, `<>` lose their negation when
  assigned to a Boolean; of a variable of two unsigned bytes the low one is loaded;
  an unsigned variable compared with a literal is a type error; the least number
  divided by -1 is undefined, in the model a trap or a wrapped result.
- *Texts.* `(* ... *)` ends at a `*` that no `)` follows; `&` is never over; a quote
  that ends the text is "unterminated"; `'It''s'` loses its quote; the end of a `//` comment is
  counted twice, and a line within a string not at all; `{ }` with a new line sets LinePtr at the end
  of the line.

Left out: reals, characters and strings beyond their tokens, booleans as
operands, `+=` and its kin, more than two operands.

## 4. The runs

| Run | Result | Instance | Why it is enough |
|---|---|---|---|
| `gpa` | passes | 208 + 32 bytes, requests of 1, 40, 50, 64 | holds five nodes: a split that fits, one that does not, a neighbour on each side, a coalescing of three, a relocation, and exhaustion all occur |
| `gpa_realloc` | `ActsLikeRealloc` violated | the same | a relocation is four calls away |
| `gpa_odd` | `SplitNodeIsNotFreed` violated | a growth to 33 bytes | one odd size is the whole case |
| `vartab` | passes | 4 slots growing to 16 (`MaxCap`), 4 names, 2 entries; hashes 3, 3, 7, 8 | names that collide, that wrap round the end, and that part only in the larger table; graves; two resizes, several clones |
| `vartab_find` | `FindReturnsTheEntry` violated | the same, 1 entry | one resize |
| `pvm` | passes | 22 instructions, 8 words, 3 return frames | direct recursion, a call by pointer, a branch round the call, an overflow and a division by 0 at any depth, any number of runs |
| `pvm_repl` | `GlobalExitEnds` violated | the same | an error in a call and one more line |
| `registers` | passes | banks of 8 (5 general, 4 in the low half), 1 argument register, subroutines of 1 and 2 parameters, 1 spilled register; 4 pending, or 2 once not `orderly` | a call with two registers saved, in an operand or an argument of another; an argument on the stack; a spill and a full spill table; a FOR around a WRITE |
| `codegen` | passes | programs of size 9: `MCWeight` makes nesting cheap and plain statements dear; 16 conditions, 2 arms, 2 breaks, BRI over 8 words | loops in loops with breaks, an IF in each place, dead code of each kind, operands of AND and OR of one sense and of two, branches over words and pairs of words |
| `session` | passes | sessions of size 10, which is three texts; 2 subroutines, names f, g, v; 3 scopes (16), 2 return slots (128), 1 argument register, 1 entry searched in turn (10), 8 bytes of data at first (1024) | a text that fails between two that do not, a forward and a nested subroutine, a name hidden and shown again, growth of the data, recursion to the limit |
| `values` | passes | bytes of 2 bits: INTEGER is -8 .. 7, a register has 16 bits; variables of every two of the 8 integer types, with all 17 operators; literals on both sides; every text of 2 or 3 of 23 pieces | all widths and signs meet; every immediate has its kind; pieces that begin a token end up before pieces that could continue it |
| `registers_chain` | `ResultsAreKept` violated | the same, integers only | three operators |

Bounds are `MaxCap` (no set that would grow beyond it), `InitialCap` of the
arena, the two stack sizes of `Pvm`, and in `Registers` `MaxTodo`,
`MaxDisorderly` and `StackWords` (which is never reached: `TypeOK`); in `Codegen`
`MaxSize` and `MaxArms`, in `Session` `MaxSubs` and `MaxSize`, in `Values` the length of a
session. Nothing else is cut off; other constants are the code's own limits, scaled. CHECK_DEADLOCK is off for `codegen`, `session` and `values`, which end when the program,
or the session, does, or the compiler dies, and for `gpa`, where the process dies of "Out of
memory", deinitialises the arena, or runs into the undefined, and for
`registers`, where the assertion "dynamic register spilling table?" kills the
compiler and where `MaxTodo` may stop a call in the middle of its arguments.

Definitions named in a module's head comment as wrong versions (`AlignDown`,
`BelowStart`'s `FirstWord`, ...) are there to be put in place of their
neighbours: each property is violated by one of them, so none is idle.

*Fairness.* `WF_vars(Running)` in `Gpa` and `WF_vars(Step)` in `Pvm`: a C
function that was called, and the interpreter's loop, run on in their one thread.
`WF_vars(Run)` in `Codegen` (the VM), `WF_vars(Step)` in `Session` (what follows the
end of a text: the blocks closed, the text given up or run, the reset) and
`WF_vars(Scan)` in `Values` (the loop of the scanner) are the same: the program goes
on with what it was called for. Nothing is assumed of clients and of texts typed. `Halts` is for code without
loops, which the run's code is; a program with a loop need not halt.

## 5. What is proved

`GpaProofs`: for every arena size, header size and alignment allowed by
`ArenaAssumption` and `SizesAssumption`, and all requests, `TypeOK`, `Tiled`,
`BusyIsHeld`, `Fits` and `RefusedForCause` are invariants of `Spec` if
`EvenReallocs` holds. The hypothesis is needed: ChunkWriteGlobalData grows its
array to an odd size, and the split then leaves the free tag inside a size
(`gpa_odd`). The invariant `IInv` adds to the first four that a function in progress
has a node its client holds, or NULL (`CallOK`), and that every node the search
passed is too small for the rounded request or busy, while the block that was to
grow has nothing free behind it (`SearchOK`). With the bound on what rounding adds
(`AlignUpRounds`) that gives `RefusedForCause`. `Tiled` has to be stated with `NextOf`,
because the code writes a swallowing node's `Next` only when the loop is over.
Two lemmas carry the argument, `SplitKeepsTiling` and `CoalesceStepOK`: cutting
a node and swallowing the next leave a tiling.

`VartabProofs`: for every first size, every hash function, any names and any
number of resizes and clones (`TableAssumption`), `TypeOK`, `CountIsUsedSlots`,
`LookupsAgree` and `EntriesSurvive` are invariants of `Spec`. Two facts carry it.
`Good`: no slot in use goes uncounted and Count keeps to the load limit, so that an
empty slot is left and VartabFindValidSlot ends on the name, a grave before an
empty slot, or that slot (`FindFinds`). `PathOK`: on the way of a name in the table
to its slot nothing is empty; a slot written takes the name's own way and a grave
is not empty (`WritePath`, `DigPath`), so that the probe meets the name if it is
there at all (`FoundIsTheSlot`) and it is there once (`OneSlot`). A resize breaks
`PathOK`, since it probes with the old capacity; what it keeps (`Copied`) are the
names, and a count that is exact if they were distinct. A clone keeps everything
(`Clones`) and never resizes: it counts no more than the original. Both go from
slot to slot; `Solution` says once that such a recursion has a solution, and `UpTo`
carries what each step keeps. `MaxCap` bounds the model, not the theorems: any will
do.

`PvmProofs`: for every program of the shape, all stack sizes and any number of
runs, `TypeOK`, `SizeLeftIsRight`, `SpTracksFrame`, `StaysInStack` are
invariants and `ReturnsToCaller` holds of every step. The strengthening says of
the return stack that every saved IP lies behind an ENTER (`SavedOK`), that the
frames of this run are those its CALLs asked for (`OwnOK`), that each begins on
top of the one below (`ChainOK`) with the running activation on top of all
(`TopOK`), and, if the run started clean, how large each is (`CleanOK`), from
which the bound on the stack follows (`StackSuffices`): (RetStackSize + 1)
times the largest frame.

`GpaProofs` also has the refinement: under the same two assumptions and `EvenReallocs`, `Spec`
implements `BlockPool` (`ImplementsPool`) with the mapping `Blocks`, what the
clients hold. Four ends of a call are steps of the pool: a search that succeeds hands a
block out (`AllocateHands`), a growth in place stretches one (`GrowStretches`),
`Move` relocates one (`MoveRelocates`), `Deallocate` takes one back; every other
step is a stutter. What has to be shown of the first three is that the new block
touches no other and stays in the arena: that is `Tiled` together with `Fits`,
since blocks lie in nodes and the node a call works on is its own.

`CodegenProofs`: for every set of conditions and events, every number of arms
and breaks, and programs of any size and depth (`CodegenAssumption`, in which
`Reach > 0` only says that BRI reaches somewhere), `TypeOK`, `PatchesBranches`,
`EmitsWhatRuns`, `BranchesLand` and `BreaksOfPending` are invariants of `Spec`.
None of them is inductive. That a patched location is a branch depends on what
each construct on the stack remembers, and that a finished program has no branch
left unpatched depends on who is responsible for it until then. So `Core` says

- `Sound`: code is instructions one behind the other (`WellFormed`), and each
  branch leads to the start of one, or of the next to come, unless it is in
  `Waiting` (`Targets`);
- `Waiting`: the locations some construct on the stack will patch to a target of
  its own (an ELSE's `from`, a CASE's `outs`) and the breaks of a loop whose code
  is emitted;
- `Remembers`: `last` and `live` of each construct say whether code was emitted
  round it and in it, in terms of the conditions below it on the stack alone;
- `Placed`, `BreaksPlaced`: what will be patched is a branch, and where a loop
  goes back to is an instruction;
- `LoopsOK`: `prev` grows inwards, `was` says whether a loop is outside, and
  without loops there are no breaks. That is how the one array of breaks splits
  into the loops' own.

`RunOK` adds that finished code goes from instruction to instruction, so IP never
points into the middle of one (`TypeOK`'s last conjunct). The lemmas go by
operation: what appending, a branch, a patch and a list of patches keep, then
what conditions emit, then each action. `IInv` was also checked by TLC on a
smaller instance of `codegen`. `Else` gives
`orderly` up by what the condition is, and not by whether the patch fails, so
that `PatchesBranches` says something there as well.

`CodegenMeaning` and `CodegenRuns`: under the same assumption `InStep` is an
invariant, that is, the code of every program that has been `orderly`, of any size
and depth, does what its source says, for every outcome of its tests. It compares
two executions, of words with branches and of a text with statements in statements,
and an induction over the text is out of the provers' reach. The argument needs
none. `Means(c, I, B, A, x, s)` says that from the places `A` on the code `c` does
`s` within the places `I`, and goes on at `x`, or at one of `B` where `s` breaks a
loop. It holds if there is a set `R` of pairs, of a state of the VM and what the
source has left to do, that `Follows`: the source of each pair is over and the VM
where it should be, or both have a next step (`Turn`: nothing visible happens, or
the same thing does) that leads to a pair of `R`. A loop is simply a set that leads
back to itself. `Tests` is the same for a condition, which goes on at one of two
sets of places.

1. *Putting together.* `SeqMeans`, `IfMeans`, `LoopMeans`, `RepeatMeans` and
   `CaseMeans` give the set of a statement from those of its parts, `AndTests` and
   `OrTests` that of AND and OR. `BehindFollows` puts what comes later behind what is
   left to do.
2. *Conditions.* `BranchExits`, `OperandTests`, `CompoundTests` and `CondTests` go
   from the words of a condition to `Tests`; `ExprEmits` shows that the compiler
   emits those words.
3. *Code that is not finished.* While a construct is compiled, branches in it have no
   target. `Settled` are the places that nobody will patch any more, and what holds
   of code on those stays when other places are patched (`MeansStays`); `Apart`
   says that each place to be patched is of one construct only. `TestWaits` speaks of
   the code as it will be once its branch leads to `x`, for every `x`; `Falls` of a
   CASE's arms, whose others are still to come.
4. *The stack of constructs.* `Built` says that each begins where the one around it
   left off (`Chain`), has done its `Part` so far, and that the statement just
   compiled means `made`. Constructs are pushed, changed and popped (`BuiltPush`,
   `BuiltChange`, `BuiltPop`), and each action has its lemma (`IfBuilt` ...
   `EndArmBuilt`). In code that is not emitted nothing is claimed but its length.
5. *The run.* `Matches` says that a set `R` has a pair of the source's state and a
   state the VM was in, from which it has gone on silently: the VM may be ahead of
   the source. As its silent steps are determined (`ReachesOne`), it then shows what
   the source shows (`EventMatches`), and `InStep` follows.

`MInv` is `IInv`, what the compiler has built (`Compiled`) and where the VM is
(`RunsOn`). TLC cannot evaluate it, since it quantifies over sets of pairs; it checks
its consequence `InStep`, and `IInv`.

`SessionProofs`: for every set of names, parameter lists and VAR blocks, every
weight and bound (`SessionAssumption`), `TypeOK`, `NamesFound` and `InStep` are
invariants and `KeepsSubroutines` holds of every step. It begins with what
the operators on the chunk and on VAR blocks return; a block, being a recursive
function of its declarations, is followed by `Iterates`, an induction over
the natural numbers done once. `InStep` is what the invariant is for: that the
VM is where the source says depends on code written at any time before. `IInv` says

- `Nested`, `Opened`: the array of scopes is that of the open blocks, all but the
  innermost of which wait among their declarations, are of this text and hold
  another; between texts nothing is open. `NamesFound` follows;
- `Entries`: what is in front of the chunk's entry point stays; what is behind it
  is of this text and goes if the text fails (`comp.last`, `comp.entry`);
- `KeptCode`, `FreshCode`, `MainCode`: where the code of each unit is, its ENTER
  and calls one behind the other with their tags (`Laid`) and, once it is closed,
  its EXIT (`Ended`). Calls of kept subroutines lead where they should (`Linked`);
  those of this text are in the list of references (`Noticed`), until the end of
  the text patches them all. A unit that holds others is left out (`Straight`):
  its body does not follow its ENTER;
- `References`: every reference is a CALL of this text and has its site alone, so
  that patching one disturbs no other;
- `Tagged`: kept code lies in front of the entry point, which is all that
  `KeepsSubroutines` and ChunkReset need;
- `Follows`: while a sound text runs, IP and each return address are those of the
  activations the source says there are, all of units that `Reach` holds. That
  `Reach` is closed under calls is what carries a CALL.

Two relations of chunks carry most steps: a compiling step only adds behind the
code there is or sets arguments behind the entry point (`Grows`), and every step
keeps what is in front of the entry point (`Keeps`).

The second half of `SessionProofs`: under the same assumption `GlobalsApart` and `FramesHold` are
invariants. The first half is about a VAR block, followed declaration by
declaration: what it declares lies between where it began and the height it has
reached, apart from what was there and from each other (`Placed`), and a regular
block at global scope has reserved exactly that many bytes when it ends (`Exact`:
a declaration with a value reserves at once, any other at the end). `GlobalsFit`,
that all global variables end before the bytes written and the capacity, is then
inductive with `IInv`. A block that stops half way has reserved too little; what
it declared is not `sure`.

A frame's size is known only at the end of its subroutine, and may be given up
before. `FramesFit` follows it:

- `OpenFrames`: the variables of an open block end within what it has taken from
  the stack, which is the compiler's count for the innermost and what the next one
  found for the others (`Room`);
- `FreshFrames`: every subroutine of this text that is located has its ENTER there
  and, once it is closed, with room for its variables; its parameters fit before
  any local is declared (`ParametersFit`);
- `KeptFrames`: the same of those kept. Their code is in front of the entry point,
  so that no later text reaches it.

The end of a text sets arguments too, but of CALLs only, so no ENTER is disturbed
(`EndText`'s patches and `References`). `FramesFit` was checked by TLC on `session`
before it was proved.

The third is the line table. `LinesFound` follows from `Lined`: offsets rise, none is
beyond the code, and each word remembers the last one at or before it. That survives
ChunkReset because the lines in front of the entry point are the first ones
(`FirstLines`). The search for a place keeps its line between `low` and `high`
(`Searches`), each step that does not end it narrows them (`NarrowOK`), so that as
many steps as there are lines are enough (`SearchEnds`): `BinarySearch` is stated
so, the loop's end being that nothing changes any more. `Few > 0` is needed: with
0 the loop of the code would not end. The code has 10.

`RegistersProofs`: for every number of registers, of argument registers, of
parameters and of spilled registers, `TypeOK` is an invariant and `SpComesBack`
holds of every step. Neither is inductive: where SP is when a call ends depends on
what was pushed since it began, by it, by the calls open inside it and by the
WRITEs around them. `IInv` says

- `Machined`: registers, words, reglist and spill table have their form, and SP is
  above the space of spilled registers;
- `Shape`: `todo` is what recursive descent leaves on the C stack. A function has
  one register for its result, an argument in place lies on its call or on another
  argument (`ArgsTogether`) and a call has no more of them than parameters
  (`ArgsFit`), a stop value lies on its FOR (`StopsOnFors`);
- `Adds`: a call found SP where the next one outwards stood: what that one found,
  the registers it saved, its stack arguments (their space is made at its first
  instruction) and, for a WRITE, two words for each argument in place; the
  outermost found `FrameTop`, and SP itself is reckoned from the innermost;
- `Levels`: each thing pending takes at most `Most` words, so that SP stays among
  the words. `Most` exists by the assumption on `StackWords`, which says that the
  model has words for `MaxTodo` things pending; the code has no such limit.

The lemmas go by operation. `Put`, `Allocate`, `Free`, `Save`, `Restore` keep a
machine one, and move SP by what they push or pop (`At`); popping and pushing
entries of `todo` keep `Adds` (`PopAdds`, `DropAdds`, `PushAdds`, `MarkAdds`,
`ArgAdds`). Save and Restore run over sets of registers: they count the same
`Cardinality`, and that is what brings SP back. `IInv` was checked by TLC on the
instance of `registers`.

The second half of `RegistersProofs`: for the same constants `OperandsHold` is an invariant. It says
something of code that has been `orderly` only, and `registers` has states of both
kinds. `OInv` says of it, besides `Orderly` itself,

- `Calm`: nothing is spilled, since two registers of each bank are left;
- `Static`, of `todo` alone: an operand's register is a general one of its bank
  (`GeneralAt`) and its tag its place, or that of the FOR whose counter it reads
  (`TaggedAt`); what shares a register inside one call are uses of one counter
  (`ApartAt`); a call has saved whatever was in use when it began (`AllSavedAt`), in
  words above all that anything below it has pushed (`LowAt`); the arguments in
  place are where the callee looks for them (`PlacedAt`);
- `RegsHold`, `WordsHold`, `SavedHold`: what nobody has saved is in its register, an
  argument on the stack in its word, and what the next call has saved in the word
  it pushed for it (`SavePlace`);
- `ForsTaken`: the register of a FOR is taken before its first value is there, and
  stays so unless a float operand is freed that has the integer register's number
  (`Uses`), after which no first value can follow.

A step that touches no register in use keeps all of that (`Untouched`). What is left
are three: a call begins, and what was in registers is in words (`CallBegins`); an
argument is put in place, in a register that is saved or a word that is nobody's
(`ArgPushed`, `ArgWordApart`); a call ends, and restoring pops in the reverse order
of saving, which for a single low half gives each register its own word
(`RestoreKeeps`, `CallEnds`). `PlacesBelow` says why the words of the outer calls are
out of reach meanwhile. TLC checked `OInv` on the instance of `registers` before it
was proved.

Only model-checked: liveness (`CallsReturn`, `Halts`, `StepsOn`, `GoesOn`,
`ScanEnds`), which the provers do not do under fairness; and all of `Values`. What
the scanner and the folding of `Values` compute for every text is an induction over
data, which the provers cannot follow.

## 6. Where code and documents part

| Run | Document | Code |
|---|---|---|
| `gpa_realloc` | Memory.h 36: MemReallocate acts like realloc | the address returned is the header's, not the data's |
| `gpa_odd` | Memory.c: the split node is set to be not freed | an odd size carries the free tag |
| `vartab_find` | Vartab.h: returns NULL if no such entry exists | also after a resize, for some that do |
| `pvm_repl` | PVM.c: "global scope, exit" | after an error the return stack is not empty and the main block returns into a dead call |
| `registers_chain` | Function2.pas expects `LocA * Locb * a * b` to be the product | the third operator's right operand overwrites the first two's product |

## 7. Not modelled

Text output, error wording, the disassembler, the debugger: they keep no state.
The arena: it never takes memory back (ArenaReset, which nothing calls, would let a
later region be used beyond its capacity). Strings (PascalString.c): library
routines on one buffer; string addition at run time, whose one temporary serves every
operand (the comment at PVM.c 451 says so), needs string variables, which in this
version hold pointers. Floats, records, arrays and pointers, and the VM's block copies; SIZEOF and
ORD. GOTO, WITH and array assignment are not in the code: it dies of them. Of
the register allocation, hidden parameters for records, type conversions, calls
through saved function pointers and assignments to FOR counters are left out.
