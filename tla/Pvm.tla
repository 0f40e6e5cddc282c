---------------------------------- MODULE Pvm ----------------------------------
(***************************************************************************)
(* Calls and frames in the interpreter of src/src/PVM/PVM.c, over several  *)
(* runs of one VM: the REPL keeps a PascalVM and calls PVMRun once a line. *)
(*                                                                         *)
(* Code is any program in the shape the compiler emits: see CodeAssumption. *)
(* An address is the index of an instruction; the stack is counted in      *)
(* words (PVMGPR), so that Stack.Start.Byte - sizeof(PVMGPR) is -1.        *)
(* Registers other than IP, FP and SP hold data, which is left out: a      *)
(* conditional branch goes either way, a divisor may be 0.                 *)
(* The stack is never checked by the code ("TODO: check stack"): what      *)
(* follows an access outside of it is undefined, and nothing is said of it. *)
(* FirstWord, FrameOnTop, FullLate, SameAddress, LostSlot and OnTop are no *)
(* part of the model: they are wrong versions of what follows them.        *)
(***************************************************************************)
EXTENDS Integers, Sequences

CONSTANTS
  Code,          \* sequence of instructions [op, n, to]
  Entries,       \* the entry points of the lines or programs that are run
  Height,        \* address |-> words the activation has on the stack there
  Unentered,     \* the Height of an address where ENTER is still to come
  MaxHeight,     \* no Height is larger
  StackSize,     \* PVMInit's StackSize, in words
  RetStackSize   \* PVMInit's RetStackSize, in frames

Addresses == 1 .. Len(Code)
Ops == {"enter", "exit", "call", "branch", "div", "push", "pop", "write", "addsp", "local"}

\* What an instruction adds to SP.  WRITE takes a value and a type per argument.
Delta(i) == CASE i.op \in {"enter", "push", "addsp"} -> i.n
              [] i.op = "pop" -> -i.n
              [] i.op = "write" -> -2 * i.n
              [] OTHER -> 0

ASSUME SizesAssumption ==
  /\ StackSize \in Nat /\ RetStackSize \in Nat \ {0}
  /\ Unentered \notin Nat /\ MaxHeight \in Nat

\* The shape of the emitted code.  Subroutines and main blocks begin with ENTER,
\* and only they do; they end with EXIT.  Branches stay in their subroutine.
\* What an activation pushes it pops again in the same order of nesting, so that
\* the words it has on the stack are known for every address.  (A subroutine
\* nested in another does not have this shape: its code follows the ENTER of
\* the outer one.)
ASSUME CodeAssumption ==
  /\ Code \in Seq([op : Ops, n : Int, to : SUBSET Nat])
  /\ Entries \subseteq Addresses
  /\ Height \in [Addresses -> (0 .. MaxHeight) \cup {Unentered}]
  /\ \A e \in Entries : Height[e] = Unentered
  /\ \A a \in Addresses : LET i == Code[a] IN
       /\ Height[a] = Unentered <=> i.op = "enter"
       /\ i.op \in {"enter", "push", "pop", "write"} => i.n \in Nat
       /\ i.op = "local" => i.n \in 0 .. Height[a] - 1
       /\ i.op \in {"call", "branch"} => i.to \subseteq Addresses
       /\ i.op = "call" => \A t \in i.to : Height[t] = Unentered
       /\ i.op = "branch" => \A t \in i.to : Height[t] = Height[a]
       /\ i.op # "exit" =>
            /\ a + 1 \in Addresses
            /\ Height[a + 1] # Unentered
            /\ Height[a + 1] = (IF i.op = "enter" THEN 0 ELSE Height[a]) + Delta(i)

VARIABLES
  status,     \* "idle", "running", or "undefined"
  result,     \* what the last PVMInterpret returned
  ip, fp, sp, \* IP, R(FP), R(SP)
  saved,      \* RetStack.Start: an array of PVMSaveFrames
  val,        \* RetStack.Val - RetStack.Start
  sizeLeft,   \* RetStack.SizeLeft
  own,        \* ghost: how many of the frames were pushed by this run
  asked,      \* ghost: for each frame, where its CALL expects to go on
  clean       \* ghost: this run found RetStack empty

regs == <<ip, fp, sp>>
retStack == <<saved, val, sizeLeft>>
ghosts == <<own, asked, clean>>
vars == <<status, result, regs, retStack, ghosts>>

Frame(i, f) == [ip |-> i, fp |-> f]
Site(i, f, s) == [ip |-> i, fp |-> f, sp |-> s]

-----------------------------------------------------------------------------
Init ==
  /\ status = "idle" /\ result = "none"
  /\ ip = 0 /\ fp = 0 /\ sp = 0
  /\ saved = [k \in 1 .. RetStackSize |-> Frame(0, 0)]
  /\ val = 0 /\ sizeLeft = RetStackSize
  /\ own = 0 /\ asked = [k \in 1 .. RetStackSize |-> Site(0, 0, 0)] /\ clean = TRUE

\* Stack.Start.Byte - sizeof(PVMGPR)
FirstWord == 0
BelowStart == -1

\* PVMInterpret sets up IP, FP and SP, and leaves RetStack as it is.
Run(e) ==
  /\ status = "idle"
  /\ status' = "running"
  /\ ip' = e /\ fp' = 0 /\ sp' = BelowStart
  /\ own' = 0 /\ clean' = (val = 0)
  /\ UNCHANGED <<result, retStack, asked>>

Ins == Code[ip]
At(op) == status = "running" /\ Ins.op = op

\* The words of the stack an instruction reads or writes.
Touched ==
  CASE Ins.op = "push"           -> sp + 1 .. sp + Ins.n
    [] Ins.op \in {"pop", "write"} -> sp + Delta(Ins) + 1 .. sp
    [] Ins.op = "local"          -> {fp + Ins.n}
    [] OTHER                     -> {}

Defined == Touched \subseteq 0 .. StackSize - 1

FrameOnTop(s) == s
FrameAbove(s) == s + 1

Enter ==
  /\ At("enter")
  /\ fp' = FrameAbove(sp) /\ sp' = sp + Delta(Ins) /\ ip' = ip + 1
  /\ UNCHANGED <<status, result, retStack, ghosts>>

\* PSHx, POPx, SYS WRITE, ADD to SP, and the accesses to FP + n.
UseStack ==
  /\ status = "running" /\ Ins.op \in {"push", "pop", "write", "addsp", "local"}
  /\ Defined
  /\ sp' = sp + Delta(Ins) /\ ip' = ip + 1
  /\ UNCHANGED <<status, result, fp, retStack, ghosts>>

LeaveStack ==
  /\ status = "running" /\ ~Defined
  /\ status' = "undefined"
  /\ UNCHANGED <<result, regs, retStack, ghosts>>

\* Taken or not.
Branch ==
  /\ At("branch")
  /\ \E t \in Ins.to \cup {ip + 1} : ip' = t
  /\ UNCHANGED <<status, result, fp, sp, retStack, ghosts>>

Stop(r) ==
  /\ status' = "idle" /\ result' = r
  /\ UNCHANGED <<regs, retStack, ghosts>>

Divide ==
  /\ At("div")
  /\ ip' = ip + 1
  /\ UNCHANGED <<status, result, fp, sp, retStack, ghosts>>

DivideBy0 == At("div") /\ Stop("division by 0")

\* CALL, and CALLPTR to any of several subroutines.
FullLate == sizeLeft < 0
Full == sizeLeft = 0

SameAddress(a) == a
ReturnAddress(a) == a + 1

Call ==
  /\ At("call") /\ ~Full
  /\ saved' = [saved EXCEPT ![val + 1] = Frame(ReturnAddress(ip), fp)]
  /\ val' = val + 1 /\ sizeLeft' = sizeLeft - 1
  /\ \E t \in Ins.to : ip' = t
  /\ own' = own + 1
  /\ asked' = [asked EXCEPT ![val + 1] = Site(ip + 1, fp, sp)]
  /\ UNCHANGED <<status, result, fp, sp, clean>>

CallStackOverflow == At("call") /\ Full /\ Stop("callstack overflow")

LostSlot(n) == n
GivenBack(n) == n + 1

OnTop(f) == f
Below(f) == f - 1

\* "stack scope, return"
Return ==
  /\ At("exit") /\ val # 0
  /\ val' = val - 1 /\ sizeLeft' = GivenBack(sizeLeft)
  /\ ip' = saved[val].ip /\ sp' = Below(fp) /\ fp' = saved[val].fp
  /\ own' = (IF own > 0 THEN own - 1 ELSE 0)
  /\ UNCHANGED <<status, result, saved, asked, clean>>

\* "global scope, exit"
Finish == At("exit") /\ val = 0 /\ Stop("no error")

-----------------------------------------------------------------------------
Step ==
  \/ Enter \/ UseStack \/ LeaveStack \/ Branch \/ Divide \/ DivideBy0
  \/ Call \/ CallStackOverflow \/ Return \/ Finish

Next == (\E e \in Entries : Run(e)) \/ Step

Spec == Init /\ [][Next]_vars

\* The interpreter's loop goes on until it returns; lines come when they come.
FairSpec == Spec /\ WF_vars(Step)

-----------------------------------------------------------------------------
(* Properties *)

\* The return stack's pointer stays in its array, and IP in the code.
TypeOK ==
  /\ status \in {"idle", "running", "undefined"}
  /\ result \in {"none", "no error", "division by 0", "callstack overflow"}
  /\ ip \in Addresses \cup {0} /\ fp \in Int /\ sp \in Int
  /\ status # "idle" => ip \in Addresses
  /\ val \in 0 .. RetStackSize /\ sizeLeft \in Int
  /\ saved \in [1 .. RetStackSize -> [ip : Addresses \cup {0}, fp : Int]]
  /\ \A k \in 1 .. val : saved[k].ip \in Addresses
  /\ own \in 0 .. val /\ clean \in BOOLEAN
  /\ asked \in [1 .. RetStackSize -> [ip : Addresses \cup {0}, fp : Int, sp : Int]]

\* SizeLeft, the only guard of the return stack's end, agrees with Val, whatever
\* errors ended the runs so far.
SizeLeftIsRight == sizeLeft = RetStackSize - val

\* An EXIT that ends a call of this run goes on after that call, in the caller's
\* frame and with the caller's SP, whatever the callee left on the stack, and even
\* where frames of an earlier run lie below.
ReturnsToCaller ==
  [][At("exit") /\ own > 0 =>
       /\ status' = "running"
       /\ ip' = asked[val].ip /\ fp' = asked[val].fp /\ sp' = asked[val].sp]_vars

\* A run that starts on an empty return stack has on the stack, above FP, what
\* the code put there since ENTER: no more, and no less.
SpTracksFrame ==
  status = "running" /\ clean /\ Height[ip] # Unentered => sp = fp - 1 + Height[ip]

\* Such a run never leaves the stack if RetStackSize + 1 of the largest frames fit
\* in it, although no instruction checks.
StaysInStack ==
  clean /\ (RetStackSize + 1) * MaxHeight <= StackSize =>
    /\ status # "undefined"
    /\ status = "running" => sp < StackSize

\* Code without loops always comes to an end: recursion is stopped by the return
\* stack, and every return goes forward.
Halts == (status = "running") ~> (status # "running")

\* "global scope, exit" (PVM.c): when every call of the run has returned, EXIT
\* ends the run.
GlobalExitEnds == At("exit") /\ own = 0 => val = 0
=============================================================================
