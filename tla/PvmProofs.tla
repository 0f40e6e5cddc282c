------------------------------- MODULE PvmProofs -------------------------------
(***************************************************************************)
(* The invariants of Pvm for every program of the shape the compiler emits *)
(* and every stack size, over any number of runs.                          *)
(***************************************************************************)
EXTENDS Pvm, TLAPS, SequenceTheorems

-----------------------------------------------------------------------------
(* The strengthening *)

Entered(a) == Height[a] # Unentered

\* A saved IP is inside an activation, never before its ENTER.
SavedOK == \A k \in 1 .. val : Entered(saved[k].ip)

\* The frames of this run are those its CALLs asked for ...
OwnOK ==
  \A k \in 1 .. val : k > val - own =>
    saved[k].ip = asked[k].ip /\ saved[k].fp = asked[k].fp

\* ... each lies where the SP of the one below was ...
ChainOK ==
  \A k \in 1 .. val : k > val - own + 1 => asked[k].fp = asked[k - 1].sp + 1

\* ... and the running activation on top of the last.
TopOK ==
  status = "running" /\ own > 0 =>
    IF Entered(ip) THEN fp = asked[val].sp + 1
    ELSE fp = asked[val].fp /\ sp = asked[val].sp

\* In a clean run, all frames are its own, and their sizes are those of the code.
CleanOK ==
  status = "running" /\ clean =>
    /\ own = val
    /\ \A k \in 1 .. val :
         /\ asked[k].fp >= 0 /\ asked[k].fp <= (k - 1) * MaxHeight
         /\ asked[k].sp = asked[k].fp - 1 + Height[asked[k].ip]
         /\ asked[k].sp < k * MaxHeight
    /\ Entered(ip) => sp = fp - 1 + Height[ip] /\ 0 <= fp /\ fp <= val * MaxHeight
    /\ ~Entered(ip) /\ val = 0 => sp = -1

Fits == (RetStackSize + 1) * MaxHeight <= StackSize

DefinedOK == status = "undefined" => ~(clean /\ Fits)

Frames == SavedOK /\ OwnOK /\ ChainOK /\ TopOK
IInv == TypeOK /\ SizeLeftIsRight /\ Frames /\ CleanOK /\ DefinedOK

-----------------------------------------------------------------------------
(* What the shape of the code says of one instruction *)

LEMMA CodeFacts ==
  ASSUME NEW a \in Addresses
  PROVE  /\ Code[a].op \in Ops /\ Code[a].n \in Int
         /\ Entered(a) => Height[a] \in Nat /\ Height[a] <= MaxHeight
         /\ Entered(a) <=> Code[a].op # "enter"
         /\ Code[a].op # "exit" =>
              /\ a + 1 \in Addresses /\ Entered(a + 1)
              /\ Height[a + 1] \in Nat /\ Height[a + 1] <= MaxHeight
              /\ Code[a].op = "enter" => Height[a + 1] = Code[a].n
              /\ Code[a].op # "enter" => Height[a + 1] = Height[a] + Delta(Code[a])
<1>1. Code[a] \in [op : Ops, n : Int, to : SUBSET Nat]
  BY ElementOfSeq, CodeAssumption DEF Addresses
<1>2. Code[a].op \in Ops /\ Code[a].n \in Int
  BY <1>1
<1>3. Height[a] = Unentered <=> Code[a].op = "enter"
  BY CodeAssumption
<1>4. ASSUME NEW b \in Addresses, Entered(b)
      PROVE  Height[b] \in Nat /\ Height[b] <= MaxHeight
  <2>1. Height[b] \in 0 .. MaxHeight
    BY <1>4, CodeAssumption DEF Entered
  <2> QED
    BY <2>1, SizesAssumption
<1>5. CASE Code[a].op = "exit"
  BY <1>2, <1>3, <1>4, <1>5 DEF Entered
<1>6. CASE Code[a].op # "exit"
  <2>1. /\ a + 1 \in Addresses /\ Entered(a + 1)
        /\ Height[a + 1] = (IF Code[a].op = "enter" THEN 0 ELSE Height[a]) + Delta(Code[a])
    BY <1>6, CodeAssumption DEF Entered
  <2>2. Height[a + 1] \in Nat /\ Height[a + 1] <= MaxHeight
    BY <1>4, <2>1
  <2>3. Code[a].op = "enter" => Delta(Code[a]) = Code[a].n
    BY DEF Delta
  <2> QED
    BY <1>2, <1>3, <1>4, <2>1, <2>2, <2>3 DEF Entered
<1> QED
  BY <1>5, <1>6

LEMMA DeltaIsInt ==
  ASSUME NEW a \in Addresses, Code[a].op # "exit" PROVE Delta(Code[a]) \in Int
<1>1. Code[a].n \in Int
  BY CodeFacts
<1> QED
  BY <1>1 DEF Delta

LEMMA NextMultiple ==
  \A k, m \in Nat : k * m \in Nat /\ (k + 1) * m = k * m + m
OBVIOUS

LEMMA MultiplesGrow ==
  \A j, k, m \in Nat : j <= k => j * m <= k * m
OBVIOUS

-----------------------------------------------------------------------------
(* The invariant *)

LEMMA InitOK == Init => IInv
<1> SUFFICES ASSUME Init PROVE IInv
  OBVIOUS
<1> USE SizesAssumption DEF Init
<1>1. TypeOK
  BY DEF TypeOK, Frame, Site
<1>2. SizeLeftIsRight
  BY DEF SizeLeftIsRight
<1>3. Frames
  BY DEF Frames, SavedOK, OwnOK, ChainOK, TopOK
<1>4. CleanOK /\ DefinedOK
  BY DEF CleanOK, DefinedOK
<1> QED
  BY <1>1, <1>2, <1>3, <1>4 DEF IInv

LEMMA Types ==
  ASSUME TypeOK
  PROVE  /\ val \in Nat /\ val <= RetStackSize /\ own \in Nat /\ own <= val
         /\ fp \in Int /\ sp \in Int /\ sizeLeft \in Int
<1>1. val \in 0 .. RetStackSize /\ own \in 0 .. val /\ fp \in Int /\ sp \in Int /\ sizeLeft \in Int
  BY DEF TypeOK
<1> QED
  BY <1>1, SizesAssumption

LEMMA RunOK == ASSUME IInv, NEW e \in Entries, Run(e) PROVE IInv'
<1> USE DEF IInv, Run, retStack
<1>1. e \in Addresses /\ ~Entered(e)
  BY CodeAssumption DEF Entered
<1>2. TypeOK'
  <2>1. clean' \in BOOLEAN
    OBVIOUS
  <2>2. ip' \in Addresses /\ fp' \in Int /\ sp' \in Int
    BY <1>1 DEF BelowStart
  <2>3. own' \in 0 .. val'
    BY Types
  <2> QED
    BY <2>1, <2>2, <2>3 DEF TypeOK
<1>3. SizeLeftIsRight'
  BY DEF SizeLeftIsRight
<1>4. Frames'
  <2>1. SavedOK'
    BY DEF Frames, SavedOK, Entered
  <2>2. val' = val /\ val \in Int /\ own' = 0
    BY Types
  <2>3. OwnOK' /\ ChainOK'
    BY <2>2 DEF OwnOK, ChainOK
  <2>4. TopOK'
    BY DEF TopOK
  <2> QED
    BY <2>1, <2>3, <2>4 DEF Frames
<1>5. CleanOK'
  <2> SUFFICES ASSUME clean' PROVE CleanOK'
    BY DEF CleanOK
  <2>1. val' = 0 /\ own' = 0 /\ sp' = -1 /\ ~Entered(ip)'
    BY <1>1 DEF Entered, BelowStart
  <2> QED
    BY <2>1 DEF CleanOK
<1>6. DefinedOK'
  BY DEF DefinedOK
<1> QED
  BY <1>2, <1>3, <1>4, <1>5, <1>6

\* A step inside an activation: IP goes to another of its addresses, FP stays,
\* and SP moves with the Height.
WithinActivation ==
  /\ status = "running" /\ Entered(ip)
  /\ ip' \in Addresses /\ Entered(ip)'
  /\ status' = "running" /\ fp' = fp /\ sp' \in Int
  /\ sp' - sp = Height[ip'] - Height[ip]
  /\ UNCHANGED <<result, retStack, ghosts>>

LEMMA WithinOK == IInv /\ WithinActivation => IInv'
<1> SUFFICES ASSUME IInv, WithinActivation PROVE IInv'
  OBVIOUS
<1> USE DEF IInv, WithinActivation, retStack, ghosts
<1>1. TypeOK'
  BY DEF TypeOK
<1>2. SizeLeftIsRight'
  BY DEF SizeLeftIsRight
<1>3. Frames'
  <2>1. (SavedOK /\ OwnOK /\ ChainOK)'
    BY DEF Frames, SavedOK, OwnOK, ChainOK, Entered
  <2>2. TopOK'
    BY DEF Frames, TopOK, Entered
  <2> QED
    BY <2>1, <2>2 DEF Frames
<1>4. Height[ip] \in Nat /\ Height[ip'] \in Nat
  BY CodeFacts DEF TypeOK, Entered
<1>5. CleanOK'
  <2> SUFFICES ASSUME clean PROVE CleanOK'
    BY DEF CleanOK
  <2>1. sp = fp - 1 + Height[ip] /\ 0 <= fp /\ fp <= val * MaxHeight
    BY DEF CleanOK
  <2>2. sp' = fp' - 1 + Height[ip']
    <3>1. fp \in Int /\ sp \in Int /\ sp' \in Int /\ fp' = fp
      BY DEF TypeOK
    <3>2. sp' - sp = Height[ip'] - Height[ip]
      OBVIOUS
    <3> QED
      BY <2>1, <1>4, <3>1, <3>2
  <2> QED
    BY <2>1, <2>2 DEF CleanOK, Entered
<1>6. DefinedOK'
  BY DEF DefinedOK
<1> QED
  BY <1>1, <1>2, <1>3, <1>5, <1>6

\* The end of a run, by whatever label: only status and result change.
LEMMA StopOK ==
  ASSUME IInv, NEW r \in {"no error", "division by 0", "callstack overflow"},
         status = "running", Stop(r)
  PROVE  IInv'
<1> USE DEF IInv, Stop, regs, retStack, ghosts
<1>1. TypeOK'
  BY DEF TypeOK
<1>2. SizeLeftIsRight' /\ Frames'
  BY DEF SizeLeftIsRight, Frames, SavedOK, OwnOK, ChainOK, TopOK, Entered
<1>3. CleanOK' /\ DefinedOK'
  BY DEF CleanOK, DefinedOK
<1> QED
  BY <1>1, <1>2, <1>3

-----------------------------------------------------------------------------
(* The instructions that stay in their activation *)

LEMMA Running ==
  ASSUME TypeOK, status = "running"
  PROVE  /\ ip \in Addresses /\ Ins.op \in Ops /\ Ins.n \in Int
         /\ Entered(ip) <=> Ins.op # "enter"
<1>1. ip \in Addresses
  BY DEF TypeOK
<1> QED
  BY <1>1, CodeFacts DEF Ins

LEMMA UseStackOK == IInv /\ UseStack => IInv'
<1> SUFFICES ASSUME IInv, UseStack PROVE WithinActivation
  BY WithinOK
<1>1. TypeOK /\ status = "running" /\ Ins.op \in {"push", "pop", "write", "addsp", "local"}
  BY DEF IInv, UseStack
<1>2. ip \in Addresses /\ Ins.op # "exit" /\ Ins.op # "enter"
  BY <1>1, Running
<1>3. ip' = ip + 1 /\ sp' = sp + Delta(Ins)
  BY DEF UseStack
<1>4. /\ ip + 1 \in Addresses /\ Entered(ip) /\ Entered(ip + 1)
      /\ Height[ip] \in Nat /\ Height[ip + 1] \in Nat
      /\ Height[ip + 1] = Height[ip] + Delta(Ins)
  BY <1>2, CodeFacts DEF Ins
<1>5. Delta(Ins) \in Int
  BY <1>2, DeltaIsInt DEF Ins
<1>6. sp' \in Int /\ sp' - sp = Height[ip'] - Height[ip]
  BY <1>1, <1>3, <1>4, <1>5, Types
<1>7. Entered(ip)' /\ ip' \in Addresses
  BY <1>3, <1>4 DEF Entered
<1> QED
  BY <1>1, <1>4, <1>6, <1>7 DEF UseStack, WithinActivation

LEMMA DivideOK == IInv /\ Divide => IInv'
<1> SUFFICES ASSUME IInv, Divide PROVE WithinActivation
  BY WithinOK
<1>1. TypeOK /\ status = "running" /\ Ins.op = "div"
  BY DEF IInv, Divide, At
<1>2. ip \in Addresses /\ ip' = ip + 1
  BY <1>1, Running DEF Divide
<1>3. Delta(Ins) = 0
  BY <1>1 DEF Delta
<1>4. /\ ip + 1 \in Addresses /\ Entered(ip) /\ Entered(ip + 1)
      /\ Height[ip] \in Nat /\ Height[ip + 1] \in Nat
      /\ Height[ip + 1] = Height[ip] + Delta(Ins)
  BY <1>1, <1>2, CodeFacts DEF Ins
<1>5. sp' = sp /\ sp \in Int
  BY <1>1, Types DEF Divide
<1>6. Entered(ip)' /\ ip' \in Addresses /\ sp' - sp = Height[ip'] - Height[ip]
  BY <1>2, <1>3, <1>4, <1>5 DEF Entered
<1> QED
  BY <1>1, <1>4, <1>5, <1>6 DEF Divide, WithinActivation

LEMMA BranchOK == IInv /\ Branch => IInv'
<1> SUFFICES ASSUME IInv, Branch PROVE WithinActivation
  BY WithinOK
<1>1. TypeOK /\ status = "running" /\ Ins.op = "branch"
  BY DEF IInv, Branch, At
<1>2. ip \in Addresses
  BY <1>1, Running
<1>3. Delta(Ins) = 0
  BY <1>1 DEF Delta
<1>4. /\ ip + 1 \in Addresses /\ Entered(ip) /\ Entered(ip + 1)
      /\ Height[ip] \in Nat /\ Height[ip + 1] \in Nat
      /\ Height[ip + 1] = Height[ip] + Delta(Ins)
  BY <1>1, <1>2, CodeFacts DEF Ins
<1>5. \A t \in Ins.to : t \in Addresses /\ Height[t] = Height[ip]
  BY <1>1, <1>2, CodeAssumption DEF Ins
<1>6. PICK t \in Ins.to \cup {ip + 1} : ip' = t
  BY DEF Branch
<1>7. t \in Addresses /\ Height[t] = Height[ip]
  BY <1>3, <1>4, <1>5
<1>8. sp' = sp /\ sp \in Int
  BY <1>1, Types DEF Branch
<1>9. Entered(ip)' /\ ip' \in Addresses /\ sp' - sp = Height[ip'] - Height[ip]
  BY <1>4, <1>6, <1>7, <1>8 DEF Entered
<1> QED
  BY <1>1, <1>4, <1>8, <1>9 DEF Branch, WithinActivation

LEMMA EnterOK == IInv /\ Enter => IInv'
<1> SUFFICES ASSUME IInv, Enter PROVE IInv'
  OBVIOUS
<1>1. TypeOK /\ status = "running" /\ Ins.op = "enter"
  BY DEF IInv, Enter, At
<1>2. ip \in Addresses /\ ~Entered(ip) /\ Ins.n \in Int
  BY <1>1, Running
<1>3. ip + 1 \in Addresses /\ Entered(ip + 1) /\ Height[ip + 1] = Ins.n /\ Height[ip + 1] \in Nat
  BY <1>1, <1>2, CodeFacts DEF Ins
<1>4. fp' = sp + 1 /\ sp' = sp + Ins.n /\ ip' = ip + 1
  BY <1>1 DEF Enter, Delta, FrameAbove
<1>5. UNCHANGED <<status, result, saved, val, sizeLeft, own, asked, clean>>
  BY DEF Enter, retStack, ghosts
<1>6. sp \in Int /\ val \in Nat /\ own \in Nat /\ own <= val
  BY <1>1, Types
<1>7. TypeOK'
  <2>1. ip' \in Addresses /\ fp' \in Int /\ sp' \in Int
    BY <1>2, <1>3, <1>4, <1>6
  <2> QED
    BY <1>1, <1>5, <2>1 DEF TypeOK
<1>8. SizeLeftIsRight'
  BY <1>5 DEF IInv, SizeLeftIsRight
<1>9. Frames'
  <2>1. (SavedOK /\ OwnOK /\ ChainOK)'
    BY <1>5 DEF IInv, Frames, SavedOK, OwnOK, ChainOK, Entered
  <2>2. own > 0 => sp = asked[val].sp
    BY <1>1, <1>2 DEF IInv, Frames, TopOK
  <2>3. TopOK'
    BY <1>3, <1>4, <1>5, <2>2 DEF TopOK, Entered
  <2> QED
    BY <2>1, <2>3 DEF Frames
<1>10. CleanOK'
  <2> SUFFICES ASSUME clean PROVE CleanOK'
    BY <1>5 DEF CleanOK
  <2>1. /\ own = val
        /\ \A k \in 1 .. val :
             /\ asked[k].fp >= 0 /\ asked[k].fp <= (k - 1) * MaxHeight
             /\ asked[k].sp = asked[k].fp - 1 + Height[asked[k].ip]
             /\ asked[k].sp < k * MaxHeight
        /\ val = 0 => sp = -1
    BY <1>1, <1>2 DEF IInv, CleanOK
  <2>2. 0 <= sp + 1 /\ sp + 1 <= val * MaxHeight
    <3>1. CASE val = 0
      BY <2>1, <3>1, SizesAssumption
    <3>2. CASE val # 0
      <4>1. val \in 1 .. val /\ sp = asked[val].sp /\ sp < val * MaxHeight
        BY <1>1, <1>2, <1>6, <2>1, <3>2 DEF IInv, Frames, TopOK
      <4>2. asked[val].ip \in Addresses /\ Entered(asked[val].ip)
        <5>1. saved[val].ip = asked[val].ip
          BY <1>6, <2>1, <4>1 DEF IInv, Frames, OwnOK
        <5> QED
          BY <1>1, <4>1, <5>1 DEF IInv, Frames, SavedOK, TypeOK
      <4>3. Height[asked[val].ip] \in Nat
        BY <4>2, CodeFacts
      <4>4. asked[val].fp \in Int
        <5>1. val \in 1 .. RetStackSize
          BY <1>1, <3>2, Types, SizesAssumption
        <5>2. asked \in [1 .. RetStackSize -> [ip : Addresses \cup {0}, fp : Int, sp : Int]]
          BY <1>1 DEF TypeOK
        <5> QED
          BY <5>1, <5>2
      <4>5. val * MaxHeight \in Nat
        BY <1>6, NextMultiple, SizesAssumption
      <4>6. asked[val].fp >= 0 /\ asked[val].sp = asked[val].fp - 1 + Height[asked[val].ip]
        BY <2>1, <4>1
      <4> QED
        BY <1>6, <4>1, <4>3, <4>4, <4>5, <4>6
    <3> QED
      BY <3>1, <3>2
  <2>3. sp' = fp' - 1 + Height[ip'] /\ 0 <= fp' /\ fp' <= val * MaxHeight
    BY <1>2, <1>3, <1>4, <1>6, <2>2
  <2> QED
    BY <1>3, <1>4, <1>5, <2>1, <2>3 DEF CleanOK, Entered
<1>11. DefinedOK'
  BY <1>1, <1>5 DEF DefinedOK
<1> QED
  BY <1>7, <1>8, <1>9, <1>10, <1>11 DEF IInv

-----------------------------------------------------------------------------
(* The bounds of the running activation in a clean run *)

LEMMA TopBounds ==
  ASSUME IInv, status = "running", clean, Entered(ip)
  PROVE  /\ Height[ip] \in Nat /\ fp \in Nat /\ sp = fp - 1 + Height[ip]
         /\ fp <= val * MaxHeight
         /\ val * MaxHeight \in Nat /\ (val + 1) * MaxHeight = val * MaxHeight + MaxHeight
         /\ Fits => val * MaxHeight + MaxHeight <= StackSize
<1>1. TypeOK
  BY DEF IInv
<1>2. ip \in Addresses /\ val \in Nat /\ val <= RetStackSize /\ fp \in Int
  BY <1>1, Types, Running
<1>3. Height[ip] \in Nat
  BY <1>2, CodeFacts
<1>4. sp = fp - 1 + Height[ip] /\ 0 <= fp /\ fp <= val * MaxHeight
  BY DEF IInv, CleanOK
<1>5. val * MaxHeight \in Nat /\ (val + 1) * MaxHeight = val * MaxHeight + MaxHeight
  BY <1>2, NextMultiple, SizesAssumption
<1>6. (val + 1) * MaxHeight <= (RetStackSize + 1) * MaxHeight
  <2>1. val + 1 \in Nat /\ RetStackSize + 1 \in Nat /\ val + 1 <= RetStackSize + 1 /\ MaxHeight \in Nat
    BY <1>2, SizesAssumption
  <2> QED
    BY <2>1, MultiplesGrow
<1>7. ASSUME Fits PROVE val * MaxHeight + MaxHeight <= StackSize
  <2>1. (RetStackSize + 1) * MaxHeight <= StackSize
    BY <1>7 DEF Fits
  <2>2. (RetStackSize + 1) * MaxHeight \in Nat /\ StackSize \in Nat /\ MaxHeight \in Nat
    BY NextMultiple, SizesAssumption
  <2> QED
    BY <1>5, <1>6, <2>1, <2>2
<1> QED
  BY <1>2, <1>3, <1>4, <1>5, <1>7

\* Every address of an activation but an EXIT's bounds the Height after it; an
\* access of the stack keeps between FP and the largest frame.
LEMMA AccessesFit ==
  ASSUME IInv, status = "running", clean, Fits
  PROVE  Defined
<1>1. TypeOK /\ StackSize \in Nat /\ MaxHeight \in Nat
  BY SizesAssumption DEF IInv
<1>2. ip \in Addresses /\ Ins.op \in Ops /\ Ins.n \in Int /\ (Entered(ip) <=> Ins.op # "enter")
  BY <1>1, Running
<1>3. CASE Ins.op \notin {"push", "pop", "write", "local"}
  <2>1. Touched = {}
    BY <1>3 DEF Touched
  <2> QED
    BY <2>1 DEF Defined
<1>4. CASE Ins.op \in {"push", "pop", "write", "local"}
  <2>1. Entered(ip) /\ Ins.op # "exit" /\ Ins.op # "enter"
    BY <1>2, <1>4
  <2>2. /\ Height[ip] \in Nat /\ fp \in Nat /\ sp = fp - 1 + Height[ip]
        /\ fp <= val * MaxHeight /\ val * MaxHeight \in Nat
        /\ val * MaxHeight + MaxHeight <= StackSize
    BY <2>1, TopBounds
  <2>3. /\ Height[ip + 1] \in Nat /\ Height[ip + 1] <= MaxHeight
        /\ Height[ip + 1] = Height[ip] + Delta(Ins)
    BY <1>2, <2>1, CodeFacts DEF Ins
  <2>4. Delta(Ins) \in Int
    BY <1>2, <2>1, DeltaIsInt DEF Ins
  <2>5. CASE Ins.op = "push"
    <3>1. Delta(Ins) = Ins.n /\ Touched = sp + 1 .. sp + Ins.n
      BY <2>5 DEF Delta, Touched
    <3>2. PICK h \in Nat, g \in Nat, x \in Int :
             h = Height[ip] /\ g = Height[ip + 1] /\ x = Ins.n
      BY <1>2, <2>2, <2>3
    <3>3. g = h + x /\ g <= MaxHeight /\ sp = fp - 1 + h
      BY <2>2, <2>3, <3>1, <3>2
    <3>4. fp + MaxHeight <= StackSize
      BY <1>1, <2>2
    <3>5. \A i \in sp + 1 .. sp + x : i \in 0 .. StackSize - 1
      BY <1>1, <2>2, <3>2, <3>3, <3>4
    <3> QED
      BY <3>1, <3>2, <3>5 DEF Defined
  <2>6. CASE Ins.op \in {"pop", "write"}
    <3>1. Touched = sp + Delta(Ins) + 1 .. sp
      BY <2>6 DEF Touched
    <3>2. Delta(Ins) <= 0
      <4>1. Ins.n \in Nat
        BY <1>2, <2>6, CodeAssumption DEF Ins
      <4>2. Ins.op = "pop" => Delta(Ins) = -Ins.n
        BY DEF Delta
      <4>3. Ins.op = "write" => Delta(Ins) = -2 * Ins.n
        BY DEF Delta
      <4> QED
        BY <2>6, <4>1, <4>2, <4>3
    <3>3. Height[ip] <= MaxHeight
      BY <1>2, <2>1, CodeFacts
    <3>4. PICK h \in Nat, g \in Nat, x \in Int :
             h = Height[ip] /\ g = Height[ip + 1] /\ x = Delta(Ins)
      BY <2>2, <2>3, <2>4
    <3>5. g = h + x /\ h <= MaxHeight /\ sp = fp - 1 + h
      BY <2>2, <2>3, <3>3, <3>4
    <3>6. fp + MaxHeight <= StackSize
      BY <1>1, <2>2
    <3>7. \A i \in sp + x + 1 .. sp : i \in 0 .. StackSize - 1
      BY <1>1, <2>2, <3>4, <3>5, <3>6
    <3> QED
      BY <3>1, <3>4, <3>7 DEF Defined
  <2>7. CASE Ins.op = "local"
    <3>1. Touched = {fp + Ins.n} /\ Delta(Ins) = 0
      BY <2>7 DEF Touched, Delta
    <3>2. Ins.n \in 0 .. Height[ip] - 1
      BY <1>2, <2>7, CodeAssumption DEF Ins
    <3> QED
      BY <1>1, <1>2, <2>2, <2>3, <3>1, <3>2 DEF Defined
  <2> QED
    BY <1>4, <2>5, <2>6, <2>7
<1> QED
  BY <1>3, <1>4

LEMMA LeaveStackOK == IInv /\ LeaveStack => IInv'
<1> SUFFICES ASSUME IInv, LeaveStack PROVE IInv'
  OBVIOUS
<1> USE DEF LeaveStack, regs, retStack, ghosts
<1>1. TypeOK'
  <2>1. ip \in Addresses
    BY Running DEF IInv
  <2> QED
    BY <2>1 DEF IInv, TypeOK
<1>2. SizeLeftIsRight' /\ Frames'
  BY DEF IInv, SizeLeftIsRight, Frames, SavedOK, OwnOK, ChainOK, TopOK, Entered
<1>3. CleanOK'
  BY DEF CleanOK
<1>4. DefinedOK'
  BY AccessesFit DEF DefinedOK, Fits
<1> QED
  BY <1>1, <1>2, <1>3, <1>4 DEF IInv

-----------------------------------------------------------------------------
(* CALL and EXIT *)

LEMMA CallOK == IInv /\ Call => IInv'
<1> SUFFICES ASSUME IInv, Call PROVE IInv'
  OBVIOUS
<1>1. TypeOK /\ SizeLeftIsRight /\ Frames /\ status = "running" /\ Ins.op = "call"
  BY DEF IInv, Call, At
<1>2. /\ val \in Nat /\ val <= RetStackSize /\ own \in Nat /\ own <= val
      /\ fp \in Int /\ sp \in Int /\ sizeLeft \in Int /\ RetStackSize \in Nat
  BY <1>1, Types, SizesAssumption
<1>3. ip \in Addresses /\ Entered(ip)
  BY <1>1, Running
<1>4. Delta(Ins) = 0
  BY <1>1 DEF Delta
<1>5. /\ ip + 1 \in Addresses /\ Entered(ip + 1) /\ Height[ip + 1] = Height[ip]
      /\ Height[ip] \in Nat
  BY <1>1, <1>3, <1>4, CodeFacts DEF Ins
<1>6. PICK t \in Ins.to : ip' = t
  BY DEF Call
<1>7. ip' \in Addresses /\ ~Entered(ip)'
  BY <1>1, <1>3, <1>6, CodeAssumption DEF Ins, Entered
<1>8. sizeLeft # 0 /\ val + 1 \in 1 .. RetStackSize
  BY <1>1, <1>2 DEF Call, Full, SizeLeftIsRight
<1>9. /\ val' = val + 1 /\ sizeLeft' = sizeLeft - 1 /\ own' = own + 1
      /\ UNCHANGED <<status, result, fp, sp, clean>>
  BY DEF Call
<1> DEFINE range == 1 .. RetStackSize
<1>10. saved \in [range -> [ip : Addresses \cup {0}, fp : Int]]
       /\ asked \in [range -> [ip : Addresses \cup {0}, fp : Int, sp : Int]]
  BY <1>1 DEF TypeOK
<1>11. /\ saved' = [saved EXCEPT ![val + 1] = [ip |-> ip + 1, fp |-> fp]]
       /\ asked' = [asked EXCEPT ![val + 1] = [ip |-> ip + 1, fp |-> fp, sp |-> sp]]
  BY DEF Call, Frame, Site, ReturnAddress
<1>12. \A k \in 1 .. val : saved'[k] = saved[k] /\ asked'[k] = asked[k]
  BY <1>2, <1>8, <1>10, <1>11
<1>13. saved'[val + 1] = [ip |-> ip + 1, fp |-> fp]
       /\ asked'[val + 1] = [ip |-> ip + 1, fp |-> fp, sp |-> sp]
  BY <1>8, <1>10, <1>11
<1>14. \A k \in 1 .. val' : k \in 1 .. val \/ k = val + 1
  BY <1>2, <1>9
<1> HIDE DEF range
<1>15. TypeOK'
  <2>1. val' \in 0 .. RetStackSize /\ sizeLeft' \in Int /\ own' \in 0 .. val'
    BY <1>2, <1>8, <1>9
  <2>2. saved' \in [range -> [ip : Addresses \cup {0}, fp : Int]]
        /\ asked' \in [range -> [ip : Addresses \cup {0}, fp : Int, sp : Int]]
    BY <1>2, <1>5, <1>10, <1>11
  <2>3. \A k \in 1 .. val' : saved'[k].ip \in Addresses
    <3>1. \A k \in 1 .. val : saved[k].ip \in Addresses
      BY <1>1 DEF TypeOK
    <3> QED
      BY <1>5, <1>12, <1>13, <1>14, <3>1
  <2> QED
    BY <1>1, <1>7, <1>9, <2>1, <2>2, <2>3 DEF TypeOK, range
<1>16. SizeLeftIsRight'
  BY <1>1, <1>2, <1>9 DEF SizeLeftIsRight
<1>17. Frames'
  <2>1. SavedOK'
    BY <1>1, <1>5, <1>12, <1>13, <1>14 DEF Frames, SavedOK, Entered
  <2>2. OwnOK'
    <3>1. \A k \in 1 .. val : k > val' - own' => k > val - own
      BY <1>2, <1>9
    <3> QED
      BY <1>1, <1>12, <1>13, <1>14, <3>1 DEF Frames, OwnOK
  <2>3. ChainOK'
    <3> SUFFICES ASSUME NEW k \in 1 .. val', k > val' - own' + 1
                 PROVE  asked'[k].fp = asked'[k - 1].sp + 1
      BY DEF ChainOK
    <3>1. k > val - own + 1 /\ k - 1 \in 1 .. val
      BY <1>2, <1>9
    <3>2. CASE k \in 1 .. val
      BY <1>1, <1>12, <3>1, <3>2 DEF Frames, ChainOK
    <3>3. CASE k = val + 1
      <4>1. own > 0 /\ k - 1 = val
        BY <1>2, <3>1, <3>3
      <4>2. fp = asked[val].sp + 1
        BY <1>1, <1>3, <4>1 DEF Frames, TopOK
      <4> QED
        BY <1>12, <1>13, <3>1, <3>3, <4>1, <4>2
    <3> QED
      BY <1>14, <3>2, <3>3
  <2>4. TopOK'
    BY <1>7, <1>9, <1>13 DEF TopOK
  <2> QED
    BY <2>1, <2>2, <2>3, <2>4 DEF Frames
<1>18. CleanOK'
  <2> SUFFICES ASSUME clean PROVE CleanOK'
    BY <1>9 DEF CleanOK
  <2>1. /\ own = val
        /\ \A k \in 1 .. val :
             /\ asked[k].fp >= 0 /\ asked[k].fp <= (k - 1) * MaxHeight
             /\ asked[k].sp = asked[k].fp - 1 + Height[asked[k].ip]
             /\ asked[k].sp < k * MaxHeight
    BY <1>1 DEF IInv, CleanOK
  <2>2. /\ fp \in Nat /\ sp = fp - 1 + Height[ip]
        /\ fp <= val * MaxHeight /\ val * MaxHeight \in Nat
        /\ (val + 1) * MaxHeight = val * MaxHeight + MaxHeight
    BY <1>1, <1>3, TopBounds
  <2>3. Height[ip] <= MaxHeight
    BY <1>3, CodeFacts
  <2>4. sp < (val + 1) * MaxHeight
    BY <1>2, <1>5, <2>2, <2>3, SizesAssumption
  <2>5. (val + 1) - 1 = val
    BY <1>2
  <2>6. \A k \in 1 .. val' :
          /\ asked'[k].fp >= 0 /\ asked'[k].fp <= (k - 1) * MaxHeight
          /\ asked'[k].sp = asked'[k].fp - 1 + Height[asked'[k].ip]
          /\ asked'[k].sp < k * MaxHeight
    <3> SUFFICES ASSUME NEW k \in 1 .. val'
                 PROVE  /\ asked'[k].fp >= 0 /\ asked'[k].fp <= (k - 1) * MaxHeight
                        /\ asked'[k].sp = asked'[k].fp - 1 + Height[asked'[k].ip]
                        /\ asked'[k].sp < k * MaxHeight
      OBVIOUS
    <3>1. CASE k \in 1 .. val
      BY <1>12, <2>1, <3>1
    <3>2. CASE k = val + 1
      <4>1. asked'[k].fp = fp /\ asked'[k].sp = sp /\ asked'[k].ip = ip + 1
        BY <1>13, <3>2
      <4> QED
        BY <1>5, <2>2, <2>4, <2>5, <3>2, <4>1
    <3> QED
      BY <1>14, <3>1, <3>2
  <2>7. own' = val' /\ val' # 0
    BY <1>2, <1>9, <2>1
  <2> QED
    BY <1>7, <2>6, <2>7 DEF CleanOK
<1>19. DefinedOK'
  BY <1>1, <1>9 DEF DefinedOK
<1> QED
  BY <1>15, <1>16, <1>17, <1>18, <1>19 DEF IInv

LEMMA ReturnOK == IInv /\ Return => IInv'
<1> SUFFICES ASSUME IInv, Return PROVE IInv'
  OBVIOUS
<1>1. TypeOK /\ SizeLeftIsRight /\ Frames /\ status = "running" /\ Ins.op = "exit" /\ val # 0
  BY DEF IInv, Return, At
<1>2. /\ val \in Nat /\ val <= RetStackSize /\ own \in Nat /\ own <= val
      /\ fp \in Int /\ sp \in Int /\ sizeLeft \in Int /\ RetStackSize \in Nat
  BY <1>1, Types, SizesAssumption
<1>3. ip \in Addresses /\ Entered(ip)
  BY <1>1, Running
<1>4. val \in 1 .. val /\ val \in 1 .. RetStackSize
  BY <1>1, <1>2
<1>5. /\ val' = val - 1 /\ sizeLeft' = sizeLeft + 1
      /\ ip' = saved[val].ip /\ sp' = fp - 1 /\ fp' = saved[val].fp
      /\ own' = (IF own > 0 THEN own - 1 ELSE 0)
      /\ UNCHANGED <<status, result, saved, asked, clean>>
  BY DEF Return, GivenBack, Below
<1>6. \A k \in 1 .. val' : k \in 1 .. val
  BY <1>2, <1>5
<1>7. ip' \in Addresses /\ Entered(ip)'
  BY <1>1, <1>4, <1>5 DEF TypeOK, Frames, SavedOK, Entered
<1>8. fp' \in Int
  <2>1. saved \in [1 .. RetStackSize -> [ip : Addresses \cup {0}, fp : Int]]
    BY <1>1 DEF TypeOK
  <2> QED
    BY <1>4, <1>5, <2>1
<1>9. own > 0 => ip' = asked[val].ip /\ fp' = asked[val].fp
  BY <1>1, <1>2, <1>4, <1>5 DEF Frames, OwnOK
<1>10. TypeOK'
  <2>1. val' \in 0 .. RetStackSize /\ sizeLeft' \in Int /\ own' \in 0 .. val' /\ sp' \in Int
    BY <1>2, <1>4, <1>5
  <2>2. \A k \in 1 .. val' : saved'[k].ip \in Addresses
    BY <1>1, <1>5, <1>6 DEF TypeOK
  <2> QED
    BY <1>1, <1>5, <1>7, <1>8, <2>1, <2>2 DEF TypeOK
<1>11. SizeLeftIsRight'
  BY <1>1, <1>2, <1>5 DEF SizeLeftIsRight
<1>12. Frames'
  <2>1. SavedOK'
    BY <1>1, <1>5, <1>6 DEF Frames, SavedOK, Entered
  <2>2. \A k \in 1 .. val' : /\ k > val' - own' => k > val - own
                             /\ k > val' - own' + 1 => k > val - own + 1
    BY <1>2, <1>5
  <2>3. OwnOK' /\ ChainOK'
    BY <1>1, <1>5, <1>6, <2>2 DEF Frames, OwnOK, ChainOK
  <2>4. TopOK'
    <3> SUFFICES ASSUME own' > 0 PROVE fp' = asked'[val'].sp + 1
      BY <1>7 DEF TopOK
    <3>1. own > 0 /\ val > val - own + 1 /\ val' = val - 1
      BY <1>2, <1>5
    <3>2. asked[val].fp = asked[val - 1].sp + 1
      BY <1>1, <1>4, <3>1 DEF Frames, ChainOK
    <3> QED
      BY <1>5, <1>9, <3>1, <3>2
  <2> QED
    BY <2>1, <2>3, <2>4 DEF Frames
<1>13. CleanOK'
  <2> SUFFICES ASSUME clean PROVE CleanOK'
    BY <1>5 DEF CleanOK
  <2>1. /\ own = val
        /\ \A k \in 1 .. val :
             /\ asked[k].fp >= 0 /\ asked[k].fp <= (k - 1) * MaxHeight
             /\ asked[k].sp = asked[k].fp - 1 + Height[asked[k].ip]
             /\ asked[k].sp < k * MaxHeight
    BY <1>1 DEF IInv, CleanOK
  <2>2. own > 0 /\ own' = val'
    BY <1>1, <1>2, <1>5, <2>1
  <2>3. fp = asked[val].sp + 1
    BY <1>1, <1>3, <2>2 DEF Frames, TopOK
  <2>4. asked[val].sp = fp' - 1 + Height[ip'] /\ 0 <= fp' /\ fp' <= (val - 1) * MaxHeight
    BY <1>4, <1>9, <2>1, <2>2
  <2>5. asked[val].sp \in Int
    <3>1. asked \in [1 .. RetStackSize -> [ip : Addresses \cup {0}, fp : Int, sp : Int]]
      BY <1>1 DEF TypeOK
    <3> QED
      BY <1>4, <3>1
  <2>6. sp' = fp' - 1 + Height[ip']
    BY <1>5, <2>3, <2>4, <2>5
  <2>7. fp' <= val' * MaxHeight
    BY <1>5, <2>4
  <2> QED
    BY <1>5, <1>6, <1>7, <2>1, <2>2, <2>4, <2>6, <2>7 DEF CleanOK, Entered
<1>14. DefinedOK'
  BY <1>1, <1>5 DEF DefinedOK
<1> QED
  BY <1>10, <1>11, <1>12, <1>13, <1>14 DEF IInv

-----------------------------------------------------------------------------
(* The theorems *)

LEMMA NextOK == IInv /\ [Next]_vars => IInv'
<1> SUFFICES ASSUME IInv, [Next]_vars PROVE IInv'
  OBVIOUS
<1>1. CASE \E e \in Entries : Run(e)
  BY <1>1, RunOK
<1>2. CASE Enter
  BY <1>2, EnterOK
<1>3. CASE UseStack
  BY <1>3, UseStackOK
<1>4. CASE LeaveStack
  BY <1>4, LeaveStackOK
<1>5. CASE Branch
  BY <1>5, BranchOK
<1>6. CASE Divide
  BY <1>6, DivideOK
<1>7. CASE DivideBy0
  BY <1>7, StopOK DEF DivideBy0, At
<1>8. CASE Call
  BY <1>8, CallOK
<1>9. CASE CallStackOverflow
  BY <1>9, StopOK DEF CallStackOverflow, At
<1>10. CASE Return
  BY <1>10, ReturnOK
<1>11. CASE Finish
  BY <1>11, StopOK DEF Finish, At
<1>12. CASE UNCHANGED vars
  BY <1>12 DEF vars, regs, retStack, ghosts, IInv, TypeOK, SizeLeftIsRight, Frames, SavedOK,
               OwnOK, ChainOK, TopOK, CleanOK, DefinedOK, Entered
<1> QED
  BY <1>1, <1>2, <1>3, <1>4, <1>5, <1>6, <1>7, <1>8, <1>9, <1>10, <1>11, <1>12 DEF Next, Step

\* The strengthening is an invariant: over any number of runs of any code of the
\* emitted shape, whichever of them end in an error.
THEOREM Inductive == Spec => []IInv
<1>1. Init => IInv
  BY InitOK
<1>2. IInv /\ [Next]_vars => IInv'
  BY NextOK
<1> QED
  BY <1>1, <1>2, PTL DEF Spec

\* Val never leaves its array, nor IP the code.
THEOREM TypeCorrect == Spec => []TypeOK
<1>1. IInv => TypeOK
  BY DEF IInv
<1> QED
  BY <1>1, Inductive, PTL

\* SizeLeft counts the free frames, errors or not.
THEOREM SizeLeftCounts == Spec => []SizeLeftIsRight
<1>1. IInv => SizeLeftIsRight
  BY DEF IInv
<1> QED
  BY <1>1, Inductive, PTL

\* In a run that started on an empty return stack, SP is where the code's pushes
\* and pops since ENTER put it.
THEOREM SpFollowsFrame == Spec => []SpTracksFrame
<1>1. IInv => SpTracksFrame
  BY DEF IInv, CleanOK, SpTracksFrame, Entered
<1> QED
  BY <1>1, Inductive, PTL

\* Such a run stays in a stack that has room for one more of the largest frames
\* than the return stack has entries: the checks the code leaves out are not needed.
THEOREM StackSuffices == Spec => []StaysInStack
<1>1. ASSUME IInv PROVE StaysInStack
  <2> SUFFICES ASSUME clean, Fits PROVE status # "undefined" /\ (status = "running" => sp < StackSize)
    BY DEF StaysInStack, Fits
  <2>1. status # "undefined"
    BY <1>1 DEF IInv, DefinedOK
  <2>2. ASSUME status = "running" PROVE sp < StackSize
    <3>1. TypeOK /\ ip \in Addresses /\ MaxHeight \in Nat /\ StackSize \in Nat
      BY <1>1, <2>2, Running, SizesAssumption DEF IInv
    <3>2. CASE Entered(ip)
      <4>1. Height[ip] \in Nat /\ Height[ip] <= MaxHeight
        BY <3>1, <3>2, CodeFacts
      <4> QED
        BY <1>1, <2>2, <3>1, <3>2, <4>1, TopBounds
    <3>3. CASE ~Entered(ip)
      <4>1. val \in Nat /\ own \in Nat /\ own <= val /\ val <= RetStackSize
        BY <3>1, Types
      <4>2. CASE val = 0
        BY <1>1, <2>2, <3>1, <3>3, <4>2 DEF IInv, CleanOK
      <4>3. CASE val # 0
        <5>1. own = val /\ val \in 1 .. val /\ val \in 1 .. RetStackSize
          BY <1>1, <2>2, <4>1, <4>3, SizesAssumption DEF IInv, CleanOK
        <5>2. sp = asked[val].sp /\ asked[val].sp < val * MaxHeight
          BY <1>1, <2>2, <3>3, <4>1, <4>3, <5>1 DEF IInv, CleanOK, Frames, TopOK
        <5>3. val * MaxHeight <= (RetStackSize + 1) * MaxHeight
          BY <3>1, <4>1, MultiplesGrow, SizesAssumption
        <5>4. val * MaxHeight \in Nat /\ (RetStackSize + 1) * MaxHeight \in Nat
          BY <3>1, <4>1, NextMultiple, SizesAssumption
        <5>5. sp \in Int
          BY <3>1, Types
        <5> QED
          BY <3>1, <5>2, <5>3, <5>4, <5>5 DEF Fits
      <4> QED
        BY <4>2, <4>3
    <3> QED
      BY <3>2, <3>3
  <2> QED
    BY <2>1, <2>2
<1> QED
  BY <1>1, Inductive, PTL

\* An EXIT that ends a call of this run gives the caller back its address, its
\* frame and its SP.
THEOREM ReturnsAreToCallers == Spec => ReturnsToCaller
<1>1. IInv /\ [Next]_vars =>
        [At("exit") /\ own > 0 =>
           /\ status' = "running"
           /\ ip' = asked[val].ip /\ fp' = asked[val].fp /\ sp' = asked[val].sp]_vars
  <2> SUFFICES ASSUME IInv, Next, At("exit"), own > 0
               PROVE  /\ status' = "running"
                      /\ ip' = asked[val].ip /\ fp' = asked[val].fp /\ sp' = asked[val].sp
    OBVIOUS
  <2>1. TypeOK /\ Frames /\ status = "running" /\ Ins.op = "exit"
    BY DEF IInv, At
  <2>2. val \in Nat /\ own \in Nat /\ own <= val /\ fp \in Int /\ val <= RetStackSize
    BY <2>1, Types
  <2>3. val \in 1 .. val /\ val \in 1 .. RetStackSize
    BY <2>2, SizesAssumption
  <2>4. Entered(ip)
    BY <2>1, Running
  <2>5. fp = asked[val].sp + 1 /\ saved[val].ip = asked[val].ip /\ saved[val].fp = asked[val].fp
    BY <2>1, <2>2, <2>3, <2>4 DEF Frames, TopOK, OwnOK
  <2>6. asked[val].sp \in Int
    <3>1. asked \in [1 .. RetStackSize -> [ip : Addresses \cup {0}, fp : Int, sp : Int]]
      BY <2>1 DEF TypeOK
    <3> QED
      BY <2>3, <3>1
  <2>7. Return
    <3>1. Touched = {}
      BY <2>1 DEF Touched
    <3>2. ~LeaveStack
      BY <3>1 DEF LeaveStack, Defined
    <3>3. ~(Enter \/ UseStack \/ Branch \/ Divide \/ DivideBy0 \/ Call \/ CallStackOverflow)
      BY <2>1 DEF Enter, UseStack, Branch, Divide, DivideBy0, Call, CallStackOverflow, At
    <3>4. ~Finish
      <4>1. val # 0
        BY <2>2
      <4> QED
        BY <4>1 DEF Finish
    <3>5. \A e \in Entries : ~Run(e)
      BY <2>1 DEF Run
    <3> QED
      BY <3>2, <3>3, <3>4, <3>5 DEF Next, Step
  <2> QED
    BY <2>1, <2>5, <2>6, <2>7 DEF Return, Below
<1> QED
  BY <1>1, Inductive, PTL DEF Spec, ReturnsToCaller

=============================================================================
