--------------------------- MODULE RegistersProofs ---------------------------
(***************************************************************************)
(* Register allocation for every instance of Registers: any number of      *)
(* registers, arguments and entries of the table of spilled registers.     *)
(* First who has which register and where SP is (IInv); then what          *)
(* registers and pushed words contain, as long as the code has been        *)
(* orderly (OperandsHold, from OInv, which every step keeps).              *)
(***************************************************************************)
EXTENDS Registers, FiniteSetTheorems, WellFoundedInduction, TLAPS

BothBanks == {"int", "flt"}

-----------------------------------------------------------------------------
(* Numbers *)

\* A set of natural numbers that is not empty has a least one, which is its Min.
LEMMA LeastIn ==
  ASSUME NEW S, S \subseteq Nat, S # {}
  PROVE  Min(S) \in S /\ \A i \in S : Min(S) <= i
<1>1. PICK k \in S : \A i \in S : ~ (<<i, k>> \in OpToRel(<, Nat))
  BY WFMin, NatLessThanWellFounded, Zenon
<1>2. \A i \in S : ~ (i < k)
  BY <1>1, Zenon DEF OpToRel
<1>3. \A i \in S : k <= i
  BY <1>2
<1> QED
  BY <1>3 DEF Min

\* A set of natural numbers below n that is not empty has a last one, its Max.
LEMMA LastIn ==
  ASSUME NEW n \in Nat, NEW S, S \subseteq 0 .. n, S # {}
  PROVE  Max(S) \in S /\ \A i \in S : i <= Max(S)
<1> DEFINE T == {n - i : i \in S}
<1>1. T \subseteq Nat /\ T # {}
  <2>1. \A i \in S : i \in 0 .. n
    OBVIOUS
  <2>2. \A i \in 0 .. n : n - i \in Nat
    OBVIOUS
  <2> QED
    BY <2>1, <2>2
<1>2. PICK k \in T : \A i \in T : k <= i
  <2> HIDE DEF T
  <2> QED
    BY <1>1, LeastIn
<1>3. PICK m \in S : k = n - m
  OBVIOUS
<1>4. ASSUME NEW i \in S PROVE m >= i
  <2>1. n - m <= n - i
    BY <1>2, <1>3
  <2>2. i \in 0 .. n /\ m \in 0 .. n
    OBVIOUS
  <2> QED
    BY <2>1, <2>2
<1>5. Max(S) \in S /\ \A i \in S : Max(S) >= i
  BY <1>4 DEF Max
<1> QED
  BY <1>5

\* What holds at first and from each number to the next holds to the end.
LEMMA UpTo ==
  ASSUME NEW n \in Nat, NEW S, 0 \in S, \A i \in 1 .. n : i - 1 \in S => i \in S
  PROVE  n \in S
<1> DEFINE Bad == {k \in 0 .. n : k \notin S}
<1>1. SUFFICES ASSUME Bad # {} PROVE FALSE
  OBVIOUS
<1>2. Bad \subseteq Nat
  OBVIOUS
<1>3. PICK k \in Bad : \A i \in Bad : k <= i
  <2> HIDE DEF Bad
  <2> QED
    BY <1>1, <1>2, LeastIn
<1>4. k \in 1 .. n /\ k \notin S
  OBVIOUS
<1>5. k - 1 \in 0 .. n /\ ~ (k <= k - 1)
  BY <1>4
<1>6. k - 1 \notin Bad
  BY <1>3, <1>5
<1> QED
  BY <1>4, <1>5, <1>6

-----------------------------------------------------------------------------
(* The machine: what the operations of the emitter keep *)

LEMMA Remainder ==
  ASSUME NEW c \in Nat, c > 0, NEW a \in Nat
  PROVE  a % c \in 0 .. c - 1 /\ (a < c => a % c = a)
OBVIOUS

LEMMA Turn ==
  ASSUME NEW c \in Nat, c > 0, NEW r \in 0 .. c - 1
  PROVE  (c + r) % c = r
OBVIOUS

LEMMA FrontAndLast ==
  ASSUME NEW S, NEW q \in Seq(S), Len(q) > 0
  PROVE  Last(q) \in S /\ Front(q) \in Seq(S) /\ Len(Front(q)) = Len(q) - 1
<1>1. PICK n \in Nat : Len(q) = n /\ n > 0 /\ n \in 1 .. n
  OBVIOUS
<1>2. q \in [1 .. n -> S]
  BY <1>1
<1>3. Last(q) \in S
  BY <1>1, <1>2 DEF Last
<1>4. Front(q) = [i \in 1 .. n - 1 |-> q[i]]
  BY <1>1 DEF Front
<1>5. PICK m \in Nat : m = n - 1
  BY <1>1
<1>6. 1 .. m \subseteq 1 .. n
  BY <1>5
<1>7. Front(q) \in Seq(S) /\ Len(Front(q)) = m
  BY <1>2, <1>4, <1>5, <1>6
<1> QED
  BY <1>1, <1>3, <1>5, <1>7

LEMMA ConstantsOK ==
  /\ RegCount \in Nat /\ RegCount >= 6 /\ Half \in Nat /\ RegCount = 2 * Half
  /\ SpillTable \in Nat /\ SpillTable > 0 /\ StackWords \in Nat
  /\ FrameTop \in Nat /\ FrameTop >= 2 * SpillTable /\ FrameTop < StackWords
  /\ ArgRegs \in Nat /\ ArgRegs >= 1 /\ ArgRegs <= Half /\ MaxTodo \in Nat
  /\ ArgCounts \subseteq Nat
BY RegistersAssumption DEF Half

\* A machine with SP above the space of spilled registers.
IsMachine(s) ==
  /\ s \in Machine
  /\ \A b \in BothBanks : Len(s.spilled[b]) <= SpillTable
  /\ s.sp \in Words /\ s.sp >= 2 * SpillTable

\* A machine with its SP at w.
At(w) == {s \in Machine : IsMachine(s) /\ s.sp = w}

LEMMA NumberOf ==
  ASSUME NEW r \in Regs
  PROVE  /\ r % RegCount \in 0 .. RegCount - 1 /\ r % RegCount \in Regs
         /\ Bank(r) \in BothBanks /\ r = First(Bank(r)) + (r % RegCount)
<1>1. CASE r < RegCount
  BY <1>1, ConstantsOK, Remainder DEF Regs, Bank, BothBanks, First
<1>2. CASE r >= RegCount
  <2>1. r - RegCount \in 0 .. RegCount - 1
    BY <1>2, ConstantsOK DEF Regs
  <2>2. r % RegCount = r - RegCount
    <3>1. r = RegCount + (r - RegCount)
      BY <2>1, ConstantsOK DEF Regs
    <3> QED
      BY <2>1, <3>1, ConstantsOK, Turn
  <2>3. Bank(r) = "flt" /\ First(Bank(r)) = RegCount
    BY <1>2, ConstantsOK DEF Regs, Bank, First
  <2>4. PICK i \in 0 .. RegCount - 1 : i = r - RegCount /\ r = RegCount + i
    BY <2>1, ConstantsOK DEF Regs
  <2>5. r % RegCount = i /\ i \in Regs
    BY <2>2, <2>4, ConstantsOK DEF Regs
  <2>6. Bank(r) \in BothBanks
    BY <2>3 DEF BothBanks
  <2>7. r = First(Bank(r)) + (r % RegCount)
    BY <2>3, <2>4, <2>5
  <2> QED
    BY <2>4, <2>5, <2>6, <2>7
<1> QED
  BY <1>1, <1>2, ConstantsOK DEF Regs

LEMMA FreeRegIn ==
  ASSUME NEW s, NEW b \in BothBanks, FreeRegs(s, b) # {}
  PROVE  /\ NextReg(s, b) \in FreeRegs(s, b) /\ NextReg(s, b) \in Regs
         /\ \A r \in FreeRegs(s, b) : NextReg(s, b) <= r
<1>1. FreeRegs(s, b) \subseteq Nat /\ FreeRegs(s, b) \subseteq Regs
  BY ConstantsOK DEF FreeRegs, BankRegs, First, BothBanks, Regs
<1>2. NextReg(s, b) = Min(FreeRegs(s, b))
  BY DEF NextReg
<1> QED
  BY <1>1, <1>2, LeastIn

LEMMA NextRegIn ==
  ASSUME NEW s, IsMachine(s), NEW b \in BothBanks
  PROVE  NextReg(s, b) \in Regs
<1>1. CASE FreeRegs(s, b) # {}
  BY <1>1, FreeRegIn
<1>2. CASE FreeRegs(s, b) = {}
  <2>1. PICK n \in Nat : n = Len(s.spilled[b])
    BY DEF IsMachine, Machine, BothBanks
  <2>2. n % RegCount \in 0 .. RegCount - 1
    BY ConstantsOK, Remainder
  <2>3. n % RegCount \in Regs
    BY <2>2, ConstantsOK DEF Regs
  <2> QED
    BY <1>2, <2>1, <2>3 DEF NextReg
<1> QED
  BY <1>1, <1>2

LEMMA AllocateOK ==
  ASSUME NEW w, NEW s \in At(w), NEW b \in BothBanks
  PROVE  Allocate(s, b) \in At(w)
<1> USE DEF At, IsMachine, BothBanks
<1>1. CASE FreeRegs(s, b) # {}
  BY <1>1, FreeRegIn DEF Allocate, Machine
<1>2. CASE FreeRegs(s, b) = {} /\ TableFull(s, b)
  BY <1>2 DEF Allocate, Machine
<1>3. CASE FreeRegs(s, b) = {} /\ ~TableFull(s, b)
  <2>1. /\ s.spilled.int \in Seq(1 .. 2 * SpillTable) /\ s.spilled.flt \in Seq(1 .. 2 * SpillTable)
        /\ s.spilled[b] \in Seq(1 .. 2 * SpillTable) /\ s.reg \in [Regs -> Tags] /\ s.word \in [Words -> Tags]
    BY DEF Machine
  <2>2. Len(s.spilled.int) \in Nat /\ Len(s.spilled.flt) \in Nat
    BY <2>1
  <2>3. Len(s.spilled.int) <= SpillTable /\ Len(s.spilled.flt) <= SpillTable
    BY ConstantsOK
  <2>4. Len(s.spilled[b]) # SpillTable
    BY <1>3 DEF TableFull
  <2>5. SpillCount(s) + 1 \in 1 .. 2 * SpillTable /\ Len(s.spilled[b]) + 1 <= SpillTable
    <3>1. PICK i \in Nat : i = Len(s.spilled.int)
      BY <2>2
    <3>2. PICK f \in Nat : f = Len(s.spilled.flt)
      BY <2>2
    <3>3. PICK n \in {i, f} : n = Len(s.spilled[b])
      BY <3>1, <3>2
    <3>4. SpillCount(s) = i + f
      BY <3>1, <3>2 DEF SpillCount
    <3>5. i <= SpillTable /\ f <= SpillTable /\ n # SpillTable
      BY <2>3, <2>4, <3>1, <3>2, <3>3
    <3>6. i + f + 1 \in 1 .. 2 * SpillTable /\ n + 1 <= SpillTable
      BY <3>3, <3>5, ConstantsOK
    <3> QED
      BY <3>3, <3>4, <3>6
  <2> DEFINE t == Append(s.spilled[b], SpillCount(s) + 1)
  <2>6. t \in Seq(1 .. 2 * SpillTable) /\ Len(t) <= SpillTable
    BY <2>1, <2>5
  <2>7. s.reg[NextReg(s, b)] \in Tags
    BY <2>1, NextRegIn
  <2>8. Allocate(s, b) = [s EXCEPT !.spilled[b] = t, !.word[s.sp - (SpillCount(s) + 1)] = s.reg[NextReg(s, b)]]
    BY <1>3 DEF Allocate
  <2> HIDE DEF t
  <2> DEFINE sp2 == [s.spilled EXCEPT ![b] = t]
             wd2 == [s.word EXCEPT ![s.sp - (SpillCount(s) + 1)] = s.reg[NextReg(s, b)]]
  <2>9. sp2 \in [BothBanks -> Seq(1 .. 2 * SpillTable)] /\ \A c \in BothBanks : Len(sp2[c]) <= SpillTable
    BY <2>1, <2>6 DEF Machine
  <2>10. wd2 \in [Words -> Tags]
    BY <2>1, <2>7
  <2>11. Allocate(s, b) = [s EXCEPT !.spilled = sp2, !.word = wd2]
    BY <2>8 DEF Machine
  <2> HIDE DEF sp2, wd2
  <2> QED
    BY <2>9, <2>10, <2>11 DEF Machine
<1> QED
  BY <1>1, <1>2, <1>3

LEMMA PutOK ==
  ASSUME NEW w, NEW s \in At(w), NEW r, NEW tag \in Tags
  PROVE  Put(s, r, tag) \in At(w)
BY DEF Put, At, IsMachine, Machine

LEMMA FreeOK ==
  ASSUME NEW w, NEW s \in At(w), NEW r \in Regs
  PROVE  Free(s, r) \in At(w)
<1> USE DEF At, IsMachine
<1> DEFINE b == Bank(r)
           i == r % RegCount
           n == Len(s.spilled[b])
<1>1. /\ s.spilled[b] \in Seq(1 .. 2 * SpillTable) /\ n \in Nat /\ s.reg \in [Regs -> Tags]
      /\ s.word \in [Words -> Tags] /\ s.sp \in Words /\ s.sp >= 2 * SpillTable /\ n <= SpillTable
  BY NumberOf DEF Machine, BothBanks
<1>2. CASE n > 0 /\ i = (n - 1) % RegCount
  <2> DEFINE front == Front(s.spilled[b])
             sp2 == [s.spilled EXCEPT ![b] = front]
             rg2 == [s.reg EXCEPT ![i] = s.word[s.sp - Last(s.spilled[b])]]
  <2>1. Last(s.spilled[b]) \in 1 .. 2 * SpillTable
    BY <1>1, <1>2, FrontAndLast
  <2>2. s.sp - Last(s.spilled[b]) \in Words
    BY <1>1, <2>1, ConstantsOK DEF Words
  <2>3. front \in Seq(1 .. 2 * SpillTable) /\ Len(front) <= SpillTable
    <3>1. PICK k \in Nat : k = Len(s.spilled[b]) /\ k > 0 /\ k <= SpillTable
      BY <1>1, <1>2
    <3>2. front \in Seq(1 .. 2 * SpillTable) /\ Len(front) = k - 1
      BY <1>1, <3>1, FrontAndLast
    <3> QED
      BY <3>1, <3>2, ConstantsOK
  <2> HIDE DEF front
  <2>4. sp2 \in [BothBanks -> Seq(1 .. 2 * SpillTable)] /\ \A c \in BothBanks : Len(sp2[c]) <= SpillTable
    BY <2>3, NumberOf DEF Machine, BothBanks
  <2>5. rg2 \in [Regs -> Tags]
    BY <1>1, <2>2
  <2>6. Free(s, r) = [s EXCEPT !.reglist = @ \ {i}, !.spilled = sp2, !.reg = rg2]
    BY <1>2 DEF Free, Machine, front
  <2> HIDE DEF sp2, rg2
  <2> QED
    BY <2>4, <2>5, <2>6 DEF Machine, BothBanks
<1>3. CASE ~(n > 0 /\ i = (n - 1) % RegCount)
  <2>1. Free(s, r) = [s EXCEPT !.reglist = @ \ {i}]
    BY <1>3 DEF Free
  <2> QED
    BY <2>1 DEF Machine
<1> QED
  BY <1>2, <1>3

LEMMA TemporaryOK ==
  ASSUME NEW w, NEW s \in At(w), NEW b \in BothBanks
  PROVE  Temporary(s, b) \in At(w)
<1>1. NextReg(s, b) \in Regs
  BY NextRegIn DEF At
<1>2. Junk \in Tags
  BY ConstantsOK DEF Junk, Tags
<1> QED
  BY <1>1, <1>2, AllocateOK, PutOK, FreeOK DEF Temporary

\* A recursion over 0 .. n has a solution.
IsStep(step, S, n) == step \in [1 .. n -> [S -> S]]
Solves(g, b, step, k) == g[0] = b /\ \A i \in 1 .. k : g[i] = step[i][g[i - 1]]

LEMMA Solution ==
  ASSUME NEW S, NEW n \in Nat, NEW b \in S, NEW step, IsStep(step, S, n)
  PROVE  \E g \in [0 .. n -> S] : Solves(g, b, step, n)
<1> DEFINE Solved == {k \in 0 .. n : \E g \in [0 .. k -> S] : Solves(g, b, step, k)}
<1>1. 0 \in Solved
  <2>1. [i \in 0 .. 0 |-> b] \in [0 .. 0 -> S] /\ Solves([i \in 0 .. 0 |-> b], b, step, 0)
    BY DEF Solves
  <2> QED
    BY <2>1
<1>2. ASSUME NEW k \in 1 .. n, k - 1 \in Solved PROVE k \in Solved
  <2>1. PICK m \in Nat : m = k - 1 /\ k = m + 1
    OBVIOUS
  <2>2. PICK g \in [0 .. m -> S] : Solves(g, b, step, m)
    BY <1>2, <2>1
  <2>3. PICK x \in S : x = step[k][g[m]]
    BY <2>1, <2>2 DEF IsStep
  <2> DEFINE h == [i \in 0 .. k |-> IF i = k THEN x ELSE g[i]]
  <2>4. h \in [0 .. k -> S]
    BY <2>1, <2>2, <2>3
  <2>5. h[0] = b
    BY <2>1, <2>2 DEF Solves
  <2>6. ASSUME NEW i \in 1 .. k PROVE h[i] = step[i][h[i - 1]]
    <3>1. CASE i = k
      <4>1. k \in 0 .. k /\ i - 1 = m /\ m \in 0 .. k /\ m # k
        BY <2>1, <3>1
      <4> QED
        BY <2>3, <3>1, <4>1
    <3>2. CASE i # k
      <4>1. i \in 1 .. m /\ i \in 0 .. k /\ i - 1 \in 0 .. k /\ i - 1 # k
        BY <2>1, <3>2
      <4>2. g[i] = step[i][g[i - 1]]
        BY <2>2, <4>1 DEF Solves
      <4> QED
        BY <3>2, <4>1, <4>2
    <3> QED
      BY <3>1, <3>2
  <2> HIDE DEF h
  <2>7. Solves(h, b, step, k)
    BY <2>5, <2>6 DEF Solves
  <2> QED
    BY <2>4, <2>7
<1>3. n \in Solved
  <2> HIDE DEF Solved
  <2> QED
    BY <1>1, <1>2, UpTo
<1> QED
  BY <1>3

Freed(s, rs) ==
  CHOOSE f : f = [n \in 0 .. 2 * RegCount |->
                   IF n = 0 THEN s
                   ELSE IF 2 * RegCount - n \in rs THEN Free(f[n - 1], 2 * RegCount - n)
                   ELSE f[n - 1]]

LEMMA FreeAllIs ==
  ASSUME NEW s, NEW rs
  PROVE  FreeAll(s, rs) = Freed(s, rs)[2 * RegCount]
BY DEF FreeAll, Freed

\* What no Free changes FreeAll does not.
LEMMA FreeAllStays ==
  ASSUME NEW S, NEW s \in S, NEW rs, \A t \in S, r \in rs : Free(t, r) \in S
  PROVE  FreeAll(s, rs) \in S
<1> DEFINE n == 2 * RegCount
           Then(t, i) == IF n - i \in rs THEN Free(t, n - i) ELSE t
           step == [i \in 1 .. n |-> [t \in S |-> Then(t, i)]]
           F(f) == [i \in 0 .. n |-> IF i = 0 THEN s ELSE Then(f[i - 1], i)]
           h == Freed(s, rs)
<1>1. n \in Nat
  BY ConstantsOK
<1>2. IsStep(step, S, n)
  BY DEF IsStep
<1>3. PICK g \in [0 .. n -> S] : Solves(g, s, step, n)
  <2> HIDE DEF n, step
  <2> QED
    BY <1>1, <1>2, Solution
<1>4. \A i \in 1 .. n : i - 1 \in 0 .. n
  BY <1>1
<1>5. \A i \in 1 .. n : g[i] = Then(g[i - 1], i)
  <2> HIDE DEF n, Then
  <2> QED
    BY <1>3, <1>4 DEF Solves
<1>6. g = F(g)
  <2>1. \A i \in 0 .. n : i = 0 \/ i \in 1 .. n
    BY <1>1
  <2>2. g[0] = s
    BY <1>3 DEF Solves
  <2> HIDE DEF n, Then
  <2> QED
    BY <1>3, <1>5, <2>1, <2>2
<1>7. h = F(h)
  <2>1. h = CHOOSE f : f = F(f)
    BY DEF Freed
  <2> HIDE DEF h, F
  <2> QED
    BY <1>6, <2>1
<1> DEFINE Good == {i \in 0 .. n : h[i] \in S}
<1>8. n \in Good
  <2>1. 0 \in Good
    BY <1>1, <1>7
  <2>2. ASSUME NEW i \in 1 .. n, i - 1 \in Good PROVE i \in Good
    <3>1. i \in 0 .. n /\ i # 0 /\ h[i - 1] \in S
      BY <1>1, <2>2
    <3>2. h[i] = Then(h[i - 1], i)
      <4> HIDE DEF h, Then, n
      <4> QED
        BY <1>7, <3>1
    <3> QED
      BY <3>1, <3>2
  <2> HIDE DEF Good
  <2> QED
    BY <1>1, <2>1, <2>2, UpTo
<1> QED
  BY <1>8, FreeAllIs

LEMMA FreeAllOK ==
  ASSUME NEW w, NEW s \in At(w), NEW rs, rs \subseteq Regs
  PROVE  FreeAll(s, rs) \in At(w)
<1>1. \A t \in At(w), r \in rs : Free(t, r) \in At(w)
  BY FreeOK
<1> QED
  BY <1>1, FreeAllStays

LEMMA RegsFinite ==
  ASSUME NEW rs, rs \subseteq Regs
  PROVE  /\ IsFiniteSet(rs) /\ Cardinality(rs) \in Nat /\ Cardinality(rs) <= 2 * RegCount
         /\ \A qs \in SUBSET rs : Cardinality(qs) \in Nat /\ Cardinality(qs) <= Cardinality(rs)
<1>1. IsFiniteSet(Regs) /\ Cardinality(Regs) = 2 * RegCount
  <2>1. 0 \in Int /\ 2 * RegCount - 1 \in Int /\ ~(0 > 2 * RegCount - 1)
    BY ConstantsOK
  <2>2. (2 * RegCount - 1) - 0 + 1 = 2 * RegCount
    BY ConstantsOK
  <2> QED
    BY <2>1, <2>2, FS_Interval DEF Regs
<1>2. IsFiniteSet(rs) /\ Cardinality(rs) <= Cardinality(Regs) /\ Cardinality(rs) \in Nat
  BY <1>1, FS_Subset, FS_CardinalityType
<1>3. ASSUME NEW qs \in SUBSET rs
      PROVE  Cardinality(qs) \in Nat /\ Cardinality(qs) <= Cardinality(rs)
  BY <1>2, FS_Subset, FS_CardinalityType
<1> QED
  BY <1>1, <1>2, <1>3

LEMMA ReservedIn == Reserved \subseteq Regs
BY ConstantsOK DEF Reserved, GP, FP, SP, Regs

LEMMA SavedIn ==
  ASSUME NEW w, NEW s \in At(w), NEW ret
  PROVE  Saved(s, ret) \subseteq Regs
BY DEF Saved, At, Machine

LEMMA SaveOK ==
  ASSUME NEW w, NEW s \in At(w), NEW ret, w + Cardinality(Saved(s, ret)) \in Words
  PROVE  Save(s, ret) \in At(w + Cardinality(Saved(s, ret)))
<1> DEFINE rs == Saved(s, ret)
           n == Cardinality(rs)
           place(r) == s.sp + Cardinality({q \in rs : q <= r})
           wd2 == [x \in Words |-> IF \E r \in rs : place(r) = x
                                   THEN s.reg[CHOOSE r \in rs : place(r) = x] ELSE s.word[x]]
           pushed == [s EXCEPT !.sp = @ + n, !.word = wd2]
<1>1. Save(s, ret) = FreeAll(pushed, rs)
  BY DEF Save, At, Machine
<1>2. rs \subseteq Regs /\ n \in Nat
  BY SavedIn, RegsFinite
<1>3. s \in Machine /\ IsMachine(s) /\ s.sp = w
  BY DEF At
<1>4. wd2 \in [Words -> Tags]
  <2>1. ASSUME NEW x \in Words PROVE wd2[x] \in Tags
    <3>1. CASE \E r \in rs : place(r) = x
      <4>1. (CHOOSE r \in rs : place(r) = x) \in rs
        <5> HIDE DEF rs, place
        <5> QED
          BY <3>1
      <4> HIDE DEF rs, place
      <4> QED
        BY <1>2, <1>3, <3>1, <4>1 DEF Machine
    <3>2. CASE ~ \E r \in rs : place(r) = x
      <4> HIDE DEF rs, place
      <4> QED
        BY <1>3, <3>2 DEF Machine
    <3> QED
      BY <3>1, <3>2
  <2> HIDE DEF place, rs
  <2> QED
    BY <2>1
<1>5. pushed \in At(w + n)
  <2> HIDE DEF wd2, rs
  <2>1. w + n \in Words /\ w + n >= 2 * SpillTable /\ w + n \in Int
    BY <1>2, <1>3, ConstantsOK DEF IsMachine, rs, Words
  <2> QED
    BY <1>3, <1>4, <2>1 DEF At, IsMachine, Machine, BothBanks
<1> QED
  BY <1>1, <1>2, <1>5, FreeAllOK

LEMMA RestoreOK ==
  ASSUME NEW w, NEW s \in At(w), NEW rs, rs \subseteq Regs, NEW ret, ret \subseteq Regs,
         w - Cardinality(rs) >= 2 * SpillTable
  PROVE  Restore(s, rs, ret) \in At(w - Cardinality(rs))
<1> DEFINE n == Cardinality(rs)
           before(r) == {q \in rs : PoppedBefore(q, r)}
           content(r) == s.word[s.sp - Cardinality(before(r))]
           into(x) == {r \in rs : Filled(r) = x}
           rg2 == [x \in Regs |-> IF into(x) = {} THEN s.reg[x] ELSE content(Max(into(x)))]
<1>1. Restore(s, rs, ret) = [s EXCEPT !.sp = @ - n, !.reg = rg2, !.reglist = rs \cup Reserved \cup ret]
  BY DEF Restore, At, Machine
<1>2. n \in Nat /\ s \in Machine /\ IsMachine(s) /\ s.sp = w /\ w \in Words
  BY RegsFinite DEF At, IsMachine
<1>3. ASSUME NEW x \in Regs PROVE rg2[x] \in Tags
  <2>1. CASE into(x) = {}
    <3> HIDE DEF into
    <3> QED
      BY <1>2, <2>1 DEF Machine
  <2>2. CASE into(x) # {}
    <3>1. Max(into(x)) \in rs
      <4>1. into(x) \subseteq 0 .. 2 * RegCount - 1 /\ 2 * RegCount - 1 \in Nat
        <5>1. into(x) \subseteq Regs
          OBVIOUS
        <5> HIDE DEF into
        <5> QED
          BY <5>1, ConstantsOK DEF Regs
      <4>2. Max(into(x)) \in into(x)
        <5> HIDE DEF into
        <5> QED
          BY <2>2, <4>1, LastIn
      <4> QED
        BY <4>2
    <3>2. PICK k \in Nat : k = Cardinality(before(Max(into(x)))) /\ k <= n
      <4>1. before(Max(into(x))) \in SUBSET rs
        OBVIOUS
      <4> HIDE DEF before, into
      <4> QED
        BY <4>1, RegsFinite
    <3>3. w - k \in Words
      BY <1>2, <3>2, ConstantsOK DEF Words
    <3>4. content(Max(into(x))) = s.word[w - k]
      BY <1>2, <3>2
    <3> HIDE DEF content, into
    <3> QED
      BY <1>2, <2>2, <3>3, <3>4 DEF Machine
  <2> QED
    BY <2>1, <2>2
<1>4. rg2 \in [Regs -> Tags]
  <2> HIDE DEF into, content
  <2> QED
    BY <1>3
<1>5. rs \cup Reserved \cup ret \in SUBSET Regs
  BY ReservedIn
<1>6. w - n \in Words /\ w - n \in Int /\ w - n >= 2 * SpillTable
  BY <1>2, ConstantsOK DEF Words
<1> HIDE DEF rg2, n
<1> QED
  BY <1>1, <1>2, <1>4, <1>5, <1>6 DEF At, IsMachine, Machine, BothBanks, n

LEMMA ForgetOK ==
  ASSUME NEW w, NEW s \in At(w), NEW n \in Nat
  PROVE  Forget(s, n) \in At(w)
<1> DEFINE rg2 == [r \in Regs |-> IF s.reg[r] > n THEN Junk ELSE s.reg[r]]
           wd2 == [x \in Words |-> IF s.word[x] > n \/ x > s.sp THEN Junk ELSE s.word[x]]
<1>1. s.reg \in [Regs -> Tags] /\ s.word \in [Words -> Tags] /\ Junk \in Tags
  BY ConstantsOK DEF At, Machine, Junk, Tags
<1>2. rg2 \in [Regs -> Tags] /\ wd2 \in [Words -> Tags]
  BY <1>1
<1>3. Forget(s, n) = [s EXCEPT !.reg = rg2, !.word = wd2]
  BY <1>1 DEF Forget
<1> HIDE DEF rg2, wd2
<1> QED
  BY <1>2, <1>3 DEF At, IsMachine, Machine, BothBanks

-----------------------------------------------------------------------------
(* What is pending *)

Plain == [kind : {"value", "arg", "for", "stop"}, at : {"reg", "word", "mem", "lit", "none"},
          reg : Regs \cup Words \cup {None}, tag : Nat, bank : BothBanks, fixed : BOOLEAN]

Markers == [kind : {"fn", "proc", "write"}, at : {"none"}, reg : {None}, tag : {Junk},
            bank : BothBanks, fixed : {FALSE}, ret : SUBSET Regs, saved : SUBSET Regs,
            params : ArgCounts \cup {0}, sp : Int]

\* What stands in a register names one; a function has one for its result.
Entries ==
  {i \in Plain : i.at \in {"reg", "mem"} \/ i.kind \in {"for", "stop"} => i.reg \in Regs}
    \cup
  {m \in Markers : IF m.kind = "fn" THEN \E r \in Regs : m.ret = {r} ELSE m.ret = {}}

IsArg(i) == i.kind = "arg"

\* Below an argument are arguments, down to the call or WRITE; below a stop value
\* is its counter.
ArgsTogether(q) ==
  \A j \in 1 .. Len(q) : IsArg(q[j]) =>
    \E k \in 1 .. j - 1 : IsMarker(q[k]) /\ \A i \in k + 1 .. j : IsArg(q[i])
StopsOnFors(q) == \A j \in 1 .. Len(q) : q[j].kind = "stop" => j > 1 /\ q[j - 1].kind = "for"

\* A call has no more arguments than parameters, the next one included.
NextArg(q, m) ==
  \A k \in 1 .. m : IsCall(q[k]) /\ (\A i \in k + 1 .. m : IsArg(q[i])) => m + 1 - k <= q[k].params
ArgsFit(q) == \A m \in 0 .. Len(q) - 1 : NextArg(q, m)

Shape(q) == q \in Seq(Entries) /\ ArgsTogether(q) /\ StopsOnFors(q) /\ ArgsFit(q)

-----------------------------------------------------------------------------
(* How SP adds up *)

\* The words a call has taken once it has begun, and WRITE with its arguments,
\* which lie at k + 1 .. j.
Begun(m) == m.sp + Cardinality(m.saved) + (IF IsCall(m) THEN StackArgs(m.params) ELSE 0)
Taken(q, k, j) == Begun(q[k]) + (IF IsCall(q[k]) THEN 0 ELSE 2 * (j - k))
ArgsTo(q, k, j) == (\A i \in k + 1 .. j : IsArg(q[i])) /\ (j = Len(q) \/ ~IsArg(q[j + 1]))

\* SP where the next call or WRITE above k began, or now.
NextTo(q, k, n) == (n = Len(q) + 1 \/ IsMarker(q[n])) /\ \A i \in k + 1 .. n - 1 : ~IsMarker(q[i])
SpAt(q, n, sp) == IF n = Len(q) + 1 THEN sp ELSE q[n].sp

Adds(q, sp) ==
  /\ \A n \in 1 .. Len(q) + 1 : NextTo(q, 0, n) => SpAt(q, n, sp) = FrameTop
  /\ \A k \in 1 .. Len(q) : \A j \in k .. Len(q), n \in k + 1 .. Len(q) + 1 :
       IsMarker(q[k]) /\ ArgsTo(q, k, j) /\ NextTo(q, k, n) => SpAt(q, n, sp) = Taken(q, k, j)

LEMMA MarkerHas ==
  ASSUME NEW m \in Entries, IsMarker(m)
  PROVE  /\ m.saved \subseteq Regs /\ m.ret \subseteq Regs /\ m.sp \in Int /\ m.bank \in BothBanks
         /\ m.params \in ArgCounts \cup {0} /\ m.params \in Nat /\ Cardinality(m.saved) \in Nat
         /\ StackArgs(m.params) \in Nat /\ Begun(m) \in Int
<1>1. m \in Markers
  <2>1. m \notin Plain
    <3> SUFFICES ASSUME m \in Plain PROVE FALSE
      OBVIOUS
    <3>1. m.kind \in {"value", "arg", "for", "stop"}
      BY DEF Plain
    <3> QED
      BY <3>1 DEF IsMarker, IsCall
  <2> QED
    BY <2>1 DEF Entries
<1>2. /\ m.saved \in SUBSET Regs /\ m.ret \in SUBSET Regs /\ m.sp \in Int /\ m.bank \in BothBanks
      /\ m.params \in ArgCounts \cup {0}
  BY <1>1 DEF Markers
<1>3. Cardinality(m.saved) \in Nat
  BY <1>2, RegsFinite
<1>4. m.params \in Nat
  <2>1. \A p \in ArgCounts \cup {0} : p \in Nat
    BY ConstantsOK
  <2> QED
    BY <1>2, <2>1
<1>5. StackArgs(m.params) \in Nat
  BY <1>4, ConstantsOK DEF StackArgs
<1> QED
  BY <1>2, <1>3, <1>4, <1>5 DEF Begun

LEMMA Cut ==
  ASSUME NEW S, NEW q \in Seq(S), NEW m \in 0 .. Len(q)
  PROVE  /\ SubSeq(q, 1, m) \in Seq(S) /\ Len(SubSeq(q, 1, m)) = m
         /\ \A i \in 1 .. m : SubSeq(q, 1, m)[i] = q[i]
OBVIOUS

LEMMA Pushed ==
  ASSUME NEW S, NEW q \in Seq(S), NEW v \in S
  PROVE  /\ Append(q, v) \in Seq(S) /\ Len(Append(q, v)) = Len(q) + 1
         /\ Append(q, v)[Len(q) + 1] = v /\ \A i \in 1 .. Len(q) : Append(q, v)[i] = q[i]
OBVIOUS

LEMMA PopShape ==
  ASSUME NEW q, Shape(q), NEW m \in 0 .. Len(q)
  PROVE  Shape(SubSeq(q, 1, m)) /\ (m < Len(q) => NextArg(SubSeq(q, 1, m), m))
<1> DEFINE p == SubSeq(q, 1, m)
<1>1. p \in Seq(Entries) /\ Len(p) = m /\ (\A i \in 1 .. m : p[i] = q[i]) /\ Len(q) \in Nat
  BY Cut DEF Shape
<1>2. 1 .. m \subseteq 1 .. Len(q)
  BY <1>1
<1> HIDE DEF p
<1>3. ArgsTogether(p)
  <2> SUFFICES ASSUME NEW j \in 1 .. m, IsArg(q[j])
               PROVE  \E k \in 1 .. j - 1 : IsMarker(p[k]) /\ \A i \in k + 1 .. j : IsArg(p[i])
    BY <1>1 DEF ArgsTogether
  <2>1. PICK k \in 1 .. j - 1 : IsMarker(q[k]) /\ \A i \in k + 1 .. j : IsArg(q[i])
    BY <1>2 DEF Shape, ArgsTogether
  <2>2. k \in 1 .. m /\ \A i \in k + 1 .. j : i \in 1 .. m
    OBVIOUS
  <2> QED
    BY <1>1, <2>1, <2>2
<1>4. StopsOnFors(p)
  <2> SUFFICES ASSUME NEW j \in 1 .. m, q[j].kind = "stop" PROVE j > 1 /\ p[j - 1].kind = "for"
    BY <1>1 DEF StopsOnFors
  <2>1. j > 1 /\ q[j - 1].kind = "for"
    BY <1>2 DEF Shape, StopsOnFors
  <2>2. j - 1 \in 1 .. m
    BY <2>1
  <2> QED
    BY <1>1, <2>1, <2>2
<1>5. ASSUME NEW n \in 0 .. m, n < Len(q) PROVE NextArg(p, n)
  <2>1. NextArg(q, n)
    BY <1>1, <1>5 DEF Shape, ArgsFit
  <2>2. \A k \in 1 .. n : k \in 1 .. m
    BY <1>1
  <2>3. \A k \in 1 .. n : \A i \in k + 1 .. n : i \in 1 .. m
    BY <1>1
  <2> QED
    BY <1>1, <2>1, <2>2, <2>3 DEF NextArg
<1>6. ArgsFit(p)
  <2>1. \A n \in 0 .. m - 1 : n \in 0 .. m /\ n < Len(q)
    BY <1>1
  <2> QED
    BY <1>1, <1>5, <2>1 DEF ArgsFit
<1> QED
  BY <1>1, <1>3, <1>4, <1>5, <1>6 DEF Shape, p

LEMMA PushShape ==
  ASSUME NEW q, Shape(q), NEW v \in Entries, NextArg(q, Len(q)),
         v.kind = "stop" => Len(q) > 0 /\ q[Len(q)].kind = "for",
         IsArg(v) => \E k \in 1 .. Len(q) : IsMarker(q[k]) /\ \A i \in k + 1 .. Len(q) : IsArg(q[i])
  PROVE  Shape(Append(q, v))
<1> DEFINE p == Append(q, v)
           m == Len(q)
<1>1. p \in Seq(Entries) /\ Len(p) = m + 1 /\ (\A i \in 1 .. m : p[i] = q[i]) /\ p[m + 1] = v /\ m \in Nat
  BY Pushed DEF Shape
<1> HIDE DEF p, m
<1>2. ArgsTogether(p)
  <2> SUFFICES ASSUME NEW j \in 1 .. m + 1, IsArg(p[j])
               PROVE  \E k \in 1 .. j - 1 : IsMarker(p[k]) /\ \A i \in k + 1 .. j : IsArg(p[i])
    BY <1>1 DEF ArgsTogether
  <2>1. CASE j \in 1 .. m
    <3>1. PICK k \in 1 .. j - 1 : IsMarker(q[k]) /\ \A i \in k + 1 .. j : IsArg(q[i])
      BY <1>1, <2>1 DEF Shape, ArgsTogether, m
    <3>2. k \in 1 .. m /\ \A i \in k + 1 .. j : i \in 1 .. m
      BY <1>1, <2>1
    <3> QED
      BY <1>1, <3>1, <3>2
  <2>2. CASE j = m + 1
    <3>1. PICK k \in 1 .. m : IsMarker(q[k]) /\ \A i \in k + 1 .. m : IsArg(q[i])
      BY <1>1, <2>2 DEF m
    <3>2. k \in 1 .. j - 1 /\ \A i \in k + 1 .. j : i = m + 1 \/ (i \in k + 1 .. m /\ i \in 1 .. m)
      BY <1>1, <2>2
    <3> QED
      BY <1>1, <2>2, <3>1, <3>2
  <2> QED
    BY <1>1, <2>1, <2>2
<1>3. StopsOnFors(p)
  <2> SUFFICES ASSUME NEW j \in 1 .. m + 1, p[j].kind = "stop" PROVE j > 1 /\ p[j - 1].kind = "for"
    BY <1>1 DEF StopsOnFors
  <2>1. CASE j \in 1 .. m
    <3>1. j > 1 /\ q[j - 1].kind = "for" /\ j - 1 \in 1 .. m
      BY <1>1, <2>1 DEF Shape, StopsOnFors, m
    <3> QED
      BY <1>1, <3>1
  <2>2. CASE j = m + 1
    <3>1. m > 0 /\ q[m].kind = "for" /\ m \in 1 .. m
      BY <1>1, <2>2 DEF m
    <3> QED
      BY <1>1, <2>2, <3>1
  <2> QED
    BY <1>1, <2>1, <2>2
<1>4. ArgsFit(p)
  <2>1. ASSUME NEW n \in 0 .. m PROVE NextArg(p, n)
    <3>1. NextArg(q, n)
      <4>1. n = m \/ n \in 0 .. m - 1
        BY <1>1
      <4> QED
        BY <4>1 DEF Shape, ArgsFit, m
    <3>2. \A k \in 1 .. n : k \in 1 .. m
      BY <1>1
    <3>3. \A k \in 1 .. n : \A i \in k + 1 .. n : i \in 1 .. m
      BY <1>1
    <3> QED
      BY <1>1, <3>1, <3>2, <3>3 DEF NextArg
  <2>2. (m + 1) - 1 = m
    BY <1>1
  <2> QED
    BY <1>1, <2>1, <2>2 DEF ArgsFit
<1> QED
  BY <1>1, <1>2, <1>3, <1>4 DEF Shape, p

\* What is neither a call nor an argument comes and goes without SP.
LEMMA PopAdds ==
  ASSUME NEW q \in Seq(Entries), NEW sp, Adds(q, sp), NEW m \in 0 .. Len(q),
         \A i \in m + 1 .. Len(q) : ~IsArg(q[i]) /\ ~IsMarker(q[i])
  PROVE  Adds(SubSeq(q, 1, m), sp)
<1> DEFINE p == SubSeq(q, 1, m)
           l == Len(q)
<1>1. Len(p) = m /\ (\A i \in 1 .. m : p[i] = q[i]) /\ l \in Nat /\ m \in 0 .. l
  BY Cut
<1> HIDE DEF p, l
\* The next after k in p is, in q, the same or the end.
<1>2. ASSUME NEW k \in 0 .. m, NEW n \in k + 1 .. m + 1, NextTo(p, k, n)
      PROVE  \E o \in k + 1 .. l + 1 : NextTo(q, k, o) /\ SpAt(q, o, sp) = SpAt(p, n, sp)
  <2>1. \A i \in k + 1 .. n - 1 : ~IsMarker(q[i])
    BY <1>1, <1>2 DEF NextTo
  <2>2. CASE n = m + 1
    <3>1. \A i \in k + 1 .. l : ~IsMarker(q[i])
      <4> SUFFICES ASSUME NEW i \in k + 1 .. l PROVE ~IsMarker(q[i])
        OBVIOUS
      <4>1. i \in k + 1 .. n - 1 \/ i \in m + 1 .. l
        BY <1>1, <2>2
      <4> QED
        BY <2>1, <4>1 DEF l
    <3>2. l + 1 \in k + 1 .. l + 1 /\ (l + 1) - 1 = l
      BY <1>1
    <3> QED
      BY <1>1, <2>2, <3>1, <3>2 DEF NextTo, SpAt, l
  <2>3. CASE n # m + 1
    <3>1. n \in 1 .. m /\ n \in k + 1 .. l + 1 /\ n # l + 1
      BY <1>1, <2>3
    <3> QED
      BY <1>1, <1>2, <2>1, <2>3, <3>1 DEF NextTo, SpAt, l
  <2> QED
    BY <2>2, <2>3
<1>3. ASSUME NEW n \in 1 .. m + 1, NextTo(p, 0, n) PROVE SpAt(p, n, sp) = FrameTop
  <2>1. PICK o \in 1 .. l + 1 : NextTo(q, 0, o) /\ SpAt(q, o, sp) = SpAt(p, n, sp)
    BY <1>1, <1>2, <1>3
  <2> QED
    BY <2>1 DEF Adds, l
<1>4. ASSUME NEW k \in 1 .. m, NEW j \in k .. m, NEW n \in k + 1 .. m + 1,
             IsMarker(p[k]), ArgsTo(p, k, j), NextTo(p, k, n)
      PROVE  SpAt(p, n, sp) = Taken(p, k, j)
  <2>1. PICK o \in k + 1 .. l + 1 : NextTo(q, k, o) /\ SpAt(q, o, sp) = SpAt(p, n, sp)
    BY <1>1, <1>2, <1>4
  <2>2. \A i \in k + 1 .. j : IsArg(q[i])
    <3>1. \A i \in k + 1 .. j : i \in 1 .. m
      BY <1>1
    <3> QED
      BY <1>1, <1>4, <3>1 DEF ArgsTo
  <2>3. j = l \/ ~IsArg(q[j + 1])
    <3>1. CASE j = m
      <4>1. j = l \/ j + 1 \in m + 1 .. l
        BY <1>1, <3>1
      <4> QED
        BY <4>1 DEF l
    <3>2. CASE j # m
      <4>1. j + 1 \in 1 .. m
        BY <1>1, <3>2
      <4> QED
        BY <1>1, <1>4, <3>2, <4>1 DEF ArgsTo
    <3> QED
      BY <3>1, <3>2
  <2>4. k \in 1 .. l /\ j \in k .. l /\ q[k] = p[k] /\ IsMarker(q[k])
    BY <1>1, <1>4
  <2>5. SpAt(q, o, sp) = Taken(q, k, j)
    BY <2>1, <2>2, <2>3, <2>4 DEF Adds, ArgsTo, l
  <2> QED
    BY <2>1, <2>4, <2>5 DEF Taken
<1> QED
  BY <1>1, <1>3, <1>4 DEF Adds, p

\* A call or WRITE dropped with all above it leaves SP where it found it.
LEMMA DropAdds ==
  ASSUME NEW q \in Seq(Entries), NEW sp, Adds(q, sp), NEW m \in 1 .. Len(q), IsMarker(q[m])
  PROVE  Adds(SubSeq(q, 1, m - 1), q[m].sp)
<1> DEFINE l == Len(q)
<1>1. PICK h \in Nat : h = m - 1 /\ h + 1 = m /\ h \in 0 .. l
  OBVIOUS
<1> DEFINE p == SubSeq(q, 1, h)
<1>2. Len(p) = h /\ (\A i \in 1 .. h : p[i] = q[i]) /\ l \in Nat /\ h + 1 \in 1 .. l
  BY <1>1, Cut
<1> HIDE DEF p, l
<1>3. ASSUME NEW k \in 0 .. h, NEW n \in k + 1 .. h + 1, NextTo(p, k, n)
      PROVE  n \in k + 1 .. l + 1 /\ NextTo(q, k, n) /\ SpAt(q, n, sp) = SpAt(p, n, q[m].sp)
  <2>1. \A i \in k + 1 .. n - 1 : ~IsMarker(q[i])
    BY <1>2, <1>3 DEF NextTo
  <2>2. n \in 1 .. l /\ n \in k + 1 .. l + 1 /\ n # l + 1
    BY <1>2
  <2>3. CASE n = h + 1
    BY <1>1, <1>2, <2>1, <2>2, <2>3 DEF NextTo, SpAt, l
  <2>4. CASE n # h + 1
    BY <1>2, <1>3, <2>1, <2>2, <2>4 DEF NextTo, SpAt, l
  <2> QED
    BY <2>3, <2>4
<1>4. ASSUME NEW n \in 1 .. h + 1, NextTo(p, 0, n) PROVE SpAt(p, n, q[m].sp) = FrameTop
  <2>1. n \in 1 .. l + 1 /\ NextTo(q, 0, n) /\ SpAt(q, n, sp) = SpAt(p, n, q[m].sp)
    BY <1>2, <1>3, <1>4
  <2> QED
    BY <2>1 DEF Adds, l
<1>5. ASSUME NEW k \in 1 .. h, NEW j \in k .. h, NEW n \in k + 1 .. h + 1,
             IsMarker(p[k]), ArgsTo(p, k, j), NextTo(p, k, n)
      PROVE  SpAt(p, n, q[m].sp) = Taken(p, k, j)
  <2>1. n \in k + 1 .. l + 1 /\ NextTo(q, k, n) /\ SpAt(q, n, sp) = SpAt(p, n, q[m].sp)
    BY <1>2, <1>3, <1>5
  <2>2. \A i \in k + 1 .. j : IsArg(q[i])
    <3>1. \A i \in k + 1 .. j : i \in 1 .. h
      BY <1>2
    <3> QED
      BY <1>2, <1>5, <3>1 DEF ArgsTo
  <2>3. ~IsArg(q[j + 1])
    <3>1. CASE j = h
      BY <1>1, <3>1 DEF IsArg, IsMarker, IsCall
    <3>2. CASE j # h
      <4>1. j + 1 \in 1 .. h
        BY <1>2, <3>2
      <4> QED
        BY <1>2, <1>5, <3>2, <4>1 DEF ArgsTo
    <3> QED
      BY <3>1, <3>2
  <2>4. k \in 1 .. l /\ j \in k .. l /\ q[k] = p[k] /\ IsMarker(q[k])
    BY <1>2, <1>5
  <2>5. SpAt(q, n, sp) = Taken(q, k, j)
    BY <2>1, <2>2, <2>3, <2>4 DEF Adds, ArgsTo, l
  <2> QED
    BY <2>1, <2>4, <2>5 DEF Taken
<1>6. Adds(p, q[m].sp)
  BY <1>2, <1>4, <1>5 DEF Adds
<1> QED
  BY <1>1, <1>6 DEF p

LEMMA PushAdds ==
  ASSUME NEW q \in Seq(Entries), NEW sp, Adds(q, sp), NEW v \in Entries, ~IsArg(v), ~IsMarker(v)
  PROVE  Adds(Append(q, v), sp)
<1> DEFINE p == Append(q, v)
           l == Len(q)
<1>1. l \in Nat /\ Len(p) = l + 1 /\ (\A i \in 1 .. l : p[i] = q[i]) /\ p[l + 1] = v
  BY Pushed
<1> HIDE DEF p, l
<1>2. ASSUME NEW k \in 0 .. l, NEW n \in k + 1 .. l + 2, NextTo(p, k, n)
      PROVE  \E o \in k + 1 .. l + 1 : NextTo(q, k, o) /\ SpAt(q, o, sp) = SpAt(p, n, sp)
  <2>1. ASSUME NEW i \in k + 1 .. n - 1, i \in 1 .. l PROVE ~IsMarker(q[i])
    BY <1>1, <1>2, <2>1 DEF NextTo
  <2>2. CASE n = l + 2
    <3>1. \A i \in k + 1 .. l : i \in k + 1 .. n - 1 /\ i \in 1 .. l
      BY <1>1, <2>2
    <3>2. l + 1 \in k + 1 .. l + 1 /\ (l + 1) - 1 = l /\ n = Len(p) + 1
      BY <1>1, <2>2
    <3> QED
      BY <2>1, <3>1, <3>2 DEF NextTo, SpAt, l
  <2>3. CASE n # l + 2
    <3>1. IsMarker(p[n]) /\ n # l + 1 /\ n \in 1 .. l
      BY <1>1, <1>2, <2>3 DEF NextTo
    <3>2. n \in k + 1 .. l + 1 /\ \A i \in k + 1 .. n - 1 : i \in 1 .. l
      BY <1>1, <3>1
    <3> QED
      BY <1>1, <2>1, <2>3, <3>1, <3>2 DEF NextTo, SpAt, l
  <2> QED
    BY <2>2, <2>3
<1>3. ASSUME NEW n \in 1 .. l + 2, NextTo(p, 0, n) PROVE SpAt(p, n, sp) = FrameTop
  <2>1. PICK o \in 1 .. l + 1 : NextTo(q, 0, o) /\ SpAt(q, o, sp) = SpAt(p, n, sp)
    BY <1>1, <1>2, <1>3
  <2> QED
    BY <2>1 DEF Adds, l
<1>4. ASSUME NEW k \in 1 .. l + 1, NEW j \in k .. l + 1, NEW n \in k + 1 .. l + 2,
             IsMarker(p[k]), ArgsTo(p, k, j), NextTo(p, k, n)
      PROVE  SpAt(p, n, sp) = Taken(p, k, j)
  <2>1. k \in 1 .. l /\ p[k] = q[k]
    BY <1>1, <1>4
  <2>2. PICK o \in k + 1 .. l + 1 : NextTo(q, k, o) /\ SpAt(q, o, sp) = SpAt(p, n, sp)
    BY <1>1, <1>2, <1>4, <2>1
  <2>3. j \in k .. l
    <3>1. CASE j = l + 1
      <4>1. j \in k + 1 .. j
        BY <1>1, <2>1, <3>1
      <4> QED
        BY <1>1, <1>4, <3>1, <4>1 DEF ArgsTo
    <3> QED
      BY <1>1, <3>1
  <2>4. ArgsTo(q, k, j)
    <3>1. \A i \in k + 1 .. j : i \in 1 .. l
      BY <1>1, <2>3
    <3>2. j = l \/ (j + 1 \in 1 .. l /\ j # l + 1)
      BY <1>1, <2>1, <2>3
    <3>3. j # l + 1
      BY <1>1, <2>3
    <3> QED
      BY <1>1, <1>4, <3>1, <3>2, <3>3 DEF ArgsTo, l
  <2>5. SpAt(q, o, sp) = Taken(q, k, j)
    BY <1>4, <2>1, <2>2, <2>3, <2>4 DEF Adds, l
  <2> QED
    BY <2>1, <2>2, <2>5 DEF Taken
<1>5. Len(p) + 1 = l + 2
  BY <1>1
<1> QED
  BY <1>1, <1>3, <1>4, <1>5 DEF Adds, p

LEMMA MarkAdds ==
  ASSUME NEW q \in Seq(Entries), NEW sp, Adds(q, sp), NEW m \in Entries, IsMarker(m), m.sp = sp
  PROVE  Adds(Append(q, m), Begun(m))
<1> DEFINE p == Append(q, m)
           l == Len(q)
           up == Begun(m)
<1>1. l \in Nat /\ Len(p) = l + 1 /\ (\A i \in 1 .. l : p[i] = q[i]) /\ p[l + 1] = m /\ ~IsArg(m)
  BY Pushed DEF IsMarker, IsCall, IsArg
<1>3. Begun(m) \in Int
  BY MarkerHas
<1> HIDE DEF p, l, up
<1>4. ASSUME NEW k \in 0 .. l, NEW n \in k + 1 .. l + 2, NextTo(p, k, n)
      PROVE  n \in k + 1 .. l + 1 /\ NextTo(q, k, n) /\ SpAt(q, n, sp) = SpAt(p, n, up)
  <2>1. n # l + 2
    <3>1. l + 1 \in k + 1 .. (l + 2) - 1
      BY <1>1
    <3> QED
      BY <1>1, <1>4, <3>1 DEF NextTo
  <2>2. \A i \in k + 1 .. n - 1 : i \in 1 .. l
    BY <1>1, <2>1
  <2>3. n \in k + 1 .. l + 1 /\ n # Len(p) + 1 /\ (n = l + 1 \/ n \in 1 .. l)
    BY <1>1, <2>1
  <2>4. n \in 1 .. l => n # l + 1
    BY <1>1
  <2> QED
    BY <1>1, <1>4, <2>2, <2>3, <2>4 DEF NextTo, SpAt, l
<1>5. ASSUME NEW n \in 1 .. l + 2, NextTo(p, 0, n) PROVE SpAt(p, n, up) = FrameTop
  <2>1. n \in 1 .. l + 1 /\ NextTo(q, 0, n) /\ SpAt(q, n, sp) = SpAt(p, n, up)
    BY <1>1, <1>4, <1>5
  <2> QED
    BY <2>1 DEF Adds, l
<1>6. ASSUME NEW k \in 1 .. l + 1, NEW j \in k .. l + 1, NEW n \in k + 1 .. l + 2,
             IsMarker(p[k]), ArgsTo(p, k, j), NextTo(p, k, n)
      PROVE  SpAt(p, n, up) = Taken(p, k, j)
  <2>1. CASE k = l + 1
    <3>1. j = k /\ n = Len(p) + 1 /\ j - k = 0
      BY <1>1, <2>1
    <3>2. SpAt(p, n, up) = Begun(m) /\ Taken(p, k, j) = Begun(m) + 0
      BY <1>1, <2>1, <3>1 DEF SpAt, Taken, up
    <3> QED
      BY <1>3, <3>2
  <2>2. CASE k # l + 1
    <3>1. k \in 1 .. l /\ p[k] = q[k]
      BY <1>1, <2>2
    <3>2. n \in k + 1 .. l + 1 /\ NextTo(q, k, n) /\ SpAt(q, n, sp) = SpAt(p, n, up)
      BY <1>1, <1>4, <1>6, <3>1
    <3>3. j \in k .. l
      <4>1. CASE j = l + 1
        <5>1. j \in k + 1 .. j
          BY <1>1, <3>1, <4>1
        <5> QED
          BY <1>1, <1>6, <4>1, <5>1 DEF ArgsTo
      <4> QED
        BY <1>1, <4>1
    <3>4. ArgsTo(q, k, j)
      <4>1. \A i \in k + 1 .. j : i \in 1 .. l
        BY <1>1, <3>3
      <4>2. (j = l \/ j + 1 \in 1 .. l) /\ j # l + 1
        BY <1>1, <3>1, <3>3
      <4> QED
        BY <1>1, <1>6, <4>1, <4>2 DEF ArgsTo, l
    <3>5. SpAt(q, n, sp) = Taken(q, k, j)
      BY <1>6, <3>1, <3>2, <3>3, <3>4 DEF Adds, l
    <3> QED
      BY <3>1, <3>2, <3>5 DEF Taken
  <2> QED
    BY <2>1, <2>2
<1>7. Len(p) + 1 = l + 2
  BY <1>1
<1> QED
  BY <1>1, <1>5, <1>6, <1>7 DEF Adds, p, up

\* An argument of WRITE is two words.
LEMMA ArgAdds ==
  ASSUME NEW q \in Seq(Entries), NEW sp, Adds(q, sp), NEW a \in Entries, IsArg(a),
         NEW m \in 1 .. Len(q), IsMarker(q[m]), \A i \in m + 1 .. Len(q) : IsArg(q[i])
  PROVE  Adds(Append(q, a), IF IsCall(q[m]) THEN sp ELSE sp + 2)
<1> DEFINE p == Append(q, a)
           l == Len(q)
           up == IF IsCall(q[m]) THEN sp ELSE sp + 2
<1>1. l \in Nat /\ Len(p) = l + 1 /\ (\A i \in 1 .. l : p[i] = q[i]) /\ p[l + 1] = a /\ m \in 1 .. l
  BY Pushed
<1>a. \A i \in m + 1 .. l + 1 : IsArg(p[i]) /\ ~IsMarker(p[i])
  <2> SUFFICES ASSUME NEW i \in m + 1 .. l + 1 PROVE IsArg(p[i])
    BY DEF IsArg, IsMarker, IsCall
  <2>1. i = l + 1 \/ (i \in m + 1 .. l /\ i \in 1 .. l)
    BY <1>1
  <2> HIDE DEF p
  <2> QED
    BY <1>1, <2>1
<1> HIDE DEF p, l, up
<1>2. ASSUME NEW k \in 0 .. l, NEW n \in k + 1 .. l + 2, NextTo(p, k, n), k < m
      PROVE  n \in k + 1 .. m /\ NextTo(q, k, n) /\ SpAt(q, n, sp) = SpAt(p, n, up)
  <2>1. ~ (n > m)
    <3>1. n > m => m \in k + 1 .. n - 1
      BY <1>1, <1>2
    <3> QED
      BY <1>1, <1>2, <3>1 DEF NextTo
  <2>2. n \in 1 .. l /\ n # l + 1 /\ n # Len(p) + 1 /\ n \in k + 1 .. m
    BY <1>1, <2>1
  <2>3. \A i \in k + 1 .. n - 1 : i \in 1 .. l
    BY <1>1, <2>2
  <2> QED
    BY <1>1, <1>2, <2>2, <2>3 DEF NextTo, SpAt, l
<1>3. ASSUME NEW n \in 1 .. l + 2, NextTo(p, 0, n) PROVE SpAt(p, n, up) = FrameTop
  <2>1. n \in 1 .. m /\ NextTo(q, 0, n) /\ SpAt(q, n, sp) = SpAt(p, n, up)
    BY <1>1, <1>2, <1>3
  <2>2. n \in 1 .. l + 1
    BY <1>1, <2>1
  <2> QED
    BY <2>1, <2>2 DEF Adds, l
<1>4. ASSUME NEW k \in 1 .. l + 1, NEW j \in k .. l + 1, NEW n \in k + 1 .. l + 2,
             IsMarker(p[k]), ArgsTo(p, k, j), NextTo(p, k, n)
      PROVE  SpAt(p, n, up) = Taken(p, k, j)
  <2>1. k \in 1 .. m /\ p[k] = q[k]
    <3>1. k \in 1 .. m \/ k \in m + 1 .. l + 1
      BY <1>1
    <3>2. k \in 1 .. m => k \in 1 .. l
      BY <1>1
    <3> QED
      BY <1>1, <1>a, <1>4, <3>1, <3>2
  <2>2. CASE k = m
    <3>1. n = l + 2
      <4>1. n = l + 2 \/ n \in m + 1 .. l + 1
        BY <1>1, <2>2
      <4>2. n \in m + 1 .. l + 1 => n # Len(p) + 1
        BY <1>1
      <4> QED
        BY <1>a, <1>4, <4>1, <4>2 DEF NextTo
    <3>2. j = l + 1
      <4>1. j = l + 1 \/ j + 1 \in m + 1 .. l + 1
        BY <1>1, <2>2
      <4> QED
        BY <1>1, <1>a, <1>4, <4>1 DEF ArgsTo
    <3>3. sp = Taken(q, m, l)
      <4>1. m \in 1 .. l /\ l \in m .. l /\ l + 1 \in m + 1 .. l + 1 /\ (l + 1) - 1 = l
        BY <1>1
      <4>2. ArgsTo(q, m, l)
        BY DEF ArgsTo, l
      <4>3. NextTo(q, m, l + 1)
        BY <4>1 DEF NextTo, l, IsArg, IsMarker, IsCall
      <4>4. SpAt(q, l + 1, sp) = sp
        BY DEF SpAt, l
      <4> QED
        BY <4>1, <4>2, <4>3, <4>4 DEF Adds, l
    <3>4. SpAt(p, n, up) = up
      <4>1. n = Len(p) + 1
        BY <1>1, <3>1
      <4> QED
        BY <4>1 DEF SpAt
    <3>5. Begun(q[m]) \in Int
      <4>1. q[m] \in Entries
        BY <1>1 DEF l
      <4> QED
        BY <4>1, MarkerHas
    <3> QED
      <4>1. CASE IsCall(q[m])
        BY <2>1, <2>2, <3>3, <3>4, <4>1 DEF Taken, up
      <4>2. CASE ~IsCall(q[m])
        <5>1. sp = Begun(q[m]) + 2 * (l - m) /\ up = sp + 2
          BY <3>3, <4>2 DEF Taken, up
        <5>2. Taken(p, k, j) = Begun(q[m]) + 2 * ((l + 1) - m)
          BY <2>1, <2>2, <3>2, <4>2 DEF Taken
        <5> QED
          BY <1>1, <3>4, <3>5, <5>1, <5>2
      <4> QED
        BY <4>1, <4>2
  <2>3. CASE k # m
    <3>1. k \in 0 .. l /\ k < m /\ k \in 1 .. l
      BY <1>1, <2>1, <2>3
    <3>2. n \in k + 1 .. m /\ NextTo(q, k, n) /\ SpAt(q, n, sp) = SpAt(p, n, up)
      BY <1>2, <1>4, <3>1
    <3>3. j < m
      <4>1. j >= m => m \in k + 1 .. j /\ m \in 1 .. l
        BY <1>1, <3>1
      <4> QED
        BY <1>1, <1>4, <4>1 DEF ArgsTo, IsArg, IsMarker, IsCall
    <3>4. j \in k .. l /\ j + 1 \in 1 .. l /\ j # l + 1
      BY <1>1, <3>1, <3>3
    <3>5. ArgsTo(q, k, j)
      <4>1. \A i \in k + 1 .. j : i \in 1 .. l
        BY <1>1, <3>3
      <4> QED
        BY <1>1, <1>4, <3>4, <4>1 DEF ArgsTo, l
    <3>6. n \in k + 1 .. l + 1
      BY <1>1, <3>2
    <3>7. SpAt(q, n, sp) = Taken(q, k, j)
      BY <1>4, <2>1, <3>1, <3>2, <3>4, <3>5, <3>6 DEF Adds, l
    <3> QED
      BY <2>1, <3>2, <3>7 DEF Taken
  <2> QED
    BY <2>2, <2>3
<1>5. Len(p) + 1 = l + 2
  BY <1>1
<1>6. Adds(p, up)
  BY <1>1, <1>3, <1>4, <1>5 DEF Adds
<1> QED
  BY <1>6 DEF p, up

\* The words that one thing pending may take.
Most == CHOOSE d \in 0 .. StackWords :
          /\ \A p \in ArgCounts \cup {0} : 2 * RegCount + p <= d
          /\ FrameTop + MaxTodo * d < StackWords

LEMMA MostOK ==
  /\ Most \in Nat /\ Most >= 2
  /\ \A p \in ArgCounts \cup {0} : 2 * RegCount + p <= Most
  /\ FrameTop + MaxTodo * Most < StackWords
<1>1. \E d \in 0 .. StackWords : /\ \A p \in ArgCounts \cup {0} : 2 * RegCount + p <= d
                                 /\ FrameTop + MaxTodo * d < StackWords
  BY RegistersAssumption
<1>2. /\ Most \in 0 .. StackWords
      /\ \A p \in ArgCounts \cup {0} : 2 * RegCount + p <= Most
      /\ FrameTop + MaxTodo * Most < StackWords
  BY <1>1 DEF Most
<1>3. 2 * RegCount + 0 <= Most
  BY <1>2
<1> QED
  BY <1>2, <1>3, ConstantsOK

Levels(q) ==
  \A n \in 1 .. Len(q) : IsMarker(q[n]) => FrameTop <= q[n].sp /\ q[n].sp <= FrameTop + (n - 1) * Most

StackOK(q, sp) == Shape(q) /\ Adds(q, sp) /\ Levels(q)

LEMMA Distributes ==
  ASSUME NEW d \in Nat, NEW a \in Nat, NEW b \in Nat
  PROVE  (a + b) * d = a * d + b * d /\ a * d \in Nat /\ (d >= 2 => 2 * a <= a * d) /\ 1 * d = d
<1>1. (a + b) * d = a * d + b * d
  OBVIOUS
<1>2. a * d \in Nat
  OBVIOUS
<1>3. ASSUME d >= 2 PROVE 2 * a <= a * d
  <2>1. PICK e \in Nat : d = 2 + e
    BY <1>3
  <2>2. a * (2 + e) = a * 2 + a * e /\ a * e \in Nat
    OBVIOUS
  <2> QED
    BY <2>1, <2>2
<1> QED
  BY <1>1, <1>2, <1>3

\* What is begun at level k ends at most at level k + 1.
LEMMA BegunBelow ==
  ASSUME NEW m \in Entries, IsMarker(m)
  PROVE  m.sp <= Begun(m) /\ Begun(m) <= m.sp + Most
<1>1. Cardinality(m.saved) <= 2 * RegCount /\ Cardinality(m.saved) \in Nat
  BY MarkerHas, RegsFinite
<1>2. StackArgs(m.params) <= m.params /\ StackArgs(m.params) \in Nat /\ m.params \in Nat
  BY MarkerHas, ConstantsOK DEF StackArgs
<1>3. 2 * RegCount + m.params <= Most
  BY MarkerHas, MostOK
<1> QED
  BY <1>1, <1>2, <1>3, MarkerHas, MostOK, ConstantsOK DEF Begun

LEMMA SpBelow ==
  ASSUME NEW q, NEW sp, StackOK(q, sp)
  PROVE  sp \in Int /\ FrameTop <= sp /\ sp <= FrameTop + Len(q) * Most
<1> DEFINE l == Len(q)
           Ms == {i \in 1 .. l : IsMarker(q[i])}
<1>1. l \in Nat /\ q \in Seq(Entries)
  BY DEF StackOK, Shape
<1>2. CASE Ms = {}
  <2>1. NextTo(q, 0, l + 1) /\ l + 1 \in 1 .. l + 1
    BY <1>1, <1>2 DEF NextTo
  <2>2. sp = FrameTop
    BY <2>1 DEF StackOK, Adds, SpAt
  <2>3. l * Most \in Nat
    BY <1>1, MostOK, Distributes
  <2> HIDE DEF l
  <2> QED
    BY <2>2, <2>3, ConstantsOK DEF l
<1>3. CASE Ms # {}
  <2>1. PICK m \in Ms : \A i \in Ms : i <= m
    <3>1. Ms \subseteq 0 .. l
      BY <1>1
    <3> HIDE DEF Ms, l
    <3> QED
      BY <1>1, <1>3, <3>1, LastIn
  <2>2. m \in 1 .. l /\ IsMarker(q[m]) /\ \A i \in m + 1 .. l : ~IsMarker(q[i])
    <3>1. \A i \in m + 1 .. l : i \in 1 .. l /\ ~(i <= m)
      BY <1>1
    <3> QED
      BY <2>1, <3>1
  <2>3. PICK j \in m .. l : ArgsTo(q, m, j)
    <3> DEFINE Others == {i \in m + 1 .. l : ~IsArg(q[i])}
    <3>1. CASE Others = {}
      BY <1>1, <2>2, <3>1 DEF ArgsTo
    <3>2. CASE Others # {}
      <4>1. Others \subseteq Nat
        BY <2>2
      <4>2. PICK o \in Others : \A i \in Others : o <= i
        <5> HIDE DEF Others
        <5> QED
          BY <3>2, <4>1, LeastIn
      <4>3. PICK j \in m .. l : j = o - 1 /\ j + 1 = o
        BY <1>1, <2>2
      <4>4. ASSUME NEW i \in m + 1 .. j PROVE IsArg(q[i])
        <5>1. i \in m + 1 .. l /\ ~(o <= i)
          BY <1>1, <2>2, <4>3
        <5> QED
          BY <4>2, <5>1
      <4> QED
        BY <4>3, <4>4 DEF ArgsTo
    <3> QED
      BY <3>1, <3>2
  <2>4. sp = Taken(q, m, j)
    <3>1. NextTo(q, m, l + 1) /\ l + 1 \in m + 1 .. l + 1
      BY <1>1, <2>2 DEF NextTo
    <3> QED
      BY <2>2, <2>3, <3>1 DEF StackOK, Adds, SpAt
  <2> HIDE DEF l, Ms
  <2>5. q[m] \in Entries
    BY <1>1, <2>2 DEF l
  <2>6. /\ Begun(q[m]) \in Int /\ FrameTop <= Begun(q[m])
        /\ Begun(q[m]) <= FrameTop + (m - 1) * Most + Most
    <3>1. /\ q[m].sp \in Int /\ Begun(q[m]) \in Int /\ q[m].sp <= Begun(q[m])
          /\ Begun(q[m]) <= q[m].sp + Most
      BY <2>2, <2>5, MarkerHas, BegunBelow
    <3>2. FrameTop <= q[m].sp /\ q[m].sp <= FrameTop + (m - 1) * Most
      BY <2>2 DEF StackOK, Levels, l
    <3>3. PICK x \in Nat : x = (m - 1) * Most
      <4>1. m - 1 \in Nat
        BY <2>2
      <4> QED
        BY <4>1, MostOK, Distributes
    <3> QED
      BY <3>1, <3>2, <3>3, ConstantsOK, MostOK
  <2>7. PICK a \in Nat, b \in Nat, c \in Nat :
          a = m - 1 /\ b = j - m /\ c = l - j /\ m = a + 1 /\ j = (a + 1) + b /\ l = ((a + 1) + b) + c
    BY <1>1, <2>2, <2>3
  <2>8. /\ a * Most \in Nat /\ b * Most \in Nat /\ c * Most \in Nat /\ 2 * b <= b * Most
        /\ l * Most = a * Most + Most + b * Most + c * Most
    <3>1. (a + 1) * Most = a * Most + 1 * Most /\ 1 * Most = Most
      BY MostOK, Distributes
    <3>2. ((a + 1) + b) * Most = (a + 1) * Most + b * Most
      BY MostOK, Distributes, a + 1 \in Nat
    <3>3. (((a + 1) + b) + c) * Most = ((a + 1) + b) * Most + c * Most
      BY MostOK, Distributes, (a + 1) + b \in Nat
    <3> QED
      BY <2>7, <3>1, <3>2, <3>3, MostOK, Distributes
  <2>9. sp = Begun(q[m]) \/ sp = Begun(q[m]) + 2 * b
    <3>1. Taken(q, m, j) = Begun(q[m]) + (IF IsCall(q[m]) THEN 0 ELSE 2 * b)
      BY <2>7 DEF Taken
    <3> HIDE DEF IsCall
    <3> QED
      BY <2>4, <2>6, <3>1
  <2>10. PICK x \in Nat, y \in Nat, z \in Nat : x = a * Most /\ y = b * Most /\ z = c * Most
    BY <2>8
  <2>11. PICK g \in Int : g = Begun(q[m])
    BY <2>6
  <2>12. FrameTop <= g /\ g <= FrameTop + x + Most /\ 2 * b <= y /\ l * Most = x + Most + y + z
    BY <2>6, <2>7, <2>8, <2>10, <2>11
  <2>13. sp \in Int /\ FrameTop <= sp /\ sp <= FrameTop + (x + Most + y + z)
    BY <2>9, <2>11, <2>12, ConstantsOK, MostOK
  <2> QED
    BY <2>12, <2>13 DEF l
<1> QED
  BY <1>2, <1>3

LEMMA PopOK ==
  ASSUME NEW q, NEW sp, StackOK(q, sp), NEW m \in 0 .. Len(q),
         \A i \in m + 1 .. Len(q) : ~IsArg(q[i]) /\ ~IsMarker(q[i])
  PROVE  /\ StackOK(SubSeq(q, 1, m), sp) /\ Len(SubSeq(q, 1, m)) = m
         /\ m < Len(q) => NextArg(SubSeq(q, 1, m), m)
<1>1. q \in Seq(Entries) /\ Len(q) \in Nat /\ Shape(q) /\ Adds(q, sp)
  BY DEF StackOK, Shape
<1>2. /\ Shape(SubSeq(q, 1, m)) /\ Adds(SubSeq(q, 1, m), sp) /\ Len(SubSeq(q, 1, m)) = m
      /\ m < Len(q) => NextArg(SubSeq(q, 1, m), m)
  BY Cut, <1>1, PopShape, PopAdds
<1>3. Levels(SubSeq(q, 1, m))
  BY <1>1, Cut DEF StackOK, Levels
<1> QED
  BY <1>2, <1>3 DEF StackOK

LEMMA DropOK ==
  ASSUME NEW q, NEW sp, StackOK(q, sp), NEW m \in 1 .. Len(q), IsMarker(q[m])
  PROVE  /\ StackOK(SubSeq(q, 1, m - 1), q[m].sp) /\ Len(SubSeq(q, 1, m - 1)) = m - 1
         /\ NextArg(SubSeq(q, 1, m - 1), m - 1)
<1>1. q \in Seq(Entries) /\ Len(q) \in Nat /\ Shape(q) /\ Adds(q, sp) /\ m - 1 \in 0 .. Len(q)
  BY DEF StackOK, Shape
<1>2. /\ Shape(SubSeq(q, 1, m - 1)) /\ Adds(SubSeq(q, 1, m - 1), q[m].sp)
      /\ Len(SubSeq(q, 1, m - 1)) = m - 1 /\ NextArg(SubSeq(q, 1, m - 1), m - 1)
  BY Cut, <1>1, PopShape, DropAdds
<1>3. Levels(SubSeq(q, 1, m - 1))
  BY <1>1, Cut DEF StackOK, Levels
<1> QED
  BY <1>2, <1>3 DEF StackOK

LEMMA PushLevels ==
  ASSUME NEW q \in Seq(Entries), Levels(q), NEW v \in Entries, ~IsMarker(v)
  PROVE  Levels(Append(q, v))
<1>1. Len(q) \in Nat /\ Len(Append(q, v)) = Len(q) + 1
  BY Pushed
<1>2. ASSUME NEW n \in 1 .. Len(q) + 1, IsMarker(Append(q, v)[n])
      PROVE  n \in 1 .. Len(q) /\ Append(q, v)[n] = q[n]
  <2>1. n \in 1 .. Len(q) \/ n = Len(q) + 1
    BY <1>1
  <2> QED
    BY <1>2, <2>1, Pushed
<1>3. ASSUME NEW n \in 1 .. Len(q) + 1, IsMarker(Append(q, v)[n])
      PROVE  FrameTop <= Append(q, v)[n].sp /\ Append(q, v)[n].sp <= FrameTop + (n - 1) * Most
  BY <1>2, <1>3 DEF Levels
<1> QED
  BY <1>1, <1>3 DEF Levels

LEMMA PushOK ==
  ASSUME NEW q, NEW sp, StackOK(q, sp), NextArg(q, Len(q)), NEW v \in Entries, ~IsArg(v), ~IsMarker(v),
         v.kind = "stop" => Len(q) > 0 /\ q[Len(q)].kind = "for"
  PROVE  StackOK(Append(q, v), sp)
<1>1. q \in Seq(Entries) /\ Len(q) \in Nat /\ Shape(q) /\ Adds(q, sp)
  BY DEF StackOK, Shape
<1>2. Shape(Append(q, v)) /\ Adds(Append(q, v), sp)
  BY <1>1, PushShape, PushAdds
<1>3. Levels(Append(q, v))
  BY <1>1, PushLevels DEF StackOK
<1> QED
  BY <1>2, <1>3 DEF StackOK

LEMMA MarkOK ==
  ASSUME NEW q, NEW sp, StackOK(q, sp), NextArg(q, Len(q)), NEW m \in Entries, IsMarker(m), m.sp = sp
  PROVE  StackOK(Append(q, m), Begun(m))
<1>1. q \in Seq(Entries) /\ Len(q) \in Nat /\ Shape(q) /\ Adds(q, sp)
  BY DEF StackOK, Shape
<1>2. Shape(Append(q, m)) /\ Adds(Append(q, m), Begun(m))
  BY <1>1, PushShape, MarkAdds DEF IsMarker, IsCall, IsArg
<1>3. Levels(Append(q, m))
  <2>1. FrameTop <= sp /\ sp <= FrameTop + Len(q) * Most
    BY SpBelow
  <2>2. ASSUME NEW n \in 1 .. Len(q) + 1, IsMarker(Append(q, m)[n])
        PROVE  FrameTop <= Append(q, m)[n].sp /\ Append(q, m)[n].sp <= FrameTop + (n - 1) * Most
    <3>1. CASE n \in 1 .. Len(q)
      BY <1>1, <2>2, <3>1, Pushed DEF StackOK, Levels
    <3>2. CASE n = Len(q) + 1
      <4>1. Append(q, m)[n] = m /\ n - 1 = Len(q)
        BY <1>1, <3>2, Pushed
      <4> QED
        BY <2>1, <4>1
    <3> QED
      BY <1>1, <3>1, <3>2
  <2> QED
    BY <1>1, <2>2, Pushed DEF Levels
<1> QED
  BY <1>2, <1>3 DEF StackOK

LEMMA ArgOK ==
  ASSUME NEW q, NEW sp, StackOK(q, sp), NextArg(q, Len(q)), NEW a \in Entries, IsArg(a),
         NEW m \in 1 .. Len(q), IsMarker(q[m]), \A i \in m + 1 .. Len(q) : IsArg(q[i])
  PROVE  StackOK(Append(q, a), IF IsCall(q[m]) THEN sp ELSE sp + 2)
<1>1. q \in Seq(Entries) /\ Len(q) \in Nat /\ Shape(q) /\ Adds(q, sp)
  BY DEF StackOK, Shape
<1>3. ~IsMarker(a) /\ a.kind # "stop"
  BY DEF IsMarker, IsCall, IsArg
<1>4. Shape(Append(q, a)) /\ Adds(Append(q, a), IF IsCall(q[m]) THEN sp ELSE sp + 2)
  BY <1>1, <1>3, PushShape, ArgAdds
<1>5. Levels(Append(q, a))
  BY <1>1, <1>3, PushLevels DEF StackOK
<1> QED
  BY <1>4, <1>5 DEF StackOK

\* The result of a call, if any, as a sequence.
LEMMA AsSequence ==
  ASSUME NEW v
  PROVE  SetToSeq({v}) = <<v>> /\ SetToSeq({}) = << >>
<1>1. SetToSeq({}) = << >>
  <2>1. Cardinality({}) = 0
    BY FS_EmptySet
  <2>2. 1 .. 0 = {}
    OBVIOUS
  <2>3. \A f \in [1 .. 0 -> {}] : f = << >>
    OBVIOUS
  <2>4. << >> \in [1 .. 0 -> {}] /\ IsInjective(<< >>)
    BY DEF IsInjective
  <2> QED
    BY <2>1, <2>3, <2>4 DEF SetToSeq
<1>2. SetToSeq({v}) = <<v>>
  <2>1. Cardinality({v}) = 1
    BY FS_Singleton
  <2>2. \A f \in [1 .. 1 -> {v}] : f = <<v>>
    OBVIOUS
  <2>3. <<v>> \in [1 .. 1 -> {v}] /\ IsInjective(<<v>>)
    BY DEF IsInjective
  <2> QED
    BY <2>1, <2>2, <2>3 DEF SetToSeq
<1> QED
  BY <1>1, <1>2

-----------------------------------------------------------------------------
(* The strengthening *)

Machined == st.sp \in Words /\ st \in At(st.sp)
Stacked == StackOK(todo, st.sp) /\ N <= MaxTodo

IInv == Machined /\ Stacked /\ orderly \in BOOLEAN

LEMMA Basics ==
  ASSUME IInv
  PROVE  /\ N \in Nat /\ N = Len(todo) /\ N <= MaxTodo /\ N \in Tags /\ todo \in Seq(Entries)
         /\ \A k \in 1 .. N : todo[k] \in Entries
         /\ StackOK(todo, st.sp) /\ Shape(todo) /\ Adds(todo, st.sp)
         /\ st \in At(st.sp) /\ st.sp \in Int /\ FrameTop <= st.sp /\ st.sp <= FrameTop + N * Most
<1>1. todo \in Seq(Entries) /\ StackOK(todo, st.sp) /\ Shape(todo) /\ Adds(todo, st.sp) /\ N <= MaxTodo
  BY DEF IInv, Stacked, StackOK, Shape
<1>2. N \in Nat /\ N = Len(todo) /\ \A k \in 1 .. N : todo[k] \in Entries
  BY <1>1 DEF N
<1>3. N \in Tags
  BY <1>1, <1>2, ConstantsOK DEF Tags
<1>4. st.sp \in Int /\ FrameTop <= st.sp /\ st.sp <= FrameTop + N * Most
  BY <1>1, <1>2, SpBelow
<1> QED
  BY <1>1, <1>2, <1>3, <1>4 DEF IInv, Machined

\* The machine after a step, and its stack.
LEMMA Becomes ==
  ASSUME NEW w, NEW s \in At(w), NEW q, StackOK(q, w), Len(q) <= MaxTodo, Become(s, q)
  PROVE  IInv' /\ st'.sp = w
<1>1. Len(q) \in Nat
  BY DEF StackOK, Shape
<1>2. st' = Forget(s, Len(q)) /\ todo' = q /\ orderly' \in BOOLEAN
  BY DEF Become
<1>3. st' \in At(w)
  BY <1>1, <1>2, ForgetOK
<1>4. st'.sp = w /\ w \in Words
  BY <1>3 DEF At, IsMachine
<1>5. Machined'
  BY <1>3, <1>4 DEF Machined
<1>6. Stacked'
  BY <1>2, <1>4 DEF Stacked, N
<1> QED
  BY <1>2, <1>4, <1>5, <1>6 DEF IInv

LEMMA PlainHas ==
  ASSUME NEW i \in Entries, ~IsMarker(i)
  PROVE  /\ i \in Plain /\ i.bank \in BothBanks /\ i.reg \in Regs \cup Words \cup {None}
         /\ i.at \in {"reg", "mem"} \/ i.kind \in {"for", "stop"} => i.reg \in Regs
<1>1. i \notin Markers
  <2> SUFFICES ASSUME i \in Markers PROVE FALSE
    OBVIOUS
  <2>1. i.kind \in {"fn", "proc", "write"}
    BY DEF Markers
  <2> QED
    BY <2>1 DEF IsMarker, IsCall
<1> QED
  BY <1>1 DEF Entries, Plain

LEMMA ItemIn ==
  ASSUME NEW kind \in {"value", "arg", "for", "stop"}, NEW at \in {"reg", "word", "mem", "lit", "none"},
         NEW r \in Regs \cup Words \cup {None}, NEW tag \in Nat, NEW bank \in BothBanks, NEW fixed \in BOOLEAN,
         at \in {"reg", "mem"} \/ kind \in {"for", "stop"} => r \in Regs
  PROVE  /\ Item(kind, at, r, tag, bank, fixed) \in Entries
         /\ ~IsMarker(Item(kind, at, r, tag, bank, fixed))
         /\ Item(kind, at, r, tag, bank, fixed).kind = kind
<1>1. Item(kind, at, r, tag, bank, fixed) \in Plain
  BY DEF Item, Plain
<1> QED
  BY <1>1 DEF Item, Entries, IsMarker, IsCall

LEMMA ValueIn ==
  ASSUME NEW at \in {"reg", "mem"}, NEW r \in Regs, NEW tag \in Nat, NEW bank \in BothBanks, NEW fixed \in BOOLEAN
  PROVE  /\ Value(at, r, tag, bank, fixed) \in Entries
         /\ ~IsMarker(Value(at, r, tag, bank, fixed))
         /\ Value(at, r, tag, bank, fixed).kind = "value"
<1>1. Item("value", at, r, tag, bank, fixed) \in Plain
  BY DEF Item, Plain
<1> QED
  BY <1>1 DEF Value, Item, Entries, IsMarker, IsCall

LEMMA LiteralIn ==
  ASSUME NEW bank \in BothBanks
  PROVE  /\ Value("lit", None, Junk, bank, FALSE) \in Entries
         /\ ~IsMarker(Value("lit", None, Junk, bank, FALSE))
         /\ Value("lit", None, Junk, bank, FALSE).kind = "value"
<1>1. Item("value", "lit", None, Junk, bank, FALSE) \in Plain
  BY DEF Item, Plain, Junk
<1> QED
  BY <1>1 DEF Value, Item, Entries, IsMarker, IsCall

LEMMA ArgIn ==
  ASSUME NEW at \in {"reg", "word"}, NEW r \in Regs \cup Words, at = "reg" => r \in Regs, NEW tag \in Nat,
         NEW bank \in BothBanks
  PROVE  Item("arg", at, r, tag, bank, FALSE) \in Entries /\ IsArg(Item("arg", at, r, tag, bank, FALSE))
<1>1. Item("arg", at, r, tag, bank, FALSE) \in Plain
  BY DEF Item, Plain
<1> QED
  BY <1>1 DEF Item, Entries, IsArg

\* Operands.
LEMMA CopyIn ==
  ASSUME NEW s, NEW i, NEW tag \in Tags
  PROVE  Copy(s, i, tag) \in Tags
BY ConstantsOK DEF Copy, Junk, Tags

LEMMA LoadOK ==
  ASSUME NEW w, NEW s \in At(w), NEW i \in Entries, ~IsMarker(i), NEW ro, NEW tag \in Tags
  PROVE  Load(s, i, ro, tag) \in At(w) /\ RegOf(s, i, ro) \in Regs
<1>1. i.bank \in BothBanks /\ (i.at = "reg" => i.reg \in Regs)
  BY PlainHas
<1>2. NextReg(s, i.bank) \in Regs
  BY <1>1, NextRegIn DEF At
<1>3. Copy(s, i, tag) \in Tags
  BY CopyIn
<1> QED
  BY <1>1, <1>2, <1>3, AllocateOK, PutOK DEF Load, RegOf, InReg

LEMMA UseOK ==
  ASSUME NEW w, NEW s \in At(w), NEW i \in Entries, ~IsMarker(i)
  PROVE  Use(s, i) \in At(w)
BY PlainHas, TemporaryOK DEF Use

LEMMA FreeExprOK ==
  ASSUME NEW w, NEW s \in At(w), NEW i \in Entries, ~IsMarker(i)
  PROVE  FreeExpr(s, i) \in At(w)
BY PlainHas, FreeOK DEF FreeExpr

-----------------------------------------------------------------------------
(* The innermost call or WRITE *)

LEMMA InnerIs ==
  ASSUME IInv, NEW m \in 1 .. N, IsMarker(todo[m])
  PROVE  Inner \in 1 .. N /\ IsMarker(todo[Inner]) /\ \A i \in Inner + 1 .. N : ~IsMarker(todo[i])
<1> DEFINE I == {i \in 1 .. Len(todo) : IsMarker(todo[i])}
<1>1. N \in Nat /\ N = Len(todo)
  BY Basics
<1>2. m \in I /\ I \subseteq 0 .. N
  BY <1>1
<1>3. Inner = Max(I)
  BY <1>2 DEF Inner, SelectLastInSeq
<1>4. Max(I) \in I /\ \A i \in I : i <= Max(I)
  <2> HIDE DEF I
  <2> QED
    BY <1>1, <1>2, LastIn
<1>5. Inner \in 1 .. N /\ IsMarker(todo[Inner])
  BY <1>1, <1>3, <1>4
<1>6. ASSUME NEW i \in Inner + 1 .. N, IsMarker(todo[i]) PROVE FALSE
  <2>1. i \in I /\ ~(i <= Inner)
    BY <1>1, <1>5, <1>6
  <2> QED
    BY <1>3, <1>4, <2>1
<1> QED
  BY <1>5, <1>6

LEMMA InnerPositive ==
  ASSUME IInv, Inner > 0
  PROVE  \E m \in 1 .. N : IsMarker(todo[m])
<1> SUFFICES ASSUME \A m \in 1 .. N : ~IsMarker(todo[m]) PROVE FALSE
  OBVIOUS
<1>1. {i \in 1 .. Len(todo) : IsMarker(todo[i])} = {}
  BY Basics
<1>2. Inner = 0
  BY <1>1 DEF Inner, SelectLastInSeq
<1> QED
  BY <1>2

\* The arguments of the innermost call lie on it, up to n.
LEMMA ArgsOnInner ==
  ASSUME IInv, NEW n \in 1 .. N, IsArg(todo[n]) \/ IsMarker(todo[n]),
         \A i \in n + 1 .. N : ~IsMarker(todo[i])
  PROVE  Inner \in 1 .. n /\ IsMarker(todo[Inner]) /\ \A i \in Inner + 1 .. n : IsArg(todo[i])
<1>1. N \in Nat /\ N = Len(todo) /\ Shape(todo)
  BY Basics
<1>2. PICK k \in 1 .. n : IsMarker(todo[k]) /\ \A i \in k + 1 .. n : IsArg(todo[i])
  <2>1. CASE IsMarker(todo[n])
    BY <2>1
  <2>2. CASE IsArg(todo[n])
    <3>1. PICK k \in 1 .. n - 1 : IsMarker(todo[k]) /\ \A i \in k + 1 .. n : IsArg(todo[i])
      BY <1>1, <2>2 DEF Shape, ArgsTogether
    <3> QED
      BY <3>1
  <2> QED
    BY <2>1, <2>2
<1>3. k \in 1 .. N
  BY <1>1
<1>4. Inner \in 1 .. N /\ IsMarker(todo[Inner]) /\ \A i \in Inner + 1 .. N : ~IsMarker(todo[i])
  BY <1>2, <1>3, InnerIs
<1>5. Inner = k
  <2>1. ~(Inner < k)
    BY <1>2, <1>3, <1>4
  <2>2. ~(Inner > k)
    <3>1. \A i \in k + 1 .. N : ~IsMarker(todo[i])
      <4> SUFFICES ASSUME NEW i \in k + 1 .. N PROVE ~IsMarker(todo[i])
        OBVIOUS
      <4>1. i \in k + 1 .. n \/ i \in n + 1 .. N
        BY <1>1
      <4> QED
        BY <1>2, <4>1 DEF IsArg, IsMarker, IsCall
    <3> QED
      BY <1>3, <1>4, <3>1
  <2> QED
    BY <1>3, <1>4, <2>1, <2>2
<1> QED
  BY <1>2, <1>5

\* SP is what the innermost call has taken and, for WRITE, two words an argument.
LEMMA SpIsTaken ==
  ASSUME IInv, NEW n \in 1 .. N, IsArg(todo[n]) \/ IsMarker(todo[n]),
         \A i \in n + 1 .. N : ~IsMarker(todo[i]) /\ ~IsArg(todo[i])
  PROVE  st.sp = Begun(todo[Inner]) + (IF IsCall(todo[Inner]) THEN 0 ELSE 2 * (n - Inner))
<1>1. N \in Nat /\ N = Len(todo) /\ Adds(todo, st.sp)
  BY Basics
<1>2. Inner \in 1 .. n /\ IsMarker(todo[Inner]) /\ \A i \in Inner + 1 .. n : IsArg(todo[i])
  BY ArgsOnInner
<1>3. Inner \in 1 .. N /\ n \in Inner .. N /\ N + 1 \in Inner + 1 .. N + 1
  BY <1>1, <1>2
<1>4. ArgsTo(todo, Inner, n)
  <2>1. n = N \/ n + 1 \in n + 1 .. N
    BY <1>1
  <2> QED
    BY <1>1, <1>2, <2>1 DEF ArgsTo
<1>5. NextTo(todo, Inner, N + 1)
  <2>1. \A i \in Inner + 1 .. (N + 1) - 1 : i \in Inner + 1 .. n \/ i \in n + 1 .. N
    BY <1>1, <1>2
  <2>2. \A i \in Inner + 1 .. (N + 1) - 1 : ~IsMarker(todo[i])
    BY <1>2, <2>1 DEF IsArg, IsMarker, IsCall
  <2> QED
    BY <1>1, <2>2 DEF NextTo
<1>6. SpAt(todo, N + 1, st.sp) = st.sp
  BY <1>1 DEF SpAt
<1> QED
  BY <1>1, <1>2, <1>3, <1>4, <1>5, <1>6 DEF Adds, Taken

LEMMA BetweenIs ==
  ASSUME IInv, Between
  PROVE  N \in 1 .. N /\ (IsArg(todo[N]) \/ IsMarker(todo[N])) /\ \A i \in N + 1 .. N : FALSE
<1>1. N \in Nat
  BY Basics
<1>2. PICK m \in 1 .. N : IsMarker(todo[m])
  BY InnerPositive DEF Between
<1>3. IsMarker(todo[Inner])
  BY <1>2, InnerIs
<1> QED
  BY <1>1, <1>2, <1>3 DEF Between, TopIs, Top, IsArg

LEMMA ExprFits ==
  ASSUME IInv, ExprExpected
  PROVE  NextArg(todo, N)
<1>1. N \in Nat
  BY Basics
<1> SUFFICES ASSUME NEW k \in 1 .. N, IsCall(todo[k]), \A i \in k + 1 .. N : IsArg(todo[i])
             PROVE  N + 1 - k <= todo[k].params
  BY DEF NextArg
<1>2. N > 0 /\ (k = N \/ IsArg(todo[N]))
  BY <1>1
<1>3. ~ (N = 0 \/ TopIs("stop") \/ TopIs("value") \/ TopIs("for"))
  BY <1>2 DEF TopIs, Top, IsArg, IsCall
<1>4. Between /\ (Passed < todo[Inner].params \/ todo[Inner].kind = "write")
  BY <1>3 DEF ExprExpected, AtStatement
<1>5. Inner \in 1 .. N /\ IsMarker(todo[Inner]) /\ \A i \in Inner + 1 .. N : IsArg(todo[i])
  BY <1>4, BetweenIs, ArgsOnInner
<1>6. Inner = k
  BY <1>1, <1>5 DEF IsArg, IsMarker, IsCall
<1>7. todo[k].params \in Nat
  <2>1. todo[k] \in Entries /\ IsMarker(todo[k])
    BY Basics DEF IsMarker
  <2> QED
    BY <2>1, MarkerHas
<1> QED
  BY <1>1, <1>4, <1>6, <1>7 DEF Passed, IsCall

LEMMA StatementFits ==
  ASSUME IInv, AtStatement
  PROVE  NextArg(todo, N)
BY ExprFits DEF ExprExpected

\* The top n of what is pending go, where they are no calls and no arguments.
LEMMA UnderOK ==
  ASSUME IInv, NEW n \in 1 .. N, \A i \in N - n + 1 .. N : ~IsArg(todo[i]) /\ ~IsMarker(todo[i])
  PROVE  /\ StackOK(Under(n), st.sp) /\ Len(Under(n)) = N - n /\ NextArg(Under(n), N - n)
         /\ \A i \in 1 .. N - n : Under(n)[i] = todo[i]
<1>1. N \in Nat /\ N = Len(todo) /\ StackOK(todo, st.sp) /\ todo \in Seq(Entries)
  BY Basics
<1>2. N - n \in 0 .. N /\ N - n < N
  BY <1>1
<1>3. Under(n) = SubSeq(todo, 1, N - n)
  BY DEF Under
<1>4. \A i \in 1 .. N - n : Under(n)[i] = todo[i]
  BY <1>1, <1>2, <1>3, Cut
<1> QED
  BY <1>1, <1>2, <1>3, <1>4, PopOK

\* A value on top, and what it stands on.
LEMMA ValueOnIs ==
  ASSUME IInv, NEW kinds, ValueOn(kinds)
  PROVE  /\ N > 1 /\ N \in 1 .. N /\ N - 1 \in 1 .. N /\ N - 1 \in Nat /\ N - 1 \in Tags
         /\ Top = todo[N] /\ Top.kind = "value" /\ todo[N - 1].kind \in kinds
         /\ Top \in Entries /\ todo[N - 1] \in Entries
         /\ ~IsMarker(Top) /\ ~IsArg(Top)
<1>1. N > 1 /\ N \in Nat /\ N <= MaxTodo
  BY Basics DEF ValueOn
<1>2. N \in 1 .. N /\ N - 1 \in 1 .. N /\ N - 1 \in Nat /\ N - 1 \in Tags
  BY <1>1, ConstantsOK DEF Tags
<1>3. Top \in Entries /\ todo[N - 1] \in Entries
  BY <1>2, Basics DEF Top
<1> QED
  BY <1>1, <1>2, <1>3 DEF ValueOn, Top, IsMarker, IsCall, IsArg

LEMMA BanksIn ==
  ASSUME NEW b \in Banks
  PROVE  b \in BothBanks
BY RegistersAssumption DEF BothBanks

-----------------------------------------------------------------------------
(* Each action *)

LEMMA FreshOK ==
  Fresh \in At(FrameTop) /\ Fresh.sp = FrameTop /\ FrameTop \in Words /\ StackOK(<< >>, FrameTop)
<1>1. Fresh \in At(FrameTop) /\ Fresh.sp = FrameTop /\ FrameTop \in Words
  <2>1. << >> \in Seq(1 .. 2 * SpillTable) /\ Len(<< >>) = 0
    OBVIOUS
  <2>2. Junk \in Tags
    BY ConstantsOK DEF Junk, Tags
  <2>3. FrameTop \in Words
    BY ConstantsOK DEF Words
  <2>4. /\ Fresh.reglist \in SUBSET Regs /\ Fresh.sp = FrameTop
        /\ Fresh.reg \in [Regs -> Tags] /\ Fresh.word \in [Words -> Tags]
        /\ Fresh.spilled \in [BothBanks -> Seq(1 .. 2 * SpillTable)]
        /\ \A b \in BothBanks : Fresh.spilled[b] = << >>
    BY <2>1, <2>2, ReservedIn DEF Fresh, BothBanks
  <2>5. Fresh \in Machine
    BY <2>4, ConstantsOK DEF Machine, Fresh, BothBanks
  <2> QED
    BY <2>1, <2>3, <2>4, <2>5, ConstantsOK DEF At, IsMachine
<1>2. StackOK(<< >>, FrameTop)
  <2>1. Len(<< >>) = 0 /\ << >> \in Seq(Entries)
    OBVIOUS
  <2>2. Shape(<< >>)
    BY <2>1 DEF Shape, ArgsTogether, StopsOnFors, ArgsFit
  <2>3. Adds(<< >>, FrameTop)
    BY <2>1 DEF Adds, NextTo, SpAt
  <2>4. Levels(<< >>)
    BY <2>1 DEF Levels
  <2> QED
    BY <2>2, <2>3, <2>4 DEF StackOK
<1> QED
  BY <1>1, <1>2

LEMMA InitOK == Init => IInv
<1> SUFFICES ASSUME Init PROVE IInv
  OBVIOUS
<1>1. /\ st = Fresh /\ todo = << >> /\ orderly = TRUE
  BY DEF Init
<1>2. N = 0 /\ N <= MaxTodo
  BY <1>1, ConstantsOK DEF N
<1> QED
  BY <1>1, <1>2, FreshOK DEF IInv, Machined, Stacked

LEMMA PushValue ==
  ASSUME IInv, ExprExpected, N < MaxTodo, NEW v \in Entries, ~IsMarker(v), v.kind = "value", Become(st, Append(todo, v))
  PROVE  IInv'
<1>1. StackOK(Append(todo, v), st.sp) /\ Len(Append(todo, v)) <= MaxTodo
  <2>1. ~IsArg(v) /\ v.kind # "stop"
    BY DEF IsArg
  <2>2. StackOK(Append(todo, v), st.sp)
    BY <2>1, Basics, ExprFits, PushOK
  <2> QED
    BY <2>2, Basics, Pushed, ConstantsOK
<1> QED
  BY <1>1, Basics, Becomes

LEMMA OperandOK ==
  ASSUME IInv, NEW p \in Places, NEW b \in Banks, Operand(p, b)
  PROVE  IInv'
<1>1. Source(p, b) \in Entries /\ ~IsMarker(Source(p, b)) /\ Source(p, b).kind = "value"
  <2>1. b \in BothBanks /\ Junk \in Nat /\ FP \in Regs /\ GP \in Regs
    BY BanksIn, ConstantsOK DEF Junk, FP, GP, Regs
  <2>2. p \in {"local", "global", "literal"}
    BY RegistersAssumption
  <2>3. CASE p = "local"
    BY <2>1, <2>3, ValueIn DEF Source
  <2>4. CASE p = "global"
    BY <2>1, <2>4, ValueIn DEF Source
  <2>5. CASE p = "literal"
    BY <2>1, <2>5, LiteralIn DEF Source
  <2> QED
    BY <2>2, <2>3, <2>4, <2>5
<1> QED
  BY <1>1, PushValue DEF Operand

LEMMA CounterOK ==
  ASSUME IInv, NEW k \in 1 .. N, Counter(k)
  PROVE  IInv'
<1>1. todo[k] \in Entries /\ todo[k].kind = "for" /\ k \in Nat
  BY Basics DEF Counter
<1>2. todo[k].reg \in Regs
  BY <1>1, PlainHas DEF IsMarker, IsCall
<1> DEFINE v == Value("reg", todo[k].reg, k, "int", TRUE)
<1>3. v \in Entries /\ ~IsMarker(v) /\ v.kind = "value"
  BY <1>1, <1>2, ValueIn DEF BothBanks
<1>4. ExprExpected /\ N < MaxTodo /\ Become(st, Append(todo, v))
  BY DEF Counter
<1> HIDE DEF v
<1> QED
  BY <1>3, <1>4, PushValue

LEMMA TopTwo ==
  ASSUME IInv, NEW kinds, ValueOn(kinds), kinds \cap {"arg", "fn", "proc", "write"} = {}
  PROVE  /\ ~IsMarker(todo[N - 1]) /\ ~IsArg(todo[N - 1])
         /\ StackOK(Under(2), st.sp) /\ Len(Under(2)) = N - 2 /\ NextArg(Under(2), Len(Under(2)))
         /\ StackOK(Under(1), st.sp) /\ Len(Under(1)) = N - 1 /\ NextArg(Under(1), Len(Under(1)))
         /\ Under(1)[N - 1] = todo[N - 1]
<1>1. /\ N > 1 /\ N \in Nat /\ N - 1 \in 1 .. N /\ todo[N - 1].kind \in kinds
      /\ ~IsMarker(todo[N]) /\ ~IsArg(todo[N])
  BY Basics, ValueOnIs
<1>2. ~IsMarker(todo[N - 1]) /\ ~IsArg(todo[N - 1])
  BY <1>1 DEF IsMarker, IsCall, IsArg
<1>3. \A i \in N - 2 + 1 .. N : i = N \/ i = N - 1
  BY <1>1
<1>4. \A i \in N - 1 + 1 .. N : i = N
  BY <1>1
<1>5. StackOK(Under(2), st.sp) /\ Len(Under(2)) = N - 2 /\ NextArg(Under(2), N - 2)
  BY <1>1, <1>2, <1>3, UnderOK
<1>6. /\ StackOK(Under(1), st.sp) /\ Len(Under(1)) = N - 1 /\ NextArg(Under(1), N - 1)
      /\ \A i \in 1 .. N - 1 : Under(1)[i] = todo[i]
  BY <1>1, <1>4, UnderOK
<1>7. N - 1 \in 1 .. N - 1
  BY <1>1
<1> QED
  BY <1>2, <1>5, <1>6, <1>7

LEMMA InfixOK ==
  ASSUME IInv, Infix
  PROVE  IInv'
<1> DEFINE left == todo[N - 1]
           r == RegOf(st, left, FALSE)
           loaded == Load(st, left, FALSE, N - 1)
           tag == IF Holds(loaded, Top) /\ Holds(st, left) THEN N - 1 ELSE Junk
           v == Value("reg", r, N - 1, left.bank, FALSE)
<1>1. ValueOn({"value"})
  BY DEF Infix
<1>2. /\ left \in Entries /\ ~IsMarker(left) /\ Top \in Entries /\ ~IsMarker(Top)
      /\ N - 1 \in Tags /\ N - 1 \in Nat /\ Junk \in Tags
  BY <1>1, ValueOnIs, TopTwo, ConstantsOK DEF Junk, Tags
<1>3. st \in At(st.sp)
  BY Basics
<1>4. PICK s \in {Use(loaded, Top), loaded} : Become(FreeExpr(Put(s, r, tag), left), Append(Under(2), v))
  BY DEF Infix
<1>5. loaded \in At(st.sp) /\ r \in Regs
  BY <1>2, <1>3, LoadOK
<1>6. tag \in Tags
  BY <1>2
<1>7. left.bank \in BothBanks
  BY <1>2, PlainHas
<1> HIDE DEF left, r, loaded, tag
<1>8. s \in At(st.sp)
  BY <1>2, <1>4, <1>5, UseOK
<1>9. FreeExpr(Put(s, r, tag), left) \in At(st.sp)
  BY <1>2, <1>6, <1>8, PutOK, FreeExprOK
<1>10. v \in Entries /\ ~IsMarker(v) /\ v.kind = "value"
  BY <1>2, <1>5, <1>7, ValueIn
<1> HIDE DEF v
<1>11. StackOK(Append(Under(2), v), st.sp)
  BY <1>1, <1>10, TopTwo, PushOK DEF IsArg
<1>12. Len(Append(Under(2), v)) <= MaxTodo
  <2>1. Len(Append(Under(2), v)) = N - 2 + 1
    BY <1>1, <1>10, TopTwo, Pushed DEF StackOK, Shape
  <2> QED
    BY <2>1, Basics, ConstantsOK
<1> QED
  BY <1>4, <1>9, <1>11, <1>12, Becomes

LEMMA ConditionOK ==
  ASSUME IInv, Condition
  PROVE  IInv'
<1> DEFINE left == todo[N - 1]
           both == Use(Load(st, left, TRUE, N - 1), Top)
           s == IF InReg(left, TRUE) THEN both ELSE Free(both, RegOf(st, left, TRUE))
<1>1. ValueOn({"value"}) /\ Become(FreeExpr(s, left), Under(2))
  BY DEF Condition
<1>2. /\ left \in Entries /\ ~IsMarker(left) /\ Top \in Entries /\ ~IsMarker(Top)
      /\ N - 1 \in Tags
  BY <1>1, ValueOnIs, TopTwo
<1>3. Load(st, left, TRUE, N - 1) \in At(st.sp) /\ RegOf(st, left, TRUE) \in Regs
  BY <1>2, Basics, LoadOK
<1>4. both \in At(st.sp)
  BY <1>2, <1>3, UseOK
<1>5. s \in At(st.sp)
  <2> HIDE DEF both, left
  <2> QED
    BY <1>3, <1>4, FreeOK
<1>6. FreeExpr(s, left) \in At(st.sp)
  <2> HIDE DEF s, left
  <2> QED
    BY <1>2, <1>5, FreeExprOK
<1>7. StackOK(Under(2), st.sp) /\ Len(Under(2)) <= MaxTodo
  BY <1>1, TopTwo, Basics, ConstantsOK
<1> HIDE DEF s, left
<1> QED
  BY <1>1, <1>6, <1>7, Becomes

LEMMA AssignOK ==
  ASSUME IInv, Assign
  PROVE  IInv'
<1>1. N > 0 /\ N \in Nat /\ N \in 1 .. N /\ Top = todo[N] /\ Top.kind = "value" /\ Top \in Entries
  BY Basics DEF Assign, TopIs, Top
<1>2. ~IsMarker(Top) /\ ~IsArg(Top)
  BY <1>1 DEF IsMarker, IsCall, IsArg
<1>3. FreeExpr(Use(st, Top), Top) \in At(st.sp)
  BY <1>1, <1>2, Basics, UseOK, FreeExprOK
<1>4. StackOK(Under(1), st.sp) /\ Len(Under(1)) = N - 1
  <2>1. 1 \in 1 .. N /\ \A i \in N - 1 + 1 .. N : i = N
    BY <1>1
  <2> QED
    BY <1>1, <1>2, <2>1, UnderOK
<1>5. Len(Under(1)) <= MaxTodo
  BY <1>1, <1>4, Basics, ConstantsOK
<1> QED
  BY <1>3, <1>4, <1>5, Becomes DEF Assign

LEMMA WordsEnough ==
  ASSUME NEW k \in Nat, k <= MaxTodo, NEW x \in Int, FrameTop <= x, x <= FrameTop + k * Most
  PROVE  x \in Words /\ x >= 2 * SpillTable
<1>1. PICK d \in Nat : MaxTodo = k + d
  BY ConstantsOK, MaxTodo = k + (MaxTodo - k)
<1>2. (k + d) * Most = k * Most + d * Most /\ k * Most \in Nat /\ d * Most \in Nat
  BY MostOK, Distributes
<1>3. PICK a \in Nat, b \in Nat : a = k * Most /\ b = d * Most
  BY <1>2
<1>4. FrameTop + (a + b) < StackWords
  BY <1>1, <1>2, <1>3, MostOK
<1> QED
  BY <1>3, <1>4, ConstantsOK DEF Words

LEMMA BegunRoom ==
  ASSUME IInv, NEW m \in Entries, IsMarker(m), m.sp = st.sp, N + 1 <= MaxTodo, NEW x \in Int,
         st.sp <= x, x <= Begun(m)
  PROVE  x \in Words /\ x >= 2 * SpillTable
<1>1. N \in Nat /\ FrameTop <= st.sp /\ st.sp <= FrameTop + N * Most /\ st.sp \in Int
  BY Basics
<1>2. Begun(m) \in Int /\ Begun(m) <= st.sp + Most
  BY MarkerHas, BegunBelow
<1>3. (N + 1) * Most = N * Most + 1 * Most /\ 1 * Most = Most /\ N * Most \in Nat
  BY <1>1, MostOK, Distributes
<1>4. PICK a \in Nat : a = N * Most
  BY <1>3
<1>5. FrameTop <= x /\ x <= FrameTop + (N + 1) * Most
  BY <1>1, <1>2, <1>3, <1>4, ConstantsOK, MostOK
<1> QED
  BY <1>1, <1>5, WordsEnough

LEMMA Shifted ==
  ASSUME NEW w, NEW s \in At(w), NEW v \in Words, v >= 2 * SpillTable
  PROVE  [s EXCEPT !.sp = v] \in At(v)
<1>1. v \in Int /\ s \in Machine /\ IsMachine(s)
  BY ConstantsOK DEF Words, At
<1>2. [s EXCEPT !.sp = v] \in Machine
  BY <1>1 DEF Machine
<1>3. [s EXCEPT !.sp = v].sp = v /\ [s EXCEPT !.sp = v].spilled = s.spilled
  BY <1>1 DEF Machine
<1> QED
  BY <1>1, <1>2, <1>3 DEF At, IsMachine

LEMMA MarkerIn ==
  ASSUME IInv, NEW kind \in {"fn", "proc", "write"}, NEW ret \in SUBSET Regs, NEW bank \in BothBanks,
         NEW saved \in SUBSET Regs, NEW params \in ArgCounts \cup {0},
         IF kind = "fn" THEN \E r \in Regs : ret = {r} ELSE ret = {}
  PROVE  LET m == Marker(kind, ret, bank, saved, params) IN
         /\ m \in Entries /\ IsMarker(m) /\ m.sp = st.sp /\ m.saved = saved /\ m.kind = kind
         /\ Begun(m) = st.sp + Cardinality(saved) + (IF kind = "write" THEN 0 ELSE StackArgs(params))
         /\ Cardinality(saved) \in Nat /\ StackArgs(params) \in Nat
<1> DEFINE m == Marker(kind, ret, bank, saved, params)
<1>1. m \in Markers /\ m.kind = kind /\ m.ret = ret /\ m.sp = st.sp /\ m.saved = saved /\ m.params = params
  BY Basics DEF Marker, Markers
<1> HIDE DEF m
<1>2. m \in Entries /\ IsMarker(m)
  BY <1>1 DEF Entries, IsMarker, IsCall
<1>3. IsCall(m) <=> kind # "write"
  BY <1>1 DEF IsCall
<1>4. Cardinality(saved) \in Nat /\ StackArgs(params) \in Nat
  BY <1>1, <1>2, MarkerHas
<1>5. Begun(m) = st.sp + Cardinality(saved) + (IF kind = "write" THEN 0 ELSE StackArgs(params))
  BY <1>1, <1>3 DEF Begun
<1> QED
  BY <1>1, <1>2, <1>4, <1>5 DEF m

LEMMA PushMarker ==
  ASSUME IInv, ExprExpected, N + 1 <= MaxTodo, NEW m \in Entries, IsMarker(m), m.sp = st.sp,
         NEW s \in At(Begun(m)), Become(s, Append(todo, m))
  PROVE  IInv'
<1>1. StackOK(Append(todo, m), Begun(m)) /\ Len(Append(todo, m)) <= MaxTodo
  <2>1. StackOK(Append(todo, m), Begun(m))
    BY Basics, ExprFits, MarkOK
  <2> QED
    BY <2>1, Basics, Pushed, ConstantsOK
<1> QED
  BY <1>1, Becomes

LEMMA CallFunctionOK ==
  ASSUME IInv, NEW p \in ArgCounts, NEW b \in Banks, CallFunction(p, b)
  PROVE  IInv'
<1> DEFINE spaced == [st EXCEPT !.sp = @ + StackArgs(p)]
           ret == {NextReg(spaced, b)}
           taken == Allocate(spaced, b)
           saved == Saved(taken, ret)
           m == Marker("fn", ret, b, saved, p)
           up == st.sp + StackArgs(p)
           n == Cardinality(saved)
<1>1. ExprExpected /\ N + 1 <= MaxTodo /\ Become(Save(taken, ret), Append(todo, m))
  BY Basics, ConstantsOK DEF CallFunction, Room
<1>2. st \in At(st.sp) /\ st.sp \in Int /\ b \in BothBanks
  BY Basics, BanksIn
<1>3. saved \in SUBSET Regs /\ ret \in SUBSET Regs /\ \E r \in Regs : ret = {r}
  <2>1. spaced \in Machine /\ IsMachine([spaced EXCEPT !.sp = st.sp])
    <3>1. StackArgs(p) \in Nat
      BY ConstantsOK DEF StackArgs
    <3>2. spaced \in Machine
      <4>1. st \in Machine /\ st.sp + StackArgs(p) \in Int
        BY <1>2, <3>1 DEF At
      <4> QED
        BY <4>1 DEF Machine
    <3>3. [spaced EXCEPT !.sp = st.sp] = st
      BY <1>2 DEF At, Machine
    <3> QED
      BY <1>2, <3>2, <3>3 DEF At
  <2>2. NextReg(spaced, b) \in Regs
    <3>1. NextReg(spaced, b) = NextReg(st, b)
      BY <1>2 DEF NextReg, FreeRegs, At, Machine
    <3> QED
      BY <1>2, <3>1, NextRegIn DEF At
  <2>3. taken.reglist \subseteq Regs
    <3>1. taken.reglist \subseteq spaced.reglist \cup {NextReg(spaced, b)}
      BY <2>1 DEF Allocate, Machine
    <3>2. spaced.reglist \subseteq Regs
      BY <2>1 DEF Machine
    <3> HIDE DEF taken, spaced
    <3> QED
      BY <2>2, <3>1, <3>2
  <2> HIDE DEF taken, spaced
  <2> QED
    BY <2>2, <2>3 DEF Saved
<1>4. /\ m \in Entries /\ IsMarker(m) /\ m.sp = st.sp /\ Begun(m) = st.sp + n + StackArgs(p)
      /\ n \in Nat /\ StackArgs(p) \in Nat
  <2> HIDE DEF ret, saved
  <2> QED
    BY <1>2, <1>3, MarkerIn
<1> HIDE DEF m
<1>5. up \in Words /\ up >= 2 * SpillTable /\ up + n \in Words /\ up + n = Begun(m)
  <2>1. up \in Int /\ up + n \in Int /\ st.sp <= up /\ st.sp <= up + n /\ up <= Begun(m) /\ up + n = Begun(m)
    BY <1>2, <1>4
  <2>2. up + n <= Begun(m)
    BY <2>1
  <2> HIDE DEF up, n
  <2> QED
    BY <1>1, <1>4, <2>1, <2>2, BegunRoom
<1>6. spaced \in At(up)
  BY <1>2, <1>5, Shifted
<1>7. taken \in At(up)
  <2> HIDE DEF spaced, up
  <2> QED
    BY <1>2, <1>6, AllocateOK
<1>8. Save(taken, ret) \in At(Begun(m))
  <2> HIDE DEF taken, up, ret
  <2> QED
    BY <1>5, <1>7, SaveOK
<1> HIDE DEF taken, ret
<1> QED
  BY <1>1, <1>4, <1>8, PushMarker

LEMMA CallProcedureOK ==
  ASSUME IInv, NEW p \in ArgCounts, CallProcedure(p)
  PROVE  IInv'
<1> DEFINE saved == Saved(st, {})
           s == Save(st, {})
           n == Cardinality(saved)
           m == Marker("proc", {}, "int", saved, p)
<1>1. ExprExpected /\ N + 1 <= MaxTodo /\ Become([s EXCEPT !.sp = @ + StackArgs(p)], Append(todo, m))
  BY Basics, ConstantsOK DEF CallProcedure, Room, ExprExpected
<1>2. st \in At(st.sp) /\ st.sp \in Int /\ saved \in SUBSET Regs
  BY Basics, SavedIn
<1>3. /\ m \in Entries /\ IsMarker(m) /\ m.sp = st.sp /\ Begun(m) = st.sp + n + StackArgs(p)
      /\ n \in Nat /\ StackArgs(p) \in Nat
  <2> HIDE DEF saved
  <2> QED
    BY <1>2, MarkerIn DEF BothBanks
<1> HIDE DEF m
<1>4. st.sp + n \in Words /\ Begun(m) \in Words /\ Begun(m) >= 2 * SpillTable
  <2>1. /\ st.sp + n \in Int /\ Begun(m) \in Int /\ st.sp <= st.sp + n /\ st.sp <= Begun(m)
        /\ st.sp + n <= Begun(m) /\ Begun(m) <= Begun(m)
    BY <1>2, <1>3
  <2> HIDE DEF n
  <2> QED
    BY <1>1, <1>3, <2>1, BegunRoom
<1>5. s \in At(st.sp + n) /\ s.sp = st.sp + n
  BY <1>2, <1>4, SaveOK DEF At
<1>6. [s EXCEPT !.sp = @ + StackArgs(p)] = [s EXCEPT !.sp = Begun(m)]
  BY <1>3, <1>5
<1>7. [s EXCEPT !.sp = Begun(m)] \in At(Begun(m))
  <2> HIDE DEF s, n
  <2> QED
    BY <1>4, <1>5, Shifted
<1> HIDE DEF s
<1> QED
  BY <1>1, <1>3, <1>6, <1>7, PushMarker

LEMMA WriteStartOK ==
  ASSUME IInv, WriteStart
  PROVE  IInv'
<1> DEFINE saved == Saved(st, {})
           s == Save(st, {})
           n == Cardinality(saved)
           m == Marker("write", {}, "int", saved, 0)
<1>1. ExprExpected /\ N + 1 <= MaxTodo /\ Become(s, Append(todo, m))
  BY Basics, ConstantsOK DEF WriteStart, Room, ExprExpected
<1>2. st \in At(st.sp) /\ st.sp \in Int /\ saved \in SUBSET Regs
  BY Basics, SavedIn
<1>3. m \in Entries /\ IsMarker(m) /\ m.sp = st.sp /\ Begun(m) = st.sp + n + 0 /\ n \in Nat
  <2> HIDE DEF saved
  <2> QED
    BY <1>2, MarkerIn DEF BothBanks
<1> HIDE DEF m
<1>4. st.sp + n = Begun(m) /\ Begun(m) \in Words
  <2>1. st.sp + n \in Int /\ st.sp <= st.sp + n /\ st.sp + n = Begun(m) /\ st.sp + n <= Begun(m)
    BY <1>2, <1>3
  <2> HIDE DEF n
  <2> QED
    BY <1>1, <1>3, <2>1, BegunRoom
<1>5. s \in At(Begun(m))
  BY <1>2, <1>4, SaveOK
<1> HIDE DEF s
<1> QED
  BY <1>1, <1>3, <1>5, PushMarker

LEMMA ArgTop ==
  ASSUME IInv, NEW kinds, kinds \subseteq {"fn", "proc", "write"}, ArgDone(kinds)
  PROVE  /\ Top \in Entries /\ ~IsMarker(Top) /\ N \in Tags /\ N \in Nat
         /\ Inner \in 1 .. N - 1 /\ IsMarker(todo[Inner]) /\ todo[Inner] \in Entries /\ todo[Inner].kind \in kinds
         /\ Passed = N - Inner /\ Passed \in Nat /\ Passed >= 1
         /\ StackOK(Under(1), st.sp) /\ Len(Under(1)) = N - 1 /\ NextArg(Under(1), Len(Under(1)))
         /\ Under(1)[Inner] = todo[Inner] /\ \A i \in Inner + 1 .. N - 1 : IsArg(Under(1)[i])
         /\ st.sp = Begun(todo[Inner]) + (IF IsCall(todo[Inner]) THEN 0 ELSE 2 * ((N - 1) - Inner))
         /\ IsCall(todo[Inner]) => Passed <= todo[Inner].params
<1>1. ValueOn({"arg"} \cup kinds) /\ todo[Inner].kind \in kinds
  BY DEF ArgDone
<1>2. /\ N > 1 /\ N \in Nat /\ N - 1 \in 1 .. N /\ Top \in Entries /\ Top = todo[N] /\ ~IsMarker(Top) /\ ~IsArg(Top)
      /\ todo[N - 1].kind \in {"arg"} \cup kinds /\ N \in Tags
  BY <1>1, ValueOnIs, Basics
<1>3. IsArg(todo[N - 1]) \/ IsMarker(todo[N - 1])
  BY <1>2 DEF IsArg, IsMarker, IsCall
<1>4. \A i \in N - 1 + 1 .. N : i = N /\ ~IsMarker(todo[i]) /\ ~IsArg(todo[i])
  BY <1>2
<1>5. Inner \in 1 .. N - 1 /\ IsMarker(todo[Inner]) /\ \A i \in Inner + 1 .. N - 1 : IsArg(todo[i])
  BY <1>2, <1>3, <1>4, ArgsOnInner
<1>6. st.sp = Begun(todo[Inner]) + (IF IsCall(todo[Inner]) THEN 0 ELSE 2 * ((N - 1) - Inner))
  BY <1>2, <1>3, <1>4, SpIsTaken
<1>7. /\ StackOK(Under(1), st.sp) /\ Len(Under(1)) = N - 1 /\ NextArg(Under(1), N - 1)
      /\ \A i \in 1 .. N - 1 : Under(1)[i] = todo[i]
  BY <1>2, <1>4, UnderOK
<1>8. Under(1)[Inner] = todo[Inner] /\ \A i \in Inner + 1 .. N - 1 : IsArg(Under(1)[i])
  <2>1. \A i \in Inner + 1 .. N - 1 : i \in 1 .. N - 1
    BY <1>2, <1>5
  <2> QED
    BY <1>5, <1>7, <2>1
<1>9. todo[Inner] \in Entries
  <2>1. Inner \in 1 .. N
    BY <1>2, <1>5
  <2> QED
    BY <2>1, Basics
<1>10. Passed = N - Inner /\ Passed \in Nat /\ Passed >= 1
  BY <1>2, <1>5 DEF Passed
<1>11. IsCall(todo[Inner]) => Passed <= todo[Inner].params
  <2>1. IsCall(todo[Inner]) => (N - 1) + 1 - Inner <= todo[Inner].params
    BY <1>5, <1>7, <1>8 DEF NextArg
  <2>2. (N - 1) + 1 - Inner = N - Inner
    BY <1>2, <1>5
  <2> QED
    BY <1>10, <2>1, <2>2
<1> QED
  BY <1>1, <1>2, <1>5, <1>6, <1>7, <1>8, <1>9, <1>10, <1>11

LEMMA PushArg ==
  ASSUME IInv, NEW kinds, kinds \subseteq {"fn", "proc", "write"}, ArgDone(kinds),
         NEW a \in Entries, IsArg(a), NEW w, w = (IF IsCall(todo[Inner]) THEN st.sp ELSE st.sp + 2),
         NEW s \in At(w), Become(s, Append(Under(1), a))
  PROVE  IInv'
<1> DEFINE q == Under(1)
<1>1. StackOK(q, st.sp) /\ Len(q) = N - 1 /\ NextArg(q, Len(q)) /\ N \in Nat
  BY ArgTop
<1>2. Inner \in 1 .. Len(q) /\ q[Inner] = todo[Inner] /\ IsMarker(q[Inner]) /\ \A i \in Inner + 1 .. Len(q) : IsArg(q[i])
  BY ArgTop
<1> HIDE DEF q
<1>3. StackOK(Append(q, a), IF IsCall(q[Inner]) THEN st.sp ELSE st.sp + 2)
  BY <1>1, <1>2, ArgOK
<1>4. StackOK(Append(q, a), w)
  BY <1>2, <1>3
<1>5. Len(Append(q, a)) <= MaxTodo
  <2>1. Len(Append(q, a)) = N - 1 + 1
    BY <1>1, Pushed DEF StackOK, Shape
  <2> QED
    BY <1>1, <2>1, Basics
<1> QED
  BY <1>4, <1>5, Becomes DEF q

LEMMA OccupyOK ==
  ASSUME NEW w, NEW s \in At(w), NEW r \in Regs
  PROVE  [s EXCEPT !.reglist = @ \cup {r}] \in At(w)
BY DEF At, IsMachine, Machine

LEMMA WriteWordOK ==
  ASSUME NEW w, NEW s \in At(w), NEW x, NEW tag \in Tags
  PROVE  [s EXCEPT !.word[x] = tag] \in At(w)
BY DEF At, IsMachine, Machine

LEMMA RegisterArgOK ==
  ASSUME IInv, RegisterArg
  PROVE  IInv'
<1> DEFINE s == FreeExpr(Put(st, ArgReg, Copy(st, Top, N)), Top)
           a == Item("arg", "reg", ArgReg, N, Top.bank, FALSE)
<1>1. /\ ArgDone({"fn", "proc"}) /\ Passed <= ArgRegs
      /\ Become([s EXCEPT !.reglist = @ \cup {ArgReg}], Append(Under(1), a))
  BY DEF RegisterArg
<1>2. /\ Top \in Entries /\ ~IsMarker(Top) /\ N \in Tags /\ N \in Nat
      /\ todo[Inner].kind \in {"fn", "proc"} /\ Passed \in Nat /\ Passed >= 1
  BY <1>1, ArgTop
<1>3. IsCall(todo[Inner])
  BY <1>2 DEF IsCall
<1>4. Top.bank \in BothBanks
  BY <1>2, PlainHas
<1>5. ArgReg \in Regs
  BY <1>1, <1>2, <1>4, ConstantsOK DEF ArgReg, First, Regs, BothBanks
<1>6. s \in At(st.sp)
  BY <1>2, Basics, CopyIn, PutOK, FreeExprOK
<1>7. a \in Entries /\ IsArg(a)
  BY <1>2, <1>4, <1>5, ArgIn
<1> HIDE DEF s, a
<1>8. [s EXCEPT !.reglist = @ \cup {ArgReg}] \in At(st.sp)
  BY <1>5, <1>6, OccupyOK
<1> QED
  BY <1>1, <1>3, <1>7, <1>8, PushArg

LEMMA ArgWordIn ==
  ASSUME IInv, ArgDone({"fn", "proc"}), Passed > ArgRegs
  PROVE  ArgWord \in Words /\ ArgWord > todo[Inner].sp /\ ArgWord <= st.sp
<1>1. /\ todo[Inner] \in Entries /\ IsMarker(todo[Inner]) /\ todo[Inner].kind \in {"fn", "proc"}
      /\ Passed \in Nat /\ Inner \in 1 .. N - 1 /\ N \in Nat
      /\ st.sp = Begun(todo[Inner]) + (IF IsCall(todo[Inner]) THEN 0 ELSE 2 * ((N - 1) - Inner))
      /\ IsCall(todo[Inner]) => Passed <= todo[Inner].params
  BY ArgTop
<1>2. IsCall(todo[Inner])
  BY <1>1 DEF IsCall
<1>3. /\ Begun(todo[Inner]) \in Int /\ todo[Inner].sp \in Int /\ todo[Inner].params \in Nat
      /\ Cardinality(todo[Inner].saved) \in Nat
      /\ Begun(todo[Inner]) = todo[Inner].sp + Cardinality(todo[Inner].saved) + StackArgs(todo[Inner].params)
  BY <1>1, <1>2, MarkerHas DEF Begun
<1>4. st.sp = Begun(todo[Inner]) /\ Passed <= todo[Inner].params
  BY <1>1, <1>2, <1>3
<1>5. StackArgs(todo[Inner].params) = todo[Inner].params - ArgRegs
  BY <1>3, <1>4, <1>1, ConstantsOK DEF StackArgs
<1>6. FrameTop <= todo[Inner].sp
  <2>1. Inner \in 1 .. Len(todo)
    BY <1>1, Basics
  <2> QED
    BY <1>1, <2>1, Basics DEF StackOK, Levels
<1>7. st.sp \in Words
  BY DEF IInv, Machined
<1> DEFINE P == Passed
           p == todo[Inner].params
           b == todo[Inner].sp
           n == Cardinality(todo[Inner].saved)
<1>8. /\ P \in Nat /\ p \in Nat /\ b \in Int /\ n \in Nat /\ P > ArgRegs /\ P <= p /\ FrameTop <= b
      /\ st.sp = b + n + (p - ArgRegs) /\ ArgWord = st.sp - (P - 1 - ArgRegs)
  BY <1>1, <1>3, <1>4, <1>5, <1>6 DEF ArgWord
<1> HIDE DEF P, p, b, n
<1>9. ArgWord \in Words /\ ArgWord > b /\ ArgWord <= st.sp
  BY <1>7, <1>8, ConstantsOK DEF Words
<1> QED
  BY <1>9 DEF b

LEMMA StackArgOK ==
  ASSUME IInv, StackArg
  PROVE  IInv'
<1> DEFINE used == Use(st, Top)
           s == FreeExpr([used EXCEPT !.word[ArgWord] = Copy(st, Top, N)], Top)
           a == Item("arg", "word", ArgWord, N, Top.bank, FALSE)
<1>1. /\ ArgDone({"fn", "proc"}) /\ Passed > ArgRegs
      /\ Become([s EXCEPT !.reglist = @ \cup {SP}], Append(Under(1), a))
  BY DEF StackArg
<1>2. /\ Top \in Entries /\ ~IsMarker(Top) /\ N \in Tags /\ N \in Nat
      /\ todo[Inner].kind \in {"fn", "proc"}
  BY <1>1, ArgTop
<1>3. IsCall(todo[Inner])
  BY <1>2 DEF IsCall
<1>4. Top.bank \in BothBanks
  BY <1>2, PlainHas
<1>5. ArgWord \in Words
  BY <1>1, ArgWordIn
<1>6. s \in At(st.sp)
  <2>1. used \in At(st.sp) /\ Copy(st, Top, N) \in Tags
    BY <1>2, Basics, UseOK, CopyIn
  <2>2. [used EXCEPT !.word[ArgWord] = Copy(st, Top, N)] \in At(st.sp)
    <3> HIDE DEF used
    <3> QED
      BY <2>1, WriteWordOK
  <2> HIDE DEF used
  <2> QED
    BY <1>2, <2>2, FreeExprOK
<1>7. a \in Entries /\ IsArg(a)
  BY <1>2, <1>4, <1>5, ArgIn
<1> HIDE DEF s, a
<1>8. [s EXCEPT !.reglist = @ \cup {SP}] \in At(st.sp)
  <2>1. SP \in Regs
    BY ConstantsOK DEF SP, Regs
  <2> QED
    BY <1>6, <2>1, OccupyOK
<1> QED
  BY <1>1, <1>3, <1>7, <1>8, PushArg

LEMMA PushIs ==
  ASSUME NEW w \in Int, NEW s \in At(w), NEW tag \in Tags, w + 1 \in Words, w + 1 >= 2 * SpillTable
  PROVE  Push(s, tag) \in At(w + 1)
<1> DEFINE v == w + 1
           up == [s EXCEPT !.sp = v]
<1>1. s.sp = w /\ s \in Machine
  BY DEF At
<1>2. up \in At(v)
  BY Shifted
<1>3. Push(s, tag) = [up EXCEPT !.word[v] = tag]
  BY <1>1 DEF Push, Machine
<1>4. [up EXCEPT !.word[v] = tag] \in At(v)
  <2> HIDE DEF up, v
  <2> QED
    BY <1>2, WriteWordOK
<1> QED
  BY <1>3, <1>4

\* The two words of an argument of WRITE.
LEMMA WriteRoom ==
  ASSUME IInv, ArgDone({"write"})
  PROVE  st.sp + 1 \in Words /\ st.sp + 2 \in Words /\ st.sp + 1 >= 2 * SpillTable /\ st.sp + 2 >= 2 * SpillTable
<1>1. N \in Nat /\ Inner \in 1 .. N - 1 /\ StackOK(Under(1), st.sp) /\ Len(Under(1)) = N - 1
  BY ArgTop
<1>2. N - 1 \in Nat
  BY <1>1
<1>3. st.sp \in Int /\ FrameTop <= st.sp /\ st.sp <= FrameTop + (N - 1) * Most
  BY <1>1, <1>2, SpBelow
<1>4. PICK k \in Nat : k = N - 1 /\ N = k + 1
  BY <1>1, <1>2
<1>5. (k + 1) * Most = k * Most + 1 * Most /\ 1 * Most = Most /\ k * Most \in Nat
  BY MostOK, Distributes
<1>6. PICK x \in Nat : x = k * Most
  BY <1>5
<1>7. /\ FrameTop <= st.sp + 1 /\ st.sp + 1 <= FrameTop + N * Most
      /\ FrameTop <= st.sp + 2 /\ st.sp + 2 <= FrameTop + N * Most
  BY <1>3, <1>4, <1>5, <1>6, MostOK, ConstantsOK
<1>8. N <= MaxTodo
  BY Basics
<1> QED
  BY <1>1, <1>3, <1>7, <1>8, WordsEnough

LEMMA WriteArgOK ==
  ASSUME IInv, WriteArg
  PROVE  IInv'
<1> DEFINE value == Push(Use(st, Top), Copy(st, Top, N))
           both == Push(Temporary(value, "int"), Junk)
           a == Item("arg", "word", st.sp + 1, N, Top.bank, FALSE)
<1>1. ArgDone({"write"}) /\ Become(FreeExpr(both, Top), Append(Under(1), a))
  BY DEF WriteArg
<1>2. /\ Top \in Entries /\ ~IsMarker(Top) /\ N \in Tags /\ N \in Nat /\ Junk \in Tags
      /\ todo[Inner].kind = "write" /\ Inner \in 1 .. N - 1
      /\ StackOK(Under(1), st.sp) /\ Len(Under(1)) = N - 1
  BY <1>1, ArgTop, ConstantsOK DEF Junk, Tags
<1>3. ~IsCall(todo[Inner])
  BY <1>2 DEF IsCall
<1>4. Top.bank \in BothBanks /\ "int" \in BothBanks
  BY <1>2, PlainHas DEF BothBanks
<1>5. /\ st.sp \in Int /\ st.sp + 1 \in Words /\ st.sp + 1 >= 2 * SpillTable
      /\ (st.sp + 1) + 1 \in Words /\ (st.sp + 1) + 1 >= 2 * SpillTable
  <2>1. st.sp \in Int /\ (st.sp + 1) + 1 = st.sp + 2
    BY Basics
  <2> QED
    BY <1>1, <2>1, WriteRoom
<1>6. value \in At(st.sp + 1)
  BY <1>2, <1>5, Basics, UseOK, CopyIn, PushIs
<1>7. both \in At((st.sp + 1) + 1)
  <2> HIDE DEF value
  <2> QED
    BY <1>2, <1>4, <1>5, <1>6, TemporaryOK, PushIs, st.sp + 1 \in Int
<1>8. FreeExpr(both, Top) \in At(st.sp + 2)
  <2>1. (st.sp + 1) + 1 = st.sp + 2
    BY <1>5
  <2> HIDE DEF both
  <2> QED
    BY <1>2, <1>7, <2>1, FreeExprOK
<1>9. a \in Entries /\ IsArg(a)
  BY <1>2, <1>4, <1>5, ArgIn
<1> HIDE DEF both, a
<1> QED
  BY <1>1, <1>3, <1>8, <1>9, PushArg

\* The end of a call or WRITE: it is dropped with its arguments.
LEMMA EndOfCall ==
  ASSUME IInv, Between
  PROVE  /\ Inner \in 1 .. N /\ todo[Inner] \in Entries /\ IsMarker(todo[Inner]) /\ Passed = N - Inner
         /\ FrameTop <= todo[Inner].sp /\ todo[Inner].sp \in Int
         /\ st.sp = Begun(todo[Inner]) + (IF IsCall(todo[Inner]) THEN 0 ELSE 2 * Passed)
         /\ StackOK(Under(1 + Passed), todo[Inner].sp) /\ Len(Under(1 + Passed)) = Inner - 1
         /\ NextArg(Under(1 + Passed), Len(Under(1 + Passed)))
<1>1. N \in Nat /\ N = Len(todo) /\ StackOK(todo, st.sp)
  BY Basics
<1>2. N \in 1 .. N /\ (IsArg(todo[N]) \/ IsMarker(todo[N])) /\ \A i \in N + 1 .. N : FALSE
  BY BetweenIs
<1>3. Inner \in 1 .. N /\ IsMarker(todo[Inner])
  BY <1>2, ArgsOnInner
<1>4. Passed = N - Inner
  BY DEF Passed
<1>5. st.sp = Begun(todo[Inner]) + (IF IsCall(todo[Inner]) THEN 0 ELSE 2 * Passed)
  BY <1>2, <1>4, SpIsTaken
<1>6. todo[Inner] \in Entries /\ todo[Inner].sp \in Int
  BY <1>3, Basics, MarkerHas
<1>7. FrameTop <= todo[Inner].sp
  BY <1>1, <1>3 DEF StackOK, Levels
<1>8. Under(1 + Passed) = SubSeq(todo, 1, Inner - 1)
  <2>1. N - (1 + Passed) = Inner - 1
    BY <1>1, <1>3, <1>4
  <2> QED
    BY <2>1 DEF Under
<1>9. /\ StackOK(SubSeq(todo, 1, Inner - 1), todo[Inner].sp) /\ Len(SubSeq(todo, 1, Inner - 1)) = Inner - 1
      /\ NextArg(SubSeq(todo, 1, Inner - 1), Inner - 1)
  BY <1>1, <1>3, DropOK
<1> QED
  BY <1>3, <1>4, <1>5, <1>6, <1>7, <1>8, <1>9

LEMMA CallOK ==
  ASSUME IInv, Call
  PROVE  IInv' /\ st'.sp = todo[Inner].sp
<1> DEFINE m == todo[Inner]
           n == Cardinality(m.saved)
           a == StackArgs(m.params)
           back == [Clobbered(st) EXCEPT !.reg = [r \in Regs |-> IF r \in m.ret THEN Inner ELSE @[r]]]
           dropped == DropArgs(back, m.params)
           after == Restore(dropped, m.saved, m.ret)
           result == {Value("reg", r, Inner, m.bank, FALSE) : r \in m.ret}
           q == Under(1 + Passed)
<1>1. Between /\ IsCall(m) /\ Become(after, q \o SetToSeq(result))
  BY DEF Call
<1>2. /\ Inner \in 1 .. N /\ m \in Entries /\ IsMarker(m) /\ FrameTop <= m.sp /\ m.sp \in Int
      /\ st.sp = Begun(m) + 0 /\ StackOK(q, m.sp) /\ Len(q) = Inner - 1 /\ NextArg(q, Len(q))
  BY <1>1, EndOfCall
<1>3. /\ m.saved \subseteq Regs /\ m.ret \subseteq Regs /\ m.bank \in BothBanks
      /\ n \in Nat /\ a \in Nat /\ Begun(m) = m.sp + n + a /\ Begun(m) \in Int
  BY <1>1, <1>2, MarkerHas DEF Begun
<1>4. N \in Nat /\ N <= MaxTodo /\ Inner \in Tags /\ Inner \in Nat /\ Junk \in Tags
  BY <1>2, Basics, ConstantsOK DEF Tags, Junk
<1>5. back \in At(st.sp)
  <2> DEFINE rg2 == [r \in Regs |-> IF r \in m.ret THEN Inner ELSE Junk]
  <2>1. rg2 \in [Regs -> Tags]
    BY <1>4
  <2>2. back = [st EXCEPT !.reg = rg2]
    BY Basics DEF Clobbered, At, Machine
  <2> HIDE DEF rg2, back
  <2> QED
    BY <2>1, <2>2, Basics DEF At, IsMachine, Machine
<1>6. dropped \in At(m.sp + n)
  <2>1. back.sp = st.sp /\ st.sp - a = m.sp + n
    <3>1. back.sp = st.sp
      BY <1>5 DEF At
    <3>2. st.sp = m.sp + n + a
      <4> HIDE DEF n, a, m
      <4> QED
        BY <1>2, <1>3
    <3> HIDE DEF n, a, m, back
    <3> QED
      BY <1>2, <1>3, <3>1, <3>2
  <2>2. dropped = [back EXCEPT !.sp = m.sp + n]
    <3> HIDE DEF back
    <3> QED
      BY <2>1 DEF DropArgs
  <2>3. m.sp + n \in Words /\ m.sp + n >= 2 * SpillTable
    <3>1. st.sp \in Words /\ m.sp + n <= st.sp
      BY <1>2, <1>3 DEF IInv, Machined
    <3> HIDE DEF n, m
    <3> QED
      BY <1>2, <1>3, <3>1, ConstantsOK DEF Words
  <2> HIDE DEF back, n, m
  <2> QED
    BY <1>5, <2>2, <2>3, Shifted
<1>7. after \in At(m.sp)
  <2>1. (m.sp + n) - n = m.sp /\ m.sp >= 2 * SpillTable
    BY <1>2, <1>3, ConstantsOK
  <2> HIDE DEF dropped, m
  <2> QED
    BY <1>3, <1>6, <2>1, RestoreOK
<1>8. StackOK(q \o SetToSeq(result), m.sp) /\ Len(q \o SetToSeq(result)) <= MaxTodo
  <2>1. q \in Seq(Entries)
    BY <1>2 DEF StackOK, Shape
  <2>2. CASE m.kind = "fn"
    <3>1. PICK r \in Regs : m.ret = {r}
      <4>1. m \notin Plain
        BY <2>2 DEF Plain
      <4> QED
        BY <1>2, <2>2, <4>1 DEF Entries
    <3> DEFINE v == Value("reg", r, Inner, m.bank, FALSE)
    <3>2. result = {v}
      <4> HIDE DEF m
      <4> QED
        BY <3>1
    <3>3. v \in Entries /\ ~IsMarker(v) /\ v.kind = "value"
      BY <1>3, <1>4, ValueIn
    <3> HIDE DEF v, result, q
    <3>4. SetToSeq(result) = <<v>>
      BY <3>2, AsSequence
    <3>5. q \o SetToSeq(result) = Append(q, v)
      BY <2>1, <3>3, <3>4
    <3>6. StackOK(Append(q, v), m.sp)
      BY <1>2, <3>3, PushOK DEF IsArg
    <3>7. Len(Append(q, v)) = Inner - 1 + 1
      BY <1>2, <2>1, <3>3, Pushed
    <3> QED
      BY <1>2, <1>4, <3>5, <3>6, <3>7, ConstantsOK
  <2>3. CASE m.kind # "fn"
    <3>1. m.ret = {}
      <4>1. m \notin Plain
        BY <1>1 DEF Plain, IsCall
      <4> QED
        BY <1>2, <2>3, <4>1 DEF Entries
    <3>2. result = {}
      BY <3>1
    <3> HIDE DEF result, q
    <3>3. SetToSeq(result) = << >>
      BY <3>2, AsSequence
    <3>4. q \o SetToSeq(result) = q
      BY <2>1, <3>3
    <3> QED
      BY <1>2, <1>4, <3>4, ConstantsOK
  <2> QED
    BY <2>2, <2>3
<1> HIDE DEF after, q, result, m
<1>9. IInv' /\ st'.sp = m.sp
  BY <1>1, <1>7, <1>8, Becomes
<1> QED
  BY <1>9 DEF m

LEMMA WriteOK ==
  ASSUME IInv, Write
  PROVE  IInv' /\ st'.sp = todo[Inner].sp
<1> DEFINE m == todo[Inner]
           n == Cardinality(m.saved)
           put == Put(Put(st, 0, Junk), 1, Junk)
           s == [put EXCEPT !.sp = @ - 2 * Passed]
           after == Restore(s, m.saved, {})
           q == Under(1 + Passed)
<1>1. Between /\ m.kind = "write" /\ Become(after, q)
  BY DEF Write
<1>2. ~IsCall(m)
  BY <1>1 DEF IsCall
<1>3. /\ Inner \in 1 .. N /\ m \in Entries /\ IsMarker(m) /\ FrameTop <= m.sp /\ m.sp \in Int
      /\ Passed = N - Inner /\ st.sp = Begun(m) + 2 * Passed /\ StackOK(q, m.sp) /\ Len(q) = Inner - 1
  BY <1>1, <1>2, EndOfCall
<1>4. N \in Nat /\ N <= MaxTodo /\ Junk \in Tags /\ st.sp \in Words
  BY Basics, ConstantsOK DEF Tags, Junk, IInv, Machined
<1>5. /\ m.saved \subseteq Regs /\ n \in Nat /\ Begun(m) = m.sp + n + 0 /\ Passed \in Nat
  BY <1>2, <1>3, <1>4, MarkerHas DEF Begun
<1>6. put \in At(st.sp)
  BY <1>4, Basics, PutOK
<1>7. s \in At(m.sp + n)
  <2>1. put.sp = st.sp /\ st.sp - 2 * Passed = m.sp + n
    BY <1>3, <1>5, <1>6 DEF At
  <2>2. s = [put EXCEPT !.sp = m.sp + n]
    <3> HIDE DEF put
    <3> QED
      BY <2>1
  <2>3. m.sp + n \in Words /\ m.sp + n >= 2 * SpillTable
    <3>1. m.sp + n <= st.sp
      BY <1>3, <1>5
    <3>2. m.sp \in Int /\ n \in Nat /\ FrameTop <= m.sp
      BY <1>3, <1>5
    <3>3. m.sp + n \in Int /\ m.sp + n >= FrameTop
      <4> HIDE DEF n, m
      <4> QED
        BY <3>2, ConstantsOK
    <3> HIDE DEF n, m, s, put
    <3> QED
      BY <1>4, <3>1, <3>3, ConstantsOK DEF Words
  <2> HIDE DEF put, n, m, s
  <2> QED
    BY <1>6, <2>2, <2>3, Shifted
<1>8. after \in At(m.sp)
  <2>1. (m.sp + n) - n = m.sp
    <3> HIDE DEF m, n
    <3> QED
      BY <1>3, <1>5
  <2>2. m.sp >= 2 * SpillTable
    BY <1>3, ConstantsOK
  <2> HIDE DEF s, m
  <2> QED
    BY <1>5, <1>7, <2>1, <2>2, RestoreOK
<1>9. Len(q) <= MaxTodo
  BY <1>3, <1>4, ConstantsOK
<1> HIDE DEF after, q, m
<1>10. IInv' /\ st'.sp = m.sp
  BY <1>1, <1>3, <1>8, <1>9, Becomes
<1> QED
  BY <1>10 DEF m

LEMMA ForStartOK ==
  ASSUME IInv, ForStart
  PROVE  IInv'
<1> DEFINE v == Item("for", "none", NextReg(st, "int"), N + 1, "int", TRUE)
<1>1. AtStatement /\ N + 2 <= MaxTodo /\ Become(Allocate(st, "int"), Append(todo, v))
  BY DEF ForStart, Room
<1>2. N \in Nat /\ st \in At(st.sp) /\ "int" \in BothBanks
  BY Basics DEF BothBanks
<1>3. NextReg(st, "int") \in Regs
  BY <1>2, NextRegIn DEF At
<1>4. v \in Entries /\ ~IsMarker(v) /\ ~IsArg(v) /\ v.kind # "stop"
  <2>1. v \in Plain
    BY <1>2, <1>3 DEF Item, Plain
  <2> QED
    BY <1>3, <2>1 DEF Item, Entries, IsMarker, IsCall, IsArg
<1> HIDE DEF v
<1>5. StackOK(Append(todo, v), st.sp)
  BY <1>1, <1>4, Basics, StatementFits, PushOK
<1>6. Len(Append(todo, v)) <= MaxTodo
  BY <1>1, <1>4, Basics, Pushed, ConstantsOK
<1> QED
  BY <1>1, <1>2, <1>5, <1>6, AllocateOK, Becomes

LEMMA ForInitOK ==
  ASSUME IInv, ForInit
  PROVE  IInv'
<1> DEFINE for == todo[N - 1]
           s == Put(st, for.reg, Copy(st, Top, N - 1))
           v == [for EXCEPT !.at = "reg"]
<1>1. ValueOn({"for"}) /\ Become(FreeExpr(s, Top), Append(Under(2), v))
  BY DEF ForInit
<1>2. /\ N > 1 /\ N \in Nat /\ N - 1 \in Tags /\ Top \in Entries /\ ~IsMarker(Top)
      /\ for \in Entries /\ for.kind = "for" /\ ~IsMarker(for)
      /\ StackOK(Under(2), st.sp) /\ Len(Under(2)) = N - 2 /\ NextArg(Under(2), Len(Under(2)))
  BY <1>1, Basics, ValueOnIs, TopTwo
<1>3. for.reg \in Regs /\ for \in Plain
  BY <1>2, PlainHas
<1>4. v \in Entries /\ ~IsMarker(v) /\ ~IsArg(v) /\ v.kind # "stop"
  <2>1. v \in Plain /\ v.kind = "for" /\ v.reg = for.reg
    <3> HIDE DEF for
    <3> QED
      BY <1>2, <1>3 DEF Plain
  <2> HIDE DEF v, for
  <2> QED
    BY <1>3, <2>1 DEF Entries, IsMarker, IsCall, IsArg
<1>5. FreeExpr(s, Top) \in At(st.sp)
  <2>1. s \in At(st.sp)
    BY <1>2, Basics, CopyIn, PutOK
  <2> HIDE DEF s
  <2> QED
    BY <1>2, <2>1, FreeExprOK
<1> HIDE DEF v, s
<1>6. StackOK(Append(Under(2), v), st.sp)
  BY <1>2, <1>4, PushOK
<1>7. Len(Append(Under(2), v)) <= MaxTodo
  <2>1. Len(Append(Under(2), v)) = N - 2 + 1
    BY <1>2, <1>4, Pushed DEF StackOK, Shape
  <2> QED
    BY <1>2, <2>1, Basics, ConstantsOK
<1> QED
  BY <1>1, <1>5, <1>6, <1>7, Becomes

LEMMA ForStopOK ==
  ASSUME IInv, ForStop
  PROVE  IInv'
<1> DEFINE r == RegOf(st, Top, FALSE)
           v == Item("stop", "reg", r, N, "int", FALSE)
<1>1. ValueOn({"for"}) /\ Become(Load(st, Top, FALSE, N), Append(Under(1), v))
  BY DEF ForStop
<1>2. /\ N > 1 /\ N \in Nat /\ N \in Tags /\ Top \in Entries /\ ~IsMarker(Top) /\ todo[N - 1].kind \in {"for"}
      /\ StackOK(Under(1), st.sp) /\ Len(Under(1)) = N - 1 /\ NextArg(Under(1), Len(Under(1)))
      /\ Under(1)[N - 1] = todo[N - 1]
  BY <1>1, Basics, ValueOnIs, TopTwo
<1>3. Load(st, Top, FALSE, N) \in At(st.sp) /\ r \in Regs
  BY <1>2, Basics, LoadOK
<1>4. v \in Entries /\ ~IsMarker(v) /\ ~IsArg(v)
  <2>1. v \in Plain
    BY <1>2, <1>3 DEF Item, Plain, BothBanks
  <2> QED
    BY <1>3, <2>1 DEF Item, Entries, IsMarker, IsCall, IsArg
<1> HIDE DEF v
<1>5. Len(Under(1)) > 0 /\ Under(1)[Len(Under(1))].kind = "for"
  BY <1>2
<1>6. StackOK(Append(Under(1), v), st.sp)
  BY <1>2, <1>4, <1>5, PushOK
<1>7. Len(Append(Under(1), v)) <= MaxTodo
  <2>1. Len(Append(Under(1), v)) = N - 1 + 1
    BY <1>2, <1>4, Pushed DEF StackOK, Shape
  <2> QED
    BY <1>2, <2>1, Basics, ConstantsOK
<1> QED
  BY <1>1, <1>3, <1>6, <1>7, Becomes

LEMMA ForEndOK ==
  ASSUME IInv, ForEnd
  PROVE  IInv'
<1> DEFINE s == Free(Free(st, todo[N - 1].reg), Top.reg)
<1>1. TopIs("stop") /\ Become(s, Under(2))
  BY DEF ForEnd
<1>2. N \in Nat /\ N > 0 /\ N \in 1 .. N /\ N = Len(todo) /\ Top = todo[N] /\ Top.kind = "stop" /\ Shape(todo)
  BY <1>1, Basics DEF TopIs, Top
<1>3. N > 1 /\ todo[N - 1].kind = "for"
  BY <1>2 DEF Shape, StopsOnFors
<1>4. N - 1 \in 1 .. N /\ Top \in Entries /\ todo[N - 1] \in Entries
  BY <1>2, <1>3, Basics
<1>5. ~IsMarker(Top) /\ ~IsArg(Top) /\ ~IsMarker(todo[N - 1]) /\ ~IsArg(todo[N - 1])
  BY <1>2, <1>3 DEF IsMarker, IsCall, IsArg
<1>6. Top.reg \in Regs /\ todo[N - 1].reg \in Regs
  BY <1>2, <1>3, <1>4, <1>5, PlainHas
<1>7. s \in At(st.sp)
  BY <1>6, Basics, FreeOK
<1>8. StackOK(Under(2), st.sp) /\ Len(Under(2)) = N - 2
  <2>1. 2 \in 1 .. N /\ \A i \in N - 2 + 1 .. N : i = N \/ i = N - 1
    BY <1>2, <1>3
  <2> QED
    BY <1>2, <1>5, <2>1, UnderOK
<1>9. Len(Under(2)) <= MaxTodo
  BY <1>2, <1>8, Basics, ConstantsOK
<1> HIDE DEF s
<1> QED
  BY <1>1, <1>7, <1>8, <1>9, Becomes

LEMMA ResetOK ==
  ASSUME Reset
  PROVE  IInv'
<1>1. st' = Fresh /\ todo' = << >> /\ orderly' = TRUE
  BY DEF Reset
<1>2. N' = 0 /\ N' <= MaxTodo
  BY <1>1, ConstantsOK DEF N
<1>3. Machined'
  BY <1>1, FreshOK DEF Machined
<1>4. Stacked'
  BY <1>1, <1>2, FreshOK DEF Stacked
<1> QED
  BY <1>1, <1>3, <1>4 DEF IInv

-----------------------------------------------------------------------------
(* Theorems *)

LEMMA StepOK == IInv /\ [Next]_vars => IInv'
<1> SUFFICES ASSUME IInv, [Next]_vars PROVE IInv'
  OBVIOUS
<1>1. CASE UNCHANGED vars
  BY <1>1 DEF vars, IInv, Machined, Stacked, N
<1>2. CASE Reset
  BY <1>2, ResetOK
<1>3. CASE Compile
  <2>1. CASE \E p \in Places, b \in Banks : Operand(p, b)
    BY <2>1, OperandOK
  <2>2. CASE \E k \in 1 .. N : Counter(k)
    BY <2>2, CounterOK
  <2>3. CASE Infix \/ Condition \/ Assign
    BY <2>3, InfixOK, ConditionOK, AssignOK
  <2>4. CASE \E p \in ArgCounts, b \in Banks : CallFunction(p, b)
    BY <2>4, CallFunctionOK
  <2>5. CASE \E p \in ArgCounts : CallProcedure(p)
    BY <2>5, CallProcedureOK
  <2>6. CASE RegisterArg \/ StackArg \/ Call
    BY <2>6, RegisterArgOK, StackArgOK, CallOK
  <2>7. CASE WriteStart \/ WriteArg \/ Write
    BY <2>7, WriteStartOK, WriteArgOK, WriteOK
  <2>8. CASE ForStart \/ ForInit \/ ForStop \/ ForEnd
    BY <2>8, ForStartOK, ForInitOK, ForStopOK, ForEndOK
  <2> QED
    BY <1>3, <2>1, <2>2, <2>3, <2>4, <2>5, <2>6, <2>7, <2>8 DEF Compile
<1> QED
  BY <1>1, <1>2, <1>3 DEF Next

LEMMA Typed == IInv => TypeOK
<1> SUFFICES ASSUME IInv PROVE TypeOK
  OBVIOUS
<1>1. st \in Machine /\ st.sp \in Words /\ \A b \in BothBanks : Len(st.spilled[b]) <= SpillTable
  BY DEF IInv, Machined, At, IsMachine
<1>2. /\ st.reglist \subseteq Regs /\ st.dead \in BOOLEAN
      /\ st.reg \in [Regs -> Tags] /\ st.word \in [Words -> Tags]
  BY <1>1 DEF Machine
<1>3. ASSUME NEW k \in 1 .. N
      PROVE  todo[k].reg \in Regs \cup Words \cup {None}
  BY <1>3, Basics DEF Entries, Plain, Markers
<1> QED
  BY <1>1, <1>2, <1>3 DEF TypeOK, BothBanks, IInv, Stacked

\* The compiler's book-keeping of registers, spilled registers, pushed words and
\* open calls stays as IInv says, whatever is compiled.
THEOREM Inductive == Spec => []IInv
<1>1. IInv /\ [Next]_vars => IInv'
  BY StepOK
<1> QED
  BY InitOK, <1>1, PTL DEF Spec

\* Registers, spill table, SP and pushed words keep to their ranges, at any depth
\* of nesting: TypeOK.
THEOREM TypeCorrect == Spec => []TypeOK
  BY Inductive, Typed, PTL

\* CompileArgumentList, RestoreRegs and the popping of arguments leave SP where
\* the call found it, whatever was pending, saved, spilled or passed on the stack
\* in between: SpComesBack.
THEOREM SpReturns == Spec => SpComesBack
<1>1. IInv /\ [Next]_vars => [Call \/ Write => st'.sp = todo[Inner].sp]_vars
  BY CallOK, WriteOK
<1> QED
  BY Inductive, <1>1, PTL DEF Spec, SpComesBack

-----------------------------------------------------------------------------
(* What registers and pushed words contain *)

\* Nothing is spilled.
Calm(s) == s.spilled = [b \in BothBanks |-> << >>]

\* No call or WRITE begins at k .. n.
Open(q, k, n) == \A i \in k .. n : ~IsMarker(q[i])

\* k's register is not to be given to anything up to n.  The register of a FOR
\* without a first value can be lost to a float operand, after which there is no
\* first value that could be an integer.
Uses(q, k, n) == q[k].at = "reg" \/ (q[k].kind = "for" /\ \A i \in k + 1 .. n : q[i].bank = "int")

\* A FOR counter read.
IsCounter(i) == i.kind = "value" /\ i.fixed

GeneralAt(q, k) ==
  /\ q[k].at = "reg" \/ q[k].kind = "for" => q[k].reg \in BankRegs(q[k].bank) \ Reserved
  /\ q[k].at = "mem" => q[k].reg \in Reserved
  /\ q[k].kind = "for" => q[k].bank = "int"
  /\ IsMarker(q[k]) =>
       /\ q[k].ret \subseteq BankRegs(q[k].bank) \ Reserved
       /\ q[k].saved \cap (Reserved \cup q[k].ret) = {}

TaggedAt(q, k) ==
  /\ (q[k].at = "reg" /\ ~IsCounter(q[k])) \/ q[k].kind = "for" \/ q[k].at = "word" => q[k].tag = k
  /\ IsCounter(q[k]) =>
       /\ q[k].at = "reg" /\ q[k].tag \in 1 .. k - 1
       /\ q[q[k].tag].kind = "for" /\ q[q[k].tag].at = "reg" /\ q[q[k].tag].reg = q[k].reg

\* A FOR stands in the body of FORs that have a first value.
OneFirstAt(q, k) ==
  \A i \in 1 .. k - 1 : q[k].kind \in {"for", "stop"} /\ q[i].kind = "for" => q[i].at = "reg"

\* Two that use one register are a counter and its FOR, or two uses of a counter.
ApartAt(q, k) ==
  \A j \in 1 .. k - 1 :
    Open(q, j + 1, k) /\ Uses(q, j, k - 1) /\ Uses(q, k, k) /\ q[j].reg = q[k].reg =>
      IsCounter(q[k]) /\ q[j].tag = q[k].tag

SavePlace(m, r) == m.sp + Cardinality({x \in m.saved : x <= r})

\* Where the n-th argument i of m is.
ArgAt(m, n, i) ==
  IF m.kind = "write" THEN i.at = "word" /\ i.reg = Begun(m) + 2 * n - 1
  ELSE IF n <= ArgRegs THEN i.at = "reg" /\ i.reg = First(i.bank) + n - 1
  ELSE i.at = "word" /\ i.reg = Begun(m) - (n - 1 - ArgRegs)

WordsAreArgsAt(q, k) == q[k].at = "word" => IsArg(q[k]) /\ q[k].reg \in Words

\* The words that what is below k names, and has saved registers in, end at sp.
BelowSp(q, k, sp) ==
  \A i \in 1 .. k - 1 :
    /\ q[i].at = "word" => q[i].reg <= sp
    /\ IsMarker(q[i]) => q[i].sp + Cardinality(q[i].saved) <= sp

LowAt(q, k) == IsMarker(q[k]) => BelowSp(q, k, q[k].sp)

PlacedAt(q, k) ==
  \A j \in 1 .. k - 1 :
    IsMarker(q[j]) /\ (\A i \in j + 1 .. k : IsArg(q[i])) => ArgAt(q[j], k - j, q[k])

\* A call saves whatever is in use when it begins.
AllSavedAt(q, k) ==
  \A i \in 1 .. k - 1 : IsMarker(q[k]) /\ Open(q, i + 1, k - 1) /\ Uses(q, i, k - 1) => q[i].reg \in q[k].saved

StaticAt(q, k) ==
  /\ GeneralAt(q, k) /\ TaggedAt(q, k) /\ OneFirstAt(q, k) /\ ApartAt(q, k)
  /\ WordsAreArgsAt(q, k) /\ LowAt(q, k) /\ PlacedAt(q, k) /\ AllSavedAt(q, k)
Static(q) == \A k \in 1 .. Len(q) : StaticAt(q, k)

\* What a call has saved is in the words it pushed.
SavedHoldAt(s, q, k) ==
  \A i \in 1 .. k - 1 :
    IsMarker(q[k]) /\ Open(q, i + 1, k - 1) /\ q[i].at = "reg" => s.word[SavePlace(q[k], q[i].reg)] = q[i].tag

SavedHold(s, q) == \A k \in 1 .. Len(q) : SavedHoldAt(s, q, k)
WordsHold(s, q) == \A k \in 1 .. Len(q) : q[k].at = "word" => s.word[q[k].reg] = q[k].tag
RegsHold(s, q) ==
  \A k \in 1 .. Len(q) : Open(q, k + 1, Len(q)) /\ q[k].at = "reg" => s.reg[q[k].reg] = q[k].tag

\* The register of a FOR stays taken until its first value comes.
ForsTaken(s, q) ==
  \A k \in 1 .. Len(q) :
    q[k].kind = "for" /\ q[k].at # "reg" /\ Open(q, k + 1, Len(q)) /\ Uses(q, k, Len(q)) => q[k].reg \in s.reglist

Held(s, q) ==
  Static(q) /\ BelowSp(q, Len(q) + 1, s.sp) /\ SavedHold(s, q) /\ WordsHold(s, q) /\ RegsHold(s, q)
Kept(s, q) == Calm(s) /\ Held(s, q) /\ ForsTaken(s, q)

OInv == orderly => Orderly /\ Kept(st, todo)

-----------------------------------------------------------------------------
(* The emitter's operations where nothing is spilled *)

CalmMachine == {s \in Machine : Calm(s)}

LEMMA CalmHas ==
  ASSUME NEW s \in CalmMachine
  PROVE  /\ s \in Machine /\ s.reglist \subseteq Regs /\ s.reg \in [Regs -> Tags] /\ s.word \in [Words -> Tags]
         /\ s.sp \in Int /\ s.spilled = [b \in BothBanks |-> << >>] /\ \A b \in BothBanks : Len(s.spilled[b]) = 0
BY DEF CalmMachine, Calm, Machine, BothBanks

LEMMA AllocateCalm ==
  ASSUME NEW s \in CalmMachine, NEW b \in BothBanks, FreeRegs(s, b) # {}
  PROVE  LET r == NextReg(s, b) IN
         /\ r \in Regs /\ r \in BankRegs(b) /\ r \notin s.reglist
         /\ Allocate(s, b) = [s EXCEPT !.reglist = @ \cup {r}]
         /\ Allocate(s, b) \in CalmMachine
<1>1. NextReg(s, b) \in FreeRegs(s, b) /\ NextReg(s, b) \in Regs
  BY FreeRegIn
<1>2. Allocate(s, b) = [s EXCEPT !.reglist = @ \cup {NextReg(s, b)}]
  BY DEF Allocate
<1>3. s.reglist \cup {NextReg(s, b)} \in SUBSET Regs
  BY <1>1, CalmHas
<1> HIDE DEF CalmMachine
<1> QED
  BY <1>1, <1>2, <1>3 DEF FreeRegs, CalmMachine, Calm, Machine

LEMMA FreeCalm ==
  ASSUME NEW s \in CalmMachine, NEW r \in Regs
  PROVE  /\ Free(s, r) = [s EXCEPT !.reglist = @ \ {r % RegCount}]
         /\ Free(s, r) \in CalmMachine
<1>1. Len(s.spilled[Bank(r)]) = 0
  BY CalmHas, NumberOf
<1>2. Free(s, r) = [s EXCEPT !.reglist = @ \ {r % RegCount}]
  BY <1>1 DEF Free
<1>3. s.reglist \ {r % RegCount} \in SUBSET Regs
  BY CalmHas
<1> QED
  BY <1>2, <1>3 DEF CalmMachine, Calm, Machine

LEMMA PutCalm ==
  ASSUME NEW s \in CalmMachine, NEW r \in Regs, NEW tag \in Tags
  PROVE  /\ Put(s, r, tag) \in CalmMachine /\ Put(s, r, tag).reg[r] = tag
         /\ \A x \in Regs \ {r} : Put(s, r, tag).reg[x] = s.reg[x]
         /\ Put(s, r, tag).reglist = s.reglist /\ Put(s, r, tag).word = s.word /\ Put(s, r, tag).sp = s.sp
<1> DEFINE rg2 == [s.reg EXCEPT ![r] = tag]
<1>1. rg2 \in [Regs -> Tags] /\ rg2[r] = tag /\ \A x \in Regs \ {r} : rg2[x] = s.reg[x]
  BY CalmHas
<1>2. Put(s, r, tag) = [s EXCEPT !.reg = rg2]
  BY CalmHas DEF Put, Machine
<1> HIDE DEF rg2
<1> QED
  BY <1>1, <1>2 DEF CalmMachine, Calm, Machine

\* An update of the machine's other parts.
LEMMA SetCalm ==
  ASSUME NEW s \in CalmMachine, NEW rl \in SUBSET Regs
  PROVE  LET t == [s EXCEPT !.reglist = rl] IN
         t \in CalmMachine /\ t.reglist = rl /\ t.reg = s.reg /\ t.word = s.word /\ t.sp = s.sp
BY DEF CalmMachine, Calm, Machine

LEMMA MoveCalm ==
  ASSUME NEW s \in CalmMachine, NEW sp \in Int
  PROVE  LET t == [s EXCEPT !.sp = sp] IN
         t \in CalmMachine /\ t.sp = sp /\ t.reg = s.reg /\ t.word = s.word /\ t.reglist = s.reglist
BY DEF CalmMachine, Calm, Machine

LEMMA WriteCalm ==
  ASSUME NEW s \in CalmMachine, NEW x \in Words, NEW tag \in Tags
  PROVE  LET t == [s EXCEPT !.word[x] = tag] IN
         /\ t \in CalmMachine /\ t.word[x] = tag /\ \A y \in Words \ {x} : t.word[y] = s.word[y]
         /\ t.reglist = s.reglist /\ t.reg = s.reg /\ t.sp = s.sp
<1> DEFINE wd2 == [s.word EXCEPT ![x] = tag]
<1>1. wd2 \in [Words -> Tags] /\ wd2[x] = tag /\ \A y \in Words \ {x} : wd2[y] = s.word[y]
  BY CalmHas
<1>2. [s EXCEPT !.word[x] = tag] = [s EXCEPT !.word = wd2]
  BY CalmHas DEF Machine
<1> HIDE DEF wd2
<1> QED
  BY <1>1, <1>2 DEF CalmMachine, Calm, Machine

\* What t has as s has it, but for registers that were not taken.
Untouched(s, t) ==
  t \in CalmMachine /\ t.word = s.word /\ t.sp = s.sp /\ \A x \in s.reglist : t.reg[x] = s.reg[x]

LEMMA AllocateKeeps ==
  ASSUME NEW s \in CalmMachine, NEW b \in BothBanks, FreeRegs(s, b) # {}
  PROVE  /\ Untouched(s, Allocate(s, b)) /\ Allocate(s, b).reg = s.reg
         /\ Allocate(s, b).reglist = s.reglist \cup {NextReg(s, b)}
<1> DEFINE rl == s.reglist \cup {NextReg(s, b)}
<1>1. rl \in SUBSET Regs /\ Allocate(s, b) = [s EXCEPT !.reglist = rl]
  BY AllocateCalm, CalmHas
<1> HIDE DEF rl
<1> QED
  BY <1>1, SetCalm DEF Untouched, rl

LEMMA FreeKeeps ==
  ASSUME NEW s \in CalmMachine, NEW r \in Regs
  PROVE  Untouched(s, Free(s, r)) /\ Free(s, r).reg = s.reg /\ Free(s, r).reglist = s.reglist \ {r % RegCount}
<1> DEFINE rl == s.reglist \ {r % RegCount}
<1>1. rl \in SUBSET Regs /\ Free(s, r) = [s EXCEPT !.reglist = rl]
  BY FreeCalm, CalmHas
<1> HIDE DEF rl
<1> QED
  BY <1>1, SetCalm DEF Untouched, rl

LEMMA TemporaryKeeps ==
  ASSUME NEW s \in CalmMachine, NEW b \in BothBanks, FreeRegs(s, b) # {}
  PROVE  LET r == NextReg(s, b) IN
         /\ Untouched(s, Temporary(s, b)) /\ r \notin s.reglist /\ r \in BankRegs(b)
         /\ Temporary(s, b).reglist = (s.reglist \cup {r}) \ {r % RegCount}
<1> DEFINE r == NextReg(s, b)
           a == Allocate(s, b)
           p == Put(a, r, Junk)
<1>1. r \in Regs /\ r \in BankRegs(b) /\ r \notin s.reglist /\ a \in CalmMachine
  BY AllocateCalm
<1>2. Untouched(s, a) /\ a.reglist = s.reglist \cup {r}
  BY AllocateKeeps
<1>3. Junk \in Tags
  BY ConstantsOK DEF Junk, Tags
<1> HIDE DEF a
<1>4. /\ p \in CalmMachine /\ p.reglist = a.reglist /\ p.word = a.word /\ p.sp = a.sp
      /\ \A x \in Regs \ {r} : p.reg[x] = a.reg[x]
  BY <1>1, <1>3, PutCalm
<1> HIDE DEF p
<1>5. Untouched(p, Free(p, r)) /\ Free(p, r).reg = p.reg /\ Free(p, r).reglist = p.reglist \ {r % RegCount}
  BY <1>1, <1>4, FreeKeeps
<1>6. Temporary(s, b) = Free(p, r)
  BY DEF Temporary, p, a
<1>7. s.reglist \subseteq Regs \ {r}
  BY <1>1, CalmHas
<1> HIDE DEF r
<1>8. Untouched(s, Free(p, r))
  BY <1>2, <1>4, <1>5, <1>7 DEF Untouched
<1> QED
  BY <1>1, <1>2, <1>4, <1>5, <1>6, <1>8 DEF r

\* With two general registers left in each bank, one is left after any allocation.
HasSpare(s) == \A b \in BothBanks : Cardinality(FreeRegs(s, b) \ Reserved) >= 2

LEMMA SpareIs ==
  ASSUME NEW s \in CalmMachine, HasSpare(s), NEW b \in BothBanks
  PROVE  /\ FreeRegs(s, b) # {} /\ NextReg(s, b) \in BankRegs(b) \ Reserved /\ NextReg(s, b) \in Regs
         /\ NextReg(s, b) \notin s.reglist
         /\ \A t, x : t.reglist \subseteq s.reglist \cup {x} => FreeRegs(t, b) # {}
<1> DEFINE free == FreeRegs(s, b) \ Reserved
<1>1. free \subseteq Regs
  BY ConstantsOK DEF FreeRegs, BankRegs, First, BothBanks, Regs
<1>2. IsFiniteSet(free) /\ Cardinality(free) >= 2
  BY <1>1, RegsFinite DEF HasSpare
<1>3. ASSUME NEW x, free \subseteq {x} PROVE FALSE
  <2>1. IsFiniteSet({x}) /\ Cardinality({x}) = 1
    BY FS_Singleton
  <2>2. Cardinality(free) <= 1
    BY <1>3, <2>1, FS_Subset
  <2> HIDE DEF free
  <2> QED
    BY <1>1, <1>2, <2>2, RegsFinite
<1>4. PICK a : a \in free
  BY <1>3
<1>5. FreeRegs(s, b) # {}
  BY <1>4
<1>6. NextReg(s, b) \in FreeRegs(s, b) /\ NextReg(s, b) <= a /\ NextReg(s, b) \in Regs
  BY <1>4, <1>5, FreeRegIn
<1>7. NextReg(s, b) \notin Reserved
  <2>1. CASE b = "int"
    BY <1>4, <1>6, <2>1, ConstantsOK DEF FreeRegs, BankRegs, First, Reserved, GP, FP, SP, Regs
  <2>2. CASE b # "int"
    BY <1>6, <2>2, ConstantsOK DEF FreeRegs, BankRegs, First, Reserved, GP, FP, SP, Regs
  <2> QED
    BY <2>1, <2>2
<1>8. ASSUME NEW t, NEW x, t.reglist \subseteq s.reglist \cup {x} PROVE FreeRegs(t, b) # {}
  <2>1. PICK y \in free : y # x
    BY <1>3
  <2> QED
    BY <1>8, <2>1 DEF FreeRegs
<1> QED
  BY <1>5, <1>6, <1>7, <1>8 DEF FreeRegs

-----------------------------------------------------------------------------
(* Saving and restoring *)

Below(rs, r) == Cardinality({x \in rs : x <= r})

LEMMA BelowIn ==
  ASSUME NEW rs, rs \subseteq Regs, NEW r \in rs
  PROVE  /\ Below(rs, r) \in 1 .. Cardinality(rs) /\ Cardinality(rs) \in Nat
         /\ \A q \in rs : q < r => Below(rs, q) < Below(rs, r)
<1>1. IsFiniteSet(rs) /\ Cardinality(rs) \in Nat /\ \A q \in rs : q \in Nat
  <2>1. \A q \in rs : q \in Nat
    BY ConstantsOK DEF Regs
  <2> QED
    BY <2>1, RegsFinite
<1>2. \A q \in rs : {x \in rs : x <= q} \in SUBSET rs
  OBVIOUS
<1>3. \A q \in rs : Below(rs, q) \in Nat /\ Below(rs, q) <= Cardinality(rs) /\ IsFiniteSet({x \in rs : x <= q})
  <2> TAKE q \in rs
  <2> QED
    BY <1>1, <1>2, RegsFinite, FS_Subset DEF Below
<1>4. ASSUME NEW q \in rs, q < r PROVE Below(rs, q) < Below(rs, r)
  <2> DEFINE low == {x \in rs : x <= q}
             up == {x \in rs : x <= r}
  <2>1. low \subseteq up /\ r \in up /\ r \notin low
    BY <1>1, <1>4
  <2>2. IsFiniteSet(up) /\ IsFiniteSet(low) /\ Cardinality(low) \in Nat /\ Cardinality(up) \in Nat
    BY <1>3 DEF Below
  <2>3. Cardinality(low) <= Cardinality(up) /\ (Cardinality(up) = Cardinality(low) => up = low)
    <3> HIDE DEF low, up
    <3> QED
      BY <2>1, <2>2, FS_Subset
  <2>4. Below(rs, q) = Cardinality(low) /\ Below(rs, r) = Cardinality(up)
    BY DEF Below
  <2> HIDE DEF low, up
  <2> QED
    BY <2>1, <2>2, <2>3, <2>4
<1>5. Below(rs, r) >= 1
  <2> DEFINE up == {x \in rs : x <= r}
  <2>1. r \in up
    BY <1>1
  <2>2. IsFiniteSet(up) /\ Below(rs, r) = Cardinality(up)
    BY <1>3 DEF Below
  <2> HIDE DEF up
  <2>3. Cardinality(up) # 0
    BY <2>1, <2>2, FS_EmptySet
  <2>4. Below(rs, r) \in Nat
    BY <1>3
  <2> QED
    BY <2>2, <2>3, <2>4
<1>6. Below(rs, r) \in Nat /\ Below(rs, r) <= Cardinality(rs)
  BY <1>3
<1>7. Below(rs, r) \in 1 .. Cardinality(rs)
  BY <1>1, <1>5, <1>6
<1> QED
  BY <1>1, <1>4, <1>7

\* No two registers share a place.
LEMMA BelowApart ==
  ASSUME NEW rs, rs \subseteq Regs, NEW r \in rs, NEW q \in rs, Below(rs, r) = Below(rs, q)
  PROVE  r = q
<1>1. r \in Nat /\ q \in Nat
  BY ConstantsOK DEF Regs
<1>2. Below(rs, r) \in Nat /\ Below(rs, q) \in Nat
  BY BelowIn
<1>3. ~(q < r) /\ ~(r < q)
  BY <1>2, BelowIn
<1> QED
  BY <1>1, <1>3

LEMMA FreeAllKeeps ==
  ASSUME NEW s \in CalmMachine, NEW rs, rs \subseteq Regs
  PROVE  Untouched(s, FreeAll(s, rs)) /\ FreeAll(s, rs).reg = s.reg
<1> DEFINE S == {t \in CalmMachine : t.reg = s.reg /\ t.word = s.word /\ t.sp = s.sp}
<1>1. \A t \in S, r \in rs : Free(t, r) \in S
  BY FreeKeeps DEF Untouched
<1>2. s \in S
  OBVIOUS
<1>3. FreeAll(s, rs) \in S
  <2> HIDE DEF S
  <2> QED
    BY <1>1, <1>2, FreeAllStays
<1> QED
  BY <1>3 DEF Untouched

\* PVMEmitSaveCallerRegs: each register saved is in a word of its own.
LEMMA SaveKeeps ==
  ASSUME NEW s \in CalmMachine, NEW ret
  PROVE  LET rs == Saved(s, ret)
             t == Save(s, ret) IN
         /\ rs \subseteq Regs /\ t \in CalmMachine /\ t.reg = s.reg /\ t.sp = s.sp + Cardinality(rs)
         /\ \A w \in Words : w <= s.sp => t.word[w] = s.word[w]
         /\ \A r \in rs : s.sp + Below(rs, r) \in Words => t.word[s.sp + Below(rs, r)] = s.reg[r]
<1> DEFINE rs == Saved(s, ret)
           n == Cardinality(rs)
           place(r) == s.sp + Below(rs, r)
           wd2 == [x \in Words |-> IF \E r \in rs : place(r) = x
                                   THEN s.reg[CHOOSE r \in rs : place(r) = x] ELSE s.word[x]]
           pushed == [s EXCEPT !.sp = @ + n, !.word = wd2]
<1>1. Save(s, ret) = FreeAll(pushed, rs)
  BY CalmHas DEF Save, Below, Machine
<1>2. rs \subseteq Regs /\ n \in Nat
  BY CalmHas, RegsFinite DEF Saved
<1>3. \A r \in rs : Below(rs, r) \in Nat /\ Below(rs, r) >= 1
  <2> HIDE DEF rs
  <2> QED
    BY <1>2, BelowIn
<1>4. ASSUME NEW r \in rs, place(r) \in Words PROVE wd2[place(r)] = s.reg[r]
  <2> DEFINE c == CHOOSE q \in rs : place(q) = place(r)
  <2>1. c \in rs /\ place(c) = place(r)
    <3> HIDE DEF place, rs
    <3> QED
      OBVIOUS
  <2> HIDE DEF c
  <2>2. Below(rs, c) = Below(rs, r)
    <3>1. Below(rs, c) \in Nat /\ Below(rs, r) \in Nat /\ s.sp \in Int
      BY <1>3, <2>1, CalmHas
    <3> HIDE DEF rs
    <3> QED
      BY <2>1, <3>1
  <2>3. c = r
    <3> HIDE DEF rs
    <3> QED
      BY <1>2, <2>1, <2>2, BelowApart
  <2>4. wd2[place(r)] = s.reg[CHOOSE q \in rs : place(q) = place(r)]
    <3> HIDE DEF place, rs
    <3> QED
      BY <1>4
  <2> QED
    BY <2>3, <2>4 DEF c
<1>5. ASSUME NEW w \in Words, w <= s.sp PROVE wd2[w] = s.word[w]
  <2>1. ASSUME NEW r \in rs PROVE place(r) # w
    <3> HIDE DEF rs
    <3> QED
      BY <1>3, <1>5, <2>1, CalmHas DEF Words
  <2> HIDE DEF rs, place
  <2> QED
    BY <2>1
<1>6. wd2 \in [Words -> Tags]
  <2>1. ASSUME NEW x \in Words PROVE wd2[x] \in Tags
    <3>1. CASE \E r \in rs : place(r) = x
      <4>1. PICK r \in rs : place(r) = x
        BY <3>1
      <4>2. wd2[x] = s.reg[r]
        <5> HIDE DEF wd2, place, rs
        <5> QED
          BY <1>4, <4>1
      <4> HIDE DEF wd2, place, rs
      <4> QED
        BY <1>2, <4>2, CalmHas
    <3>2. CASE ~ \E r \in rs : place(r) = x
      <4> HIDE DEF rs, place
      <4> QED
        BY <3>2, CalmHas
    <3> QED
      BY <3>1, <3>2
  <2> HIDE DEF place, rs
  <2> QED
    BY <2>1
<1> HIDE DEF wd2, rs, place, n
<1>7. pushed \in CalmMachine /\ pushed.reg = s.reg /\ pushed.word = wd2 /\ pushed.sp = s.sp + n
  <2>1. s.sp + n \in Int
    BY <1>2, CalmHas
  <2> QED
    BY <1>6, <2>1 DEF CalmMachine, Calm, Machine
<1> HIDE DEF pushed
<1>8. Untouched(pushed, FreeAll(pushed, rs)) /\ FreeAll(pushed, rs).reg = pushed.reg
  BY <1>2, <1>7, FreeAllKeeps
<1> QED
  BY <1>1, <1>2, <1>4, <1>5, <1>7, <1>8 DEF Untouched, rs, place, n

\* In one low half POPL and its kin fill each register from the word it went to.
LEMMA LowHalf ==
  ASSUME NEW b \in BothBanks, NEW r \in First(b) .. First(b) + Half - 1
  PROVE  /\ r \in Regs /\ Filled(r) = r
         /\ \A q \in First(b) .. First(b) + Half - 1 : PoppedBefore(q, r) <=> q > r
<1>1. Half \in Nat /\ Half > 0 /\ RegCount = 2 * Half /\ RegCount \in Nat
  BY ConstantsOK
<1>2. CASE b = "int"
  <2>1. \A q \in 0 .. Half - 1 : q \div Half = 0
    BY <1>1
  <2>2. r % Half = r /\ Bank(r) = "int" /\ First("int") = 0 /\ r \in Regs
    BY <1>1, <1>2, Remainder DEF First, Bank, Regs
  <2> QED
    BY <1>1, <1>2, <2>1, <2>2 DEF Filled, PoppedBefore
<1>3. CASE b = "flt"
  <2>1. First("flt") = Half + Half /\ Half + Half = RegCount
    BY <1>1 DEF First
  <2>2. \A i \in 0 .. Half - 1 : (Half + Half + i) \div Half = 2 /\ (Half + Half + i) % Half = i
    <3> TAKE i \in 0 .. Half - 1
    <3>1. Half + Half + i = 2 * Half + i
      BY <1>1
    <3> QED
      BY <1>1, <3>1
  <2>3. \A q \in First(b) .. First(b) + Half - 1 : \E i \in 0 .. Half - 1 : q = Half + Half + i
    <3> TAKE q \in First(b) .. First(b) + Half - 1
    <3>1. q - Half - Half \in 0 .. Half - 1 /\ q = Half + Half + (q - Half - Half)
      BY <1>1, <1>3, <2>1
    <3> QED
      BY <3>1
  <2>4. \A q \in First(b) .. First(b) + Half - 1 : q \div Half = 2
    BY <2>2, <2>3
  <2>5. PICK i \in 0 .. Half - 1 : r = Half + Half + i
    BY <2>3
  <2>6. r % Half = i /\ Bank(r) = "flt" /\ r \in Regs
    BY <1>1, <2>2, <2>5 DEF Bank, Regs
  <2>7. Filled(r) = r
    BY <1>1, <2>1, <2>5, <2>6 DEF Filled
  <2> QED
    BY <2>4, <2>6, <2>7 DEF PoppedBefore
<1> QED
  BY <1>2, <1>3 DEF BothBanks

\* PVMEmitUnsaveCallerRegs.
LEMMA RestoreKeeps ==
  ASSUME NEW s \in CalmMachine, NEW b \in BothBanks, NEW rs, rs \subseteq First(b) .. First(b) + Half - 1,
         NEW ret, ret \subseteq Regs, NEW base \in Words, s.sp = base + Cardinality(rs), s.sp \in Words
  PROVE  LET t == Restore(s, rs, ret) IN
         /\ t \in CalmMachine /\ t.sp = base /\ t.word = s.word /\ t.reglist = rs \cup Reserved \cup ret
         /\ \A x \in Regs \ rs : t.reg[x] = s.reg[x]
         /\ \A r \in rs : t.reg[r] = s.word[base + Below(rs, r)]
<1> DEFINE n == Cardinality(rs)
           before(r) == {q \in rs : PoppedBefore(q, r)}
           content(r) == s.word[s.sp - Cardinality(before(r))]
           into(x) == {r \in rs : Filled(r) = x}
           rg2 == [x \in Regs |-> IF into(x) = {} THEN s.reg[x] ELSE content(Max(into(x)))]
           rl2 == rs \cup Reserved \cup ret
<1>1. Restore(s, rs, ret) = [s EXCEPT !.sp = @ - n, !.reg = rg2, !.reglist = rl2]
  BY CalmHas DEF Restore, Machine
<1>2. \A r \in rs : r \in Regs /\ Filled(r) = r /\ \A q \in rs : PoppedBefore(q, r) <=> q > r
  BY LowHalf
<1>3. rs \subseteq Regs /\ n \in Nat /\ IsFiniteSet(rs) /\ base \in Nat
  <2>1. rs \subseteq Regs
    BY <1>2
  <2>2. base \in Nat
    BY ConstantsOK DEF Words
  <2> QED
    BY <2>1, <2>2, RegsFinite
<1>4. ASSUME NEW r \in rs PROVE content(r) = s.word[base + Below(rs, r)] /\ base + Below(rs, r) \in Words
  <2> DEFINE low == {q \in rs : q <= r}
             up == before(r)
  <2>1. up = rs \ low
    <3>1. \A q \in rs : q \in Int
      BY <1>3, ConstantsOK DEF Regs
    <3>2. \A q \in rs : q > r <=> ~(q <= r)
      BY <3>1
    <3>3. \A q \in rs : PoppedBefore(q, r) <=> q > r
      BY <1>2
    <3> QED
      BY <3>2, <3>3
  <2>2. rs \cap low = low /\ low = {q \in rs : q <= r}
    OBVIOUS
  <2>3. Below(rs, r) = Cardinality(low) /\ Below(rs, r) \in 1 .. n
    BY <1>3, BelowIn DEF Below
  <2>4. Cardinality(up) = n - Below(rs, r)
    <3>1. Cardinality(rs \ low) = Cardinality(rs) - Cardinality(rs \cap low)
      <4> HIDE DEF low
      <4> QED
        BY <1>3, FS_Difference
    <3> HIDE DEF low, up
    <3> QED
      BY <2>1, <2>2, <2>3, <3>1
  <2>5. PICK k \in 1 .. n : k = Below(rs, r)
    BY <2>3
  <2>6. s.sp - Cardinality(up) = base + k
    <3> HIDE DEF up, n
    <3> QED
      BY <1>3, <2>4, <2>5 DEF n
  <2>7. base + k \in Words
    <3> HIDE DEF n
    <3>1. base + n \in Words
      BY DEF n
    <3> QED
      BY <1>3, <2>5, <3>1, ConstantsOK DEF Words
  <2> QED
    BY <2>5, <2>6, <2>7
<1>5. ASSUME NEW r \in rs PROVE into(r) = {r} /\ rg2[r] = s.word[base + Below(rs, r)]
  <2>1. into(r) = {r}
    BY <1>2
  <2>2. Max({r}) = r
    <3>1. r \in Nat /\ {r} \subseteq 0 .. r /\ {r} # {}
      BY <1>3, ConstantsOK DEF Regs
    <3> QED
      BY <3>1, LastIn
  <2>3. rg2[r] = content(r)
    <3>1. rg2[r] = content(Max(into(r)))
      <4> HIDE DEF into, content
      <4> QED
        BY <1>3, <2>1
    <3> QED
      BY <2>1, <2>2, <3>1
  <2> QED
    BY <1>4, <2>1, <2>3
<1>6. ASSUME NEW x \in Regs \ rs PROVE rg2[x] = s.reg[x]
  <2>1. into(x) = {}
    BY <1>2
  <2> HIDE DEF into, content
  <2> QED
    BY <2>1
<1>7. rg2 \in [Regs -> Tags]
  <2>1. ASSUME NEW x \in Regs PROVE rg2[x] \in Tags
    <3>1. CASE x \in rs
      <4>1. rg2[x] = s.word[base + Below(rs, x)] /\ base + Below(rs, x) \in Words
        BY <1>4, <1>5, <3>1
      <4> HIDE DEF rg2
      <4> QED
        BY <4>1, CalmHas
    <3>2. CASE x \notin rs
      <4>1. rg2[x] = s.reg[x]
        BY <1>6, <3>2
      <4> HIDE DEF rg2
      <4> QED
        BY <4>1, CalmHas
    <3> QED
      BY <3>1, <3>2
  <2> HIDE DEF into, content
  <2> QED
    BY <2>1
<1>8. rl2 \in SUBSET Regs
  BY <1>3, ReservedIn
<1>9. s.sp - n = base
  <2> HIDE DEF n
  <2> QED
    BY <1>3 DEF n
<1> HIDE DEF rg2, rl2, n
<1>10. LET t == Restore(s, rs, ret) IN
       t \in CalmMachine /\ t.sp = base /\ t.word = s.word /\ t.reglist = rl2 /\ t.reg = rg2
  <2>1. Restore(s, rs, ret) = [s EXCEPT !.sp = base, !.reg = rg2, !.reglist = rl2]
    BY <1>1, <1>9
  <2>2. base \in Int
    BY <1>3
  <2> QED
    BY <1>7, <1>8, <2>1, <2>2 DEF CalmMachine, Calm, Machine
<1> QED
  BY <1>5, <1>6, <1>10 DEF rl2

-----------------------------------------------------------------------------
(* Operands *)

LEMMA LoadKeeps ==
  ASSUME NEW s \in CalmMachine, NEW i \in Entries, ~IsMarker(i), FreeRegs(s, i.bank) # {}, NEW ro, NEW tag \in Tags
  PROVE  LET t == Load(s, i, ro, tag)
             r == RegOf(s, i, ro) IN
         /\ Untouched(s, t) /\ r \in Regs
         /\ InReg(i, ro) => t = s /\ r = i.reg
         /\ ~InReg(i, ro) =>
              r = NextReg(s, i.bank) /\ r \in BankRegs(i.bank) /\ r \notin s.reglist /\ t.reg[r] = Copy(s, i, tag)
         /\ s.reglist \subseteq t.reglist /\ t.reglist \subseteq s.reglist \cup {r}
<1>1. i.bank \in BothBanks
  BY PlainHas
<1>2. CASE InReg(i, ro)
  <2>1. i.reg \in Regs
    BY <1>2, PlainHas DEF InReg
  <2> QED
    BY <1>2, <2>1 DEF Load, RegOf, Untouched
<1>3. CASE ~InReg(i, ro)
  <2> DEFINE r == NextReg(s, i.bank)
             a == Allocate(s, i.bank)
             c == Copy(s, i, tag)
  <2>1. r \in Regs /\ r \in BankRegs(i.bank) /\ r \notin s.reglist /\ a \in CalmMachine
    BY <1>1, AllocateCalm
  <2>2. Untouched(s, a) /\ a.reglist = s.reglist \cup {r}
    BY <1>1, AllocateKeeps
  <2>3. c \in Tags
    BY CopyIn
  <2>4. RegOf(s, i, ro) = r /\ Load(s, i, ro, tag) = Put(a, r, c)
    BY <1>3 DEF RegOf, Load
  <2>5. s.reglist \subseteq Regs
    BY CalmHas
  <2> HIDE DEF r, a, c
  <2>6. Untouched(s, Put(a, r, c)) /\ Put(a, r, c).reglist = a.reglist /\ Put(a, r, c).reg[r] = c
    BY <2>1, <2>2, <2>3, <2>5, PutCalm DEF Untouched
  <2> QED
    BY <1>3, <2>1, <2>2, <2>4, <2>6 DEF r, c
<1> QED
  BY <1>2, <1>3

LEMMA UseKeeps ==
  ASSUME NEW s \in CalmMachine, NEW i \in Entries, ~IsMarker(i), FreeRegs(s, i.bank) # {}
  PROVE  LET t == Use(s, i) IN
         /\ Untouched(s, t) /\ (i.bank = "int" => s.reglist \subseteq t.reglist)
         /\ FreeRegs(s, "int") \subseteq FreeRegs(t, "int")
<1>1. i.bank \in BothBanks
  BY PlainHas
<1>2. CASE InReg(i, TRUE)
  BY <1>2 DEF Use, Untouched
<1>3. CASE ~InReg(i, TRUE)
  <2> DEFINE r == NextReg(s, i.bank)
             t == Temporary(s, i.bank)
  <2>1. Untouched(s, t) /\ r \notin s.reglist /\ r \in BankRegs(i.bank) /\ t.reglist = (s.reglist \cup {r}) \ {r % RegCount}
    BY <1>1, TemporaryKeeps
  <2>2. Use(s, i) = t
    BY <1>3 DEF Use
  <2> HIDE DEF r, t
  <2>3. CASE i.bank = "int"
    <3>1. r \in 0 .. RegCount - 1
      BY <2>1, <2>3, ConstantsOK DEF BankRegs, First
    <3>2. r % RegCount = r
      BY <3>1, ConstantsOK, Remainder
    <3> QED
      BY <2>1, <2>2, <3>2 DEF FreeRegs
  <2>4. CASE i.bank # "int"
    <3>1. i.bank = "flt"
      BY <1>1, <2>4 DEF BothBanks
    <3>2. r \in RegCount .. RegCount + RegCount - 1
      BY <2>1, <3>1 DEF BankRegs, First
    <3>3. r \notin BankRegs("int")
      BY <3>2, ConstantsOK DEF BankRegs, First
    <3> QED
      BY <2>1, <2>2, <2>4, <3>3 DEF FreeRegs
  <2> QED
    BY <2>3, <2>4
<1> QED
  BY <1>2, <1>3

LEMMA FreeExprKeeps ==
  ASSUME NEW s \in CalmMachine, NEW i \in Entries, ~IsMarker(i)
  PROVE  LET t == FreeExpr(s, i) IN
         /\ Untouched(s, t) /\ t.reg = s.reg
         /\ \A x \in s.reglist : (i.at \in {"reg", "mem"} /\ x = i.reg % RegCount) \/ x \in t.reglist
<1>1. CASE i.at \in {"reg", "mem"}
  <2>1. i.reg \in Regs
    BY <1>1, PlainHas
  <2> QED
    BY <1>1, <2>1, FreeKeeps DEF FreeExpr
<1>2. CASE i.at \notin {"reg", "mem"}
  BY <1>2 DEF FreeExpr, Untouched
<1> QED
  BY <1>1, <1>2

-----------------------------------------------------------------------------
(* What is pending, without its top or with one more *)

\* Whether k is in order depends on no more than what is up to k.
LEMMA StaticSame ==
  ASSUME NEW p, NEW q, NEW k \in Nat, k >= 1, \A i \in 1 .. k : p[i] = q[i], StaticAt(p, k)
  PROVE  StaticAt(q, k)
<1>1. /\ k \in 1 .. k /\ p[k] = q[k] /\ \A i \in 1 .. k - 1 : i \in 1 .. k /\ p[i] = q[i]
      /\ \A i \in 1 .. k - 1 : i + 1 .. k \subseteq 1 .. k /\ i + 1 .. k - 1 \subseteq 1 .. k
  OBVIOUS
<1>2. GeneralAt(q, k) /\ WordsAreArgsAt(q, k)
  BY <1>1 DEF StaticAt, GeneralAt, WordsAreArgsAt
<1>3. TaggedAt(q, k)
  BY <1>1 DEF StaticAt, TaggedAt
<1>4. OneFirstAt(q, k)
  BY <1>1 DEF StaticAt, OneFirstAt
<1>5. \A i \in 1 .. k - 1 :
        /\ Open(q, i + 1, k) <=> Open(p, i + 1, k)
        /\ Open(q, i + 1, k - 1) <=> Open(p, i + 1, k - 1)
        /\ Uses(q, i, k - 1) <=> Uses(p, i, k - 1)
  BY <1>1 DEF Open, Uses
<1>6. Uses(q, k, k) <=> Uses(p, k, k)
  BY <1>1 DEF Uses
<1>7. ApartAt(q, k)
  BY <1>1, <1>5, <1>6 DEF StaticAt, ApartAt
<1>8. LowAt(q, k)
  BY <1>1 DEF StaticAt, LowAt, BelowSp
<1>9. PlacedAt(q, k)
  <2>1. \A i \in 1 .. k - 1 : (\A j \in i + 1 .. k : IsArg(q[j])) => \A j \in i + 1 .. k : IsArg(p[j])
    BY <1>1
  <2>2. PlacedAt(p, k)
    BY DEF StaticAt
  <2> QED
    BY <1>1, <2>1, <2>2 DEF PlacedAt
<1>10. AllSavedAt(q, k)
  BY <1>1, <1>5 DEF StaticAt, AllSavedAt
<1> QED
  BY <1>2, <1>3, <1>4, <1>7, <1>8, <1>9, <1>10 DEF StaticAt

LEMMA SavedSame ==
  ASSUME NEW s, NEW p, NEW q, NEW k \in Nat, k >= 1, \A i \in 1 .. k : p[i] = q[i], SavedHoldAt(s, p, k)
  PROVE  SavedHoldAt(s, q, k)
<1>1. /\ k \in 1 .. k /\ p[k] = q[k] /\ \A i \in 1 .. k - 1 : i \in 1 .. k /\ p[i] = q[i]
      /\ \A i \in 1 .. k - 1 : i + 1 .. k - 1 \subseteq 1 .. k
  OBVIOUS
<1>2. \A i \in 1 .. k - 1 : Open(q, i + 1, k - 1) <=> Open(p, i + 1, k - 1)
  BY <1>1 DEF Open
<1> QED
  BY <1>1, <1>2 DEF SavedHoldAt

LEMMA OpenParts ==
  ASSUME NEW q, NEW k \in Nat, NEW m \in Nat, NEW n \in Nat, k <= m + 1, m <= n, Open(q, k, m), Open(q, m + 1, n)
  PROVE  Open(q, k, n)
<1>1. \A i \in k .. n : i \in k .. m \/ i \in m + 1 .. n
  OBVIOUS
<1> QED
  BY <1>1 DEF Open

\* The top of what is pending goes, none of it a call.
LEMMA CutHeld ==
  ASSUME NEW s, NEW q \in Seq(Entries), Held(s, q), NEW m \in 0 .. Len(q), Open(q, m + 1, Len(q))
  PROVE  Held(s, SubSeq(q, 1, m))
<1> DEFINE p == SubSeq(q, 1, m)
<1>1. Len(p) = m /\ \A i \in 1 .. m : p[i] = q[i]
  BY Cut
<1>2. Len(q) \in Nat /\ m \in Nat /\ m <= Len(q)
  OBVIOUS
<1> HIDE DEF p
<1>3. ASSUME NEW k \in 1 .. m
      PROVE  /\ StaticAt(p, k) /\ SavedHoldAt(s, p, k) /\ (p[k].at = "word" => s.word[p[k].reg] = p[k].tag)
             /\ (Open(p, k + 1, m) /\ p[k].at = "reg" => s.reg[p[k].reg] = p[k].tag)
  <2>1. k \in 1 .. Len(q) /\ k \in Nat /\ k >= 1 /\ \A i \in 1 .. k : q[i] = p[i]
    BY <1>1, <1>2
  <2>2. StaticAt(q, k) /\ SavedHoldAt(s, q, k)
    BY <2>1 DEF Held, Static, SavedHold
  <2>3. StaticAt(p, k) /\ SavedHoldAt(s, p, k)
    BY <2>1, <2>2, StaticSame, SavedSame
  <2>4. Open(p, k + 1, m) => Open(q, k + 1, Len(q))
    <3>1. \A i \in k + 1 .. m : p[i] = q[i]
      BY <1>1, <1>2
    <3> QED
      BY <1>2, <2>1, <3>1, OpenParts DEF Open
  <2>5. p[k].at = "word" => s.word[p[k].reg] = p[k].tag
    BY <2>1, <1>1 DEF Held, WordsHold
  <2>6. Open(p, k + 1, m) /\ p[k].at = "reg" => s.reg[p[k].reg] = p[k].tag
    BY <2>1, <2>4, <1>1 DEF Held, RegsHold
  <2> QED
    BY <2>3, <2>5, <2>6
<1>4. Static(p) /\ SavedHold(s, p) /\ WordsHold(s, p) /\ RegsHold(s, p)
  BY <1>1, <1>3 DEF Static, SavedHold, WordsHold, RegsHold
<1>5. BelowSp(p, Len(p) + 1, s.sp)
  <2>1. \A i \in 1 .. m + 1 - 1 : i \in 1 .. m /\ i \in 1 .. Len(q) + 1 - 1
    BY <1>2
  <2> QED
    BY <1>1, <2>1 DEF Held, BelowSp
<1> QED
  BY <1>4, <1>5 DEF Held, p

-----------------------------------------------------------------------------
(* Words *)

\* The words that hold what is pending.
Place(q, w) ==
  \E k \in 1 .. Len(q) : \/ q[k].at = "word" /\ q[k].reg = w
                         \/ IsMarker(q[k]) /\ \E r \in q[k].saved : SavePlace(q[k], r) = w

LEMMA SavePlaceIn ==
  ASSUME NEW m \in Entries, IsMarker(m), NEW r \in m.saved
  PROVE  /\ SavePlace(m, r) = m.sp + Below(m.saved, r) /\ SavePlace(m, r) \in Int
         /\ SavePlace(m, r) > m.sp /\ SavePlace(m, r) <= m.sp + Cardinality(m.saved)
<1>1. m.saved \subseteq Regs /\ m.sp \in Int
  BY MarkerHas
<1>2. Below(m.saved, r) \in 1 .. Cardinality(m.saved) /\ Cardinality(m.saved) \in Nat
  BY <1>1, BelowIn
<1>3. SavePlace(m, r) = m.sp + Below(m.saved, r)
  BY DEF SavePlace, Below
<1>4. PICK b \in Nat : b = Below(m.saved, r) /\ b >= 1 /\ b <= Cardinality(m.saved)
  BY <1>2
<1> QED
  BY <1>1, <1>2, <1>3, <1>4

\* None lies above SP.
LEMMA PlacesBelow ==
  ASSUME NEW q \in Seq(Entries), Levels(q), Static(q), NEW sp \in Words, BelowSp(q, Len(q) + 1, sp), NEW w, Place(q, w)
  PROVE  w \in Words /\ w <= sp
<1>1. PICK k \in 1 .. Len(q) : \/ q[k].at = "word" /\ q[k].reg = w
                               \/ IsMarker(q[k]) /\ \E r \in q[k].saved : SavePlace(q[k], r) = w
  BY DEF Place
<1>2. k \in 1 .. Len(q) + 1 - 1 /\ q[k] \in Entries
  OBVIOUS
<1>3. CASE q[k].at = "word" /\ q[k].reg = w
  BY <1>2, <1>3 DEF Static, StaticAt, WordsAreArgsAt, BelowSp
<1>4. CASE IsMarker(q[k]) /\ \E r \in q[k].saved : SavePlace(q[k], r) = w
  <2>1. PICK r \in q[k].saved : SavePlace(q[k], r) = w
    BY <1>4
  <2>2. w \in Int /\ w > q[k].sp /\ w <= q[k].sp + Cardinality(q[k].saved)
    BY <1>2, <1>4, <2>1, SavePlaceIn
  <2>3. q[k].sp + Cardinality(q[k].saved) <= sp
    BY <1>2, <1>4 DEF BelowSp
  <2>4. FrameTop <= q[k].sp /\ q[k].sp \in Int /\ Cardinality(q[k].saved) \in Nat
    BY <1>2, <1>4, MarkerHas DEF Levels
  <2> QED
    BY <2>2, <2>3, <2>4, ConstantsOK DEF Words
<1> QED
  BY <1>1, <1>3, <1>4

LEMMA BelowMore ==
  ASSUME NEW q \in Seq(Entries), Static(q), NEW x \in Words, NEW y \in Words, x <= y, BelowSp(q, Len(q) + 1, x)
  PROVE  BelowSp(q, Len(q) + 1, y)
<1> SUFFICES ASSUME NEW i \in 1 .. Len(q) + 1 - 1
             PROVE  /\ q[i].at = "word" => q[i].reg <= y
                    /\ IsMarker(q[i]) => q[i].sp + Cardinality(q[i].saved) <= y
  BY DEF BelowSp
<1>1. i \in 1 .. Len(q) /\ q[i] \in Entries /\ x \in Nat /\ y \in Nat
  BY ConstantsOK DEF Words
<1>2. ASSUME q[i].at = "word" PROVE q[i].reg <= y
  <2>1. q[i].reg \in Nat
    BY <1>1, <1>2, ConstantsOK DEF Static, StaticAt, WordsAreArgsAt, Words
  <2>2. q[i].reg <= x
    BY <1>2 DEF BelowSp
  <2> QED
    BY <1>1, <2>1, <2>2
<1>3. ASSUME IsMarker(q[i]) PROVE q[i].sp + Cardinality(q[i].saved) <= y
  <2>1. q[i].sp \in Int /\ Cardinality(q[i].saved) \in Nat
    BY <1>1, <1>3, MarkerHas
  <2>2. q[i].sp + Cardinality(q[i].saved) <= x
    BY <1>3 DEF BelowSp
  <2> QED
    BY <1>1, <2>1, <2>2
<1> QED
  BY <1>2, <1>3

\* The saved and pushed hold as long as their words are as they were.
LEMMA WordsKept ==
  ASSUME NEW q \in Seq(Entries), Static(q), NEW s, NEW t, SavedHold(s, q), WordsHold(s, q),
         \A w : Place(q, w) => t.word[w] = s.word[w]
  PROVE  SavedHold(t, q) /\ WordsHold(t, q)
<1>1. WordsHold(t, q)
  <2> SUFFICES ASSUME NEW k \in 1 .. Len(q), q[k].at = "word" PROVE t.word[q[k].reg] = q[k].tag
    BY DEF WordsHold
  <2>1. Place(q, q[k].reg)
    BY DEF Place
  <2> QED
    BY <2>1 DEF WordsHold
<1>2. SavedHold(t, q)
  <2> SUFFICES ASSUME NEW k \in 1 .. Len(q), NEW i \in 1 .. k - 1, IsMarker(q[k]), Open(q, i + 1, k - 1), q[i].at = "reg"
               PROVE  t.word[SavePlace(q[k], q[i].reg)] = q[i].tag
    BY DEF SavedHold, SavedHoldAt
  <2>1. s.word[SavePlace(q[k], q[i].reg)] = q[i].tag
    BY DEF SavedHold, SavedHoldAt
  <2>2. q[i].reg \in q[k].saved
    BY DEF Static, StaticAt, AllSavedAt, Uses
  <2>3. Place(q, SavePlace(q[k], q[i].reg))
    BY <2>2 DEF Place
  <2> QED
    BY <2>1, <2>3
<1> QED
  BY <1>1, <1>2

\* What is pending is held by a machine with these words and registers too.
LEMMA HeldOn ==
  ASSUME NEW q \in Seq(Entries), NEW s, NEW t, Held(s, q), BelowSp(q, Len(q) + 1, t.sp),
         \A w : Place(q, w) => t.word[w] = s.word[w],
         \A k \in 1 .. Len(q) : Open(q, k + 1, Len(q)) /\ q[k].at = "reg" => t.reg[q[k].reg] = s.reg[q[k].reg]
  PROVE  Held(t, q)
<1>1. Static(q) /\ BelowSp(q, Len(q) + 1, t.sp) /\ SavedHold(s, q) /\ WordsHold(s, q) /\ RegsHold(s, q)
  BY DEF Held
<1>2. SavedHold(t, q) /\ WordsHold(t, q)
  BY <1>1, WordsKept
<1>3. RegsHold(t, q)
  BY <1>1 DEF RegsHold
<1> QED
  BY <1>1, <1>2, <1>3 DEF Held

LEMMA InRegIs ==
  ASSUME NEW i \in Entries, i.at = "reg"
  PROVE  i.reg \in Regs /\ ~IsMarker(i) /\ i.bank \in BothBanks
<1>1. i \notin Markers
  BY DEF Markers
<1>2. i \in Plain /\ i.reg \in Regs
  BY <1>1 DEF Entries
<1> QED
  BY <1>2 DEF Plain, IsMarker, IsCall

\* One more that is no call, where it is in order and held.
LEMMA PushHeld ==
  ASSUME NEW q \in Seq(Entries), NEW t, Held(t, q), NEW v \in Entries, ~IsMarker(v),
         StaticAt(Append(q, v), Len(q) + 1),
         v.at = "reg" => t.reg[v.reg] = v.tag,
         v.at = "word" => v.reg <= t.sp /\ t.word[v.reg] = v.tag
  PROVE  Held(t, Append(q, v))
<1> DEFINE p == Append(q, v)
           n == Len(q)
<1>1. n \in Nat /\ Len(p) = n + 1 /\ p[n + 1] = v /\ \A i \in 1 .. n : p[i] = q[i]
  BY Pushed
<1>2. \A k \in 1 .. n + 1 : k \in 1 .. n \/ k = n + 1
  BY <1>1
<1>3. StaticAt(p, n + 1)
  OBVIOUS
<1>4. Held(t, q) /\ Static(q) /\ BelowSp(q, n + 1, t.sp) /\ SavedHold(t, q) /\ WordsHold(t, q) /\ RegsHold(t, q)
  BY DEF Held
<1> HIDE DEF p
<1>5. ASSUME NEW k \in 1 .. n
      PROVE  /\ StaticAt(p, k) /\ SavedHoldAt(t, p, k) /\ (p[k].at = "word" => t.word[p[k].reg] = p[k].tag)
             /\ (Open(p, k + 1, n + 1) /\ p[k].at = "reg" => t.reg[p[k].reg] = p[k].tag)
  <2>1. k \in Nat /\ k >= 1 /\ \A i \in 1 .. k : q[i] = p[i]
    BY <1>1
  <2>2. StaticAt(q, k) /\ SavedHoldAt(t, q, k)
    BY <1>4 DEF Static, SavedHold
  <2>3. StaticAt(p, k) /\ SavedHoldAt(t, p, k)
    BY <2>1, <2>2, StaticSame, SavedSame
  <2>4. Open(p, k + 1, n + 1) => Open(q, k + 1, n)
    BY <1>1 DEF Open
  <2>5. (p[k].at = "word" => t.word[p[k].reg] = p[k].tag)
    BY <1>1, <1>4 DEF WordsHold
  <2>6. (Open(p, k + 1, n + 1) /\ p[k].at = "reg" => t.reg[p[k].reg] = p[k].tag)
    BY <1>1, <1>4, <2>4 DEF RegsHold
  <2> QED
    BY <2>3, <2>5, <2>6
<1>6. Static(p) /\ WordsHold(t, p) /\ RegsHold(t, p)
  BY <1>1, <1>2, <1>3, <1>5 DEF Static, WordsHold, RegsHold
<1>7. SavedHold(t, p)
  <2>1. SavedHoldAt(t, p, n + 1)
    BY <1>1 DEF SavedHoldAt
  <2> QED
    BY <1>1, <1>2, <1>5, <2>1 DEF SavedHold
<1>8. BelowSp(p, Len(p) + 1, t.sp)
  <2>1. \A i \in 1 .. Len(p) + 1 - 1 : (i \in 1 .. n + 1 - 1 /\ i \in 1 .. n) \/ i = n + 1
    BY <1>1
  <2> QED
    BY <1>1, <1>4, <2>1 DEF BelowSp
<1> QED
  BY <1>6, <1>7, <1>8 DEF Held, p

\* A call begins.
LEMMA MarkHeld ==
  ASSUME NEW q \in Seq(Entries), NEW t, NEW m \in Entries, IsMarker(m), m.at = "none",
         Static(q), SavedHold(t, q), WordsHold(t, q), BelowSp(q, Len(q) + 1, t.sp),
         StaticAt(Append(q, m), Len(q) + 1), SavedHoldAt(t, Append(q, m), Len(q) + 1),
         m.sp + Cardinality(m.saved) <= t.sp
  PROVE  Held(t, Append(q, m)) /\ ForsTaken(t, Append(q, m))
<1> DEFINE p == Append(q, m)
           n == Len(q)
<1>1. n \in Nat /\ Len(p) = n + 1 /\ p[n + 1] = m /\ \A i \in 1 .. n : p[i] = q[i]
  BY Pushed
<1>2. \A k \in 1 .. n + 1 : k \in 1 .. n \/ k = n + 1
  BY <1>1
<1>3. StaticAt(p, n + 1) /\ SavedHoldAt(t, p, n + 1)
  OBVIOUS
<1> HIDE DEF p
<1>4. ASSUME NEW k \in 1 .. n PROVE StaticAt(p, k) /\ SavedHoldAt(t, p, k) /\ ~Open(p, k + 1, n + 1)
  <2>1. k \in Nat /\ k >= 1 /\ \A i \in 1 .. k : q[i] = p[i]
    BY <1>1
  <2>2. StaticAt(q, k) /\ SavedHoldAt(t, q, k)
    BY DEF Static, SavedHold
  <2>3. n + 1 \in k + 1 .. n + 1
    BY <1>1
  <2> QED
    BY <1>1, <2>1, <2>2, <2>3, StaticSame, SavedSame DEF Open
<1>5. Static(p) /\ SavedHold(t, p) /\ WordsHold(t, p)
  <2>1. \A k \in 1 .. n + 1 : StaticAt(p, k) /\ SavedHoldAt(t, p, k)
    BY <1>2, <1>3, <1>4
  <2>2. \A k \in 1 .. n + 1 : p[k].at = "word" => t.word[p[k].reg] = p[k].tag
    BY <1>1, <1>2 DEF WordsHold
  <2> QED
    BY <1>1, <2>1, <2>2 DEF Static, SavedHold, WordsHold
<1>6. RegsHold(t, p)
  BY <1>1, <1>2, <1>4 DEF RegsHold
<1>7. ForsTaken(t, p)
  <2>1. m.kind # "for"
    BY DEF IsMarker, IsCall
  <2> QED
    BY <1>1, <1>2, <1>4, <2>1 DEF ForsTaken
<1>8. BelowSp(p, Len(p) + 1, t.sp)
  <2>1. \A i \in 1 .. Len(p) + 1 - 1 : (i \in 1 .. n + 1 - 1 /\ i \in 1 .. n) \/ i = n + 1
    BY <1>1
  <2> QED
    BY <1>1, <2>1 DEF BelowSp
<1> QED
  BY <1>5, <1>6, <1>7, <1>8 DEF Held, p

\* What no longer means anything was not needed.
LEMMA Settles ==
  ASSUME NEW t \in CalmMachine, NEW q, StackOK(q, t.sp), t.sp \in Words, Kept(t, q)
  PROVE  Kept(Forget(t, Len(q)), q)
<1> DEFINE n == Len(q)
           f == Forget(t, n)
<1>1. q \in Seq(Entries) /\ n \in Nat /\ Levels(q)
  BY DEF StackOK, Shape
<1>2. /\ f.reglist = t.reglist /\ f.spilled = t.spilled /\ f.sp = t.sp
      /\ \A r \in Regs : t.reg[r] <= n => f.reg[r] = t.reg[r]
      /\ \A w \in Words : w <= t.sp /\ t.word[w] <= n => f.word[w] = t.word[w]
  <2>1. t.reg \in [Regs -> Tags] /\ t.word \in [Words -> Tags] /\ t.sp \in Int
    BY CalmHas
  <2>2. \A w \in Words : w \in Nat
    BY ConstantsOK DEF Words
  <2>3. \A r \in Regs : t.reg[r] \in Nat
    BY <2>1, ConstantsOK DEF Tags
  <2>4. \A w \in Words : t.word[w] \in Nat
    BY <2>1, ConstantsOK DEF Tags
  <2>5. f.reg = [r \in Regs |-> IF t.reg[r] > n THEN Junk ELSE t.reg[r]]
    BY <2>1 DEF Forget, CalmMachine, Machine
  <2>6. f.word = [w \in Words |-> IF t.word[w] > n \/ w > t.sp THEN Junk ELSE t.word[w]]
    BY <2>1 DEF Forget, CalmMachine, Machine
  <2>7. f.reglist = t.reglist /\ f.spilled = t.spilled /\ f.sp = t.sp
    BY DEF Forget, CalmMachine, Machine
  <2> HIDE DEF f, n
  <2>8. \A r \in Regs : t.reg[r] <= n => f.reg[r] = t.reg[r]
    BY <1>1, <2>3, <2>5
  <2>9. \A w \in Words : w <= t.sp /\ t.word[w] <= n => f.word[w] = t.word[w]
    BY <1>1, <2>1, <2>2, <2>4, <2>6
  <2> QED
    BY <2>7, <2>8, <2>9
<1> HIDE DEF f
<1>3. /\ Static(q) /\ BelowSp(q, n + 1, t.sp) /\ SavedHold(t, q) /\ WordsHold(t, q) /\ RegsHold(t, q)
      /\ ForsTaken(t, q) /\ Calm(t)
  BY DEF Kept, Held
<1>4. \A k \in 1 .. n : q[k].at \in {"reg", "word"} => q[k].tag \in 1 .. k /\ q[k].tag <= n
  <2> SUFFICES ASSUME NEW k \in 1 .. n, q[k].at \in {"reg", "word"} PROVE q[k].tag \in 1 .. k /\ q[k].tag <= n
    OBVIOUS
  <2>1. q[k].tag \in 1 .. k
    BY <1>1, <1>3 DEF Static, StaticAt, TaggedAt
  <2> QED
    BY <1>1, <2>1
<1>5. \A w : Place(q, w) => w \in Words /\ w <= t.sp
  BY <1>1, <1>3, PlacesBelow
<1>6. RegsHold(f, q)
  <2> SUFFICES ASSUME NEW k \in 1 .. n, Open(q, k + 1, n), q[k].at = "reg" PROVE f.reg[q[k].reg] = q[k].tag
    BY DEF RegsHold
  <2>1. t.reg[q[k].reg] = q[k].tag
    BY <1>3 DEF RegsHold
  <2>2. q[k].reg \in Regs
    BY <1>1, InRegIs
  <2> QED
    BY <1>2, <1>4, <2>1, <2>2
<1>7. WordsHold(f, q)
  <2> SUFFICES ASSUME NEW k \in 1 .. n, q[k].at = "word" PROVE f.word[q[k].reg] = q[k].tag
    BY DEF WordsHold
  <2>1. t.word[q[k].reg] = q[k].tag
    BY <1>3 DEF WordsHold
  <2>2. Place(q, q[k].reg)
    BY DEF Place
  <2> QED
    BY <1>2, <1>4, <1>5, <2>1, <2>2
<1>8. SavedHold(f, q)
  <2> SUFFICES ASSUME NEW k \in 1 .. n, NEW i \in 1 .. k - 1, IsMarker(q[k]), Open(q, i + 1, k - 1), q[i].at = "reg"
               PROVE  f.word[SavePlace(q[k], q[i].reg)] = q[i].tag
    BY DEF SavedHold, SavedHoldAt
  <2>1. t.word[SavePlace(q[k], q[i].reg)] = q[i].tag
    BY <1>3 DEF SavedHold, SavedHoldAt
  <2>2. q[i].reg \in q[k].saved
    BY <1>3 DEF Static, StaticAt, AllSavedAt, Uses
  <2>3. Place(q, SavePlace(q[k], q[i].reg))
    BY <2>2 DEF Place
  <2>4. q[i].tag <= n
    BY <1>1, <1>4
  <2> QED
    BY <1>2, <1>5, <2>1, <2>3, <2>4
<1>9. ForsTaken(f, q) /\ Calm(f)
  BY <1>2, <1>3 DEF ForsTaken, Calm
<1> QED
  BY <1>2, <1>3, <1>6, <1>7, <1>8, <1>9 DEF Kept, Held, f

-----------------------------------------------------------------------------
(* Before and after a step *)

LEMMA Ready ==
  ASSUME IInv, OInv, orderly
  PROVE  /\ st \in CalmMachine /\ HasSpare(st) /\ Held(st, todo) /\ ForsTaken(st, todo) /\ Static(todo)
         /\ st.sp \in Words /\ \A b \in BothBanks : FreeRegs(st, b) # {}
         /\ \A k \in 1 .. N : Open(todo, k + 1, N) /\ Uses(todo, k, N) => todo[k].reg \in st.reglist
<1>1. Orderly /\ Kept(st, todo)
  BY DEF OInv
<1>2. st \in Machine /\ st.sp \in Words
  BY DEF IInv, Machined, At
<1>3. st \in CalmMachine
  BY <1>1, <1>2 DEF Kept, CalmMachine
<1>4. HasSpare(st)
  BY <1>1 DEF Orderly, Spare, HasSpare, BothBanks
<1>5. \A b \in BothBanks : FreeRegs(st, b) # {}
  BY <1>3, <1>4, SpareIs
<1>6. ASSUME NEW k \in 1 .. N, Open(todo, k + 1, N), Uses(todo, k, N) PROVE todo[k].reg \in st.reglist
  <2>1. CASE todo[k].at = "reg"
    <3>1. Live(k)
      BY <1>6, <2>1 DEF Live, Open
    <3> QED
      BY <1>1, <3>1 DEF Orderly, Owned
  <2>2. CASE todo[k].at # "reg"
    <3>1. ForsTaken(st, todo)
      BY <1>1 DEF Kept
    <3> QED
      BY <1>6, <2>2, <3>1 DEF ForsTaken, Uses, N
  <2> QED
    BY <2>1, <2>2
<1> QED
  BY <1>1, <1>2, <1>3, <1>4, <1>5, <1>6 DEF Kept, Held

LEMMA BecomesKept ==
  ASSUME IInv', NEW t \in CalmMachine, t.sp \in Words, NEW q, Become(t, q),
         orderly /\ Orderly' => Kept(t, q)
  PROVE  OInv'
<1>1. st' = Forget(t, Len(q)) /\ todo' = q /\ orderly' = (orderly /\ Orderly')
  BY DEF Become
<1>2. st'.sp = t.sp
  BY <1>1 DEF Forget, CalmMachine, Machine
<1>3. StackOK(q, t.sp)
  BY <1>1, <1>2 DEF IInv, Stacked
<1>4. ASSUME orderly' PROVE Orderly' /\ Kept(st', todo')
  BY <1>1, <1>3, <1>4, Settles
<1> QED
  BY <1>4 DEF OInv

\* The top c go, none of them a call, and the machine still has what it had taken.
LEMMA UnderHeld ==
  ASSUME IInv, OInv, orderly, NEW c \in 0 .. N, Open(todo, N - c + 1, N), NEW t \in CalmMachine, t.sp = st.sp, t.word = st.word,
         \A k \in 1 .. N - c : Open(todo, k + 1, N) /\ todo[k].at = "reg" => t.reg[todo[k].reg] = st.reg[todo[k].reg]
  PROVE  Held(t, Under(c)) /\ Calm(t) /\ Under(c) \in Seq(Entries)
<1>1. N \in Nat /\ N = Len(todo) /\ todo \in Seq(Entries)
  BY Basics
<1>2. Held(st, todo)
  BY Ready
<1>3. N - c \in 0 .. Len(todo) /\ Under(c) = SubSeq(todo, 1, N - c)
  BY <1>1 DEF Under
<1>4. Held(st, Under(c)) /\ Under(c) \in Seq(Entries) /\ Len(Under(c)) = N - c /\ \A i \in 1 .. N - c : Under(c)[i] = todo[i]
  BY <1>1, <1>2, <1>3, CutHeld, Cut
<1>5. ASSUME NEW k \in 1 .. Len(Under(c)), Open(Under(c), k + 1, Len(Under(c))), Under(c)[k].at = "reg"
      PROVE  t.reg[Under(c)[k].reg] = st.reg[Under(c)[k].reg]
  <2>1. k \in 1 .. N - c /\ k + 1 \in Nat /\ N - c \in Nat /\ N \in Nat /\ k + 1 <= N - c + 1 /\ N - c <= N
    BY <1>1, <1>4
  <2>2. Open(todo, k + 1, N - c)
    <3>1. \A i \in k + 1 .. N - c : i \in 1 .. N - c
      BY <2>1
    <3> QED
      BY <1>4, <1>5, <3>1 DEF Open
  <2>3. Open(todo, k + 1, N)
    BY <2>1, <2>2, OpenParts
  <2> QED
    BY <1>4, <1>5, <2>1, <2>3
<1>6. \A w : Place(Under(c), w) => t.word[w] = st.word[w]
  OBVIOUS
<1>7. Held(t, Under(c))
  <2>1. BelowSp(Under(c), Len(Under(c)) + 1, t.sp)
    BY <1>4 DEF Held
  <2> QED
    BY <1>4, <1>5, <1>6, <2>1, HeldOn
<1> QED
  BY <1>4, <1>7 DEF CalmMachine

\* One more that is no argument, where nothing else uses its register.
LEMMA NewStatic ==
  ASSUME NEW p \in Seq(Entries), NEW v \in Entries, ~IsMarker(v), ~IsArg(v), ~IsCounter(v), v.at # "word",
         v.at = "reg" \/ v.kind = "for" => v.reg \in BankRegs(v.bank) \ Reserved /\ v.tag = Len(p) + 1,
         v.at = "mem" => v.reg \in Reserved,
         v.kind = "for" => v.bank = "int",
         v.kind \in {"for", "stop"} => \A i \in 1 .. Len(p) : p[i].kind = "for" => p[i].at = "reg",
         v.at = "reg" \/ v.kind = "for" =>
           \A j \in 1 .. Len(p) : Open(p, j + 1, Len(p)) /\ Uses(p, j, Len(p)) => p[j].reg # v.reg
  PROVE  StaticAt(Append(p, v), Len(p) + 1)
<1> DEFINE q == Append(p, v)
           n == Len(p) + 1
<1>1. Len(p) \in Nat /\ n \in Nat /\ n - 1 = Len(p) /\ q[n] = v /\ \A i \in 1 .. n - 1 : q[i] = p[i] /\ i \in 1 .. Len(p)
  BY Pushed
<1>2. \A i \in 1 .. n - 1 : n \in i + 1 .. n
  BY <1>1
<1>3. \A j \in 1 .. n - 1 : /\ Open(q, j + 1, n) => Open(p, j + 1, Len(p))
                            /\ Uses(q, j, n - 1) => Uses(p, j, Len(p))
  BY <1>1 DEF Open, Uses
<1> HIDE DEF q, n
<1>4. GeneralAt(q, n) /\ TaggedAt(q, n) /\ OneFirstAt(q, n) /\ WordsAreArgsAt(q, n)
  BY <1>1 DEF GeneralAt, TaggedAt, OneFirstAt, WordsAreArgsAt, n
<1>5. ApartAt(q, n)
  BY <1>1, <1>3 DEF ApartAt, Uses, n
<1>6. LowAt(q, n) /\ PlacedAt(q, n) /\ AllSavedAt(q, n)
  BY <1>1, <1>2 DEF LowAt, PlacedAt, AllSavedAt
<1>7. StaticAt(q, n)
  BY <1>4, <1>5, <1>6 DEF StaticAt
<1> QED
  BY <1>7 DEF q, n

\* What is below the top c, none of them a call.
LEMMA UnderIs ==
  ASSUME IInv, NEW c \in 0 .. N, Open(todo, N - c + 1, N)
  PROVE  /\ N \in Nat /\ N - c \in Nat /\ Len(Under(c)) = N - c /\ Under(c) \in Seq(Entries) /\ todo \in Seq(Entries)
         /\ \A j \in 1 .. N - c :
              /\ j \in 1 .. N /\ Under(c)[j] = todo[j]
              /\ Open(Under(c), j + 1, N - c) => Open(todo, j + 1, N) /\ Open(todo, j + 1, N - c)
              /\ Uses(Under(c), j, N - c) => Uses(todo, j, N - c)
<1>1. N \in Nat /\ N = Len(todo) /\ todo \in Seq(Entries)
  BY Basics
<1>2. N - c \in 0 .. Len(todo) /\ Under(c) = SubSeq(todo, 1, N - c) /\ N - c \in Nat /\ N - c <= N
  BY <1>1 DEF Under
<1>3. Len(Under(c)) = N - c /\ Under(c) \in Seq(Entries) /\ \A j \in 1 .. N - c : Under(c)[j] = todo[j]
  BY <1>1, <1>2, Cut
<1>4. ASSUME NEW j \in 1 .. N - c
      PROVE  /\ j \in 1 .. N
             /\ Open(Under(c), j + 1, N - c) => Open(todo, j + 1, N) /\ Open(todo, j + 1, N - c)
             /\ Uses(Under(c), j, N - c) => Uses(todo, j, N - c)
  <2>1. /\ j \in 1 .. N /\ j + 1 \in Nat /\ j + 1 <= N - c + 1
        /\ \A i \in j + 1 .. N - c : i \in 1 .. N - c
    BY <1>1, <1>2
  <2>2. Open(Under(c), j + 1, N - c) => Open(todo, j + 1, N - c)
    BY <1>3, <2>1 DEF Open
  <2>3. Open(todo, j + 1, N - c) => Open(todo, j + 1, N)
    BY <1>1, <1>2, <2>1, OpenParts
  <2>4. Uses(Under(c), j, N - c) => Uses(todo, j, N - c)
    BY <1>3, <2>1 DEF Uses
  <2> QED
    BY <2>1, <2>2, <2>3, <2>4
<1> QED
  BY <1>1, <1>2, <1>3, <1>4

\* A register that was not taken is no register of theirs.
LEMMA FreshApart ==
  ASSUME IInv, OInv, orderly, NEW c \in 0 .. N, Open(todo, N - c + 1, N),
         NEW b \in BothBanks, \A i \in N - c + 1 .. N : todo[i].bank = b,
         NEW r \in BankRegs(b), r \notin st.reglist,
         NEW j \in 1 .. N - c, Open(Under(c), j + 1, N - c), Uses(Under(c), j, N - c)
  PROVE  Under(c)[j].reg # r
<1>1. /\ N \in Nat /\ N - c \in Nat /\ j \in 1 .. N /\ Under(c)[j] = todo[j] /\ Open(todo, j + 1, N) /\ Uses(todo, j, N - c)
  BY UnderIs
<1>2. CASE Uses(todo, j, N)
  BY <1>1, <1>2, Ready
<1>3. CASE ~Uses(todo, j, N)
  <2>1. todo[j].kind = "for" /\ todo[j].at # "reg" /\ \A i \in j + 1 .. N - c : todo[i].bank = "int"
    BY <1>1, <1>3 DEF Uses
  <2>2. PICK i \in j + 1 .. N : todo[i].bank # "int"
    BY <1>3, <2>1 DEF Uses
  <2>3. i \in N - c + 1 .. N
    BY <1>1, <2>1, <2>2
  <2>4. b = "flt"
    BY <2>2, <2>3 DEF BothBanks
  <2>5. todo[j].reg \in BankRegs("int")
    <3>1. GeneralAt(todo, j)
      BY <1>1, Ready DEF Static, StaticAt, N
    <3> QED
      BY <2>1, <3>1 DEF GeneralAt
  <2> QED
    BY <1>1, <2>4, <2>5, ConstantsOK DEF BankRegs, First
<1> QED
  BY <1>2, <1>3

\* Nor is that of a value or counter which is no read of a counter.
LEMMA OwnApart ==
  ASSUME IInv, OInv, orderly, NEW n \in 1 .. N, Open(todo, n, N), Uses(todo, n, n), ~IsCounter(todo[n]),
         NEW j \in 1 .. n - 1, Open(todo, j + 1, N), Uses(todo, j, n - 1)
  PROVE  todo[j].reg # todo[n].reg
<1>1. N \in Nat /\ \A i \in j + 1 .. n : i \in j + 1 .. N
  BY Basics
<1>2. Open(todo, j + 1, n)
  BY <1>1 DEF Open
<1>3. ApartAt(todo, n)
  BY Ready DEF Static, StaticAt, N
<1> QED
  BY <1>2, <1>3 DEF ApartAt

\* What a pending operand names holds it, in any machine that kept what was taken.
LEMMA OperandHolds ==
  ASSUME IInv, OInv, orderly, NEW i \in 1 .. N, Open(todo, i + 1, N), ~IsArg(todo[i]), NEW t, Untouched(st, t)
  PROVE  /\ Holds(t, todo[i]) /\ todo[i].at # "word"
         /\ todo[i].at = "reg" => todo[i].reg \in st.reglist /\ t.reg[todo[i].reg] = todo[i].tag
<1>1. Held(st, todo) /\ Static(todo) /\ (todo[i].at = "reg" => todo[i].reg \in st.reglist)
  BY Ready DEF Uses
<1>2. todo[i].at = "reg" => st.reg[todo[i].reg] = todo[i].tag
  BY <1>1 DEF Held, RegsHold, N
<1>3. todo[i].at # "word"
  BY <1>1 DEF Static, StaticAt, WordsAreArgsAt, N
<1> QED
  BY <1>1, <1>2, <1>3 DEF Untouched, Holds

\* Where every FOR has its first value.
LEMMA NoFors ==
  ASSUME NEW q, \A k \in 1 .. Len(q) : q[k].kind = "for" => q[k].at = "reg", NEW t
  PROVE  ForsTaken(t, q)
BY DEF ForsTaken

LEMMA BelowStop ==
  ASSUME IInv, OInv, orderly, NEW n \in 1 .. N, todo[n].kind \in {"for", "stop"}, NEW i \in 1 .. n - 1, todo[i].kind = "for"
  PROVE  todo[i].at = "reg"
<1>1. OneFirstAt(todo, n)
  BY Ready DEF Static, StaticAt, N
<1> QED
  BY <1>1 DEF OneFirstAt

\* What was taken stays as it was.
LEMMA StaysUntouched ==
  ASSUME NEW s, NEW t, NEW u, Untouched(s, t), s.reglist \subseteq t.reglist, Untouched(t, u)
  PROVE  Untouched(s, u)
BY DEF Untouched

-----------------------------------------------------------------------------
(* Operands and operators *)

LEMMA PushOperand ==
  ASSUME IInv, OInv, orderly, IInv', NEW v \in Entries, ~IsMarker(v), v.kind = "value",
         StaticAt(Append(todo, v), N + 1), v.at # "word", v.at = "reg" => st.reg[v.reg] = v.tag, Become(st, Append(todo, v))
  PROVE  OInv'
<1>1. /\ st \in CalmMachine /\ st.sp \in Words /\ Held(st, todo) /\ ForsTaken(st, todo) /\ todo \in Seq(Entries)
      /\ N = Len(todo) /\ N \in Nat
  BY Ready, Basics
<1>2. Held(st, Append(todo, v))
  BY <1>1, PushHeld
<1>3. /\ Len(Append(todo, v)) = N + 1 /\ Append(todo, v)[N + 1] = v
      /\ \A k \in 1 .. N : Append(todo, v)[k] = todo[k]
  BY <1>1, Pushed
<1>4. ForsTaken(st, Append(todo, v))
  <2>1. \A k \in 1 .. N + 1 : k \in 1 .. N \/ k = N + 1
    BY <1>1
  <2>2. \A k \in 1 .. N : \A i \in k + 1 .. N : i \in k + 1 .. N + 1 /\ i \in 1 .. N
    BY <1>1
  <2>3. ASSUME NEW k \in 1 .. N, Open(Append(todo, v), k + 1, N + 1), Uses(Append(todo, v), k, N + 1)
        PROVE  Open(todo, k + 1, N) /\ Uses(todo, k, N)
    BY <1>3, <2>2, <2>3 DEF Open, Uses
  <2> QED
    BY <1>1, <1>3, <2>1, <2>3 DEF ForsTaken
<1>5. Kept(st, Append(todo, v))
  BY <1>1, <1>2, <1>4 DEF Kept, CalmMachine
<1> QED
  BY <1>1, <1>5, BecomesKept

LEMMA OperandKeeps ==
  ASSUME IInv, OInv, orderly, IInv', NEW p \in Places, NEW b \in Banks, Operand(p, b)
  PROVE  OInv'
<1> DEFINE v == Source(p, b)
<1>1. b \in BothBanks /\ FP \in Regs /\ GP \in Regs /\ Junk \in Nat /\ FP \in Reserved /\ GP \in Reserved
  BY BanksIn, ReservedIn DEF Reserved, Junk
<1>2. /\ v \in Entries /\ ~IsMarker(v) /\ v.kind = "value" /\ v.fixed = FALSE /\ v.at \in {"mem", "lit"}
      /\ v.at = "mem" => v.reg \in Reserved
  <2>1. p \in {"local", "global", "literal"}
    BY RegistersAssumption
  <2>2. CASE p = "local"
    <3>1. v = Value("mem", FP, Junk, b, FALSE)
      BY <2>2 DEF Source
    <3>2. v \in Entries /\ ~IsMarker(v) /\ v.kind = "value"
      <4>1. FALSE \in BOOLEAN /\ "mem" \in {"reg", "mem"}
        OBVIOUS
      <4> QED
        BY <1>1, <3>1, <4>1, ValueIn
    <3>3. v.fixed = FALSE /\ v.at = "mem" /\ v.reg = FP
      BY <3>1 DEF Value, Item
    <3> QED
      BY <1>1, <3>2, <3>3
  <2>3. CASE p = "global"
    <3>1. v = Value("mem", GP, Junk, b, FALSE)
      BY <2>3 DEF Source
    <3>2. v \in Entries /\ ~IsMarker(v) /\ v.kind = "value"
      <4>1. FALSE \in BOOLEAN /\ "mem" \in {"reg", "mem"}
        OBVIOUS
      <4> QED
        BY <1>1, <3>1, <4>1, ValueIn
    <3>3. v.fixed = FALSE /\ v.at = "mem" /\ v.reg = GP
      BY <3>1 DEF Value, Item
    <3> QED
      BY <1>1, <3>2, <3>3
  <2>4. CASE p = "literal"
    <3>1. v = Value("lit", None, Junk, b, FALSE)
      BY <2>4 DEF Source
    <3> QED
      BY <1>1, <3>1, LiteralIn DEF Value, Item
  <2> QED
    BY <2>1, <2>2, <2>3, <2>4
<1>3. Become(st, Append(todo, v))
  BY DEF Operand
<1> HIDE DEF v
<1>4. todo \in Seq(Entries) /\ N = Len(todo)
  BY Basics
<1>5. ~IsArg(v) /\ ~IsCounter(v)
  BY <1>2 DEF IsArg, IsCounter
<1>6. StaticAt(Append(todo, v), N + 1)
  BY <1>2, <1>4, <1>5, NewStatic
<1> QED
  BY <1>2, <1>3, <1>6, PushOperand

LEMMA Disorder ==
  ASSUME NEW t, NEW q, Become(t, q), ~(orderly /\ Orderly')
  PROVE  OInv'
BY DEF Become, OInv

\* What is in a register that no call has saved has no call above it.
LEMMA NotSaved ==
  ASSUME NEW q \in Seq(Entries), Static(q), NEW n \in 0 .. Len(q), NEW k \in 1 .. n, q[k].at = "reg",
         \A j \in k + 1 .. n : IsMarker(q[j]) => q[k].reg \notin q[j].saved
  PROVE  Open(q, k + 1, n)
<1> DEFINE Ms == {j \in k + 1 .. n : IsMarker(q[j])}
<1>1. SUFFICES ASSUME Ms # {} PROVE FALSE
  BY DEF Open
<1>2. n \in Nat /\ Len(q) \in Nat /\ Ms \subseteq Nat
  OBVIOUS
<1>3. PICK m \in Ms : \A i \in Ms : m <= i
  <2> HIDE DEF Ms
  <2> QED
    BY <1>1, <1>2, LeastIn
<1>4. m \in 1 .. Len(q) /\ k \in 1 .. m - 1 /\ IsMarker(q[m]) /\ m \in k + 1 .. n
  BY <1>2
<1>5. Open(q, k + 1, m - 1)
  <2>1. \A i \in k + 1 .. m - 1 : i \in k + 1 .. n /\ ~(m <= i)
    BY <1>2, <1>4
  <2> QED
    BY <1>3, <2>1 DEF Open
<1>6. q[k].reg \in q[m].saved
  BY <1>4, <1>5 DEF Static, StaticAt, AllSavedAt, Uses
<1> QED
  BY <1>4, <1>6

LEMMA CounterKeeps ==
  ASSUME IInv, OInv, orderly, IInv', NEW k \in 1 .. N, Counter(k)
  PROVE  OInv'
<1> DEFINE v == Value("reg", todo[k].reg, k, "int", TRUE)
           q == Append(todo, v)
<1>1. todo[k].kind = "for" /\ todo[k].at = "reg" /\ Become(st, q)
  BY DEF Counter
<1>2. /\ N \in Nat /\ todo \in Seq(Entries) /\ N = Len(todo) /\ k \in Nat /\ k \in 1 .. N + 1 - 1 /\ todo[k] \in Entries
      /\ Static(todo) /\ StaticAt(todo, k) /\ Held(st, todo)
  BY Basics, Ready DEF Static
<1>3. todo[k].reg \in Regs
  BY <1>1, <1>2, InRegIs
<1>4. v \in Entries /\ ~IsMarker(v) /\ v.kind = "value"
  BY <1>2, <1>3, ValueIn DEF BothBanks
<1>5. v.at = "reg" /\ v.reg = todo[k].reg /\ v.tag = k /\ v.bank = "int" /\ v.fixed = TRUE
  BY DEF Value, Item
<1> HIDE DEF v
<1>6. CASE ~Orderly'
  BY <1>1, <1>6, Disorder
<1>7. CASE Orderly'
  <2>1. Len(q) = N + 1 /\ q[N + 1] = v /\ \A i \in 1 .. N : q[i] = todo[i]
    BY <1>2, <1>4, Pushed
  <2>2. todo' = q
    BY <1>1 DEF Become
  <2>3. \A j \in k + 1 .. N : IsMarker(todo[j]) => todo[k].reg \notin todo[j].saved
    <3>1. CountersInPlace'
      BY <1>7 DEF Orderly
    <3>2. \A j \in k + 1 .. N + 1 - 1 : j \in k + 1 .. N /\ j \in 1 .. N
      BY <1>2
    <3>3. N + 1 \in 1 .. Len(q)
      BY <1>2, <2>1
    <3> HIDE DEF q
    <3>4. \A j \in q[N + 1].tag + 1 .. N + 1 - 1 : IsMarker(q[j]) => q[N + 1].reg \notin q[j].saved
      BY <1>4, <1>5, <2>1, <2>2, <3>1, <3>3 DEF CountersInPlace, N
    <3>5. \A j \in k + 1 .. N : j \in k + 1 .. N + 1 - 1
      BY <1>2
    <3> QED
      BY <1>5, <2>1, <3>2, <3>4, <3>5
  <2> HIDE DEF q
  <2>4. Open(todo, k + 1, N)
    BY <1>1, <1>2, <2>3, NotSaved
  <2>5. todo[k].tag = k /\ todo[k].reg \in BankRegs("int") \ Reserved
    BY <1>1, <1>2 DEF StaticAt, TaggedAt, GeneralAt, IsCounter
  <2>6. ASSUME NEW j \in 1 .. N, Open(q, j + 1, N + 1), Uses(q, j, N), q[j].reg = v.reg PROVE q[j].tag = k
    <3>1. /\ \A i \in j + 1 .. N : i \in 1 .. N /\ i \in j + 1 .. N + 1
          /\ \A i \in j + 1 .. k : j < k => i \in j + 1 .. N
          /\ \A i \in j + 1 .. k - 1 : j < k => i \in j + 1 .. N
          /\ \A i \in k + 1 .. j : j > k => i \in k + 1 .. N
          /\ j \in Nat
      BY <1>2
    <3>2. Open(todo, j + 1, N) /\ Uses(todo, j, N) /\ todo[j].reg = todo[k].reg
      BY <1>5, <2>1, <2>6, <3>1 DEF Open, Uses
    <3>3. CASE j = k
      BY <2>1, <2>5, <3>3
    <3>4. CASE j > k
      <4>1. Open(todo, k + 1, j) /\ Uses(todo, k, j - 1) /\ Uses(todo, j, j) /\ k \in 1 .. j - 1
        <5>1. Open(todo, k + 1, j)
          BY <2>4, <3>1, <3>4 DEF Open
        <5>2. Uses(todo, k, j - 1)
          BY <1>1 DEF Uses
        <5>3. Uses(todo, j, j)
          <6>1. \A i \in j + 1 .. j : FALSE
            BY <3>1
          <6> QED
            BY <3>2, <6>1 DEF Uses
        <5> QED
          BY <1>2, <3>1, <3>4, <5>1, <5>2, <5>3
      <4>2. ApartAt(todo, j)
        BY <1>2 DEF Static, StaticAt
      <4>3. todo[k].tag = todo[j].tag
        BY <3>2, <4>1, <4>2 DEF ApartAt
      <4> QED
        BY <2>1, <2>5, <4>3
    <3>5. CASE j < k
      <4>1. Open(todo, j + 1, k) /\ Uses(todo, j, k - 1) /\ j \in 1 .. k - 1
        <5>1. j \in 1 .. k - 1
          BY <1>2, <3>1, <3>5
        <5> QED
          BY <3>1, <3>2, <3>5, <5>1 DEF Open, Uses
      <4>2. ApartAt(todo, k) /\ Uses(todo, k, k)
        BY <1>1, <1>2 DEF StaticAt, Uses
      <4>3. IsCounter(todo[k])
        BY <3>2, <4>1, <4>2 DEF ApartAt
      <4> QED
        BY <1>1, <4>3 DEF IsCounter
    <3> QED
      BY <1>2, <3>1, <3>3, <3>4, <3>5
  <2>7. N + 1 - 1 = N /\ N + 1 \in Nat /\ \A j \in 1 .. N : N + 1 \in j + 1 .. N + 1
    BY <1>2
  <2>8. /\ GeneralAt(q, N + 1) /\ TaggedAt(q, N + 1) /\ OneFirstAt(q, N + 1) /\ WordsAreArgsAt(q, N + 1)
        /\ LowAt(q, N + 1) /\ AllSavedAt(q, N + 1)
    <3>1. v.reg \in BankRegs(v.bank) \ Reserved
      BY <1>5, <2>5
    <3>2. GeneralAt(q, N + 1)
      BY <1>4, <1>5, <2>1, <3>1 DEF GeneralAt
    <3>3. TaggedAt(q, N + 1)
      BY <1>1, <1>2, <1>4, <1>5, <2>1 DEF TaggedAt, IsCounter
    <3>4. OneFirstAt(q, N + 1) /\ WordsAreArgsAt(q, N + 1) /\ LowAt(q, N + 1) /\ AllSavedAt(q, N + 1)
      BY <1>4, <1>5, <2>1 DEF OneFirstAt, WordsAreArgsAt, LowAt, AllSavedAt
    <3> QED
      BY <3>2, <3>3, <3>4
  <2>9. ApartAt(q, N + 1)
    <3>1. IsCounter(v)
      BY <1>4, <1>5 DEF IsCounter
    <3>2. PICK n \in Nat : n = N + 1 /\ n - 1 = N
      <4>1. N + 1 \in Nat /\ (N + 1) - 1 = N
        BY <1>2
      <4> QED
        BY <4>1
    <3>3. \A j \in 1 .. n - 1 : Open(q, j + 1, n) /\ Uses(q, j, n - 1) /\ q[j].reg = q[n].reg => q[j].tag = q[n].tag
      BY <1>5, <2>1, <2>6, <3>2
    <3>4. ApartAt(q, n)
      BY <2>1, <3>1, <3>2, <3>3 DEF ApartAt
    <3> QED
      BY <3>2, <3>4
  <2>10. PlacedAt(q, N + 1)
    <3>1. ~IsArg(v)
      BY <1>4 DEF IsArg
    <3> QED
      BY <2>1, <2>7, <3>1 DEF PlacedAt
  <2>11. StaticAt(q, N + 1)
    BY <2>8, <2>9, <2>10 DEF StaticAt
  <2>12. st.reg[v.reg] = v.tag
    BY <1>1, <1>2, <1>5, <2>4, <2>5 DEF Held, RegsHold
  <2> QED
    BY <1>1, <1>4, <1>5, <2>11, <2>12, PushOperand DEF q
<1> QED
  BY <1>6, <1>7

\* A value on another, neither a call.
LEMMA TwoOpen ==
  ASSUME IInv, NEW kinds, ValueOn(kinds), kinds \cap {"arg", "fn", "proc", "write"} = {}
  PROVE  /\ N \in Nat /\ N > 1 /\ 2 \in 0 .. N /\ 1 \in 0 .. N /\ N - 1 \in 1 .. N /\ N \in 1 .. N
         /\ Open(todo, N - 2 + 1, N) /\ Open(todo, N - 1 + 1, N) /\ Open(todo, N - 1, N) /\ Open(todo, N, N)
         /\ Open(todo, N + 1, N) /\ N - 2 + 1 = N - 1 /\ N - 1 + 1 = N
         /\ \A i \in N - 2 + 1 .. N : i = N \/ i = N - 1
<1>1. N > 1 /\ N \in Nat /\ N \in 1 .. N /\ N - 1 \in 1 .. N /\ ~IsMarker(todo[N - 1]) /\ ~IsMarker(todo[N])
  BY ValueOnIs, TopTwo DEF Top
<1>2. /\ \A i \in N - 2 + 1 .. N : i = N \/ i = N - 1
      /\ \A i \in N - 1 + 1 .. N : i = N
      /\ \A i \in N - 1 .. N : i = N \/ i = N - 1
      /\ \A i \in N .. N : i = N
      /\ \A i \in N + 1 .. N : FALSE
      /\ N - 2 + 1 = N - 1 /\ N - 1 + 1 = N /\ 2 \in 0 .. N /\ 1 \in 0 .. N
  BY <1>1
<1> QED
  BY <1>1, <1>2 DEF Open

\* What freeing an operand takes from a FOR without a first value: nothing.
LEMMA FreesNoFor ==
  ASSUME IInv, OInv, orderly, NEW n \in 1 .. N, Open(todo, n, N), todo[n].bank = "int", todo[n].kind = "value",
         NEW k \in 1 .. n - 1, todo[k].kind = "for", todo[k].at # "reg", Open(todo, k + 1, N), Uses(todo, k, n - 1),
         todo[n].at \in {"reg", "mem"}
  PROVE  todo[k].reg # todo[n].reg % RegCount
<1>1. N \in Nat /\ todo \in Seq(Entries) /\ N = Len(todo) /\ k \in 1 .. N
  BY Basics
<1>2. StaticAt(todo, n) /\ StaticAt(todo, k)
  BY <1>1, Ready DEF Static
<1>3. todo[k].reg \in BankRegs("int") \ Reserved /\ todo[k].tag = k
  BY <1>2 DEF StaticAt, GeneralAt, TaggedAt, IsCounter
<1>4. CASE todo[n].at = "mem"
  <2>1. todo[n].reg \in Reserved
    BY <1>2, <1>4 DEF StaticAt, GeneralAt
  <2>2. todo[n].reg % RegCount = todo[n].reg
    BY <2>1, ConstantsOK, Remainder DEF Reserved, GP, FP, SP
  <2> QED
    BY <1>3, <2>1, <2>2
<1>5. CASE todo[n].at = "reg"
  <2>1. todo[n].reg \in 0 .. RegCount - 1
    BY <1>2, <1>5, ConstantsOK DEF StaticAt, GeneralAt, BankRegs, First
  <2>2. todo[n].reg % RegCount = todo[n].reg
    BY <2>1, ConstantsOK, Remainder
  <2>3. ASSUME todo[k].reg = todo[n].reg PROVE FALSE
    <3>1. Uses(todo, n, n)
      BY <1>5 DEF Uses
    <3>2. IsCounter(todo[n])
      BY <1>1, <2>3, <3>1, OwnApart
    <3>3. Open(todo, k + 1, n)
      <4>1. \A i \in k + 1 .. n : i \in k + 1 .. N
        BY <1>1
      <4> QED
        BY <4>1 DEF Open
    <3>4. todo[k].tag = todo[n].tag
      BY <1>2, <2>3, <3>1, <3>3 DEF StaticAt, ApartAt
    <3>5. todo[todo[n].tag].at = "reg"
      BY <1>2, <3>2 DEF StaticAt, TaggedAt
    <3> QED
      BY <1>3, <3>4, <3>5
  <2> QED
    BY <2>2, <2>3
<1> QED
  BY <1>4, <1>5

LEMMA InfixKeeps ==
  ASSUME IInv, OInv, orderly, IInv', Infix
  PROVE  OInv'
<1> DEFINE left == todo[N - 1]
           r == RegOf(st, left, FALSE)
           loaded == Load(st, left, FALSE, N - 1)
           tag == IF Holds(loaded, Top) /\ Holds(st, left) THEN N - 1 ELSE Junk
           v == Value("reg", r, N - 1, left.bank, FALSE)
           p == Under(2)
<1>1. ValueOn({"value"}) /\ left.bank = Top.bank
  BY DEF Infix
<1>2. /\ left \in Entries /\ ~IsMarker(left) /\ Top \in Entries /\ ~IsMarker(Top) /\ Top = todo[N]
      /\ ~IsArg(left) /\ ~IsArg(Top) /\ left.kind = "value" /\ Top.kind = "value"
      /\ N - 1 \in Tags /\ N - 1 \in Nat /\ Junk \in Tags
  BY <1>1, ValueOnIs, TopTwo, ConstantsOK DEF Junk, Tags
<1>3. /\ N \in Nat /\ N > 1 /\ 2 \in 0 .. N /\ N - 1 \in 1 .. N /\ N \in 1 .. N
      /\ Open(todo, N - 2 + 1, N) /\ Open(todo, N - 1, N) /\ Open(todo, N, N)
      /\ Open(todo, N + 1, N) /\ N - 2 + 1 = N - 1 /\ N - 1 + 1 = N
      /\ \A i \in N - 2 + 1 .. N : i = N \/ i = N - 1
  BY <1>1, TwoOpen
<1>4. /\ st \in CalmMachine /\ HasSpare(st) /\ ForsTaken(st, todo) /\ Static(todo) /\ st.sp \in Words
      /\ \A b \in BothBanks : FreeRegs(st, b) # {}
      /\ \A k \in 1 .. N : Open(todo, k + 1, N) /\ Uses(todo, k, N) => todo[k].reg \in st.reglist
  BY Ready
<1>5. left.bank \in BothBanks
  BY <1>2, PlainHas
<1>6. PICK s \in {Use(loaded, Top)} \cup (IF Top.at = "lit" THEN {loaded} ELSE {}) :
        Become(FreeExpr(Put(s, r, tag), left), Append(p, v))
  BY DEF Infix
<1>7. /\ Untouched(st, loaded) /\ r \in Regs
      /\ InReg(left, FALSE) => loaded = st /\ r = left.reg
      /\ ~InReg(left, FALSE) => r = NextReg(st, left.bank) /\ r \in BankRegs(left.bank) /\ r \notin st.reglist
      /\ st.reglist \subseteq loaded.reglist /\ loaded.reglist \subseteq st.reglist \cup {r}
  <2>1. FreeRegs(st, left.bank) # {}
    BY <1>4, <1>5
  <2>2. N - 1 \in Tags /\ left \in Entries /\ ~IsMarker(left) /\ st \in CalmMachine
    BY <1>2, <1>4
  <2> HIDE DEF left
  <2> QED
    BY <2>1, <2>2, LoadKeeps
<1>8. Holds(loaded, Top) /\ Holds(st, left)
  <2>1. Untouched(st, st)
    BY <1>4 DEF Untouched
  <2>2. Holds(loaded, todo[N])
    BY <1>2, <1>3, <1>7, OperandHolds
  <2>3. Holds(st, todo[N - 1])
    BY <1>2, <1>3, <2>1, OperandHolds
  <2> QED
    BY <1>2, <2>2, <2>3
<1>9. tag = N - 1
  BY <1>8
<1>10. /\ p \in Seq(Entries) /\ Len(p) = N - 2 /\ N - 2 \in Nat /\ todo \in Seq(Entries) /\ Len(p) + 1 = N - 1
       /\ \A j \in 1 .. N - 2 :
            /\ j \in 1 .. N /\ p[j] = todo[j]
            /\ Open(p, j + 1, N - 2) => Open(todo, j + 1, N) /\ Open(todo, j + 1, N - 2)
            /\ Uses(p, j, N - 2) => Uses(todo, j, N - 2)
  BY <1>3, UnderIs
<1> HIDE DEF loaded, tag, p
<1>11. /\ Untouched(st, s) /\ (left.bank = "int" => st.reglist \subseteq s.reglist)
  <2>1. FreeRegs(loaded, Top.bank) # {}
    BY <1>1, <1>4, <1>5, <1>7, SpareIs
  <2>2. CASE s = Use(loaded, Top)
    <3>1. loaded \in CalmMachine
      BY <1>7 DEF Untouched
    <3>2. Untouched(loaded, s) /\ (Top.bank = "int" => loaded.reglist \subseteq s.reglist)
      BY <1>2, <2>1, <2>2, <3>1, UseKeeps
    <3>3. Untouched(st, s)
      BY <1>7, <3>2, StaysUntouched
    <3> QED
      BY <1>1, <1>7, <3>2, <3>3
  <2>3. CASE s = loaded
    BY <1>7, <2>3
  <2> QED
    BY <1>6, <2>2, <2>3
<1>12. v.reg = r /\ v.at = "reg" /\ v.tag = N - 1 /\ v.bank = left.bank /\ v.fixed = FALSE /\ v.kind = "value"
  BY DEF Value, Item
<1>13. v \in Entries /\ ~IsMarker(v) /\ ~IsArg(v) /\ ~IsCounter(v)
  <2>1. v \in Entries /\ ~IsMarker(v)
    BY <1>2, <1>5, <1>7, ValueIn
  <2> QED
    BY <1>12, <2>1 DEF IsArg, IsCounter
<1>14. r \in BankRegs(left.bank) \ Reserved
  <2>1. CASE InReg(left, FALSE)
    <3>1. GeneralAt(todo, N - 1)
      BY <1>3, <1>4, <1>10 DEF Static, StaticAt, N
    <3> QED
      BY <1>7, <2>1, <3>1 DEF GeneralAt, InReg
  <2>2. CASE ~InReg(left, FALSE)
    BY <1>4, <1>5, <1>7, <2>2, SpareIs
  <2> QED
    BY <2>1, <2>2
<1> HIDE DEF v
<1>15. ASSUME NEW j \in 1 .. N - 2, Open(p, j + 1, N - 2), Uses(p, j, N - 2) PROVE p[j].reg # r
  <2>1. CASE InReg(left, FALSE)
    <3>1. Uses(todo, N - 1, N - 1) /\ ~IsCounter(todo[N - 1])
      BY <2>1 DEF InReg, Uses, IsCounter
    <3>2. Open(todo, j + 1, N) /\ Uses(todo, j, N - 1 - 1) /\ j \in 1 .. N - 1 - 1
      BY <1>3, <1>10, <1>15
    <3>3. todo[j].reg # todo[N - 1].reg
      BY <1>3, <3>1, <3>2, OwnApart
    <3> QED
      BY <1>7, <1>10, <2>1, <3>3
  <2>2. CASE ~InReg(left, FALSE)
    <3>1. \A i \in N - 2 + 1 .. N : todo[i].bank = left.bank
      BY <1>1, <1>2, <1>3
    <3> QED
      BY <1>3, <1>5, <1>7, <1>15, <2>2, <3>1, FreshApart DEF p
  <2> QED
    BY <2>1, <2>2
<1> DEFINE u == Put(s, r, tag)
           t == FreeExpr(u, left)
<1>16. /\ s \in CalmMachine /\ u \in CalmMachine /\ u.reg[r] = N - 1 /\ u.reglist = s.reglist /\ u.word = s.word /\ u.sp = s.sp
       /\ \A x \in Regs \ {r} : u.reg[x] = s.reg[x]
  <2>1. s \in CalmMachine
    BY <1>11 DEF Untouched
  <2>2. tag \in Tags
    BY <1>2, <1>9
  <2>3. /\ u \in CalmMachine /\ u.reg[r] = tag /\ u.reglist = s.reglist /\ u.word = s.word /\ u.sp = s.sp
        /\ \A x \in Regs \ {r} : u.reg[x] = s.reg[x]
    <3> HIDE DEF r
    <3> QED
      BY <1>7, <2>1, <2>2, PutCalm
  <2> QED
    BY <1>9, <2>1, <2>3
<1> HIDE DEF u
<1>17. /\ t \in CalmMachine /\ t.reg = u.reg /\ t.word = u.word /\ t.sp = u.sp
       /\ \A x \in u.reglist : (left.at \in {"reg", "mem"} /\ x = left.reg % RegCount) \/ x \in t.reglist
  BY <1>2, <1>16, FreeExprKeeps DEF Untouched
<1> HIDE DEF t
<1>18. t.word = st.word /\ t.sp = st.sp /\ t.reg[r] = N - 1 /\ \A x \in st.reglist : x # r => t.reg[x] = st.reg[x]
  <2>1. st.reglist \subseteq Regs
    BY <1>4, CalmHas
  <2> QED
    BY <1>11, <1>16, <1>17, <2>1 DEF Untouched
<1>19. Held(t, p) /\ Calm(t)
  <2>1. ASSUME NEW k \in 1 .. N - 2, Open(todo, k + 1, N), todo[k].at = "reg"
        PROVE  t.reg[todo[k].reg] = st.reg[todo[k].reg]
    <3>1. todo[k].reg \in st.reglist
      BY <1>4, <1>10, <2>1 DEF Uses
    <3>2. Open(p, k + 1, N - 2) /\ Uses(p, k, N - 2)
      <4>1. \A i \in k + 1 .. N - 2 : i \in k + 1 .. N /\ i \in 1 .. N - 2
        BY <1>3
      <4>2. Open(p, k + 1, N - 2)
        BY <1>10, <2>1, <4>1 DEF Open
      <4> QED
        BY <1>10, <2>1, <4>2 DEF Uses
    <3> QED
      BY <1>10, <1>15, <1>18, <3>1, <3>2
  <2> QED
    BY <1>3, <1>17, <1>18, <2>1, UnderHeld DEF p
<1>20. StaticAt(Append(p, v), Len(p) + 1)
  BY <1>10, <1>12, <1>13, <1>14, <1>15, NewStatic
<1>21. Held(t, Append(p, v))
  BY <1>10, <1>12, <1>13, <1>18, <1>19, <1>20, PushHeld
<1>22. ForsTaken(t, Append(p, v))
  <2> DEFINE q == Append(p, v)
  <2>1. Len(q) = N - 1 /\ q[N - 1] = v /\ \A i \in 1 .. N - 2 : q[i] = p[i]
    BY <1>10, <1>13, Pushed
  <2> HIDE DEF q
  <2> SUFFICES ASSUME NEW k \in 1 .. N - 1, q[k].kind = "for", q[k].at # "reg", Open(q, k + 1, N - 1), Uses(q, k, N - 1)
               PROVE  q[k].reg \in t.reglist
    BY <2>1 DEF ForsTaken, q
  <2>2. k \in 1 .. N - 2
    <3>1. k # N - 1
      BY <1>12, <2>1
    <3> QED
      BY <1>3, <3>1
  <2>3. q[k] = todo[k] /\ p[k] = todo[k] /\ N - 1 \in k + 1 .. N - 1 /\ \A i \in k + 1 .. N - 2 : i \in k + 1 .. N - 1 /\ i \in 1 .. N - 2
    BY <1>3, <1>10, <2>1, <2>2
  <2>4. left.bank = "int" /\ Open(p, k + 1, N - 2) /\ Uses(p, k, N - 2)
    BY <1>12, <2>1, <2>3 DEF Open, Uses
  <2>5. Open(todo, k + 1, N) /\ Uses(todo, k, N - 2)
    BY <1>10, <2>2, <2>4
  <2>6. Uses(todo, k, N)
    <3>1. \A i \in k + 1 .. N : i \in k + 1 .. N - 2 \/ i = N - 1 \/ i = N
      BY <1>3, <2>2
    <3> QED
      BY <1>1, <1>2, <2>3, <2>4, <2>5, <3>1 DEF Uses
  <2>7. todo[k].reg \in u.reglist
    BY <1>4, <1>10, <1>11, <1>16, <2>2, <2>4, <2>5, <2>6
  <2>8. left.at \in {"reg", "mem"} => todo[k].reg # left.reg % RegCount
    <3>1. k \in 1 .. N - 1 - 1 /\ Uses(todo, k, N - 1 - 1)
      BY <1>3, <2>2, <2>5
    <3> QED
      BY <1>2, <1>3, <2>3, <2>4, <2>5, <3>1, FreesNoFor
  <2> QED
    BY <1>17, <2>3, <2>7, <2>8
<1>23. Kept(t, Append(p, v))
  BY <1>19, <1>21, <1>22 DEF Kept
<1>24. Become(t, Append(p, v))
  BY <1>6 DEF t, u
<1> QED
  BY <1>4, <1>17, <1>18, <1>23, <1>24, BecomesKept

\* The top goes, where no FOR below waits for its first value.
LEMMA PopKeeps ==
  ASSUME IInv, OInv, orderly, IInv', NEW c \in 0 .. N, Open(todo, N - c + 1, N), NEW t, Untouched(st, t),
         \A k \in 1 .. N - c : todo[k].kind = "for" => todo[k].at = "reg", Become(t, Under(c))
  PROVE  OInv'
<1>1. t \in CalmMachine /\ t.sp = st.sp /\ t.word = st.word /\ \A x \in st.reglist : t.reg[x] = st.reg[x]
  BY DEF Untouched
<1>2. /\ N \in Nat /\ N - c \in Nat /\ Len(Under(c)) = N - c
      /\ \A j \in 1 .. N - c : j \in 1 .. N /\ Under(c)[j] = todo[j]
  BY UnderIs
<1>3. Held(t, Under(c)) /\ Calm(t)
  <2>1. \A k \in 1 .. N : Open(todo, k + 1, N) /\ Uses(todo, k, N) => todo[k].reg \in st.reglist
    BY Ready
  <2>2. \A k \in 1 .. N - c : Open(todo, k + 1, N) /\ todo[k].at = "reg" => t.reg[todo[k].reg] = st.reg[todo[k].reg]
    BY <1>1, <1>2, <2>1 DEF Uses
  <2> QED
    BY <1>1, <2>2, UnderHeld
<1>4. ForsTaken(t, Under(c))
  BY <1>2, NoFors
<1>5. Kept(t, Under(c)) /\ t.sp \in Words
  BY <1>1, <1>3, <1>4, Ready DEF Kept
<1> QED
  BY <1>1, <1>5, BecomesKept

\* Something takes its place, in a register that nothing below uses.
LEMMA NewKeeps ==
  ASSUME IInv, OInv, orderly, IInv', NEW c \in 0 .. N, Open(todo, N - c + 1, N),
         \A k \in 1 .. N - c : todo[k].kind = "for" => todo[k].at = "reg",
         NEW v \in Entries, ~IsMarker(v), v.kind \in {"for", "stop"}, v.at \in {"reg", "none"}, v.bank = "int",
         v.tag = N - c + 1, v.reg \in BankRegs("int") \ Reserved,
         \A j \in 1 .. N - c : Open(Under(c), j + 1, N - c) /\ Uses(Under(c), j, N - c) => Under(c)[j].reg # v.reg,
         NEW t \in CalmMachine, t.sp = st.sp, t.word = st.word, \A x \in st.reglist : x # v.reg => t.reg[x] = st.reg[x],
         v.at = "reg" => t.reg[v.reg] = v.tag, v.at = "none" => v.reg \in t.reglist,
         Become(t, Append(Under(c), v))
  PROVE  OInv'
<1> DEFINE p == Under(c)
<1>1. /\ N \in Nat /\ N - c \in Nat /\ Len(p) = N - c /\ p \in Seq(Entries) /\ Len(p) + 1 = N - c + 1
      /\ \A j \in 1 .. N - c : j \in 1 .. N /\ p[j] = todo[j]
  BY UnderIs
<1>2. ~IsArg(v) /\ ~IsCounter(v)
  BY DEF IsArg, IsCounter
<1>3. Held(t, p) /\ Calm(t)
  <2>1. \A k \in 1 .. N : Open(todo, k + 1, N) /\ Uses(todo, k, N) => todo[k].reg \in st.reglist
    BY Ready
  <2>2. ASSUME NEW k \in 1 .. N - c, Open(todo, k + 1, N), todo[k].at = "reg"
        PROVE  t.reg[todo[k].reg] = st.reg[todo[k].reg]
    <3>1. todo[k].reg \in st.reglist
      BY <1>1, <2>1, <2>2 DEF Uses
    <3>2. \A i \in k + 1 .. N - c : i \in k + 1 .. N /\ i \in 1 .. N - c
      BY <1>1
    <3>3. Open(p, k + 1, N - c) /\ Uses(p, k, N - c)
      BY <1>1, <2>2, <3>2 DEF Open, Uses
    <3>4. p[k].reg # v.reg
      BY <3>3
    <3> QED
      BY <1>1, <3>1, <3>4
  <2> QED
    BY <2>2, UnderHeld
<1>4. \A i \in 1 .. Len(p) : p[i].kind = "for" => p[i].at = "reg"
  BY <1>1
<1>5. \A j \in 1 .. Len(p) : Open(p, j + 1, Len(p)) /\ Uses(p, j, Len(p)) => p[j].reg # v.reg
  BY <1>1
<1> HIDE DEF p
<1>6. StaticAt(Append(p, v), Len(p) + 1)
  BY <1>1, <1>2, <1>4, <1>5, NewStatic
<1>7. Held(t, Append(p, v))
  BY <1>1, <1>3, <1>6, PushHeld
<1>8. ForsTaken(t, Append(p, v))
  <2>1. Len(Append(p, v)) = N - c + 1 /\ Append(p, v)[N - c + 1] = v /\ \A i \in 1 .. N - c : Append(p, v)[i] = p[i]
    BY <1>1, Pushed
  <2>2. \A k \in 1 .. N - c + 1 : k \in 1 .. N - c \/ k = N - c + 1
    BY <1>1
  <2> QED
    BY <1>1, <1>4, <2>1, <2>2 DEF ForsTaken
<1>9. Kept(t, Append(p, v)) /\ t.sp \in Words
  BY <1>3, <1>7, <1>8, Ready DEF Kept
<1> QED
  BY <1>9, BecomesKept DEF p

\* Below a statement no FOR waits for its first value.
LEMMA StatementFors ==
  ASSUME IInv, OInv, orderly, NEW n \in 0 .. N, n = 0 \/ todo[n].kind = "stop", NEW k \in 1 .. n, todo[k].kind = "for"
  PROVE  todo[k].at = "reg"
<1>1. n \in 1 .. N /\ k \in 1 .. n - 1
  BY Basics
<1> QED
  BY <1>1, BelowStop

LEMMA WholeIs ==
  ASSUME IInv, NEW n \in 0 .. N, WholeExpr(n)
  PROVE  N - n \in 0 .. N /\ (N - n = 0 \/ todo[N - n].kind = "stop")
<1>1. N \in Nat
  BY Basics
<1> QED
  BY <1>1 DEF WholeExpr

LEMMA ConditionKeeps ==
  ASSUME IInv, OInv, orderly, IInv', Condition
  PROVE  OInv'
<1> DEFINE left == todo[N - 1]
           r == RegOf(st, left, TRUE)
           loaded == Load(st, left, TRUE, N - 1)
           both == Use(loaded, Top)
           s == IF InReg(left, TRUE) THEN both ELSE Free(both, r)
           t == FreeExpr(s, left)
<1>1. ValueOn({"value"}) /\ WholeExpr(2) /\ left.bank = Top.bank /\ Become(t, Under(2))
  BY DEF Condition
<1>2. /\ left \in Entries /\ ~IsMarker(left) /\ Top \in Entries /\ ~IsMarker(Top) /\ N - 1 \in Tags
  BY <1>1, ValueOnIs, TopTwo
<1>3. N \in Nat /\ 2 \in 0 .. N /\ Open(todo, N - 2 + 1, N)
  BY <1>1, TwoOpen
<1>4. st \in CalmMachine /\ HasSpare(st) /\ \A b \in BothBanks : FreeRegs(st, b) # {}
  BY Ready
<1>5. left.bank \in BothBanks
  BY <1>2, PlainHas
<1>6. /\ Untouched(st, loaded) /\ r \in Regs
      /\ st.reglist \subseteq loaded.reglist /\ loaded.reglist \subseteq st.reglist \cup {r}
  <2>1. N - 1 \in Tags /\ left \in Entries /\ ~IsMarker(left) /\ st \in CalmMachine /\ FreeRegs(st, left.bank) # {}
    BY <1>2, <1>4, <1>5
  <2> HIDE DEF left
  <2> QED
    BY <2>1, LoadKeeps
<1> HIDE DEF loaded, r
<1>7. Untouched(st, both)
  <2>1. FreeRegs(loaded, Top.bank) # {}
    BY <1>1, <1>4, <1>5, <1>6, SpareIs
  <2>2. loaded \in CalmMachine
    BY <1>6 DEF Untouched
  <2>3. Untouched(loaded, both)
    BY <1>2, <2>1, <2>2, UseKeeps
  <2> QED
    BY <1>6, <2>3, StaysUntouched
<1> HIDE DEF both, left
<1>8. s \in CalmMachine /\ s.reg = both.reg /\ s.word = both.word /\ s.sp = both.sp
  <2>1. both \in CalmMachine
    BY <1>7 DEF Untouched
  <2>2. CASE InReg(left, TRUE)
    BY <2>1, <2>2
  <2>3. CASE ~InReg(left, TRUE)
    <3>1. s = Free(both, r)
      BY <2>3
    <3> QED
      BY <1>6, <2>1, <3>1, FreeKeeps DEF Untouched
  <2> QED
    BY <2>2, <2>3
<1> HIDE DEF s
<1>9. t \in CalmMachine /\ t.reg = s.reg /\ t.word = s.word /\ t.sp = s.sp
  BY <1>2, <1>8, FreeExprKeeps DEF Untouched
<1> HIDE DEF t
<1>10. Untouched(st, t)
  BY <1>7, <1>8, <1>9 DEF Untouched
<1>11. \A k \in 1 .. N - 2 : todo[k].kind = "for" => todo[k].at = "reg"
  <2>1. N - 2 \in 0 .. N /\ (N - 2 = 0 \/ todo[N - 2].kind = "stop")
    BY <1>1, <1>3, WholeIs
  <2> QED
    BY <2>1, StatementFors
<1> QED
  BY <1>1, <1>3, <1>10, <1>11, PopKeeps

LEMMA AssignKeeps ==
  ASSUME IInv, OInv, orderly, IInv', Assign
  PROVE  OInv'
<1> DEFINE used == Use(st, Top)
           t == FreeExpr(used, Top)
<1>1. N > 0 /\ N \in Nat /\ N \in 1 .. N /\ Top = todo[N] /\ Top.kind = "value" /\ Top \in Entries
  BY Basics DEF Assign, TopIs, Top
<1>2. ~IsMarker(Top) /\ WholeExpr(1) /\ Become(t, Under(1)) /\ 1 \in 0 .. N
  BY <1>1 DEF IsMarker, IsCall, Assign
<1>3. Top.bank \in BothBanks
  BY <1>1, <1>2, PlainHas
<1>4. Untouched(st, used)
  <2>1. st \in CalmMachine /\ FreeRegs(st, Top.bank) # {}
    BY <1>3, Ready
  <2> QED
    BY <1>1, <1>2, <2>1, UseKeeps
<1> HIDE DEF used
<1>5. used \in CalmMachine /\ Untouched(used, t) /\ t.reg = used.reg
  <2>1. used \in CalmMachine
    BY <1>4 DEF Untouched
  <2> QED
    BY <1>1, <1>2, <2>1, FreeExprKeeps
<1> HIDE DEF t
<1>6. Untouched(st, t)
  BY <1>4, <1>5 DEF Untouched
<1>7. Open(todo, N - 1 + 1, N)
  <2>1. \A i \in N - 1 + 1 .. N : i = N
    BY <1>1
  <2> QED
    BY <1>1, <1>2, <2>1 DEF Open
<1>8. \A k \in 1 .. N - 1 : todo[k].kind = "for" => todo[k].at = "reg"
  <2>1. N - 1 \in 0 .. N /\ (N - 1 = 0 \/ todo[N - 1].kind = "stop")
    BY <1>2, WholeIs
  <2> QED
    BY <2>1, StatementFors
<1> QED
  BY <1>2, <1>6, <1>7, <1>8, PopKeeps

-----------------------------------------------------------------------------
(* FOR *)

LEMMA ForStartKeeps ==
  ASSUME IInv, OInv, orderly, IInv', ForStart
  PROVE  OInv'
<1> DEFINE r == NextReg(st, "int")
           t == Allocate(st, "int")
           v == Item("for", "none", r, N + 1, "int", TRUE)
<1>1. AtStatement /\ Become(t, Append(todo, v))
  BY DEF ForStart
<1>2. "int" \in BothBanks /\ N \in Nat /\ 0 \in 0 .. N /\ N - 0 = N /\ N - 0 + 1 = N + 1
  BY Basics DEF BothBanks
<1>3. st \in CalmMachine /\ HasSpare(st) /\ FreeRegs(st, "int") # {}
  BY <1>2, Ready
<1>4. r \in BankRegs("int") \ Reserved /\ r \in Regs /\ r \notin st.reglist
  BY <1>2, <1>3, SpareIs
<1>5. Untouched(st, t) /\ t.reglist = st.reglist \cup {r}
  BY <1>2, <1>3, AllocateKeeps
<1>6. v \in Entries /\ ~IsMarker(v)
  <2>1. v \in Plain
    BY <1>2, <1>4 DEF Item, Plain
  <2> QED
    BY <1>4, <2>1 DEF Item, Entries, IsMarker, IsCall
<1>7. v.kind = "for" /\ v.at = "none" /\ v.bank = "int" /\ v.tag = N + 1 /\ v.reg = r
  BY DEF Item
<1> HIDE DEF v, t, r
<1>8. Under(0) = todo
  <2>1. todo \in Seq(Entries) /\ N = Len(todo)
    BY Basics
  <2>2. SubSeq(todo, 1, Len(todo)) = todo
    BY <2>1
  <2> QED
    BY <1>2, <2>1, <2>2 DEF Under
<1>9. Open(todo, N - 0 + 1, N)
  <2>1. \A i \in N - 0 + 1 .. N : FALSE
    BY <1>2
  <2> QED
    BY <2>1 DEF Open
<1>10. ASSUME NEW j \in 1 .. N - 0, Open(Under(0), j + 1, N - 0), Uses(Under(0), j, N - 0) PROVE Under(0)[j].reg # v.reg
  <2>1. \A i \in N - 0 + 1 .. N : todo[i].bank = "int"
    BY <1>2
  <2> QED
    BY <1>2, <1>4, <1>7, <1>9, <1>10, <2>1, FreshApart
<1>11. \A k \in 1 .. N - 0 : todo[k].kind = "for" => todo[k].at = "reg"
  <2>1. N \in 0 .. N /\ (N = 0 \/ todo[N].kind = "stop")
    BY <1>1, <1>2 DEF AtStatement, TopIs, Top
  <2> QED
    BY <1>2, <2>1, StatementFors
<1>12. /\ t \in CalmMachine /\ t.sp = st.sp /\ t.word = st.word /\ v.reg \in t.reglist
       /\ \A x \in st.reglist : x # v.reg => t.reg[x] = st.reg[x]
  BY <1>5, <1>7 DEF Untouched
<1> QED
  BY <1>1, <1>2, <1>4, <1>6, <1>7, <1>8, <1>9, <1>10, <1>11, <1>12, NewKeeps

LEMMA ForInitKeeps ==
  ASSUME IInv, OInv, orderly, IInv', ForInit
  PROVE  OInv'
<1> DEFINE for == todo[N - 1]
           x == Copy(st, Top, N - 1)
           s == Put(st, for.reg, x)
           v == [for EXCEPT !.at = "reg"]
           t == FreeExpr(s, Top)
<1>1. ValueOn({"for"}) /\ Top.bank = "int" /\ for.at = "none" /\ Become(t, Append(Under(2), v))
  BY DEF ForInit
<1>2. /\ N - 1 \in Tags /\ Top \in Entries /\ ~IsMarker(Top) /\ ~IsArg(Top) /\ Top = todo[N]
      /\ for \in Entries /\ for.kind = "for" /\ ~IsMarker(for)
  BY <1>1, ValueOnIs, TopTwo
<1>3. /\ N \in Nat /\ N > 1 /\ 2 \in 0 .. N /\ N - 1 \in 1 .. N /\ N \in 1 .. N
      /\ Open(todo, N - 2 + 1, N) /\ Open(todo, N - 1, N) /\ Open(todo, N + 1, N) /\ N - 2 + 1 = N - 1
  BY <1>1, TwoOpen
<1>4. for.reg \in Regs /\ for \in Plain
  BY <1>2, PlainHas
<1>5. v \in Entries /\ ~IsMarker(v) /\ v.kind = "for" /\ v.reg = for.reg /\ v.at = "reg" /\ v.bank = for.bank /\ v.tag = for.tag
  <2>1. v \in Plain /\ v.kind = "for" /\ v.reg = for.reg /\ v.at = "reg" /\ v.bank = for.bank /\ v.tag = for.tag
    <3> HIDE DEF for
    <3> QED
      BY <1>2, <1>4 DEF Plain
  <2> HIDE DEF v, for
  <2> QED
    BY <1>4, <2>1 DEF Entries, IsMarker, IsCall
<1>6. GeneralAt(todo, N - 1) /\ TaggedAt(todo, N - 1)
  BY <1>3, Ready DEF Static, StaticAt, N
<1>7. for.reg \in BankRegs("int") \ Reserved /\ for.bank = "int" /\ for.tag = N - 1
  BY <1>2, <1>6 DEF GeneralAt, TaggedAt
<1>8. st \in CalmMachine
  BY Ready
<1>9. x = N - 1
  <2>1. Untouched(st, st)
    BY <1>8 DEF Untouched
  <2>2. Holds(st, Top)
    BY <1>2, <1>3, <2>1, OperandHolds
  <2> QED
    BY <2>2 DEF Copy
<1> HIDE DEF x, v
<1>10. /\ s \in CalmMachine /\ s.reg[for.reg] = N - 1 /\ s.word = st.word /\ s.sp = st.sp
       /\ \A y \in Regs \ {for.reg} : s.reg[y] = st.reg[y]
  <2>1. s \in CalmMachine /\ s.reg[for.reg] = x /\ s.word = st.word /\ s.sp = st.sp
        /\ \A y \in Regs \ {for.reg} : s.reg[y] = st.reg[y]
    <3>1. x \in Tags
      BY <1>2, <1>9
    <3> HIDE DEF for
    <3> QED
      BY <1>4, <1>8, <3>1, PutCalm
  <2> QED
    BY <1>9, <2>1
<1> HIDE DEF s
<1>11. t \in CalmMachine /\ t.reg = s.reg /\ t.word = s.word /\ t.sp = s.sp
  BY <1>2, <1>10, FreeExprKeeps DEF Untouched
<1> HIDE DEF t
<1>12. ASSUME NEW j \in 1 .. N - 2, Open(Under(2), j + 1, N - 2), Uses(Under(2), j, N - 2) PROVE Under(2)[j].reg # v.reg
  <2>1. Under(2)[j] = todo[j] /\ Open(todo, j + 1, N) /\ Uses(todo, j, N - 2)
    BY <1>3, <1>12, UnderIs
  <2>2. j \in 1 .. N - 1 - 1 /\ Uses(todo, j, N - 1 - 1)
    BY <1>3, <2>1
  <2>3. Uses(todo, N - 1, N - 1)
    <3>1. \A i \in N - 1 + 1 .. N - 1 : FALSE
      BY <1>3
    <3> QED
      BY <1>2, <3>1 DEF Uses
  <2>4. ~IsCounter(todo[N - 1])
    BY <1>2 DEF IsCounter
  <2>5. todo[j].reg # todo[N - 1].reg
    BY <1>3, <2>1, <2>2, <2>3, <2>4, OwnApart
  <2> QED
    BY <1>5, <2>1, <2>5
<1>13. \A k \in 1 .. N - 2 : todo[k].kind = "for" => todo[k].at = "reg"
  <2>1. \A k \in 1 .. N - 2 : k \in 1 .. N - 1 - 1
    BY <1>3
  <2> QED
    BY <1>2, <1>3, <2>1, BelowStop
<1>14. t.sp = st.sp /\ t.word = st.word /\ t.reg[v.reg] = v.tag /\ \A y \in st.reglist : y # v.reg => t.reg[y] = st.reg[y]
  <2>1. st.reglist \subseteq Regs
    BY <1>8, CalmHas
  <2> QED
    BY <1>5, <1>7, <1>10, <1>11, <2>1
<1>15. v.tag = N - 2 + 1 /\ v.reg \in BankRegs("int") \ Reserved /\ v.bank = "int"
  BY <1>3, <1>5, <1>7
<1> QED
  BY <1>1, <1>3, <1>5, <1>11, <1>12, <1>13, <1>14, <1>15, NewKeeps

LEMMA ForStopKeeps ==
  ASSUME IInv, OInv, orderly, IInv', ForStop
  PROVE  OInv'
<1> DEFINE r == RegOf(st, Top, FALSE)
           t == Load(st, Top, FALSE, N)
           v == Item("stop", "reg", r, N, "int", FALSE)
<1>1. ValueOn({"for"}) /\ Top.bank = "int" /\ todo[N - 1].at = "reg" /\ Become(t, Append(Under(1), v))
  BY DEF ForStop
<1>2. /\ N \in Tags /\ Top \in Entries /\ ~IsMarker(Top) /\ ~IsArg(Top) /\ Top = todo[N] /\ Top.kind = "value"
      /\ todo[N - 1].kind = "for"
  BY <1>1, ValueOnIs, Basics
<1>3. /\ N \in Nat /\ N > 1 /\ 1 \in 0 .. N /\ N - 1 \in 1 .. N /\ N \in 1 .. N
      /\ Open(todo, N - 1 + 1, N) /\ Open(todo, N, N) /\ Open(todo, N + 1, N) /\ N - 1 + 1 = N
  BY <1>1, TwoOpen
<1>4. "int" \in BothBanks /\ st \in CalmMachine /\ HasSpare(st) /\ FreeRegs(st, Top.bank) # {}
  BY <1>1, Ready DEF BothBanks
<1>5. /\ Untouched(st, t) /\ r \in Regs
      /\ InReg(Top, FALSE) => t = st /\ r = Top.reg
      /\ ~InReg(Top, FALSE) =>
           r = NextReg(st, Top.bank) /\ r \in BankRegs(Top.bank) /\ r \notin st.reglist /\ t.reg[r] = Copy(st, Top, N)
  <2>1. N \in Tags /\ Top \in Entries /\ ~IsMarker(Top)
    BY <1>2
  <2> QED
    BY <1>4, <2>1, LoadKeeps
<1>6. v \in Entries /\ ~IsMarker(v)
  <2>1. v \in Plain
    BY <1>3, <1>5 DEF Item, Plain, BothBanks
  <2> QED
    BY <1>5, <2>1 DEF Item, Entries, IsMarker, IsCall
<1>7. v.kind = "stop" /\ v.at = "reg" /\ v.bank = "int" /\ v.tag = N /\ v.reg = r
  BY DEF Item
<1> HIDE DEF v, r, t
<1>8. Untouched(st, st)
  BY <1>4 DEF Untouched
<1>9. r \in BankRegs("int") \ Reserved /\ t.reg[r] = N
  <2>1. CASE InReg(Top, FALSE)
    <3>1. GeneralAt(todo, N) /\ TaggedAt(todo, N)
      BY <1>3, Ready DEF Static, StaticAt, N
    <3>2. Top.at = "reg" /\ ~IsCounter(Top)
      BY <2>1 DEF InReg, IsCounter
    <3>3. Top.tag = N /\ Top.reg \in BankRegs("int") \ Reserved
      BY <1>1, <1>2, <3>1, <3>2 DEF GeneralAt, TaggedAt
    <3>4. st.reg[Top.reg] = Top.tag
      BY <1>2, <1>3, <1>8, <3>2, OperandHolds
    <3> QED
      BY <1>5, <2>1, <3>3, <3>4
  <2>2. CASE ~InReg(Top, FALSE)
    <3>1. Holds(st, Top)
      BY <1>2, <1>3, <1>8, OperandHolds
    <3>2. Copy(st, Top, N) = N
      BY <3>1 DEF Copy
    <3> QED
      BY <1>1, <1>4, <1>5, <2>2, <3>2, SpareIs
  <2> QED
    BY <2>1, <2>2
<1>10. \A k \in 1 .. N - 1 : todo[k].kind = "for" => todo[k].at = "reg"
  <2>1. \A k \in 1 .. N - 1 : k = N - 1 \/ k \in 1 .. N - 1 - 1
    BY <1>3
  <2> QED
    BY <1>1, <1>2, <1>3, <2>1, BelowStop
<1>11. ASSUME NEW j \in 1 .. N - 1, Open(Under(1), j + 1, N - 1), Uses(Under(1), j, N - 1) PROVE Under(1)[j].reg # v.reg
  <2>1. Under(1)[j] = todo[j] /\ Open(todo, j + 1, N) /\ Uses(todo, j, N - 1)
    BY <1>3, <1>11, UnderIs
  <2>2. CASE InReg(Top, FALSE)
    <3>1. Uses(todo, N, N) /\ ~IsCounter(todo[N])
      BY <1>2, <2>2 DEF InReg, IsCounter, Uses
    <3>2. todo[j].reg # todo[N].reg
      BY <1>3, <2>1, <3>1, OwnApart
    <3> QED
      BY <1>2, <1>5, <1>7, <2>1, <2>2, <3>2
  <2>3. CASE ~InReg(Top, FALSE)
    <3>1. \A i \in N - 1 + 1 .. N : todo[i].bank = Top.bank
      <4>1. \A i \in N - 1 + 1 .. N : i = N
        BY <1>3
      <4> QED
        BY <1>2, <4>1
    <3> QED
      BY <1>1, <1>3, <1>4, <1>5, <1>7, <1>11, <2>3, <3>1, FreshApart
  <2> QED
    BY <2>2, <2>3
<1>12. t \in CalmMachine /\ t.sp = st.sp /\ t.word = st.word /\ \A y \in st.reglist : y # v.reg => t.reg[y] = st.reg[y]
  BY <1>5 DEF Untouched
<1> QED
  BY <1>1, <1>3, <1>6, <1>7, <1>9, <1>10, <1>11, <1>12, NewKeeps

LEMMA ForEndKeeps ==
  ASSUME IInv, OInv, orderly, IInv', ForEnd
  PROVE  OInv'
<1> DEFINE s == Free(st, todo[N - 1].reg)
           t == Free(s, Top.reg)
<1>1. TopIs("stop") /\ Become(t, Under(2))
  BY DEF ForEnd
<1>2. N \in Nat /\ N > 0 /\ N \in 1 .. N /\ N = Len(todo) /\ Top = todo[N] /\ Top.kind = "stop" /\ Shape(todo)
  BY <1>1, Basics DEF TopIs, Top
<1>3. N > 1 /\ todo[N - 1].kind = "for"
  BY <1>2 DEF Shape, StopsOnFors
<1>4. N - 1 \in 1 .. N /\ 2 \in 0 .. N /\ Top \in Entries /\ todo[N - 1] \in Entries
  BY <1>2, <1>3, Basics
<1>5. ~IsMarker(Top) /\ ~IsMarker(todo[N - 1])
  BY <1>2, <1>3 DEF IsMarker, IsCall
<1>6. Top.reg \in Regs /\ todo[N - 1].reg \in Regs
  BY <1>2, <1>3, <1>4, <1>5, PlainHas
<1>7. st \in CalmMachine
  BY Ready
<1>8. s \in CalmMachine /\ s.reg = st.reg /\ s.word = st.word /\ s.sp = st.sp
  BY <1>6, <1>7, FreeKeeps DEF Untouched
<1> HIDE DEF s
<1>9. t \in CalmMachine /\ t.reg = s.reg /\ t.word = s.word /\ t.sp = s.sp
  BY <1>6, <1>8, FreeKeeps DEF Untouched
<1> HIDE DEF t
<1>10. Untouched(st, t)
  BY <1>8, <1>9 DEF Untouched
<1>11. Open(todo, N - 2 + 1, N)
  <2>1. \A i \in N - 2 + 1 .. N : i = N \/ i = N - 1
    BY <1>2, <1>3
  <2> QED
    BY <1>2, <1>5, <2>1 DEF Open
<1>12. \A k \in 1 .. N - 2 : todo[k].kind = "for" => todo[k].at = "reg"
  <2>1. \A k \in 1 .. N - 2 : k \in 1 .. N
    BY <1>2
  <2>2. \A k \in 1 .. N - 2 : k \in 1 .. N - 1
    BY <1>2
  <2> QED
    BY <1>2, <2>1, <2>2, BelowStop
<1> QED
  BY <1>1, <1>4, <1>10, <1>11, <1>12, PopKeeps

-----------------------------------------------------------------------------
(* Calls and WRITE begin *)

LEMMA SpAfter ==
  ASSUME IInv', NEW t \in Machine, NEW q, Become(t, q)
  PROVE  t.sp \in Words /\ StackOK(q, t.sp)
<1>1. st' = Forget(t, Len(q)) /\ todo' = q
  BY DEF Become
<1>2. st'.sp = t.sp
  BY <1>1 DEF Forget, Machine
<1> QED
  BY <1>1, <1>2 DEF IInv, Machined, Stacked

\* A call that saves what was taken, each register in its place.
LEMMA CallBegins ==
  ASSUME IInv, OInv, orderly, IInv', NEW m \in Entries, IsMarker(m), m.at = "none", m.sp = st.sp,
         m.ret \subseteq BankRegs(m.bank) \ Reserved, m.saved \cap (Reserved \cup m.ret) = {},
         \A x \in st.reglist : x \in Reserved \/ x \in m.saved,
         NEW t \in CalmMachine, m.sp + Cardinality(m.saved) <= t.sp,
         \A w \in Words : w <= st.sp => t.word[w] = st.word[w],
         \A r \in m.saved : t.word[SavePlace(m, r)] = st.reg[r],
         Become(t, Append(todo, m))
  PROVE  OInv'
<1> DEFINE q == Append(todo, m)
           n == N + 1
<1>1. /\ N \in Nat /\ N = Len(todo) /\ todo \in Seq(Entries) /\ Levels(todo) /\ n \in Nat /\ n - 1 = N
      /\ Len(q) = n /\ q[n] = m /\ \A i \in 1 .. N : q[i] = todo[i]
  <2>1. N \in Nat /\ N = Len(todo) /\ todo \in Seq(Entries) /\ Levels(todo)
    BY Basics DEF StackOK
  <2> QED
    BY <2>1, Pushed
<1>2. /\ Held(st, todo) /\ Static(todo) /\ st.sp \in Words
      /\ \A k \in 1 .. N : Open(todo, k + 1, N) /\ Uses(todo, k, N) => todo[k].reg \in st.reglist
  BY Ready
<1>3. BelowSp(todo, N + 1, st.sp) /\ SavedHold(st, todo) /\ WordsHold(st, todo) /\ RegsHold(st, todo)
  BY <1>1, <1>2 DEF Held
<1>4. SavedHold(t, todo) /\ WordsHold(t, todo)
  <2>1. \A w : Place(todo, w) => w \in Words /\ w <= st.sp
    BY <1>1, <1>2, <1>3, PlacesBelow
  <2>2. \A w : Place(todo, w) => t.word[w] = st.word[w]
    BY <2>1
  <2> QED
    BY <1>1, <1>2, <1>3, <2>2, WordsKept
<1>5. m.kind \in {"fn", "proc", "write"} /\ m.sp \in Int /\ Cardinality(m.saved) \in Nat
  BY MarkerHas DEF IsMarker, IsCall
<1>6. BelowSp(todo, Len(todo) + 1, t.sp)
  <2>1. t.sp \in Words /\ st.sp <= t.sp
    <3>1. t.sp \in Words
      BY SpAfter DEF CalmMachine
    <3> QED
      BY <1>5, <3>1, ConstantsOK DEF Words
  <2> QED
    BY <1>1, <1>2, <1>3, <2>1, BelowMore
<1> HIDE DEF q, n
<1>7. ASSUME NEW i \in 1 .. N, Open(q, i + 1, N), Uses(q, i, N)
      PROVE  todo[i].reg \in st.reglist /\ todo[i].reg \in m.saved /\ Open(todo, i + 1, N)
  <2>1. \A j \in i + 1 .. N : j \in 1 .. N
    BY <1>1
  <2>2. Open(todo, i + 1, N) /\ Uses(todo, i, N)
    BY <1>1, <1>7, <2>1 DEF Open, Uses
  <2>3. todo[i].reg \in st.reglist
    BY <1>2, <2>2
  <2>4. todo[i].reg \notin Reserved
    BY <1>1, <1>2, <2>2 DEF Static, StaticAt, GeneralAt, Uses
  <2> QED
    BY <2>2, <2>3, <2>4
<1>8. /\ GeneralAt(q, n) /\ TaggedAt(q, n) /\ OneFirstAt(q, n) /\ WordsAreArgsAt(q, n)
  <2>1. ~IsCounter(m)
    BY <1>5 DEF IsCounter
  <2> QED
    BY <1>1, <1>5, <2>1 DEF GeneralAt, TaggedAt, OneFirstAt, WordsAreArgsAt
<1>9. ApartAt(q, n)
  BY <1>1, <1>5 DEF ApartAt, Uses
<1>10. LowAt(q, n)
  <2>1. BelowSp(q, n, m.sp)
    <3>1. \A i \in 1 .. n - 1 : i \in 1 .. N + 1 - 1 /\ i \in 1 .. N
      BY <1>1
    <3> QED
      BY <1>1, <1>3, <3>1 DEF BelowSp
  <2> QED
    BY <1>1, <2>1 DEF LowAt
<1>11. PlacedAt(q, n)
  <2>1. ~IsArg(m)
    BY <1>5 DEF IsArg
  <2>2. \A j \in 1 .. n - 1 : n \in j + 1 .. n
    BY <1>1
  <2> QED
    BY <1>1, <2>1, <2>2 DEF PlacedAt
<1>12. AllSavedAt(q, n)
  BY <1>1, <1>7 DEF AllSavedAt
<1>13. StaticAt(q, n)
  BY <1>8, <1>9, <1>10, <1>11, <1>12 DEF StaticAt
<1>14. SavedHoldAt(t, q, n)
  <2> SUFFICES ASSUME NEW i \in 1 .. n - 1, Open(q, i + 1, n - 1), q[i].at = "reg"
               PROVE  t.word[SavePlace(q[n], q[i].reg)] = q[i].tag
    BY DEF SavedHoldAt
  <2>1. i \in 1 .. N /\ Open(q, i + 1, N) /\ Uses(q, i, N) /\ q[i] = todo[i]
    BY <1>1 DEF Uses
  <2>2. todo[i].reg \in m.saved /\ Open(todo, i + 1, N)
    BY <1>7, <2>1
  <2>3. st.reg[todo[i].reg] = todo[i].tag
    BY <1>1, <1>3, <2>1, <2>2 DEF RegsHold
  <2> QED
    BY <1>1, <2>1, <2>2, <2>3
<1>15. Held(t, q) /\ ForsTaken(t, q)
  BY <1>1, <1>2, <1>4, <1>6, <1>13, <1>14, MarkHeld DEF q, n
<1>16. Kept(t, q)
  BY <1>15 DEF Kept, CalmMachine
<1>17. t.sp \in Words
  BY SpAfter DEF CalmMachine
<1> QED
  BY <1>16, <1>17, BecomesKept DEF q

\* The words that a call saves in are there.
LEMMA PlaceThere ==
  ASSUME NEW rs, rs \subseteq Regs, NEW r \in rs, NEW sp \in Words, NEW x \in Words, sp + Cardinality(rs) <= x
  PROVE  sp + Below(rs, r) \in Words
<1>1. PICK b \in Nat : b = Below(rs, r) /\ b <= Cardinality(rs)
  BY BelowIn
<1>2. PICK n \in Nat : n = Cardinality(rs)
  BY BelowIn
<1>3. sp + b \in Words
  BY <1>1, <1>2, ConstantsOK DEF Words
<1> QED
  BY <1>1, <1>3

LEMMA CallFunctionKeeps ==
  ASSUME IInv, OInv, orderly, IInv', NEW p \in ArgCounts, NEW b \in Banks, CallFunction(p, b)
  PROVE  OInv'
<1> DEFINE up == st.sp + StackArgs(p)
           spaced == [st EXCEPT !.sp = @ + StackArgs(p)]
           r == NextReg(spaced, b)
           ret == {r}
           taken == Allocate(spaced, b)
           saved == Saved(taken, ret)
           m == Marker("fn", ret, b, saved, p)
           t == Save(taken, ret)
           q == Append(todo, m)
<1>1. Become(t, q)
  BY DEF CallFunction
<1>2. b \in BothBanks /\ StackArgs(p) \in Nat /\ st.sp \in Int /\ up \in Int
  BY BanksIn, Basics, ConstantsOK DEF StackArgs
<1>3. st \in CalmMachine /\ HasSpare(st)
  BY Ready
<1>4. spaced \in CalmMachine /\ spaced.sp = up /\ spaced.reg = st.reg /\ spaced.word = st.word /\ spaced.reglist = st.reglist
  <2>1. spaced = [st EXCEPT !.sp = up]
    OBVIOUS
  <2> HIDE DEF up, spaced
  <2> QED
    BY <1>2, <1>3, <2>1, MoveCalm
<1> HIDE DEF spaced
<1>5. r \in BankRegs(b) \ Reserved /\ r \in Regs /\ r \notin st.reglist /\ FreeRegs(spaced, b) # {}
  <2>1. HasSpare(spaced)
    BY <1>3, <1>4 DEF HasSpare, FreeRegs
  <2> QED
    BY <1>2, <1>4, <2>1, SpareIs
<1>6. /\ taken \in CalmMachine /\ taken.sp = up /\ taken.word = st.word /\ taken.reg = st.reg
      /\ taken.reglist = st.reglist \cup ret
  BY <1>2, <1>4, <1>5, AllocateKeeps DEF Untouched
<1>7. saved = st.reglist \ (Reserved \cup ret)
  BY <1>6 DEF Saved
<1> HIDE DEF taken
<1>8. /\ saved \subseteq Regs /\ t \in CalmMachine /\ t.reg = st.reg /\ t.sp = up + Cardinality(saved)
      /\ \A w \in Words : w <= up => t.word[w] = st.word[w]
      /\ \A x \in saved : up + Below(saved, x) \in Words => t.word[up + Below(saved, x)] = st.reg[x]
  <2> HIDE DEF ret, up
  <2> QED
    BY <1>6, SaveKeeps
<1> HIDE DEF t, up
<1>9. m \in Entries /\ IsMarker(m) /\ m.sp = st.sp /\ m.saved = saved /\ m.kind = "fn" /\ Cardinality(saved) \in Nat
  <2>1. ret \in SUBSET Regs /\ saved \in SUBSET Regs /\ \E x \in Regs : ret = {x}
    BY <1>5, <1>8
  <2> HIDE DEF ret, saved
  <2> QED
    BY <1>2, <2>1, MarkerIn
<1>10. m.at = "none" /\ m.ret = ret /\ m.bank = b /\ m.params = p
  BY DEF Marker
<1> HIDE DEF m, saved
<1>11. CASE ~Orderly'
  BY <1>1, <1>11, Disorder
<1>12. CASE Orderly'
  <2>1. t.sp \in Words
    BY <1>1, <1>8, SpAfter DEF CalmMachine
  <2>2. st.sp \in Words
    BY Ready
  <2>3. \A w \in Words : w <= st.sp => t.word[w] = st.word[w]
    <3>1. \A w \in Words : w <= st.sp => w <= up
      BY <1>2, <2>2, ConstantsOK DEF Words, up
    <3> QED
      BY <1>8, <3>1
  <2>4. st.sp + Cardinality(saved) <= t.sp
    BY <1>2, <1>8, <1>9 DEF up
  <2>5. StackArgs(p) > 0 => saved = {}
    <3>1. N \in Nat /\ N = Len(todo) /\ todo \in Seq(Entries)
      BY Basics
    <3>2. Len(q) = N + 1 /\ q[N + 1] = m /\ N + 1 \in 1 .. N + 1
      BY <1>9, <3>1, Pushed
    <3>3. todo' = q
      BY <1>1 DEF Become
    <3> HIDE DEF q
    <3>4. SavesAreSmall'
      BY <1>12 DEF Orderly
    <3> QED
      BY <1>9, <1>10, <3>2, <3>3, <3>4 DEF SavesAreSmall, N
  <2>6. ASSUME NEW x \in m.saved PROVE t.word[SavePlace(m, x)] = st.reg[x]
    <3>1. up = st.sp
      BY <1>2, <1>9, <2>5, <2>6 DEF up
    <3>2. SavePlace(m, x) = st.sp + Below(saved, x)
      BY <1>9, SavePlaceIn
    <3>3. st.sp + Below(saved, x) \in Words
      BY <1>8, <1>9, <2>1, <2>2, <2>4, PlaceThere
    <3> QED
      BY <1>8, <1>9, <3>1, <3>2, <3>3
  <2>7. m.ret \subseteq BankRegs(m.bank) \ Reserved /\ m.saved \cap (Reserved \cup m.ret) = {}
    BY <1>5, <1>7, <1>9, <1>10
  <2>8. \A x \in st.reglist : x \in Reserved \/ x \in m.saved
    BY <1>5, <1>7, <1>9
  <2> QED
    BY <1>1, <1>8, <1>9, <1>10, <2>3, <2>4, <2>6, <2>7, <2>8, CallBegins
<1> QED
  BY <1>11, <1>12

\* A procedure, or WRITE, which leaves no words for arguments.
LEMMA SaveAllKeeps ==
  ASSUME IInv, OInv, orderly, IInv', NEW m \in Entries, IsMarker(m), m.at = "none", m.sp = st.sp,
         m.saved = Saved(st, {}), m.ret = {}, NEW more \in Nat,
         Become([Save(st, {}) EXCEPT !.sp = @ + more], Append(todo, m))
  PROVE  OInv'
<1> DEFINE saved == Saved(st, {})
           s == Save(st, {})
           t == [s EXCEPT !.sp = @ + more]
           n == Cardinality(saved)
<1>1. st \in CalmMachine /\ st.sp \in Words
  BY Ready
<1>2. /\ saved \subseteq Regs /\ s \in CalmMachine /\ s.reg = st.reg /\ s.sp = st.sp + n
      /\ \A w \in Words : w <= st.sp => s.word[w] = st.word[w]
      /\ \A x \in saved : st.sp + Below(saved, x) \in Words => s.word[st.sp + Below(saved, x)] = st.reg[x]
  BY <1>1, SaveKeeps
<1>3. saved = st.reglist \ Reserved
  BY DEF Saved
<1> HIDE DEF s, saved
<1>4. n \in Nat /\ st.sp \in Int /\ s.sp \in Int
  BY <1>2, RegsFinite, CalmHas, <1>1
<1> HIDE DEF n
<1>5. t \in CalmMachine /\ t.sp = s.sp + more /\ t.word = s.word
  <2>1. s.sp + more \in Int
    BY <1>4
  <2> QED
    BY <1>2, <2>1, MoveCalm
<1> HIDE DEF t
<1>6. t.sp \in Words
  BY <1>5, SpAfter DEF CalmMachine, t, s
<1>7. st.sp + n <= t.sp
  BY <1>2, <1>4, <1>5
<1>8. ASSUME NEW x \in m.saved PROVE t.word[SavePlace(m, x)] = st.reg[x]
  <2>1. x \in saved /\ m.saved = saved
    BY DEF saved
  <2>2. SavePlace(m, x) = st.sp + Below(saved, x)
    BY <2>1, SavePlaceIn
  <2>3. st.sp + Below(saved, x) \in Words
    BY <1>1, <1>2, <1>6, <1>7, <2>1, PlaceThere DEF n
  <2> QED
    BY <1>2, <1>5, <2>1, <2>2, <2>3
<1>9. m.sp + Cardinality(m.saved) <= t.sp
  BY <1>7 DEF n, saved
<1>10. m.ret \subseteq BankRegs(m.bank) \ Reserved /\ m.saved \cap (Reserved \cup m.ret) = {}
  BY <1>3 DEF saved
<1>11. \A x \in st.reglist : x \in Reserved \/ x \in m.saved
  BY <1>3 DEF saved
<1>12. \A w \in Words : w <= st.sp => t.word[w] = st.word[w]
  BY <1>2, <1>5
<1>13. Become(t, Append(todo, m))
  BY DEF t, s
<1> QED
  BY <1>5, <1>8, <1>9, <1>10, <1>11, <1>12, <1>13, CallBegins

LEMMA CallProcedureKeeps ==
  ASSUME IInv, OInv, orderly, IInv', NEW p \in ArgCounts, CallProcedure(p)
  PROVE  OInv'
<1> DEFINE saved == Saved(st, {})
           m == Marker("proc", {}, "int", saved, p)
<1>1. Become([Save(st, {}) EXCEPT !.sp = @ + StackArgs(p)], Append(todo, m))
  BY DEF CallProcedure
<1>2. StackArgs(p) \in Nat /\ saved \in SUBSET Regs
  BY Basics, SavedIn, ConstantsOK DEF StackArgs
<1>3. m \in Entries /\ IsMarker(m) /\ m.sp = st.sp /\ m.saved = saved
  <2>1. "proc" \in {"fn", "proc", "write"} /\ "int" \in BothBanks /\ {} \in SUBSET Regs /\ p \in ArgCounts \cup {0}
    BY DEF BothBanks
  <2>2. IF "proc" = "fn" THEN \E r \in Regs : {} = {r} ELSE {} = {}
    OBVIOUS
  <2> HIDE DEF saved
  <2> QED
    BY <1>2, <2>1, <2>2, MarkerIn
<1>4. m.at = "none" /\ m.ret = {}
  BY DEF Marker
<1> HIDE DEF m
<1> QED
  BY <1>1, <1>2, <1>3, <1>4, SaveAllKeeps

LEMMA WriteStartKeeps ==
  ASSUME IInv, OInv, orderly, IInv', WriteStart
  PROVE  OInv'
<1> DEFINE saved == Saved(st, {})
           s == Save(st, {})
           m == Marker("write", {}, "int", saved, 0)
<1>1. Become(s, Append(todo, m))
  BY DEF WriteStart
<1>2. saved \in SUBSET Regs
  BY Basics, SavedIn
<1>3. m \in Entries /\ IsMarker(m) /\ m.sp = st.sp /\ m.saved = saved
  <2>1. "write" \in {"fn", "proc", "write"} /\ "int" \in BothBanks /\ {} \in SUBSET Regs /\ 0 \in ArgCounts \cup {0}
    BY DEF BothBanks
  <2>2. IF "write" = "fn" THEN \E r \in Regs : {} = {r} ELSE {} = {}
    OBVIOUS
  <2> HIDE DEF saved
  <2> QED
    BY <1>2, <2>1, <2>2, MarkerIn
<1>4. m.at = "none" /\ m.ret = {}
  BY DEF Marker
<1>5. [s EXCEPT !.sp = @ + 0] = s
  <2>1. s \in Machine
    BY Ready, SaveKeeps DEF CalmMachine
  <2> HIDE DEF s
  <2>2. s.sp + 0 = s.sp
    BY <2>1 DEF Machine
  <2> QED
    BY <2>1, <2>2 DEF Machine
<1> HIDE DEF m
<1>6. Become([Save(st, {}) EXCEPT !.sp = @ + 0], Append(todo, m))
  BY <1>1, <1>5
<1> QED
  BY <1>3, <1>4, <1>6, SaveAllKeeps

-----------------------------------------------------------------------------
(* Arguments *)

\* Below an argument to be: the call, and the arguments it has so far.
LEMMA ArgSetup ==
  ASSUME IInv, OInv, orderly, NEW kinds, kinds \subseteq {"fn", "proc", "write"}, ArgDone(kinds)
  PROVE  /\ N \in Nat /\ N > 1 /\ N - 1 \in Nat /\ Inner \in 1 .. N - 1 /\ IsMarker(todo[Inner]) /\ todo[Inner] \in Entries
         /\ Under(1) \in Seq(Entries) /\ Len(Under(1)) = N - 1 /\ \A j \in 1 .. N - 1 : Under(1)[j] = todo[j]
         /\ Held(st, Under(1)) /\ Open(todo, N, N)
         /\ \A j \in 1 .. N - 1 : Open(Under(1), j + 1, N - 1) => j = Inner \/ j \in Inner + 1 .. N - 1
         /\ \A j \in Inner + 1 .. N - 1 :
              /\ j \in 1 .. N - 1 /\ IsArg(todo[j]) /\ ArgAt(todo[Inner], j - Inner, todo[j])
              /\ Open(todo, j + 1, N) /\ todo[j] \in Entries /\ ~IsMarker(todo[j])
<1> DEFINE p == Under(1)
<1>1. /\ Top \in Entries /\ ~IsMarker(Top) /\ N \in Nat /\ Inner \in 1 .. N - 1 /\ IsMarker(todo[Inner])
      /\ todo[Inner] \in Entries /\ \A i \in Inner + 1 .. N - 1 : IsArg(p[i])
  BY ArgTop
<1>2. N > 1 /\ 1 \in 0 .. N /\ N - 1 \in Nat /\ N - 1 + 1 = N /\ \A i \in N .. N : i = N
  BY <1>1
<1>3. Open(todo, N, N)
  BY <1>1, <1>2 DEF Open, Top
<1>4. N = Len(todo) /\ todo \in Seq(Entries)
  BY Basics
<1>5. Open(todo, N - 1 + 1, N)
  BY <1>2, <1>3
<1>6. Len(p) = N - 1 /\ p \in Seq(Entries) /\ \A j \in 1 .. N - 1 : p[j] = todo[j] /\ j \in 1 .. N
  BY <1>2, <1>5, UnderIs
<1>7. Held(st, p)
  <2>1. Held(st, todo) /\ N - 1 \in 0 .. Len(todo) /\ Open(todo, N - 1 + 1, Len(todo)) /\ p = SubSeq(todo, 1, N - 1)
    BY <1>1, <1>2, <1>4, <1>5, Ready DEF Under
  <2> HIDE DEF p
  <2> QED
    BY <1>4, <2>1, CutHeld
<1>8. ASSUME NEW j \in 1 .. N - 1, Open(p, j + 1, N - 1) PROVE j = Inner \/ j \in Inner + 1 .. N - 1
  <2>1. j < Inner => Inner \in j + 1 .. N - 1
    BY <1>1, <1>2
  <2>2. ~(j < Inner)
    BY <1>1, <1>6, <1>8, <2>1 DEF Open
  <2> QED
    BY <1>1, <1>2, <2>2
<1>9. ASSUME NEW j \in Inner + 1 .. N - 1
      PROVE  /\ j \in 1 .. N - 1 /\ IsArg(todo[j]) /\ ArgAt(todo[Inner], j - Inner, todo[j])
             /\ Open(todo, j + 1, N) /\ todo[j] \in Entries /\ ~IsMarker(todo[j])
  <2>1. j \in 1 .. N - 1 /\ j \in 1 .. N /\ Inner \in 1 .. j - 1
    BY <1>1, <1>2
  <2>2. \A i \in Inner + 1 .. N - 1 : i \in 1 .. N - 1 /\ IsArg(todo[i])
    <3>1. \A i \in Inner + 1 .. N - 1 : i \in 1 .. N - 1
      BY <1>1, <1>2
    <3> QED
      BY <1>1, <1>6, <3>1
  <2>3. \A i \in Inner + 1 .. j : i \in Inner + 1 .. N - 1
    BY <1>1, <1>2
  <2>4. ArgAt(todo[Inner], j - Inner, todo[j])
    <3>1. PlacedAt(todo, j)
      BY <1>4, <2>1, Ready DEF Static, StaticAt
    <3> QED
      BY <1>1, <2>1, <2>2, <2>3, <3>1 DEF PlacedAt
  <2>5. Open(todo, j + 1, N)
    <3>1. \A i \in j + 1 .. N : i \in Inner + 1 .. N - 1 \/ i = N
      BY <1>1, <1>2
    <3>2. \A i \in Inner + 1 .. N - 1 : ~IsMarker(todo[i])
      BY <2>2 DEF IsArg, IsMarker, IsCall
    <3> QED
      BY <1>1, <3>1, <3>2 DEF Open, Top
  <2>6. todo[j] \in Entries /\ ~IsMarker(todo[j])
    BY <2>1, <2>2, Basics DEF IsArg, IsMarker, IsCall
  <2> QED
    BY <2>1, <2>2, <2>4, <2>5, <2>6
<1> HIDE DEF p
<1> QED
  BY <1>1, <1>2, <1>3, <1>6, <1>7, <1>8, <1>9 DEF p

\* Two register arguments of one call are in two registers.
LEMMA ArgsApart ==
  ASSUME NEW m, NEW i \in Nat, NEW j \in Nat, i > 0, j > 0, NEW a, NEW b, ArgAt(m, i, a), ArgAt(m, j, b),
         a.at = "reg", b.at = "reg", a.reg = b.reg
  PROVE  i = j
<1>1. i <= ArgRegs /\ j <= ArgRegs /\ a.reg = First(a.bank) + i - 1 /\ b.reg = First(b.bank) + j - 1
  BY DEF ArgAt
<1>2. First(a.bank) \in {0, RegCount} /\ First(b.bank) \in {0, RegCount}
  BY DEF First
<1>3. PICK x \in {0, RegCount}, y \in {0, RegCount} : x = First(a.bank) /\ y = First(b.bank)
  BY <1>2
<1>4. x + i - 1 = y + j - 1
  BY <1>1, <1>3
<1> QED
  BY <1>1, <1>3, <1>4, ConstantsOK

LEMMA ArgStatic ==
  ASSUME IInv, OInv, orderly, NEW kinds, kinds \subseteq {"fn", "proc", "write"}, ArgDone(kinds),
         NEW a \in Entries, IsArg(a), a.at \in {"reg", "word"}, a.tag = N, ArgAt(todo[Inner], N - Inner, a),
         a.at = "reg" => a.reg \in BankRegs(a.bank) \ Reserved, a.at = "word" => a.reg \in Words
  PROVE  StaticAt(Append(Under(1), a), N)
<1> DEFINE p == Under(1)
           q == Append(p, a)
<1>1. /\ N \in Nat /\ N > 1 /\ N - 1 \in Nat /\ Inner \in 1 .. N - 1 /\ IsMarker(todo[Inner]) /\ todo[Inner] \in Entries
      /\ p \in Seq(Entries) /\ Len(p) = N - 1 /\ \A j \in 1 .. N - 1 : p[j] = todo[j]
      /\ \A j \in 1 .. N - 1 : Open(p, j + 1, N - 1) => j = Inner \/ j \in Inner + 1 .. N - 1
      /\ \A j \in Inner + 1 .. N - 1 :
              /\ j \in 1 .. N - 1 /\ IsArg(todo[j]) /\ ArgAt(todo[Inner], j - Inner, todo[j])
              /\ todo[j] \in Entries /\ ~IsMarker(todo[j])
  BY ArgSetup
<1>2. q[N] = a /\ \A j \in 1 .. N - 1 : q[j] = todo[j]
  BY <1>1, Pushed
<1>3. a.kind = "arg" /\ ~IsMarker(a) /\ ~IsCounter(a)
  BY DEF IsArg, IsMarker, IsCall, IsCounter
<1> HIDE DEF q
<1>4. /\ GeneralAt(q, N) /\ TaggedAt(q, N) /\ OneFirstAt(q, N) /\ WordsAreArgsAt(q, N)
      /\ LowAt(q, N) /\ AllSavedAt(q, N)
  <2>1. GeneralAt(q, N)
    BY <1>2, <1>3 DEF GeneralAt
  <2>2. TaggedAt(q, N) /\ OneFirstAt(q, N)
    BY <1>2, <1>3 DEF TaggedAt, OneFirstAt
  <2>3. WordsAreArgsAt(q, N) /\ LowAt(q, N) /\ AllSavedAt(q, N)
    BY <1>2, <1>3 DEF WordsAreArgsAt, LowAt, AllSavedAt
  <2> QED
    BY <2>1, <2>2, <2>3
<1>5. ApartAt(q, N)
  <2> SUFFICES ASSUME NEW j \in 1 .. N - 1, Open(q, j + 1, N), Uses(q, j, N - 1), Uses(q, N, N), q[j].reg = q[N].reg
               PROVE  FALSE
    BY DEF ApartAt
  <2>1. a.at = "reg"
    BY <1>2, <1>3 DEF Uses
  <2>2. Open(p, j + 1, N - 1)
    <3>1. \A i \in j + 1 .. N - 1 : i \in 1 .. N - 1 /\ i \in j + 1 .. N
      BY <1>1
    <3> QED
      BY <1>1, <1>2, <3>1 DEF Open
  <2>3. CASE j = Inner
    BY <1>1, <1>2, <2>3, InRegIs DEF Uses, IsMarker, IsCall
  <2>4. CASE j \in Inner + 1 .. N - 1
    <3>1. todo[j].at = "reg" /\ ArgAt(todo[Inner], j - Inner, todo[j]) /\ todo[j].reg = a.reg
      BY <1>1, <1>2, <2>4 DEF Uses, IsArg
    <3>2. j - Inner \in Nat /\ N - Inner \in Nat /\ j - Inner > 0 /\ N - Inner > 0 /\ j - Inner # N - Inner
      BY <1>1, <2>4
    <3> QED
      BY <2>1, <3>1, <3>2, ArgsApart
  <2> QED
    BY <1>1, <2>2, <2>3, <2>4
<1>6. PlacedAt(q, N)
  <2> SUFFICES ASSUME NEW j \in 1 .. N - 1, IsMarker(q[j]), \A i \in j + 1 .. N : IsArg(q[i])
               PROVE  ArgAt(q[j], N - j, q[N])
    BY DEF PlacedAt
  <2>1. j < Inner => Inner \in j + 1 .. N
    BY <1>1
  <2>2. ~IsArg(todo[Inner])
    BY <1>1 DEF IsArg, IsMarker, IsCall
  <2>3. ~(j < Inner)
    BY <1>1, <1>2, <2>1, <2>2
  <2>4. j = Inner
    BY <1>1, <1>2, <2>3
  <2> QED
    BY <1>1, <1>2, <2>4
<1>7. StaticAt(q, N)
  BY <1>4, <1>5, <1>6 DEF StaticAt
<1> QED
  BY <1>7 DEF q

LEMMA ArgPushed ==
  ASSUME IInv, OInv, orderly, IInv', NEW kinds, kinds \subseteq {"fn", "proc", "write"}, ArgDone(kinds),
         NEW a \in Entries, IsArg(a), a.at \in {"reg", "word"}, a.tag = N, ArgAt(todo[Inner], N - Inner, a),
         a.at = "reg" => a.reg \in BankRegs(a.bank) \ Reserved, a.at = "word" => a.reg \in Words,
         NEW t \in CalmMachine, st.sp <= t.sp, \A w : Place(Under(1), w) => t.word[w] = st.word[w],
         \A k \in Inner + 1 .. N - 1 : todo[k].at = "reg" => t.reg[todo[k].reg] = st.reg[todo[k].reg],
         a.at = "reg" => t.reg[a.reg] = N, a.at = "word" => a.reg <= t.sp /\ t.word[a.reg] = N,
         Become(t, Append(Under(1), a))
  PROVE  OInv'
<1> DEFINE p == Under(1)
           q == Append(p, a)
<1>1. /\ N \in Nat /\ N > 1 /\ N - 1 \in Nat /\ Inner \in 1 .. N - 1 /\ IsMarker(todo[Inner]) /\ todo[Inner] \in Entries
      /\ p \in Seq(Entries) /\ Len(p) = N - 1 /\ \A j \in 1 .. N - 1 : p[j] = todo[j]
      /\ Held(st, p)
      /\ \A j \in 1 .. N - 1 : Open(p, j + 1, N - 1) => j = Inner \/ j \in Inner + 1 .. N - 1
      /\ \A j \in Inner + 1 .. N - 1 : IsArg(todo[j])
  BY ArgSetup
<1>2. /\ Len(p) + 1 = N /\ q[N] = a /\ Len(q) = N /\ \A j \in 1 .. N - 1 : q[j] = p[j]
  <2>1. Len(p) + 1 = N
    BY <1>1
  <2> HIDE DEF p
  <2> QED
    BY <1>1, <2>1, Pushed
<1>3. StaticAt(q, N)
  BY ArgStatic
<1>4. a.kind = "arg" /\ ~IsMarker(a)
  BY DEF IsArg, IsMarker, IsCall
<1>5. t.sp \in Words /\ st.sp \in Words
  BY SpAfter, Ready DEF CalmMachine
<1>6. st.word \in [Words -> Tags] /\ st.reg \in [Regs -> Tags]
  BY Ready, CalmHas
<1> HIDE DEF p, q
<1>7. Held(t, p)
  <2>1. BelowSp(p, Len(p) + 1, t.sp)
    BY <1>1, <1>5, BelowMore DEF Held
  <2>2. \A k \in 1 .. Len(p) : Open(p, k + 1, Len(p)) /\ p[k].at = "reg" => t.reg[p[k].reg] = st.reg[p[k].reg]
    <3> SUFFICES ASSUME NEW k \in 1 .. Len(p), Open(p, k + 1, Len(p)), p[k].at = "reg"
                 PROVE  t.reg[p[k].reg] = st.reg[p[k].reg]
      OBVIOUS
    <3>1. k # Inner
      BY <1>1, InRegIs
    <3> QED
      BY <1>1, <3>1
  <2>3. \A w : Place(p, w) => t.word[w] = st.word[w]
    BY DEF p
  <2> QED
    BY <1>1, <2>1, <2>2, <2>3, HeldOn
<1>8. Held(t, q)
  <2>1. StaticAt(Append(p, a), Len(p) + 1)
    BY <1>2, <1>3 DEF q
  <2>2. Held(t, Append(p, a))
    BY <1>1, <1>4, <1>7, <2>1, PushHeld
  <2> QED
    BY <2>2 DEF q
<1>9. ForsTaken(t, q)
  <2> SUFFICES ASSUME NEW k \in 1 .. N, q[k].kind = "for", Open(q, k + 1, N) PROVE FALSE
    BY <1>2 DEF ForsTaken
  <2>1. k \in 1 .. N - 1
    BY <1>1, <1>2, <1>4
  <2>2. Open(p, k + 1, N - 1)
    <3>1. \A i \in k + 1 .. N - 1 : i \in 1 .. N - 1 /\ i \in k + 1 .. N
      BY <1>1
    <3> QED
      BY <1>2, <3>1 DEF Open
  <2> QED
    BY <1>1, <1>2, <2>1, <2>2 DEF IsArg, IsMarker, IsCall
<1>10. Kept(t, q)
  BY <1>8, <1>9 DEF Kept, CalmMachine
<1>11. Become(t, q)
  BY DEF q, p
<1> QED
  BY <1>5, <1>10, <1>11, BecomesKept

\* The value to be passed is where its operand says.
LEMMA TopHolds ==
  ASSUME IInv, OInv, orderly, NEW kinds, ValueOn(kinds)
  PROVE  Copy(st, Top, N) = N
<1>1. N > 1 /\ N \in Nat /\ N \in 1 .. N /\ Top = todo[N] /\ Top.kind = "value"
  BY ValueOnIs DEF ValueOn, Top
<1>2. Open(todo, N + 1, N)
  <2>1. \A i \in N + 1 .. N : FALSE
    BY <1>1
  <2> QED
    BY <2>1 DEF Open
<1>3. Untouched(st, st)
  BY Ready DEF Untouched
<1>4. Holds(st, todo[N])
  BY <1>1, <1>2, <1>3, OperandHolds DEF IsArg
<1> QED
  BY <1>1, <1>4 DEF Copy

LEMMA ArgBank ==
  ASSUME IInv, NEW kinds, kinds \subseteq {"fn", "proc", "write"}, ArgDone(kinds)
  PROVE  /\ Top \in Entries /\ ~IsMarker(Top) /\ Top.bank \in BothBanks /\ N \in Tags /\ N \in Nat
         /\ ValueOn({"arg"} \cup kinds)
<1>1. Top \in Entries /\ ~IsMarker(Top) /\ N \in Tags /\ N \in Nat
  BY ArgTop
<1> QED
  BY <1>1, PlainHas DEF ArgDone

LEMMA RegisterArgKeeps ==
  ASSUME IInv, OInv, orderly, IInv', RegisterArg
  PROVE  OInv'
<1> DEFINE put == Put(st, ArgReg, Copy(st, Top, N))
           s == FreeExpr(put, Top)
           rl == s.reglist \cup {ArgReg}
           t == [s EXCEPT !.reglist = rl]
           a == Item("arg", "reg", ArgReg, N, Top.bank, FALSE)
<1>1. ArgDone({"fn", "proc"}) /\ Passed <= ArgRegs /\ Become(t, Append(Under(1), a))
  BY DEF RegisterArg
<1>2. /\ Top \in Entries /\ ~IsMarker(Top) /\ Top.bank \in BothBanks /\ N \in Tags /\ N \in Nat
      /\ ValueOn({"arg"} \cup {"fn", "proc"})
  BY <1>1, ArgBank
<1>3. /\ todo[Inner].kind \in {"fn", "proc"} /\ Passed = N - Inner /\ Passed \in Nat /\ Passed >= 1
  BY <1>1, ArgTop
<1>4. /\ ArgReg \in Regs /\ ArgReg \in BankRegs(Top.bank) \ Reserved /\ ArgReg = First(Top.bank) + Passed - 1
  <2>1. PICK x \in {0, RegCount} : x = First(Top.bank)
    BY DEF First
  <2>2. PICK n \in Nat : n = Passed /\ n >= 1 /\ n <= ArgRegs
    BY <1>1, <1>3
  <2>3. ArgReg = x + n - 1
    BY <2>1, <2>2 DEF ArgReg
  <2>4. x + n - 1 \in x .. x + RegCount - 1 /\ x + n - 1 \in 0 .. 2 * RegCount - 1
    BY <2>1, <2>2, ConstantsOK
  <2>5. x + n - 1 \notin {RegCount - 3, RegCount - 2, RegCount - 1}
    BY <2>1, <2>2, ConstantsOK
  <2> QED
    BY <2>1, <2>2, <2>3, <2>4, <2>5 DEF ArgReg, BankRegs, Regs, Reserved, GP, FP, SP
<1>5. Copy(st, Top, N) = N
  BY <1>2, TopHolds
<1>6. st \in CalmMachine
  BY Ready
<1>7. /\ put \in CalmMachine /\ put.reg[ArgReg] = N /\ \A x \in Regs \ {ArgReg} : put.reg[x] = st.reg[x]
      /\ put.word = st.word /\ put.sp = st.sp
  BY <1>2, <1>4, <1>5, <1>6, PutCalm
<1> HIDE DEF put
<1>8. s \in CalmMachine /\ s.word = st.word /\ s.sp = st.sp /\ s.reg = put.reg
  BY <1>2, <1>7, FreeExprKeeps DEF Untouched
<1> HIDE DEF s
<1>9. t \in CalmMachine /\ t.reg = s.reg /\ t.word = s.word /\ t.sp = s.sp
  <2>1. rl \in SUBSET Regs
    BY <1>4, <1>8, CalmHas
  <2> HIDE DEF rl
  <2> QED
    BY <1>8, <2>1, SetCalm
<1> HIDE DEF t
<1>10. a \in Entries /\ IsArg(a)
  BY <1>2, <1>4, ArgIn
<1>11. a.at = "reg" /\ a.reg = ArgReg /\ a.tag = N /\ a.bank = Top.bank
  BY DEF Item
<1> HIDE DEF a
<1>12. ArgAt(todo[Inner], N - Inner, a)
  BY <1>1, <1>3, <1>4, <1>11 DEF ArgAt
<1>13. ASSUME NEW k \in Inner + 1 .. N - 1, todo[k].at = "reg" PROVE t.reg[todo[k].reg] = st.reg[todo[k].reg]
  <2>1. Inner \in 1 .. N - 1 /\ ArgAt(todo[Inner], k - Inner, todo[k]) /\ todo[k] \in Entries
    BY <1>1, ArgSetup
  <2>2. k - Inner \in Nat /\ N - Inner \in Nat /\ k - Inner > 0 /\ N - Inner > 0 /\ k - Inner # N - Inner
    BY <1>2, <2>1
  <2>3. todo[k].reg # ArgReg
    BY <1>11, <1>12, <1>13, <2>1, <2>2, ArgsApart
  <2> QED
    BY <1>7, <1>8, <1>9, <1>13, <2>1, <2>3, InRegIs
<1>14. st.sp <= t.sp
  BY <1>8, <1>9, Basics
<1>15. \A w : Place(Under(1), w) => t.word[w] = st.word[w]
  BY <1>8, <1>9
<1>16. t.reg[a.reg] = N
  BY <1>7, <1>8, <1>9, <1>11
<1>17. Become(t, Append(Under(1), a)) /\ ArgDone({"fn", "proc"}) /\ {"fn", "proc"} \subseteq {"fn", "proc", "write"}
  BY <1>1 DEF t, a
<1>18. a.reg \in BankRegs(a.bank) \ Reserved /\ a.at \in {"reg", "word"} /\ a.at # "word"
  BY <1>4, <1>11
<1> QED
  BY <1>9, <1>10, <1>11, <1>12, <1>13, <1>14, <1>15, <1>16, <1>17, <1>18, ArgPushed

\* The word of a stack argument is above all that was saved, and no other argument's.
LEMMA ArgWordApart ==
  ASSUME IInv, OInv, orderly, ArgDone({"fn", "proc"}), Passed > ArgRegs, NEW w, Place(Under(1), w)
  PROVE  w # ArgWord
<1> DEFINE p == Under(1)
           m == todo[Inner]
<1>1. /\ N \in Nat /\ N > 1 /\ N - 1 \in Nat /\ Inner \in 1 .. N - 1 /\ IsMarker(m) /\ m \in Entries
      /\ p \in Seq(Entries) /\ Len(p) = N - 1 /\ \A j \in 1 .. N - 1 : p[j] = todo[j]
      /\ \A j \in Inner + 1 .. N - 1 : /\ IsArg(todo[j]) /\ ArgAt(m, j - Inner, todo[j]) /\ ~IsMarker(todo[j])
  BY ArgSetup
<1>2. /\ m.kind \in {"fn", "proc"} /\ Passed = N - Inner /\ Passed \in Nat
      /\ st.sp = Begun(m) + (IF IsCall(m) THEN 0 ELSE 2 * ((N - 1) - Inner))
      /\ IsCall(m) => Passed <= m.params
  BY ArgTop
<1>3. IsCall(m)
  BY <1>2 DEF IsCall
<1>4. /\ m.sp \in Int /\ m.params \in Nat /\ Cardinality(m.saved) \in Nat
      /\ Begun(m) = m.sp + Cardinality(m.saved) + StackArgs(m.params)
  BY <1>1, <1>3, MarkerHas DEF Begun
<1>5. StackArgs(m.params) = m.params - ArgRegs
  BY <1>2, <1>3, <1>4, ConstantsOK DEF StackArgs
<1>6. PICK n \in Nat : n = Cardinality(m.saved)
  BY <1>4
<1>7. PICK b \in Int, k \in Nat : b = m.sp /\ k = m.params /\ Passed <= k
  BY <1>2, <1>3, <1>4
<1>8. Begun(m) = b + n + (k - ArgRegs) /\ st.sp = Begun(m)
  <2>1. Begun(m) = b + n + (k - ArgRegs)
    BY <1>4, <1>5, <1>6, <1>7
  <2>2. Begun(m) \in Int
    BY <2>1, <1>7, <1>6, ConstantsOK
  <2> QED
    BY <1>2, <1>3, <2>1, <2>2
<1>9. ArgWord = Begun(m) - (Passed - 1 - ArgRegs) /\ Begun(m) \in Int /\ ArgWord \in Int /\ ArgWord > b + n
  <2>1. ArgWord = (b + n + (k - ArgRegs)) - (Passed - 1 - ArgRegs)
    BY <1>8 DEF ArgWord
  <2>2. Begun(m) \in Int
    BY <1>8, <1>7, <1>6, ConstantsOK
  <2>3. ArgWord = Begun(m) - (Passed - 1 - ArgRegs)
    BY <1>8 DEF ArgWord
  <2>4. Passed \in Nat /\ Passed <= k
    BY <1>2, <1>7
  <2> QED
    BY <1>6, <1>7, <2>1, <2>2, <2>3, <2>4, ConstantsOK
<1>10. PICK i \in 1 .. N - 1 : \/ todo[i].at = "word" /\ todo[i].reg = w
                               \/ IsMarker(todo[i]) /\ \E r \in todo[i].saved : SavePlace(todo[i], r) = w
  BY <1>1 DEF Place
<1>11. i \in 1 .. N /\ todo[i] \in Entries
  BY <1>1, <1>10, Basics
<1> HIDE DEF p
<1>12. CASE i \in 1 .. Inner - 1
  <2>1. BelowSp(todo, Inner, m.sp)
    <3>1. LowAt(todo, Inner)
      <4>1. Inner \in 1 .. Len(todo)
        BY <1>1, Basics
      <4> QED
        BY <4>1, Ready DEF Static, StaticAt
    <3> QED
      BY <1>1, <3>1 DEF LowAt
  <2>2. CASE todo[i].at = "word" /\ todo[i].reg = w
    <3>1. w <= b
      BY <1>7, <1>12, <2>1, <2>2 DEF BelowSp
    <3>2. w \in Int
      <4>1. WordsAreArgsAt(todo, i)
        BY <1>11, Ready DEF Static, StaticAt, N
      <4> QED
        BY <2>2, <4>1, ConstantsOK DEF WordsAreArgsAt, Words
    <3> QED
      BY <1>6, <1>7, <1>9, <3>1, <3>2
  <2>3. CASE IsMarker(todo[i]) /\ \E r \in todo[i].saved : SavePlace(todo[i], r) = w
    <3>1. w \in Int /\ w <= todo[i].sp + Cardinality(todo[i].saved)
      BY <1>11, <2>3, SavePlaceIn
    <3>2. todo[i].sp + Cardinality(todo[i].saved) <= b
      BY <1>7, <1>12, <2>1, <2>3 DEF BelowSp
    <3>3. todo[i].sp \in Int /\ Cardinality(todo[i].saved) \in Nat
      BY <1>11, <2>3, MarkerHas
    <3> QED
      BY <1>6, <1>7, <1>9, <3>1, <3>2, <3>3
  <2> QED
    BY <1>10, <2>2, <2>3
<1>13. CASE i = Inner
  <2>1. m.at # "word"
    <3>1. m \in Markers
      BY <1>1 DEF Entries, Plain, IsMarker, IsCall
    <3> QED
      BY <3>1 DEF Markers
  <2>2. w \in Int /\ w <= b + n
    BY <1>1, <1>6, <1>7, <1>10, <1>13, <2>1, SavePlaceIn
  <2> QED
    BY <1>6, <1>7, <1>9, <2>2
<1>14. CASE i \in Inner + 1 .. N - 1
  <2>1. todo[i].at = "word" /\ todo[i].reg = w /\ ArgAt(m, i - Inner, todo[i])
    BY <1>1, <1>10, <1>14
  <2>2. w = Begun(m) - (i - Inner - 1 - ArgRegs)
    BY <1>2, <2>1 DEF ArgAt
  <2> QED
    BY <1>1, <1>2, <1>9, <1>14, <2>2, ConstantsOK
<1> QED
  BY <1>1, <1>10, <1>12, <1>13, <1>14

LEMMA StackArgKeeps ==
  ASSUME IInv, OInv, orderly, IInv', StackArg
  PROVE  OInv'
<1> DEFINE used == Use(st, Top)
           wrote == [used EXCEPT !.word[ArgWord] = Copy(st, Top, N)]
           s == FreeExpr(wrote, Top)
           rl == s.reglist \cup {SP}
           t == [s EXCEPT !.reglist = rl]
           a == Item("arg", "word", ArgWord, N, Top.bank, FALSE)
<1>1. ArgDone({"fn", "proc"}) /\ Passed > ArgRegs /\ Become(t, Append(Under(1), a))
  BY DEF StackArg
<1>2. /\ Top \in Entries /\ ~IsMarker(Top) /\ Top.bank \in BothBanks /\ N \in Tags /\ N \in Nat
      /\ ValueOn({"arg"} \cup {"fn", "proc"})
  BY <1>1, ArgBank
<1>3. /\ todo[Inner].kind \in {"fn", "proc"} /\ Passed = N - Inner /\ Passed \in Nat
      /\ st.sp = Begun(todo[Inner]) + (IF IsCall(todo[Inner]) THEN 0 ELSE 2 * ((N - 1) - Inner))
      /\ todo[Inner] \in Entries /\ IsMarker(todo[Inner])
  BY <1>1, ArgTop
<1>4. ArgWord \in Words /\ ArgWord <= st.sp
  BY <1>1, ArgWordIn
<1>5. Copy(st, Top, N) = N
  BY <1>2, TopHolds
<1>6. st \in CalmMachine /\ FreeRegs(st, Top.bank) # {}
  BY <1>2, Ready
<1>7. Untouched(st, used)
  BY <1>2, <1>6, UseKeeps
<1> HIDE DEF used
<1>8. /\ wrote \in CalmMachine /\ wrote.word[ArgWord] = N /\ \A y \in Words \ {ArgWord} : wrote.word[y] = used.word[y]
      /\ wrote.reg = used.reg /\ wrote.sp = used.sp
  <2>1. used \in CalmMachine
    BY <1>7 DEF Untouched
  <2> QED
    BY <1>2, <1>4, <1>5, <2>1, WriteCalm
<1> HIDE DEF wrote
<1>9. s \in CalmMachine /\ s.word = wrote.word /\ s.sp = wrote.sp /\ s.reg = wrote.reg
  BY <1>2, <1>8, FreeExprKeeps DEF Untouched
<1> HIDE DEF s
<1>10. t \in CalmMachine /\ t.reg = s.reg /\ t.word = s.word /\ t.sp = s.sp
  <2>1. rl \in SUBSET Regs
    <3>1. SP \in Regs
      BY ConstantsOK DEF SP, Regs
    <3> QED
      BY <1>9, <3>1, CalmHas
  <2> HIDE DEF rl
  <2> QED
    BY <1>9, <2>1, SetCalm
<1> HIDE DEF t
<1>11. a \in Entries /\ IsArg(a)
  BY <1>2, <1>4, ArgIn
<1>12. a.at = "word" /\ a.reg = ArgWord /\ a.tag = N
  BY DEF Item
<1> HIDE DEF a
<1>13. t.sp = st.sp /\ \A x \in st.reglist : t.reg[x] = st.reg[x]
  BY <1>7, <1>8, <1>9, <1>10 DEF Untouched
<1>14. \A w : Place(Under(1), w) => t.word[w] = st.word[w]
  <2> SUFFICES ASSUME NEW w, Place(Under(1), w) PROVE t.word[w] = st.word[w]
    OBVIOUS
  <2>1. w # ArgWord
    BY <1>1, ArgWordApart
  <2>2. w \in Words
    <3> DEFINE p == Under(1)
    <3>1. p \in Seq(Entries) /\ Held(st, p) /\ st.sp \in Words
      BY <1>1, ArgSetup, Ready
    <3>2. Levels(p)
      BY <1>1, ArgTop DEF StackOK
    <3> HIDE DEF p
    <3>3. Place(p, w)
      BY DEF p
    <3> QED
      BY <3>1, <3>2, <3>3, PlacesBelow DEF Held
  <2> QED
    BY <1>7, <1>8, <1>9, <1>10, <2>1, <2>2 DEF Untouched
<1>15. ASSUME NEW k \in Inner + 1 .. N - 1, todo[k].at = "reg" PROVE t.reg[todo[k].reg] = st.reg[todo[k].reg]
  <2>1. Open(todo, k + 1, N) /\ k \in 1 .. N
    <3>1. k \in 1 .. N - 1 /\ Open(todo, k + 1, N)
      BY <1>1, ArgSetup
    <3> QED
      BY <1>2, <3>1
  <2>2. Uses(todo, k, N)
    BY <1>15 DEF Uses
  <2>3. todo[k].reg \in st.reglist
    BY <2>1, <2>2, Ready
  <2> QED
    BY <1>13, <2>3
<1>16. ArgAt(todo[Inner], N - Inner, a)
  <2>1. IsCall(todo[Inner]) /\ todo[Inner].kind # "write"
    BY <1>3 DEF IsCall
  <2>2. Begun(todo[Inner]) \in Int
    BY <1>3, MarkerHas
  <2>3. PICK b \in Int : b = Begun(todo[Inner]) /\ st.sp = b
    BY <1>3, <2>1, <2>2
  <2>4. PICK n \in Nat : n = Passed /\ N - Inner = n /\ n > ArgRegs
    BY <1>1, <1>3
  <2>5. ~(n <= ArgRegs) /\ a.reg = b - (n - 1 - ArgRegs)
    BY <1>12, <2>3, <2>4, ConstantsOK DEF ArgWord
  <2> QED
    BY <1>12, <2>1, <2>3, <2>4, <2>5 DEF ArgAt
<1>17. a.reg <= t.sp /\ t.word[a.reg] = N /\ st.sp <= t.sp
  BY <1>4, <1>8, <1>9, <1>10, <1>12, <1>13, Basics
<1>18. Become(t, Append(Under(1), a)) /\ ArgDone({"fn", "proc"}) /\ {"fn", "proc"} \subseteq {"fn", "proc", "write"}
  BY <1>1 DEF t, a
<1>19. a.reg \in Words /\ a.at \in {"reg", "word"} /\ a.at # "reg"
  BY <1>4, <1>12
<1> QED
  BY <1>10, <1>11, <1>12, <1>14, <1>15, <1>16, <1>17, <1>18, <1>19, ArgPushed

LEMMA PushCalm ==
  ASSUME NEW s \in CalmMachine, NEW x \in Words, x = s.sp + 1, NEW tag \in Tags
  PROVE  LET t == Push(s, tag) IN
         /\ t \in CalmMachine /\ t.sp = x /\ t.word[x] = tag /\ \A y \in Words \ {x} : t.word[y] = s.word[y]
         /\ t.reg = s.reg /\ t.reglist = s.reglist
<1> DEFINE up == [s EXCEPT !.sp = x]
<1>1. x \in Int
  BY ConstantsOK DEF Words
<1>2. up \in CalmMachine /\ up.sp = x /\ up.reg = s.reg /\ up.word = s.word /\ up.reglist = s.reglist
  BY <1>1, MoveCalm
<1>3. Push(s, tag) = [up EXCEPT !.word[x] = tag]
  BY DEF Push, CalmMachine, Machine
<1> HIDE DEF up
<1> QED
  BY <1>2, <1>3, WriteCalm

LEMMA WriteArgKeeps ==
  ASSUME IInv, OInv, orderly, IInv', WriteArg
  PROVE  OInv'
<1> DEFINE used == Use(st, Top)
           value == Push(used, Copy(st, Top, N))
           tmp == Temporary(value, "int")
           both == Push(tmp, Junk)
           t == FreeExpr(both, Top)
           a == Item("arg", "word", st.sp + 1, N, Top.bank, FALSE)
<1>1. ArgDone({"write"}) /\ Become(t, Append(Under(1), a))
  BY DEF WriteArg
<1>2. /\ Top \in Entries /\ ~IsMarker(Top) /\ Top.bank \in BothBanks /\ "int" \in BothBanks /\ N \in Tags /\ N \in Nat
      /\ ValueOn({"arg"} \cup {"write"}) /\ Junk \in Tags
  BY <1>1, ArgBank, ConstantsOK DEF BothBanks, Junk, Tags
<1>3. /\ todo[Inner].kind = "write" /\ Inner \in 1 .. N - 1
      /\ st.sp = Begun(todo[Inner]) + (IF IsCall(todo[Inner]) THEN 0 ELSE 2 * ((N - 1) - Inner))
      /\ todo[Inner] \in Entries /\ IsMarker(todo[Inner]) /\ Levels(Under(1))
  BY <1>1, ArgTop DEF StackOK
<1>4. PICK x \in Words, y \in Words : x = st.sp + 1 /\ y = x + 1 /\ y = st.sp + 2
  <2>1. st.sp \in Int /\ st.sp + 1 \in Words /\ st.sp + 2 \in Words
    BY <1>1, WriteRoom, Basics
  <2>2. st.sp + 2 = (st.sp + 1) + 1
    BY <2>1
  <2> QED
    BY <2>1, <2>2
<1>5. Copy(st, Top, N) = N
  BY <1>2, TopHolds
<1>6. st \in CalmMachine /\ FreeRegs(st, Top.bank) # {} /\ FreeRegs(st, "int") # {}
  BY <1>2, Ready
<1>7. Untouched(st, used) /\ FreeRegs(used, "int") # {}
  BY <1>2, <1>6, UseKeeps
<1> HIDE DEF used
<1>8. /\ value \in CalmMachine /\ value.sp = x /\ value.word[x] = N /\ \A w \in Words \ {x} : value.word[w] = st.word[w]
      /\ FreeRegs(value, "int") # {}
  <2>1. used \in CalmMachine /\ x = used.sp + 1 /\ used.word = st.word
    BY <1>4, <1>7 DEF Untouched
  <2>2. value.reglist = used.reglist
    BY <1>2, <1>5, <2>1, PushCalm
  <2>3. FreeRegs(value, "int") = FreeRegs(used, "int")
    BY <2>2 DEF FreeRegs
  <2> QED
    BY <1>2, <1>5, <1>7, <2>1, <2>3, PushCalm
<1> HIDE DEF value
<1>9. Untouched(value, tmp)
  BY <1>2, <1>8, TemporaryKeeps
<1> HIDE DEF tmp
<1>10. both \in CalmMachine /\ both.sp = y /\ \A w \in Words \ {y} : both.word[w] = value.word[w]
  <2>1. tmp \in CalmMachine /\ y = tmp.sp + 1 /\ tmp.word = value.word
    BY <1>4, <1>8, <1>9 DEF Untouched
  <2> QED
    BY <1>2, <2>1, PushCalm
<1> HIDE DEF both
<1>11. t \in CalmMachine /\ t.word = both.word /\ t.sp = y
  BY <1>2, <1>10, FreeExprKeeps DEF Untouched
<1> HIDE DEF t
<1>12. a \in Entries /\ IsArg(a)
  BY <1>2, <1>4, ArgIn
<1>13. a.at = "word" /\ a.reg = x /\ a.tag = N
  BY <1>4 DEF Item
<1> HIDE DEF a
<1>14. x # y /\ st.sp \in Int /\ x > st.sp /\ y > st.sp /\ x <= y /\ st.sp <= y
  BY <1>4, Basics
<1>15. \A w : Place(Under(1), w) => t.word[w] = st.word[w]
  <2> SUFFICES ASSUME NEW w, Place(Under(1), w) PROVE t.word[w] = st.word[w]
    OBVIOUS
  <2>1. w \in Words /\ w <= st.sp
    <3> DEFINE p == Under(1)
    <3>1. p \in Seq(Entries) /\ Held(st, p) /\ st.sp \in Words
      BY <1>1, ArgSetup, Ready
    <3> HIDE DEF p
    <3>2. Place(p, w) /\ Levels(p)
      BY <1>3 DEF p
    <3> QED
      BY <3>1, <3>2, PlacesBelow DEF Held
  <2>2. w \in Int
    BY <2>1, ConstantsOK DEF Words
  <2>3. w # x /\ w # y
    BY <1>14, <2>1, <2>2
  <2> QED
    BY <1>8, <1>10, <1>11, <2>1, <2>3
<1>16. \A k \in Inner + 1 .. N - 1 : todo[k].at # "reg"
  <2> SUFFICES ASSUME NEW k \in Inner + 1 .. N - 1 PROVE todo[k].at # "reg"
    OBVIOUS
  <2>1. ArgAt(todo[Inner], k - Inner, todo[k])
    BY <1>1, ArgSetup
  <2> QED
    BY <1>3, <2>1 DEF ArgAt
<1>17. ArgAt(todo[Inner], N - Inner, a)
  <2>1. ~IsCall(todo[Inner]) /\ Begun(todo[Inner]) \in Int
    BY <1>3, MarkerHas DEF IsCall
  <2>2. PICK b \in Int : b = Begun(todo[Inner]) /\ st.sp = b + 2 * ((N - 1) - Inner)
    BY <1>3, <2>1
  <2>3. PICK i \in Nat : i = Inner
    BY <1>3
  <2>4. x = (b + 2 * (N - Inner)) - 1
    BY <1>2, <1>4, <2>2, <2>3
  <2>5. a.reg = Begun(todo[Inner]) + 2 * (N - Inner) - 1
    BY <1>2, <1>13, <2>1, <2>2, <2>3, <2>4
  <2> HIDE DEF Begun
  <2> QED
    BY <1>3, <1>13, <2>5, Zenon DEF ArgAt
<1>18. a.reg <= t.sp /\ t.word[a.reg] = N /\ st.sp <= t.sp
  BY <1>8, <1>10, <1>11, <1>13, <1>14
<1>19. Become(t, Append(Under(1), a)) /\ ArgDone({"write"}) /\ {"write"} \subseteq {"fn", "proc", "write"}
  BY <1>1 DEF t, a
<1>20. a.reg \in Words /\ a.at \in {"reg", "word"} /\ a.at # "reg"
  BY <1>13
<1>21. \A k \in Inner + 1 .. N - 1 : todo[k].at = "reg" => t.reg[todo[k].reg] = st.reg[todo[k].reg]
  BY <1>16
<1> QED
  BY <1>11, <1>12, <1>13, <1>15, <1>17, <1>18, <1>19, <1>20, <1>21, ArgPushed

-----------------------------------------------------------------------------
(* Calls and WRITE end *)

\* What is pending below a call.
LEMMA BelowCall ==
  ASSUME IInv, OInv, orderly, NEW i \in 1 .. N, IsMarker(todo[i]), NEW t, t.word = st.word
  PROVE  LET p == SubSeq(todo, 1, i - 1) IN
         /\ p \in Seq(Entries) /\ Len(p) = i - 1 /\ \A j \in 1 .. i - 1 : p[j] = todo[j] /\ j \in 1 .. N
         /\ Static(p) /\ SavedHold(t, p) /\ WordsHold(t, p) /\ BelowSp(p, Len(p) + 1, todo[i].sp)
<1> DEFINE p == SubSeq(todo, 1, i - 1)
<1>1. N \in Nat /\ N = Len(todo) /\ todo \in Seq(Entries) /\ i - 1 \in 0 .. Len(todo) /\ i \in Nat
  BY Basics
<1>2. p \in Seq(Entries) /\ Len(p) = i - 1 /\ \A j \in 1 .. i - 1 : p[j] = todo[j]
  <2> DEFINE n == i - 1
  <2>1. n \in 0 .. Len(todo)
    BY <1>1
  <2> HIDE DEF n
  <2>2. SubSeq(todo, 1, n) \in Seq(Entries) /\ Len(SubSeq(todo, 1, n)) = n /\ \A j \in 1 .. n : SubSeq(todo, 1, n)[j] = todo[j]
    BY <1>1, <2>1, Cut
  <2> QED
    BY <2>2 DEF n
<1>3. \A j \in 1 .. i - 1 : j \in 1 .. N /\ j \in Nat /\ j >= 1 /\ \A k \in 1 .. j : k \in 1 .. i - 1
  BY <1>1
<1> HIDE DEF p
<1>4. Held(st, todo) /\ Static(todo) /\ SavedHold(st, todo) /\ WordsHold(st, todo)
  BY Ready DEF Held
<1>5. ASSUME NEW j \in 1 .. i - 1
      PROVE  StaticAt(p, j) /\ SavedHoldAt(st, p, j) /\ (p[j].at = "word" => st.word[p[j].reg] = p[j].tag)
  <2>1. StaticAt(todo, j) /\ SavedHoldAt(st, todo, j) /\ \A k \in 1 .. j : todo[k] = p[k]
    BY <1>1, <1>2, <1>3, <1>4 DEF Static, SavedHold
  <2>2. StaticAt(p, j) /\ SavedHoldAt(st, p, j)
    BY <1>3, <2>1, StaticSame, SavedSame
  <2> QED
    BY <1>1, <1>2, <1>3, <1>4, <2>2 DEF WordsHold
<1>6. Static(p) /\ SavedHold(t, p) /\ WordsHold(t, p)
  BY <1>2, <1>5 DEF Static, SavedHold, SavedHoldAt, WordsHold
<1>7. BelowSp(p, Len(p) + 1, todo[i].sp)
  <2>1. BelowSp(todo, i, todo[i].sp)
    BY <1>1, <1>4 DEF Static, StaticAt, LowAt
  <2>2. \A j \in 1 .. Len(p) + 1 - 1 : j \in 1 .. i - 1
    BY <1>1, <1>2
  <2> QED
    BY <1>2, <2>1, <2>2 DEF BelowSp
<1> QED
  BY <1>2, <1>3, <1>6, <1>7 DEF p

\* The registers of the caller are restored from where they were saved.
LEMMA CallEnds ==
  ASSUME IInv, OInv, orderly, NEW i \in 1 .. N, IsMarker(todo[i]), FrameTop <= todo[i].sp,
         NEW s \in CalmMachine, s.word = st.word, s.sp = todo[i].sp + Cardinality(todo[i].saved), s.sp \in Words
  PROVE  LET p == SubSeq(todo, 1, i - 1)
             t == Restore(s, todo[i].saved, todo[i].ret) IN
         /\ t \in CalmMachine /\ t.sp \in Words /\ Held(t, p) /\ ForsTaken(t, p)
         /\ todo[i].ret \subseteq BankRegs(todo[i].bank) \ Reserved
         /\ \A r \in todo[i].ret : r \in Regs /\ t.reg[r] = s.reg[r]
         /\ \A j \in 1 .. i - 1 : Open(p, j + 1, i - 1) /\ Uses(p, j, i - 1) => p[j].reg \notin todo[i].ret
<1> DEFINE p == SubSeq(todo, 1, i - 1)
           m == todo[i]
           t == Restore(s, m.saved, m.ret)
           n == Cardinality(m.saved)
<1>1. N \in Nat /\ N = Len(todo) /\ m \in Entries /\ IsMarker(m) /\ i \in Nat /\ i - 1 \in Nat
  BY Basics
<1>2. m.saved \subseteq Regs /\ m.ret \subseteq Regs /\ m.sp \in Int /\ n \in Nat /\ m.bank \in BothBanks
  BY <1>1, MarkerHas
<1>3. StaticAt(todo, i) /\ SavedHoldAt(st, todo, i)
  BY <1>1, Ready DEF Static, Held, SavedHold
<1>4. m.ret \subseteq BankRegs(m.bank) \ Reserved /\ m.saved \cap (Reserved \cup m.ret) = {}
  BY <1>1, <1>3 DEF StaticAt, GeneralAt
<1>5. PICK b \in BothBanks : m.saved \subseteq First(b) .. First(b) + Half - 1
  <2>1. SavesAreSmall
    BY DEF OInv, Orderly
  <2> QED
    BY <1>1, <2>1 DEF SavesAreSmall, BothBanks
<1>6. m.sp \in Words
  BY <1>2, ConstantsOK DEF Words
<1>7. /\ p \in Seq(Entries) /\ Len(p) = i - 1 /\ \A j \in 1 .. i - 1 : p[j] = todo[j] /\ j \in 1 .. N
      /\ Static(p) /\ BelowSp(p, Len(p) + 1, m.sp)
      /\ \A u : u.word = st.word => SavedHold(u, p) /\ WordsHold(u, p)
  BY BelowCall
<1> HIDE DEF p
<1>8. /\ t \in CalmMachine /\ t.sp = m.sp /\ t.word = s.word /\ t.reglist = m.saved \cup Reserved \cup m.ret
      /\ \A x \in Regs \ m.saved : t.reg[x] = s.reg[x]
      /\ \A r \in m.saved : t.reg[r] = s.word[m.sp + Below(m.saved, r)]
  <2>1. s.sp = m.sp + Cardinality(m.saved) /\ s.sp \in Words
    OBVIOUS
  <2> HIDE DEF m
  <2> QED
    BY <1>2, <1>5, <1>6, <2>1, RestoreKeeps
<1> HIDE DEF t
<1>9. ASSUME NEW j \in 1 .. i - 1, Open(p, j + 1, i - 1), Uses(p, j, i - 1)
      PROVE  p[j].reg \in m.saved /\ Open(todo, j + 1, i - 1)
  <2>1. \A k \in j + 1 .. i - 1 : k \in 1 .. i - 1
    BY <1>1
  <2>2. Open(todo, j + 1, i - 1) /\ Uses(todo, j, i - 1)
    BY <1>7, <1>9, <2>1 DEF Open, Uses
  <2> QED
    BY <1>1, <1>3, <1>7, <2>2 DEF StaticAt, AllSavedAt
<1>10. RegsHold(t, p)
  <2> SUFFICES ASSUME NEW j \in 1 .. i - 1, Open(p, j + 1, i - 1), p[j].at = "reg" PROVE t.reg[p[j].reg] = p[j].tag
    BY <1>7 DEF RegsHold
  <2>1. p[j].reg \in m.saved /\ Open(todo, j + 1, i - 1) /\ p[j] = todo[j]
    BY <1>7, <1>9 DEF Uses
  <2>2. st.word[SavePlace(m, p[j].reg)] = p[j].tag
    BY <1>1, <1>3, <2>1 DEF SavedHoldAt
  <2>3. SavePlace(m, p[j].reg) = m.sp + Below(m.saved, p[j].reg)
    BY <1>1, <2>1, SavePlaceIn
  <2> QED
    BY <1>8, <2>1, <2>2, <2>3
<1>11. ForsTaken(t, p)
  <2>1. \A j \in 1 .. i - 1 : Open(p, j + 1, i - 1) /\ Uses(p, j, i - 1) => p[j].reg \in t.reglist
    BY <1>8, <1>9
  <2> QED
    BY <1>7, <2>1 DEF ForsTaken
<1>12. Held(t, p)
  BY <1>7, <1>8, <1>10 DEF Held
<1>13. \A r \in m.ret : r \in Regs /\ t.reg[r] = s.reg[r]
  BY <1>2, <1>4, <1>8
<1>14. \A j \in 1 .. i - 1 : Open(p, j + 1, i - 1) /\ Uses(p, j, i - 1) => p[j].reg \notin m.ret
  BY <1>4, <1>9
<1>15. t.sp \in Words
  BY <1>6, <1>8
<1> QED
  BY <1>4, <1>8, <1>11, <1>12, <1>13, <1>14, <1>15 DEF p, t, m

LEMMA EndSetup ==
  ASSUME IInv, Between
  PROVE  /\ Inner \in 1 .. N /\ todo[Inner] \in Entries /\ IsMarker(todo[Inner]) /\ FrameTop <= todo[Inner].sp
         /\ Under(1 + Passed) = SubSeq(todo, 1, Inner - 1) /\ Inner \in Nat /\ Inner \in Tags /\ Passed \in Nat
         /\ todo[Inner].sp \in Int /\ Cardinality(todo[Inner].saved) \in Nat
         /\ todo[Inner].sp + Cardinality(todo[Inner].saved) \in Words
         /\ IsCall(todo[Inner]) => st.sp - StackArgs(todo[Inner].params) = todo[Inner].sp + Cardinality(todo[Inner].saved)
         /\ ~IsCall(todo[Inner]) => st.sp - 2 * Passed = todo[Inner].sp + Cardinality(todo[Inner].saved)
         /\ IF todo[Inner].kind = "fn" THEN \E r \in Regs : todo[Inner].ret = {r} ELSE todo[Inner].ret = {}
<1> DEFINE m == todo[Inner]
<1>1. /\ Inner \in 1 .. N /\ m \in Entries /\ IsMarker(m) /\ Passed = N - Inner
      /\ FrameTop <= m.sp /\ m.sp \in Int /\ st.sp = Begun(m) + (IF IsCall(m) THEN 0 ELSE 2 * Passed)
  BY EndOfCall
<1>2. N \in Nat /\ N <= MaxTodo
  BY Basics
<1>3. Inner \in Nat /\ Passed \in Nat /\ N - (1 + Passed) = Inner - 1 /\ Inner \in Tags
  BY <1>1, <1>2, ConstantsOK DEF Tags
<1>4. Cardinality(m.saved) \in Nat /\ StackArgs(m.params) \in Nat
      /\ Begun(m) = m.sp + Cardinality(m.saved) + (IF IsCall(m) THEN StackArgs(m.params) ELSE 0)
  BY <1>1, MarkerHas DEF Begun
<1>5. st.sp \in Words
  BY DEF IInv, Machined
<1>6. IF m.kind = "fn" THEN \E r \in Regs : m.ret = {r} ELSE m.ret = {}
  <2>1. m \notin Plain
    BY <1>1 DEF Plain, IsMarker, IsCall
  <2> QED
    BY <1>1, <2>1 DEF Entries
<1> HIDE DEF m
<1>7. PICK c \in Nat, a \in Nat, b \in Int : c = Cardinality(m.saved) /\ a = StackArgs(m.params) /\ b = m.sp
  BY <1>1, <1>4
<1>8. CASE IsCall(m)
  <2>1. st.sp = b + c + a
    BY <1>1, <1>4, <1>7, <1>8
  <2>2. st.sp - a = b + c /\ b + c \in Words
    BY <1>1, <1>5, <1>7, <2>1, ConstantsOK DEF Words
  <2> QED
    BY <1>1, <1>3, <1>4, <1>6, <1>7, <1>8, <2>2 DEF Under, m
<1>9. CASE ~IsCall(m)
  <2>1. st.sp = b + c + 2 * Passed
    BY <1>1, <1>3, <1>4, <1>7, <1>9
  <2>2. st.sp - 2 * Passed = b + c /\ b + c \in Words
    BY <1>1, <1>3, <1>5, <1>7, <2>1, ConstantsOK DEF Words
  <2> QED
    BY <1>1, <1>3, <1>4, <1>6, <1>7, <1>9, <2>2 DEF Under, m
<1> QED
  BY <1>8, <1>9

LEMMA CallKeeps ==
  ASSUME IInv, OInv, orderly, IInv', Call
  PROVE  OInv'
<1> DEFINE m == todo[Inner]
           rg2 == [r \in Regs |-> IF r \in m.ret THEN Inner ELSE Junk]
           back == [Clobbered(st) EXCEPT !.reg = [r \in Regs |-> IF r \in m.ret THEN Inner ELSE @[r]]]
           dropped == DropArgs(back, m.params)
           t == Restore(dropped, m.saved, m.ret)
           result == {Value("reg", r, Inner, m.bank, FALSE) : r \in m.ret}
           p == Under(1 + Passed)
<1>1. Between /\ IsCall(m) /\ Become(t, p \o SetToSeq(result))
  BY DEF Call
<1>2. /\ Inner \in 1 .. N /\ m \in Entries /\ IsMarker(m) /\ FrameTop <= m.sp
      /\ p = SubSeq(todo, 1, Inner - 1) /\ Inner \in Nat /\ Inner \in Tags
      /\ m.sp \in Int /\ Cardinality(m.saved) \in Nat /\ m.sp + Cardinality(m.saved) \in Words
      /\ st.sp - StackArgs(m.params) = m.sp + Cardinality(m.saved)
      /\ IF m.kind = "fn" THEN \E r \in Regs : m.ret = {r} ELSE m.ret = {}
  BY <1>1, EndSetup
<1>3. st \in CalmMachine /\ Junk \in Tags
  BY Ready, ConstantsOK DEF Junk, Tags
<1>4. back \in CalmMachine /\ back.word = st.word /\ back.sp = st.sp /\ \A r \in m.ret : r \in Regs => back.reg[r] = Inner
  <2>1. rg2 \in [Regs -> Tags] /\ \A r \in m.ret : r \in Regs => rg2[r] = Inner
    BY <1>2, <1>3
  <2>2. back = [st EXCEPT !.reg = rg2]
    BY <1>3 DEF Clobbered, CalmMachine, Machine
  <2> HIDE DEF rg2, back, m
  <2> QED
    BY <1>3, <2>1, <2>2 DEF CalmMachine, Calm, Machine
<1> HIDE DEF back
<1>5. dropped \in CalmMachine /\ dropped.word = st.word /\ dropped.sp = m.sp + Cardinality(m.saved) /\ dropped.reg = back.reg
  <2>1. dropped = [back EXCEPT !.sp = m.sp + Cardinality(m.saved)]
    BY <1>2, <1>4 DEF DropArgs
  <2>2. m.sp + Cardinality(m.saved) \in Int
    BY <1>2
  <2> HIDE DEF dropped, m
  <2> QED
    BY <1>4, <2>1, <2>2, MoveCalm
<1> HIDE DEF dropped
<1>6. /\ t \in CalmMachine /\ t.sp \in Words /\ Held(t, p) /\ ForsTaken(t, p)
      /\ m.ret \subseteq BankRegs(m.bank) \ Reserved
      /\ \A r \in m.ret : r \in Regs /\ t.reg[r] = dropped.reg[r]
      /\ \A j \in 1 .. Inner - 1 : Open(p, j + 1, Inner - 1) /\ Uses(p, j, Inner - 1) => p[j].reg \notin m.ret
  BY <1>2, <1>5, CallEnds
<1>7. p \in Seq(Entries) /\ Len(p) = Inner - 1
  BY <1>2, BelowCall
<1>8. m.bank \in BothBanks
  BY <1>2, MarkerHas
<1> HIDE DEF t, p
<1>9. CASE m.kind = "fn"
  <2>1. PICK r \in Regs : m.ret = {r}
    BY <1>2, <1>9
  <2> DEFINE v == Value("reg", r, Inner, m.bank, FALSE)
  <2>2. v \in Entries /\ ~IsMarker(v) /\ v.kind = "value"
    BY <1>2, <1>8, ValueIn
  <2>3. v.at = "reg" /\ v.reg = r /\ v.tag = Inner /\ v.bank = m.bank /\ v.fixed = FALSE
    BY DEF Value, Item
  <2>4. p \o SetToSeq(result) = Append(p, v)
    <3>1. result = {v}
      <4> HIDE DEF m
      <4> QED
        BY <2>1
    <3> HIDE DEF v, result
    <3>2. SetToSeq(result) = <<v>>
      BY <3>1, AsSequence
    <3> QED
      BY <1>7, <2>2, <3>2
  <2> HIDE DEF v, result, m
  <2>5. Inner = Len(p) + 1 /\ Inner - 1 \in Nat
    BY <1>2, <1>7
  <2>6. StaticAt(Append(p, v), Len(p) + 1)
    <3>1. v.reg \in BankRegs(v.bank) \ Reserved
      BY <1>6, <2>1, <2>3
    <3>2. \A j \in 1 .. Len(p) : Open(p, j + 1, Len(p)) /\ Uses(p, j, Len(p)) => p[j].reg # v.reg
      BY <1>6, <1>7, <2>1, <2>3
    <3>3. ~IsArg(v) /\ ~IsCounter(v)
      BY <2>2, <2>3 DEF IsArg, IsCounter
    <3> QED
      BY <1>7, <2>2, <2>3, <2>5, <3>1, <3>2, <3>3, NewStatic
  <2>7. Held(t, Append(p, v))
    <3>1. t.reg[v.reg] = v.tag
      BY <1>4, <1>5, <1>6, <2>1, <2>3
    <3> QED
      BY <1>6, <1>7, <2>2, <2>3, <2>6, <3>1, PushHeld
  <2>8. ForsTaken(t, Append(p, v))
    <3>1. Len(Append(p, v)) = Inner /\ Append(p, v)[Inner] = v /\ \A k \in 1 .. Inner - 1 : Append(p, v)[k] = p[k]
      BY <1>7, <2>2, <2>5, Pushed
    <3>2. \A k \in 1 .. Inner : k \in 1 .. Inner - 1 \/ k = Inner
      BY <2>5
    <3>3. \A k \in 1 .. Inner - 1 : \A j \in k + 1 .. Inner - 1 : j \in k + 1 .. Inner /\ j \in 1 .. Inner - 1
      BY <2>5, <1>2
    <3>4. ASSUME NEW k \in 1 .. Inner - 1, Open(Append(p, v), k + 1, Inner), Uses(Append(p, v), k, Inner)
          PROVE  Open(p, k + 1, Inner - 1) /\ Uses(p, k, Inner - 1)
      BY <3>1, <3>3, <3>4 DEF Open, Uses
    <3> QED
      BY <1>6, <1>7, <2>2, <3>1, <3>2, <3>4 DEF ForsTaken
  <2>9. Kept(t, Append(p, v))
    BY <1>6, <2>7, <2>8 DEF Kept, CalmMachine
  <2>10. Become(t, Append(p, v))
    BY <1>1, <2>4 DEF result, m, t, p
  <2> QED
    BY <1>6, <2>9, <2>10, BecomesKept
<1>10. CASE m.kind # "fn"
  <2>1. result = {}
    BY <1>2, <1>10
  <2> HIDE DEF result
  <2>2. SetToSeq(result) = << >>
    BY <2>1, AsSequence
  <2>3. p \o SetToSeq(result) = p
    BY <1>7, <2>2
  <2>4. Kept(t, p)
    BY <1>6 DEF Kept, CalmMachine
  <2>5. Become(t, p)
    BY <1>1, <2>3 DEF result, t, p
  <2> QED
    BY <1>6, <2>4, <2>5, BecomesKept
<1> QED
  BY <1>9, <1>10

LEMMA WriteKeeps ==
  ASSUME IInv, OInv, orderly, IInv', Write
  PROVE  OInv'
<1> DEFINE m == todo[Inner]
           one == Put(st, 0, Junk)
           put == Put(one, 1, Junk)
           s == [put EXCEPT !.sp = @ - 2 * Passed]
           t == Restore(s, m.saved, {})
           p == Under(1 + Passed)
<1>1. Between /\ m.kind = "write" /\ Become(t, p)
  BY DEF Write
<1>2. /\ Inner \in 1 .. N /\ m \in Entries /\ IsMarker(m) /\ FrameTop <= m.sp
      /\ p = SubSeq(todo, 1, Inner - 1) /\ m.ret = {}
      /\ m.sp \in Int /\ Cardinality(m.saved) \in Nat /\ m.sp + Cardinality(m.saved) \in Words
      /\ st.sp - 2 * Passed = m.sp + Cardinality(m.saved)
  BY <1>1, EndSetup DEF IsCall
<1>3. st \in CalmMachine /\ Junk \in Tags /\ 0 \in Regs /\ 1 \in Regs
  BY Ready, ConstantsOK DEF Junk, Tags, Regs
<1>4. one \in CalmMachine /\ one.word = st.word /\ one.sp = st.sp
  BY <1>3, PutCalm
<1> HIDE DEF one
<1>5. put \in CalmMachine /\ put.word = st.word /\ put.sp = st.sp
  BY <1>3, <1>4, PutCalm
<1> HIDE DEF put
<1>6. s \in CalmMachine /\ s.word = st.word /\ s.sp = m.sp + Cardinality(m.saved)
  <2>1. s = [put EXCEPT !.sp = m.sp + Cardinality(m.saved)]
    BY <1>2, <1>5
  <2>2. m.sp + Cardinality(m.saved) \in Int
    BY <1>2
  <2> HIDE DEF s, m
  <2> QED
    BY <1>5, <2>1, <2>2, MoveCalm
<1> HIDE DEF s
<1>7. t \in CalmMachine /\ t.sp \in Words /\ Held(t, p) /\ ForsTaken(t, p)
  BY <1>2, <1>6, CallEnds
<1>8. Kept(t, p)
  BY <1>7 DEF Kept, CalmMachine
<1>9. Become(t, p)
  BY <1>1 DEF t, s, put, one
<1> QED
  BY <1>7, <1>8, <1>9, BecomesKept

-----------------------------------------------------------------------------
(* Steps *)

\* A machine on which nothing was compiled.
LEMMA FreshHas ==
  HasSpare(Fresh) /\ Kept(Fresh, << >>)
<1>1. ASSUME NEW b \in BothBanks PROVE Cardinality(FreeRegs(Fresh, b) \ Reserved) >= 2
  <2> DEFINE x == First(b)
             free == FreeRegs(Fresh, b) \ Reserved
  <2>1. x \in {0, RegCount} /\ x \in Nat /\ x + 1 \in Nat /\ x # x + 1
    BY ConstantsOK DEF First
  <2>2. Fresh.reglist = Reserved
    BY DEF Fresh
  <2>3. {x, x + 1} \subseteq free
    BY <2>1, <2>2, ConstantsOK DEF FreeRegs, BankRegs, Reserved, GP, FP, SP
  <2>4. free \subseteq Regs
    BY ConstantsOK DEF FreeRegs, BankRegs, First, Regs
  <2> HIDE DEF x, free
  <2>5. IsFiniteSet(free) /\ Cardinality(free) \in Nat
    BY <2>4, RegsFinite
  <2>6. Cardinality({x}) = 1 /\ IsFiniteSet({x})
    BY FS_Singleton
  <2>7. Cardinality({x} \cup {x + 1}) = 2
    BY <2>1, <2>6, FS_AddElement
  <2>8. {x, x + 1} = {x} \cup {x + 1}
    OBVIOUS
  <2>9. Cardinality({x, x + 1}) = 2
    BY <2>7, <2>8
  <2>10. Cardinality({x, x + 1}) <= Cardinality(free)
    BY <2>3, <2>5, FS_Subset
  <2> QED
    BY <2>5, <2>9, <2>10 DEF free
<1>2. Calm(Fresh)
  BY DEF Calm, Fresh, BothBanks
<1>3. Held(Fresh, << >>) /\ ForsTaken(Fresh, << >>)
  BY DEF Held, Static, BelowSp, SavedHold, WordsHold, RegsHold, ForsTaken
<1> QED
  BY <1>1, <1>2, <1>3 DEF HasSpare, Kept

LEMMA InitKeeps == Init => OInv
<1> SUFFICES ASSUME Init PROVE OInv
  OBVIOUS
<1>1. st = Fresh /\ todo = << >> /\ N = 0
  BY DEF Init, N
<1>2. Spare
  BY <1>1, FreshHas DEF Spare, HasSpare, BothBanks
<1>3. Owned /\ CountersInPlace /\ SavesAreSmall
  BY <1>1 DEF Owned, CountersInPlace, SavesAreSmall
<1> QED
  BY <1>1, <1>2, <1>3, FreshHas DEF OInv, Orderly

LEMMA ResetKeeps ==
  ASSUME Reset
  PROVE  OInv'
<1>1. st' = Fresh /\ todo' = << >> /\ N' = 0
  BY DEF Reset, N
<1>2. Spare'
  BY <1>1, FreshHas DEF Spare, HasSpare, BothBanks, FreeRegs
<1>3. Owned' /\ CountersInPlace' /\ SavesAreSmall'
  BY <1>1 DEF Owned, CountersInPlace, SavesAreSmall
<1> QED
  BY <1>1, <1>2, <1>3, FreshHas DEF OInv, Orderly

\* Code that was not orderly is not again before the next line.
LEMMA StaysDisorderly ==
  ASSUME ~orderly, Compile
  PROVE  OInv'
<1>1. \A s, q : Become(s, q) => OInv'
  BY DEF Become, OInv
<1>2. ASSUME \/ \E p \in Places, b \in Banks : Operand(p, b)
             \/ \E k \in 1 .. N : Counter(k)
             \/ Infix \/ Condition \/ Assign
      PROVE  OInv'
  BY <1>1, <1>2 DEF Operand, Counter, Infix, Condition, Assign
<1>3. ASSUME \/ \E p \in ArgCounts, b \in Banks : CallFunction(p, b)
             \/ \E p \in ArgCounts : CallProcedure(p)
             \/ RegisterArg \/ StackArg \/ Call
      PROVE  OInv'
  BY <1>1, <1>3 DEF CallFunction, CallProcedure, RegisterArg, StackArg, Call
<1>4. ASSUME \/ WriteStart \/ WriteArg \/ Write
             \/ ForStart \/ ForInit \/ ForStop \/ ForEnd
      PROVE  OInv'
  BY <1>1, <1>4 DEF WriteStart, WriteArg, Write, ForStart, ForInit, ForStop, ForEnd
<1> QED
  BY <1>2, <1>3, <1>4 DEF Compile

LEMMA StepKeeps == IInv /\ OInv /\ [Next]_vars => IInv' /\ OInv'
<1> SUFFICES ASSUME IInv, OInv, [Next]_vars PROVE OInv'
  BY StepOK
<1>1. IInv'
  BY StepOK
<1>2. CASE UNCHANGED vars
  <2>1. OInv' <=> OInv
    BY <1>2 DEF vars, OInv, Orderly, Owned, Live, CountersInPlace, Spare, FreeRegs, SavesAreSmall, N
  <2> QED
    BY <2>1
<1>3. CASE Reset
  BY <1>3, ResetKeeps
<1>4. CASE Compile /\ ~orderly
  BY <1>4, StaysDisorderly
<1>5. CASE Compile /\ orderly
  <2>1. CASE \E p \in Places, b \in Banks : Operand(p, b)
    BY <1>1, <1>5, <2>1, OperandKeeps
  <2>2. CASE \E k \in 1 .. N : Counter(k)
    BY <1>1, <1>5, <2>2, CounterKeeps
  <2>3. CASE Infix \/ Condition \/ Assign
    BY <1>1, <1>5, <2>3, InfixKeeps, ConditionKeeps, AssignKeeps
  <2>4. CASE \E p \in ArgCounts, b \in Banks : CallFunction(p, b)
    BY <1>1, <1>5, <2>4, CallFunctionKeeps
  <2>5. CASE \E p \in ArgCounts : CallProcedure(p)
    BY <1>1, <1>5, <2>5, CallProcedureKeeps
  <2>6. CASE RegisterArg \/ StackArg \/ Call
    BY <1>1, <1>5, <2>6, RegisterArgKeeps, StackArgKeeps, CallKeeps
  <2>7. CASE WriteStart \/ WriteArg \/ Write
    BY <1>1, <1>5, <2>7, WriteStartKeeps, WriteArgKeeps, WriteKeeps
  <2>8. CASE ForStart \/ ForInit \/ ForStop \/ ForEnd
    BY <1>1, <1>5, <2>8, ForStartKeeps, ForInitKeeps, ForStopKeeps, ForEndKeeps
  <2> QED
    BY <1>5, <2>1, <2>2, <2>3, <2>4, <2>5, <2>6, <2>7, <2>8 DEF Compile
<1> QED
  BY <1>2, <1>3, <1>4, <1>5 DEF Next

LEMMA Holding == IInv /\ OInv => OperandsHold
<1> SUFFICES ASSUME IInv, OInv, orderly, NEW k \in 1 .. N, Live(k) \/ todo[k].at = "word"
             PROVE  Holds(st, todo[k])
  BY DEF OperandsHold
<1>1. N \in Nat /\ N = Len(todo) /\ todo \in Seq(Entries) /\ N \in 0 .. Len(todo)
  BY Basics
<1>2. Static(todo) /\ WordsHold(st, todo) /\ RegsHold(st, todo)
  BY Ready DEF Held
<1>3. CASE todo[k].at = "word"
  BY <1>1, <1>2, <1>3 DEF WordsHold, Holds
<1>4. CASE Live(k)
  <2>1. todo[k].at = "reg" /\ Open(todo, k + 1, N)
    BY <1>1, <1>2, <1>4, NotSaved DEF Live
  <2> QED
    BY <1>1, <1>2, <2>1 DEF RegsHold, Holds
<1> QED
  BY <1>3, <1>4

-----------------------------------------------------------------------------
(* Theorems *)

\* While the code is orderly nothing is spilled, each pending operand has a register
\* that only uses of one counter share, and calls have saved below them in words of
\* their own: OInv stays, whatever is compiled.
THEOREM OperandsInductive == Spec => [](IInv /\ OInv)
<1>1. Init => IInv /\ OInv
  BY InitOK, InitKeeps
<1>2. IInv /\ OInv /\ [Next]_vars => (IInv /\ OInv)'
  BY StepKeeps
<1> QED
  BY <1>1, <1>2, PTL DEF Spec

\* PVMEmitIntoReg, PVMEmitSaveCallerRegs, PVMEmitUnsaveCallerRegs, PVMSetArg and
\* CompileForStmt: while the code is orderly, every operand, counter, stop value and
\* argument is in the register or stack word that names it, through calls nested in
\* operands and in arguments to any depth: OperandsHold.
THEOREM OperandsRight == Spec => []OperandsHold
<1>1. IInv /\ OInv => OperandsHold
  BY Holding
<1> QED
  BY OperandsInductive, <1>1, PTL
=============================================================================
