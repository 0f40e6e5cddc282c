--------------------------- MODULE CodegenProofs ---------------------------
(***************************************************************************)
(* The invariants of Codegen, for every set of conditions and every bound: *)
(* what the compiler has on its stack says where in the code branches are  *)
(* that wait for their target, and all others lead to an instruction.      *)
(***************************************************************************)
EXTENDS Codegen, WellFoundedInduction, TLAPS

-----------------------------------------------------------------------------
(* Code *)

TwoWords == Branches \cup {"BRI"}

WordSet ==
  [op : {"ENTER", "half", "EXIT"}]
    \cup [op : {"act"}, n : Nat, what : {"do", "init", "bound", "put"}]
    \cup [op : {"set", "load"}, n : Nat, side : Nat, neg : BOOLEAN]
    \cup [op : {"imm"}, val : BOOLEAN]
    \cup [op : Branches, by : Int] \cup [op : {"BRI"}, n : Nat, by : Int]

Emitter == [code : Seq(WordSet), emit : BOOLEAN, dead : BOOLEAN]

\* Indices where an instruction begins, or the next one will; not that of ENTER.
Land(c) == {i \in 4 .. Len(c) : c[i].op # "half"} \cup {Len(c) + 1}

\* An ENTER, then one instruction behind the other.
WellFormed(c) ==
  /\ Len(c) >= 3 /\ c[1].op = "ENTER" /\ c[2].op = "half" /\ c[3].op = "half"
  /\ 4 \in Land(c)
  /\ \A i \in 4 .. Len(c) :
       /\ c[i].op \in TwoWords => i + 2 \in Land(c)
       /\ c[i].op \notin TwoWords \cup {"half"} => i + 1 \in Land(c)

\* All branches lead to an instruction, but those whose place is in `waiting'.
Targets(c, waiting) ==
  \A i \in 4 .. Len(c) :
    c[i].op \in TwoWords => i + 2 + c[i].by \in Land(c) \/ i - 1 \in waiting

Sound(e, waiting) == e \in Emitter /\ WellFormed(e.code) /\ Targets(e.code, waiting)

IsBranch(c, at) == at + 1 \in 4 .. Len(c) /\ c[at + 1].op \in Branches

-----------------------------------------------------------------------------
(* The stack *)

IsStack(s) == Len(s) \in Nat /\ DOMAIN s = 1 .. Len(s)

IsLoop(f) == f.k \in {"while", "for"}
IsCase(f) == f.k \in {"case", "arm", "otherwise"}
Restores == {"then", "else", "while", "for", "case", "arm", "otherwise"}

FrameOK(f) ==
  /\ f.k \in {"begin", "repeat"} \cup Restores /\ "k" \in DOMAIN f
  /\ f.k # "begin" => f.n \in Nat
  /\ f.k \in {"then", "else"} => f.c \in Conditions /\ f.last \in BOOLEAN
                                 /\ f.from \in Nat /\ "from" \in DOMAIN f
  /\ f.k \in {"begin", "repeat"} => "list" \in DOMAIN f
  /\ f.k = "then" => "yes" \in DOMAIN f
  /\ IsLoop(f) => /\ f.c \in Conditions \cup {Counter} /\ f.last \in BOOLEAN
                  /\ f.exit \in Nat /\ f.prev \in Nat /\ f.was \in BOOLEAN
  /\ f.k = "for" => f.c = Counter
  /\ f.k \in Loops => f.head \in Nat /\ f.live \in BOOLEAN
  /\ IsCase(f) => /\ f.const \in BOOLEAN /\ f.last \in BOOLEAN /\ f.emitted \in BOOLEAN
                  /\ f.outs \in Seq(Nat) /\ IsStack(f.arms)
                  /\ {"emitted", "outs", "arms", "list"} \subseteq DOMAIN f
  /\ f.k = "arm" => /\ Len(f.arms) > 0 /\ Last(f.arms).next \in Nat
                    /\ "body" \in DOMAIN Last(f.arms)

\* f does not switch emission off.
Runs(f) ==
  /\ f.k \in {"then", "while"} => ~Never(f.c)
  /\ f.k = "else" => ~Always(f.c)
  /\ f.k = "arm" => ~f.const \/ Literal(Last(f.arms).c, TRUE)
  /\ f.k = "otherwise" => ~(f.const /\ f.emitted)
AllRun(s, n) == \A j \in 1 .. n : Runs(s[j])

\* What is emitted, and what `last' and `live' remember of it.
Remembers(s, i) ==
  /\ s[i].k \in Restores => (s[i].last <=> AllRun(s, i - 1))
  /\ s[i].k \in Loops => (s[i].live <=> AllRun(s, i))

\* Branches f will patch.
Sites(f) ==
  {p \in Nat :
     \/ f.k \in {"then", "else"} /\ Unknown(f.c) /\ f.last /\ p = f.from
     \/ IsLoop(f) /\ f.live /\ p = f.exit
     \/ IsCase(f) /\ ~f.const /\ f.last /\ p \in ToSet(f.outs)
     \/ f.k = "arm" /\ ~f.const /\ f.last /\ p = Last(f.arms).next}

\* Those among them that lead nowhere yet.
Waits(f) ==
  {p \in Nat :
     \/ f.k = "else" /\ Unknown(f.c) /\ f.last /\ p = f.from
     \/ IsCase(f) /\ ~f.const /\ f.last /\ p \in ToSet(f.outs)}

Placed(c, f) ==
  /\ \A p \in Sites(f) : IsBranch(c, p)
  /\ f.k \in Loops => f.head + 1 \in Land(c)

\* The b-th of the breaks noted is of the i-th construct.
BreakOf(s, i, b) ==
  /\ IsLoop(s[i]) /\ s[i].prev < b
  /\ \A j \in i + 1 .. Len(s) : IsLoop(s[j]) => b <= s[j].prev

LoopOK(s, i, bs) ==
  /\ s[i].prev <= Len(bs)
  /\ s[i].was <=> \E j \in 1 .. i - 1 : IsLoop(s[j])
  /\ ~s[i].was => s[i].prev = 0
  /\ \A j \in 1 .. i - 1 : IsLoop(s[j]) => s[j].prev <= s[i].prev

LoopsOK(s, bs, il) ==
  /\ il <=> \E i \in 1 .. Len(s) : IsLoop(s[i])
  /\ ~il => bs = << >>
  /\ \A i \in 1 .. Len(s) : IsLoop(s[i]) => LoopOK(s, i, bs)

BreaksPlaced(c, s, bs) ==
  \A i \in 1 .. Len(s), b \in 1 .. Len(bs) :
    BreakOf(s, i, b) /\ s[i].live => IsBranch(c, bs[b])

Waiting(s, bs) ==
  {p \in Nat :
     \/ \E i \in 1 .. Len(s) : p \in Waits(s[i])
     \/ \E i \in 1 .. Len(s), b \in 1 .. Len(bs) : BreakOf(s, i, b) /\ s[i].live /\ p = bs[b]}

\* What holds of the stack and the code, whether anything is emitted or not.
Base(c, s, bs, il) ==
  /\ \A i \in 1 .. Len(s) : Remembers(s, i)
  /\ \A i \in 1 .. Len(s) : Placed(c, s[i])
  /\ LoopsOK(s, bs, il) /\ BreaksPlaced(c, s, bs)

Core(e, s, bs, il) ==
  /\ ~e.dead /\ Sound(e, Waiting(s, bs))
  /\ e.emit <=> AllRun(s, Len(s))
  /\ Base(e.code, s, bs, il)

-----------------------------------------------------------------------------
(* The strengthening *)

StackOK(s) ==
  /\ IsStack(s) /\ \A i \in 1 .. Len(s) : FrameOK(s[i])
  /\ s # << >> => Len(s) > 0 /\ s[1].k = "begin"

Typed ==
  /\ em \in Emitter /\ StackOK(todo)
  /\ wants \in BOOLEAN /\ inLoop \in BOOLEAN /\ orderly \in BOOLEAN /\ turn \in BOOLEAN
  /\ breaks \in Seq(Nat) /\ size \in 0 .. MaxSize
  /\ vm \in [ip : Nat, flag : BOOLEAN, reg : BOOLEAN]

\* The finished code goes from instruction to instruction, to its last EXIT.
Finished(c) ==
  \A i \in 4 .. Len(c) :
    /\ c[i].op \in TwoWords => i + 2 \in Land(c) \ {Len(c) + 1}
                               /\ i + 2 + c[i].by \in Land(c) \ {Len(c) + 1}
    /\ c[i].op \notin TwoWords \cup {"half", "EXIT"} => i + 1 \in Land(c) \ {Len(c) + 1}

RunOK ==
  Running => orderly /\ Finished(em.code) /\ vm.ip + 1 \in Land(em.code) \ {Len(em.code) + 1}

IInv == Typed /\ RunOK /\ (orderly => Core(em, todo, breaks, inLoop))
-----------------------------------------------------------------------------
(* Words and instructions *)

LEMMA WordFacts ==
  ASSUME NEW w \in WordSet
  PROVE  /\ w.op \in Words
         /\ w.op \in Branches \cup {"BRI"} => w.by \in Int
         /\ w.op = "imm" => w.val \in BOOLEAN
         /\ w.op \in {"set", "load"} => w.neg \in BOOLEAN
BY DEF WordSet, Words, Branches

LEMMA Redirected ==
  ASSUME NEW w \in WordSet, w.op \in Branches, NEW by \in Int
  PROVE  /\ [w EXCEPT !.by = by] \in WordSet
         /\ [w EXCEPT !.by = by].op = w.op /\ [w EXCEPT !.by = by].by = by
<1>1. w \in [op : Branches, by : Int]
  BY DEF WordSet, Branches
<1> QED
  BY <1>1 DEF WordSet

\* The code d is c with more behind it, or with other targets.
Kept(c, d) ==
  /\ Len(c) <= Len(d) /\ Land(c) \subseteq Land(d)
  /\ \A i \in 1 .. Len(c) : d[i].op = c[i].op

LEMMA KeptRefl == \A c \in Seq(WordSet) : Kept(c, c)
BY DEF Kept

LEMMA KeptTrans ==
  ASSUME NEW c \in Seq(WordSet), NEW d \in Seq(WordSet), NEW e \in Seq(WordSet),
         Kept(c, d), Kept(d, e)
  PROVE  Kept(c, e)
BY DEF Kept

LEMMA KeptBranch ==
  ASSUME NEW c \in Seq(WordSet), NEW d \in Seq(WordSet), Kept(c, d), NEW p, IsBranch(c, p)
  PROVE  IsBranch(d, p)
BY DEF Kept, IsBranch

\* An instruction of one word.
LEMMA AppendOne ==
  ASSUME NEW c \in Seq(WordSet), WellFormed(c), NEW A, Targets(c, A),
         NEW w \in WordSet, w.op \notin TwoWords \cup {"half"},
         NEW d, d = Append(c, w)
  PROVE  /\ d \in Seq(WordSet) /\ WellFormed(d) /\ Targets(d, A) /\ Kept(c, d)
         /\ Len(d) = Len(c) + 1
<1>1. /\ d \in Seq(WordSet) /\ Len(d) = Len(c) + 1 /\ Len(c) \in Nat
      /\ \A i \in 1 .. Len(c) : d[i] = c[i]
      /\ d[Len(c) + 1] = w
  OBVIOUS
<1>2. Land(c) \subseteq Land(d) /\ Len(c) + 2 \in Land(d)
  <2>1. Len(c) >= 3
    BY DEF WellFormed
  <2> QED
    BY <1>1, <2>1 DEF Land
<1>3. WellFormed(d)
  BY <1>1, <1>2 DEF WellFormed
<1>4. Targets(d, A)
  BY <1>1, <1>2 DEF Targets
<1>5. Kept(c, d)
  BY <1>1, <1>2 DEF Kept
<1> QED
  BY <1>1, <1>3, <1>4, <1>5

\* A branch and its second half.
\* d is the code c and behind it a branch to `to'.
Branched(c, d, op, to) ==
  \E w \in WordSet : /\ w.op = op /\ w.by = to - Len(c) - BranchSize
                     /\ d = Append(Append(c, w), SecondHalf)

\* It leads to a place that is or will be an instruction, or waits to be patched.
Leads(c, to, B) == to + 1 \in Land(c) \cup {Len(c) + 3} \/ Len(c) \in B

LEMMA AppendTwo ==
  ASSUME NEW c \in Seq(WordSet), WellFormed(c), NEW A, Targets(c, A), NEW B, A \subseteq B,
         NEW op \in TwoWords, NEW to \in Int, NEW d, Branched(c, d, op, to), Leads(c, to, B)
  PROVE  /\ d \in Seq(WordSet) /\ WellFormed(d) /\ Targets(d, B) /\ Kept(c, d)
         /\ Len(d) = Len(c) + BranchSize
         /\ op \in Branches => IsBranch(d, Len(c))
<1>w. PICK w \in WordSet : /\ w.op = op /\ w.by = to - Len(c) - BranchSize
                          /\ d = Append(Append(c, w), SecondHalf)
  BY DEF Branched
<1>l. Len(c) + 3 + w.by \in Land(c) \cup {Len(c) + 3} \/ Len(c) \in B
  BY <1>w, SMTT(30) DEF Leads, BranchSize
<1>1. SecondHalf \in WordSet /\ SecondHalf.op = "half" /\ w.op # "half"
  BY <1>w DEF WordSet, SecondHalf, TwoWords, Branches
<1>2. /\ d \in Seq(WordSet) /\ Len(d) = Len(c) + 2 /\ Len(c) \in Nat
      /\ \A i \in 1 .. Len(c) : d[i] = c[i]
      /\ d[Len(c) + 1] = w /\ d[Len(c) + 2] = SecondHalf
  BY <1>1, <1>w
<1>3. Len(c) >= 3
  BY DEF WellFormed
<1>4. Land(c) \subseteq Land(d) /\ Len(c) + 3 \in Land(d)
  BY <1>1, <1>2, <1>3 DEF Land
<1>5. WellFormed(d)
  <2>1. /\ Len(d) >= 3 /\ d[1].op = "ENTER" /\ d[2].op = "half" /\ d[3].op = "half"
        /\ 4 \in Land(d)
    BY <1>2, <1>3, <1>4 DEF WellFormed
  <2>2. ASSUME NEW i \in 4 .. Len(d)
        PROVE  /\ d[i].op \in TwoWords => i + 2 \in Land(d)
               /\ d[i].op \notin TwoWords \cup {"half"} => i + 1 \in Land(d)
    <3>1. CASE i \in 4 .. Len(c)
      BY <3>1, <1>2, <1>4, SMTT(30) DEF WellFormed
    <3>2. CASE i = Len(c) + 1
      BY <3>2, <1>2, <1>4, <1>w
    <3>3. CASE i = Len(c) + 2
      BY <3>3, <1>1, <1>2 DEF TwoWords, Branches
    <3> QED
      BY <3>1, <3>2, <3>3, <1>2
  <2> QED
    BY <2>1, <2>2 DEF WellFormed
<1>6. Targets(d, B)
  <2>1. \A i \in 4 .. Len(c) :
          c[i].op \in TwoWords => i + 2 + c[i].by \in Land(d) \/ i - 1 \in B
    BY <1>4 DEF Targets
  <2>2. (Len(c) + 1) + 2 + w.by \in Land(d) \/ (Len(c) + 1) - 1 \in B
    <3>1. w.by \in Int
      BY <1>w, WordFacts DEF TwoWords
    <3>2. (Len(c) + 1) + 2 + w.by = Len(c) + 3 + w.by /\ (Len(c) + 1) - 1 = Len(c)
      BY <1>2, <3>1
    <3> QED
      BY <3>2, <1>4, <1>l
  <2>3. d[Len(c) + 2].op \notin TwoWords
    BY <1>1, <1>2 DEF TwoWords, Branches
  <2> QED
    BY <1>2, <2>1, <2>2, <2>3, SMTT(30) DEF Targets
<1>7. Kept(c, d)
  BY <1>2, <1>4 DEF Kept
<1>8. op \in Branches => IsBranch(d, Len(c))
  BY <1>2, <1>3, <1>w DEF IsBranch
<1> QED
  BY <1>2, <1>5, <1>6, <1>7, <1>8 DEF BranchSize

\* Other targets for some branches, which from now on lead to an instruction.
LEMMA Retarget ==
  ASSUME NEW c \in Seq(WordSet), WellFormed(c), NEW A, Targets(c, A), NEW B,
         NEW P, A \subseteq B \cup P, NEW d \in Seq(WordSet), Len(d) = Len(c),
         \A i \in 1 .. Len(c) :
           \/ d[i] = c[i] /\ i - 1 \notin P
           \/ d[i].op = c[i].op /\ (c[i].op \in TwoWords => i + 2 + d[i].by \in Land(c))
  PROVE  WellFormed(d) /\ Targets(d, B) /\ Kept(c, d)
<1>1. Len(c) \in Nat /\ Len(c) >= 3
  BY DEF WellFormed
<1>2. \A i \in 1 .. Len(c) : d[i].op = c[i].op
  OBVIOUS
<1>3. Land(d) = Land(c)
  BY <1>1, <1>2 DEF Land
<1>4. WellFormed(d)
  <2>1. /\ Len(d) >= 3 /\ d[1].op = "ENTER" /\ d[2].op = "half" /\ d[3].op = "half"
        /\ 4 \in Land(d)
    BY <1>1, <1>2, <1>3 DEF WellFormed
  <2>2. \A i \in 4 .. Len(d) : i \in 4 .. Len(c) /\ d[i].op = c[i].op
    BY <1>1, <1>2
  <2> QED
    BY <2>1, <2>2, <1>3 DEF WellFormed
<1>5. Targets(d, B)
  BY <1>1, <1>2, <1>3 DEF Targets
<1>6. Kept(c, d)
  BY <1>1, <1>2, <1>3 DEF Kept
<1> QED
  BY <1>4, <1>5, <1>6

-----------------------------------------------------------------------------
(* The emitter *)

LEMMA EmitterIs ==
  ASSUME NEW e \in Emitter
  PROVE  /\ e.code \in Seq(WordSet) /\ e.emit \in BOOLEAN /\ e.dead \in BOOLEAN
         /\ Here(e) \in Nat /\ BranchAt(e) \in Int
BY DEF Emitter, Here, BranchAt, BranchSize

\* Whether anything is emitted says nothing of the code there is.
LEMMA Switched ==
  ASSUME NEW e \in Emitter, NEW b \in BOOLEAN, NEW f, f = [e EXCEPT !.emit = b]
  PROVE  f \in Emitter /\ f.code = e.code /\ f.emit = b /\ f.dead = e.dead
BY DEF Emitter

LEMMA EmitTyped ==
  ASSUME NEW e \in Emitter, NEW w \in WordSet
  PROVE  /\ Emit(e, w) \in Emitter
         /\ Emit(e, w).emit = e.emit /\ Emit(e, w).dead = e.dead
         /\ e.emit => Emit(e, w).code = Append(e.code, w)
         /\ ~e.emit => Emit(e, w) = e
<1>1. Append(e.code, w) \in Seq(WordSet)
  BY EmitterIs
<1> QED
  BY <1>1 DEF Emit, Emitter

LEMMA EmitBranchTyped ==
  ASSUME NEW e \in Emitter, NEW op \in Branches, NEW to \in Int, NEW f, f = EmitBranch(e, op, to)
  PROVE  /\ f \in Emitter /\ f.emit = e.emit /\ f.dead = e.dead
         /\ ~e.emit => f = e
         /\ e.emit => Branched(e.code, f.code, op, to)
<1> DEFINE w == [op |-> op, by |-> to - Here(e) - BranchSize]
<1>1. w \in WordSet /\ w.op = op /\ w.by = to - Here(e) - BranchSize
  BY EmitterIs DEF WordSet, BranchSize
<1>2. SecondHalf \in WordSet
  BY DEF WordSet, SecondHalf
<1>3. PICK g \in Emitter :
        /\ g = Emit(e, w) /\ g.emit = e.emit /\ g.dead = e.dead
        /\ e.emit => g.code = Append(e.code, w)
        /\ ~e.emit => g = e
  BY <1>1, EmitTyped
<1>4. f = Emit(g, SecondHalf)
  BY <1>3 DEF EmitBranch
<1>5. /\ f \in Emitter /\ f.emit = g.emit /\ f.dead = g.dead
      /\ g.emit => f.code = Append(g.code, SecondHalf)
      /\ ~g.emit => f = g
  BY <1>2, <1>4, EmitTyped
<1> QED
  BY <1>1, <1>3, <1>5 DEF Branched, Here

\* BRI gets as far as it can.
InReach(e, to) == Wrap(to - Here(e) - BranchSize) = to - Here(e) - BranchSize

LEMMA WrapIs ==
  ASSUME NEW by \in Int, Reach \in Nat \ {0}
  PROVE  /\ Wrap(by) \in Int
         /\ by \in -Reach .. Reach - 1 => Wrap(by) = by
BY SMTT(30) DEF Wrap

LEMMA BranchAndIncTyped ==
  ASSUME NEW e \in Emitter, NEW n \in Nat, NEW to \in Int, NEW f,
         f = EmitBranchAndInc(e, n, to)
  PROVE  /\ f \in Emitter /\ f.emit = e.emit /\ f.dead = e.dead
         /\ ~e.emit => f = e
         /\ e.emit /\ InReach(e, to) => Branched(e.code, f.code, "BRI", to)
<1>r. Reach \in Nat \ {0}
  BY CodegenAssumption DEF CodegenAssumption
<1>1. PICK w \in WordSet :
        /\ w = [op |-> "BRI", n |-> n, by |-> Wrap(to - Here(e) - BranchSize)]
        /\ w.op = "BRI" /\ w.by = Wrap(to - Here(e) - BranchSize)
  <2>1. to - Here(e) - BranchSize \in Int
    BY EmitterIs DEF BranchSize
  <2>2. PICK by \in Int : by = Wrap(to - Here(e) - BranchSize)
    BY <1>r, <2>1, WrapIs
  <2>3. [op |-> "BRI", n |-> n, by |-> by] \in WordSet
    BY DEF WordSet
  <2> QED
    BY <2>2, <2>3
<1>2. SecondHalf \in WordSet
  BY DEF WordSet, SecondHalf
<1>3. PICK g \in Emitter :
        /\ g = Emit(e, w) /\ g.emit = e.emit /\ g.dead = e.dead
        /\ e.emit => g.code = Append(e.code, w)
        /\ ~e.emit => g = e
  BY <1>1, EmitTyped
<1>4. f = Emit(g, SecondHalf)
  BY <1>1, <1>3 DEF EmitBranchAndInc
<1>5. /\ f \in Emitter /\ f.emit = g.emit /\ f.dead = g.dead
      /\ g.emit => f.code = Append(g.code, SecondHalf)
      /\ ~g.emit => f = g
  BY <1>2, <1>4, EmitTyped
<1>6. InReach(e, to) => w.by = to - Len(e.code) - BranchSize
  BY <1>1 DEF InReach, Here
<1> QED
  BY <1>1, <1>3, <1>5, <1>6 DEF Branched

\* d is the code c, but the branch at `from' leads to `to'.
Patched(c, d, from, to) ==
  /\ d[from + 1].op = c[from + 1].op
  /\ d[from + 1].by = to - from - BranchSize
  /\ \A i \in 1 .. Len(c) : i # from + 1 => d[i] = c[i]

LEMMA PatchTyped ==
  ASSUME NEW e \in Emitter, NEW from \in Nat, NEW to \in Int, NEW f, f = Patch(e, from, to)
  PROVE  /\ f \in Emitter /\ f.emit = e.emit /\ Here(f) = Here(e)
         /\ ~e.emit => f = e
         /\ e.emit /\ IsBranch(e.code, from) =>
              f.dead = e.dead /\ Patched(e.code, f.code, from, to)
<1>1. CASE ~e.emit
  BY <1>1 DEF Patch
<1>2. CASE e.emit /\ WordAt(e, from).op \notin Branches
  <2>1. f = [e EXCEPT !.dead = TRUE]
    BY <1>2 DEF Patch
  <2>2. ~IsBranch(e.code, from)
    BY <1>2, EmitterIs DEF IsBranch, WordAt, Here
  <2> QED
    BY <1>2, <2>1, <2>2 DEF Emitter, Here
<1>3. CASE e.emit /\ WordAt(e, from).op \in Branches
  <2>1. f = [e EXCEPT !.code[from + 1].by = to - from - BranchSize]
    BY <1>3 DEF Patch
  <2>2. from < Here(e)
    BY <1>3 DEF WordAt, SecondHalf, Branches
  <2>3. from + 1 \in 1 .. Len(e.code) /\ e.code[from + 1].op \in Branches
    BY <1>3, <2>2, EmitterIs DEF WordAt, Here
  <2>4. PICK w \in WordSet :
          /\ w = [e.code[from + 1] EXCEPT !.by = to - from - BranchSize]
          /\ w.op = e.code[from + 1].op /\ w.by = to - from - BranchSize
    <3>1. e.code[from + 1] \in WordSet /\ to - from - BranchSize \in Int
      BY <2>3, EmitterIs DEF BranchSize
    <3> QED
      BY <2>3, <3>1, Redirected
  <2>5. f.code = [e.code EXCEPT ![from + 1] = w] /\ f.emit = e.emit /\ f.dead = e.dead
    BY <2>1, <2>4 DEF Emitter
  <2>6. f.code \in Seq(WordSet) /\ Len(f.code) = Len(e.code)
    BY <2>3, <2>5, EmitterIs
  <2>7. f \in Emitter
    <3>1. f = [code |-> f.code, emit |-> f.emit, dead |-> f.dead]
      BY <2>1 DEF Emitter
    <3> QED
      BY <2>5, <2>6, <3>1, EmitterIs DEF Emitter
  <2>8. f.code[from + 1] = w /\ \A i \in 1 .. Here(e) : i # from + 1 => f.code[i] = e.code[i]
    BY <2>3, <2>5, EmitterIs DEF Here
  <2> QED
    BY <1>3, <2>4, <2>5, <2>6, <2>7, <2>8 DEF Here, Patched
<1> QED
  BY <1>1, <1>2, <1>3, EmitterIs

LEMMA PatchIs ==
  ASSUME NEW e \in Emitter, NEW from \in Nat, NEW to \in Int, NEW f, f = Patch(e, from, to)
  PROVE  f \in Emitter /\ f.emit = e.emit /\ Here(f) = Here(e)
BY PatchTyped

\* d is the code c, but the branches among `froms' lead behind it.
AllPatched(c, d, froms) ==
  \A i \in 1 .. Len(c) :
    IF i - 1 \in ToSet(froms) /\ c[i].op \in Branches
    THEN d[i].op = c[i].op /\ d[i].by = Len(c) - (i - 1) - BranchSize
    ELSE d[i] = c[i]

LEMMA PatchAllTyped ==
  ASSUME NEW e \in Emitter, NEW froms \in Seq(Nat), NEW f, f = PatchAll(e, froms)
  PROVE  /\ f \in Emitter /\ f.emit = e.emit /\ Here(f) = Here(e)
         /\ ~e.emit => f = e
         /\ e.emit => AllPatched(e.code, f.code, froms)
         /\ (\A p \in ToSet(froms) : IsBranch(e.code, p)) => f.dead = e.dead
<1>1. CASE ~e.emit
  BY <1>1 DEF PatchAll
<1>2. CASE e.emit
  <2> DEFINE d == [i \in DOMAIN e.code |->
                     IF i - 1 \in ToSet(froms) /\ e.code[i].op \in Branches
                     THEN [e.code[i] EXCEPT !.by = Here(e) - (i - 1) - BranchSize]
                     ELSE e.code[i]]
             x == \E from \in ToSet(froms) : WordAt(e, from).op \notin Branches
  <2>1. f.code = d /\ f.emit = e.emit /\ f.dead = (e.dead \/ x)
    BY <1>2 DEF PatchAll, Emitter
  <2>2. \A i \in 1 .. Len(e.code) :
          /\ d[i] \in WordSet
          /\ IF i - 1 \in ToSet(froms) /\ e.code[i].op \in Branches
             THEN /\ d[i].op = e.code[i].op
                  /\ d[i].by = Here(e) - (i - 1) - BranchSize
             ELSE d[i] = e.code[i]
    <3> SUFFICES ASSUME NEW i \in 1 .. Len(e.code)
                 PROVE  /\ d[i] \in WordSet
                        /\ IF i - 1 \in ToSet(froms) /\ e.code[i].op \in Branches
                           THEN /\ d[i].op = e.code[i].op
                                /\ d[i].by = Here(e) - (i - 1) - BranchSize
                           ELSE d[i] = e.code[i]
      OBVIOUS
    <3>1. e.code[i] \in WordSet /\ i \in DOMAIN e.code /\ Here(e) - (i - 1) - BranchSize \in Int
      BY EmitterIs DEF BranchSize
    <3>2. CASE i - 1 \in ToSet(froms) /\ e.code[i].op \in Branches
      <4>1. d[i] = [e.code[i] EXCEPT !.by = Here(e) - (i - 1) - BranchSize]
        BY <3>1, <3>2
      <4> QED
        BY <3>1, <3>2, <4>1, Redirected
    <3>3. CASE ~(i - 1 \in ToSet(froms) /\ e.code[i].op \in Branches)
      BY <3>1, <3>3
    <3> QED
      BY <3>2, <3>3
  <2>3. d \in Seq(WordSet) /\ Len(d) = Len(e.code)
    <3>1. DOMAIN e.code = 1 .. Len(e.code) /\ Len(e.code) \in Nat
      BY EmitterIs
    <3>2. d \in [1 .. Len(e.code) -> WordSet]
      BY <2>2, <3>1
    <3> QED
      BY <3>1, <3>2
  <2>4. f \in Emitter
    <3>1. f = [code |-> f.code, emit |-> f.emit, dead |-> f.dead]
      BY <1>2 DEF PatchAll, Emitter
    <3>2. f.dead \in BOOLEAN
      BY <2>1, EmitterIs
    <3>3. f.code \in Seq(WordSet) /\ f.emit \in BOOLEAN
      BY <2>1, <2>3, EmitterIs
    <3> QED
      BY <3>1, <3>2, <3>3 DEF Emitter
  <2>5. ASSUME \A p \in ToSet(froms) : IsBranch(e.code, p)
        PROVE  f.dead = e.dead
    <3>1. \A p \in ToSet(froms) : p \in Nat
      BY DEF ToSet
    <3>2. ~x
      BY <2>5, <3>1, EmitterIs DEF IsBranch, WordAt, Here
    <3> QED
      BY <2>1, <3>2, EmitterIs
  <2>6. Here(f) = Here(e)
    BY <2>1, <2>3 DEF Here
  <2> QED
    BY <1>2, <2>1, <2>2, <2>4, <2>5, <2>6 DEF Here, AllPatched
<1> QED
  BY <1>1, <1>2, EmitterIs

-----------------------------------------------------------------------------
(* The emitter keeps code in order *)

\* What emitting does, in a compiler that emits or not.
Continues(e, f) ==
  f.emit = e.emit /\ f.dead = e.dead /\ Kept(e.code, f.code) /\ (~e.emit => f = e)

LEMMA ContinuesTrans ==
  ASSUME NEW e \in Emitter, NEW f \in Emitter, NEW g \in Emitter,
         Continues(e, f), Continues(f, g)
  PROVE  Continues(e, g)
BY KeptTrans, EmitterIs DEF Continues

LEMMA SoundIs ==
  ASSUME NEW A, NEW e, Sound(e, A)
  PROVE  /\ e \in Emitter /\ e.code \in Seq(WordSet) /\ Here(e) \in Nat /\ Here(e) >= 3
         /\ WellFormed(e.code) /\ Targets(e.code, A) /\ Here(e) + 1 \in Land(e.code)
         /\ Continues(e, e)
<1>1. e \in Emitter /\ e.code \in Seq(WordSet) /\ Here(e) \in Nat
  BY EmitterIs DEF Sound
<1> QED
  BY <1>1, KeptRefl DEF Sound, WellFormed, Here, Land, Continues

LEMMA SoundMore ==
  ASSUME NEW A, NEW B, NEW e, Sound(e, A), A \subseteq B
  PROVE  Sound(e, B)
BY DEF Sound, Targets

LEMMA SwitchedSound ==
  ASSUME NEW A, NEW e, Sound(e, A), NEW b \in BOOLEAN, NEW f, f = [e EXCEPT !.emit = b]
  PROVE  Sound(f, A) /\ f.code = e.code /\ f.emit = b /\ f.dead = e.dead /\ Here(f) = Here(e)
BY Switched DEF Sound, Here

LEMMA EmitSound ==
  ASSUME NEW A, NEW e, Sound(e, A), NEW w \in WordSet, w.op \notin TwoWords \cup {"half"},
         NEW f, f = Emit(e, w)
  PROVE  Sound(f, A) /\ Continues(e, f)
<1>e. e \in Emitter
  BY SoundIs
<1>0. /\ e \in Emitter /\ e.code \in Seq(WordSet) /\ Here(e) \in Nat /\ Here(e) >= 3
      /\ WellFormed(e.code) /\ Targets(e.code, A) /\ Here(e) + 1 \in Land(e.code)
      /\ Continues(e, e)
  BY SoundIs
<1>1. CASE ~e.emit
  BY <1>1, EmitTyped, <1>0
<1>2. CASE e.emit
  <2>1. /\ f \in Emitter /\ f.emit = e.emit /\ f.dead = e.dead
        /\ f.code = Append(e.code, w)
    BY <1>2, EmitTyped, <1>0
  <2>2. WellFormed(f.code) /\ Targets(f.code, A) /\ Kept(e.code, f.code)
    BY <2>1, AppendOne, <1>0
  <2> QED
    BY <1>2, <2>1, <2>2 DEF Sound, Continues
<1> QED
  BY <1>1, <1>2

LEMMA BranchSound ==
  ASSUME NEW A, NEW B, A \subseteq B, NEW e, Sound(e, A), NEW op \in Branches, NEW to \in Int,
         e.emit => Leads(e.code, to, B), NEW f, f = EmitBranch(e, op, to)
  PROVE  /\ Sound(f, B) /\ Continues(e, f) /\ BranchAt(f) = Here(e)
         /\ e.emit => IsBranch(f.code, Here(e))
<1>e. e \in Emitter
  BY SoundIs
<1>0. /\ e \in Emitter /\ e.code \in Seq(WordSet) /\ Here(e) \in Nat /\ Here(e) >= 3
      /\ WellFormed(e.code) /\ Targets(e.code, A) /\ Here(e) + 1 \in Land(e.code)
      /\ Continues(e, e)
  BY SoundIs
<1>t. /\ f \in Emitter /\ f.emit = e.emit /\ f.dead = e.dead
      /\ ~e.emit => f = e
      /\ e.emit => Branched(e.code, f.code, op, to)
  BY <1>e, EmitBranchTyped
<1>1. CASE ~e.emit
  <2>1. f = e
    BY <1>1, <1>t
  <2>2. Sound(f, B) /\ BranchAt(f) = Here(e)
    BY <1>1, <2>1, SoundMore DEF BranchAt
  <2> QED
    BY <1>1, <2>1, <2>2, <1>0
<1>2. CASE e.emit
  <2>1. Branched(e.code, f.code, op, to) /\ Leads(e.code, to, B) /\ op \in TwoWords
    BY <1>2, <1>t DEF TwoWords
  <2>2. /\ WellFormed(f.code) /\ Targets(f.code, B) /\ Kept(e.code, f.code)
        /\ Len(f.code) = Len(e.code) + BranchSize /\ IsBranch(f.code, Len(e.code))
    BY <2>1, AppendTwo, <1>0
  <2>3. BranchAt(f) = Here(e)
    BY <1>2, <1>t, <2>2, <1>0 DEF Here, BranchAt, BranchSize
  <2>4. IsBranch(f.code, Here(e))
    BY <2>2 DEF Here
  <2> QED
    BY <1>2, <1>t, <2>2, <2>3, <2>4 DEF Sound, Continues
<1> QED
  BY <1>1, <1>2

\* What is patched is a branch, and it leads to an instruction.
Settles(e, from, to, A, B) ==
  IF e.emit THEN IsBranch(e.code, from) /\ to + 1 \in Land(e.code) /\ A \subseteq B \cup {from}
  ELSE A \subseteq B

LEMMA PatchSound ==
  ASSUME NEW A, NEW B, NEW e, Sound(e, A), NEW from \in Nat, NEW to \in Int,
         Settles(e, from, to, A, B), NEW f, f = Patch(e, from, to)
  PROVE  Sound(f, B) /\ Continues(e, f) /\ Here(f) = Here(e)
<1>e. e \in Emitter
  BY SoundIs
<1>0. /\ e \in Emitter /\ e.code \in Seq(WordSet) /\ Here(e) \in Nat /\ Here(e) >= 3
      /\ WellFormed(e.code) /\ Targets(e.code, A) /\ Here(e) + 1 \in Land(e.code)
      /\ Continues(e, e)
  BY SoundIs
<1>t. /\ f \in Emitter /\ f.emit = e.emit /\ Here(f) = Here(e)
      /\ ~e.emit => f = e
      /\ e.emit /\ IsBranch(e.code, from) =>
           f.dead = e.dead /\ Patched(e.code, f.code, from, to)
  BY <1>e, PatchTyped
<1>1. CASE ~e.emit
  <2>1. f = e
    BY <1>1, <1>t
  <2>2. Sound(f, B)
    BY <1>1, <2>1, SoundMore DEF Settles
  <2> QED
    BY <2>1, <2>2, <1>0
<1>2. CASE e.emit
  <2>0. f \in Emitter /\ f.emit = e.emit /\ Here(f) = Here(e)
    BY <1>t
  <2>3. IsBranch(e.code, from) /\ to + 1 \in Land(e.code) /\ A \subseteq B \cup {from}
    BY <1>2 DEF Settles
  <2>1. /\ f.dead = e.dead
        /\ f.code[from + 1].op = e.code[from + 1].op
        /\ f.code[from + 1].by = to - from - BranchSize
        /\ \A i \in 1 .. Len(e.code) : i # from + 1 => f.code[i] = e.code[i]
    BY <1>2, <1>t, <2>3 DEF Patched
  <2>2. f.code \in Seq(WordSet) /\ Len(f.code) = Len(e.code)
    BY <2>0, EmitterIs DEF Here
  <2>5. ASSUME NEW i \in 1 .. Len(e.code)
        PROVE  \/ f.code[i] = e.code[i] /\ i - 1 \notin {from}
               \/ f.code[i].op = e.code[i].op
                  /\ (e.code[i].op \in TwoWords => i + 2 + f.code[i].by \in Land(e.code))
    <3>1. CASE i = from + 1
      <4>1. i + 2 + f.code[i].by = to + 1
        BY <2>1, <3>1 DEF BranchSize
      <4> QED
        BY <2>3, <2>1, <3>1, <4>1
    <3>2. CASE i # from + 1
      BY <2>1, <3>2
    <3> QED
      BY <3>1, <3>2
  <2>4. WellFormed(f.code) /\ Targets(f.code, B) /\ Kept(e.code, f.code)
    BY <2>2, <2>3, <2>5, Retarget, <1>0
  <2> QED
    BY <1>2, <2>0, <2>1, <2>4 DEF Sound, Continues
<1> QED
  BY <1>1, <1>2

AllSettle(e, froms, A, B) ==
  IF e.emit THEN (\A p \in ToSet(froms) : IsBranch(e.code, p)) /\ A \subseteq B \cup ToSet(froms)
  ELSE A \subseteq B

LEMMA PatchAllSound ==
  ASSUME NEW A, NEW B, NEW e, Sound(e, A), NEW froms \in Seq(Nat),
         AllSettle(e, froms, A, B), NEW f, f = PatchAll(e, froms)
  PROVE  Sound(f, B) /\ Continues(e, f) /\ Here(f) = Here(e)
<1>e. e \in Emitter
  BY SoundIs
<1>0. /\ e \in Emitter /\ e.code \in Seq(WordSet) /\ Here(e) \in Nat /\ Here(e) >= 3
      /\ WellFormed(e.code) /\ Targets(e.code, A) /\ Here(e) + 1 \in Land(e.code)
      /\ Continues(e, e)
  BY SoundIs
<1>t. /\ f \in Emitter /\ f.emit = e.emit /\ Here(f) = Here(e)
      /\ ~e.emit => f = e
      /\ e.emit => AllPatched(e.code, f.code, froms)
      /\ (\A p \in ToSet(froms) : IsBranch(e.code, p)) => f.dead = e.dead
  BY <1>e, PatchAllTyped
<1>1. CASE ~e.emit
  <2>1. f = e
    BY <1>1, <1>t
  <2>2. Sound(f, B)
    BY <1>1, <2>1, SoundMore DEF AllSettle
  <2> QED
    BY <2>1, <2>2, <1>0
<1>2. CASE e.emit
  <2>1. (\A p \in ToSet(froms) : IsBranch(e.code, p)) /\ A \subseteq B \cup ToSet(froms)
    BY <1>2 DEF AllSettle
  <2>2. f.code \in Seq(WordSet) /\ Len(f.code) = Len(e.code) /\ f.dead = e.dead
    BY <1>t, <2>1, EmitterIs DEF Here
  <2>3. ASSUME NEW i \in 1 .. Len(e.code)
        PROVE  \/ f.code[i] = e.code[i] /\ i - 1 \notin ToSet(froms)
               \/ f.code[i].op = e.code[i].op
                  /\ (e.code[i].op \in TwoWords => i + 2 + f.code[i].by \in Land(e.code))
    <3>1. CASE i - 1 \in ToSet(froms)
      <4>1. e.code[i].op \in Branches
        <5>1. IsBranch(e.code, i - 1) /\ (i - 1) + 1 = i
          BY <2>1, <3>1
        <5> QED
          BY <5>1 DEF IsBranch
      <4>2. /\ f.code[i].op = e.code[i].op
            /\ f.code[i].by = Len(e.code) - (i - 1) - BranchSize
        BY <1>2, <1>t, <3>1, <4>1 DEF AllPatched
      <4>3. i + 2 + f.code[i].by = Here(e) + 1
        BY <4>2, <1>0 DEF BranchSize, Here
      <4> QED
        BY <4>2, <4>3, <1>0
    <3>2. CASE i - 1 \notin ToSet(froms)
      BY <1>2, <1>t, <3>2 DEF AllPatched
    <3> QED
      BY <3>1, <3>2
  <2>4. WellFormed(f.code) /\ Targets(f.code, B) /\ Kept(e.code, f.code)
    BY <2>1, <2>2, <2>3, Retarget, <1>0
  <2> QED
    BY <1>2, <1>t, <2>2, <2>4 DEF Sound, Continues
<1> QED
  BY <1>1, <1>2

-----------------------------------------------------------------------------
(* The code of conditions *)

LEMMA SimpleIs ==
  ASSUME NEW c \in SimpleConditions
  PROVE  /\ c.k \in {"cmp", "var", "notvar", "lit"}
         /\ c.k = "cmp" => c.swapped \in BOOLEAN /\ c.not \in BOOLEAN
         /\ c.k = "lit" => c.val \in BOOLEAN
         /\ ~Compound(c)
BY DEF SimpleConditions, Comparisons, Compound

LEMMA ConditionIs ==
  ASSUME NEW c \in SimpleConditions \cup CompoundConditions
  PROVE  /\ Compound(c) => c.l \in SimpleConditions /\ c.r \in SimpleConditions
         /\ ~Compound(c) => c \in SimpleConditions
         /\ Result(c) \in SimpleConditions /\ Side(c) \in Nat
         /\ Never(c) \in BOOLEAN /\ Always(c) \in BOOLEAN /\ ~(Never(c) /\ Always(c))
<1>1. c \in CompoundConditions => c.l \in SimpleConditions /\ c.r \in SimpleConditions
  BY DEF CompoundConditions
<1>2. c \in CompoundConditions => Compound(c)
  BY DEF CompoundConditions, Compound
<1>3. c \in SimpleConditions => ~Compound(c)
  BY SimpleIs
<1> QED
  BY <1>1, <1>2, <1>3 DEF Result, Side, Never, Always, Literal

LEMMA OperandSound ==
  ASSUME NEW A, NEW e, Sound(e, A), NEW c \in SimpleConditions, NEW n \in Nat, NEW side \in Nat,
         NEW f, f = Operand(e, c, n, side)
  PROVE  Sound(f, A) /\ Continues(e, f)
<1>1. CASE c.k = "cmp"
  <2>1. PICK w \in WordSet : w = [op |-> "set", n |-> n, side |-> side, neg |-> c.swapped]
    BY <1>1, SimpleIs DEF WordSet
  <2>2. f = Emit(e, w) /\ w.op \notin TwoWords \cup {"half"}
    BY <1>1, <2>1 DEF Operand, Test, TwoWords, Branches
  <2> QED
    BY <2>2, EmitSound
<1>2. CASE c.k = "notvar"
  <2>1. PICK w \in WordSet : w = [op |-> "load", n |-> n, side |-> side, neg |-> TRUE]
    BY DEF WordSet
  <2>2. f = Emit(e, w) /\ w.op \notin TwoWords \cup {"half"}
    BY <1>2, <2>1 DEF Operand, Load, TwoWords, Branches
  <2> QED
    BY <2>2, EmitSound
<1>3. CASE c.k \notin {"cmp", "notvar"}
  BY <1>3, SoundIs DEF Operand
<1> QED
  BY <1>1, <1>2, <1>3

\* The branch is left where BranchAt says, and it leads behind itself.
LEMMA BranchIfSound ==
  ASSUME NEW A, NEW e, Sound(e, A), NEW c \in SimpleConditions, NEW n \in Nat, NEW side \in Nat,
         NEW sense \in BOOLEAN, NEW f, f = BranchIf(e, c, n, side, sense)
  PROVE  /\ Sound(f, A) /\ Continues(e, f) /\ BranchAt(f) \in Nat
         /\ e.emit => IsBranch(f.code, BranchAt(f))
<1>1. PICK g : /\ Sound(g, A) /\ Continues(e, g)
               /\ g = (CASE c.k = "var" -> Load(e, n, side, FALSE)
                         [] c.k = "lit" -> Emit(e, [op |-> "imm", val |-> c.val])
                         [] OTHER       -> e)
  <2>1. CASE c.k = "var"
    <3>1. PICK w \in WordSet : w = [op |-> "load", n |-> n, side |-> side, neg |-> FALSE]
      BY DEF WordSet
    <3>2. w.op \notin TwoWords \cup {"half"} /\ Load(e, n, side, FALSE) = Emit(e, w)
      BY <3>1 DEF Load, TwoWords, Branches
    <3>3. Sound(Emit(e, w), A) /\ Continues(e, Emit(e, w))
      BY <3>2, EmitSound
    <3> QED
      BY <2>1, <3>2, <3>3
  <2>2. CASE c.k = "lit"
    <3>1. PICK w \in WordSet : w = [op |-> "imm", val |-> c.val]
      BY <2>2, SimpleIs DEF WordSet
    <3>2. w.op \notin TwoWords \cup {"half"}
      BY <3>1 DEF TwoWords, Branches
    <3>3. Sound(Emit(e, w), A) /\ Continues(e, Emit(e, w))
      BY <3>2, EmitSound
    <3> QED
      BY <2>2, <3>1, <3>3
  <2>3. CASE c.k \notin {"var", "lit"}
    BY <2>3, SoundIs
  <2> QED
    BY <2>1, <2>2, <2>3
<1>2. PICK op \in Branches :
        op = (CASE c.k = "cmp" -> IF sense = AsIs(c) THEN "BCT" ELSE "BCF"
                [] OTHER       -> IF sense THEN "BNZ" ELSE "BEZ")
  BY DEF Branches
<1>3. f = EmitBranch(g, op, Here(g) + BranchSize)
  BY <1>1, <1>2 DEF BranchIf
<1>4. PICK to \in Int : f = EmitBranch(g, op, to) /\ Leads(g.code, to, A)
  <2>1. Here(g) \in Nat
    BY <1>1, SoundIs
  <2>2. PICK to \in Int : to = Here(g) + BranchSize
    BY <2>1 DEF BranchSize
  <2>3. Leads(g.code, to, A)
    BY <2>1, <2>2 DEF Leads, BranchSize, Here
  <2> QED
    BY <1>3, <2>2, <2>3
<1>s. Sound(g, A)
  BY <1>1
<1>5. /\ Sound(f, A) /\ Continues(g, f) /\ BranchAt(f) = Here(g)
      /\ g.emit => IsBranch(f.code, Here(g))
  BY <1>s, <1>4, BranchSound
<1>6. Continues(e, f)
  <2>1. e \in Emitter /\ f \in Emitter /\ g \in Emitter
    BY <1>1, <1>5, SoundIs
  <2> QED
    BY <1>1, <1>5, <2>1, ContinuesTrans
<1>7. g.emit = e.emit /\ Here(g) \in Nat
  BY <1>1, SoundIs DEF Continues
<1> QED
  BY <1>5, <1>6, <1>7

LEMMA ExprSound ==
  ASSUME NEW A, NEW e, Sound(e, A), NEW c \in SimpleConditions \cup CompoundConditions,
         NEW n \in Nat, NEW f, f = Expr(e, c, n)
  PROVE  /\ Sound(f, A) /\ Kept(e.code, f.code) /\ f.emit = e.emit /\ f.dead = e.dead
<1>1. CASE ~Compound(c)
  <2>1. f = Operand(e, c, n, 1) /\ c \in SimpleConditions
    BY <1>1, ConditionIs DEF Expr
  <2> QED
    BY <2>1, OperandSound DEF Continues
<1>2. CASE Compound(c)
  <2>1. c.l \in SimpleConditions /\ c.r \in SimpleConditions
    BY <1>2, ConditionIs
  <2>2. PICK skip \in BOOLEAN : skip = (c.k = "or")
    OBVIOUS
  <2>3. PICK left : left = Operand(e, c.l, n, 1)
    OBVIOUS
  <2>4. Sound(left, A) /\ Continues(e, left)
    BY <2>1, <2>3, OperandSound
  <2>5. PICK b \in BOOLEAN : b = (left.emit /\ ~Literal(c.l, skip))
    OBVIOUS
  <2>6. PICK gate : gate = [left EXCEPT !.emit = b]
    OBVIOUS
  <2>7. Sound(gate, A) /\ gate.code = left.code /\ gate.dead = left.dead
    BY <2>4, <2>6, SwitchedSound
  <2>8. PICK jump : jump = BranchIf(gate, c.l, n, 1, skip)
    OBVIOUS
  <2>9. /\ Sound(jump, A) /\ Continues(gate, jump) /\ BranchAt(jump) \in Nat
        /\ gate.emit => IsBranch(jump.code, BranchAt(jump))
    BY <2>1, <2>7, <2>8, BranchIfSound
  <2>10. PICK right : right = Operand(jump, c.r, n, 2)
    OBVIOUS
  <2>11. Sound(right, A) /\ Continues(jump, right)
    BY <2>1, <2>9, <2>10, OperandSound
  <2>12. PICK whole : whole = PatchToCurrent(right, BranchAt(jump))
    OBVIOUS
  <2>13. Sound(whole, A) /\ Continues(right, whole)
    <3>1. Settles(right, BranchAt(jump), Here(right), A, A)
      <4>1. right.emit => IsBranch(right.code, BranchAt(jump))
        <5>1. right.emit => gate.emit
          BY <2>9, <2>11 DEF Continues
        <5>2. jump.code \in Seq(WordSet) /\ right.code \in Seq(WordSet)
          BY <2>9, <2>11, SoundIs
        <5> QED
          BY <2>9, <2>11, <5>1, <5>2, KeptBranch DEF Continues
      <4>2. Here(right) + 1 \in Land(right.code)
        BY <2>11, SoundIs
      <4> QED
        BY <4>1, <4>2 DEF Settles
    <3>2. whole = Patch(right, BranchAt(jump), Here(right))
      BY <2>12 DEF PatchToCurrent
    <3>3. Here(right) \in Int
      BY <2>11, SoundIs
    <3> QED
      BY <2>9, <2>11, <3>1, <3>2, <3>3, PatchSound
  <2>14. Kept(e.code, whole.code) /\ whole.dead = e.dead
    <3>1. Kept(left.code, jump.code) /\ Kept(jump.code, right.code) /\ Kept(right.code, whole.code)
      BY <2>7, <2>9, <2>11, <2>13 DEF Continues
    <3>2. Kept(e.code, left.code)
      BY <2>4 DEF Continues
    <3>3. /\ left.code \in Seq(WordSet) /\ jump.code \in Seq(WordSet) /\ right.code \in Seq(WordSet)
          /\ whole.code \in Seq(WordSet) /\ e.code \in Seq(WordSet)
      BY <2>4, <2>9, <2>11, <2>13, SoundIs
    <3>4. Kept(e.code, jump.code)
      BY <3>1, <3>2, <3>3, KeptTrans
    <3>5. Kept(e.code, right.code)
      BY <3>1, <3>4, <3>3, KeptTrans
    <3>6. Kept(e.code, whole.code)
      BY <3>1, <3>3, <3>5, KeptTrans
    <3> QED
      BY <3>6, <2>4, <2>7, <2>9, <2>11, <2>13 DEF Continues
  <2>15. e.emit \in BOOLEAN
    BY SoundIs, EmitterIs
  <2>16. f = [whole EXCEPT !.emit = e.emit]
    BY <1>2, <2>2, <2>3, <2>5, <2>6, <2>8, <2>10, <2>12 DEF Expr
  <2> QED
    BY <2>13, <2>14, <2>15, <2>16, SwitchedSound
<1> QED
  BY <1>1, <1>2

\* A condition that decides a branch: the branch is there if it is emitted.
LEMMA ConditionSound ==
  ASSUME NEW A, NEW e, Sound(e, A), NEW c \in SimpleConditions \cup CompoundConditions,
         NEW n \in Nat, NEW f, f = BranchUnless(e, c, n)
  PROVE  /\ Sound(f, A) /\ Continues(e, f) /\ BranchAt(f) \in Nat
         /\ e.emit => IsBranch(f.code, BranchAt(f))
<1>1. f = BranchIf(e, Result(c), n, Side(c), FALSE)
  BY DEF BranchUnless
<1>2. Result(c) \in SimpleConditions /\ Side(c) \in Nat
  BY ConditionIs
<1> QED
  BY <1>1, <1>2, BranchIfSound

-----------------------------------------------------------------------------
(* The stack, a frame f on the others, r *)

On(s, r, f) ==
  /\ IsStack(s) /\ IsStack(r) /\ Len(s) = Len(r) + 1
  /\ s[Len(s)] = f /\ \A i \in 1 .. Len(r) : s[i] = r[i]

LEMMA Pushed ==
  ASSUME NEW r, IsStack(r), NEW f
  PROVE  On(Append(r, f), r, f)
BY DEF On, IsStack

LEMMA Popped ==
  ASSUME NEW s, IsStack(s), Len(s) > 0
  PROVE  On(s, Front(s), Last(s))
BY DEF On, IsStack, Front, Last

LEMMA OnStack ==
  ASSUME NEW s, NEW r, NEW f, On(s, r, f)
  PROVE  StackOK(s) <=>
           /\ \A i \in 1 .. Len(r) : FrameOK(r[i])
           /\ FrameOK(f)
           /\ IF Len(r) > 0 THEN r[1].k = "begin" ELSE f.k = "begin"
<1>1. /\ Len(s) = Len(r) + 1 /\ Len(r) \in Nat /\ IsStack(s)
      /\ s[Len(s)] = f /\ \A i \in 1 .. Len(r) : s[i] = r[i]
  BY DEF On, IsStack
<1>2. s # << >>
  BY <1>1
<1>3. (\A i \in 1 .. Len(s) : FrameOK(s[i]))
        <=> (\A i \in 1 .. Len(r) : FrameOK(r[i])) /\ FrameOK(f)
  BY <1>1
<1>4. s[1] = IF Len(r) > 0 THEN r[1] ELSE f
  BY <1>1
<1> QED
  BY <1>1, <1>2, <1>3, <1>4 DEF StackOK

LEMMA OnRuns ==
  ASSUME NEW s, NEW r, NEW f, On(s, r, f)
  PROVE  /\ AllRun(s, Len(s)) <=> AllRun(r, Len(r)) /\ Runs(f)
         /\ \A i \in 0 .. Len(r) : AllRun(s, i) <=> AllRun(r, i)
BY DEF On, IsStack, AllRun

\* What f remembers.
Fits(r, f) ==
  /\ f.k \in Restores => (f.last <=> AllRun(r, Len(r)))
  /\ f.k \in Loops => (f.live <=> AllRun(r, Len(r)) /\ Runs(f))

LEMMA OnRemembers ==
  ASSUME NEW s, NEW r, NEW f, On(s, r, f)
  PROVE  (\A i \in 1 .. Len(s) : Remembers(s, i)) <=>
           (\A i \in 1 .. Len(r) : Remembers(r, i)) /\ Fits(r, f)
<1>1. /\ Len(s) = Len(r) + 1 /\ Len(r) \in Nat
      /\ s[Len(s)] = f /\ \A i \in 1 .. Len(r) : s[i] = r[i]
  BY DEF On, IsStack
<1>2. \A i \in 1 .. Len(r) : Remembers(s, i) <=> Remembers(r, i)
  <2>1. ASSUME NEW i \in 1 .. Len(r)
        PROVE  Remembers(s, i) <=> Remembers(r, i)
    <3>1. i \in 0 .. Len(r) /\ i - 1 \in 0 .. Len(r) /\ s[i] = r[i]
      BY <1>1
    <3>2. (AllRun(s, i) <=> AllRun(r, i)) /\ (AllRun(s, i - 1) <=> AllRun(r, i - 1))
      BY <3>1, OnRuns
    <3> QED
      BY <3>1, <3>2 DEF Remembers
  <2> QED
    BY <2>1
<1>3. Remembers(s, Len(s)) <=> Fits(r, f)
  <2>1. Len(s) - 1 = Len(r) /\ Len(r) \in 0 .. Len(r)
    BY <1>1
  <2>2. AllRun(s, Len(s) - 1) <=> AllRun(r, Len(r))
    BY <2>1, OnRuns
  <2> QED
    BY <1>1, <2>2, OnRuns DEF Remembers, Fits
<1>4. 1 .. Len(s) = 1 .. Len(r) \cup {Len(s)}
  BY <1>1
<1> QED
  BY <1>2, <1>3, <1>4

LEMMA OnPlaced ==
  ASSUME NEW s, NEW r, NEW f, On(s, r, f), NEW c
  PROVE  (\A i \in 1 .. Len(s) : Placed(c, s[i])) <=>
           (\A i \in 1 .. Len(r) : Placed(c, r[i])) /\ Placed(c, f)
BY DEF On, IsStack

\* Loops and their breaks, below what is no loop.
LEMMA OnBreaks ==
  ASSUME NEW s, NEW r, NEW f, On(s, r, f), ~IsLoop(f), NEW bs \in Seq(Nat)
  PROVE  /\ \A i \in 1 .. Len(r), b \in 1 .. Len(bs) : BreakOf(s, i, b) <=> BreakOf(r, i, b)
         /\ \A b \in 1 .. Len(bs) : ~BreakOf(s, Len(s), b)
<1>1. /\ Len(s) = Len(r) + 1 /\ Len(r) \in Nat /\ Len(bs) \in Nat
      /\ s[Len(s)] = f /\ \A i \in 1 .. Len(r) : s[i] = r[i]
  BY DEF On, IsStack
<1>2. ASSUME NEW i \in 1 .. Len(r), NEW b \in 1 .. Len(bs)
      PROVE  BreakOf(s, i, b) <=> BreakOf(r, i, b)
  <2>1. s[i] = r[i] /\ \A j \in i + 1 .. Len(r) : j \in 1 .. Len(r) /\ j \in i + 1 .. Len(s)
    BY <1>1
  <2>2. \A j \in i + 1 .. Len(s) : j \in i + 1 .. Len(r) \/ s[j] = f
    BY <1>1
  <2>3. \A j \in i + 1 .. Len(r) : s[j] = r[j]
    BY <1>1, <2>1
  <2> QED
    BY <2>1, <2>2, <2>3 DEF BreakOf
<1>3. \A b \in 1 .. Len(bs) : ~BreakOf(s, Len(s), b)
  BY <1>1 DEF BreakOf
<1> QED
  BY <1>2, <1>3

LEMMA OnLoopOK ==
  ASSUME NEW s, NEW r, NEW f, On(s, r, f), NEW bs, NEW i \in 1 .. Len(r)
  PROVE  LoopOK(s, i, bs) <=> LoopOK(r, i, bs)
<1>1. s[i] = r[i] /\ \A j \in 1 .. i - 1 : s[j] = r[j]
  BY DEF On, IsStack
<1> QED
  BY <1>1 DEF LoopOK

LEMMA OnLoops ==
  ASSUME NEW s, NEW r, NEW f, On(s, r, f), ~IsLoop(f), NEW bs \in Seq(Nat), NEW il
  PROVE  LoopsOK(s, bs, il) <=> LoopsOK(r, bs, il)
<1>1. /\ Len(s) = Len(r) + 1 /\ Len(r) \in Nat
      /\ s[Len(s)] = f /\ \A i \in 1 .. Len(r) : s[i] = r[i]
  BY DEF On, IsStack
<1>2. (\E i \in 1 .. Len(s) : IsLoop(s[i])) <=> (\E i \in 1 .. Len(r) : IsLoop(r[i]))
  BY <1>1
<1>3. \A i \in 1 .. Len(r) : LoopOK(s, i, bs) <=> LoopOK(r, i, bs)
  BY OnLoopOK
<1>4. 1 .. Len(s) = 1 .. Len(r) \cup {Len(s)}
  BY <1>1
<1>5. (\A i \in 1 .. Len(s) : IsLoop(s[i]) => LoopOK(s, i, bs))
        <=> (\A i \in 1 .. Len(r) : IsLoop(r[i]) => LoopOK(r, i, bs))
  BY <1>1, <1>3, <1>4
<1> QED
  BY <1>2, <1>5 DEF LoopsOK

LEMMA OnWaiting ==
  ASSUME NEW s, NEW r, NEW f, On(s, r, f), ~IsLoop(f), NEW bs \in Seq(Nat)
  PROVE  Waiting(s, bs) = Waiting(r, bs) \cup Waits(f)
<1>1. /\ Len(s) = Len(r) + 1 /\ Len(r) \in Nat
      /\ s[Len(s)] = f /\ \A i \in 1 .. Len(r) : s[i] = r[i]
  BY DEF On, IsStack
<1>2. 1 .. Len(s) = 1 .. Len(r) \cup {Len(s)}
  BY <1>1
<1>3. ASSUME NEW p \in Nat
      PROVE  p \in Waiting(s, bs) <=> p \in Waiting(r, bs) \cup Waits(f)
  <2>1. (\E i \in 1 .. Len(s) : p \in Waits(s[i]))
          <=> (\E i \in 1 .. Len(r) : p \in Waits(r[i])) \/ p \in Waits(f)
    BY <1>1, <1>2
  <2>2. (\E i \in 1 .. Len(s), b \in 1 .. Len(bs) : BreakOf(s, i, b) /\ s[i].live /\ p = bs[b])
          <=> \E i \in 1 .. Len(r), b \in 1 .. Len(bs) :
                BreakOf(r, i, b) /\ r[i].live /\ p = bs[b]
    BY <1>1, <1>2, OnBreaks
  <2> QED
    BY <2>1, <2>2 DEF Waiting
<1>4. Waiting(s, bs) \subseteq Nat /\ Waiting(r, bs) \subseteq Nat /\ Waits(f) \subseteq Nat
  BY DEF Waiting, Waits
<1> QED
  BY <1>3, <1>4

LEMMA OnBase ==
  ASSUME NEW s, NEW r, NEW f, On(s, r, f), ~IsLoop(f), NEW bs \in Seq(Nat), NEW il, NEW c
  PROVE  Base(c, s, bs, il) <=> Base(c, r, bs, il) /\ Fits(r, f) /\ Placed(c, f)
<1>1. BreaksPlaced(c, s, bs) <=> BreaksPlaced(c, r, bs)
  <2>1. /\ Len(s) = Len(r) + 1 /\ Len(r) \in Nat
        /\ s[Len(s)] = f /\ \A i \in 1 .. Len(r) : s[i] = r[i]
    BY DEF On, IsStack
  <2>2. 1 .. Len(s) = 1 .. Len(r) \cup {Len(s)}
    BY <2>1
  <2>3. /\ \A i \in 1 .. Len(r), b \in 1 .. Len(bs) : BreakOf(s, i, b) <=> BreakOf(r, i, b)
        /\ \A b \in 1 .. Len(bs) : ~BreakOf(s, Len(s), b)
    BY OnBreaks
  <2>4. \A i \in 1 .. Len(r), b \in 1 .. Len(bs) :
          BreakOf(s, i, b) /\ s[i].live <=> BreakOf(r, i, b) /\ r[i].live
    BY <2>1, <2>3
  <2> QED
    BY <2>2, <2>3, <2>4, Zenon DEF BreaksPlaced
<1> QED
  BY <1>1, OnRemembers, OnPlaced, OnLoops DEF Base

-----------------------------------------------------------------------------
(* Loops and their breaks *)

LEMMA BaseKept ==
  ASSUME NEW c \in Seq(WordSet), NEW d \in Seq(WordSet), Kept(c, d),
         NEW s, NEW bs, NEW il, Base(c, s, bs, il)
  PROVE  Base(d, s, bs, il)
<1>1. \A p : IsBranch(c, p) => IsBranch(d, p)
  BY KeptBranch
<1>2. Land(c) \subseteq Land(d)
  BY DEF Kept
<1>3. \A i \in 1 .. Len(s) : Placed(d, s[i])
  BY <1>1, <1>2 DEF Base, Placed
<1>4. BreaksPlaced(d, s, bs)
  BY <1>1 DEF Base, BreaksPlaced
<1> QED
  BY <1>3, <1>4 DEF Base

\* A loop begins: none of the breaks noted is of it.
LEMMA LoopOn ==
  ASSUME NEW s, NEW r, NEW f, On(s, r, f), IsLoop(f), NEW bs \in Seq(Nat), NEW il \in BOOLEAN,
         f.prev = Len(bs), f.was = il, NEW c,
         Base(c, r, bs, il), Fits(r, f), Placed(c, f)
  PROVE  Base(c, s, bs, TRUE) /\ Waiting(s, bs) \subseteq Waiting(r, bs)
<1>1. /\ Len(s) = Len(r) + 1 /\ Len(r) \in Nat /\ Len(bs) \in Nat
      /\ s[Len(s)] = f /\ \A i \in 1 .. Len(r) : s[i] = r[i]
  BY DEF On, IsStack
<1>2. 1 .. Len(s) = 1 .. Len(r) \cup {Len(s)}
  BY <1>1
<1>3. \A i \in 1 .. Len(s), b \in 1 .. Len(bs) :
        BreakOf(s, i, b) => i \in 1 .. Len(r) /\ BreakOf(r, i, b)
  BY <1>1 DEF BreakOf
<1>4. BreaksPlaced(c, s, bs)
  BY <1>1, <1>3 DEF BreaksPlaced, Base
<1>5. LoopsOK(s, bs, TRUE)
  <2>1. \E i \in 1 .. Len(s) : IsLoop(s[i])
    BY <1>1
  <2>2. \A i \in 1 .. Len(r) : IsLoop(s[i]) => LoopOK(s, i, bs)
    BY <1>1, OnLoopOK DEF Base, LoopsOK
  <2>3. LoopOK(s, Len(s), bs)
    <3>1. 1 .. Len(s) - 1 = 1 .. Len(r)
      BY <1>1
    <3>2. f.was <=> \E j \in 1 .. Len(r) : IsLoop(r[j])
      BY DEF Base, LoopsOK
    <3>3. ~f.was => f.prev = 0
      BY DEF Base, LoopsOK
    <3>4. \A j \in 1 .. Len(r) : IsLoop(r[j]) => r[j].prev <= f.prev
      BY DEF Base, LoopsOK, LoopOK
    <3>5. f.prev <= Len(bs)
      BY <1>1
    <3> QED
      BY <1>1, <3>1, <3>2, <3>3, <3>4, <3>5 DEF LoopOK
  <2> QED
    BY <1>2, <2>1, <2>2, <2>3 DEF LoopsOK
<1>6. Waiting(s, bs) \subseteq Waiting(r, bs)
  <2>1. Waits(f) = {}
    BY DEF Waits, IsLoop, IsCase
  <2> QED
    BY <1>1, <1>2, <1>3, <2>1 DEF Waiting
<1> QED
  BY <1>4, <1>5, <1>6, OnRemembers, OnPlaced DEF Base

\* The breaks noted before, and since, there were n of them.
Early(bs, n) == SubSeq(bs, 1, n)
Late(bs, n) == SubSeq(bs, n + 1, Len(bs))

LEMMA InToSet ==
  ASSUME NEW q \in Seq(Nat)
  PROVE  \A p : p \in ToSet(q) <=> \E b \in 1 .. Len(q) : p = q[b]
BY DEF ToSet

LEMMA FirstOnes ==
  ASSUME NEW bs \in Seq(Nat), NEW n \in 0 .. Len(bs), NEW early, early = Early(bs, n)
  PROVE  /\ early \in Seq(Nat) /\ Len(early) = n
         /\ \A b \in 1 .. n : early[b] = bs[b] /\ b \in 1 .. Len(bs)
BY DEF Early

LEMMA OtherOnes ==
  ASSUME NEW bs \in Seq(Nat), NEW n \in 0 .. Len(bs),
         NEW late, late = Late(bs, n)
  PROVE  /\ late \in Seq(Nat) /\ Len(late) = Len(bs) - n
         /\ \A b \in 1 .. Len(late) : late[b] = bs[b + n]
BY DEF Late

LEMMA BreakUnder ==
  ASSUME NEW s, NEW r, NEW f, On(s, r, f), IsLoop(f), NEW n \in Nat, f.prev = n,
         NEW i \in 1 .. Len(r), NEW b \in Nat
  PROVE  BreakOf(s, i, b) <=> b <= n /\ BreakOf(r, i, b)
<1>1. /\ Len(s) = Len(r) + 1 /\ Len(r) \in Nat
      /\ s[Len(s)] = f /\ \A j \in 1 .. Len(r) : s[j] = r[j]
  BY DEF On, IsStack
<1>2. i + 1 .. Len(s) = (i + 1 .. Len(r)) \cup {Len(s)}
  BY <1>1
<1>3. s[i] = r[i] /\ \A j \in i + 1 .. Len(r) : s[j] = r[j]
  BY <1>1
<1> QED
  BY <1>1, <1>2, <1>3 DEF BreakOf

\* A loop ends: the breaks noted since it began are of it, and they are patched.
LEMMA LoopOff ==
  ASSUME NEW s, NEW r, NEW f, On(s, r, f), IsLoop(f), NEW n \in Nat, f.prev = n,
         NEW bs \in Seq(Nat),
         NEW il, NEW c, Base(c, s, bs, il), NEW early, early = Early(bs, n),
         NEW late, late = Late(bs, n)
  PROVE  /\ early \in Seq(Nat) /\ late \in Seq(Nat)
         /\ Base(c, r, early, f.was) /\ Fits(r, f) /\ Placed(c, f)
         /\ f.live => \A p \in ToSet(late) : IsBranch(c, p)
         /\ Waiting(s, bs) \subseteq
              Waiting(r, early) \cup (IF f.live THEN ToSet(late) ELSE {})
<1>1. /\ Len(s) = Len(r) + 1 /\ Len(r) \in Nat /\ Len(bs) \in Nat
      /\ s[Len(s)] = f /\ \A i \in 1 .. Len(r) : s[i] = r[i]
  BY DEF On, IsStack
<1>2. 1 .. Len(s) = 1 .. Len(r) \cup {Len(s)}
  BY <1>1
<1>3. LoopOK(s, Len(s), bs) /\ n \in 0 .. Len(bs)
  <2>1. LoopOK(s, Len(s), bs)
    BY <1>1 DEF Base, LoopsOK
  <2> QED
    BY <1>1, <2>1 DEF LoopOK
<1>4. /\ early \in Seq(Nat) /\ Len(early) = n
      /\ \A b \in 1 .. n : early[b] = bs[b] /\ b \in 1 .. Len(bs)
  BY <1>1, <1>3, FirstOnes DEF Early
<1>5. /\ late \in Seq(Nat) /\ Len(late) = Len(bs) - n
      /\ \A b \in 1 .. Len(late) : late[b] = bs[b + n]
  BY <1>3, OtherOnes
<1>q. late \in Seq(Nat) /\ Len(late) = Len(bs) - n
  BY <1>5
<1>6. \A i \in 1 .. Len(r), b \in 1 .. Len(bs) :
        BreakOf(s, i, b) <=> b \in 1 .. n /\ BreakOf(r, i, b)
  <2>1. ASSUME NEW i \in 1 .. Len(r), NEW b \in 1 .. Len(bs)
        PROVE  BreakOf(s, i, b) <=> b \in 1 .. n /\ BreakOf(r, i, b)
    <3>1. BreakOf(s, i, b) <=> b <= n /\ BreakOf(r, i, b)
      BY BreakUnder
    <3>2. b <= n <=> b \in 1 .. n
      OBVIOUS
    <3> QED
      BY <3>1, <3>2
  <2> QED
    BY <2>1
<1>7. \A b \in 1 .. Len(bs) : BreakOf(s, Len(s), b) <=> b \notin 1 .. n
  <2>1. ASSUME NEW b \in 1 .. Len(bs)
        PROVE  BreakOf(s, Len(s), b) <=> b \notin 1 .. n
    BY <1>1, <1>3 DEF BreakOf
  <2> QED
    BY <2>1
<1>8. BreaksPlaced(c, r, early)
  <2>1. ASSUME NEW i \in 1 .. Len(r), NEW b \in 1 .. Len(early), BreakOf(r, i, b), r[i].live
        PROVE  IsBranch(c, early[b])
    <3>1. b \in 1 .. n /\ b \in 1 .. Len(bs) /\ early[b] = bs[b]
      BY <1>4
    <3>2. i \in 1 .. Len(s) /\ s[i] = r[i]
      BY <1>1
    <3>3. BreakOf(s, i, b) /\ s[i].live
      BY <1>6, <2>1, <3>1, <3>2
    <3>4. BreaksPlaced(c, s, bs)
      BY <1>2 DEF Base
    <3> QED
      BY <3>1, <3>2, <3>3, <3>4 DEF BreaksPlaced
  <2> QED
    BY <2>1 DEF BreaksPlaced
<1>9. LoopsOK(r, early, f.was)
  <2>1. f.was <=> \E i \in 1 .. Len(r) : IsLoop(r[i])
    <3>1. 1 .. Len(s) - 1 = 1 .. Len(r)
      BY <1>1
    <3> QED
      BY <1>1, <1>3, <3>1 DEF LoopOK
  <2>2. ~f.was => early = << >>
    BY <1>1, <1>3, <1>4 DEF LoopOK
  <2>3. ASSUME NEW i \in 1 .. Len(r), IsLoop(r[i])
        PROVE  LoopOK(r, i, early)
    <3>1. LoopOK(r, i, bs)
      BY <1>1, <2>3, OnLoopOK DEF Base, LoopsOK
    <3>2. r[i].prev <= n
      <4>1. \A j \in 1 .. Len(s) - 1 : IsLoop(s[j]) => s[j].prev <= s[Len(s)].prev
        BY <1>3 DEF LoopOK
      <4>2. i \in 1 .. Len(s) - 1 /\ s[i] = r[i] /\ s[Len(s)].prev = n
        BY <1>1
      <4> QED
        BY <2>3, <4>1, <4>2
    <3> QED
      BY <1>4, <3>1, <3>2 DEF LoopOK
  <2> QED
    BY <2>1, <2>2, <2>3 DEF LoopsOK
<1>10. ASSUME f.live, NEW p \in ToSet(late)
       PROVE  IsBranch(c, p)
  <2>1. PICK b \in 1 .. Len(late) : p = late[b]
    BY <1>q, InToSet
  <2>2. PICK a \in 1 .. Len(bs) : a = b + n /\ a \notin 1 .. n
    <3>1. b + n \in 1 .. Len(bs) /\ b + n \notin 1 .. n
      BY <1>1, <1>3, <1>q
    <3> QED
      BY <3>1
  <2>3. p = bs[a] /\ BreakOf(s, Len(s), a)
    BY <1>5, <1>7, <2>1, <2>2
  <2> QED
    BY <1>1, <1>2, <1>10, <2>3 DEF Base, BreaksPlaced
<1>11. ASSUME NEW p \in Waiting(s, bs), p \notin Waiting(r, early)
       PROVE  f.live /\ p \in ToSet(late)
  <2>1. Waits(f) = {}
    BY DEF Waits, IsLoop, IsCase
  <2>2. ~\E i \in 1 .. Len(r) : p \in Waits(s[i])
    BY <1>1, <1>11 DEF Waiting
  <2>3. PICK i \in 1 .. Len(s), b \in 1 .. Len(bs) :
          BreakOf(s, i, b) /\ s[i].live /\ p = bs[b]
    BY <1>1, <1>2, <1>11, <2>1, <2>2 DEF Waiting
  <2>4. i \notin 1 .. Len(r)
    BY <1>1, <1>4, <1>6, <1>11, <2>3 DEF Waiting
  <2>5. i = Len(s) /\ b \notin 1 .. n
    BY <1>2, <1>7, <2>3, <2>4
  <2>6. PICK a \in 1 .. Len(late) : a + n = b
    <3>1. b - n \in 1 .. Len(late) /\ (b - n) + n = b
      BY <1>1, <1>3, <1>5, <2>5
    <3> QED
      BY <3>1
  <2>7. p = late[a]
    BY <1>5, <2>3, <2>6
  <2> QED
    BY <1>1, <1>q, <2>3, <2>5, <2>7, InToSet
<1> QED
  BY <1>4, <1>5, <1>8, <1>9, <1>10, <1>11, OnRemembers, OnPlaced DEF Base

LEMMA LastOne ==
  ASSUME NEW n \in Nat, NEW I, I \subseteq 1 .. n, I # {}
  PROVE  Max(I) \in I /\ \A j \in I : j <= Max(I)
<1> DEFINE T == {k \in Nat : n - k \in I}
<1>1. T # {} /\ T \subseteq Nat
  <2>1. PICK i \in I : TRUE
    OBVIOUS
  <2>2. i \in 1 .. n
    OBVIOUS
  <2>3. n - i \in Nat /\ n - (n - i) = i
    BY <2>2
  <2> QED
    BY <2>3
<1>2. PICK k \in T : \A l \in T : ~ (<<l, k>> \in OpToRel(<, Nat))
  <2> HIDE DEF T
  <2> QED
    BY <1>1, WFMin, NatLessThanWellFounded, Zenon
<1>3. \A l \in T : ~(l < k)
  <2>1. \A l \in T : l \in Nat /\ k \in Nat
    OBVIOUS
  <2> HIDE DEF T
  <2> QED
    BY <1>2, <2>1, Zenon DEF OpToRel
<1>4. n - k \in I
  BY <1>2
<1>5. ASSUME NEW j \in I
      PROVE  n - k >= j
  <2>1. j \in 1 .. n
    OBVIOUS
  <2>2. n - j \in Nat /\ n - (n - j) = j
    BY <2>1
  <2>3. n - j \in T
    BY <2>2
  <2>4. ~(n - j < k) /\ k \in Nat
    BY <1>3, <2>3
  <2> QED
    BY <2>1, <2>4
<1>6. \E x \in I : \A y \in I : x >= y
  BY <1>4, <1>5
<1>7. Max(I) \in I /\ \A y \in I : Max(I) >= y
  BY <1>6 DEF Max
<1>8. \A j \in I : j \in Int
  OBVIOUS
<1> QED
  BY <1>7, <1>8

LEMMA InnermostIs ==
  ASSUME IsStack(todo), \E i \in 1 .. Len(todo) : todo[i].k \in Loops
  PROVE  \E i \in 1 .. Len(todo) :
           /\ Innermost = todo[i] /\ todo[i].k \in Loops
           /\ \A j \in i + 1 .. Len(todo) : todo[j].k \notin Loops
<1> DEFINE I == {i \in 1 .. Len(todo) : todo[i].k \in Loops}
<1>1. I # {} /\ I \subseteq 1 .. Len(todo) /\ Len(todo) \in Nat
  BY DEF IsStack
<1>2. Innermost = todo[Max(I)]
  BY <1>1 DEF Innermost, SelectLastInSubSeq
<1>3. Max(I) \in I /\ \A j \in I : j <= Max(I)
  <2> HIDE DEF I
  <2> QED
    BY <1>1, LastOne
<1>4. ASSUME NEW j \in Max(I) + 1 .. Len(todo)
      PROVE  todo[j].k \notin Loops
  <2>1. Max(I) \in 1 .. Len(todo)
    BY <1>3
  <2>2. j \in 1 .. Len(todo) /\ ~(j <= Max(I))
    BY <1>1, <2>1
  <2> QED
    BY <1>3, <2>2
<1> QED
  BY <1>2, <1>3, <1>4

\* A BREAK of the i-th construct.
LEMMA BreakNoted ==
  ASSUME NEW s, IsStack(s), NEW i \in 1 .. Len(s), IsLoop(s[i]),
         \A j \in i + 1 .. Len(s) : ~IsLoop(s[j]),
         \A j \in 1 .. Len(s) : IsLoop(s[j]) => s[j].prev \in Nat,
         NEW bs \in Seq(Nat), NEW c, Base(c, s, bs, TRUE),
         NEW p \in Nat, s[i].live => IsBranch(c, p), NEW bs2, bs2 = Append(bs, p)
  PROVE  /\ Base(c, s, bs2, TRUE)
         /\ Waiting(s, bs) \subseteq Waiting(s, bs2)
         /\ s[i].live => p \in Waiting(s, bs2)
<1>1. /\ Len(s) \in Nat /\ Len(bs) \in Nat /\ bs2 \in Seq(Nat)
      /\ Len(bs2) = Len(bs) + 1 /\ bs2[Len(bs2)] = p
      /\ \A b \in 1 .. Len(bs) : bs2[b] = bs[b]
  BY DEF IsStack
<1>2. 1 .. Len(bs2) = 1 .. Len(bs) \cup {Len(bs2)}
  BY <1>1
<1>3. \A j \in 1 .. Len(s) : IsLoop(s[j]) => s[j].prev \in 0 .. Len(bs)
  BY <1>1 DEF Base, LoopsOK, LoopOK
<1>4. BreakOf(s, i, Len(bs2))
  BY <1>1, <1>3 DEF BreakOf
<1>5. ASSUME NEW j \in 1 .. Len(s), BreakOf(s, j, Len(bs2))
      PROVE  j = i
  <2>1. IsLoop(s[j]) /\ \A k \in j + 1 .. Len(s) : IsLoop(s[k]) => Len(bs2) <= s[k].prev
    BY <1>5 DEF BreakOf
  <2>2. ~(i \in j + 1 .. Len(s))
    BY <1>1, <1>3, <2>1
  <2>3. ~(j \in i + 1 .. Len(s))
    BY <2>1
  <2> QED
    BY <1>1, <2>2, <2>3
<1>6. BreaksPlaced(c, s, bs2)
  BY <1>1, <1>2, <1>5 DEF Base, BreaksPlaced
<1>7. LoopsOK(s, bs2, TRUE)
  <2>1. \A j \in 1 .. Len(s) : IsLoop(s[j]) => LoopOK(s, j, bs2)
    <3>1. ASSUME NEW j \in 1 .. Len(s), IsLoop(s[j])
          PROVE  LoopOK(s, j, bs2)
      <4>1. LoopOK(s, j, bs) /\ s[j].prev \in 0 .. Len(bs)
        BY <1>3, <3>1 DEF Base, LoopsOK
      <4>2. s[j].prev <= Len(bs2)
        BY <1>1, <4>1
      <4> QED
        BY <4>1, <4>2 DEF LoopOK
    <3> QED
      BY <3>1
  <2> QED
    BY <2>1 DEF Base, LoopsOK
<1>8. Waiting(s, bs) \subseteq Waiting(s, bs2)
  BY <1>1, <1>2 DEF Waiting
<1>9. s[i].live => p \in Waiting(s, bs2)
  BY <1>1, <1>2, <1>4 DEF Waiting
<1> QED
  BY <1>6, <1>7, <1>8, <1>9 DEF Base

-----------------------------------------------------------------------------
(* Constructs begin and end *)

\* What is known of the innermost construct.
LEMMA TopIs ==
  ASSUME NEW e, NEW s, NEW bs \in Seq(Nat), NEW il, Core(e, s, bs, il), StackOK(s),
         NEW r, NEW f, On(s, r, f)
  PROVE  /\ FrameOK(f) /\ Fits(r, f) /\ Placed(e.code, f)
         /\ e.emit <=> AllRun(r, Len(r)) /\ Runs(f)
         /\ f.k # "begin" => Len(r) > 0
         /\ ~e.dead /\ Sound(e, Waiting(s, bs))
<1>1. FrameOK(f) /\ (f.k # "begin" => Len(r) > 0)
  BY OnStack DEF On, IsStack
<1>2. Fits(r, f) /\ Placed(e.code, f)
  BY OnRemembers, OnPlaced DEF Core, Base
<1>3. e.emit <=> AllRun(r, Len(r)) /\ Runs(f)
  BY OnRuns DEF Core
<1> QED
  BY <1>1, <1>2, <1>3 DEF Core

\* The code goes on, on the same stack.
LEMMA CoreSame ==
  ASSUME NEW e, NEW s, NEW bs, NEW il, Core(e, s, bs, il),
         NEW g, Sound(g, Waiting(s, bs)), Continues(e, g)
  PROVE  Core(g, s, bs, il)
<1>1. e.code \in Seq(WordSet) /\ g.code \in Seq(WordSet)
  BY SoundIs DEF Core
<1> QED
  BY <1>1, BaseKept DEF Core, Continues

LEMMA StackPushed ==
  ASSUME NEW r, StackOK(r), Len(r) > 0, NEW f, FrameOK(f), NEW s, s = Append(r, f)
  PROVE  On(s, r, f) /\ StackOK(s) /\ Len(s) > 0
<1>1. On(s, r, f)
  BY Pushed DEF StackOK
<1>2. r[1].k = "begin"
  <2>1. r # << >>
    OBVIOUS
  <2> QED
    BY <2>1 DEF StackOK
<1> QED
  BY <1>1, <1>2, OnStack DEF On, IsStack, StackOK

LEMMA CorePushed ==
  ASSUME NEW e, NEW r, NEW bs \in Seq(Nat), NEW il, Core(e, r, bs, il),
         NEW s, NEW f, On(s, r, f), ~IsLoop(f),
         NEW g, Sound(g, Waiting(r, bs) \cup Waits(f)), Kept(e.code, g.code), ~g.dead,
         g.emit <=> e.emit /\ Runs(f), Fits(r, f), Placed(g.code, f)
  PROVE  Core(g, s, bs, il)
<1>1. e.code \in Seq(WordSet) /\ g.code \in Seq(WordSet)
  BY SoundIs DEF Core
<1>2. Base(g.code, r, bs, il)
  BY <1>1, BaseKept DEF Core
<1>3. Base(g.code, s, bs, il)
  BY <1>2, OnBase
<1>4. Waiting(s, bs) = Waiting(r, bs) \cup Waits(f)
  BY OnWaiting
<1>5. g.emit <=> AllRun(s, Len(s))
  BY OnRuns DEF Core
<1> QED
  BY <1>3, <1>4, <1>5 DEF Core

LEMMA LoopPushed ==
  ASSUME NEW e, NEW r, NEW bs \in Seq(Nat), NEW il \in BOOLEAN, Core(e, r, bs, il),
         NEW s, NEW f, On(s, r, f), IsLoop(f), f.prev = Len(bs), f.was = il,
         NEW g, Sound(g, Waiting(r, bs)), Kept(e.code, g.code), ~g.dead,
         g.emit <=> e.emit /\ Runs(f), Fits(r, f), Placed(g.code, f)
  PROVE  Core(g, s, bs, TRUE)
<1>1. e.code \in Seq(WordSet) /\ g.code \in Seq(WordSet)
  BY SoundIs DEF Core
<1>2. Base(g.code, r, bs, il)
  BY <1>1, BaseKept DEF Core
<1>3. Base(g.code, s, bs, TRUE) /\ Waiting(s, bs) \subseteq Waiting(r, bs)
  BY <1>2, LoopOn
<1>4. Waiting(s, bs) = Waiting(r, bs)
  <2>1. Waiting(r, bs) \subseteq Waiting(s, bs)
    <3>1. /\ Len(s) = Len(r) + 1 /\ Len(r) \in Nat /\ Len(bs) \in Nat
          /\ s[Len(s)] = f /\ \A i \in 1 .. Len(r) : s[i] = r[i]
      BY DEF On, IsStack
    <3>2. \A i \in 1 .. Len(r), b \in 1 .. Len(bs) : BreakOf(r, i, b) => BreakOf(s, i, b)
      <4>1. ASSUME NEW i \in 1 .. Len(r), NEW b \in 1 .. Len(bs), BreakOf(r, i, b)
            PROVE  BreakOf(s, i, b)
        <5>1. PICK n \in Nat : f.prev = n /\ b \in Nat /\ b <= n
          BY <3>1
        <5> QED
          BY <4>1, <5>1, BreakUnder
      <4> QED
        BY <4>1
    <3>3. \A i \in 1 .. Len(r) : i \in 1 .. Len(s) /\ s[i] = r[i]
      BY <3>1
    <3> QED
      BY <3>2, <3>3 DEF Waiting
  <2> QED
    BY <1>3, <2>1
<1>5. g.emit <=> AllRun(s, Len(s))
  BY OnRuns DEF Core
<1> QED
  BY <1>3, <1>4, <1>5 DEF Core

\* The innermost construct f becomes h.
LEMMA StackChanged ==
  ASSUME NEW s, NEW r, NEW f, On(s, r, f), StackOK(s), NEW h, FrameOK(h),
         f.k = "begin" => h.k = "begin", NEW t, t = Append(r, h)
  PROVE  On(t, r, h) /\ StackOK(t) /\ Len(t) > 0
<1>1. On(t, r, h)
  BY Pushed DEF On
<1>2. /\ \A i \in 1 .. Len(r) : FrameOK(r[i])
      /\ IF Len(r) > 0 THEN r[1].k = "begin" ELSE h.k = "begin"
  BY OnStack
<1>3. StackOK(t)
  BY <1>1, <1>2, OnStack
<1> QED
  BY <1>1, <1>3 DEF On, IsStack

LEMMA CoreChanged ==
  ASSUME NEW e, NEW s, NEW bs \in Seq(Nat), NEW il, Core(e, s, bs, il),
         NEW r, NEW f, On(s, r, f), ~IsLoop(f), NEW t, NEW h, On(t, r, h), ~IsLoop(h),
         NEW g, Sound(g, Waiting(r, bs) \cup Waits(h)), Kept(e.code, g.code), ~g.dead,
         g.emit <=> AllRun(r, Len(r)) /\ Runs(h), Fits(r, h), Placed(g.code, h)
  PROVE  Core(g, t, bs, il)
<1>1. e.code \in Seq(WordSet) /\ g.code \in Seq(WordSet)
  BY SoundIs DEF Core
<1>2. Base(e.code, r, bs, il)
  BY OnBase DEF Core
<1>3. Base(g.code, r, bs, il)
  BY <1>1, <1>2, BaseKept
<1>4. Base(g.code, t, bs, il)
  BY <1>3, OnBase
<1>5. Waiting(t, bs) = Waiting(r, bs) \cup Waits(h)
  BY OnWaiting
<1>6. g.emit <=> AllRun(t, Len(t))
  BY OnRuns
<1> QED
  BY <1>4, <1>5, <1>6 DEF Core

LEMMA StackPopped ==
  ASSUME NEW s, NEW r, NEW f, On(s, r, f), StackOK(s), Len(r) > 0
  PROVE  StackOK(r)
BY OnStack DEF On, StackOK

LEMMA CorePopped ==
  ASSUME NEW e, NEW s, NEW bs \in Seq(Nat), NEW il, Core(e, s, bs, il),
         NEW r, NEW f, On(s, r, f), ~IsLoop(f),
         NEW g, Sound(g, Waiting(r, bs)), Kept(e.code, g.code), ~g.dead,
         g.emit <=> AllRun(r, Len(r))
  PROVE  Core(g, r, bs, il)
<1>1. e.code \in Seq(WordSet) /\ g.code \in Seq(WordSet)
  BY SoundIs DEF Core
<1>2. Base(e.code, r, bs, il)
  BY OnBase DEF Core
<1>3. Base(g.code, r, bs, il)
  BY <1>1, <1>2, BaseKept
<1> QED
  BY <1>3 DEF Core

LEMMA LoopPopped ==
  ASSUME NEW e, NEW s, NEW bs \in Seq(Nat), NEW il, Core(e, s, bs, il),
         NEW r, NEW f, On(s, r, f), IsLoop(f), NEW n \in Nat, f.prev = n,
         NEW early, early = Early(bs, n),
         NEW g, Sound(g, Waiting(r, early)), Kept(e.code, g.code), ~g.dead,
         g.emit <=> AllRun(r, Len(r))
  PROVE  Core(g, r, early, f.was)
<1>1. e.code \in Seq(WordSet) /\ g.code \in Seq(WordSet)
  BY SoundIs DEF Core
<1>2. PICK late : late = Late(bs, n)
  OBVIOUS
<1>b. Base(e.code, s, bs, il)
  BY DEF Core
<1>3. Base(e.code, r, early, f.was)
  BY <1>2, <1>b, LoopOff
<1>4. Base(g.code, r, early, f.was)
  BY <1>1, <1>3, BaseKept
<1> QED
  BY <1>4 DEF Core

-----------------------------------------------------------------------------
(* Statements begin *)

LEMMA CostIs ==
  ASSUME NEW c \in Conditions
  PROVE  /\ c \in SimpleConditions \cup CompoundConditions /\ Cost[c] \in Nat
         /\ Never(c) \in BOOLEAN /\ Always(c) \in BOOLEAN /\ Unknown(c) \in BOOLEAN
BY CodegenAssumption, ConditionIs DEF CodegenAssumption, Unknown

LEMMA WeightIs == \A k \in Kinds : Weight[k] \in Nat
BY CodegenAssumption DEF CodegenAssumption

\* What a step of the compiler has to see to.
LEMMA StepOK ==
  ASSUME Typed, em' \in Emitter, StackOK(todo'), Len(todo') > 0,
         wants' \in BOOLEAN, inLoop' \in BOOLEAN, orderly' \in BOOLEAN,
         breaks' \in Seq(Nat), size' \in 0 .. MaxSize, UNCHANGED <<vm, turn>>,
         orderly' => Core(em', todo', breaks', inLoop')
  PROVE  IInv'
<1>1. Typed'
  BY DEF Typed
<1>2. RunOK'
  <2>1. todo' # << >>
    OBVIOUS
  <2> QED
    BY <2>1 DEF RunOK, Running
<1> QED
  BY <1>1, <1>2 DEF IInv

LEMMA ReadyIs ==
  ASSUME IInv, Ready
  PROVE  /\ Typed /\ em \in Emitter /\ em.code \in Seq(WordSet) /\ Here(em) \in Nat /\ Here(em) >= 3
         /\ em.emit \in BOOLEAN /\ ~em.dead
         /\ StackOK(todo) /\ IsStack(todo) /\ Len(todo) > 0
         /\ breaks \in Seq(Nat) /\ inLoop \in BOOLEAN /\ size \in Nat /\ orderly = TRUE
         /\ Core(em, todo, breaks, inLoop) /\ Sound(em, Waiting(todo, breaks))
<1>1. orderly = TRUE /\ Typed
  BY DEF IInv, Ready, Typed
<1>2. Core(em, todo, breaks, inLoop) /\ Sound(em, Waiting(todo, breaks))
  BY <1>1 DEF IInv, Core
<1>3. StackOK(todo) /\ IsStack(todo) /\ Len(todo) > 0
  BY <1>1 DEF Typed, StackOK, Ready, Running
<1>4. Here(em) >= 3 /\ Here(em) \in Nat
  BY <1>2, SoundIs
<1> QED
  BY <1>1, <1>2, <1>3, <1>4, EmitterIs DEF Typed, Ready

\* A statement that is complete goes on the same stack.
LEMMA SameStack ==
  ASSUME IInv, Ready, NEW g, em' = g, Sound(g, Waiting(todo, breaks)), Continues(em, g),
         wants' \in BOOLEAN, size' \in 0 .. MaxSize,
         UNCHANGED <<todo, breaks, inLoop, orderly, vm, turn>>
  PROVE  IInv'
<1>1. /\ Typed /\ StackOK(todo) /\ Len(todo) > 0 /\ breaks \in Seq(Nat) /\ inLoop \in BOOLEAN
      /\ orderly = TRUE /\ Core(em, todo, breaks, inLoop)
  BY ReadyIs
<1>2. Core(g, todo, breaks, inLoop) /\ g \in Emitter
  BY <1>1, CoreSame, SoundIs
<1> QED
  BY <1>1, <1>2, StepOK

LEMMA SizeIs ==
  ASSUME IInv, NEW k \in Kinds, NEW cost \in Nat, Start(k, cost)
  PROVE  Ready /\ size \in Nat /\ size' \in 0 .. MaxSize /\ wants = TRUE
<1>1. size \in 0 .. MaxSize /\ wants \in BOOLEAN /\ MaxSize \in Nat
  BY CodegenAssumption DEF CodegenAssumption, IInv, Typed
<1> QED
  BY <1>1, WeightIs DEF Start

LEMMA ActIs ==
  ASSUME NEW n \in Nat, NEW what \in {"do", "init", "bound", "put"}
  PROVE  \E w \in WordSet : w = ActWord(n, what) /\ w.op \notin TwoWords \cup {"half"}
<1>1. ActWord(n, what) \in WordSet
  BY DEF ActWord, WordSet
<1>2. ActWord(n, what).op \notin TwoWords \cup {"half"}
  BY DEF ActWord, TwoWords, Branches
<1> QED
  BY <1>1, <1>2

LEMMA ExitIs == \E w \in WordSet : w = [op |-> "EXIT"] /\ w.op \notin TwoWords \cup {"half"}
<1>1. [op |-> "EXIT"] \in WordSet
  BY DEF WordSet
<1>2. [op |-> "EXIT"].op \notin TwoWords \cup {"half"}
  BY DEF TwoWords, Branches
<1> QED
  BY <1>1, <1>2

LEMMA SimpleOK ==
  ASSUME IInv, Simple
  PROVE  IInv'
<1>1. Ready /\ size \in Nat /\ size' \in 0 .. MaxSize
  BY SizeIs DEF Simple, Kinds
<1>2. PICK w \in WordSet : w = ActWord(size, "do") /\ w.op \notin TwoWords \cup {"half"}
  BY <1>1, ActIs
<1>3. PICK g : g = Emit(em, w)
  OBVIOUS
<1>4. Sound(g, Waiting(todo, breaks)) /\ Continues(em, g)
  BY <1>1, <1>2, <1>3, ReadyIs, EmitSound
<1>5. em' = g /\ wants' = FALSE /\ UNCHANGED <<todo, breaks, inLoop, orderly, vm, turn>>
  BY <1>2, <1>3 DEF Simple, Whole, Done
<1> QED
  BY <1>1, <1>4, <1>5, SameStack

LEMMA ExitOK ==
  ASSUME IInv, ExitStmt
  PROVE  IInv'
<1>1. Ready /\ size \in Nat /\ size' \in 0 .. MaxSize
  BY SizeIs DEF ExitStmt, Kinds
<1>2. PICK w \in WordSet : w = [op |-> "EXIT"] /\ w.op \notin TwoWords \cup {"half"}
  BY ExitIs
<1>3. PICK g : g = Emit(em, w)
  OBVIOUS
<1>4. Sound(g, Waiting(todo, breaks)) /\ Continues(em, g)
  BY <1>1, <1>2, <1>3, ReadyIs, EmitSound
<1>5. em' = g /\ wants' = FALSE /\ UNCHANGED <<todo, breaks, inLoop, orderly, vm, turn>>
  BY <1>2, <1>3 DEF ExitStmt, Whole, Done
<1> QED
  BY <1>1, <1>4, <1>5, SameStack

LEMMA NullOK ==
  ASSUME IInv, NullStmt
  PROVE  IInv'
<1>1. Ready /\ wants' = FALSE /\ size' = size
      /\ UNCHANGED <<em, todo, breaks, inLoop, orderly, vm, turn>>
  BY DEF NullStmt, Done
<1>2. size \in 0 .. MaxSize
  BY DEF IInv, Typed
<1>3. Sound(em, Waiting(todo, breaks)) /\ Continues(em, em)
  BY <1>1, ReadyIs, SoundIs
<1> QED
  BY <1>1, <1>2, <1>3, SameStack

\* A construct begins.
LEMMA PushOK ==
  ASSUME IInv, Ready, NEW f, todo' = Append(todo, f), FrameOK(f), ~IsLoop(f),
         NEW g, em' = g, Sound(g, Waiting(todo, breaks)), Kept(em.code, g.code), ~g.dead,
         g.emit <=> em.emit /\ Runs(f),
         f.k \in Restores => f.last = em.emit, f.k \in Loops => f.live = em.emit /\ Runs(f),
         Placed(g.code, f),
         wants' \in BOOLEAN, size' \in 0 .. MaxSize, orderly' \in BOOLEAN,
         UNCHANGED <<breaks, inLoop, vm, turn>>
  PROVE  IInv'
<1>1. /\ Typed /\ StackOK(todo) /\ Len(todo) > 0 /\ breaks \in Seq(Nat) /\ inLoop \in BOOLEAN
      /\ Core(em, todo, breaks, inLoop)
  BY ReadyIs
<1>2. Fits(todo, f)
  BY <1>1 DEF Core, Fits
<1>3. PICK t : t = Append(todo, f)
  OBVIOUS
<1>4. On(t, todo, f) /\ StackOK(t) /\ Len(t) > 0
  BY <1>1, <1>3, StackPushed
<1>5. Sound(g, Waiting(todo, breaks) \cup Waits(f)) /\ g \in Emitter
  BY SoundMore, SoundIs
<1>6. Core(g, t, breaks, inLoop)
  BY <1>1, <1>2, <1>4, <1>5, CorePushed
<1> QED
  BY <1>1, <1>3, <1>4, <1>5, <1>6, StepOK

\* A loop begins, except REPEAT.
LEMMA PushLoopOK ==
  ASSUME IInv, Ready, NEW f, todo' = Append(todo, f), FrameOK(f), IsLoop(f),
         NEW g, em' = g, Sound(g, Waiting(todo, breaks)), Kept(em.code, g.code), ~g.dead,
         g.emit <=> em.emit /\ Runs(f), f.last = em.emit, f.live = g.emit,
         f.prev = Len(breaks), f.was = inLoop, Placed(g.code, f),
         wants' \in BOOLEAN, size' \in 0 .. MaxSize, orderly' \in BOOLEAN, inLoop' = TRUE,
         UNCHANGED <<breaks, vm, turn>>
  PROVE  IInv'
<1>1. /\ Typed /\ StackOK(todo) /\ Len(todo) > 0 /\ breaks \in Seq(Nat) /\ inLoop \in BOOLEAN
      /\ Core(em, todo, breaks, inLoop)
  BY ReadyIs
<1>2. Fits(todo, f)
  BY <1>1 DEF Core, Fits
<1>3. PICK t : t = Append(todo, f)
  OBVIOUS
<1>4. On(t, todo, f) /\ StackOK(t) /\ Len(t) > 0
  BY <1>1, <1>3, StackPushed
<1>5. g \in Emitter
  BY SoundIs
<1>6. Core(g, t, breaks, TRUE)
  BY <1>1, <1>2, <1>4, LoopPushed
<1> QED
  BY <1>1, <1>3, <1>4, <1>5, <1>6, StepOK

LEMMA BeginOK ==
  ASSUME IInv, BeginStmt
  PROVE  IInv'
<1>1. Ready /\ size \in Nat /\ size' \in 0 .. MaxSize
  BY SizeIs DEF BeginStmt, Kinds
<1>2. PICK f : f = [k |-> "begin", list |-> << >>]
  OBVIOUS
<1>3. FrameOK(f) /\ ~IsLoop(f) /\ Runs(f) /\ f.k \notin Restores \cup Loops /\ Sites(f) = {}
  BY <1>2 DEF FrameOK, IsLoop, IsCase, Runs, Restores, Loops, Sites
<1>4. Placed(em.code, f)
  BY <1>3 DEF Placed
<1>5. todo' = Append(todo, f) /\ wants' = TRUE
      /\ UNCHANGED <<em, breaks, inLoop, orderly, vm, turn>>
  BY <1>2 DEF BeginStmt, Begin
<1>6. /\ Sound(em, Waiting(todo, breaks)) /\ Kept(em.code, em.code) /\ ~em.dead
      /\ orderly' \in BOOLEAN /\ em.emit \in BOOLEAN
  BY <1>1, <1>5, ReadyIs, KeptRefl
<1> QED
  BY <1>1, <1>3, <1>4, <1>5, <1>6, PushOK

LEMMA RepeatOK ==
  ASSUME IInv, RepeatStmt
  PROVE  IInv'
<1>1. Ready /\ size \in Nat /\ size' \in 0 .. MaxSize
  BY SizeIs DEF RepeatStmt, Kinds
<1>2. /\ Sound(em, Waiting(todo, breaks)) /\ Kept(em.code, em.code) /\ ~em.dead
      /\ em.emit \in BOOLEAN /\ Here(em) \in Nat /\ Here(em) + 1 \in Land(em.code)
  BY <1>1, ReadyIs, KeptRefl, SoundIs
<1>3. PICK f : f = [k |-> "repeat", n |-> size, head |-> Here(em), live |-> em.emit,
                    list |-> << >>]
  OBVIOUS
<1>4. /\ f.k = "repeat" /\ f.n = size /\ f.head = Here(em) /\ f.live = em.emit
      /\ {"k", "list"} \subseteq DOMAIN f
  BY <1>3
<1>5. FrameOK(f)
  BY <1>1, <1>2, <1>4 DEF FrameOK, IsLoop, IsCase, Restores
<1>6. ~IsLoop(f) /\ Runs(f) /\ f.k \notin Restores
  BY <1>4 DEF IsLoop, Runs, Restores
<1>7. Placed(em.code, f)
  BY <1>2, <1>4 DEF Placed, Sites, IsLoop, IsCase
<1>8. todo' = Append(todo, f) /\ wants' = TRUE
      /\ UNCHANGED <<em, breaks, inLoop, orderly, vm, turn>>
  BY <1>3 DEF RepeatStmt, Begin
<1>9. orderly' \in BOOLEAN
  BY <1>8 DEF IInv, Typed
<1> QED
  BY <1>1, <1>2, <1>4, <1>5, <1>6, <1>7, <1>8, <1>9, PushOK

LEMMA CaseOK ==
  ASSUME IInv, NEW const \in BOOLEAN, CaseStmt(const)
  PROVE  IInv'
<1>1. Ready /\ size \in Nat /\ size' \in 0 .. MaxSize
  BY SizeIs DEF CaseStmt, Kinds
<1>2. /\ Sound(em, Waiting(todo, breaks)) /\ Kept(em.code, em.code) /\ ~em.dead
      /\ em.emit \in BOOLEAN
  BY <1>1, ReadyIs, KeptRefl
<1>3. PICK f : f = [k |-> "case", n |-> size, const |-> const, last |-> em.emit,
                    emitted |-> FALSE, outs |-> << >>, arms |-> << >>, list |-> << >>]
  OBVIOUS
<1>4. /\ f.k = "case" /\ f.n = size /\ f.const = const /\ f.last = em.emit /\ f.emitted = FALSE
      /\ f.outs = << >> /\ f.arms = << >>
      /\ {"k", "emitted", "outs", "arms", "list"} \subseteq DOMAIN f
  BY <1>3
<1>5. FrameOK(f)
  <2>1. f.outs \in Seq(Nat) /\ IsStack(f.arms)
    BY <1>4 DEF IsStack
  <2> QED
    BY <1>1, <1>2, <1>4, <2>1 DEF FrameOK, IsLoop, IsCase, Loops, Restores
<1>6. ~IsLoop(f) /\ Runs(f) /\ f.k \notin Loops
  BY <1>4 DEF IsLoop, Runs, Loops
<1>7. Placed(em.code, f)
  BY <1>4 DEF Placed, Sites, IsLoop, IsCase, ToSet, Loops
<1>8. todo' = Append(todo, f) /\ wants' = FALSE
      /\ UNCHANGED <<em, breaks, inLoop, orderly, vm, turn>>
  BY <1>3 DEF CaseStmt, Done
<1>9. orderly' \in BOOLEAN
  BY <1>8 DEF IInv, Typed
<1> QED
  BY <1>1, <1>2, <1>4, <1>5, <1>6, <1>7, <1>8, <1>9, PushOK

\* The compiler when it has compiled the condition of an IF or a WHILE.
Gated(e, c, n) == [Expr(e, c, n) EXCEPT !.emit = @ /\ ~Never(c)]

LEMMA HeadSound ==
  ASSUME NEW A, NEW e, Sound(e, A), NEW c \in Conditions, NEW n \in Nat,
         NEW y, y = Gated(e, c, n)
  PROVE  /\ Sound(y, A) /\ Kept(e.code, y.code) /\ y.dead = e.dead /\ y.emit \in BOOLEAN
         /\ y.emit <=> e.emit /\ ~Never(c)
<1>1. PICK x : x = Expr(e, c, n)
  OBVIOUS
<1>2. Sound(x, A) /\ Kept(e.code, x.code) /\ x.emit = e.emit /\ x.dead = e.dead
  BY <1>1, CostIs, ExprSound
<1>3. PICK b \in BOOLEAN : b = (x.emit /\ ~Never(c))
  OBVIOUS
<1>4. y = [x EXCEPT !.emit = b]
  <2>1. y = [x EXCEPT !.emit = x.emit /\ ~Never(c)]
    BY <1>1 DEF Gated
  <2> QED
    BY <1>3, <2>1
<1>5. Sound(y, A) /\ y.code = x.code /\ y.emit = b /\ y.dead = x.dead
  BY <1>2, <1>4, SwitchedSound
<1> QED
  BY <1>2, <1>3, <1>5

LEMMA IfOK ==
  ASSUME IInv, NEW c \in Conditions, IfStmt(c)
  PROVE  IInv'
<1>1. Ready /\ size \in Nat /\ size' \in 0 .. MaxSize /\ wants = TRUE
  BY SizeIs, CostIs DEF IfStmt, Kinds
<1>2. /\ Sound(em, Waiting(todo, breaks)) /\ ~em.dead /\ em.emit \in BOOLEAN
      /\ em.code \in Seq(WordSet)
  BY <1>1, ReadyIs
<1>3. PICK y : y = Gated(em, c, size)
  OBVIOUS
<1>4. /\ Sound(y, Waiting(todo, breaks)) /\ Kept(em.code, y.code) /\ y.dead = em.dead
      /\ y.emit \in BOOLEAN
      /\ y.emit <=> em.emit /\ ~Never(c)
  BY <1>1, <1>2, <1>3, HeadSound
<1>y. y.code \in Seq(WordSet)
  BY <1>4, SoundIs
<1>5. PICK g : g = IfHead(c)
  OBVIOUS
<1>6. g = IF Unknown(c) THEN BranchUnless(y, c, size) ELSE y
  BY <1>3, <1>5 DEF IfHead, Gated
<1>7. /\ Sound(g, Waiting(todo, breaks)) /\ Kept(y.code, g.code) /\ g.dead = em.dead
      /\ g.emit = y.emit
      /\ Unknown(c) => BranchAt(g) \in Nat /\ (y.emit => IsBranch(g.code, BranchAt(g)))
  <2>1. CASE Unknown(c)
    <3>1. g = BranchUnless(y, c, size)
      BY <1>6, <2>1
    <3> QED
      BY <1>1, <1>4, <3>1, CostIs, ConditionSound DEF Continues
  <2>2. CASE ~Unknown(c)
    BY <1>4, <1>y, <1>6, <2>2, KeptRefl
  <2> QED
    BY <2>1, <2>2
<1>8. Kept(em.code, g.code)
  BY <1>2, <1>4, <1>y, <1>7, KeptTrans, SoundIs
<1>9. PICK from \in Nat : from = IF Unknown(c) THEN BranchAt(g) ELSE 0
  BY <1>7
<1>10. PICK f : f = [k |-> "then", n |-> size, c |-> c, last |-> em.emit, from |-> from,
                     yes |-> << >>]
  OBVIOUS
<1>11. /\ f.k = "then" /\ f.n = size /\ f.c = c /\ f.last = em.emit /\ f.from = from
       /\ {"k", "from", "yes"} \subseteq DOMAIN f
  BY <1>10
<1>12. FrameOK(f)
  BY <1>1, <1>2, <1>11 DEF FrameOK, IsLoop, IsCase, Loops, Restores
<1>13. ~IsLoop(f) /\ f.k \notin Loops /\ (Runs(f) <=> ~Never(c))
  BY <1>11 DEF IsLoop, Runs, Loops
<1>14. Placed(g.code, f)
  <2>1. \A p \in Sites(f) : Unknown(c) /\ em.emit /\ p = from
    BY <1>11 DEF Sites, IsLoop, IsCase
  <2>2. Unknown(c) /\ em.emit => IsBranch(g.code, from)
    BY <1>4, <1>7, <1>9 DEF Unknown
  <2> QED
    BY <1>13, <2>1, <2>2 DEF Placed
<1>15. todo' = Append(todo, f) /\ em' = g /\ UNCHANGED <<wants, breaks, inLoop, vm, turn>>
  BY <1>5, <1>9, <1>10 DEF IfStmt
<1>16. orderly' \in BOOLEAN
  BY DEF IfStmt, ShortCircuits
<1> QED
  BY <1>1, <1>2, <1>4, <1>7, <1>8, <1>11, <1>12, <1>13, <1>14, <1>15, <1>16, PushOK

\* The frame of a WHILE or FOR.
LEMMA LoopFrame ==
  ASSUME IInv, Ready, NEW k \in {"while", "for"}, NEW c \in Conditions \cup {Counter},
         k = "for" => c = Counter,
         NEW head \in Nat, NEW exit \in Nat, NEW g, em' = g, g.emit \in BOOLEAN,
         head + 1 \in Land(g.code), g.emit => IsBranch(g.code, exit),
         LoopBody(k, c, head, exit)
  PROVE  \E f : /\ todo' = Append(todo, f) /\ FrameOK(f) /\ IsLoop(f) /\ f.k = k /\ f.c = c
                /\ f.last = em.emit /\ f.live = g.emit
                /\ f.prev = Len(breaks) /\ f.was = inLoop /\ Placed(g.code, f)
<1>1. /\ em.emit \in BOOLEAN /\ Len(breaks) \in Nat /\ inLoop \in BOOLEAN /\ size \in Nat
  BY ReadyIs
<1>2. PICK f : f = [k |-> k, c |-> c, n |-> size, head |-> head, exit |-> exit,
                    last |-> em.emit, live |-> g.emit, prev |-> Len(breaks), was |-> inLoop]
  OBVIOUS
<1>3. /\ f.k = k /\ f.c = c /\ f.n = size /\ f.head = head /\ f.exit = exit
      /\ f.last = em.emit /\ f.live = g.emit /\ f.prev = Len(breaks) /\ f.was = inLoop
      /\ "k" \in DOMAIN f
  BY <1>2
<1>4. IsLoop(f)
  BY <1>3 DEF IsLoop
<1>5. FrameOK(f)
  BY <1>1, <1>3 DEF FrameOK, IsLoop, IsCase, Loops, Restores
<1>6. Placed(g.code, f)
  BY <1>3 DEF Placed, Sites, IsLoop, IsCase
<1>7. todo' = Append(todo, f)
  BY <1>2 DEF LoopBody
<1> QED
  BY <1>3, <1>4, <1>5, <1>6, <1>7

LEMMA WhileOK ==
  ASSUME IInv, NEW c \in Conditions, WhileStmt(c)
  PROVE  IInv'
<1>1. Ready /\ size \in Nat /\ size' \in 0 .. MaxSize /\ wants = TRUE
  BY SizeIs, CostIs DEF WhileStmt, Kinds
<1>2. /\ Sound(em, Waiting(todo, breaks)) /\ ~em.dead /\ em.emit \in BOOLEAN
      /\ em.code \in Seq(WordSet) /\ Here(em) \in Nat
  BY <1>1, ReadyIs
<1>3. PICK y : y = Gated(em, c, size)
  OBVIOUS
<1>4. /\ Sound(y, Waiting(todo, breaks)) /\ Kept(em.code, y.code) /\ y.dead = em.dead
      /\ y.emit \in BOOLEAN
      /\ y.emit <=> em.emit /\ ~Never(c)
  <2>1. Sound(em, Waiting(todo, breaks)) /\ size \in Nat
    BY <1>1, <1>2
  <2> QED
    BY <1>3, <2>1, HeadSound
<1>5. PICK g : g = BranchUnless(y, c, size)
  OBVIOUS
<1>6. /\ Sound(g, Waiting(todo, breaks)) /\ Continues(y, g) /\ BranchAt(g) \in Nat
      /\ y.emit => IsBranch(g.code, BranchAt(g))
  BY <1>1, <1>4, <1>5, CostIs, ConditionSound
<1>7. y.code \in Seq(WordSet) /\ g.code \in Seq(WordSet)
  BY <1>4, <1>6, SoundIs
<1>8. /\ Kept(em.code, g.code) /\ g.dead = em.dead /\ g.emit = y.emit
  BY <1>2, <1>4, <1>6, <1>7, KeptTrans DEF Continues
<1>9. g = WhileHead(c)
  BY <1>3, <1>5 DEF WhileHead, Gated
<1>10. em' = g /\ LoopBody("while", c, Here(em), BranchAt(g)) /\ orderly' = ShortCircuits(c)
  BY <1>9 DEF WhileStmt
<1>11. Here(em) + 1 \in Land(g.code)
  BY <1>2, <1>8, SoundIs DEF Kept
<1>12. PICK f : /\ todo' = Append(todo, f) /\ FrameOK(f) /\ IsLoop(f) /\ f.k = "while" /\ f.c = c
                /\ f.last = em.emit /\ f.live = g.emit
                /\ f.prev = Len(breaks) /\ f.was = inLoop /\ Placed(g.code, f)
  BY <1>1, <1>2, <1>4, <1>6, <1>8, <1>10, <1>11, LoopFrame
<1>13. Runs(f) <=> ~Never(c)
  BY <1>12 DEF Runs
<1>14. wants' \in BOOLEAN /\ inLoop' = TRUE /\ UNCHANGED <<breaks, vm, turn>>
  BY <1>1, <1>10 DEF LoopBody
<1>15. orderly' \in BOOLEAN
  BY <1>10 DEF ShortCircuits
<1> QED
  BY <1>1, <1>2, <1>4, <1>6, <1>8, <1>10, <1>12, <1>13, <1>14, <1>15, PushLoopOK

LEMMA CounterIs == Counter \in SimpleConditions /\ ~Never(Counter)
BY DEF Counter, SimpleConditions, Comparisons, Never, Result, Compound, Literal

LEMMA ForOK ==
  ASSUME IInv, ForStmt
  PROVE  IInv'
<1>1. Ready /\ size \in Nat /\ size' \in 0 .. MaxSize /\ wants = TRUE
  BY SizeIs DEF ForStmt, Kinds
<1>2. /\ Sound(em, Waiting(todo, breaks)) /\ ~em.dead /\ em.emit \in BOOLEAN
      /\ em.code \in Seq(WordSet)
  BY <1>1, ReadyIs
<1>3. PICK v \in WordSet : v = ActWord(size, "init") /\ v.op \notin TwoWords \cup {"half"}
  BY <1>1, ActIs
<1>4. PICK w \in WordSet : w = ActWord(size, "bound") /\ w.op \notin TwoWords \cup {"half"}
  BY <1>1, ActIs
<1>5. PICK x : x = Emit(em, v)
  OBVIOUS
<1>6. Sound(x, Waiting(todo, breaks)) /\ Continues(em, x)
  BY <1>2, <1>3, <1>5, EmitSound
<1>7. PICK set : set = Emit(x, w)
  OBVIOUS
<1>8. Sound(set, Waiting(todo, breaks)) /\ Continues(x, set)
  BY <1>4, <1>6, <1>7, EmitSound
<1>9. PICK y : y = Operand(set, Counter, size, 1)
  OBVIOUS
<1>10. Sound(y, Waiting(todo, breaks)) /\ Continues(set, y)
  BY <1>1, <1>8, <1>9, CounterIs, OperandSound
<1>11. PICK g : g = BranchUnless(y, Counter, size)
  OBVIOUS
<1>12. /\ Sound(g, Waiting(todo, breaks)) /\ Continues(y, g) /\ BranchAt(g) \in Nat
       /\ y.emit => IsBranch(g.code, BranchAt(g))
  BY <1>1, <1>10, <1>11, CounterIs, ConditionSound
<1>13. /\ em \in Emitter /\ x \in Emitter /\ set \in Emitter /\ y \in Emitter /\ g \in Emitter
  BY <1>2, <1>6, <1>8, <1>10, <1>12, SoundIs
<1>14. Continues(set, g)
  BY <1>10, <1>12, <1>13, ContinuesTrans
<1>15. Continues(x, g)
  BY <1>8, <1>13, <1>14, ContinuesTrans
<1>16. Continues(em, g)
  BY <1>6, <1>13, <1>15, ContinuesTrans
<1>17. /\ em' = g /\ LoopBody("for", Counter, Here(set), BranchAt(g)) /\ UNCHANGED orderly
  BY <1>3, <1>4, <1>5, <1>7, <1>9, <1>11 DEF ForStmt
<1>18. Here(set) + 1 \in Land(g.code) /\ Here(set) \in Nat
  BY <1>8, <1>14, SoundIs DEF Continues, Kept
<1>19. g.emit = em.emit /\ g.dead = em.dead /\ Kept(em.code, g.code) /\ g.emit = y.emit
  BY <1>12, <1>16 DEF Continues
<1>20. PICK f : /\ todo' = Append(todo, f) /\ FrameOK(f) /\ IsLoop(f)
                /\ f.k = "for" /\ f.c = Counter
                /\ f.last = em.emit /\ f.live = g.emit
                /\ f.prev = Len(breaks) /\ f.was = inLoop /\ Placed(g.code, f)
  BY <1>1, <1>2, <1>12, <1>17, <1>18, <1>19, LoopFrame
<1>21. Runs(f)
  BY <1>20 DEF Runs
<1>22. wants' \in BOOLEAN /\ inLoop' = TRUE /\ UNCHANGED <<breaks, vm, turn>>
  BY <1>1, <1>17 DEF LoopBody
<1>23. orderly' \in BOOLEAN
  BY <1>1, <1>17, ReadyIs
<1> QED
  BY <1>1, <1>2, <1>12, <1>17, <1>19, <1>20, <1>21, <1>22, <1>23, PushLoopOK

LEMMA BreakOK ==
  ASSUME IInv, BreakStmt
  PROVE  IInv'
<1>1. Ready /\ size \in Nat /\ size' \in 0 .. MaxSize /\ inLoop
  BY SizeIs DEF BreakStmt, Kinds
<1>2. /\ Sound(em, Waiting(todo, breaks)) /\ ~em.dead /\ em.emit \in BOOLEAN
      /\ em \in Emitter /\ em.code \in Seq(WordSet)
      /\ Typed /\ StackOK(todo) /\ IsStack(todo) /\ Len(todo) > 0 /\ breaks \in Seq(Nat)
      /\ inLoop = TRUE /\ Core(em, todo, breaks, inLoop)
  BY <1>1, ReadyIs
<1>3. /\ UNCHANGED <<todo, inLoop, vm, turn>> /\ wants' = FALSE
      /\ orderly' <=> /\ Innermost.k # "repeat" /\ em.emit = Innermost.live
                      /\ Len(breaks) < MaxBreaks
      /\ orderly' \in BOOLEAN
  BY DEF BreakStmt, Whole, Done
<1>4. Len(breaks) \in Nat /\ MaxBreaks \in Nat
  BY <1>2, CodegenAssumption DEF CodegenAssumption
<1>5. CASE Len(breaks) >= MaxBreaks
  <2>1. em' = [em EXCEPT !.dead = TRUE] /\ breaks' = breaks
    BY <1>5 DEF BreakStmt
  <2>2. em' \in Emitter
    BY <1>2, <2>1 DEF Emitter
  <2>3. ~(Len(breaks) < MaxBreaks)
    BY <1>4, <1>5
  <2>4. ~orderly'
    BY <1>3, <2>3
  <2> QED
    BY <1>1, <1>2, <1>3, <2>1, <2>2, <2>4, StepOK
<1>6. CASE ~(Len(breaks) >= MaxBreaks)
  <2>1. PICK e : e = EmitBranch(em, "BR", 0)
    OBVIOUS
  <2>2. PICK B : B = Waiting(todo, breaks) \cup {Here(em)}
    OBVIOUS
  <2>3. Leads(em.code, 0, B) /\ Waiting(todo, breaks) \subseteq B
    BY <2>2 DEF Leads, Here
  <2>4. "BR" \in Branches /\ 0 \in Int
    BY DEF Branches
  <2>5. /\ Sound(e, B) /\ Continues(em, e) /\ BranchAt(e) = Here(em)
        /\ em.emit => IsBranch(e.code, Here(em))
    BY <1>2, <2>1, <2>3, <2>4, BranchSound
  <2>6. PICK p \in Nat : p = Here(em)
    BY <1>2, SoundIs
  <2>7. em' = e /\ breaks' = Append(breaks, p) /\ e \in Emitter /\ e.code \in Seq(WordSet)
    BY <1>6, <2>1, <2>5, <2>6, SoundIs DEF BreakStmt
  <2>8. breaks' \in Seq(Nat)
    BY <1>2, <2>7
  <2>9. ASSUME orderly'
        PROVE  Core(e, todo, breaks', TRUE)
    <3>1. Innermost.k # "repeat" /\ em.emit = Innermost.live
      BY <1>3, <2>9
    <3>2. \E i \in 1 .. Len(todo) : todo[i].k \in Loops
      BY <1>2 DEF Core, Base, LoopsOK, IsLoop, Loops
    <3>3. PICK i \in 1 .. Len(todo) :
            /\ Innermost = todo[i] /\ todo[i].k \in Loops
            /\ \A j \in i + 1 .. Len(todo) : todo[j].k \notin Loops
      BY <1>2, <3>2, InnermostIs
    <3>4. IsLoop(todo[i]) /\ \A j \in i + 1 .. Len(todo) : ~IsLoop(todo[j])
      BY <3>1, <3>3 DEF IsLoop, Loops
    <3>5. \A j \in 1 .. Len(todo) : IsLoop(todo[j]) => todo[j].prev \in Nat
      BY <1>2 DEF StackOK, FrameOK
    <3>6. Base(e.code, todo, breaks, TRUE)
      BY <1>2, <2>5, <2>7, BaseKept DEF Core, Continues
    <3>7. todo[i].live <=> em.emit
      BY <3>1, <3>3
    <3>8. todo[i].live => IsBranch(e.code, p)
      BY <2>5, <2>6, <3>7
    <3>9. /\ Base(e.code, todo, breaks', TRUE)
          /\ Waiting(todo, breaks) \subseteq Waiting(todo, breaks')
          /\ todo[i].live => p \in Waiting(todo, breaks')
      BY <1>2, <2>7, <3>4, <3>5, <3>6, <3>8, BreakNoted
    <3>10. Sound(e, Waiting(todo, breaks'))
      <4>1. CASE em.emit
        <5>1. B \subseteq Waiting(todo, breaks')
          BY <2>2, <2>6, <3>7, <3>9, <4>1
        <5> QED
          BY <2>5, <5>1, SoundMore
      <4>2. CASE ~em.emit
        <5>1. e = em
          BY <2>5, <4>2 DEF Continues
        <5> QED
          BY <1>2, <3>9, <5>1, SoundMore
      <4> QED
        BY <4>1, <4>2
    <3>11. e.emit = em.emit /\ e.dead = em.dead
      BY <2>5 DEF Continues
    <3> QED
      BY <1>2, <3>9, <3>10, <3>11 DEF Core
  <2> QED
    BY <1>1, <1>2, <1>3, <2>7, <2>8, <2>9, StepOK
<1> QED
  BY <1>5, <1>6

-----------------------------------------------------------------------------
(* Statements inside have been compiled *)

LEMMA AfterIs ==
  ASSUME IInv, NEW k, After(k)
  PROVE  /\ Ready /\ Top.k = k /\ FrameOK(Top) /\ On(todo, Front(todo), Top)
         /\ Fits(Front(todo), Top) /\ Placed(em.code, Top)
         /\ em.emit <=> AllRun(Front(todo), Len(Front(todo))) /\ Runs(Top)
         /\ k # "begin" => Len(Front(todo)) > 0
         /\ em \in Emitter /\ em.code \in Seq(WordSet)
         /\ size \in 0 .. MaxSize /\ orderly = TRUE /\ ~em.dead
<1>1. Ready /\ Top.k = k
  BY DEF After, Top
<1>2. /\ Typed /\ StackOK(todo) /\ IsStack(todo) /\ Len(todo) > 0 /\ breaks \in Seq(Nat)
      /\ Core(em, todo, breaks, inLoop)
  BY <1>1, ReadyIs
<1>3. On(todo, Front(todo), Top)
  BY <1>2, Popped DEF Top
<1>4. /\ FrameOK(Top) /\ Fits(Front(todo), Top) /\ Placed(em.code, Top)
      /\ em.emit <=> AllRun(Front(todo), Len(Front(todo))) /\ Runs(Top)
      /\ Top.k # "begin" => Len(Front(todo)) > 0
  BY <1>2, <1>3, TopIs
<1>5. /\ em \in Emitter /\ em.code \in Seq(WordSet)
      /\ size \in 0 .. MaxSize /\ orderly = TRUE /\ ~em.dead
  BY <1>1, <1>2, ReadyIs DEF Typed
<1> QED
  BY <1>1, <1>3, <1>4, <1>5

\* The innermost construct becomes h, and is no loop.
LEMMA ChangeOK ==
  ASSUME IInv, NEW k, After(k), ~IsLoop(Top), NEW h, FrameOK(h), ~IsLoop(h),
         k = "begin" => h.k = "begin", Become(h),
         NEW g, em' = g, g \in Emitter,
         orderly' =>
           /\ Sound(g, Waiting(Front(todo), breaks) \cup Waits(h)) /\ Kept(em.code, g.code)
           /\ ~g.dead /\ (g.emit <=> AllRun(Front(todo), Len(Front(todo))) /\ Runs(h))
           /\ Fits(Front(todo), h) /\ Placed(g.code, h),
         wants' \in BOOLEAN, orderly' \in BOOLEAN, UNCHANGED <<breaks, inLoop, size, vm, turn>>
  PROVE  IInv'
<1>1. /\ Typed /\ StackOK(todo) /\ breaks \in Seq(Nat) /\ inLoop \in BOOLEAN
      /\ Core(em, todo, breaks, inLoop)
  BY ReadyIs, AfterIs
<1>2. On(todo, Front(todo), Top) /\ Top.k = k /\ size \in 0 .. MaxSize
  BY AfterIs
<1>3. PICK t : t = Append(Front(todo), h) /\ todo' = t
  BY DEF Become
<1>4. On(t, Front(todo), h) /\ StackOK(t) /\ Len(t) > 0
  BY <1>1, <1>2, <1>3, StackChanged
<1>5. orderly' => Core(g, t, breaks, inLoop)
  BY <1>1, <1>2, <1>4, CoreChanged
<1> QED
  BY <1>1, <1>2, <1>3, <1>4, <1>5, StepOK

\* It is over, and no loop.
LEMMA FinishOK ==
  ASSUME IInv, NEW k, After(k), ~IsLoop(Top), k # "begin" \/ Len(todo) > 1,
         NEW g, em' = g, Sound(g, Waiting(Front(todo), breaks)), Kept(em.code, g.code), ~g.dead,
         g.emit <=> AllRun(Front(todo), Len(Front(todo))), todo' = Front(todo),
         wants' \in BOOLEAN, size' \in 0 .. MaxSize, orderly' \in BOOLEAN,
         UNCHANGED <<breaks, inLoop, vm, turn>>
  PROVE  IInv'
<1>1. /\ Typed /\ StackOK(todo) /\ breaks \in Seq(Nat) /\ inLoop \in BOOLEAN
      /\ Core(em, todo, breaks, inLoop)
  BY ReadyIs, AfterIs
<1>2. On(todo, Front(todo), Top) /\ (k # "begin" => Len(Front(todo)) > 0)
  BY AfterIs
<1>3. PICK r : r = Front(todo)
  OBVIOUS
<1>4. Len(r) > 0
  BY <1>2, <1>3 DEF On, IsStack
<1>5. StackOK(r)
  BY <1>1, <1>2, <1>3, <1>4, StackPopped
<1>6. Core(g, r, breaks, inLoop) /\ g \in Emitter
  BY <1>1, <1>2, <1>3, CorePopped, SoundIs
<1> QED
  BY <1>1, <1>3, <1>4, <1>5, <1>6, StepOK

\* Where branches wait, but for the innermost construct.
Outside == Waiting(Front(todo), breaks)

LEMMA InsideIs ==
  ASSUME IInv, NEW k, After(k), ~IsLoop(Top)
  PROVE  Sound(em, Outside \cup Waits(Top))
<1>1. On(todo, Front(todo), Top) /\ breaks \in Seq(Nat) /\ Sound(em, Waiting(todo, breaks))
  BY AfterIs, ReadyIs
<1>2. Waiting(todo, breaks) = Outside \cup Waits(Top)
  BY <1>1, OnWaiting DEF Outside
<1> QED
  BY <1>1, <1>2

LEMMA SemicolonOK ==
  ASSUME IInv, Semicolon
  PROVE  IInv'
<1>1. PICK k \in {"begin", "repeat", "otherwise"} : After(k)
  BY DEF Semicolon
<1>2. /\ Top.k = k /\ FrameOK(Top) /\ Fits(Front(todo), Top) /\ Placed(em.code, Top)
      /\ em.emit <=> AllRun(Front(todo), Len(Front(todo))) /\ Runs(Top)
      /\ em \in Emitter /\ em.code \in Seq(WordSet) /\ orderly = TRUE /\ ~em.dead
  BY <1>1, AfterIs
<1>3. PICK h : h = [Top EXCEPT !.list = @ \o made]
  OBVIOUS
<1>4. /\ h.k = Top.k /\ h.n = Top.n /\ h.head = Top.head /\ h.live = Top.live
      /\ h.last = Top.last /\ h.const = Top.const /\ h.emitted = Top.emitted
      /\ h.outs = Top.outs /\ h.arms = Top.arms /\ DOMAIN h = DOMAIN Top
  BY <1>3
<1>5. FrameOK(h)
  BY <1>1, <1>2, <1>4 DEF FrameOK, IsLoop, IsCase
<1>6. ~IsLoop(Top) /\ ~IsLoop(h) /\ (Runs(h) <=> Runs(Top))
  BY <1>1, <1>2, <1>4 DEF IsLoop, Runs
<1>7. Sites(h) = Sites(Top) /\ Waits(h) = Waits(Top)
  BY <1>1, <1>2, <1>4 DEF Sites, Waits, IsLoop, IsCase
<1>8. Fits(Front(todo), h) /\ Placed(em.code, h)
  BY <1>2, <1>4, <1>6, <1>7 DEF Fits, Placed
<1>9. Sound(em, Outside \cup Waits(h)) /\ Kept(em.code, em.code)
  BY <1>1, <1>2, <1>6, <1>7, InsideIs, KeptRefl
<1>10. Become(h) /\ wants' = TRUE /\ UNCHANGED <<em, breaks, inLoop, size, orderly, vm, turn>>
  BY <1>3 DEF Semicolon, Still
<1> QED
  BY <1>1, <1>2, <1>4, <1>5, <1>6, <1>8, <1>9, <1>10, ChangeOK DEF Outside

LEMMA EndBeginOK ==
  ASSUME IInv, EndBegin
  PROVE  IInv'
<1>1. After("begin") /\ Len(todo) > 1
  BY DEF EndBegin
<1>2. /\ Top.k = "begin"
      /\ em.emit <=> AllRun(Front(todo), Len(Front(todo))) /\ Runs(Top)
      /\ em.code \in Seq(WordSet) /\ size \in 0 .. MaxSize /\ orderly = TRUE /\ ~em.dead
  BY <1>1, AfterIs
<1>3. ~IsLoop(Top) /\ Runs(Top) /\ Waits(Top) = {}
  BY <1>2 DEF IsLoop, Runs, Waits, IsCase
<1>4. Sound(em, Outside)
  <2>1. Outside \cup Waits(Top) = Outside
    BY <1>3
  <2> QED
    BY <1>1, <1>3, <2>1, InsideIs
<1>5. Kept(em.code, em.code)
  BY <1>2, KeptRefl
<1>6. wants' = FALSE /\ todo' = Front(todo)
      /\ UNCHANGED <<em, breaks, inLoop, size, orderly, vm, turn>>
  BY DEF EndBegin, Finish, Done, Still
<1> QED
  BY <1>1, <1>2, <1>3, <1>4, <1>5, <1>6, FinishOK DEF Outside

\* THEN and ELSE: the branch of an IF is where it was noted.
LEMMA ArmOfIf ==
  ASSUME IInv, NEW k \in {"then", "else"}, After(k)
  PROVE  /\ Top.k = k /\ Top.c \in Conditions /\ Top.last \in BOOLEAN /\ Top.from \in Nat
         /\ Top.n \in Nat /\ ~IsLoop(Top) /\ {"k", "from"} \subseteq DOMAIN Top
         /\ Top.last <=> AllRun(Front(todo), Len(Front(todo)))
         /\ Unknown(Top.c) /\ Top.last => IsBranch(em.code, Top.from)
         /\ k = "then" => Waits(Top) = {}
<1>1. Top.k = k /\ FrameOK(Top) /\ Fits(Front(todo), Top) /\ Placed(em.code, Top)
  BY AfterIs
<1>2. /\ Top.c \in Conditions /\ Top.last \in BOOLEAN /\ Top.from \in Nat
      /\ Top.n \in Nat /\ ~IsLoop(Top) /\ {"k", "from"} \subseteq DOMAIN Top
  BY <1>1 DEF FrameOK, IsLoop
<1>3. Top.last <=> AllRun(Front(todo), Len(Front(todo)))
  BY <1>1 DEF Fits, Restores
<1>4. Unknown(Top.c) /\ Top.last => Top.from \in Sites(Top)
  BY <1>1, <1>2 DEF Sites
<1>5. k = "then" => Waits(Top) = {}
  BY <1>1 DEF Waits, IsCase
<1> QED
  BY <1>1, <1>2, <1>3, <1>4, <1>5 DEF Placed

LEMMA ElseOK ==
  ASSUME IInv, Else
  PROVE  IInv'
<1>1. After("then")
  BY DEF Else
<1>2. /\ Top.k = "then" /\ Top.c \in Conditions /\ Top.last \in BOOLEAN /\ Top.from \in Nat
      /\ Top.n \in Nat /\ ~IsLoop(Top) /\ {"k", "from"} \subseteq DOMAIN Top
      /\ Top.last <=> AllRun(Front(todo), Len(Front(todo)))
      /\ Unknown(Top.c) /\ Top.last => IsBranch(em.code, Top.from)
      /\ Waits(Top) = {}
  BY <1>1, ArmOfIf
<1>3. em \in Emitter /\ em.code \in Seq(WordSet) /\ ~em.dead
  BY <1>1, AfterIs
<1>4. Sound(em, Outside)
  <2>1. Outside \cup Waits(Top) = Outside
    BY <1>2
  <2> QED
    BY <1>1, <1>2, <2>1, InsideIs
<1>c. /\ Never(Top.c) \in BOOLEAN /\ Always(Top.c) \in BOOLEAN
      /\ Unknown(Top.c) <=> ~Never(Top.c) /\ ~Always(Top.c)
  BY <1>2, CostIs DEF Unknown
<1>5. PICK b \in BOOLEAN : b = (Top.last /\ ~Always(Top.c))
  OBVIOUS
<1>6. PICK e : e = [em EXCEPT !.emit = b]
  OBVIOUS
<1>7. /\ Sound(e, Outside) /\ e.code = em.code /\ e.emit = b /\ e.dead = em.dead
      /\ Here(e) = Here(em) /\ Here(e) \in Nat /\ Here(e) >= 3
  BY <1>4, <1>6, SwitchedSound, SoundIs
<1>8. PICK j : j = IF Unknown(Top.c) THEN EmitBranch(e, "BR", 0) ELSE e
  OBVIOUS
<1>9. PICK g : g = PatchToCurrent(j, Top.from)
  OBVIOUS
<1>10. g = ElseHead
  <2>1. e = [em EXCEPT !.emit = Top.last /\ ~Always(Top.c)]
    BY <1>5, <1>6
  <2> QED
    BY <1>8, <1>9, <2>1 DEF ElseHead
<1>11. PICK W : W = {p \in Nat : Unknown(Top.c) /\ Top.last /\ p = Here(em)}
  OBVIOUS
<1>12. PICK B : B = Outside \cup W
  OBVIOUS
<1>13. /\ Sound(j, B) /\ Continues(e, j) /\ BranchAt(j) \in Nat
       /\ Unknown(Top.c) => BranchAt(j) = Here(em)
       /\ Unknown(Top.c) /\ Top.last => IsBranch(j.code, Here(em))
  <2>1. Outside \subseteq B
    BY <1>12
  <2>2. CASE Unknown(Top.c)
    <3>1. e.emit => Leads(e.code, 0, B)
      <4>1. e.emit => Here(em) \in B
        BY <1>5, <1>7, <1>11, <1>12, <2>2
      <4> QED
        BY <1>7, <4>1 DEF Leads, Here
    <3>2. "BR" \in Branches /\ 0 \in Int
      BY DEF Branches
    <3>3. j = EmitBranch(e, "BR", 0)
      BY <1>8, <2>2
    <3>4. /\ Sound(j, B) /\ Continues(e, j) /\ BranchAt(j) = Here(e)
          /\ e.emit => IsBranch(j.code, Here(e))
      <4>1. Sound(e, Outside)
        BY <1>7
      <4> QED
        BY <2>1, <3>1, <3>2, <3>3, <4>1, BranchSound
    <3>5. Top.last => e.emit
      BY <1>c, <1>5, <1>7, <2>2
    <3> QED
      BY <1>7, <3>4, <3>5
  <2>3. CASE ~Unknown(Top.c)
    <3>1. j = e
      BY <1>8, <2>3
    <3>2. Sound(e, B) /\ Continues(e, e)
      BY <1>7, <2>1, SoundMore, SoundIs
    <3>3. BranchAt(e) \in Nat
      BY <1>7 DEF BranchAt, BranchSize
    <3> QED
      BY <2>3, <3>1, <3>2, <3>3
  <2> QED
    BY <2>2, <2>3
<1>14. /\ j \in Emitter /\ j.code \in Seq(WordSet) /\ Here(j) \in Int
       /\ Here(j) + 1 \in Land(j.code)
       /\ j.emit = b /\ ~j.dead /\ Kept(em.code, j.code)
  BY <1>3, <1>7, <1>13, SoundIs DEF Continues
<1>15. g = Patch(j, Top.from, Here(j)) /\ Top.from \in Nat
  BY <1>2, <1>9 DEF PatchToCurrent
<1>16. g \in Emitter /\ g.emit = j.emit /\ Here(g) = Here(j)
  <2>1. PICK to \in Int : to = Here(j)
    BY <1>14
  <2>2. PICK at \in Nat : at = Top.from
    BY <1>15
  <2>3. j \in Emitter /\ g = Patch(j, at, to)
    BY <1>14, <1>15, <2>1, <2>2
  <2> QED
    BY <2>3, PatchIs
<1>17. BranchAt(g) = BranchAt(j)
  BY <1>16 DEF BranchAt
<1>18. PICK from \in Nat : from = BranchAt(g)
  BY <1>13, <1>17
<1>19. PICK h : h = [Top EXCEPT !.k = "else", !.from = from, !.yes = made]
  OBVIOUS
<1>20. /\ h.k = "else" /\ h.from = from /\ h.n = Top.n /\ h.c = Top.c /\ h.last = Top.last
       /\ DOMAIN h = DOMAIN Top
  BY <1>2, <1>19
<1>21. FrameOK(h)
  BY <1>2, <1>18, <1>20 DEF FrameOK, IsLoop, IsCase, Loops, Restores
<1>22. ~IsLoop(h) /\ (Runs(h) <=> ~Always(Top.c)) /\ Fits(Front(todo), h)
  BY <1>2, <1>20 DEF IsLoop, Runs, Fits, Restores, Loops
<1>23. Waits(h) = W
  <2>1. Unknown(Top.c) => from = Here(em)
    BY <1>13, <1>17, <1>18
  <2>2. \A p \in Nat : p \in Waits(h) <=> Unknown(Top.c) /\ Top.last /\ p = from
    BY <1>20 DEF Waits, IsCase
  <2>3. \A p \in Nat : p \in Waits(h) <=> p \in W
    BY <1>11, <2>1, <2>2
  <2>4. Waits(h) \subseteq Nat /\ W \subseteq Nat
    BY <1>11 DEF Waits
  <2> QED
    BY <2>3, <2>4
<1>24. ASSUME orderly'
       PROVE  Sound(g, Outside \cup Waits(h)) /\ Kept(em.code, g.code) /\ ~g.dead
              /\ Placed(g.code, h)
  <2>1. ~(Never(Top.c) /\ Top.last)
    BY <1>24 DEF Else
  <2>2. b => Unknown(Top.c) /\ Top.last
    BY <1>c, <1>5, <2>1
  <2>3. j.emit => IsBranch(j.code, Top.from)
    BY <1>2, <1>3, <1>14, <2>2, KeptBranch
  <2>4. Settles(j, Top.from, Here(j), B, B)
    BY <1>14, <2>3 DEF Settles
  <2>5. Sound(g, B) /\ Continues(j, g)
    BY <1>2, <1>13, <1>14, <1>15, <2>4, PatchSound
  <2>6. g.code \in Seq(WordSet) /\ Kept(j.code, g.code) /\ ~g.dead
    BY <1>14, <2>5, SoundIs DEF Continues
  <2>7. Kept(em.code, g.code)
    BY <1>3, <1>14, <2>6, KeptTrans
  <2>8. Placed(g.code, h)
    <3>1. \A p \in Sites(h) : Unknown(Top.c) /\ Top.last /\ p = from
      BY <1>20 DEF Sites, IsLoop, IsCase
    <3>2. Unknown(Top.c) /\ Top.last => IsBranch(g.code, from)
      BY <1>13, <1>14, <1>17, <1>18, <2>6, KeptBranch
    <3> QED
      BY <1>20, <3>1, <3>2 DEF Placed, Loops
  <2> QED
    BY <1>12, <1>23, <2>5, <2>6, <2>7, <2>8
<1>25. g.emit <=> AllRun(Front(todo), Len(Front(todo))) /\ Runs(h)
  BY <1>2, <1>5, <1>14, <1>16, <1>22
<1>26. em' = g /\ Become(h) /\ wants' = TRUE /\ UNCHANGED <<breaks, inLoop, size, vm, turn>>
  BY <1>10, <1>18, <1>19 DEF Else, Still
<1>27. orderly' \in BOOLEAN
  BY DEF Else
<1> QED
  BY <1>1, <1>2, <1>16, <1>21, <1>22, <1>24, <1>25, <1>26, <1>27, ChangeOK DEF Outside

LEMMA EndIfOK ==
  ASSUME IInv, EndIf
  PROVE  IInv'
<1>1. PICK k \in {"then", "else"} : After(k)
  BY DEF EndIf
<1>2. /\ Top.k = k /\ Top.c \in Conditions /\ Top.last \in BOOLEAN /\ Top.from \in Nat
      /\ ~IsLoop(Top)
      /\ Top.last <=> AllRun(Front(todo), Len(Front(todo)))
      /\ Unknown(Top.c) /\ Top.last => IsBranch(em.code, Top.from)
  BY <1>1, ArmOfIf
<1>3. /\ em \in Emitter /\ em.code \in Seq(WordSet) /\ ~em.dead
      /\ size \in 0 .. MaxSize /\ orderly = TRUE
  BY <1>1, AfterIs
<1>4. PICK A : A = Outside \cup Waits(Top) /\ Sound(em, A)
  BY <1>1, <1>2, InsideIs
<1>5. PICK e : e = [em EXCEPT !.emit = Top.last]
  OBVIOUS
<1>6. Sound(e, A) /\ e.code = em.code /\ e.emit = Top.last /\ e.dead = em.dead
  BY <1>2, <1>4, <1>5, SwitchedSound
<1>7. Here(e) \in Int /\ Here(e) + 1 \in Land(e.code) /\ Continues(e, e)
  BY <1>6, SoundIs
<1>8. PICK p : p = IF Unknown(Top.c) THEN PatchToCurrent(e, Top.from) ELSE e
  OBVIOUS
<1>9. Sound(p, Outside) /\ Continues(e, p)
  <2>1. CASE Unknown(Top.c)
    <3>1. PICK to \in Int : to = Here(e)
      BY <1>7
    <3>2. PICK at \in Nat : at = Top.from
      BY <1>2
    <3>3. p = Patch(e, at, to)
      BY <1>8, <2>1, <3>1, <3>2 DEF PatchToCurrent
    <3>4. Waits(Top) \subseteq (IF Top.last THEN {at} ELSE {})
      BY <1>1, <1>2, <3>2 DEF Waits, IsCase
    <3>5. Settles(e, at, to, A, Outside)
      BY <1>2, <1>4, <1>6, <1>7, <2>1, <3>1, <3>2, <3>4 DEF Settles
    <3> QED
      BY <1>6, <3>3, <3>5, PatchSound
  <2>2. CASE ~Unknown(Top.c)
    <3>1. Waits(Top) = {}
      BY <1>1, <1>2, <2>2 DEF Waits, IsCase
    <3>2. A \subseteq Outside /\ p = e
      BY <1>4, <1>8, <2>2, <3>1
    <3> QED
      BY <1>6, <1>7, <3>2, SoundMore
  <2> QED
    BY <2>1, <2>2
<1>10. PICK g : g = IF k = "then" THEN p ELSE [p EXCEPT !.emit = Top.last]
  OBVIOUS
<1>11. Sound(g, Outside) /\ g.code = p.code /\ g.emit = Top.last /\ g.dead = p.dead
  <2>1. p.emit = Top.last
    BY <1>6, <1>9 DEF Continues
  <2> QED
    BY <1>2, <1>9, <1>10, <2>1, SwitchedSound
<1>12. em' = g /\ todo' = Front(todo) /\ wants' = FALSE
       /\ UNCHANGED <<breaks, inLoop, size, orderly, vm, turn>>
  <2>1. After("then") => k = "then"
    BY <1>2 DEF After, Top
  <2>2. After("else") => k = "else"
    BY <1>2 DEF After, Top
  <2> QED
    BY <1>5, <1>8, <1>10, <2>1, <2>2 DEF EndIf, Finish, Done, Still
<1>13. Kept(em.code, g.code) /\ ~g.dead
  BY <1>3, <1>6, <1>9, <1>11 DEF Continues
<1> QED
  BY <1>1, <1>2, <1>3, <1>11, <1>12, <1>13, FinishOK DEF Outside

\* A loop ends: its last branch and its breaks lead behind it.
LEMMA LoopTop ==
  ASSUME IInv, NEW k \in {"while", "for"}, After(k)
  PROVE  /\ Top.k = k /\ IsLoop(Top) /\ Top.n \in Nat /\ Top.last \in BOOLEAN /\ Top.head \in Nat
         /\ Top.exit \in Nat /\ Top.prev \in Nat /\ Top.was \in BOOLEAN
         /\ Top.last <=> AllRun(Front(todo), Len(Front(todo)))
         /\ em.emit <=> Top.last /\ Runs(Top)
         /\ Top.live <=> em.emit
         /\ em.emit => IsBranch(em.code, Top.exit)
         /\ Top.head + 1 \in Land(em.code)
<1>1. /\ Top.k = k /\ FrameOK(Top) /\ Fits(Front(todo), Top) /\ Placed(em.code, Top)
      /\ em.emit <=> AllRun(Front(todo), Len(Front(todo))) /\ Runs(Top)
  BY AfterIs
<1>2. IsLoop(Top) /\ Top.k \in Loops /\ Top.k \in Restores /\ Top.k # "begin"
  BY <1>1 DEF IsLoop, Loops, Restores
<1>3. /\ Top.n \in Nat /\ Top.last \in BOOLEAN /\ Top.head \in Nat
      /\ Top.exit \in Nat /\ Top.prev \in Nat /\ Top.was \in BOOLEAN
  BY <1>1, <1>2 DEF FrameOK
<1>4. /\ Top.last <=> AllRun(Front(todo), Len(Front(todo)))
      /\ Top.live <=> AllRun(Front(todo), Len(Front(todo))) /\ Runs(Top)
  BY <1>1, <1>2 DEF Fits
<1>5. Top.live => Top.exit \in Sites(Top)
  BY <1>2, <1>3 DEF Sites
<1>6. /\ Top.live => IsBranch(em.code, Top.exit)
      /\ Top.head + 1 \in Land(em.code)
  BY <1>1, <1>2, <1>5 DEF Placed
<1> QED
  BY <1>1, <1>2, <1>3, <1>4, <1>6

Unwind(x) == PatchBreaks(PatchToCurrent(x, Top.exit))

LEMMA UnwindTyped ==
  ASSUME IInv, NEW k \in {"while", "for"}, After(k), NEW x \in Emitter,
         NEW q, q = Unwind(x), Top.prev <= Len(breaks)
  PROVE  q \in Emitter /\ q.emit = x.emit
<1>1. PICK at \in Nat : at = Top.exit
  BY LoopTop
<1>2. PICK to \in Int : to = Here(x)
  BY EmitterIs
<1>3. PICK p : p = Patch(x, at, to)
  OBVIOUS
<1>4. p \in Emitter /\ p.emit = x.emit
  <2>1. x \in Emitter /\ p = Patch(x, at, to)
    BY <1>3
  <2> QED
    BY <2>1, PatchIs
<1>5. PICK late : late = Late(breaks, Top.prev)
  OBVIOUS
<1>6. late \in Seq(Nat)
  <2>1. breaks \in Seq(Nat) /\ Top.prev \in Nat
    BY AfterIs, ReadyIs, LoopTop
  <2>2. PICK n \in 0 .. Len(breaks) : n = Top.prev
    BY <2>1
  <2> QED
    BY <1>5, <2>1, <2>2, OtherOnes
<1>7. q = PatchAll(p, late)
  BY <1>1, <1>2, <1>3, <1>5 DEF Unwind, PatchBreaks, PatchToCurrent, Late
<1> QED
  BY <1>4, <1>6, <1>7, PatchAllTyped

LEMMA UnwindSound ==
  ASSUME IInv, NEW k \in {"while", "for"}, After(k), NEW n \in Nat, Top.prev = n,
         NEW x, Sound(x, Waiting(todo, breaks)), Continues(em, x),
         NEW q, q = Unwind(x), NEW early, early = Early(breaks, n)
  PROVE  Sound(q, Waiting(Front(todo), early)) /\ Continues(em, q)
<1>1. /\ IsLoop(Top) /\ (Top.live <=> em.emit) /\ Top.exit \in Nat
      /\ em.emit => IsBranch(em.code, Top.exit)
  BY LoopTop
<1>2. /\ em \in Emitter /\ em.code \in Seq(WordSet) /\ breaks \in Seq(Nat)
      /\ On(todo, Front(todo), Top) /\ Base(em.code, todo, breaks, inLoop)
  BY AfterIs, ReadyIs DEF Core
<1>3. PICK late : late = Late(breaks, n)
  OBVIOUS
<1>4. /\ late \in Seq(Nat)
      /\ Top.live => \A p \in ToSet(late) : IsBranch(em.code, p)
      /\ Waiting(todo, breaks) \subseteq
           Waiting(Front(todo), early) \cup (IF Top.live THEN ToSet(late) ELSE {})
  BY <1>1, <1>2, <1>3, LoopOff
<1>5. PICK at \in Nat : at = Top.exit
  BY <1>1
<1>6. /\ x \in Emitter /\ x.code \in Seq(WordSet) /\ Here(x) \in Nat /\ Here(x) + 1 \in Land(x.code)
      /\ x.emit = em.emit /\ Kept(em.code, x.code)
  BY SoundIs DEF Continues
<1>7. PICK to \in Int : to = Here(x)
  BY <1>6
<1>8. PICK p : p = Patch(x, at, to)
  OBVIOUS
<1>9. em.emit => IsBranch(x.code, at)
  BY <1>1, <1>2, <1>5, <1>6, KeptBranch
<1>10. Settles(x, at, to, Waiting(todo, breaks), Waiting(todo, breaks))
  BY <1>6, <1>7, <1>9 DEF Settles
<1>11. Sound(p, Waiting(todo, breaks)) /\ Continues(x, p)
  BY <1>8, <1>10, PatchSound
<1>12. p \in Emitter /\ p.code \in Seq(WordSet)
  BY <1>11, SoundIs
<1>13. Continues(em, p)
  BY <1>2, <1>6, <1>11, <1>12, ContinuesTrans
<1>14. p.emit = em.emit /\ Kept(em.code, p.code)
  BY <1>13 DEF Continues
<1>15. em.emit => \A b \in ToSet(late) : IsBranch(p.code, b)
  BY <1>1, <1>2, <1>4, <1>12, <1>14, KeptBranch
<1>16. AllSettle(p, late, Waiting(todo, breaks), Waiting(Front(todo), early))
  BY <1>1, <1>4, <1>14, <1>15 DEF AllSettle
<1>17. q = PatchAll(p, late)
  BY <1>3, <1>5, <1>7, <1>8 DEF Unwind, PatchBreaks, PatchToCurrent, Late
<1>18. Sound(q, Waiting(Front(todo), early)) /\ Continues(p, q)
  BY <1>4, <1>11, <1>16, <1>17, PatchAllSound
<1>19. q \in Emitter
  BY <1>18, SoundIs
<1> QED
  BY <1>2, <1>12, <1>13, <1>18, <1>19, ContinuesTrans

LEMMA FinishLoopOK ==
  ASSUME IInv, NEW k \in {"while", "for"}, After(k), NEW g, em' = g, g \in Emitter,
         NEW n \in Nat, Top.prev = n, NEW early, early = Early(breaks, n),
         orderly' => /\ Sound(g, Waiting(Front(todo), early)) /\ Kept(em.code, g.code) /\ ~g.dead
                     /\ g.emit <=> AllRun(Front(todo), Len(Front(todo))),
         todo' = Front(todo), wants' \in BOOLEAN, size' = size, orderly' \in BOOLEAN,
         LeaveLoop, UNCHANGED <<vm, turn>>
  PROVE  IInv'
<1>1. /\ Typed /\ StackOK(todo) /\ breaks \in Seq(Nat)
      /\ Core(em, todo, breaks, inLoop) /\ Base(em.code, todo, breaks, inLoop)
  BY ReadyIs, AfterIs DEF Core
<1>2. On(todo, Front(todo), Top) /\ Len(Front(todo)) > 0 /\ size \in 0 .. MaxSize
  BY AfterIs
<1>3. IsLoop(Top) /\ Top.was \in BOOLEAN
  BY LoopTop
<1>4. PICK r : r = Front(todo)
  OBVIOUS
<1>5. StackOK(r)
  BY <1>1, <1>2, <1>4, StackPopped
<1>6. early \in Seq(Nat)
  BY <1>1, <1>2, <1>3, LoopOff
<1>7. breaks' = early /\ inLoop' = Top.was
  BY DEF LeaveLoop, Early
<1>8. ASSUME orderly'
      PROVE  Core(g, r, early, Top.was)
  BY <1>1, <1>2, <1>3, <1>4, <1>8, LoopPopped
<1> QED
  BY <1>1, <1>2, <1>3, <1>4, <1>5, <1>6, <1>7, <1>8, StepOK

LEMMA EndWhileOK ==
  ASSUME IInv, EndWhile
  PROVE  IInv'
<1>1. After("while")
  BY DEF EndWhile
<1>2. /\ Top.k = "while" /\ Top.last \in BOOLEAN /\ Top.head \in Nat /\ Top.prev \in Nat
      /\ Top.last <=> AllRun(Front(todo), Len(Front(todo)))
      /\ Top.head + 1 \in Land(em.code)
  BY <1>1, LoopTop
<1>3. /\ em \in Emitter /\ em.code \in Seq(WordSet) /\ ~em.dead /\ orderly = TRUE
      /\ Sound(em, Waiting(todo, breaks))
  BY <1>1, AfterIs, ReadyIs
<1>4. PICK to \in Int : to = Top.head
  BY <1>2
<1>5. PICK x : x = EmitBranch(em, "BR", to)
  OBVIOUS
<1>6. Sound(x, Waiting(todo, breaks)) /\ Continues(em, x)
  <2>1. Leads(em.code, to, Waiting(todo, breaks))
    BY <1>2, <1>4 DEF Leads
  <2>2. "BR" \in Branches
    BY DEF Branches
  <2> QED
    BY <1>3, <1>5, <2>1, <2>2, BranchSound
<1>7. PICK q : q = Unwind(x)
  OBVIOUS
<1>8. PICK n \in Nat : n = Top.prev
  BY <1>2
<1>9. PICK early : early = Early(breaks, n)
  OBVIOUS
<1>10. Sound(q, Waiting(Front(todo), early)) /\ Continues(em, q)
  BY <1>1, <1>6, <1>7, <1>8, <1>9, UnwindSound
<1>11. PICK g : g = [q EXCEPT !.emit = Top.last]
  OBVIOUS
<1>12. /\ Sound(g, Waiting(Front(todo), early)) /\ g.code = q.code /\ g.emit = Top.last
       /\ g.dead = q.dead
  BY <1>2, <1>10, <1>11, SwitchedSound
<1>13. Kept(em.code, g.code) /\ ~g.dead /\ g \in Emitter
  BY <1>3, <1>10, <1>12, SoundIs DEF Continues
<1>14. /\ em' = g /\ todo' = Front(todo) /\ wants' = FALSE /\ LeaveLoop
       /\ UNCHANGED <<size, orderly, vm, turn>>
  BY <1>4, <1>5, <1>7, <1>11 DEF EndWhile, Unwind, Finish, Done, Still
<1> QED
  BY <1>1, <1>2, <1>3, <1>8, <1>9, <1>12, <1>13, <1>14, FinishLoopOK

LEMMA EndForOK ==
  ASSUME IInv, EndFor
  PROVE  IInv'
<1>1. After("for")
  BY DEF EndFor
<1>2. /\ Top.k = "for" /\ Top.last \in BOOLEAN /\ Top.n \in Nat /\ Top.head \in Nat
      /\ Top.prev \in Nat /\ Top.head + 1 \in Land(em.code)
      /\ em.emit <=> Top.last /\ Runs(Top)
      /\ Top.last <=> AllRun(Front(todo), Len(Front(todo)))
  BY <1>1, LoopTop
<1>3. Runs(Top)
  BY <1>2 DEF Runs
<1>4. /\ em \in Emitter /\ em.code \in Seq(WordSet) /\ ~em.dead
      /\ Sound(em, Waiting(todo, breaks)) /\ breaks \in Seq(Nat) /\ Here(em) \in Nat
      /\ On(todo, Front(todo), Top) /\ Base(em.code, todo, breaks, inLoop)
  BY <1>1, AfterIs, ReadyIs DEF Core
<1>5. Top.prev <= Len(breaks)
  <2>1. IsLoop(todo[Len(todo)]) /\ Len(todo) \in 1 .. Len(todo) /\ todo[Len(todo)] = Top
    BY <1>2, <1>4 DEF On, IsStack, IsLoop
  <2> QED
    BY <1>4, <2>1 DEF Base, LoopsOK, LoopOK
<1>6. PICK to \in Int : to = Top.head
  BY <1>2
<1>7. PICK n \in Nat : n = Top.n
  BY <1>2
<1>r. Reach \in Nat \ {0}
  BY CodegenAssumption DEF CodegenAssumption
<1>8. PICK x : x = EmitBranchAndInc(em, n, to)
  OBVIOUS
<1>9. /\ x \in Emitter /\ x.emit = em.emit /\ x.dead = em.dead
      /\ ~em.emit => x = em
      /\ em.emit /\ InReach(em, to) => Branched(em.code, x.code, "BRI", to)
  <2>1. em \in Emitter
    BY <1>4
  <2> QED
    BY <1>8, <2>1, BranchAndIncTyped
<1>10. PICK q : q = Unwind(x)
  OBVIOUS
<1>11. q \in Emitter /\ q.emit = x.emit
  BY <1>1, <1>5, <1>9, <1>10, UnwindTyped
<1>12. PICK w \in WordSet : w = ActWord(n, "put") /\ w.op \notin TwoWords \cup {"half"}
  BY ActIs
<1>13. PICK g : g = Emit(q, w)
  OBVIOUS
<1>14. g \in Emitter /\ g.emit = q.emit
  BY <1>11, <1>12, <1>13, EmitTyped
<1>15. PICK p \in Nat : p = Top.prev
  BY <1>2
<1>16. PICK early : early = Early(breaks, p)
  OBVIOUS
<1>17. ASSUME orderly'
       PROVE  Sound(g, Waiting(Front(todo), early)) /\ Kept(em.code, g.code) /\ ~g.dead
  <2>1. em.emit => InReach(em, to)
    <3>1. em.emit => Here(em) + BranchSize - to <= Reach
      BY <1>6, <1>17 DEF EndFor
    <3>2. to <= Here(em)
      BY <1>2, <1>4, <1>6 DEF Land, Here
    <3>3. em.emit => to - Here(em) - BranchSize \in -Reach .. Reach - 1
      BY <1>4, <1>r, <3>1, <3>2 DEF BranchSize
    <3>4. PICK by \in Int : by = to - Here(em) - BranchSize
      BY <1>4 DEF BranchSize
    <3>5. em.emit => Wrap(by) = by
      BY <1>r, <3>3, <3>4, WrapIs
    <3> QED
      BY <3>4, <3>5 DEF InReach
  <2>2. Sound(x, Waiting(todo, breaks)) /\ Continues(em, x)
    <3>1. CASE em.emit
      <4>1. Branched(em.code, x.code, "BRI", to)
        BY <1>9, <2>1, <3>1
      <4>2. Leads(em.code, to, Waiting(todo, breaks))
        BY <1>2, <1>6 DEF Leads
      <4>3. WellFormed(em.code) /\ Targets(em.code, Waiting(todo, breaks))
        BY <1>4, SoundIs
      <4>4. "BRI" \in TwoWords
        BY DEF TwoWords
      <4>5. WellFormed(x.code) /\ Targets(x.code, Waiting(todo, breaks)) /\ Kept(em.code, x.code)
        BY <1>4, <4>1, <4>2, <4>3, <4>4, AppendTwo
      <4> QED
        BY <1>9, <3>1, <4>5 DEF Sound, Continues
    <3>2. CASE ~em.emit
      BY <1>4, <1>9, <3>2, SoundIs
    <3> QED
      BY <3>1, <3>2
  <2>3. Sound(q, Waiting(Front(todo), early)) /\ Continues(em, q)
    BY <1>1, <1>10, <1>15, <1>16, <2>2, UnwindSound
  <2>4. Sound(g, Waiting(Front(todo), early)) /\ Continues(q, g)
    BY <1>12, <1>13, <2>3, EmitSound
  <2>5. Continues(em, g)
    BY <1>4, <1>11, <1>14, <2>3, <2>4, ContinuesTrans
  <2> QED
    BY <1>4, <2>4, <2>5 DEF Continues
<1>18. g.emit <=> AllRun(Front(todo), Len(Front(todo)))
  BY <1>2, <1>3, <1>9, <1>11, <1>14
<1>19. /\ em' = g /\ todo' = Front(todo) /\ wants' = FALSE /\ LeaveLoop
       /\ UNCHANGED <<size, vm, turn>>
  BY <1>6, <1>7, <1>8, <1>10, <1>12, <1>13 DEF EndFor, Unwind, Finish, Done, Still
<1>20. orderly' \in BOOLEAN
  <2>1. orderly' = (em.emit => Here(em) + BranchSize - Top.head <= Reach)
    BY DEF EndFor
  <2> QED
    BY <2>1
<1> QED
  BY <1>1, <1>14, <1>15, <1>16, <1>17, <1>18, <1>19, <1>20, FinishLoopOK

LEMMA UntilOK ==
  ASSUME IInv, NEW c \in Conditions, Until(c)
  PROVE  IInv'
<1>1. After("repeat")
  BY DEF Until
<1>2. /\ Top.k = "repeat" /\ FrameOK(Top) /\ Fits(Front(todo), Top) /\ Placed(em.code, Top)
      /\ em.emit <=> AllRun(Front(todo), Len(Front(todo))) /\ Runs(Top)
      /\ em.code \in Seq(WordSet) /\ size \in 0 .. MaxSize /\ orderly = TRUE /\ ~em.dead
  BY <1>1, AfterIs
<1>3. /\ Top.n \in Nat /\ Top.head \in Nat /\ Top.head + 1 \in Land(em.code) /\ ~IsLoop(Top)
      /\ Runs(Top) /\ Waits(Top) = {}
  BY <1>2 DEF FrameOK, Placed, IsLoop, Runs, Waits, IsCase, Loops
<1>4. Sound(em, Outside)
  <2>1. Outside \cup Waits(Top) = Outside
    BY <1>3
  <2> QED
    BY <1>1, <1>3, <2>1, InsideIs
<1>5. PICK n \in Nat : n = Top.n
  BY <1>3
<1>6. PICK x : x = Expr(em, c, n)
  OBVIOUS
<1>7. Sound(x, Outside) /\ Kept(em.code, x.code) /\ x.emit = em.emit /\ x.dead = em.dead
  BY <1>4, <1>6, CostIs, ExprSound
<1>8. PICK e : e = BranchUnless(x, c, n)
  OBVIOUS
<1>9. /\ Sound(e, Outside) /\ Continues(x, e) /\ BranchAt(e) \in Nat
      /\ x.emit => IsBranch(e.code, BranchAt(e))
  BY <1>7, <1>8, CostIs, ConditionSound
<1>10. PICK to \in Int : to = Top.head
  BY <1>3
<1>11. PICK at \in Nat : at = BranchAt(e)
  BY <1>9
<1>12. PICK g : g = Patch(e, at, to)
  OBVIOUS
<1>13. x.code \in Seq(WordSet) /\ e.code \in Seq(WordSet)
  BY <1>7, <1>9, SoundIs
<1>14. Kept(em.code, e.code) /\ e.emit = em.emit /\ e.dead = em.dead
  BY <1>2, <1>7, <1>9, <1>13, KeptTrans DEF Continues
<1>15. Settles(e, at, to, Outside, Outside)
  BY <1>3, <1>7, <1>9, <1>10, <1>11, <1>14 DEF Settles, Kept
<1>16. Sound(g, Outside) /\ Continues(e, g)
  BY <1>9, <1>12, <1>15, PatchSound
<1>17. g.code \in Seq(WordSet) /\ g.emit = em.emit /\ ~g.dead /\ Kept(e.code, g.code)
  BY <1>2, <1>14, <1>16, SoundIs DEF Continues
<1>18. Kept(em.code, g.code)
  BY <1>2, <1>13, <1>14, <1>17, KeptTrans
<1>19. /\ em' = g /\ todo' = Front(todo) /\ wants' = FALSE /\ orderly' = ShortCircuits(c)
       /\ size' = size + Cost[c] /\ size + Cost[c] <= MaxSize
       /\ UNCHANGED <<breaks, inLoop, vm, turn>>
  BY <1>5, <1>6, <1>8, <1>10, <1>11, <1>12 DEF Until, Finish, Done, Still
<1>20. orderly' \in BOOLEAN
  BY <1>19 DEF ShortCircuits
<1>21. size' \in 0 .. MaxSize
  <2>1. Cost[c] \in Nat /\ MaxSize \in Nat
    BY CostIs, CodegenAssumption DEF CodegenAssumption
  <2> QED
    BY <1>2, <1>19, <2>1
<1>22. g.emit <=> AllRun(Front(todo), Len(Front(todo)))
  BY <1>2, <1>3, <1>17
<1> QED
  BY <1>1, <1>2, <1>3, <1>16, <1>17, <1>18, <1>19, <1>20, <1>21, <1>22, FinishOK DEF Outside

\* What is known of a CASE; k says where in it.
LEMMA CaseTop ==
  ASSUME IInv, NEW k \in {"case", "arm", "otherwise"}, After(k)
  PROVE  /\ Top.k = k /\ IsCase(Top) /\ ~IsLoop(Top) /\ Top.n \in Nat
         /\ Top.const \in BOOLEAN /\ Top.last \in BOOLEAN /\ Top.emitted \in BOOLEAN
         /\ Top.outs \in Seq(Nat) /\ IsStack(Top.arms)
         /\ {"k", "emitted", "outs", "arms", "list"} \subseteq DOMAIN Top
         /\ k = "arm" => "body" \in DOMAIN Last(Top.arms)
         /\ Top.last <=> AllRun(Front(todo), Len(Front(todo)))
         /\ em.emit <=> Top.last /\ Runs(Top)
         /\ ~Top.const /\ Top.last => \A p \in ToSet(Top.outs) : IsBranch(em.code, p)
         /\ k = "arm" => /\ Len(Top.arms) > 0 /\ Last(Top.arms).next \in Nat
                         /\ ~Top.const /\ Top.last => IsBranch(em.code, Last(Top.arms).next)
<1>1. /\ Top.k = k /\ FrameOK(Top) /\ Fits(Front(todo), Top) /\ Placed(em.code, Top)
      /\ em.emit <=> AllRun(Front(todo), Len(Front(todo))) /\ Runs(Top)
  BY AfterIs
<1>2. IsCase(Top) /\ ~IsLoop(Top) /\ Top.k \in Restores /\ Top.k # "begin"
  BY <1>1 DEF IsCase, IsLoop, Restores
<1>3. /\ Top.n \in Nat /\ Top.const \in BOOLEAN /\ Top.last \in BOOLEAN /\ Top.emitted \in BOOLEAN
      /\ Top.outs \in Seq(Nat) /\ IsStack(Top.arms)
      /\ {"k", "emitted", "outs", "arms", "list"} \subseteq DOMAIN Top
      /\ k = "arm" => /\ Len(Top.arms) > 0 /\ Last(Top.arms).next \in Nat
                      /\ "body" \in DOMAIN Last(Top.arms)
  BY <1>1, <1>2 DEF FrameOK
<1>4. Top.last <=> AllRun(Front(todo), Len(Front(todo)))
  BY <1>1, <1>2 DEF Fits
<1>5. ~Top.const /\ Top.last => \A p \in ToSet(Top.outs) : IsBranch(em.code, p)
  <2>1. \A p \in ToSet(Top.outs) : p \in Nat
    BY <1>3, InToSet
  <2>2. ~Top.const /\ Top.last => \A p \in ToSet(Top.outs) : p \in Sites(Top)
    BY <1>2, <2>1 DEF Sites
  <2> QED
    BY <1>1, <2>2 DEF Placed
<1>6. k = "arm" /\ ~Top.const /\ Top.last => IsBranch(em.code, Last(Top.arms).next)
  <2>1. k = "arm" /\ ~Top.const /\ Top.last => Last(Top.arms).next \in Sites(Top)
    BY <1>1, <1>3 DEF Sites
  <2> QED
    BY <1>1, <2>1 DEF Placed
<1> QED
  BY <1>1, <1>2, <1>3, <1>4, <1>5, <1>6

LEMMA ArmTestIs ==
  ASSUME IInv, After("case"), NEW A, Sound(em, A), NEW t, t = ArmTest
  PROVE  /\ Sound(t, A) /\ Kept(em.code, t.code) /\ BranchAt(t) \in Nat /\ t.dead = em.dead
         /\ t.emit \in BOOLEAN
         /\ t.emit <=> em.emit /\ ~Top.const
         /\ t.emit => IsBranch(t.code, BranchAt(t))
<1>1. Top.n \in Nat /\ Top.const \in BOOLEAN /\ IsStack(Top.arms)
  BY CaseTop
<1>2. PICK n \in Nat : n = Top.n
  BY <1>1
<1>3. PICK side \in Nat : side = ArmSide
  BY <1>1 DEF ArmSide, IsStack
<1>4. PICK w \in WordSet : w = [op |-> "set", n |-> n, side |-> side, neg |-> FALSE]
  BY DEF WordSet
<1>5. w.op \notin TwoWords \cup {"half"}
  BY <1>4 DEF TwoWords, Branches
<1>6. PICK b \in BOOLEAN : b = (em.emit /\ ~Top.const)
  OBVIOUS
<1>7. PICK e : e = [em EXCEPT !.emit = b]
  OBVIOUS
<1>8. /\ Sound(e, A) /\ e.code = em.code /\ e.emit = b /\ e.dead = em.dead
      /\ Here(e) = Here(em) /\ Here(em) \in Nat /\ e \in Emitter
  BY <1>7, SwitchedSound, SoundIs
<1>9. PICK x : x = Emit(e, w)
  OBVIOUS
<1>10. Sound(x, A) /\ Continues(e, x) /\ (e.emit => x.code = Append(e.code, w))
  BY <1>4, <1>5, <1>8, <1>9, EmitSound, EmitTyped
<1>11. PICK to \in Int : to = Here(em) + 1 + BranchSize
  BY <1>8 DEF BranchSize
<1>12. x.emit => Leads(x.code, to, A)
  <2>1. e.emit => Len(x.code) = Len(e.code) + 1
    <3>1. e.code \in Seq(WordSet)
      BY <1>8, SoundIs
    <3> QED
      BY <1>10, <3>1
  <2>2. e.emit => to + 1 = Len(x.code) + 3
    BY <1>8, <1>11, <2>1 DEF Here, BranchSize
  <2>3. x.emit = e.emit
    BY <1>10 DEF Continues
  <2> QED
    BY <2>2, <2>3 DEF Leads
<1>13. t = EmitBranch(x, "BCF", to)
  <2>1. e = [em EXCEPT !.emit = em.emit /\ ~Top.const]
    BY <1>6, <1>7
  <2> QED
    BY <1>2, <1>3, <1>4, <1>9, <1>11, <2>1 DEF ArmTest, Test
<1>14. "BCF" \in Branches
  BY DEF Branches
<1>15. /\ Sound(t, A) /\ Continues(x, t) /\ BranchAt(t) = Here(x)
       /\ x.emit => IsBranch(t.code, Here(x))
  <2>1. Sound(x, A) /\ A \subseteq A
    BY <1>10
  <2> QED
    BY <1>12, <1>13, <1>14, <2>1, BranchSound
<1>16. x \in Emitter /\ t \in Emitter /\ Here(x) \in Nat
  BY <1>10, <1>15, SoundIs
<1>17. Continues(e, t)
  BY <1>8, <1>10, <1>15, <1>16, ContinuesTrans
<1>18. t.emit = b /\ t.dead = em.dead /\ Kept(em.code, t.code) /\ x.emit = b
  BY <1>8, <1>10, <1>17 DEF Continues
<1> QED
  BY <1>6, <1>15, <1>16, <1>18

LEMMA ArmOK ==
  ASSUME IInv, NEW equal \in BOOLEAN, Arm(equal)
  PROVE  IInv'
<1>1. After("case")
  BY DEF Arm
<1>2. /\ Top.k = "case" /\ IsCase(Top) /\ ~IsLoop(Top) /\ Top.n \in Nat
      /\ Top.const \in BOOLEAN /\ Top.last \in BOOLEAN /\ Top.emitted \in BOOLEAN
      /\ Top.outs \in Seq(Nat) /\ IsStack(Top.arms)
      /\ {"k", "emitted", "outs", "arms", "list"} \subseteq DOMAIN Top
      /\ Top.last <=> AllRun(Front(todo), Len(Front(todo)))
      /\ em.emit <=> Top.last /\ Runs(Top)
      /\ ~Top.const /\ Top.last => \A p \in ToSet(Top.outs) : IsBranch(em.code, p)
  BY <1>1, CaseTop
<1>3. /\ em \in Emitter /\ em.code \in Seq(WordSet) /\ ~em.dead /\ em.emit \in BOOLEAN
  BY <1>1, AfterIs, EmitterIs
<1>4. PICK A : A = Outside \cup Waits(Top) /\ Sound(em, A)
  BY <1>1, <1>2, InsideIs
<1>5. PICK t : t = ArmTest
  OBVIOUS
<1>6. /\ Sound(t, A) /\ Kept(em.code, t.code) /\ BranchAt(t) \in Nat /\ t.dead = em.dead
      /\ t.emit \in BOOLEAN
      /\ t.emit <=> em.emit /\ ~Top.const
      /\ t.emit => IsBranch(t.code, BranchAt(t))
  <2>1. Sound(em, A)
    BY <1>4
  <2> QED
    BY <1>1, <1>5, <2>1, ArmTestIs
<1>7. PICK b \in BOOLEAN : b = IF Top.const THEN equal ELSE t.emit
  <2>1. CASE Top.const
    BY <2>1
  <2>2. CASE ~Top.const
    BY <1>6, <2>2
  <2> QED
    BY <2>1, <2>2
<1>8. PICK g : g = [t EXCEPT !.emit = b]
  OBVIOUS
<1>9. Sound(g, A) /\ g.code = t.code /\ g.emit = b /\ g.dead = t.dead /\ g \in Emitter
  BY <1>6, <1>8, SwitchedSound, SoundIs
<1>10. PICK next \in Nat : next = BranchAt(t)
  BY <1>6
<1>11. PICK c : c = IF Top.const THEN [k |-> "lit", val |-> equal]
                    ELSE [k |-> "cmp", swapped |-> FALSE, not |-> FALSE]
  OBVIOUS
<1>12. PICK arm : arm = [c |-> c, side |-> ArmSide, next |-> next, body |-> << >>]
  OBVIOUS
<1>13. PICK arms : arms = Append(Top.arms, arm)
  OBVIOUS
<1>14. IsStack(arms) /\ Len(arms) > 0 /\ Last(arms) = arm
  <2>1. On(arms, Top.arms, arm)
    BY <1>2, <1>13, Pushed
  <2> QED
    BY <2>1 DEF On, IsStack, Last
<1>15. PICK emitted \in BOOLEAN : emitted = (Top.emitted \/ (Top.const /\ equal))
  OBVIOUS
<1>16. PICK h : h = [Top EXCEPT !.k = "arm", !.emitted = emitted, !.arms = arms]
  OBVIOUS
<1>17. /\ h.k = "arm" /\ h.n = Top.n /\ h.const = Top.const /\ h.last = Top.last
       /\ h.emitted = emitted /\ h.outs = Top.outs /\ h.arms = arms /\ DOMAIN h = DOMAIN Top
  BY <1>2, <1>16
<1>18. /\ Last(arms).next = next /\ (Top.const => (Literal(Last(arms).c, TRUE) <=> equal))
       /\ "body" \in DOMAIN Last(arms)
  BY <1>11, <1>12, <1>14 DEF Literal
<1>19. FrameOK(h)
  BY <1>2, <1>14, <1>17, <1>18 DEF FrameOK, IsLoop, IsCase, Loops, Restores
<1>20. ~IsLoop(h) /\ Fits(Front(todo), h)
  BY <1>2, <1>17 DEF IsLoop, Fits, Restores, Loops
<1>21. Runs(h) <=> (Top.const => equal)
  BY <1>17, <1>18 DEF Runs
<1>22. Runs(Top)
  BY <1>2 DEF Runs
<1>23. Waits(h) = Waits(Top)
  BY <1>2, <1>17 DEF Waits, IsCase
<1>24. Placed(g.code, h)
  <2>1. \A p \in Sites(h) : ~Top.const /\ Top.last /\ (p \in ToSet(Top.outs) \/ p = next)
    BY <1>17, <1>18 DEF Sites, IsLoop
  <2>2. ~Top.const /\ Top.last => IsBranch(t.code, next)
    BY <1>2, <1>6, <1>10, <1>22
  <2>3. t.code \in Seq(WordSet)
    BY <1>6, SoundIs
  <2>4. ~Top.const /\ Top.last => \A p \in ToSet(Top.outs) : IsBranch(t.code, p)
    BY <1>2, <1>3, <1>6, <2>3, KeptBranch
  <2> QED
    BY <1>9, <1>17, <2>1, <2>2, <2>4 DEF Placed, Loops
<1>25. ASSUME orderly'
       PROVE  g.emit <=> AllRun(Front(todo), Len(Front(todo))) /\ Runs(h)
  <2>1. Top.const /\ equal => Top.last
    BY <1>25 DEF Arm
  <2> QED
    BY <1>2, <1>6, <1>7, <1>9, <1>21, <1>22, <2>1
<1>26. Sound(g, Outside \cup Waits(h)) /\ Kept(em.code, g.code) /\ ~g.dead
  <2>1. A = Outside \cup Waits(h)
    BY <1>4, <1>23
  <2> QED
    BY <1>3, <1>6, <1>9, <2>1
<1>27. em' = g
  <2>1. em' = [t EXCEPT !.emit = IF Top.const THEN equal ELSE t.emit]
    BY <1>5 DEF Arm
  <2> QED
    BY <1>7, <1>8, <2>1
<1>28. Become(h)
  <2>1. arms = Append(Top.arms, [c |-> c, side |-> ArmSide, next |-> BranchAt(t), body |-> << >>])
    BY <1>10, <1>12, <1>13
  <2>2. h = [Top EXCEPT !.k = "arm", !.emitted = Top.emitted \/ (Top.const /\ equal),
                        !.arms = arms]
    BY <1>15, <1>16
  <2> QED
    BY <1>5, <1>11, <2>1, <2>2 DEF Arm
<1>29. wants' = TRUE /\ UNCHANGED <<breaks, inLoop, size, vm, turn>>
  BY DEF Arm, Still
<1>30. orderly' \in BOOLEAN
  <2>1. orderly' = (Top.const /\ equal => Top.last /\ ~Top.emitted)
    BY DEF Arm
  <2> QED
    BY <2>1
<1> QED
  BY <1>1, <1>2, <1>9, <1>19, <1>20, <1>24, <1>25, <1>26, <1>27, <1>28, <1>29, <1>30, ChangeOK
     DEF Outside

LEMMA Updated ==
  ASSUME NEW s, IsStack(s), Len(s) > 0, NEW v, NEW t, t = [s EXCEPT ![Len(s)] = v]
  PROVE  IsStack(t)
<1>1. PICK n \in Nat : n = Len(s) /\ DOMAIN s = 1 .. n
  BY DEF IsStack
<1>2. PICK S : S = {s[i] : i \in 1 .. n} \cup {v}
  OBVIOUS
<1>3. t = [i \in 1 .. n |-> IF i = n THEN v ELSE s[i]]
  BY <1>1
<1>4. t \in Seq(S)
  <2>1. n \in Nat /\ \A i \in 1 .. n : (IF i = n THEN v ELSE s[i]) \in S
    BY <1>1, <1>2 DEF IsStack
  <2>2. [i \in 1 .. n |-> IF i = n THEN v ELSE s[i]] \in Seq(S)
    BY <2>1
  <2> QED
    BY <1>3, <2>2
<1> QED
  BY <1>4 DEF IsStack

LEMMA EndArmOK ==
  ASSUME IInv, EndArm
  PROVE  IInv'
<1>1. After("arm")
  BY DEF EndArm
<1>2. /\ Top.k = "arm" /\ IsCase(Top) /\ ~IsLoop(Top) /\ Top.n \in Nat
      /\ Top.const \in BOOLEAN /\ Top.last \in BOOLEAN /\ Top.emitted \in BOOLEAN
      /\ Top.outs \in Seq(Nat) /\ IsStack(Top.arms)
      /\ {"k", "emitted", "outs", "arms", "list"} \subseteq DOMAIN Top
      /\ Top.last <=> AllRun(Front(todo), Len(Front(todo)))
      /\ em.emit <=> Top.last /\ Runs(Top)
      /\ ~Top.const /\ Top.last => \A p \in ToSet(Top.outs) : IsBranch(em.code, p)
      /\ Len(Top.arms) > 0 /\ Last(Top.arms).next \in Nat
      /\ ~Top.const /\ Top.last => IsBranch(em.code, Last(Top.arms).next)
  BY <1>1, CaseTop
<1>3. /\ em \in Emitter /\ em.code \in Seq(WordSet) /\ ~em.dead /\ em.emit \in BOOLEAN
      /\ orderly = TRUE
  BY <1>1, AfterIs, EmitterIs
<1>4. PICK A : A = Outside \cup Waits(Top) /\ Sound(em, A)
  BY <1>1, <1>2, InsideIs
<1>5. PICK b \in BOOLEAN : b = (em.emit /\ ~Top.const)
  OBVIOUS
<1>6. PICK e : e = [em EXCEPT !.emit = b]
  OBVIOUS
<1>7. /\ Sound(e, A) /\ e.code = em.code /\ e.emit = b /\ e.dead = em.dead
      /\ Here(e) = Here(em) /\ Here(em) \in Nat
  BY <1>4, <1>6, SwitchedSound, SoundIs
<1>8. b <=> ~Top.const /\ Top.last
  <2>1. ~Top.const => Runs(Top)
    BY <1>2 DEF Runs
  <2> QED
    BY <1>2, <1>5, <2>1
<1>9. PICK out : out = EmitBranch(e, "BR", 0)
  OBVIOUS
<1>10. PICK at \in Nat : at = Here(em)
  BY <1>7
<1>11. PICK outs : outs = Append(Top.outs, at)
  OBVIOUS
<1>12. PICK arm : arm = [Top.arms[Len(Top.arms)] EXCEPT !.body = made]
  OBVIOUS
<1>13. PICK arms : arms = [Top.arms EXCEPT ![Len(Top.arms)] = arm]
  OBVIOUS
<1>14. PICK h : h = [Top EXCEPT !.k = "case", !.outs = outs, !.arms = arms]
  OBVIOUS
<1>15. /\ h.k = "case" /\ h.n = Top.n /\ h.const = Top.const /\ h.last = Top.last
       /\ h.emitted = Top.emitted /\ h.outs = outs /\ h.arms = arms /\ DOMAIN h = DOMAIN Top
  BY <1>2, <1>14
<1>16. outs \in Seq(Nat) /\ IsStack(arms)
  <2>1. outs \in Seq(Nat)
    BY <1>2, <1>10, <1>11
  <2>2. IsStack(Top.arms) /\ Len(Top.arms) > 0
    BY <1>2
  <2> QED
    BY <1>13, <2>1, <2>2, Updated
<1>17. \A p : p \in ToSet(outs) <=> p \in ToSet(Top.outs) \/ p = at
  <2>1. \A p : p \in ToSet(outs) <=> \E i \in 1 .. Len(outs) : p = outs[i]
    BY <1>16, InToSet
  <2>2. \A p : p \in ToSet(Top.outs) <=> \E i \in 1 .. Len(Top.outs) : p = Top.outs[i]
    BY <1>2, InToSet
  <2>3. /\ Len(outs) = Len(Top.outs) + 1 /\ Len(Top.outs) \in Nat /\ outs[Len(outs)] = at
        /\ \A i \in 1 .. Len(Top.outs) : outs[i] = Top.outs[i]
    BY <1>2, <1>11
  <2>4. \A p : (\E i \in 1 .. Len(outs) : p = outs[i])
                 <=> (\E i \in 1 .. Len(Top.outs) : p = Top.outs[i]) \/ p = at
    BY <2>3
  <2> QED
    BY <2>1, <2>2, <2>4
<1>18. FrameOK(h)
  BY <1>2, <1>15, <1>16 DEF FrameOK, IsLoop, IsCase, Loops, Restores
<1>19. ~IsLoop(h) /\ Fits(Front(todo), h) /\ Runs(h)
  BY <1>2, <1>15 DEF IsLoop, Fits, Runs, Restores, Loops
<1>20. PICK B : B = Outside \cup Waits(h)
  OBVIOUS
<1>21. A \subseteq B /\ (b => at \in B)
  <2>1. \A p \in Nat : p \in Waits(h) <=> ~Top.const /\ Top.last /\ p \in ToSet(outs)
    BY <1>15 DEF Waits, IsCase
  <2>2. \A p \in Waits(Top) : p \in Nat /\ ~Top.const /\ Top.last /\ p \in ToSet(Top.outs)
    BY <1>2 DEF Waits, IsCase
  <2>3. Waits(Top) \subseteq Waits(h)
    BY <1>17, <2>1, <2>2
  <2>4. b => at \in Waits(h)
    BY <1>8, <1>17, <2>1
  <2> QED
    BY <1>4, <1>20, <2>3, <2>4
<1>22. /\ Sound(out, B) /\ Continues(e, out) /\ BranchAt(out) = Here(e)
       /\ e.emit => IsBranch(out.code, Here(e))
  <2>1. e.emit => Leads(e.code, 0, B)
    BY <1>7, <1>10, <1>21 DEF Leads, Here
  <2>2. "BR" \in Branches /\ 0 \in Int
    BY DEF Branches
  <2>3. A \subseteq B /\ Sound(e, A)
    BY <1>7, <1>21
  <2> QED
    BY <1>9, <2>1, <2>2, <2>3, BranchSound
<1>23. /\ out.code \in Seq(WordSet) /\ Here(out) \in Nat /\ Here(out) + 1 \in Land(out.code)
       /\ out.emit = b /\ out.dead = em.dead /\ Kept(em.code, out.code)
  BY <1>7, <1>22, SoundIs DEF Continues
<1>24. PICK next \in Nat : next = Last(Top.arms).next
  BY <1>2
<1>25. PICK to \in Int : to = Here(out)
  BY <1>23
<1>26. PICK q : q = Patch(out, next, to)
  OBVIOUS
<1>27. Sound(q, B) /\ Continues(out, q)
  <2>1. out.emit => IsBranch(out.code, next)
    BY <1>2, <1>3, <1>8, <1>23, <1>24, KeptBranch
  <2>2. Settles(out, next, to, B, B)
    BY <1>23, <1>25, <2>1 DEF Settles
  <2> QED
    BY <1>22, <1>26, <2>2, PatchSound
<1>28. PICK g : g = [q EXCEPT !.emit = Top.last]
  OBVIOUS
<1>29. Sound(g, B) /\ g.code = q.code /\ g.emit = Top.last /\ g.dead = q.dead
  BY <1>2, <1>27, <1>28, SwitchedSound
<1>30. g \in Emitter /\ g.code \in Seq(WordSet) /\ ~g.dead /\ Kept(out.code, g.code)
  BY <1>3, <1>23, <1>27, <1>29, SoundIs DEF Continues
<1>31. Kept(em.code, g.code)
  BY <1>3, <1>23, <1>30, KeptTrans
<1>32. Placed(g.code, h)
  <2>1. \A p \in Sites(h) : ~Top.const /\ Top.last /\ (p \in ToSet(Top.outs) \/ p = at)
    BY <1>15, <1>17 DEF Sites, IsLoop
  <2>2. ~Top.const /\ Top.last => IsBranch(out.code, at)
    BY <1>7, <1>8, <1>10, <1>22
  <2>3. ~Top.const /\ Top.last => IsBranch(g.code, at)
    BY <1>23, <1>30, <2>2, KeptBranch
  <2>4. ~Top.const /\ Top.last => \A p \in ToSet(Top.outs) : IsBranch(g.code, p)
    BY <1>2, <1>3, <1>30, <1>31, KeptBranch
  <2> QED
    BY <1>15, <2>1, <2>3, <2>4 DEF Placed, Loops
<1>33. g.emit <=> AllRun(Front(todo), Len(Front(todo))) /\ Runs(h)
  BY <1>2, <1>19, <1>29
<1>34. em' = g
  <2>1. e = [em EXCEPT !.emit = em.emit /\ ~Top.const]
    BY <1>5, <1>6
  <2> QED
    BY <1>9, <1>24, <1>25, <1>26, <1>28, <2>1 DEF EndArm, PatchToCurrent
<1>35. Become(h)
  <2>1. e = [em EXCEPT !.emit = em.emit /\ ~Top.const]
    BY <1>5, <1>6
  <2>2. at = BranchAt(out)
    BY <1>7, <1>10, <1>22
  <2> QED
    BY <1>9, <1>11, <1>12, <1>13, <1>14, <2>1, <2>2 DEF EndArm
<1>36. wants' = FALSE /\ UNCHANGED <<breaks, inLoop, size, orderly, vm, turn>>
  BY DEF EndArm, Done, Still
<1> QED
  BY <1>1, <1>2, <1>3, <1>18, <1>19, <1>20, <1>29, <1>30, <1>31, <1>32, <1>33, <1>34, <1>35, <1>36,
     ChangeOK DEF Outside

LEMMA CaseElseOK ==
  ASSUME IInv, CaseElse
  PROVE  IInv'
<1>1. After("case")
  BY DEF CaseElse
<1>2. /\ Top.k = "case" /\ IsCase(Top) /\ ~IsLoop(Top) /\ Top.n \in Nat
      /\ Top.const \in BOOLEAN /\ Top.last \in BOOLEAN /\ Top.emitted \in BOOLEAN
      /\ Top.outs \in Seq(Nat) /\ IsStack(Top.arms)
      /\ {"k", "emitted", "outs", "arms", "list"} \subseteq DOMAIN Top
      /\ Top.last <=> AllRun(Front(todo), Len(Front(todo)))
      /\ em.emit <=> Top.last /\ Runs(Top)
      /\ ~Top.const /\ Top.last => \A p \in ToSet(Top.outs) : IsBranch(em.code, p)
  BY <1>1, CaseTop
<1>3. /\ em.code \in Seq(WordSet) /\ ~em.dead /\ em.emit \in BOOLEAN /\ orderly = TRUE
  BY <1>1, AfterIs, EmitterIs
<1>4. PICK A : A = Outside \cup Waits(Top) /\ Sound(em, A)
  BY <1>1, <1>2, InsideIs
<1>5. PICK b \in BOOLEAN : b = (em.emit /\ ~(Top.const /\ Top.emitted))
  OBVIOUS
<1>6. PICK g : g = [em EXCEPT !.emit = b]
  OBVIOUS
<1>7. Sound(g, A) /\ g.code = em.code /\ g.emit = b /\ g.dead = em.dead /\ g \in Emitter
  BY <1>4, <1>6, SwitchedSound, SoundIs
<1>8. PICK h : h = [Top EXCEPT !.k = "otherwise"]
  OBVIOUS
<1>9. /\ h.k = "otherwise" /\ h.n = Top.n /\ h.const = Top.const /\ h.last = Top.last
      /\ h.emitted = Top.emitted /\ h.outs = Top.outs /\ h.arms = Top.arms /\ DOMAIN h = DOMAIN Top
  BY <1>2, <1>8
<1>10. FrameOK(h)
  BY <1>2, <1>9 DEF FrameOK, IsLoop, IsCase, Loops, Restores
<1>11. ~IsLoop(h) /\ Fits(Front(todo), h) /\ (Runs(h) <=> ~(Top.const /\ Top.emitted)) /\ Runs(Top)
  BY <1>2, <1>9 DEF IsLoop, Fits, Runs, Restores, Loops
<1>12. Waits(h) = Waits(Top)
  BY <1>2, <1>9 DEF Waits, IsCase
<1>13. Sound(g, Outside \cup Waits(h))
  <2>1. A = Outside \cup Waits(h)
    BY <1>4, <1>12
  <2> QED
    BY <1>7, <2>1
<1>14. Placed(g.code, h)
  <2>1. \A p \in Sites(h) : ~Top.const /\ Top.last /\ p \in ToSet(Top.outs)
    BY <1>9 DEF Sites, IsLoop
  <2> QED
    BY <1>2, <1>7, <1>9, <2>1 DEF Placed, Loops
<1>15. Kept(em.code, g.code) /\ ~g.dead
  BY <1>3, <1>7, KeptRefl
<1>16. g.emit <=> AllRun(Front(todo), Len(Front(todo))) /\ Runs(h)
  BY <1>2, <1>5, <1>7, <1>11
<1>17. em' = g
  <2>1. g = [em EXCEPT !.emit = em.emit /\ ~(Top.const /\ Top.emitted)]
    BY <1>5, <1>6
  <2> QED
    BY <2>1 DEF CaseElse
<1>18. Become(h) /\ wants' = TRUE /\ UNCHANGED <<breaks, inLoop, size, orderly, vm, turn>>
  BY <1>8 DEF CaseElse, Still
<1> QED
  BY <1>1, <1>2, <1>3, <1>7, <1>10, <1>11, <1>13, <1>14, <1>15, <1>16, <1>17, <1>18,
     ChangeOK DEF Outside

LEMMA EndCaseOK ==
  ASSUME IInv, EndCase
  PROVE  IInv'
<1>1. PICK k \in {"case", "otherwise"} : After(k)
  BY DEF EndCase
<1>2. /\ Top.k = k /\ ~IsLoop(Top) /\ Top.const \in BOOLEAN /\ Top.last \in BOOLEAN
      /\ Top.outs \in Seq(Nat)
      /\ Top.last <=> AllRun(Front(todo), Len(Front(todo)))
      /\ em.emit <=> Top.last /\ Runs(Top)
      /\ ~Top.const /\ Top.last => \A p \in ToSet(Top.outs) : IsBranch(em.code, p)
  BY <1>1, CaseTop
<1>3. /\ em \in Emitter /\ em.code \in Seq(WordSet) /\ ~em.dead
      /\ size \in 0 .. MaxSize /\ orderly = TRUE
  BY <1>1, AfterIs
<1>4. PICK A : A = Outside \cup Waits(Top) /\ Sound(em, A)
  BY <1>1, <1>2, InsideIs
<1>5. PICK e : e = IF Top.const THEN em ELSE PatchAll(em, Top.outs)
  OBVIOUS
<1>6. Sound(e, Outside) /\ Continues(em, e)
  <2>1. CASE Top.const
    <3>1. A \subseteq Outside
      BY <1>1, <1>2, <1>4, <2>1 DEF Waits
    <3> QED
      BY <1>4, <1>5, <2>1, <3>1, SoundMore, SoundIs
  <2>2. CASE ~Top.const
    <3>1. PICK outs \in Seq(Nat) : outs = Top.outs
      BY <1>2
    <3>2. em.emit <=> Top.last
      BY <1>1, <1>2, <2>2 DEF Runs
    <3>3. \A p \in Waits(Top) : Top.last /\ p \in ToSet(outs)
      BY <1>1, <1>2, <3>1 DEF Waits
    <3>4. AllSettle(em, outs, A, Outside)
      BY <1>2, <1>4, <2>2, <3>1, <3>2, <3>3 DEF AllSettle
    <3>5. e = PatchAll(em, outs) /\ Sound(em, A)
      BY <1>4, <1>5, <2>2, <3>1
    <3> QED
      BY <3>4, <3>5, PatchAllSound
  <2> QED
    BY <2>1, <2>2
<1>7. PICK g : g = [e EXCEPT !.emit = Top.last]
  OBVIOUS
<1>8. Sound(g, Outside) /\ g.code = e.code /\ g.emit = Top.last /\ g.dead = e.dead
  BY <1>2, <1>6, <1>7, SwitchedSound
<1>9. Kept(em.code, g.code) /\ ~g.dead
  BY <1>3, <1>6, <1>8 DEF Continues
<1>10. em' = g /\ todo' = Front(todo) /\ wants' = FALSE
       /\ UNCHANGED <<breaks, inLoop, size, orderly, vm, turn>>
  BY <1>5, <1>7 DEF EndCase, Finish, Done, Still
<1> QED
  BY <1>1, <1>2, <1>3, <1>8, <1>9, <1>10, FinishOK DEF Outside

\* Behind the last EXIT there is nothing, and nothing leads there.
LEMMA ExitFinishes ==
  ASSUME NEW c \in Seq(WordSet), WellFormed(c), Targets(c, {}),
         NEW w \in WordSet, w.op = "EXIT", NEW d, d = Append(c, w)
  PROVE  Finished(d) /\ 4 \in Land(d) \ {Len(d) + 1}
<1>1. /\ Len(d) = Len(c) + 1 /\ Len(c) \in Nat /\ Len(c) >= 3 /\ d[Len(c) + 1] = w
      /\ \A i \in 1 .. Len(c) : d[i] = c[i]
  BY DEF WellFormed
<1>2. \A i \in Land(c) : i \in Land(d) \ {Len(d) + 1}
  BY <1>1 DEF Land
<1>3. 4 \in Land(c)
  BY DEF WellFormed
<1>4. ASSUME NEW i \in 4 .. Len(d)
      PROVE  /\ d[i].op \in TwoWords => i + 2 \in Land(d) \ {Len(d) + 1}
                                        /\ i + 2 + d[i].by \in Land(d) \ {Len(d) + 1}
             /\ d[i].op \notin TwoWords \cup {"half", "EXIT"} => i + 1 \in Land(d) \ {Len(d) + 1}
  <2>1. CASE i = Len(c) + 1
    <3>1. d[i].op = "EXIT"
      BY <1>1, <2>1
    <3> QED
      BY <3>1 DEF TwoWords, Branches
  <2>2. CASE i # Len(c) + 1
    <3>1. i \in 4 .. Len(c) /\ d[i] = c[i]
      BY <1>1, <2>2
    <3>2. /\ c[i].op \in TwoWords => i + 2 \in Land(c) /\ i + 2 + c[i].by \in Land(c)
          /\ c[i].op \notin TwoWords \cup {"half"} => i + 1 \in Land(c)
      BY <3>1 DEF WellFormed, Targets
    <3> QED
      BY <1>2, <3>1, <3>2
  <2> QED
    BY <2>1, <2>2
<1> QED
  BY <1>2, <1>3, <1>4 DEF Finished

LEMMA EndProgramOK ==
  ASSUME IInv, EndProgram
  PROVE  IInv'
<1>1. After("begin") /\ Len(todo) = 1 /\ Ready
  BY DEF EndProgram, After
<1>2. /\ Typed /\ StackOK(todo) /\ IsStack(todo) /\ breaks \in Seq(Nat) /\ inLoop \in BOOLEAN
      /\ em \in Emitter /\ em.code \in Seq(WordSet) /\ ~em.dead /\ orderly = TRUE
      /\ Core(em, todo, breaks, inLoop) /\ Sound(em, Waiting(todo, breaks))
  BY <1>1, ReadyIs
<1>3. Top.k = "begin"
  BY <1>1, AfterIs
<1>4. PICK f : f = Top
  OBVIOUS
<1>5. On(todo, << >>, f)
  BY <1>1, <1>2, <1>4 DEF On, IsStack, Top, Last
<1>6. f.k = "begin" /\ ~IsLoop(f) /\ Runs(f) /\ Waits(f) = {}
  BY <1>3, <1>4 DEF IsLoop, Runs, Waits, IsCase
<1>7. AllRun(<< >>, Len(<< >>))
  BY DEF AllRun
<1>8. em.emit
  BY <1>2, <1>5, <1>6, <1>7, OnRuns DEF Core
<1>9. Waiting(<< >>, breaks) = {}
  BY DEF Waiting
<1>10. Waiting(todo, breaks) = {}
  <2>1. Waiting(todo, breaks) = Waiting(<< >>, breaks) \cup Waits(f)
    <3>1. breaks \in Seq(Nat) /\ ~IsLoop(f)
      BY <1>2, <1>6
    <3>2. PICK r : r = << >> /\ On(todo, r, f)
      BY <1>5
    <3>3. Waiting(todo, breaks) = Waiting(r, breaks) \cup Waits(f)
      BY <3>1, <3>2, OnWaiting
    <3> QED
      BY <3>2, <3>3
  <2> QED
    BY <1>6, <1>9, <2>1
<1>11. PICK w \in WordSet : w = [op |-> "EXIT"] /\ w.op \notin TwoWords \cup {"half"}
  BY ExitIs
<1>12. PICK g : g = Emit(em, w)
  OBVIOUS
<1>13. Sound(g, Waiting(todo, breaks)) /\ Continues(em, g)
  BY <1>2, <1>11, <1>12, EmitSound
<1>14. g \in Emitter /\ g.code = Append(em.code, w) /\ Kept(em.code, g.code) /\ ~g.dead /\ g.emit
  BY <1>2, <1>8, <1>11, <1>12, <1>13, EmitTyped, SoundIs DEF Continues
<1>15. Core(g, << >>, breaks, inLoop)
  <2>1. Sound(g, Waiting(<< >>, breaks))
    BY <1>9, <1>10, <1>13
  <2> QED
    BY <1>2, <1>5, <1>6, <1>7, <1>14, <2>1, CorePopped
<1>16. Finished(g.code) /\ 4 \in Land(g.code) \ {Len(g.code) + 1}
  <2>1. WellFormed(em.code) /\ Targets(em.code, {})
    BY <1>2, <1>10, SoundIs
  <2>2. w.op = "EXIT"
    BY <1>11
  <2> QED
    BY <1>2, <1>14, <2>1, <2>2, ExitFinishes
<1>17. /\ em' = g /\ todo' = << >> /\ wants' = FALSE /\ size' = 0
       /\ vm' = [ip |-> 3, flag |-> FALSE, reg |-> FALSE]
       /\ UNCHANGED <<breaks, inLoop, orderly, turn>>
  BY <1>11, <1>12 DEF EndProgram, Done, EnterSize
<1>18. Typed'
  <2>1. StackOK(<< >>)
    BY DEF StackOK, IsStack
  <2>2. 0 \in 0 .. MaxSize
    BY CodegenAssumption DEF CodegenAssumption
  <2> QED
    BY <1>2, <1>14, <1>17, <2>1, <2>2 DEF Typed
<1>19. RunOK'
  BY <1>2, <1>16, <1>17 DEF RunOK, Running
<1>20. Core(em', todo', breaks', inLoop')
  BY <1>15, <1>17
<1> QED
  BY <1>18, <1>19, <1>20 DEF IInv

-----------------------------------------------------------------------------
(* The program runs *)

\* Places the VM may go to.
Places == Land(em.code) \ {Here(em) + 1}

LEMMA FetchedIs ==
  ASSUME IInv, Running
  PROVE  /\ vm.ip \in Nat /\ vm.flag \in BOOLEAN /\ vm.reg \in BOOLEAN
         /\ Fetched \in WordSet /\ Fetched.op # "half"
         /\ Fetched.op \in TwoWords => vm.ip + 3 \in Places /\ vm.ip + 3 + Fetched.by \in Places
         /\ Fetched.op \notin TwoWords \cup {"EXIT"} => vm.ip + 2 \in Places
         /\ \A i \in Places : i \in Nat /\ i - 1 \in Nat
<1>1. /\ em.code \in Seq(WordSet) /\ Finished(em.code) /\ vm.ip \in Nat
      /\ vm.flag \in BOOLEAN /\ vm.reg \in BOOLEAN /\ vm.ip + 1 \in Places
  BY EmitterIs DEF IInv, Typed, RunOK, Places, Here
<1>2. PICK i \in Int : i = vm.ip + 1
  BY <1>1
<1>3. Len(em.code) \in Nat /\ i \in 4 .. Len(em.code) /\ em.code[i].op # "half"
  BY <1>1, <1>2 DEF Places, Land, Here
<1>4. Fetched = em.code[i] /\ Fetched \in WordSet
  BY <1>1, <1>2, <1>3 DEF Fetched, WordAt, Here
<1>5. /\ Fetched.op \in TwoWords => i + 2 \in Places /\ i + 2 + Fetched.by \in Places
      /\ Fetched.op \notin TwoWords \cup {"half", "EXIT"} => i + 1 \in Places
  BY <1>1, <1>3, <1>4 DEF Finished, Places, Here
<1>6. \A j \in Places : j \in Nat /\ j - 1 \in Nat
  BY <1>3 DEF Places, Land
<1>7. Fetched.op \in TwoWords => Fetched.by \in Int
  BY <1>4, WordFacts DEF TwoWords
<1>8. vm.ip + 3 = i + 2 /\ vm.ip + 2 = i + 1
  BY <1>1, <1>2
<1>9. Fetched.op \in TwoWords => vm.ip + 3 + Fetched.by = i + 2 + Fetched.by
  BY <1>8
<1> QED
  BY <1>1, <1>3, <1>4, <1>5, <1>6, <1>8, <1>9

Machine == [ip : Nat, flag : BOOLEAN, reg : BOOLEAN]

\* A step of the VM leads to a place.
LEMMA MoveOK ==
  ASSUME IInv, Running, vm' \in Machine, vm'.ip + 1 \in Places,
         turn' \in BOOLEAN, UNCHANGED <<em, compiling, orderly>>
  PROVE  IInv'
<1>1. UNCHANGED <<em, todo, wants, made, breaks, inLoop, size, orderly>>
  BY DEF compiling
<1>2. Typed'
  BY <1>1 DEF IInv, Typed, Machine
<1>3. RunOK'
  BY <1>1 DEF IInv, RunOK, Running, Places, Here
<1> QED
  BY <1>1, <1>2, <1>3 DEF IInv

LEMMA JumpOK ==
  ASSUME IInv, Running, Fetched.op \in TwoWords, NEW taken \in BOOLEAN, NEW v, v = Jump(taken)
  PROVE  v \in Machine /\ v.ip + 1 \in Places
<1>1. PICK d \in Int : d = IF taken THEN Fetched.by ELSE 0
  <2>1. Fetched.by \in Int
    BY FetchedIs, WordFacts DEF TwoWords
  <2> QED
    BY <2>1
<1>2. PICK to : to = vm.ip + BranchSize + d
  OBVIOUS
<1>3. vm \in Machine
  BY DEF IInv, Typed, Machine
<1>4. v = [vm EXCEPT !.ip = to]
  BY <1>1, <1>2 DEF Jump
<1>5. /\ vm.ip \in Nat /\ \A i \in Places : i \in Nat /\ i - 1 \in Nat
      /\ vm.ip + 3 \in Places /\ vm.ip + 3 + Fetched.by \in Places
  BY FetchedIs
<1>6. to + 1 = IF taken THEN vm.ip + 3 + Fetched.by ELSE vm.ip + 3
  BY <1>1, <1>2, <1>5 DEF BranchSize
<1>7. to + 1 \in Places
  BY <1>5, <1>6
<1>8. to \in Nat
  <2>1. to \in Int
    BY <1>1, <1>2, <1>5 DEF BranchSize
  <2>2. PICK i \in Places : i = to + 1
    BY <1>7
  <2>3. i \in Nat /\ i - 1 \in Nat
    BY <1>5, <2>2
  <2> QED
    BY <2>1, <2>2, <2>3
<1> QED
  BY <1>3, <1>4, <1>7, <1>8 DEF Machine

LEMMA SourceStepOK ==
  ASSUME IInv, SourceStep
  PROVE  IInv'
BY DEF SourceStep, compiling, IInv, Typed, RunOK, Running

LEMMA VMStepOK ==
  ASSUME IInv, VMStep
  PROVE  IInv'
<1>1. Running /\ UNCHANGED <<em, compiling, orderly, src, turn>>
  BY DEF VMStep
<1>2. turn' \in BOOLEAN
  BY <1>1 DEF IInv, Typed
<1>3. vm \in Machine
  BY DEF IInv, Typed, Machine
<1>4. CASE Fetched.op \in Branches /\ vm' = Jump(Taken)
  <2>1. Fetched.op \in TwoWords
    BY <1>4 DEF TwoWords
  <2>2. PICK taken \in BOOLEAN : vm' = Jump(taken)
    <3>1. Taken \in BOOLEAN
      <4>1. vm.flag \in BOOLEAN /\ vm.reg \in BOOLEAN
        BY <1>3 DEF Machine
      <4>2. CASE Fetched.op = "BR"
        BY <4>2 DEF Taken
      <4>3. CASE Fetched.op \in {"BCT", "BCF"}
        BY <4>1, <4>3 DEF Taken
      <4>4. CASE Fetched.op \in {"BNZ", "BEZ"}
        BY <4>1, <4>4 DEF Taken
      <4> QED
        BY <1>4, <4>2, <4>3, <4>4 DEF Branches
    <3> QED
      BY <1>4, <3>1
  <2>3. vm' \in Machine /\ vm'.ip + 1 \in Places
    BY <1>1, <2>1, <2>2, JumpOK
  <2> QED
    BY <1>1, <1>2, <2>3, MoveOK
<1>5. CASE Fetched.op = "imm" /\ vm' = [vm EXCEPT !.ip = @ + 1, !.reg = Fetched.val]
  <2>1. /\ vm.ip \in Nat /\ vm.ip + 2 \in Places /\ Fetched.val \in BOOLEAN
    <3>1. Fetched.op \notin TwoWords \cup {"EXIT"}
      BY <1>5 DEF TwoWords, Branches
    <3> QED
      BY <1>1, <1>5, <3>1, FetchedIs, WordFacts
  <2>2. vm' \in Machine /\ vm'.ip = vm.ip + 1
    <3>1. PICK b \in BOOLEAN : b = Fetched.val
      BY <2>1
    <3>2. PICK to \in Nat : to = vm.ip + 1
      BY <2>1
    <3>3. vm' = [vm EXCEPT !.ip = to, !.reg = b]
      BY <1>5, <3>1, <3>2
    <3> QED
      BY <1>3, <3>1, <3>2, <3>3 DEF Machine
  <2>3. vm'.ip + 1 = vm.ip + 2
    BY <2>1, <2>2
  <2> QED
    BY <1>1, <1>2, <2>1, <2>2, <2>3, MoveOK
<1> QED
  BY <1>4, <1>5 DEF VMStep

LEMMA EventStepOK ==
  ASSUME IInv, NEW outcome \in BOOLEAN, EventStep(outcome)
  PROVE  IInv'
<1>1. Running /\ UNCHANGED <<em, compiling, orderly>> /\ turn' = ~turn /\ Fetched.op \in Seen
  BY DEF EventStep
<1>2. turn' \in BOOLEAN
  BY <1>1 DEF IInv, Typed
<1>3. vm \in Machine
  BY DEF IInv, Typed, Machine
<1>4. vm' \in Machine /\ vm'.ip + 1 \in Places
  <2>1. CASE Fetched.op = "BRI"
    <3>1. vm' = Jump(TRUE) /\ Fetched.op \in TwoWords
      BY <2>1 DEF EventStep, TwoWords
    <3> QED
      BY <1>1, <3>1, JumpOK
  <2>2. CASE Fetched.op \in {"set", "load", "act"}
    <3>1. /\ vm.ip \in Nat /\ vm.ip + 2 \in Places
      <4>1. Fetched.op \notin TwoWords \cup {"EXIT"}
        BY <2>2 DEF TwoWords, Branches
      <4> QED
        BY <1>1, <4>1, FetchedIs
    <3>2. PICK b \in BOOLEAN : b = (outcome # Fetched.neg)
      OBVIOUS
    <3>3. PICK to \in Nat : to = vm.ip + 1
      BY <3>1
    <3>4. vm' \in Machine /\ vm'.ip = to
      <4>1. CASE Fetched.op = "set"
        <5>1. vm' = [vm EXCEPT !.ip = to, !.flag = b]
          BY <3>2, <3>3, <4>1 DEF EventStep
        <5> QED
          BY <1>3, <5>1 DEF Machine
      <4>2. CASE Fetched.op = "load"
        <5>1. vm' = [vm EXCEPT !.ip = to, !.reg = b]
          BY <3>2, <3>3, <4>2 DEF EventStep
        <5> QED
          BY <1>3, <5>1 DEF Machine
      <4>3. CASE Fetched.op = "act"
        <5>1. vm' = [vm EXCEPT !.ip = to]
          BY <3>3, <4>3 DEF EventStep
        <5> QED
          BY <1>3, <5>1 DEF Machine
      <4> QED
        BY <2>2, <4>1, <4>2, <4>3
    <3>5. vm'.ip + 1 = vm.ip + 2
      BY <3>1, <3>3, <3>4
    <3> QED
      BY <3>1, <3>4, <3>5
  <2>3. CASE Fetched.op = "EXIT"
    <3>1. vm' = vm
      BY <2>3 DEF EventStep
    <3>2. vm.ip + 1 \in Places
      BY <1>1 DEF IInv, RunOK, Places, Here
    <3> QED
      BY <1>3, <3>1, <3>2
  <2> QED
    BY <1>1, <2>1, <2>2, <2>3 DEF Seen
<1> QED
  BY <1>1, <1>2, <1>4, MoveOK

-----------------------------------------------------------------------------
(* The theorems *)

LEMMA InitOK == Init => IInv
<1>1. SUFFICES ASSUME Init PROVE IInv
  OBVIOUS
<1>2. PICK c : c = <<[op |-> "ENTER"], SecondHalf, SecondHalf>>
  OBVIOUS
<1>3. PICK f : f = [k |-> "begin", list |-> << >>]
  OBVIOUS
<1>4. PICK s : s = <<f>>
  OBVIOUS
<1>5. /\ em.code = c /\ em.emit = TRUE /\ em.dead = FALSE /\ todo = s
      /\ em = [code |-> c, emit |-> TRUE, dead |-> FALSE]
      /\ breaks = << >> /\ inLoop = FALSE /\ orderly = TRUE
  BY <1>1, <1>2, <1>3, <1>4 DEF Init
<1>6. /\ c \in Seq(WordSet) /\ Len(c) = 3
      /\ c[1].op = "ENTER" /\ c[2].op = "half" /\ c[3].op = "half"
  <2>1. [op |-> "ENTER"] \in WordSet /\ SecondHalf \in WordSet
    BY DEF WordSet, SecondHalf
  <2>2. c \in Seq(WordSet) /\ Len(c) = 3
    BY <1>2, <2>1
  <2>3. c[1].op = "ENTER" /\ c[2].op = "half" /\ c[3].op = "half"
    BY <1>2 DEF SecondHalf
  <2> QED
    BY <2>2, <2>3
<1>7. f.k = "begin" /\ ~IsLoop(f) /\ Runs(f) /\ FrameOK(f) /\ Sites(f) = {}
  BY <1>3 DEF IsLoop, IsCase, Runs, FrameOK, Restores, Loops, Sites
<1>8. On(s, << >>, f) /\ StackOK(s)
  <2>1. Len(s) = 1 /\ DOMAIN s = 1 .. 1 /\ s[1] = f
    BY <1>4
  <2> QED
    BY <1>7, <2>1 DEF On, IsStack, StackOK
<1>9. Typed
  <2>1. em \in Emitter
    BY <1>5, <1>6 DEF Emitter
  <2>2. size \in 0 .. MaxSize
    BY <1>1, CodegenAssumption DEF Init, CodegenAssumption
  <2>3. breaks \in Seq(Nat)
    BY <1>5
  <2> QED
    BY <1>1, <1>5, <1>8, <2>1, <2>2, <2>3 DEF Init, Typed
<1>10. RunOK
  BY <1>4, <1>5 DEF RunOK, Running
<1>11. Core(em, todo, breaks, inLoop)
  <2>1. /\ IsStack(s) /\ Len(s) = 1 /\ s[1] = f
    BY <1>4 DEF IsStack
  <2>2. WellFormed(c) /\ Targets(c, Waiting(s, breaks))
    BY <1>6 DEF WellFormed, Targets, Land
  <2>3. Sound(em, Waiting(s, breaks))
    BY <1>5, <1>9, <2>2 DEF Sound, Typed
  <2>4. AllRun(s, 1)
    BY <1>7, <2>1 DEF AllRun
  <2>5. Remembers(s, 1) /\ Placed(c, s[1])
    BY <1>7, <2>1 DEF Remembers, Placed, Restores, Loops
  <2>6. LoopsOK(s, breaks, FALSE)
    BY <1>5, <1>7, <2>1 DEF LoopsOK
  <2>7. BreaksPlaced(c, s, breaks)
    BY <1>5 DEF BreaksPlaced
  <2>8. Base(c, s, breaks, FALSE)
    <3>1. \A i \in 1 .. Len(s) : i = 1
      BY <2>1
    <3>2. \A i \in 1 .. Len(s) : Remembers(s, i) /\ Placed(c, s[i])
      BY <2>5, <3>1
    <3> QED
      BY <2>6, <2>7, <3>2 DEF Base
  <2> QED
    BY <1>5, <2>1, <2>3, <2>4, <2>8 DEF Core
<1> QED
  BY <1>9, <1>10, <1>11 DEF IInv

LEMMA NextOK == IInv /\ [Next]_vars => IInv'
<1>1. SUFFICES ASSUME IInv, [Next]_vars PROVE IInv'
  OBVIOUS
<1>2. CASE Statement
  <2>1. CASE \E c \in Conditions : IfStmt(c) \/ WhileStmt(c)
    BY <1>1, <2>1, IfOK, WhileOK
  <2>2. CASE \E const \in BOOLEAN : CaseStmt(const)
    BY <1>1, <2>2, CaseOK
  <2> QED
    BY <1>1, <1>2, <2>1, <2>2, SimpleOK, NullOK, ExitOK, BreakOK, BeginOK, ForOK, RepeatOK
       DEF Statement
<1>3. CASE Continue
  <2>1. CASE \E c \in Conditions : Until(c)
    BY <1>1, <2>1, UntilOK
  <2>2. CASE \E equal \in BOOLEAN : Arm(equal)
    BY <1>1, <2>2, ArmOK
  <2>3. CASE Semicolon \/ EndBegin \/ Else \/ EndIf \/ EndWhile \/ EndFor
    BY <1>1, <2>3, SemicolonOK, EndBeginOK, ElseOK, EndIfOK, EndWhileOK, EndForOK
  <2>4. CASE EndArm \/ CaseElse \/ EndCase \/ EndProgram
    BY <1>1, <2>4, EndArmOK, CaseElseOK, EndCaseOK, EndProgramOK
  <2> QED
    BY <1>3, <2>1, <2>2, <2>3, <2>4 DEF Continue
<1>4. CASE Run
  <2>1. CASE \E outcome \in BOOLEAN : EventStep(outcome)
    BY <1>1, <2>1, EventStepOK
  <2> QED
    BY <1>1, <1>4, <2>1, SourceStepOK, VMStepOK DEF Run
<1>5. CASE UNCHANGED vars
  BY <1>1, <1>5 DEF vars, IInv, Typed, RunOK, Running
<1> QED
  BY <1>1, <1>2, <1>3, <1>4, <1>5 DEF Next

\* What all the others follow from: the strengthening holds whatever is compiled,
\* and while it runs (Compiler.c's statements, Emitter.c's branches and patches,
\* PVM.c's control flow).
THEOREM Inductive == Spec => []IInv
<1>1. Init => IInv
  BY InitOK
<1>2. IInv /\ [Next]_vars => IInv'
  BY NextOK
<1> QED
  BY <1>1, <1>2, PTL DEF Spec

\* What is emitted are words the VM knows, and the VM never fetches the second
\* half of a branch's offset as an instruction (PVM.c's dispatch loop).
THEOREM TypeCorrect == Spec => []TypeOK
<1>1. IInv => TypeOK
  <2>1. SUFFICES ASSUME IInv PROVE TypeOK
    OBVIOUS
  <2>2. \A i \in DOMAIN em.code : em.code[i].op \in Words
    <3>1. em.code \in Seq(WordSet)
      BY <2>1, EmitterIs DEF IInv, Typed
    <3>2. \A i \in DOMAIN em.code : em.code[i] \in WordSet
      BY <3>1
    <3> QED
      BY <3>2, WordFacts
  <2>3. Running => Fetched.op # "half"
    BY <2>1, FetchedIs
  <2>4. em.emit \in BOOLEAN /\ em.dead \in BOOLEAN
    BY <2>1, EmitterIs DEF IInv, Typed
  <2> QED
    BY <2>1, <2>2, <2>3, <2>4 DEF IInv, Typed, TypeOK
<1> QED
  BY <1>1, Inductive, PTL

\* However constructs are nested, PVMPatchBranch's PASCAL_UNREACHABLE is not
\* reached: what an IF, a loop or a CASE patches is a branch.
THEOREM Patches == Spec => []PatchesBranches
<1>1. IInv => PatchesBranches
  BY DEF IInv, Core, PatchesBranches
<1> QED
  BY <1>1, Inductive, PTL

\* ShouldEmit is off exactly in what a literal condition rules out: whatever is
\* nested in it, a construct leaves it as it found it.
THEOREM EmitsRight == Spec => []EmitsWhatRuns
<1>1. IInv => EmitsWhatRuns
  <2>1. SUFFICES ASSUME IInv, orderly PROVE EmitsWhatRuns
    BY DEF EmitsWhatRuns
  <2>2. em.emit <=> AllRun(todo, Len(todo))
    BY <2>1 DEF IInv, Core
  <2>3. IsStack(todo)
    BY <2>1 DEF IInv, Typed, StackOK
  <2>4. AllRun(todo, Len(todo)) <=> \A i \in DOMAIN todo : Runs(todo[i])
    BY <2>3 DEF AllRun, IsStack
  <2>5. (\A i \in DOMAIN todo : Runs(todo[i])) <=>
          /\ \A i \in Pending({"then", "while"}) : ~Never(todo[i].c)
          /\ \A i \in Pending({"else"}) : ~Always(todo[i].c)
          /\ \A i \in Pending({"arm"}) : Literal(Last(todo[i].arms).c, TRUE) \/ ~todo[i].const
          /\ \A i \in Pending({"otherwise"}) : ~(todo[i].const /\ todo[i].emitted)
    BY DEF Runs, Pending
  <2> QED
    BY <2>2, <2>4, <2>5 DEF EmitsWhatRuns
<1> QED
  BY <1>1, Inductive, PTL

\* Every branch of a finished program, forward or back, leads to an instruction
\* of it: none is left unpatched, none leads into an offset or behind the end.
THEOREM Lands == Spec => []BranchesLand
<1>1. IInv => BranchesLand
  <2>1. SUFFICES ASSUME IInv, Running, NEW i \in Starts, em.code[i].op \in TwoWords
                 PROVE  i + BranchSize + em.code[i].by \in Starts
    BY DEF BranchesLand, TwoWords
  <2>2. PICK c \in Seq(WordSet) : c = em.code
    BY <2>1, EmitterIs DEF IInv, Typed
  <2>3. Finished(c) /\ WellFormed(c)
    BY <2>1, <2>2 DEF IInv, RunOK, Core, Sound
  <2>4. i \in 4 .. Len(c)
    BY <2>1, <2>2, <2>3 DEF Starts, WellFormed
  <2>5. c[i].by \in Int
    <3>1. c[i] \in WordSet
      BY <2>2, <2>4
    <3> QED
      BY <2>1, <2>2, <3>1, WordFacts DEF TwoWords
  <2>6. i + 2 + c[i].by \in Land(c) \ {Len(c) + 1}
    BY <2>1, <2>2, <2>3, <2>4 DEF Finished
  <2>7. \A j \in Land(c) \ {Len(c) + 1} : j \in Starts
    BY <2>2 DEF Land, Starts
  <2> QED
    BY <2>2, <2>6, <2>7 DEF BranchSize
<1> QED
  BY <1>1, Inductive, PTL

\* InLoop and Breaks[] say what is being compiled: InLoop is set inside a WHILE
\* or FOR and only there, and no loop ends with less breaks than it began with.
THEOREM BreaksRight == Spec => []BreaksOfPending
<1>1. IInv => BreaksOfPending
  <2>1. SUFFICES ASSUME IInv, orderly PROVE BreaksOfPending
    BY DEF BreaksOfPending
  <2>2. IsStack(todo) /\ LoopsOK(todo, breaks, inLoop)
    BY <2>1 DEF IInv, Typed, StackOK, Core, Base
  <2>3. PICK loops : loops = Pending({"while", "for"})
    OBVIOUS
  <2>4. \A i : i \in loops <=> i \in 1 .. Len(todo) /\ IsLoop(todo[i])
    BY <2>2, <2>3 DEF Pending, IsLoop, IsStack
  <2>5. inLoop <=> loops # {}
    BY <2>2, <2>4 DEF LoopsOK
  <2>6. \A i \in loops : todo[i].prev <= Len(breaks)
    BY <2>2, <2>4 DEF LoopsOK, LoopOK
  <2>7. loops = {} => breaks = << >>
    BY <2>2, <2>5 DEF LoopsOK
  <2> QED
    BY <2>3, <2>5, <2>6, <2>7 DEF BreaksOfPending
<1> QED
  BY <1>1, Inductive, PTL
=============================================================================
