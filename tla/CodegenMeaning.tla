--------------------------- MODULE CodegenMeaning ----------------------------
(***************************************************************************)
(* What compiled code does, for every program.                             *)
(*                                                                         *)
(* Means(c, I, B, A, x, s): the VM, anywhere in A, does what the source s  *)
(* says, inside the places I of the code c, and goes on at x or, where s   *)
(* breaks a loop, at one of B.  It is said by a set of pairs, a machine and *)
(* what the source has left to do, in which every pair has its next step or *)
(* is over (Follows); as such sets are closed under steps and not built up *)
(* from them, a loop needs no induction.  Tests says the same of a         *)
(* condition.  Code behind code, IF, loops and CASE are put together from  *)
(* the meaning of their parts (SeqMeans ... CaseMeans), conditions from    *)
(* their words (CondTests).                                                *)
(*                                                                         *)
(* Then the compiler.  Code is compiled while branches in it still wait for *)
(* their target, so what is kept of it speaks of the places whose words are *)
(* final (Settled) and of what the code will do once the others are patched *)
(* (Part, Chain, TestWaits).  Built says so of all constructs on the       *)
(* stack, and every action that begins or passes a statement keeps it.     *)
(***************************************************************************)
EXTENDS CodegenProofs

-----------------------------------------------------------------------------
(* Sequences of anything: what the source has still to do *)

IsSeq(s) == \E U : s \in Seq(U)

Marked(s) == \E i \in 1 .. Len(s) : s[i].k = "mark"
AfterMark(s) == SubSeq(s, SelectInSeq(s, LAMBDA x : x.k = "mark") + 1, Len(s))

LEMMA SeqIn ==
  ASSUME NEW U, NEW V, NEW s \in Seq(U)
  PROVE  s \in Seq(U \cup V)
<1>1. \A i \in 1 .. Len(s) : s[i] \in U \cup V
  OBVIOUS
<1>2. Len(s) \in Nat /\ s = [i \in 1 .. Len(s) |-> s[i]]
  OBVIOUS
<1>3. [i \in 1 .. Len(s) |-> s[i]] \in Seq(U \cup V)
  BY <1>1, <1>2
<1> QED
  BY <1>2, <1>3

LEMMA TwoSeqs ==
  ASSUME NEW s, NEW t, IsSeq(s), IsSeq(t)
  PROVE  \E U : s \in Seq(U) /\ t \in Seq(U)
<1>1. PICK U : s \in Seq(U)
  BY DEF IsSeq
<1>2. PICK V : t \in Seq(V)
  BY DEF IsSeq
<1>3. s \in Seq(U \cup V)
  BY <1>1, SeqIn
<1>4. t \in Seq(V \cup U)
  BY <1>2, SeqIn
<1>5. U \cup V = V \cup U
  OBVIOUS
<1> QED
  BY <1>3, <1>4, <1>5

LEMMA SeqIs ==
  ASSUME NEW s, IsSeq(s)
  PROVE  Len(s) \in Nat /\ DOMAIN s = 1 .. Len(s) /\ (s # << >> <=> Len(s) > 0)
<1>1. PICK U : s \in Seq(U)
  BY DEF IsSeq
<1> QED
  BY <1>1

LEMMA SingleIs == \A x : IsSeq(<< >>) /\ IsSeq(<<x>>)
<1> SUFFICES ASSUME NEW x PROVE IsSeq(<< >>) /\ IsSeq(<<x>>)
  OBVIOUS
<1>1. << >> \in Seq({x}) /\ <<x>> \in Seq({x})
  OBVIOUS
<1> QED
  BY <1>1 DEF IsSeq

LEMMA CatIs ==
  ASSUME NEW s, NEW t, IsSeq(s), IsSeq(t)
  PROVE  /\ IsSeq(s \o t) /\ Len(s \o t) = Len(s) + Len(t)
         /\ \A i \in 1 .. Len(s) : (s \o t)[i] = s[i]
         /\ \A i \in 1 .. Len(t) : (s \o t)[i + Len(s)] = t[i]
         /\ << >> \o t = t /\ t \o << >> = t
         /\ s # << >> => /\ s \o t # << >> /\ Head(s \o t) = Head(s)
                         /\ Tail(s \o t) = Tail(s) \o t /\ IsSeq(Tail(s))
<1>1. PICK U : s \in Seq(U) /\ t \in Seq(U)
  BY TwoSeqs
<1>2. s \o t \in Seq(U) /\ Len(s \o t) = Len(s) + Len(t)
  BY <1>1
<1>3. /\ \A i \in 1 .. Len(s) : (s \o t)[i] = s[i]
      /\ \A i \in 1 .. Len(t) : (s \o t)[i + Len(s)] = t[i]
  BY <1>1
<1>4. << >> \o t = t /\ t \o << >> = t
  BY <1>1
<1>5. ASSUME s # << >>
      PROVE  /\ s \o t # << >> /\ Head(s \o t) = Head(s)
             /\ Tail(s \o t) = Tail(s) \o t /\ IsSeq(Tail(s))
  <2>1. s \o t # << >> /\ Head(s \o t) = Head(s)
    BY <1>1, <1>5
  <2>2. Tail(s) \in Seq(U) /\ Len(Tail(s)) = Len(s) - 1 /\ Len(s) > 0 /\ Len(s) \in Nat /\ Len(t) \in Nat
    BY <1>1, <1>5
  <2>3. Tail(s \o t) \in Seq(U) /\ Len(Tail(s \o t)) = Len(s) + Len(t) - 1
    BY <1>2, <2>1, <2>2
  <2>4. Tail(s) \o t \in Seq(U) /\ Len(Tail(s) \o t) = Len(s) + Len(t) - 1
    BY <1>1, <2>2
  <2>5. \A i \in 1 .. Len(s) + Len(t) - 1 : Tail(s \o t)[i] = (Tail(s) \o t)[i]
    <3> TAKE i \in 1 .. Len(s) + Len(t) - 1
    <3>1. Tail(s \o t)[i] = (s \o t)[i + 1]
      BY <1>2, <2>1, <2>2
    <3>2. CASE i < Len(s)
      BY <3>1, <3>2, <1>1, <2>2
    <3>3. CASE i >= Len(s)
      BY <3>1, <3>3, <1>1, <2>2
    <3> QED
      BY <3>2, <3>3, <2>2
  <2>6. Tail(s \o t) = Tail(s) \o t
    BY <2>3, <2>4, <2>5
  <2> QED
    BY <2>1, <2>2, <2>6 DEF IsSeq
<1> QED
  BY <1>1, <1>2, <1>3, <1>4, <1>5 DEF IsSeq

Rest(s) == Tail(s)

LEMMA RestBehind ==
  ASSUME NEW s, NEW t, IsSeq(s), IsSeq(t), s # << >>
  PROVE  Rest(s \o t) = Rest(s) \o t /\ IsSeq(Rest(s))
BY CatIs DEF Rest

LEMMA RestSingle == \A x, t : IsSeq(t) => /\ <<x>> \o t # << >> /\ Head(<<x>> \o t) = x
                                          /\ Rest(<<x>> \o t) = t
<1> SUFFICES ASSUME NEW x, NEW t, IsSeq(t)
             PROVE  <<x>> \o t # << >> /\ Head(<<x>> \o t) = x /\ Rest(<<x>> \o t) = t
  OBVIOUS
<1>1. IsSeq(<<x>>) /\ <<x>> # << >> /\ Head(<<x>>) = x /\ Rest(<<x>>) = << >>
  BY SingleIs DEF Rest
<1>2. PICK s : s = <<x>> /\ IsSeq(s) /\ s # << >> /\ Head(s) = x /\ Rest(s) = << >>
  BY <1>1
<1>3. s \o t # << >> /\ Head(s \o t) = Head(s)
  BY <1>2, CatIs
<1>4. Rest(s \o t) = Rest(s) \o t
  BY <1>2, RestBehind
<1>5. << >> \o t = t
  BY CatIs, SingleIs
<1> QED
  BY <1>2, <1>3, <1>4, <1>5

LEMMA TwoAre == \A a, b : <<a>> \o <<b>> = <<a, b>>
<1> SUFFICES ASSUME NEW a, NEW b PROVE <<a>> \o <<b>> = <<a, b>>
  OBVIOUS
<1>1. <<a>> \in Seq({a, b}) /\ <<b>> \in Seq({a, b}) /\ <<a, b>> \in Seq({a, b})
  OBVIOUS
<1>2. <<a>> \o <<b>> \in Seq({a, b}) /\ Len(<<a>> \o <<b>>) = 2
  BY <1>1
<1>3. (<<a>> \o <<b>>)[1] = a /\ (<<a>> \o <<b>>)[2] = b
  BY <1>1
<1>4. PICK q \in Seq({a, b}) : q = <<a>> \o <<b>> /\ Len(q) = 2 /\ q[1] = a /\ q[2] = b
  BY <1>2, <1>3
<1>5. PICK r \in Seq({a, b}) : r = <<a, b>> /\ Len(r) = 2 /\ r[1] = a /\ r[2] = b
  BY <1>1
<1>6. q = r
  <2>1. \A i \in 1 .. 2 : i = 1 \/ i = 2
    OBVIOUS
  <2>2. \A i \in 1 .. 2 : q[i] = r[i]
    BY <1>4, <1>5, <2>1
  <2>3. q \in [1 .. 2 -> {a, b}] /\ r \in [1 .. 2 -> {a, b}]
    <3>1. \A t \in Seq({a, b}) : t \in [1 .. Len(t) -> {a, b}]
      OBVIOUS
    <3> QED
      BY <1>4, <1>5, <3>1
  <2> QED
    BY <2>2, <2>3
<1> QED
  BY <1>4, <1>5, <1>6

LEMMA CatAssoc ==
  ASSUME NEW s, NEW t, NEW u, IsSeq(s), IsSeq(t), IsSeq(u)
  PROVE  (s \o t) \o u = s \o (t \o u)
<1>1. PICK U : s \in Seq(U) /\ t \in Seq(U)
  BY TwoSeqs
<1>2. PICK V : t \in Seq(V) /\ u \in Seq(V)
  BY TwoSeqs
<1>3. s \in Seq(U \cup V) /\ t \in Seq(U \cup V)
  BY <1>1, SeqIn
<1>4. u \in Seq(V \cup U) /\ U \cup V = V \cup U
  BY <1>2, SeqIn
<1>5. u \in Seq(U \cup V)
  BY <1>4
<1> QED
  BY <1>3, <1>5

LEMMA FirstOne ==
  ASSUME NEW n \in Nat, NEW I, I \subseteq 1 .. n, I # {}
  PROVE  Min(I) \in I /\ \A j \in I : Min(I) <= j
<1>1. I \subseteq Nat
  OBVIOUS
<1>2. PICK k \in I : \A l \in I : ~ (<<l, k>> \in OpToRel(<, Nat))
  BY <1>1, WFMin, NatLessThanWellFounded, Zenon
<1>3. \A l \in I : ~(l < k)
  BY <1>1, <1>2, Zenon DEF OpToRel
<1>4. \A l \in I : k <= l
  BY <1>1, <1>3
<1>5. Min(I) \in I /\ \A y \in I : Min(I) =< y
  BY <1>4 DEF Min
<1> QED
  BY <1>5

\* What follows the first mark, when something is put behind.
LEMMA FirstMark ==
  ASSUME NEW s, IsSeq(s), Marked(s)
  PROVE  \E i \in 1 .. Len(s) :
           /\ s[i].k = "mark" /\ \A j \in 1 .. i - 1 : s[j].k # "mark"
           /\ AfterMark(s) = SubSeq(s, i + 1, Len(s))
<1> DEFINE I == {i \in 1 .. Len(s) : s[i].k = "mark"}
<1>1. I # {} /\ I \subseteq 1 .. Len(s) /\ Len(s) \in Nat
  BY SeqIs DEF Marked
<1>2. AfterMark(s) = SubSeq(s, Min(I) + 1, Len(s))
  BY <1>1 DEF AfterMark, SelectInSeq
<1>3. Min(I) \in I /\ \A j \in I : Min(I) <= j
  <2> HIDE DEF I
  <2> QED
    BY <1>1, FirstOne
<1>4. ASSUME NEW j \in 1 .. Min(I) - 1
      PROVE  s[j].k # "mark"
  <2>1. Min(I) \in 1 .. Len(s)
    BY <1>3
  <2>2. j \in 1 .. Len(s) /\ ~(Min(I) <= j)
    BY <1>1, <2>1
  <2> QED
    BY <1>3, <2>2
<1> QED
  BY <1>2, <1>3, <1>4

LEMMA MarkFound ==
  ASSUME NEW s, IsSeq(s), NEW i \in 1 .. Len(s), s[i].k = "mark",
         \A j \in 1 .. i - 1 : s[j].k # "mark"
  PROVE  Marked(s) /\ AfterMark(s) = SubSeq(s, i + 1, Len(s)) /\ IsSeq(AfterMark(s))
<1>1. Marked(s)
  BY DEF Marked
<1>2. PICK h \in 1 .. Len(s) :
        /\ s[h].k = "mark" /\ \A j \in 1 .. h - 1 : s[j].k # "mark"
        /\ AfterMark(s) = SubSeq(s, h + 1, Len(s))
  BY <1>1, FirstMark
<1>3. h = i
  <2>1. ~(h < i) /\ ~(i < h)
    BY <1>2, SeqIs
  <2> QED
    BY <2>1, SeqIs
<1>4. PICK U : s \in Seq(U)
  BY DEF IsSeq
<1>5. SubSeq(s, i + 1, Len(s)) \in Seq(U)
  BY <1>4
<1> QED
  BY <1>1, <1>2, <1>3, <1>5 DEF IsSeq

LEMMA RestOf ==
  ASSUME NEW s, NEW t, IsSeq(s), IsSeq(t), NEW i \in 1 .. Len(s)
  PROVE  SubSeq(s \o t, i + 1, Len(s \o t)) = SubSeq(s, i + 1, Len(s)) \o t
<1>1. PICK U : s \in Seq(U) /\ t \in Seq(U)
  BY TwoSeqs
<1>2. s \o t \in Seq(U) /\ Len(s \o t) = Len(s) + Len(t) /\ Len(s) \in Nat /\ Len(t) \in Nat
  BY <1>1
<1> DEFINE a == SubSeq(s \o t, i + 1, Len(s \o t))
           b == SubSeq(s, i + 1, Len(s))
<1>3. a \in Seq(U) /\ Len(a) = Len(s) + Len(t) - i
      /\ \A j \in 1 .. Len(s) + Len(t) - i : a[j] = (s \o t)[j + i]
  BY <1>1, <1>2
<1>4. b \in Seq(U) /\ Len(b) = Len(s) - i /\ \A j \in 1 .. Len(s) - i : b[j] = s[j + i]
  BY <1>1, <1>2
<1>5. b \o t \in Seq(U) /\ Len(b \o t) = Len(s) + Len(t) - i
  BY <1>1, <1>2, <1>4
<1>6. \A j \in 1 .. Len(s) + Len(t) - i : a[j] = (b \o t)[j]
  <2> TAKE j \in 1 .. Len(s) + Len(t) - i
  <2>1. CASE j <= Len(s) - i
    BY <2>1, <1>1, <1>2, <1>3, <1>4
  <2>2. CASE j > Len(s) - i
    <3>1. (b \o t)[j] = t[j - (Len(s) - i)]
      BY <2>2, <1>1, <1>2, <1>4
    <3>2. (s \o t)[j + i] = t[j + i - Len(s)]
      BY <2>2, <1>1, <1>2
    <3> QED
      BY <3>1, <3>2, <1>3, <1>2
  <2> QED
    BY <2>1, <2>2, <1>2
<1> HIDE DEF a, b
<1>7. a = b \o t
  <2>1. PICK n : n = Len(s) + Len(t) - i
    OBVIOUS
  <2>2. a \in [1 .. n -> U] /\ b \o t \in [1 .. n -> U]
    <3>1. Len(a) = n /\ Len(b \o t) = n
      BY <1>3, <1>5, <2>1
    <3>2. \A q \in Seq(U) : q \in [1 .. Len(q) -> U]
      OBVIOUS
    <3> QED
      BY <1>3, <1>5, <3>1, <3>2
  <2> QED
    BY <1>6, <2>1, <2>2
<1> QED
  BY <1>7 DEF a, b

LEMMA MarkedCat ==
  ASSUME NEW s, NEW t, IsSeq(s), IsSeq(t)
  PROVE  /\ Marked(s) => /\ Marked(s \o t) /\ AfterMark(s \o t) = AfterMark(s) \o t
                         /\ IsSeq(AfterMark(s))
         /\ ~Marked(s) /\ ~Marked(t) => ~Marked(s \o t)
<1>1. ASSUME Marked(s)
      PROVE  /\ Marked(s \o t) /\ AfterMark(s \o t) = AfterMark(s) \o t
             /\ IsSeq(AfterMark(s))
  <2>1. PICK i \in 1 .. Len(s) :
          /\ s[i].k = "mark" /\ \A j \in 1 .. i - 1 : s[j].k # "mark"
          /\ AfterMark(s) = SubSeq(s, i + 1, Len(s))
    BY <1>1, FirstMark
  <2>2. /\ IsSeq(s \o t) /\ i \in 1 .. Len(s \o t) /\ (s \o t)[i].k = "mark"
        /\ \A j \in 1 .. i - 1 : (s \o t)[j].k # "mark"
    BY <2>1, CatIs, SeqIs
  <2>3. Marked(s \o t) /\ AfterMark(s \o t) = SubSeq(s \o t, i + 1, Len(s \o t))
    BY <2>2, MarkFound
  <2>4. IsSeq(AfterMark(s))
    BY <2>1, MarkFound
  <2> QED
    BY <2>1, <2>3, <2>4, RestOf
<1>2. ASSUME ~Marked(s), ~Marked(t)
      PROVE  ~Marked(s \o t)
  <2>1. ASSUME NEW i \in 1 .. Len(s \o t)
        PROVE  (s \o t)[i].k # "mark"
    <3>1. CASE i <= Len(s)
      BY <3>1, <1>2, CatIs, SeqIs DEF Marked
    <3>2. CASE i > Len(s)
      <4>1. i - Len(s) \in 1 .. Len(t) /\ i = (i - Len(s)) + Len(s)
        BY <3>2, CatIs, SeqIs
      <4>2. (s \o t)[i] = t[i - Len(s)]
        BY <4>1, CatIs
      <4> QED
        BY <4>1, <4>2, <1>2 DEF Marked
    <3> QED
      BY <3>1, <3>2, CatIs, SeqIs
  <2> QED
    BY <2>1 DEF Marked
<1> QED
  BY <1>1, <1>2

\* A break finds the mark behind what comes before it.
LEMMA BreakFinds ==
  ASSUME NEW s, IsSeq(s), ~Marked(s), NEW w, w.k # "mark"
  PROVE  Marked(s \o <<w, Mark>>) /\ AfterMark(s \o <<w, Mark>>) = << >>
<1>1. IsSeq(<<w, Mark>>) /\ Len(<<w, Mark>>) = 2 /\ Len(s) \in Nat
  <2>1. <<w, Mark>> \in Seq({w, Mark})
    OBVIOUS
  <2> QED
    BY <2>1, SeqIs DEF IsSeq
<1> DEFINE t == s \o <<w, Mark>>
<1>2. IsSeq(t) /\ Len(t) = Len(s) + 2 /\ t[1 + Len(s)] = w /\ t[2 + Len(s)] = Mark
      /\ \A i \in 1 .. Len(s) : t[i] = s[i]
  BY <1>1, CatIs
<1> HIDE DEF t
<1>3. PICK i \in 1 .. Len(t) : i = Len(s) + 2
  BY <1>1, <1>2
<1>4. t[i].k = "mark" /\ \A j \in 1 .. i - 1 : t[j].k # "mark"
  BY <1>1, <1>2, <1>3 DEF Marked, Mark
<1>5. Marked(t) /\ AfterMark(t) = SubSeq(t, i + 1, Len(t))
  BY <1>2, <1>4, MarkFound
<1>6. SubSeq(t, i + 1, Len(t)) = << >>
  <2>1. PICK U : t \in Seq(U)
    BY <1>2 DEF IsSeq
  <2> QED
    BY <1>1, <1>2, <1>3, <2>1
<1> QED
  BY <1>5, <1>6 DEF t

-----------------------------------------------------------------------------
(* The VM between two events: I are the places it may be at *)

Silent(w) == w.op \in Branches \cup {"imm"}

Goes(w, m) == CASE w.op = "BR"  -> TRUE
                [] w.op = "BCT" -> m.flag
                [] w.op = "BCF" -> ~m.flag
                [] w.op = "BNZ" -> m.reg
                [] w.op = "BEZ" -> ~m.reg

Move(w, m) ==
  IF w.op \in Branches THEN [m EXCEPT !.ip = @ + BranchSize + (IF Goes(w, m) THEN w.by ELSE 0)]
  ELSE [m EXCEPT !.ip = @ + 1, !.reg = w.val]

Moves(c, I, m, P) ==
  m.ip \in I /\ Silent(c[m.ip + 1]) /\ Move(c[m.ip + 1], m) \in P

\* By silent steps alone m becomes x: whatever holds of x and goes back over
\* silent steps holds of m.
Reaches(c, I, m, x) ==
  \A P \in SUBSET Machine :
    x \in P /\ (\A y \in Machine : Moves(c, I, y, P) => y \in P) => m \in P

LEMMA ReachesSelf == \A c, I, m : Reaches(c, I, m, m)
BY DEF Reaches

LEMMA ReachesOn ==
  ASSUME NEW c, NEW I, NEW m, NEW x, NEW y, Reaches(c, I, m, x), Reaches(c, I, x, y)
  PROVE  Reaches(c, I, m, y)
BY DEF Reaches

LEMMA ReachesStep ==
  ASSUME NEW c, NEW I, NEW m \in Machine, m.ip \in I, Silent(c[m.ip + 1]),
         NEW x, Reaches(c, I, Move(c[m.ip + 1], m), x)
  PROVE  Reaches(c, I, m, x)
BY DEF Reaches, Moves

LEMMA ReachesMore ==
  ASSUME NEW c, NEW I, NEW d, NEW J, I \subseteq J, \A p \in I : d[p + 1] = c[p + 1],
         NEW m, NEW x, Reaches(c, I, m, x)
  PROVE  Reaches(d, J, m, x)
<1> SUFFICES ASSUME NEW P \in SUBSET Machine, x \in P,
                    \A y \in Machine : Moves(d, J, y, P) => y \in P
             PROVE  m \in P
  BY DEF Reaches
<1>1. \A y \in Machine : Moves(c, I, y, P) => y \in P
  BY DEF Moves
<1> QED
  BY <1>1 DEF Reaches

\* Silent steps are the only way.
LEMMA ReachesFirst ==
  ASSUME NEW c, NEW I, NEW x \in Machine, NEW m, Reaches(c, I, m, x)
  PROVE  \/ m = x
         \/ m.ip \in I /\ Silent(c[m.ip + 1]) /\ Reaches(c, I, Move(c[m.ip + 1], m), x)
<1> DEFINE P == {y \in Machine :
                   \/ y = x
                   \/ /\ y.ip \in I /\ Silent(c[y.ip + 1])
                      /\ Reaches(c, I, Move(c[y.ip + 1], y), x)}
<1>1. x \in P
  OBVIOUS
<1>2. ASSUME NEW y \in Machine, Moves(c, I, y, P)
      PROVE  y \in P
  <2>1. PICK z \in P : z = Move(c[y.ip + 1], y) /\ y.ip \in I /\ Silent(c[y.ip + 1])
    BY <1>2 DEF Moves
  <2>2. Reaches(c, I, z, x)
    <3>1. z = x \/ (z \in Machine /\ z.ip \in I /\ Silent(c[z.ip + 1])
                      /\ Reaches(c, I, Move(c[z.ip + 1], z), x))
      BY <2>1
    <3> QED
      BY <3>1, ReachesSelf, ReachesStep
  <2> QED
    BY <2>1, <2>2
<1>3. m \in P
  <2>1. P \in SUBSET Machine
    OBVIOUS
  <2> HIDE DEF P
  <2> QED
    BY <1>1, <1>2, <2>1 DEF Reaches
<1> QED
  BY <1>3

\* Where it gets to the VM is sure to get to.
LEMMA ReachesOne ==
  ASSUME NEW c, NEW I, NEW x \in Machine, NEW y \in Machine, NEW m,
         Reaches(c, I, m, x), Reaches(c, I, m, y),
         ~Silent(c[x.ip + 1]), ~Silent(c[y.ip + 1])
  PROVE  x = y
<1> DEFINE P == {z \in Machine : Reaches(c, I, z, y) => x = y}
<1>1. x \in P
  BY ReachesFirst
<1>2. ASSUME NEW z \in Machine, Moves(c, I, z, P)
      PROVE  z \in P
  <2>1. Move(c[z.ip + 1], z) \in P /\ Silent(c[z.ip + 1])
    BY <1>2 DEF Moves
  <2>2. ASSUME Reaches(c, I, z, y)
        PROVE  x = y
    <3>1. z # y
      BY <2>1
    <3>2. Reaches(c, I, Move(c[z.ip + 1], z), y)
      BY <2>2, <3>1, ReachesFirst
    <3> QED
      BY <2>1, <3>2
  <2> QED
    BY <2>2
<1>3. m \in P
  <2>1. P \in SUBSET Machine
    OBVIOUS
  <2> HIDE DEF P
  <2> QED
    BY <1>1, <1>2, <2>1 DEF Reaches
<1> QED
  BY <1>3

-----------------------------------------------------------------------------
(* Code and meaning side by side *)

\* What a step of the source leaves, and what an event does to the VM.
Tau(s) == IF Head(s).k = "break" THEN AfterMark(s) ELSE Unfold(Head(s)) \o Rest(s)
Answer(s, o) == Outcome(Head(s), o) \o Rest(s)
Does(w, m, o) ==
  CASE w.op = "BRI"  -> [m EXCEPT !.ip = @ + BranchSize + w.by]
    [] w.op = "set"  -> [m EXCEPT !.ip = @ + 1, !.flag = o # w.neg]
    [] w.op = "load" -> [m EXCEPT !.ip = @ + 1, !.reg = o # w.neg]
    [] w.op = "act"  -> [m EXCEPT !.ip = @ + 1]
    [] OTHER -> m

\* R is a set of pairs of a state of the VM and what the source has to do then.
Up(c, I, m, s, R) == \E x \in Machine : Reaches(c, I, m, x) /\ <<x, s>> \in R

\* One step of the source, which R follows.
Turn(c, I, m, s, R) ==
  /\ s # << >>
  /\ ~Visible(Head(s)) =>
       /\ IF Head(s).k = "break" THEN Marked(s) ELSE IsSeq(Unfold(Head(s)))
       /\ Up(c, I, m, Tau(s), R)
  /\ Visible(Head(s)) =>
       \E x \in Machine :
         /\ Reaches(c, I, m, x) /\ x.ip \in I /\ c[x.ip + 1].op \in Seen
         /\ WordEvent(c[x.ip + 1]) = SourceEvent(Head(s))
         /\ Head(s).k # "exit" =>
              \A o \in BOOLEAN : /\ IsSeq(Outcome(Head(s), o))
                                 /\ Up(c, I, Does(c[x.ip + 1], x, o), Answer(s, o), R)

\* What has been done when the VM gets to x, or a break from one of B.
Leave(m, s, x, B) ==
  \/ s = << >> /\ m.ip = x
  \/ s # << >> /\ Head(s).k = "break" /\ ~Marked(s) /\ m.ip \in B

IsPair(p) == p = <<p[1], p[2]>> /\ p[1] \in Machine /\ IsSeq(p[2])

Follows(c, I, R, x, B) ==
  \A p \in R : IsPair(p) /\ (Turn(c, I, p[1], p[2], R) \/ Leave(p[1], p[2], x, B))

\* From the places A on the code does what s says, and goes on at x.
Means(c, I, B, A, x, s) ==
  A # {} =>
    /\ IsSeq(s) /\ ~Marked(s)
    /\ \E R : /\ Follows(c, I, R, x, B)
              /\ \A m \in Machine : m.ip \in A => Up(c, I, m, s, R)

Item(cond, n, side, y, z) ==
  [k |-> "test", c |-> cond, n |-> n, side |-> side, yes |-> y, no |-> z]

\* The machines at one of the places A, with s to do.
At(A, s) == {<<m, s>> : m \in {x \in Machine : x.ip \in A}}

\* From the places A on the code evaluates a condition and goes on at one of Y
\* or at one of N.
Tests(c, I, A, Y, N, cond, n, side) ==
  A # {} =>
    \A y, z, t :
      (Y # {} => IsSeq(y)) /\ (N # {} => IsSeq(z)) /\ IsSeq(t) =>
        \E T :
          /\ \A p \in T : /\ IsPair(p)
                          /\ Turn(c, I, p[1], p[2], T \cup At(Y, y \o t) \cup At(N, z \o t))
          /\ \A m \in Machine :
               m.ip \in A => Up(c, I, m, <<Item(cond, n, side, y, z)>> \o t, T)

LEMMA UpSelf ==
  ASSUME NEW c, NEW I, NEW m \in Machine, NEW s, NEW R, <<m, s>> \in R
  PROVE  Up(c, I, m, s, R)
BY ReachesSelf DEF Up

LEMMA UpOn ==
  ASSUME NEW c, NEW I, NEW m, NEW x, Reaches(c, I, m, x), NEW s, NEW R, Up(c, I, x, s, R)
  PROVE  Up(c, I, m, s, R)
BY ReachesOn DEF Up

LEMMA UpMore ==
  ASSUME NEW c, NEW I, NEW m, NEW s, NEW R, Up(c, I, m, s, R),
         NEW Q, \A x \in Machine : <<x, s>> \in R => Up(c, I, x, s, Q)
  PROVE  Up(c, I, m, s, Q)
<1>1. PICK x \in Machine : Reaches(c, I, m, x) /\ <<x, s>> \in R
  BY DEF Up
<1> QED
  BY <1>1, UpOn

LEMMA TurnMore ==
  ASSUME NEW c, NEW I, NEW m, NEW s, NEW R, Turn(c, I, m, s, R),
         NEW Q, \A u : \A x \in Machine : <<x, u>> \in R => Up(c, I, x, u, Q)
  PROVE  Turn(c, I, m, s, Q)
<1>1. \A y, u : Up(c, I, y, u, R) => Up(c, I, y, u, Q)
  BY UpMore
<1> QED
  BY <1>1 DEF Turn

LEMMA TurnSub ==
  ASSUME NEW c, NEW I, NEW m, NEW s, NEW R, Turn(c, I, m, s, R), NEW Q, R \subseteq Q
  PROVE  Turn(c, I, m, s, Q)
BY TurnMore, UpSelf

LEMMA UpSub ==
  ASSUME NEW c, NEW I, NEW m, NEW s, NEW R, Up(c, I, m, s, R), NEW Q, R \subseteq Q
  PROVE  Up(c, I, m, s, Q)
BY DEF Up

LEMMA AtIs ==
  ASSUME NEW A, NEW s
  PROVE  /\ \A m \in Machine : m.ip \in A => <<m, s>> \in At(A, s)
         /\ \A p \in At(A, s) : p = <<p[1], p[2]>> /\ p[1] \in Machine /\ p[1].ip \in A /\ p[2] = s
BY DEF At

LEMMA AtPair ==
  ASSUME NEW A, NEW s, NEW v, NEW u, <<v, u>> \in At(A, s)
  PROVE  v \in Machine /\ v.ip \in A /\ u = s
BY DEF At

\* The rest of a machine's code does not matter.
LEMMA UpStays ==
  ASSUME NEW c, NEW I, NEW d, NEW J, I \subseteq J, \A p \in I : d[p + 1] = c[p + 1],
         NEW m, NEW s, NEW R, Up(c, I, m, s, R)
  PROVE  Up(d, J, m, s, R)
BY ReachesMore DEF Up

LEMMA TurnStays ==
  ASSUME NEW c, NEW I, NEW d, NEW J, I \subseteq J, \A p \in I : d[p + 1] = c[p + 1],
         NEW m, NEW s, NEW R, Turn(c, I, m, s, R)
  PROVE  Turn(d, J, m, s, R)
<1>1. \A y, u : Up(c, I, y, u, R) => Up(d, J, y, u, R)
  BY UpStays
<1>2. CASE ~Visible(Head(s))
  BY <1>1, <1>2 DEF Turn
<1>3. CASE Visible(Head(s))
  <2>1. PICK x \in Machine :
          /\ Reaches(c, I, m, x) /\ x.ip \in I /\ c[x.ip + 1].op \in Seen
          /\ WordEvent(c[x.ip + 1]) = SourceEvent(Head(s))
          /\ Head(s).k # "exit" =>
               \A o \in BOOLEAN : /\ IsSeq(Outcome(Head(s), o))
                                 /\ Up(c, I, Does(c[x.ip + 1], x, o), Answer(s, o), R)
    BY <1>3 DEF Turn
  <2>2. Reaches(d, J, m, x) /\ x.ip \in J /\ d[x.ip + 1] = c[x.ip + 1]
    BY <2>1, ReachesMore
  <2> QED
    BY <1>1, <1>3, <2>1, <2>2 DEF Turn
<1> QED
  BY <1>2, <1>3

LEMMA MeansStays ==
  ASSUME NEW c, NEW I, NEW d, NEW J, I \subseteq J, \A p \in I : d[p + 1] = c[p + 1],
         NEW B, NEW D, B \subseteq D, NEW A, NEW x, NEW s, Means(c, I, B, A, x, s)
  PROVE  Means(d, J, D, A, x, s)
<1> SUFFICES ASSUME A # {} PROVE Means(d, J, D, A, x, s)
  BY DEF Means
<1>1. PICK R : /\ Follows(c, I, R, x, B)
               /\ \A m \in Machine : m.ip \in A => Up(c, I, m, s, R)
  BY DEF Means
<1>2. Follows(d, J, R, x, D)
  <2> SUFFICES ASSUME NEW p \in R
               PROVE  IsPair(p) /\ (Turn(d, J, p[1], p[2], R) \/ Leave(p[1], p[2], x, D))
    BY DEF Follows
  <2>1. IsPair(p) /\ (Turn(c, I, p[1], p[2], R) \/ Leave(p[1], p[2], x, B))
    BY <1>1 DEF Follows
  <2>2. Leave(p[1], p[2], x, B) => Leave(p[1], p[2], x, D)
    BY DEF Leave
  <2> QED
    BY <2>1, <2>2, TurnStays
<1> QED
  BY <1>1, <1>2, UpStays DEF Means

LEMMA TestsStays ==
  ASSUME NEW c, NEW I, NEW d, NEW J, I \subseteq J, \A p \in I : d[p + 1] = c[p + 1],
         NEW A, NEW Y, NEW N, NEW cond, NEW n, NEW side, Tests(c, I, A, Y, N, cond, n, side)
  PROVE  Tests(d, J, A, Y, N, cond, n, side)
<1> SUFFICES ASSUME A # {}, NEW y, NEW z, NEW t, Y # {} => IsSeq(y), N # {} => IsSeq(z), IsSeq(t)
             PROVE  \E T :
                      /\ \A p \in T :
                           /\ IsPair(p)
                           /\ Turn(d, J, p[1], p[2], T \cup At(Y, y \o t) \cup At(N, z \o t))
                      /\ \A m \in Machine :
                           m.ip \in A => Up(d, J, m, <<Item(cond, n, side, y, z)>> \o t, T)
  BY DEF Tests
<1>1. PICK T :
          /\ \A p \in T : /\ IsPair(p)
                          /\ Turn(c, I, p[1], p[2], T \cup At(Y, y \o t) \cup At(N, z \o t))
          /\ \A m \in Machine :
               m.ip \in A => Up(c, I, m, <<Item(cond, n, side, y, z)>> \o t, T)
  BY DEF Tests
<1>2. \A p \in T : Turn(d, J, p[1], p[2], T \cup At(Y, y \o t) \cup At(N, z \o t))
  <2> TAKE p \in T
  <2>1. Turn(c, I, p[1], p[2], T \cup At(Y, y \o t) \cup At(N, z \o t))
    BY <1>1
  <2> QED
    BY <2>1, TurnStays
<1>3. \A m \in Machine : m.ip \in A => Up(d, J, m, <<Item(cond, n, side, y, z)>> \o t, T)
  BY <1>1, UpStays
<1> QED
  BY <1>1, <1>2, <1>3

-----------------------------------------------------------------------------
(* Putting code behind code *)

\* What R says is left to do, with u to do behind it.
Behind(R, u) == {<<p[1], p[2] \o u>> : p \in {q \in R : q[2] # << >>}}

LEMMA TauBehind ==
  ASSUME NEW s, IsSeq(s), s # << >>, NEW u, IsSeq(u), Head(s).k = "break" => Marked(s)
  PROVE  Tau(s \o u) = IF Head(s).k = "break" THEN AfterMark(s) \o u
                       ELSE Unfold(Head(s)) \o (Rest(s) \o u)
<1>1. s \o u # << >> /\ Head(s \o u) = Head(s) /\ Rest(s \o u) = Rest(s) \o u
  BY CatIs, RestBehind
<1> QED
  BY <1>1, MarkedCat DEF Tau

LEMMA UpBehind ==
  ASSUME NEW c, NEW I, NEW B, NEW R, NEW x, Follows(c, I, R, x, B),
         NEW u, IsSeq(u), NEW Q, Behind(R, u) \subseteq Q,
         \A m \in Machine : m.ip = x => Up(c, I, m, u, Q),
         NEW m, NEW s, Up(c, I, m, s, R)
  PROVE  Up(c, I, m, s \o u, Q)
<1>1. PICK v \in Machine : Reaches(c, I, m, v) /\ <<v, s>> \in R
  BY DEF Up
<1>2. IsPair(<<v, s>>) /\ (Turn(c, I, v, s, R) \/ Leave(v, s, x, B))
  BY <1>1 DEF Follows
<1>3. IsSeq(s)
  BY <1>2 DEF IsPair
<1>4. CASE s # << >>
  <2>1. <<v, s \o u>> \in Behind(R, u)
    BY <1>1, <1>4 DEF Behind
  <2> QED
    BY <1>1, <2>1 DEF Up
<1>5. CASE s = << >>
  <2>1. v.ip = x
    BY <1>2, <1>5 DEF Turn, Leave
  <2>2. Up(c, I, v, u, Q)
    BY <2>1
  <2>3. s \o u = u
    BY <1>5, CatIs, SingleIs
  <2> QED
    BY <1>1, <2>2, <2>3, UpOn
<1> QED
  BY <1>4, <1>5

\* A break that leaves what u is behind.
BreakBehind(p, u, B) ==
  \E s : /\ IsSeq(s) /\ s # << >> /\ Head(s).k = "break" /\ ~Marked(s)
         /\ p[2] = s \o u /\ p[1].ip \in B

LEMMA BehindFollows ==
  ASSUME NEW c, NEW I, NEW B, NEW R, NEW x, Follows(c, I, R, x, B),
         NEW u, IsSeq(u), NEW Q, Behind(R, u) \subseteq Q,
         \A v \in Machine : v.ip = x => Up(c, I, v, u, Q),
         NEW p \in Behind(R, u)
  PROVE  IsPair(p) /\ (Turn(c, I, p[1], p[2], Q) \/ BreakBehind(p, u, B))
<1>1. PICK q \in R : q[2] # << >> /\ p = <<q[1], q[2] \o u>>
  BY DEF Behind
<1>2. PICK m, s : m = q[1] /\ s = q[2]
  OBVIOUS
<1>3. /\ p[1] = m /\ p[2] = s \o u /\ p = <<m, s \o u>> /\ s # << >>
      /\ m \in Machine /\ IsSeq(s) /\ (Turn(c, I, m, s, R) \/ Leave(m, s, x, B))
  BY <1>1, <1>2 DEF Follows, IsPair
<1>4. /\ IsSeq(s \o u) /\ s \o u # << >> /\ Head(s \o u) = Head(s)
      /\ Rest(s \o u) = Rest(s) \o u /\ IsSeq(Rest(s))
  BY <1>3, CatIs, RestBehind
<1>5. IsPair(p)
  BY <1>3, <1>4 DEF IsPair
<1>u. \A v, w : Up(c, I, v, w, R) => Up(c, I, v, w \o u, Q)
  BY UpBehind
<1>6. CASE Leave(m, s, x, B)
  BY <1>3, <1>5, <1>6 DEF Leave, BreakBehind
<1>7. CASE Turn(c, I, m, s, R) /\ ~Visible(Head(s))
  <2>1. /\ IF Head(s).k = "break" THEN Marked(s) ELSE IsSeq(Unfold(Head(s)))
        /\ Up(c, I, m, Tau(s), R)
    BY <1>7 DEF Turn
  <2>2. Tau(s \o u) = Tau(s) \o u
    <3>1. CASE Head(s).k = "break"
      BY <2>1, <3>1, <1>3, TauBehind DEF Tau
    <3>2. CASE Head(s).k # "break"
      <4>1. Unfold(Head(s)) \o (Rest(s) \o u) = (Unfold(Head(s)) \o Rest(s)) \o u
        <5>1. PICK a : a = Unfold(Head(s)) /\ IsSeq(a)
          BY <2>1, <3>2
        <5>2. (a \o Rest(s)) \o u = a \o (Rest(s) \o u)
          <6>1. PICK t : t = Rest(s) /\ IsSeq(t) /\ IsSeq(u)
            BY <1>4, <1>3
          <6>2. (a \o t) \o u = a \o (t \o u)
            BY <5>1, <6>1, CatAssoc
          <6> QED
            BY <6>1, <6>2
        <5> QED
          BY <5>1, <5>2
      <4> QED
        BY <3>2, <4>1, <1>3, TauBehind DEF Tau
    <3> QED
      BY <3>1, <3>2
  <2>3. Up(c, I, m, Tau(s \o u), Q)
    BY <2>1, <2>2, <1>u
  <2>4. Head(s).k = "break" => Marked(s \o u)
    BY <2>1, <1>3, MarkedCat
  <2>5. Turn(c, I, m, s \o u, Q)
    BY <1>4, <1>7, <2>1, <2>3, <2>4 DEF Turn
  <2> QED
    BY <1>3, <1>5, <2>5
<1>8. CASE Turn(c, I, m, s, R) /\ Visible(Head(s))
  <2>1. PICK v \in Machine :
         /\ Reaches(c, I, m, v) /\ v.ip \in I /\ c[v.ip + 1].op \in Seen
         /\ WordEvent(c[v.ip + 1]) = SourceEvent(Head(s))
         /\ Head(s).k # "exit" =>
              \A o \in BOOLEAN : /\ IsSeq(Outcome(Head(s), o))
                                 /\ Up(c, I, Does(c[v.ip + 1], v, o), Answer(s, o), R)
    BY <1>8 DEF Turn
  <2>2. ASSUME Head(s).k # "exit", NEW o \in BOOLEAN
        PROVE  Up(c, I, Does(c[v.ip + 1], v, o), Answer(s \o u, o), Q)
    <3>1. /\ IsSeq(Outcome(Head(s), o))
          /\ Up(c, I, Does(c[v.ip + 1], v, o), Answer(s, o), R)
      BY <2>1, <2>2
    <3>2. Answer(s \o u, o) = Answer(s, o) \o u
      <4>1. PICK a : a = Outcome(Head(s), o) /\ IsSeq(a)
        BY <3>1
      <4>2. (a \o Rest(s)) \o u = a \o (Rest(s) \o u)
        <5>1. PICK t : t = Rest(s) /\ IsSeq(t) /\ IsSeq(u)
          BY <1>4, <1>3
        <5>2. (a \o t) \o u = a \o (t \o u)
          BY <4>1, <5>1, CatAssoc
        <5> QED
          BY <5>1, <5>2
      <4> QED
        BY <4>1, <4>2, <1>4 DEF Answer
    <3> QED
      BY <3>1, <3>2, <1>u
  <2>3. Turn(c, I, m, s \o u, Q)
    BY <1>4, <1>8, <2>1, <2>2 DEF Turn
  <2> QED
    BY <1>3, <1>5, <2>3
<1> QED
  BY <1>3, <1>6, <1>7, <1>8

LEMMA NoMarkIs == ~Marked(<< >>) /\ \A x : x.k # "mark" => ~Marked(<<x>>)
<1>1. ~Marked(<< >>)
  <2>1. 1 .. Len(<< >>) = {}
    OBVIOUS
  <2> QED
    BY <2>1 DEF Marked
<1>2. ASSUME NEW x, x.k # "mark"
      PROVE  ~Marked(<<x>>)
  <2>1. \A i \in 1 .. Len(<<x>>) : <<x>>[i] = x
    OBVIOUS
  <2> QED
    BY <1>2, <2>1 DEF Marked
<1> QED
  BY <1>1, <1>2

\* Nothing to do.
LEMMA NothingMeans ==
  ASSUME NEW c, NEW I, NEW B, NEW A, NEW x \in Nat,
         \A m \in Machine : m.ip \in A => \E v \in Machine : v.ip = x /\ Reaches(c, I, m, v)
  PROVE  Means(c, I, B, A, x, << >>)
<1> DEFINE R == At({x}, << >>)
<1>1. IsSeq(<< >>) /\ ~Marked(<< >>)
  BY SingleIs, NoMarkIs
<1>2. Follows(c, I, R, x, B)
  BY <1>1, AtIs DEF Follows, IsPair, Leave
<1>3. ASSUME NEW m \in Machine, m.ip \in A
      PROVE  Up(c, I, m, << >>, R)
  <2>1. PICK v \in Machine : v.ip = x /\ Reaches(c, I, m, v)
    BY <1>3
  <2>2. <<v, << >>>> \in R
    BY <2>1, AtIs
  <2> QED
    BY <2>1, <2>2 DEF Up
<1> QED
  BY <1>1, <1>2, <1>3 DEF Means

\* A statement behind a statement.
LEMMA SeqMeans ==
  ASSUME NEW c, NEW I, NEW B, NEW A, NEW x, NEW s, Means(c, I, B, A, x, s),
         NEW y, NEW t, Means(c, I, B, {x}, y, t)
  PROVE  Means(c, I, B, A, y, s \o t)
<1> SUFFICES ASSUME A # {}
             PROVE  /\ IsSeq(s \o t) /\ ~Marked(s \o t)
                    /\ \E R : /\ Follows(c, I, R, y, B)
                              /\ \A m \in Machine : m.ip \in A => Up(c, I, m, s \o t, R)
  BY DEF Means
<1>1. IsSeq(s) /\ ~Marked(s) /\ IsSeq(t) /\ ~Marked(t)
  BY DEF Means
<1>2. PICK R : /\ Follows(c, I, R, x, B)
               /\ \A m \in Machine : m.ip \in A => Up(c, I, m, s, R)
  BY DEF Means
<1>3. PICK T : /\ Follows(c, I, T, y, B)
               /\ \A m \in Machine : m.ip \in {x} => Up(c, I, m, t, T)
  BY DEF Means
<1> DEFINE Q == Behind(R, t) \cup T
<1>4. \A v \in Machine : v.ip = x => Up(c, I, v, t, Q)
  <2>1. T \subseteq Q
    OBVIOUS
  <2> HIDE DEF Q
  <2> QED
    BY <1>3, <2>1, UpSub
<1>5. ASSUME NEW p \in Q
      PROVE  IsPair(p) /\ (Turn(c, I, p[1], p[2], Q) \/ Leave(p[1], p[2], y, B))
  <2>1. CASE p \in Behind(R, t)
    <3>1. IsPair(p) /\ (Turn(c, I, p[1], p[2], Q) \/ BreakBehind(p, t, B))
      <4>1. Behind(R, t) \subseteq Q
        OBVIOUS
      <4> HIDE DEF Q
      <4> QED
        BY <1>1, <1>2, <1>4, <2>1, <4>1, BehindFollows
    <3>2. ASSUME NEW r, IsSeq(r), r # << >>, Head(r).k = "break", ~Marked(r),
                 p[2] = r \o t, p[1].ip \in B
          PROVE  Leave(p[1], p[2], y, B)
      BY <1>1, <3>2, CatIs, MarkedCat DEF Leave
    <3> QED
      BY <3>1, <3>2 DEF BreakBehind
  <2>2. CASE p \in T
    <3>1. IsPair(p) /\ (Turn(c, I, p[1], p[2], T) \/ Leave(p[1], p[2], y, B))
      BY <2>2, <1>3 DEF Follows
    <3> QED
      BY <3>1, TurnSub
  <2> QED
    BY <2>1, <2>2
<1>6. ASSUME NEW m \in Machine, m.ip \in A
      PROVE  Up(c, I, m, s \o t, Q)
  <2>1. Behind(R, t) \subseteq Q /\ Up(c, I, m, s, R)
    BY <1>2, <1>6
  <2> HIDE DEF Q
  <2> QED
    BY <1>1, <1>2, <1>4, <2>1, UpBehind
<1>7. Follows(c, I, Q, y, B)
  BY <1>5 DEF Follows
<1>8. IsSeq(s \o t) /\ ~Marked(s \o t)
  BY <1>1, CatIs, MarkedCat
<1> QED
  BY <1>6, <1>7, <1>8

-----------------------------------------------------------------------------
(* Single words *)

LEMMA OneIs ==
  ASSUME NEW h
  PROVE  /\ IsSeq(<<h>>) /\ <<h>> # << >> /\ Head(<<h>>) = h /\ Rest(<<h>>) = << >>
         /\ h.k # "mark" => ~Marked(<<h>>)
BY SingleIs, NoMarkIs DEF Rest

LEMMA NoneIs == IsSeq(<< >>) /\ << >> \o << >> = << >>
BY SingleIs, CatIs

LEMMA EventMeans ==
  ASSUME NEW c, NEW I, NEW B, NEW a \in Nat, a \in I, NEW x \in Nat, NEW n, NEW what,
         c[a + 1].op \in Seen, WordEvent(c[a + 1]) = <<n, what>>,
         \A m \in Machine : m.ip = a =>
           \A o \in BOOLEAN : Does(c[a + 1], m, o) \in Machine /\ Does(c[a + 1], m, o).ip = x
  PROVE  Means(c, I, B, {a}, x, <<Act(n, what)>>)
<1> DEFINE s == <<Act(n, what)>>
           R == At({a}, s) \cup At({x}, << >>)
<1>h. Act(n, what).k = "act" /\ SourceEvent(Act(n, what)) = <<n, what>>
  BY DEF Act, SourceEvent
<1>1. IsSeq(s) /\ s # << >> /\ Head(s) = Act(n, what) /\ Rest(s) = << >> /\ ~Marked(s)
  BY <1>h, OneIs
<1> HIDE DEF s
<1>2. Visible(Head(s)) /\ SourceEvent(Head(s)) = <<n, what>> /\ Head(s).k # "exit"
  BY <1>h, <1>1 DEF Visible
<1>3. \A o \in BOOLEAN : Outcome(Head(s), o) = << >> /\ Answer(s, o) = << >>
  BY <1>h, <1>1, NoneIs DEF Outcome, Answer
<1>4. ASSUME NEW m \in Machine, m.ip = a
      PROVE  Turn(c, I, m, s, R)
  <2>1. ASSUME NEW o \in BOOLEAN
        PROVE  Up(c, I, Does(c[m.ip + 1], m, o), Answer(s, o), R)
    <3>1. Does(c[m.ip + 1], m, o) \in Machine /\ Does(c[m.ip + 1], m, o).ip = x
      BY <1>4
    <3>2. <<Does(c[m.ip + 1], m, o), << >>>> \in R
      BY <3>1, AtIs
    <3> QED
      BY <1>3, <3>1, <3>2, UpSelf
  <2> QED
    BY <1>1, <1>2, <1>3, <1>4, <2>1, NoneIs, ReachesSelf DEF Turn
<1>5. Follows(c, I, R, x, B)
  <2> SUFFICES ASSUME NEW p \in R
               PROVE  IsPair(p) /\ (Turn(c, I, p[1], p[2], R) \/ Leave(p[1], p[2], x, B))
    BY DEF Follows
  <2>1. CASE p \in At({a}, s)
    <3>1. p = <<p[1], p[2]>> /\ p[1] \in Machine /\ p[1].ip = a /\ p[2] = s
      BY <2>1, AtIs
    <3>2. Turn(c, I, p[1], s, R)
      BY <3>1, <1>4
    <3> QED
      BY <1>1, <3>1, <3>2 DEF IsPair
  <2>2. CASE p \in At({x}, << >>)
    BY <2>2, AtIs, NoneIs DEF IsPair, Leave
  <2> QED
    BY <2>1, <2>2
<1>6. ASSUME NEW m \in Machine, m.ip \in {a}
      PROVE  Up(c, I, m, s, R)
  BY <1>6, AtIs, UpSelf
<1> HIDE DEF R
<1> QED
  BY <1>1, <1>5, <1>6 DEF Means, s

LEMMA ExitMeans ==
  ASSUME NEW c, NEW I, NEW B, NEW a \in Nat, a \in I, NEW x, c[a + 1].op = "EXIT"
  PROVE  Means(c, I, B, {a}, x, <<[k |-> "exit"]>>)
<1> DEFINE s == <<[k |-> "exit"]>>
           R == At({a}, s)
<1>1. IsSeq(s) /\ s # << >> /\ Head(s) = [k |-> "exit"] /\ ~Marked(s)
  BY OneIs
<1> HIDE DEF s
<1>2. /\ Visible(Head(s)) /\ SourceEvent(Head(s)) = <<"exit">> /\ Head(s).k = "exit"
      /\ WordEvent(c[a + 1]) = <<"exit">> /\ c[a + 1].op \in Seen
  BY <1>1 DEF Visible, SourceEvent, WordEvent, Seen
<1>3. ASSUME NEW p \in R
      PROVE  IsPair(p) /\ Turn(c, I, p[1], p[2], R)
  <2>1. IsPair(p) /\ p[1] \in Machine /\ p[1].ip = a /\ p[2] = s
    BY <1>1, AtIs DEF IsPair
  <2>2. Turn(c, I, p[1], s, R)
    BY <1>1, <1>2, <2>1, ReachesSelf DEF Turn
  <2> QED
    BY <2>1, <2>2
<1>4. \A m \in Machine : m.ip \in {a} => Up(c, I, m, s, R)
  BY AtIs, UpSelf
<1> HIDE DEF R
<1> QED
  BY <1>1, <1>3, <1>4 DEF Means, Follows, s

LEMMA BreakMeans ==
  ASSUME NEW c, NEW I, NEW B, NEW a \in B, NEW x
  PROVE  Means(c, I, B, {a}, x, <<[k |-> "break"]>>)
<1> DEFINE s == <<[k |-> "break"]>>
           R == At({a}, s)
<1>1. IsSeq(s) /\ s # << >> /\ Head(s).k = "break" /\ ~Marked(s)
  BY OneIs
<1> HIDE DEF s
<1>2. ASSUME NEW p \in R
      PROVE  IsPair(p) /\ Leave(p[1], p[2], x, B)
  BY <1>1, AtIs DEF IsPair, Leave
<1>3. \A m \in Machine : m.ip \in {a} => Up(c, I, m, s, R)
  BY AtIs, UpSelf
<1> HIDE DEF R
<1> QED
  BY <1>1, <1>2, <1>3 DEF Means, Follows, s

-----------------------------------------------------------------------------
(* Statements made of statements *)

\* IF, from the code of its condition and of its branches.
LEMMA IfMeans ==
  ASSUME NEW c, NEW I, NEW B, NEW A, NEW Y, NEW N, NEW cond, NEW n, NEW side,
         Tests(c, I, A, Y, N, cond, n, side), NEW x,
         NEW y, Means(c, I, B, Y, x, y), NEW z, Means(c, I, B, N, x, z)
  PROVE  Means(c, I, B, A, x, <<Item(cond, n, side, y, z)>>)
<1> SUFFICES ASSUME A # {} PROVE Means(c, I, B, A, x, <<Item(cond, n, side, y, z)>>)
  BY DEF Means
<1> DEFINE s == <<Item(cond, n, side, y, z)>>
<1>1. IsSeq(s) /\ ~Marked(s) /\ s \o << >> = s
  <2>1. IsSeq(s) /\ ~Marked(s)
    BY OneIs DEF Item
  <2> QED
    BY <2>1, CatIs, NoneIs
<1>2. (Y # {} => IsSeq(y)) /\ (N # {} => IsSeq(z))
  BY DEF Means
<1>3. PICK T :
        /\ \A p \in T : /\ IsPair(p)
                        /\ Turn(c, I, p[1], p[2],
                                T \cup At(Y, y \o << >>) \cup At(N, z \o << >>))
        /\ \A m \in Machine : m.ip \in A => Up(c, I, m, s, T)
  BY <1>1, <1>2, NoneIs DEF Tests
<1>4. \E R : /\ Follows(c, I, R, x, B)
             /\ \A m \in Machine : m.ip \in Y => Up(c, I, m, y \o << >>, R)
  BY <1>2, CatIs, NoneIs DEF Means, Follows
<1>5. \E R : /\ Follows(c, I, R, x, B)
             /\ \A m \in Machine : m.ip \in N => Up(c, I, m, z \o << >>, R)
  BY <1>2, CatIs, NoneIs DEF Means, Follows
<1>6. PICK Ry : /\ Follows(c, I, Ry, x, B)
                /\ \A m \in Machine : m.ip \in Y => Up(c, I, m, y \o << >>, Ry)
  BY <1>4
<1>7. PICK Rn : /\ Follows(c, I, Rn, x, B)
                /\ \A m \in Machine : m.ip \in N => Up(c, I, m, z \o << >>, Rn)
  BY <1>5
<1> DEFINE Q == T \cup Ry \cup Rn
<1>s. T \subseteq Q /\ Ry \subseteq Q /\ Rn \subseteq Q /\ \A p \in Q : p \in T \/ p \in Ry \/ p \in Rn
  OBVIOUS
<1> HIDE DEF Q
<1>8. ASSUME NEW v \in Machine, NEW u,
             <<v, u>> \in T \cup At(Y, y \o << >>) \cup At(N, z \o << >>)
      PROVE  Up(c, I, v, u, Q)
  <2>1. CASE <<v, u>> \in T
    BY <2>1, <1>s, UpSelf
  <2>2. CASE <<v, u>> \in At(Y, y \o << >>)
    <3>1. v.ip \in Y /\ u = y \o << >>
      BY <2>2, AtIs
    <3> QED
      BY <3>1, <1>6, <1>s, UpSub
  <2>3. CASE <<v, u>> \in At(N, z \o << >>)
    <3>1. v.ip \in N /\ u = z \o << >>
      BY <2>3, AtIs
    <3> QED
      BY <3>1, <1>7, <1>s, UpSub
  <2> QED
    BY <1>8, <2>1, <2>2, <2>3
<1>9. ASSUME NEW p \in Q
      PROVE  IsPair(p) /\ (Turn(c, I, p[1], p[2], Q) \/ Leave(p[1], p[2], x, B))
  <2>1. CASE p \in T
    BY <2>1, <1>3, <1>8, TurnMore
  <2>2. CASE p \in Ry
    BY <2>2, <1>6, <1>s, TurnSub DEF Follows
  <2>3. CASE p \in Rn
    BY <2>3, <1>7, <1>s, TurnSub DEF Follows
  <2> QED
    BY <1>s, <2>1, <2>2, <2>3
<1>10. \A m \in Machine : m.ip \in A => Up(c, I, m, s, Q)
  BY <1>3, <1>s, UpSub
<1> HIDE DEF s
<1> QED
  BY <1>1, <1>9, <1>10 DEF Means, Follows, s

\* WHILE and FOR: w is a turn of the loop.
LEMMA LoopMeans ==
  ASSUME NEW c, NEW I, NEW B, NEW head, NEW Y, NEW x, NEW cond, NEW n,
         Tests(c, I, {head}, Y, {x}, cond, n, 1),
         NEW body, Means(c, I, B, Y, head, body),
         \A m \in Machine : m.ip \in B => \E v \in Machine : v.ip = x /\ Reaches(c, I, m, v),
         NEW w, w.k \notin {"mark", "break"}, ~Visible(w),
         NEW y, Y # {} => y = body \o <<w>>, Unfold(w) = <<Item(cond, n, 1, y, << >>)>>
  PROVE  Means(c, I, {}, {head}, x, <<[k |-> "loop", again |-> w]>>)
<1> DEFINE l == [k |-> "loop", again |-> w]
           i == Item(cond, n, 1, y, << >>)
           tail == <<w, Mark>>
<1>m. Mark.k = "mark" /\ Unfold(Mark) = << >> /\ ~Visible(Mark)
  BY DEF Mark, Unfold, Visible
<1>l. /\ l.k \notin {"mark", "break"} /\ Unfold(l) = <<w, Mark>> /\ ~Visible(l)
      /\ i.k = "test"
  BY DEF Unfold, Visible, Item
<1>b. Y # {} => IsSeq(body)
  BY DEF Means
<1>t. /\ IsSeq(tail) /\ tail # << >> /\ Head(tail) = w /\ Rest(tail) = <<Mark>>
      /\ <<w>> \o <<Mark>> = tail /\ tail \o << >> = tail
  <2>1. tail \in Seq({w, Mark})
    OBVIOUS
  <2>2. IsSeq(tail)
    BY <2>1 DEF IsSeq
  <2>3. tail # << >> /\ Head(tail) = w /\ Rest(tail) = <<Mark>> /\ <<w>> \o <<Mark>> = tail
    <3>1. <<w>> \o <<Mark>> = tail /\ IsSeq(<<Mark>>)
      BY OneIs, TwoAre
    <3> QED
      BY <3>1, RestSingle
  <2> QED
    BY <2>2, <2>3, CatIs, NoneIs
<1>w. Y # {} => IsSeq(y) /\ y \o <<Mark>> = body \o tail
  <2> SUFFICES ASSUME Y # {} PROVE IsSeq(y) /\ y \o <<Mark>> = body \o tail
    OBVIOUS
  <2>1. IsSeq(<<w>>) /\ IsSeq(<<Mark>>)
    BY OneIs
  <2>2. IsSeq(body \o <<w>>)
    BY <1>b, <2>1, CatIs
  <2>3. (body \o <<w>>) \o <<Mark>> = body \o (<<w>> \o <<Mark>>)
    BY <1>b, <2>1, CatAssoc
  <2> QED
    BY <1>t, <2>1, <2>2, <2>3
<1>1. PICK R : /\ Follows(c, I, R, head, B)
               /\ \A m \in Machine : m.ip \in Y => Up(c, I, m, body, R)
  <2>1. CASE Y = {}
    <3>1. Follows(c, I, {}, head, B)
      BY DEF Follows
    <3> QED
      BY <2>1, <3>1
  <2>2. CASE Y # {}
    BY <2>2 DEF Means
  <2> QED
    BY <2>1, <2>2
<1>2. PICK T :
        /\ \A p \in T : /\ IsPair(p)
                        /\ Turn(c, I, p[1], p[2],
                                T \cup At(Y, y \o <<Mark>>) \cup At({x}, <<Mark>>))
        /\ \A m \in Machine : m.ip \in {head} => Up(c, I, m, <<i>> \o <<Mark>>, T)
  <2>1. << >> \o <<Mark>> = <<Mark>> /\ IsSeq(<<Mark>>)
    BY OneIs, NoneIs, CatIs
  <2> QED
    BY <1>w, <2>1, NoneIs DEF Tests
<1> DEFINE Q == Behind(R, tail) \cup T \cup At({head}, <<l>>) \cup At({head}, tail)
                  \cup At({x}, <<Mark>>) \cup At({x}, << >>)
<1>3. /\ Behind(R, tail) \subseteq Q /\ T \subseteq Q /\ At({head}, <<l>>) \subseteq Q
      /\ At({head}, tail) \subseteq Q /\ At({x}, <<Mark>>) \subseteq Q /\ At({x}, << >>) \subseteq Q
      /\ \A p \in Q : \/ p \in Behind(R, tail) \/ p \in T \/ p \in At({head}, <<l>>)
                      \/ p \in At({head}, tail) \/ p \in At({x}, <<Mark>>) \/ p \in At({x}, << >>)
  OBVIOUS
<1> HIDE DEF Q, tail, l, i
<1>4. /\ \A m \in Machine : m.ip = head => Up(c, I, m, <<l>>, Q) /\ Up(c, I, m, tail, Q)
      /\ \A m \in Machine : m.ip = x => Up(c, I, m, <<Mark>>, Q) /\ Up(c, I, m, << >>, Q)
  BY <1>3, AtIs, UpSelf
<1>5. ASSUME NEW v \in Machine, NEW u,
             <<v, u>> \in T \cup At(Y, y \o <<Mark>>) \cup At({x}, <<Mark>>)
      PROVE  Up(c, I, v, u, Q)
  <2>1. CASE <<v, u>> \in T
    BY <2>1, <1>3, UpSelf
  <2>2. CASE <<v, u>> \in At(Y, y \o <<Mark>>)
    <3>1. v.ip \in Y /\ u = body \o tail
      <4>1. v.ip \in Y /\ u = y \o <<Mark>>
        BY <2>2, AtPair
      <4> QED
        BY <4>1, <1>w
    <3>2. Up(c, I, v, body, R)
      BY <3>1, <1>1
    <3>3. Up(c, I, v, body \o tail, Q)
      BY <1>1, <1>3, <1>4, <1>t, <3>2, UpBehind
    <3> QED
      BY <3>1, <3>3
  <2>3. CASE <<v, u>> \in At({x}, <<Mark>>)
    BY <2>3, <1>3, UpSelf
  <2> QED
    BY <1>5, <2>1, <2>2, <2>3
<1>6. ASSUME NEW p \in Q
      PROVE  IsPair(p) /\ (Turn(c, I, p[1], p[2], Q) \/ Leave(p[1], p[2], x, {}))
  <2>1. CASE p \in Behind(R, tail)
    <3>1. IsPair(p) /\ (Turn(c, I, p[1], p[2], Q) \/ BreakBehind(p, tail, B))
      <4>1. \A v \in Machine : v.ip = head => Up(c, I, v, tail, Q)
        BY <1>4
      <4>2. /\ Follows(c, I, R, head, B) /\ IsSeq(tail) /\ Behind(R, tail) \subseteq Q
            /\ p \in Behind(R, tail)
        BY <1>1, <1>3, <1>t, <2>1
      <4> QED
        BY <4>1, <4>2, BehindFollows
    <3>2. ASSUME NEW s, IsSeq(s), s # << >>, Head(s).k = "break", ~Marked(s),
                 p[2] = s \o tail, p[1].ip \in B
          PROVE  Turn(c, I, p[1], p[2], Q)
      <4>1. s \o tail # << >> /\ Head(s \o tail).k = "break"
        BY <3>2, <1>t, CatIs
      <4>2. Marked(s \o tail) /\ AfterMark(s \o tail) = << >>
        BY <3>2, BreakFinds DEF tail
      <4>3. p[1] \in Machine
        BY <3>1 DEF IsPair
      <4>4. PICK v \in Machine : v.ip = x /\ Reaches(c, I, p[1], v)
        BY <3>2, <4>3
      <4>5. Up(c, I, p[1], << >>, Q)
        BY <1>4, <4>4, UpOn
      <4>6. ~Visible(Head(s \o tail)) /\ Tau(s \o tail) = << >>
        BY <4>1, <4>2 DEF Visible, Tau
      <4> QED
        BY <3>2, <4>1, <4>2, <4>5, <4>6 DEF Turn
    <3> QED
      BY <3>1, <3>2 DEF BreakBehind
  <2>2. CASE p \in T
    BY <2>2, <1>2, <1>5, TurnMore
  <2>3. CASE p \in At({head}, <<l>>)
    <3>1. p = <<p[1], p[2]>> /\ p[1] \in Machine /\ p[1].ip = head /\ p[2] = <<l>>
      BY <2>3, AtIs
    <3>2. <<l>> # << >> /\ Head(<<l>>) = l /\ Rest(<<l>>) = << >> /\ IsSeq(<<l>>)
      BY OneIs
    <3>3. ~Visible(l) /\ l.k # "break" /\ Unfold(l) = tail
      BY <1>l DEF l, tail
    <3>4. Tau(<<l>>) = tail
      BY <3>2, <3>3, <1>t DEF Tau
    <3> QED
      BY <3>1, <3>2, <3>3, <3>4, <1>4, <1>t DEF Turn, IsPair
  <2>4. CASE p \in At({head}, tail)
    <3>1. p = <<p[1], p[2]>> /\ p[1] \in Machine /\ p[1].ip = head /\ p[2] = tail
      BY <2>4, AtIs
    <3>2. Unfold(w) = <<i>> /\ IsSeq(<<i>>)
      BY OneIs DEF i
    <3>3. Tau(tail) = <<i>> \o <<Mark>>
      BY <3>2, <1>t DEF Tau
    <3>4. Up(c, I, p[1], <<i>> \o <<Mark>>, Q)
      BY <3>1, <1>2, <1>3, UpSub
    <3> QED
      BY <3>1, <3>2, <3>3, <3>4, <1>t DEF Turn, IsPair
  <2>5. CASE p \in At({x}, <<Mark>>)
    <3>1. p = <<p[1], p[2]>> /\ p[1] \in Machine /\ p[1].ip = x /\ p[2] = <<Mark>>
      BY <2>5, AtIs
    <3>2. <<Mark>> # << >> /\ Head(<<Mark>>) = Mark /\ Rest(<<Mark>>) = << >> /\ IsSeq(<<Mark>>)
      BY OneIs
    <3>3. Tau(<<Mark>>) = << >>
      BY <1>m, <3>2, NoneIs DEF Tau
    <3> QED
      BY <3>1, <3>2, <3>3, <1>4, <1>m, NoneIs DEF Turn, IsPair
  <2>6. CASE p \in At({x}, << >>)
    BY <2>6, AtIs, NoneIs DEF IsPair, Leave
  <2> QED
    BY <1>3, <2>1, <2>2, <2>3, <2>4, <2>5, <2>6
<1>7. IsSeq(<<l>>) /\ ~Marked(<<l>>)
  BY <1>l, OneIs DEF l
<1> QED
  BY <1>4, <1>6, <1>7 DEF Means, Follows, l

\* REPEAT: the test comes after the body, and no break leads out.
LEMMA RepeatMeans ==
  ASSUME NEW c, NEW I, NEW B, NEW head, NEW u, NEW x, NEW cond, NEW n,
         NEW body, Means(c, I, {}, {head}, u, body),
         Tests(c, I, {u}, {x}, {head}, cond, n, 1),
         NEW w, w.k \notin {"mark", "break"}, ~Visible(w),
         Unfold(w) = body \o <<Item(cond, n, 1, << >>, <<w>>)>>
  PROVE  Means(c, I, B, {head}, x, <<[k |-> "loop", again |-> w]>>)
<1> DEFINE l == [k |-> "loop", again |-> w]
           i == Item(cond, n, 1, << >>, <<w>>)
           tail == <<w, Mark>>
           last == <<i>> \o <<Mark>>
<1>m. Mark.k = "mark" /\ Unfold(Mark) = << >> /\ ~Visible(Mark)
  BY DEF Mark, Unfold, Visible
<1>l. l.k \notin {"mark", "break"} /\ Unfold(l) = <<w, Mark>> /\ ~Visible(l)
  BY DEF Unfold, Visible
<1>b. IsSeq(body) /\ IsSeq(<<w>>) /\ IsSeq(<<Mark>>) /\ IsSeq(<<i>>)
  BY OneIs DEF Means
<1>t. /\ tail # << >> /\ Head(tail) = w /\ Rest(tail) = <<Mark>>
      /\ <<w>> \o <<Mark>> = tail /\ IsSeq(tail) /\ tail \o << >> = tail
  <2>1. <<w>> \o <<Mark>> = tail
    BY TwoAre
  <2>2. IsSeq(<<w>> \o <<Mark>>)
    BY <1>b, CatIs
  <2>3. IsSeq(tail)
    BY <2>1, <2>2
  <2>4. tail # << >> /\ Head(tail) = w /\ Rest(tail) = <<Mark>>
    BY <1>b, <2>1, RestSingle
  <2> HIDE DEF tail
  <2> QED
    BY <2>1, <2>3, <2>4, CatIs, NoneIs
<1>i. IsSeq(last) /\ IsSeq(body \o <<i>>) /\ (body \o <<i>>) \o <<Mark>> = body \o last
  BY <1>b, CatIs, CatAssoc
<1>1. PICK R : /\ Follows(c, I, R, u, {})
               /\ \A m \in Machine : m.ip \in {head} => Up(c, I, m, body, R)
  BY DEF Means
<1>2. PICK T :
        /\ \A p \in T : /\ IsPair(p)
                        /\ Turn(c, I, p[1], p[2],
                                T \cup At({x}, << >> \o <<Mark>>) \cup At({head}, <<w>> \o <<Mark>>))
        /\ \A m \in Machine : m.ip \in {u} => Up(c, I, m, <<i>> \o <<Mark>>, T)
  BY <1>b, NoneIs DEF Tests
<1>e. << >> \o <<Mark>> = <<Mark>>
  BY <1>b, NoneIs, CatIs
<1> DEFINE Q == Behind(R, last) \cup T \cup At({head}, <<l>>) \cup At({head}, tail)
                  \cup At({x}, <<Mark>>) \cup At({x}, << >>)
<1>3. /\ Behind(R, last) \subseteq Q /\ T \subseteq Q /\ At({head}, <<l>>) \subseteq Q
      /\ At({head}, tail) \subseteq Q /\ At({x}, <<Mark>>) \subseteq Q /\ At({x}, << >>) \subseteq Q
      /\ \A p \in Q : \/ p \in Behind(R, last) \/ p \in T \/ p \in At({head}, <<l>>)
                      \/ p \in At({head}, tail) \/ p \in At({x}, <<Mark>>) \/ p \in At({x}, << >>)
  OBVIOUS
<1> HIDE DEF Q, tail, l, i, last
<1>4. /\ \A m \in Machine : m.ip = head => Up(c, I, m, <<l>>, Q) /\ Up(c, I, m, tail, Q)
      /\ \A m \in Machine : m.ip = x => Up(c, I, m, <<Mark>>, Q) /\ Up(c, I, m, << >>, Q)
  BY <1>3, AtIs, UpSelf
<1>5. ASSUME NEW v \in Machine, NEW s,
             <<v, s>> \in T \cup At({x}, << >> \o <<Mark>>) \cup At({head}, <<w>> \o <<Mark>>)
      PROVE  Up(c, I, v, s, Q)
  <2>1. CASE <<v, s>> \in T
    BY <2>1, <1>3, UpSelf
  <2>2. CASE <<v, s>> \in At({x}, << >> \o <<Mark>>)
    <3>1. v.ip \in {x} /\ s = << >> \o <<Mark>>
      BY <2>2, AtPair
    <3> QED
      BY <3>1, <1>e, <1>4
  <2>3. CASE <<v, s>> \in At({head}, <<w>> \o <<Mark>>)
    <3>1. v.ip \in {head} /\ s = <<w>> \o <<Mark>>
      BY <2>3, AtPair
    <3> QED
      BY <3>1, <1>t, <1>4
  <2> QED
    BY <1>5, <2>1, <2>2, <2>3
<1>6. \A v \in Machine : v.ip = u => Up(c, I, v, last, Q)
  BY <1>2, <1>3, UpSub DEF last
<1>7. ASSUME NEW p \in Q
      PROVE  IsPair(p) /\ (Turn(c, I, p[1], p[2], Q) \/ Leave(p[1], p[2], x, B))
  <2>1. CASE p \in Behind(R, last)
    <3>1. IsPair(p) /\ (Turn(c, I, p[1], p[2], Q) \/ BreakBehind(p, last, {}))
      <4>1. /\ Follows(c, I, R, u, {}) /\ IsSeq(last) /\ Behind(R, last) \subseteq Q
            /\ p \in Behind(R, last)
        BY <1>1, <1>3, <1>i, <2>1
      <4> QED
        BY <1>6, <4>1, BehindFollows
    <3> QED
      BY <3>1 DEF BreakBehind
  <2>2. CASE p \in T
    BY <2>2, <1>2, <1>5, TurnMore
  <2>3. CASE p \in At({head}, <<l>>)
    <3>1. p = <<p[1], p[2]>> /\ p[1] \in Machine /\ p[1].ip = head /\ p[2] = <<l>>
      BY <2>3, AtIs
    <3>2. <<l>> # << >> /\ Head(<<l>>) = l /\ Rest(<<l>>) = << >> /\ IsSeq(<<l>>)
      BY OneIs
    <3>3. ~Visible(l) /\ l.k # "break" /\ Unfold(l) = tail
      BY <1>l DEF l, tail
    <3>4. Tau(<<l>>) = tail
      BY <3>2, <3>3, <1>t DEF Tau
    <3> QED
      BY <3>1, <3>2, <3>3, <3>4, <1>4, <1>t DEF Turn, IsPair
  <2>4. CASE p \in At({head}, tail)
    <3>1. p = <<p[1], p[2]>> /\ p[1] \in Machine /\ p[1].ip = head /\ p[2] = tail
      BY <2>4, AtIs
    <3>2. Unfold(w) = body \o <<i>> /\ IsSeq(body \o <<i>>)
      BY <1>i DEF i
    <3>3. Tau(tail) = body \o last
      BY <3>2, <1>i, <1>t DEF Tau
    <3>4. Up(c, I, p[1], body, R)
      BY <3>1, <1>1
    <3>5. Up(c, I, p[1], body \o last, Q)
      BY <1>1, <1>3, <1>6, <1>i, <3>4, UpBehind
    <3> QED
      BY <3>1, <3>2, <3>3, <3>5, <1>t DEF Turn, IsPair
  <2>5. CASE p \in At({x}, <<Mark>>)
    <3>1. p = <<p[1], p[2]>> /\ p[1] \in Machine /\ p[1].ip = x /\ p[2] = <<Mark>>
      BY <2>5, AtIs
    <3>2. <<Mark>> # << >> /\ Head(<<Mark>>) = Mark /\ Rest(<<Mark>>) = << >> /\ IsSeq(<<Mark>>)
      BY OneIs
    <3>3. Tau(<<Mark>>) = << >>
      BY <1>m, <3>2, NoneIs DEF Tau
    <3> QED
      BY <3>1, <3>2, <3>3, <1>4, <1>m, NoneIs DEF Turn, IsPair
  <2>6. CASE p \in At({x}, << >>)
    BY <2>6, AtIs, NoneIs DEF IsPair, Leave
  <2> QED
    BY <1>3, <2>1, <2>2, <2>3, <2>4, <2>5, <2>6
<1>8. IsSeq(<<l>>) /\ ~Marked(<<l>>)
  BY <1>l, OneIs DEF l
<1> QED
  BY <1>4, <1>7, <1>8 DEF Means, Follows, l

\* What is seen of s is what it unfolds to.
LEMMA FoldMeans ==
  ASSUME NEW c, NEW I, NEW B, NEW A, NEW x, NEW s, s.k \notin {"mark", "break"}, ~Visible(s),
         NEW t, Unfold(s) = t, Means(c, I, B, A, x, t)
  PROVE  Means(c, I, B, A, x, <<s>>)
<1> SUFFICES ASSUME A # {} PROVE Means(c, I, B, A, x, <<s>>)
  BY DEF Means
<1>1. PICK R : /\ Follows(c, I, R, x, B)
               /\ \A m \in Machine : m.ip \in A => Up(c, I, m, t, R)
  BY DEF Means
<1>2. IsSeq(t) /\ t \o << >> = t
  <2>1. IsSeq(t)
    BY DEF Means
  <2> QED
    BY <2>1, CatIs, NoneIs
<1>3. IsSeq(<<s>>) /\ <<s>> # << >> /\ Head(<<s>>) = s /\ Rest(<<s>>) = << >> /\ ~Marked(<<s>>)
  BY OneIs
<1>4. Tau(<<s>>) = t
  BY <1>2, <1>3 DEF Tau
<1> DEFINE Q == R \cup At(A, <<s>>)
<1>5. R \subseteq Q /\ At(A, <<s>>) \subseteq Q /\ \A p \in Q : p \in R \/ p \in At(A, <<s>>)
  OBVIOUS
<1> HIDE DEF Q
<1>6. ASSUME NEW p \in Q
      PROVE  IsPair(p) /\ (Turn(c, I, p[1], p[2], Q) \/ Leave(p[1], p[2], x, B))
  <2>1. CASE p \in R
    BY <2>1, <1>1, <1>5, TurnSub DEF Follows
  <2>2. CASE p \in At(A, <<s>>)
    <3>1. p = <<p[1], p[2]>> /\ p[1] \in Machine /\ p[1].ip \in A /\ p[2] = <<s>>
      BY <2>2, AtIs
    <3>2. Up(c, I, p[1], t, Q)
      BY <3>1, <1>1, <1>5, UpSub
    <3> QED
      BY <3>1, <3>2, <1>2, <1>3, <1>4 DEF Turn, IsPair
  <2> QED
    BY <1>5, <2>1, <2>2
<1>7. \A m \in Machine : m.ip \in A => Up(c, I, m, <<s>>, Q)
  BY <1>5, AtIs, UpSelf
<1> QED
  BY <1>3, <1>6, <1>7 DEF Means, Follows

\* What a sequence is from its j-th element on.
From(a, j) == SubSeq(a, j, Len(a))

LEMMA FromIs ==
  ASSUME NEW a, IsSeq(a), NEW j \in 1 .. Len(a) + 1
  PROVE  /\ j = Len(a) + 1 => From(a, j) = << >>
         /\ j <= Len(a) => /\ From(a, j) # << >> /\ Head(From(a, j)) = a[j]
                           /\ Rest(From(a, j)) = From(a, j + 1)
<1>1. PICK U : a \in Seq(U)
  BY DEF IsSeq
<1>2. /\ From(a, j) \in Seq(U) /\ Len(From(a, j)) = Len(a) - j + 1 /\ Len(a) \in Nat
      /\ \A i \in 1 .. Len(a) - j + 1 : From(a, j)[i] = a[i + j - 1]
  BY <1>1 DEF From
<1>3. CASE j = Len(a) + 1
  BY <1>2, <1>3
<1>4. CASE j <= Len(a)
  <2>1. /\ From(a, j + 1) \in Seq(U) /\ Len(From(a, j + 1)) = Len(a) - (j + 1) + 1
        /\ \A i \in 1 .. Len(a) - (j + 1) + 1 : From(a, j + 1)[i] = a[i + (j + 1) - 1]
    BY <1>1, <1>4 DEF From
  <2>2. PICK len \in Nat : len = Len(a) - j
    <3>1. j \in Nat /\ Len(a) - j \in Nat
      BY <1>2, <1>4
    <3> QED
      BY <3>1
  <2>3. From(a, j) # << >> /\ Head(From(a, j)) = a[j]
    <3>1. From(a, j)[1] = a[1 + j - 1] /\ 1 + j - 1 = j
      BY <1>2, <1>4
    <3> QED
      BY <1>2, <1>4, <3>1
  <2>4. /\ Rest(From(a, j)) \in Seq(U) /\ Len(Rest(From(a, j))) = len
        /\ \A i \in 1 .. len : Rest(From(a, j))[i] = From(a, j)[i + 1]
    <3>1. PICK r \in Seq(U) : r = From(a, j) /\ Len(r) = len + 1
      BY <1>2, <1>4, <2>2
    <3>2. Tail(r) \in Seq(U) /\ Len(Tail(r)) = len /\ \A i \in 1 .. len : Tail(r)[i] = r[i + 1]
      BY <3>1
    <3> QED
      BY <3>1, <3>2 DEF Rest
  <2>5. \A i \in 1 .. len : Rest(From(a, j))[i] = From(a, j + 1)[i]
    <3> TAKE i \in 1 .. len
    <3>1. i + 1 \in 1 .. Len(a) - j + 1 /\ (i + 1) + j - 1 = i + (j + 1) - 1
          /\ i \in 1 .. Len(a) - (j + 1) + 1
      BY <1>2, <1>4, <2>2
    <3> QED
      BY <1>2, <2>1, <2>4, <3>1
  <2>6. /\ Rest(From(a, j)) \in [1 .. len -> U] /\ From(a, j + 1) \in [1 .. len -> U]
    <3>1. \A z \in Seq(U) : z \in [1 .. Len(z) -> U]
      OBVIOUS
    <3>2. Len(From(a, j + 1)) = len
      BY <1>2, <2>1, <2>2
    <3> QED
      BY <2>1, <2>4, <3>1, <3>2
  <2>7. Rest(From(a, j)) = From(a, j + 1)
    BY <2>5, <2>6
  <2> QED
    BY <1>2, <1>4, <2>3, <2>7
<1> QED
  BY <1>2, <1>3, <1>4

\* The rest of a CASE from its j-th arm on.
CaseOf(n, arms, o) == [k |-> "case", n |-> n, arms |-> arms, otherwise |-> o]
CaseFrom(n, arms, o, j) == CaseOf(n, From(arms, j), o)

LEMMA CaseItem ==
  ASSUME NEW n, NEW a, NEW o
  PROVE  /\ CaseOf(n, a, o).k = "case" /\ ~Visible(CaseOf(n, a, o))
         /\ a = << >> => Unfold(CaseOf(n, a, o)) = o
         /\ a # << >> =>
              Unfold(CaseOf(n, a, o)) =
                <<Item(Head(a).c, n, Head(a).side, Head(a).body, <<CaseOf(n, Rest(a), o)>>)>>
<1> DEFINE s == CaseOf(n, a, o)
<1>1. s.k = "case" /\ s.arms = a /\ s.n = n /\ s.otherwise = o
  BY DEF CaseOf
<1>2. \A t : [s EXCEPT !.arms = t] = CaseOf(n, t, o)
  BY DEF CaseOf
<1> HIDE DEF s
<1>3. ~Visible(s)
  BY <1>1 DEF Visible
<1>4. a = << >> => Unfold(s) = o
  BY <1>1 DEF Unfold
<1>5. a # << >> =>
        Unfold(s) = <<[k |-> "test", c |-> Head(a).c, n |-> n, side |-> Head(a).side,
                       yes |-> Head(a).body, no |-> <<[s EXCEPT !.arms = Rest(a)]>>]>>
  BY <1>1 DEF Unfold, Rest
<1> QED
  BY <1>1, <1>2, <1>3, <1>4, <1>5 DEF Item, s

LEMMA CaseUnfolds ==
  ASSUME NEW n, NEW arms, IsSeq(arms), NEW o, NEW j \in 1 .. Len(arms) + 1
  PROVE  LET s == CaseFrom(n, arms, o, j) IN
         /\ s.k = "case" /\ ~Visible(s)
         /\ j = Len(arms) + 1 => Unfold(s) = o
         /\ j <= Len(arms) =>
              Unfold(s) = <<Item(arms[j].c, n, arms[j].side, arms[j].body,
                                 <<CaseFrom(n, arms, o, j + 1)>>)>>
<1> DEFINE r == From(arms, j)
<1>1. CaseFrom(n, arms, o, j) = CaseOf(n, r, o)
  BY DEF CaseFrom
<1>2. CaseFrom(n, arms, o, j + 1) = CaseOf(n, From(arms, j + 1), o)
  BY DEF CaseFrom
<1>3. /\ j = Len(arms) + 1 => r = << >>
      /\ j <= Len(arms) => r # << >> /\ Head(r) = arms[j] /\ Rest(r) = From(arms, j + 1)
  BY FromIs
<1> HIDE DEF r
<1>4. /\ CaseOf(n, r, o).k = "case" /\ ~Visible(CaseOf(n, r, o))
      /\ r = << >> => Unfold(CaseOf(n, r, o)) = o
      /\ r # << >> =>
           Unfold(CaseOf(n, r, o)) =
             <<Item(Head(r).c, n, Head(r).side, Head(r).body, <<CaseOf(n, Rest(r), o)>>)>>
  BY CaseItem
<1>5. j <= Len(arms) =>
        <<CaseOf(n, Rest(r), o)>> = <<CaseFrom(n, arms, o, j + 1)>> /\ Head(r) = arms[j] /\ r # << >>
  BY <1>2, <1>3
<1> QED
  BY <1>1, <1>3, <1>4, <1>5

LEMMA OthersUnfold ==
  ASSUME NEW n, NEW arms, IsSeq(arms), NEW o, NEW j, j = Len(arms) + 1
  PROVE  Unfold(CaseFrom(n, arms, o, j)) = o
<1>1. j \in 1 .. Len(arms) + 1
  BY SeqIs
<1>2. PICK r : r = From(arms, j) /\ r = << >>
  BY <1>1, FromIs
<1>3. CaseFrom(n, arms, o, j) = CaseOf(n, r, o)
  BY <1>2 DEF CaseFrom
<1>4. /\ CaseOf(n, r, o).k = "case" /\ ~Visible(CaseOf(n, r, o))
      /\ r = << >> => Unfold(CaseOf(n, r, o)) = o
      /\ r # << >> =>
           Unfold(CaseOf(n, r, o)) =
             <<Item(Head(r).c, n, Head(r).side, Head(r).body, <<CaseOf(n, Rest(r), o)>>)>>
  BY CaseItem
<1> QED
  BY <1>2, <1>3, <1>4

LEMMA FromFirst ==
  ASSUME NEW a, IsSeq(a)
  PROVE  From(a, 1) = a
<1>1. PICK U : a \in Seq(U)
  BY DEF IsSeq
<1>2. /\ From(a, 1) \in Seq(U) /\ Len(From(a, 1)) = Len(a) - 1 + 1 /\ Len(a) \in Nat
      /\ \A i \in 1 .. Len(a) - 1 + 1 : From(a, 1)[i] = a[i + 1 - 1]
  BY <1>1 DEF From
<1>3. From(a, 1) \in [1 .. Len(a) -> U] /\ a \in [1 .. Len(a) -> U]
  <2>1. \A z \in Seq(U) : z \in [1 .. Len(z) -> U]
    OBVIOUS
  <2>2. Len(From(a, 1)) = Len(a)
    BY <1>2
  <2> QED
    BY <1>1, <1>2, <2>1, <2>2
<1>4. \A i \in 1 .. Len(a) : From(a, 1)[i] = a[i]
  <2> TAKE i \in 1 .. Len(a)
  <2>1. i \in 1 .. Len(a) - 1 + 1 /\ i + 1 - 1 = i
    BY <1>2
  <2> QED
    BY <1>2, <2>1
<1> QED
  BY <1>3, <1>4

LEMMA MeansRun ==
  ASSUME NEW c, NEW I, NEW B, NEW A, NEW x, NEW s, Means(c, I, B, A, x, s)
  PROVE  \E R : /\ Follows(c, I, R, x, B)
                /\ \A m \in Machine : m.ip \in A => Up(c, I, m, s \o << >>, R)
<1>1. CASE A = {}
  <2>1. Follows(c, I, {}, x, B)
    BY DEF Follows
  <2> QED
    BY <1>1, <2>1
<1>2. CASE A # {}
  <2>1. s \o << >> = s
    BY <1>2, CatIs, NoneIs DEF Means
  <2> QED
    BY <1>2, <2>1 DEF Means
<1> QED
  BY <1>1, <1>2

\* T follows the code of a condition to where its branches begin.
Decides(c, I, T, Y, N, y, z) ==
  \A p \in T : /\ IsPair(p)
               /\ Turn(c, I, p[1], p[2], T \cup At(Y, y \o << >>) \cup At(N, z \o << >>))

LEMMA TestsRun ==
  ASSUME NEW c, NEW I, NEW A, NEW Y, NEW N, NEW cond, NEW n, NEW side,
         Tests(c, I, A, Y, N, cond, n, side),
         NEW y, Y # {} => IsSeq(y), NEW z, N # {} => IsSeq(z)
  PROVE  \E T : /\ Decides(c, I, T, Y, N, y, z)
                /\ \A m \in Machine : m.ip \in A => Up(c, I, m, <<Item(cond, n, side, y, z)>>, T)
<1>1. CASE A = {}
  <2>1. Decides(c, I, {}, Y, N, y, z)
    BY DEF Decides
  <2> QED
    BY <1>1, <2>1
<1>2. CASE A # {}
  <2>1. PICK T : /\ Decides(c, I, T, Y, N, y, z)
                 /\ \A m \in Machine :
                      m.ip \in A => Up(c, I, m, <<Item(cond, n, side, y, z)>> \o << >>, T)
    BY <1>2, NoneIs DEF Tests, Decides
  <2>2. <<Item(cond, n, side, y, z)>> \o << >> = <<Item(cond, n, side, y, z)>>
    BY CatIs, NoneIs, OneIs
  <2> QED
    BY <2>1, <2>2
<1> QED
  BY <1>1, <1>2

\* A CASE: what arm j does not take, from A[j] on, goes on at A[j + 1].
LEMMA CaseMeans ==
  ASSUME NEW c, NEW I, NEW B, NEW x, NEW n, NEW o, NEW arms, IsSeq(arms), NEW A, NEW Y,
         \A j \in 1 .. Len(arms) :
           /\ Tests(c, I, A[j], Y[j], A[j + 1], arms[j].c, n, arms[j].side)
           /\ Means(c, I, B, Y[j], x, arms[j].body),
         Means(c, I, B, A[Len(arms) + 1], x, o)
  PROVE  Means(c, I, B, A[1], x, <<CaseOf(n, arms, o)>>)
<1> DEFINE K == Len(arms)
           at(j) == CaseFrom(n, arms, o, j)
           arm(j) == Item(arms[j].c, n, arms[j].side, arms[j].body, <<at(j + 1)>>)
           PT(j, T) == /\ Decides(c, I, T, Y[j], A[j + 1], arms[j].body, <<at(j + 1)>>)
                       /\ \A m \in Machine : m.ip \in A[j] => Up(c, I, m, <<arm(j)>>, T)
           PR(j, R) == /\ Follows(c, I, R, x, B)
                       /\ \A m \in Machine : m.ip \in Y[j] => Up(c, I, m, arms[j].body \o << >>, R)
           T(j) == CHOOSE t : PT(j, t)
           R(j) == CHOOSE r : PR(j, r)
<1>k. K \in Nat
  BY SeqIs
<1>1. ASSUME NEW j \in 1 .. K
      PROVE  PT(j, T(j)) /\ PR(j, R(j))
  <2>1. Y[j] # {} => IsSeq(arms[j].body)
    BY DEF Means
  <2>2. IsSeq(<<at(j + 1)>>)
    BY OneIs
  <2>3. Tests(c, I, A[j], Y[j], A[j + 1], arms[j].c, n, arms[j].side)
    OBVIOUS
  <2>4. \E t : PT(j, t)
    <3> HIDE DEF at
    <3> QED
      BY <2>1, <2>2, <2>3, TestsRun
  <2>5. \E r : PR(j, r)
    BY MeansRun
  <2> HIDE DEF PT, PR
  <2> QED
    BY <2>4, <2>5
<1>2. PICK Ro : /\ Follows(c, I, Ro, x, B)
                /\ \A m \in Machine : m.ip \in A[K + 1] => Up(c, I, m, o \o << >>, Ro)
  BY MeansRun
<1> DEFINE L(j) == At(A[j], <<at(j)>>)
           UT == UNION {T(j) : j \in 1 .. K}
           UR == UNION {R(j) : j \in 1 .. K}
           UL == UNION {L(j) : j \in 1 .. K + 1}
           Q == UT \cup UR \cup UL \cup Ro
<1>3. /\ \A j \in 1 .. K : T(j) \subseteq Q /\ R(j) \subseteq Q
      /\ \A j \in 1 .. K + 1 : At(A[j], <<at(j)>>) \subseteq Q
      /\ Ro \subseteq Q
      /\ \A p \in Q : \/ \E j \in 1 .. K : p \in T(j) \/ p \in R(j)
                      \/ \E j \in 1 .. K + 1 : p \in At(A[j], <<at(j)>>)
                      \/ p \in Ro
  <2>1. \A j \in 1 .. K : T(j) \subseteq UNION {T(i) : i \in 1 .. K}
    <3> HIDE DEF T
    <3> QED
      OBVIOUS
  <2>2. \A j \in 1 .. K : R(j) \subseteq UNION {R(i) : i \in 1 .. K}
    <3> HIDE DEF R
    <3> QED
      OBVIOUS
  <2>3. \A j \in 1 .. K + 1 : L(j) \subseteq UNION {L(i) : i \in 1 .. K + 1}
    <3> HIDE DEF L
    <3> QED
      OBVIOUS
  <2>4. \A p \in UNION {T(j) : j \in 1 .. K} : \E j \in 1 .. K : p \in T(j)
    <3> HIDE DEF T
    <3> QED
      OBVIOUS
  <2>5. \A p \in UNION {R(j) : j \in 1 .. K} : \E j \in 1 .. K : p \in R(j)
    <3> HIDE DEF R
    <3> QED
      OBVIOUS
  <2>6. \A p \in UNION {L(j) : j \in 1 .. K + 1} : \E j \in 1 .. K + 1 : p \in L(j)
    <3> HIDE DEF L
    <3> QED
      OBVIOUS
  <2>7. Q = UT \cup UR \cup UL \cup Ro
    <3> HIDE DEF UT, UR, UL
    <3> QED
      OBVIOUS
  <2>8. /\ \A j \in 1 .. K : T(j) \subseteq UT /\ R(j) \subseteq UR
        /\ \A j \in 1 .. K + 1 : L(j) \subseteq UL
    BY <2>1, <2>2, <2>3
  <2>9. \A p \in UT \cup UR \cup UL :
           \/ \E j \in 1 .. K : p \in T(j) \/ p \in R(j)
           \/ \E j \in 1 .. K + 1 : p \in L(j)
    BY <2>4, <2>5, <2>6
  <2>10. /\ \A j \in 1 .. K : T(j) \subseteq Q /\ R(j) \subseteq Q
         /\ \A j \in 1 .. K + 1 : L(j) \subseteq Q
         /\ Ro \subseteq Q
         /\ \A p \in Q : \/ \E j \in 1 .. K : p \in T(j) \/ p \in R(j)
                         \/ \E j \in 1 .. K + 1 : p \in L(j)
                         \/ p \in Ro
    <3> HIDE DEF Q, UT, UR, UL, T, R, L
    <3> QED
      BY <2>7, <2>8, <2>9
  <2> HIDE DEF Q, UT, UR, UL, T, R
  <2> QED
    BY <2>10
<1> HIDE DEF Q, UT, UR, UL, T, R
<1>4. ASSUME NEW j \in 1 .. K + 1, NEW m \in Machine, m.ip \in A[j]
      PROVE  Up(c, I, m, <<at(j)>>, Q)
  BY <1>3, <1>4, AtIs, UpSelf
<1>5. ASSUME NEW j \in 1 .. K, NEW v \in Machine, NEW u,
             <<v, u>> \in T(j) \cup At(Y[j], arms[j].body \o << >>)
                               \cup At(A[j + 1], <<at(j + 1)>> \o << >>)
      PROVE  Up(c, I, v, u, Q)
  <2>1. CASE <<v, u>> \in T(j)
    BY <2>1, <1>3, UpSelf
  <2>2. CASE <<v, u>> \in At(Y[j], arms[j].body \o << >>)
    <3>1. v.ip \in Y[j] /\ u = arms[j].body \o << >>
      BY <2>2, AtPair
    <3>2. Up(c, I, v, u, R(j))
      BY <3>1, <1>1
    <3> QED
      BY <3>2, <1>3, UpSub
  <2>3. CASE <<v, u>> \in At(A[j + 1], <<at(j + 1)>> \o << >>)
    <3>1. v.ip \in A[j + 1] /\ u = <<at(j + 1)>> \o << >>
      BY <2>3, AtPair
    <3>2. <<at(j + 1)>> \o << >> = <<at(j + 1)>> /\ j + 1 \in 1 .. K + 1
      <4> HIDE DEF at
      <4> QED
        BY CatIs, NoneIs, OneIs, <1>k
    <3> QED
      BY <3>1, <3>2, <1>4
  <2> QED
    BY <1>5, <2>1, <2>2, <2>3
<1>6. ASSUME NEW p \in Q
      PROVE  IsPair(p) /\ (Turn(c, I, p[1], p[2], Q) \/ Leave(p[1], p[2], x, B))
  <2>1. ASSUME NEW j \in 1 .. K, p \in T(j)
        PROVE  IsPair(p) /\ Turn(c, I, p[1], p[2], Q)
    <3>1. /\ IsPair(p)
          /\ Turn(c, I, p[1], p[2], T(j) \cup At(Y[j], arms[j].body \o << >>)
                               \cup At(A[j + 1], <<at(j + 1)>> \o << >>))
      BY <1>1, <2>1 DEF Decides
    <3> QED
      BY <3>1, <1>5, TurnMore
  <2>2. ASSUME NEW j \in 1 .. K, p \in R(j)
        PROVE  IsPair(p) /\ (Turn(c, I, p[1], p[2], Q) \/ Leave(p[1], p[2], x, B))
    <3>1. Follows(c, I, R(j), x, B) /\ R(j) \subseteq Q
      BY <1>1, <1>3
    <3> QED
      BY <2>2, <3>1, TurnSub DEF Follows
  <2>3. CASE p \in Ro
    BY <2>3, <1>2, <1>3, TurnSub DEF Follows
  <2>4. ASSUME NEW j \in 1 .. K + 1, p \in At(A[j], <<at(j)>>)
        PROVE  IsPair(p) /\ Turn(c, I, p[1], p[2], Q)
    <3>1. p = <<p[1], p[2]>> /\ p[1] \in Machine /\ p[1].ip \in A[j] /\ p[2] = <<at(j)>>
      BY <2>4, AtIs
    <3>2. /\ IsSeq(<<at(j)>>) /\ <<at(j)>> # << >> /\ Head(<<at(j)>>) = at(j)
          /\ Rest(<<at(j)>>) = << >>
      BY OneIs
    <3>3. /\ at(j).k = "case" /\ ~Visible(at(j))
          /\ j = K + 1 => Unfold(at(j)) = o
          /\ j <= K => Unfold(at(j)) = <<arm(j)>>
      <4>1. at(j).k = "case" /\ ~Visible(at(j))
        BY CaseUnfolds, ZenonT(60)
      <4>2. j = K + 1 => Unfold(at(j)) = o
        BY OthersUnfold
      <4>3. j <= K => Unfold(at(j)) = <<arm(j)>>
        BY CaseUnfolds, ZenonT(60)
      <4> QED
        BY <4>1, <4>2, <4>3
    <3>4. IsSeq(Unfold(at(j))) /\ Up(c, I, p[1], Tau(<<at(j)>>), Q)
      <4>1. CASE j = K + 1
        <5>1. IsSeq(o) /\ Unfold(at(j)) = o
          BY <3>1, <3>3, <4>1 DEF Means
        <5>2. Tau(<<at(j)>>) = o \o << >>
          BY <3>2, <3>3, <4>1 DEF Tau
        <5>3. Up(c, I, p[1], o \o << >>, Ro)
          BY <1>2, <3>1, <4>1
        <5> QED
          BY <1>3, <5>1, <5>2, <5>3, UpSub
      <4>2. CASE j <= K
        <5>1. j \in 1 .. K
          BY <1>k, <4>2
        <5>2. Up(c, I, p[1], <<arm(j)>>, Q)
          BY <1>1, <1>3, <3>1, <5>1, UpSub
        <5>3. Unfold(at(j)) = <<arm(j)>>
          BY <3>3, <4>2
        <5>4. IsSeq(<<arm(j)>>) /\ <<arm(j)>> \o << >> = <<arm(j)>>
          BY OneIs, CatIs, NoneIs
        <5>5. Tau(<<at(j)>>) = <<arm(j)>>
          <6> HIDE DEF at, arm
          <6> QED
            BY <3>2, <3>3, <5>3, <5>4 DEF Tau
        <5> QED
          BY <5>2, <5>3, <5>4, <5>5
      <4> QED
        BY <1>k, <4>1, <4>2
    <3> HIDE DEF at
    <3> QED
      BY <3>1, <3>2, <3>3, <3>4 DEF Turn, IsPair
  <2> QED
    BY <1>3, <2>1, <2>2, <2>3, <2>4
<1>7. IsSeq(<<at(1)>>) /\ ~Marked(<<at(1)>>) /\ at(1) = CaseOf(n, arms, o)
  BY OneIs, FromFirst DEF CaseFrom, CaseOf
<1>8. \A m \in Machine : m.ip \in A[1] => Up(c, I, m, <<at(1)>>, Q)
  BY <1>4, <1>k
<1> HIDE DEF at
<1> QED
  BY <1>6, <1>7, <1>8 DEF Means, Follows

-----------------------------------------------------------------------------
(* Conditions, from their words *)

\* The outcome of a test, and the verdict: whether the test holds.
Negates(c) == c.k = "notvar" \/ (c.k = "cmp" /\ c.not)

\* In m it can be seen that the verdict on c is v.
Shows(m, c, v) ==
  /\ c.k = "cmp" => m.flag = (v = AsIs(c))
  /\ c.k = "notvar" => m.reg = v
  /\ c.k = "lit" => c.val = v

\* From q on, when c has been computed, the code goes on at one of Y or of N.
Exits(d, J, q, c, n, side, Y, N) ==
  IF c.k = "var" THEN Tests(d, J, {q}, Y, N, c, n, side)
  ELSE \A m \in Machine, v \in BOOLEAN :
         m.ip = q /\ Shows(m, c, v) =>
           \E w \in Machine : Reaches(d, J, m, w) /\ w.ip \in (IF v THEN Y ELSE N)

\* After the word at a, a test, the code goes where the verdict says.
Answers(d, J, a, c, Y, N) ==
  \A m \in Machine, o \in BOOLEAN :
    m.ip = a =>
      \E w \in Machine :
        /\ Reaches(d, J, Does(d[a + 1], m, o), w)
        /\ w.ip \in (IF o = Negates(c) THEN N ELSE Y)

IsTest(w, n, side) == w.op \in {"set", "load"} /\ WordEvent(w) = <<n, side>>

LEMMA EventTests ==
  ASSUME NEW d, NEW J, NEW a \in Nat, a \in J, NEW c, c.k \in {"cmp", "var", "notvar"},
         NEW n, NEW side, IsTest(d[a + 1], n, side), NEW Y, NEW N, Answers(d, J, a, c, Y, N)
  PROVE  Tests(d, J, {a}, Y, N, c, n, side)
<1> SUFFICES ASSUME NEW y, NEW z, NEW t, Y # {} => IsSeq(y), N # {} => IsSeq(z), IsSeq(t)
             PROVE  \E T :
                      /\ \A p \in T :
                           /\ IsPair(p)
                           /\ Turn(d, J, p[1], p[2], T \cup At(Y, y \o t) \cup At(N, z \o t))
                      /\ \A m \in Machine :
                           m.ip \in {a} => Up(d, J, m, <<Item(c, n, side, y, z)>> \o t, T)
  BY DEF Tests
<1> DEFINE i == Item(c, n, side, y, z)
           s == <<i>> \o t
           T == At({a}, s)
           Q == T \cup At(Y, y \o t) \cup At(N, z \o t)
<1>i. /\ i.k = "test" /\ i.c = c /\ i.n = n /\ i.side = side /\ i.yes = y /\ i.no = z
  BY DEF Item
<1> HIDE DEF i
<1>s. IsSeq(s) /\ s # << >> /\ Head(s) = i /\ Rest(s) = t
  <2>1. IsSeq(<<i>>)
    BY OneIs
  <2> QED
    BY <2>1, RestSingle, CatIs
<1> HIDE DEF s
<1>1. Visible(Head(s)) /\ SourceEvent(Head(s)) = <<n, side>> /\ Head(s).k # "exit"
  BY <1>i, <1>s DEF Visible, SourceEvent
<1>2. ASSUME NEW o \in BOOLEAN
      PROVE  Outcome(Head(s), o) = IF o = Negates(c) THEN z ELSE y
  BY <1>i, <1>s DEF Outcome, Negates
<1>3. ASSUME NEW m \in Machine, m.ip = a, NEW o \in BOOLEAN
      PROVE  /\ IsSeq(Outcome(Head(s), o))
             /\ Up(d, J, Does(d[a + 1], m, o), Answer(s, o), Q)
  <2>1. PICK w \in Machine : /\ Reaches(d, J, Does(d[a + 1], m, o), w)
                             /\ w.ip \in (IF o = Negates(c) THEN N ELSE Y)
    BY <1>3 DEF Answers
  <2>2. CASE o = Negates(c)
    <3>1. Outcome(Head(s), o) = z /\ Answer(s, o) = z \o t /\ w.ip \in N
      BY <1>2, <1>s, <2>1, <2>2 DEF Answer
    <3>2. <<w, z \o t>> \in Q
      BY <3>1, AtIs
    <3> QED
      BY <2>1, <3>1, <3>2 DEF Up
  <2>3. CASE o # Negates(c)
    <3>1. Outcome(Head(s), o) = y /\ Answer(s, o) = y \o t /\ w.ip \in Y
      BY <1>2, <1>s, <2>1, <2>3 DEF Answer
    <3>2. <<w, y \o t>> \in Q
      BY <3>1, AtIs
    <3> QED
      BY <2>1, <3>1, <3>2 DEF Up
  <2> QED
    BY <2>2, <2>3
<1>4. ASSUME NEW m \in Machine, m.ip = a
      PROVE  Turn(d, J, m, s, Q)
  <2>1. Reaches(d, J, m, m) /\ m.ip \in J /\ d[m.ip + 1].op \in Seen
    BY <1>4, ReachesSelf DEF Seen, IsTest
  <2>2. WordEvent(d[m.ip + 1]) = SourceEvent(Head(s))
    BY <1>1, <1>4 DEF IsTest
  <2>3. \A o \in BOOLEAN : /\ IsSeq(Outcome(Head(s), o))
                           /\ Up(d, J, Does(d[m.ip + 1], m, o), Answer(s, o), Q)
    BY <1>3, <1>4
  <2> HIDE DEF Q
  <2> QED
    BY <1>1, <1>s, <2>1, <2>2, <2>3 DEF Turn
<1>5. ASSUME NEW p \in T
      PROVE  IsPair(p) /\ Turn(d, J, p[1], p[2], Q)
  <2>1. IsPair(p) /\ p[1] \in Machine /\ p[1].ip = a /\ p[2] = s
    BY <1>s, AtIs DEF IsPair
  <2>2. Turn(d, J, p[1], s, Q)
    BY <1>4, <2>1
  <2> HIDE DEF Q
  <2> QED
    BY <2>1, <2>2
<1>6. \A m \in Machine : m.ip \in {a} => Up(d, J, m, s, T)
  BY AtIs, UpSelf
<1> HIDE DEF T
<1> QED
  BY <1>5, <1>6 DEF s, i

\* Where the VM takes an item for granted.
LEMMA SilentTests ==
  ASSUME NEW d, NEW J, NEW A, NEW c, NEW n, NEW side, NEW Y, NEW N, NEW v \in BOOLEAN,
         c.k = "lit", c.val = v,
         \A m \in Machine :
           m.ip \in A =>
             \E w \in Machine : Reaches(d, J, m, w) /\ w.ip \in (IF v THEN Y ELSE N)
  PROVE  Tests(d, J, A, Y, N, c, n, side)
<1> SUFFICES ASSUME NEW y, NEW z, NEW t, Y # {} => IsSeq(y), N # {} => IsSeq(z), IsSeq(t)
             PROVE  \E T :
                      /\ \A p \in T :
                           /\ IsPair(p)
                           /\ Turn(d, J, p[1], p[2], T \cup At(Y, y \o t) \cup At(N, z \o t))
                      /\ \A m \in Machine :
                           m.ip \in A => Up(d, J, m, <<Item(c, n, side, y, z)>> \o t, T)
  BY DEF Tests
<1> DEFINE i == Item(c, n, side, y, z)
           s == <<i>> \o t
           T == At(A, s)
           Q == T \cup At(Y, y \o t) \cup At(N, z \o t)
           r == IF v THEN y ELSE z
<1>i. /\ i.k = "test" /\ i.c = c /\ i.yes = y /\ i.no = z
  BY DEF Item
<1>u. Unfold(i) = r
  BY <1>i DEF Unfold
<1>v. ~Visible(i) /\ i.k # "break"
  BY <1>i DEF Visible
<1> HIDE DEF i
<1>s. IsSeq(s) /\ s # << >> /\ Head(s) = i /\ Rest(s) = t
  <2>1. IsSeq(<<i>>)
    BY OneIs
  <2> QED
    BY <2>1, RestSingle, CatIs
<1> HIDE DEF s
<1>1. Tau(s) = r \o t
  BY <1>u, <1>v, <1>s DEF Tau
<1>2. ASSUME NEW m \in Machine, m.ip \in A
      PROVE  IsSeq(r) /\ Up(d, J, m, Tau(s), Q)
  <2>1. PICK w \in Machine : Reaches(d, J, m, w) /\ w.ip \in (IF v THEN Y ELSE N)
    BY <1>2
  <2>2. <<w, r \o t>> \in Q /\ IsSeq(r)
    BY <2>1, AtIs
  <2> QED
    BY <1>1, <2>1, <2>2 DEF Up
<1>3. ASSUME NEW p \in T
      PROVE  IsPair(p) /\ Turn(d, J, p[1], p[2], Q)
  <2>1. IsPair(p) /\ p[1] \in Machine /\ p[1].ip \in A /\ p[2] = s
    BY <1>s, AtIs DEF IsPair
  <2>2. IsSeq(r) /\ Up(d, J, p[1], Tau(s), Q)
    BY <1>2, <2>1
  <2> HIDE DEF Q, r
  <2>3. Turn(d, J, p[1], s, Q)
    BY <1>u, <1>v, <1>s, <2>2 DEF Turn
  <2> QED
    BY <2>1, <2>3
<1>4. \A m \in Machine : m.ip \in A => Up(d, J, m, s, T)
  BY AtIs, UpSelf
<1> HIDE DEF T
<1> QED
  BY <1>3, <1>4 DEF s, i

\* One test for another: what does not matter to where the code goes.
LEMMA ItemUnfolds ==
  ASSUME NEW c, NEW n, NEW y, NEW z, c.k \in {"and", "or"}
  PROVE  LET i == Item(c, n, 1, y, z) IN
         /\ i.k = "test" /\ ~Visible(i)
         /\ c.k = "and" => Unfold(i) = <<Item(c.l, n, 1, <<Item(c.r, n, 2, y, z)>>, z)>>
         /\ c.k = "or" => Unfold(i) = <<Item(c.l, n, 1, y, <<Item(c.r, n, 2, y, z)>>)>>
<1> DEFINE i == Item(c, n, 1, y, z)
<1>1. i.k = "test" /\ i.c = c
  BY DEF Item
<1>a. [i EXCEPT !.c = c.r, !.side = 2] = Item(c.r, n, 2, y, z)
  <2>1. [i EXCEPT !.c = c.r, !.side = 2] = [[i EXCEPT !.c = c.r] EXCEPT !.side = 2]
    OBVIOUS
  <2>2. [i EXCEPT !.c = c.r] = Item(c.r, n, 1, y, z)
    BY DEF Item
  <2>3. [Item(c.r, n, 1, y, z) EXCEPT !.side = 2] = Item(c.r, n, 2, y, z)
    BY DEF Item
  <2> HIDE DEF i
  <2> QED
    BY <2>1, <2>2, <2>3
<1>b. ASSUME NEW q
      PROVE  [i EXCEPT !.c = c.l, !.yes = q] = Item(c.l, n, 1, q, z)
  <2>1. [i EXCEPT !.c = c.l, !.yes = q] = [[i EXCEPT !.c = c.l] EXCEPT !.yes = q]
    OBVIOUS
  <2>2. [i EXCEPT !.c = c.l] = Item(c.l, n, 1, y, z)
    BY DEF Item
  <2>3. [Item(c.l, n, 1, y, z) EXCEPT !.yes = q] = Item(c.l, n, 1, q, z)
    BY DEF Item
  <2> HIDE DEF i
  <2> QED
    BY <2>1, <2>2, <2>3
<1>e. ASSUME NEW q
      PROVE  [i EXCEPT !.c = c.l, !.no = q] = Item(c.l, n, 1, y, q)
  <2>1. [i EXCEPT !.c = c.l, !.no = q] = [[i EXCEPT !.c = c.l] EXCEPT !.no = q]
    OBVIOUS
  <2>2. [i EXCEPT !.c = c.l] = Item(c.l, n, 1, y, z)
    BY DEF Item
  <2>3. [Item(c.l, n, 1, y, z) EXCEPT !.no = q] = Item(c.l, n, 1, y, q)
    BY DEF Item
  <2> HIDE DEF i
  <2> QED
    BY <2>1, <2>2, <2>3
<1> HIDE DEF i
<1>3. ~Visible(i)
  BY <1>1 DEF Visible
<1>4. c.k = "and" => Unfold(i) = <<Item(c.l, n, 1, <<Item(c.r, n, 2, y, z)>>, z)>>
  BY <1>1, <1>a, <1>b DEF Unfold
<1>5. c.k = "or" => Unfold(i) = <<Item(c.l, n, 1, y, <<Item(c.r, n, 2, y, z)>>)>>
  BY <1>1, <1>a, <1>e DEF Unfold
<1> QED
  BY <1>1, <1>3, <1>4, <1>5 DEF i

\* An item that unfolds to another, h, which T follows.
LEMMA BeforeTests ==
  ASSUME NEW d, NEW J, NEW A, NEW i, ~Visible(i), i.k # "break", NEW h, Unfold(i) = <<h>>,
         NEW t, IsSeq(t), NEW E, NEW T,
         \A p \in T : IsPair(p) /\ Turn(d, J, p[1], p[2], T \cup E),
         \A m \in Machine : m.ip \in A => Up(d, J, m, <<h>> \o t, T)
  PROVE  \E Q : /\ \A p \in Q : IsPair(p) /\ Turn(d, J, p[1], p[2], Q \cup E)
                /\ \A m \in Machine : m.ip \in A => Up(d, J, m, <<i>> \o t, Q)
<1> DEFINE s == <<i>> \o t
           Q == T \cup At(A, s)
<1>s. IsSeq(s) /\ s # << >> /\ Head(s) = i /\ Rest(s) = t /\ IsSeq(<<h>>)
  <2>1. IsSeq(<<i>>) /\ IsSeq(<<h>>)
    BY OneIs
  <2> QED
    BY <2>1, RestSingle, CatIs
<1> HIDE DEF s
<1>1. Tau(s) = <<h>> \o t
  BY <1>s DEF Tau
<1>2. ASSUME NEW p \in Q
      PROVE  IsPair(p) /\ Turn(d, J, p[1], p[2], Q \cup E)
  <2>1. CASE p \in T
    <3>1. IsPair(p) /\ Turn(d, J, p[1], p[2], T \cup E) /\ T \cup E \subseteq Q \cup E
      BY <2>1
    <3> HIDE DEF Q
    <3> QED
      BY <3>1, TurnSub
  <2>2. CASE p \in At(A, s)
    <3>1. IsPair(p) /\ p[1] \in Machine /\ p[1].ip \in A /\ p[2] = s
      BY <1>s, <2>2, AtIs DEF IsPair
    <3>2. Up(d, J, p[1], Tau(s), T) /\ T \subseteq Q \cup E
      BY <1>1, <3>1
    <3> HIDE DEF Q
    <3>3. Up(d, J, p[1], Tau(s), Q \cup E)
      BY <3>2, UpSub
    <3>4. Turn(d, J, p[1], s, Q \cup E)
      BY <1>s, <3>3 DEF Turn
    <3> QED
      BY <3>1, <3>4
  <2> QED
    BY <2>1, <2>2
<1>3. \A m \in Machine : m.ip \in A => Up(d, J, m, s, Q)
  BY AtIs, UpSelf
<1> HIDE DEF Q
<1> QED
  BY <1>2, <1>3 DEF s

\* Two tests, the second from where one verdict of the first leads.
LEMMA TwoTests ==
  ASSUME NEW d, NEW J, NEW T, NEW S, NEW M, NEW h, NEW D, NEW E,
         \A p \in T : IsPair(p) /\ Turn(d, J, p[1], p[2], T \cup (At(M, h) \cup D)),
         \A p \in S : IsPair(p) /\ Turn(d, J, p[1], p[2], S \cup E),
         \A m \in Machine : m.ip \in M => Up(d, J, m, h, S),
         D \subseteq E
  PROVE  \A p \in T \cup S : IsPair(p) /\ Turn(d, J, p[1], p[2], (T \cup S) \cup E)
<1> DEFINE Q == (T \cup S) \cup E
<1>1. T \subseteq Q /\ S \subseteq Q /\ D \subseteq Q /\ S \cup E \subseteq Q
  OBVIOUS
<1> HIDE DEF Q
<1>2. ASSUME NEW v \in Machine, NEW u, <<v, u>> \in T \cup (At(M, h) \cup D)
      PROVE  Up(d, J, v, u, Q)
  <2>1. CASE <<v, u>> \in T \/ <<v, u>> \in D
    BY <1>1, <2>1, UpSelf
  <2>2. CASE <<v, u>> \in At(M, h)
    <3>1. v.ip \in M /\ u = h
      BY <2>2, AtPair
    <3> QED
      BY <1>1, <3>1, UpSub
  <2> QED
    BY <1>2, <2>1, <2>2
<1>3. ASSUME NEW p \in T
      PROVE  IsPair(p) /\ Turn(d, J, p[1], p[2], Q)
  BY <1>2, <1>3, TurnMore
<1>4. ASSUME NEW p \in S
      PROVE  IsPair(p) /\ Turn(d, J, p[1], p[2], Q)
  BY <1>1, <1>4, TurnSub
<1> QED
  BY <1>3, <1>4 DEF Q

LEMMA AndTests ==
  ASSUME NEW d, NEW J, NEW A, NEW M, NEW Y, NEW N, NEW c, c.k = "and", NEW n,
         Tests(d, J, A, M, N, c.l, n, 1), Tests(d, J, M, Y, N, c.r, n, 2)
  PROVE  Tests(d, J, A, Y, N, c, n, 1)
<1> SUFFICES ASSUME A # {}, NEW y, NEW z, NEW t, Y # {} => IsSeq(y), N # {} => IsSeq(z), IsSeq(t)
             PROVE  \E T :
                      /\ \A p \in T :
                           /\ IsPair(p)
                           /\ Turn(d, J, p[1], p[2], T \cup At(Y, y \o t) \cup At(N, z \o t))
                      /\ \A m \in Machine :
                           m.ip \in A => Up(d, J, m, <<Item(c, n, 1, y, z)>> \o t, T)
  BY DEF Tests
<1> DEFINE E == At(Y, y \o t) \cup At(N, z \o t)
           i == Item(c, n, 1, y, z)
           g == Item(c.r, n, 2, y, z)
           h == Item(c.l, n, 1, <<g>>, z)
<1>i. i.k = "test" /\ ~Visible(i) /\ Unfold(i) = <<h>>
  BY ItemUnfolds
<1>g. IsSeq(<<g>>)
  BY OneIs
<1>1. \E S : /\ \A p \in S : IsPair(p) /\ Turn(d, J, p[1], p[2], S \cup E)
             /\ \A m \in Machine : m.ip \in M => Up(d, J, m, <<g>> \o t, S)
  <2>1. CASE M = {}
    <3> HIDE DEF E, g
    <3>1. \A S : S = {} =>
                  /\ \A p \in S : IsPair(p) /\ Turn(d, J, p[1], p[2], S \cup E)
                  /\ \A m \in Machine : m.ip \in M => Up(d, J, m, <<g>> \o t, S)
      BY <2>1
    <3> QED
      BY <3>1
  <2>2. CASE M # {}
    <3>1. PICK S : /\ \A p \in S : /\ IsPair(p)
                                   /\ Turn(d, J, p[1], p[2], S \cup At(Y, y \o t) \cup At(N, z \o t))
                   /\ \A m \in Machine : m.ip \in M => Up(d, J, m, <<g>> \o t, S)
      BY <2>2 DEF Tests
    <3>2. S \cup At(Y, y \o t) \cup At(N, z \o t) = S \cup E
      OBVIOUS
    <3> QED
      BY <3>1, <3>2
  <2> QED
    BY <2>1, <2>2
<1>2. PICK S : /\ \A p \in S : IsPair(p) /\ Turn(d, J, p[1], p[2], S \cup E)
               /\ \A m \in Machine : m.ip \in M => Up(d, J, m, <<g>> \o t, S)
  BY <1>1
<1>3. PICK T : /\ \A p \in T : /\ IsPair(p)
                               /\ Turn(d, J, p[1], p[2],
                                       T \cup At(M, <<g>> \o t) \cup At(N, z \o t))
               /\ \A m \in Machine : m.ip \in A => Up(d, J, m, <<h>> \o t, T)
  BY <1>g DEF Tests
<1> HIDE DEF g, h, i
<1>4. T \cup At(M, <<g>> \o t) \cup At(N, z \o t) = T \cup (At(M, <<g>> \o t) \cup At(N, z \o t))
  OBVIOUS
<1>5. At(N, z \o t) \subseteq E
  OBVIOUS
<1>6. \A p \in T \cup S : IsPair(p) /\ Turn(d, J, p[1], p[2], (T \cup S) \cup E)
  <2>1. \A p \in T : /\ IsPair(p)
                     /\ Turn(d, J, p[1], p[2], T \cup (At(M, <<g>> \o t) \cup At(N, z \o t)))
    BY <1>3, <1>4
  <2> HIDE DEF E
  <2> QED
    BY <1>2, <1>5, <2>1, TwoTests
<1>7. \A m \in Machine : m.ip \in A => Up(d, J, m, <<h>> \o t, T \cup S)
  <2>1. T \subseteq T \cup S
    OBVIOUS
  <2> QED
    BY <1>3, <2>1, UpSub
<1>8. PICK Q : /\ \A p \in Q : IsPair(p) /\ Turn(d, J, p[1], p[2], Q \cup E)
               /\ \A m \in Machine : m.ip \in A => Up(d, J, m, <<i>> \o t, Q)
  <2> HIDE DEF E
  <2>1. i.k # "break"
    BY <1>i
  <2> QED
    BY <1>6, <1>7, <1>i, <2>1, BeforeTests
<1>9. Q \cup At(Y, y \o t) \cup At(N, z \o t) = Q \cup E
  OBVIOUS
<1> QED
  BY <1>8, <1>9 DEF i

LEMMA OrTests ==
  ASSUME NEW d, NEW J, NEW A, NEW M, NEW Y, NEW N, NEW c, c.k = "or", NEW n,
         Tests(d, J, A, Y, M, c.l, n, 1), Tests(d, J, M, Y, N, c.r, n, 2)
  PROVE  Tests(d, J, A, Y, N, c, n, 1)
<1> SUFFICES ASSUME A # {}, NEW y, NEW z, NEW t, Y # {} => IsSeq(y), N # {} => IsSeq(z), IsSeq(t)
             PROVE  \E T :
                      /\ \A p \in T :
                           /\ IsPair(p)
                           /\ Turn(d, J, p[1], p[2], T \cup At(Y, y \o t) \cup At(N, z \o t))
                      /\ \A m \in Machine :
                           m.ip \in A => Up(d, J, m, <<Item(c, n, 1, y, z)>> \o t, T)
  BY DEF Tests
<1> DEFINE E == At(Y, y \o t) \cup At(N, z \o t)
           i == Item(c, n, 1, y, z)
           g == Item(c.r, n, 2, y, z)
           h == Item(c.l, n, 1, y, <<g>>)
<1>i. i.k = "test" /\ ~Visible(i) /\ Unfold(i) = <<h>>
  BY ItemUnfolds
<1>g. IsSeq(<<g>>)
  BY OneIs
<1>1. \E S : /\ \A p \in S : IsPair(p) /\ Turn(d, J, p[1], p[2], S \cup E)
             /\ \A m \in Machine : m.ip \in M => Up(d, J, m, <<g>> \o t, S)
  <2>1. CASE M = {}
    <3> HIDE DEF E, g
    <3>1. \A S : S = {} =>
                  /\ \A p \in S : IsPair(p) /\ Turn(d, J, p[1], p[2], S \cup E)
                  /\ \A m \in Machine : m.ip \in M => Up(d, J, m, <<g>> \o t, S)
      BY <2>1
    <3> QED
      BY <3>1
  <2>2. CASE M # {}
    <3>1. PICK S : /\ \A p \in S : /\ IsPair(p)
                                   /\ Turn(d, J, p[1], p[2], S \cup At(Y, y \o t) \cup At(N, z \o t))
                   /\ \A m \in Machine : m.ip \in M => Up(d, J, m, <<g>> \o t, S)
      BY <2>2 DEF Tests
    <3>2. S \cup At(Y, y \o t) \cup At(N, z \o t) = S \cup E
      OBVIOUS
    <3> QED
      BY <3>1, <3>2
  <2> QED
    BY <2>1, <2>2
<1>2. PICK S : /\ \A p \in S : IsPair(p) /\ Turn(d, J, p[1], p[2], S \cup E)
               /\ \A m \in Machine : m.ip \in M => Up(d, J, m, <<g>> \o t, S)
  BY <1>1
<1>3. PICK T : /\ \A p \in T : /\ IsPair(p)
                               /\ Turn(d, J, p[1], p[2],
                                       T \cup At(Y, y \o t) \cup At(M, <<g>> \o t))
               /\ \A m \in Machine : m.ip \in A => Up(d, J, m, <<h>> \o t, T)
  BY <1>g DEF Tests
<1> HIDE DEF g, h, i
<1>4. T \cup At(Y, y \o t) \cup At(M, <<g>> \o t) = T \cup (At(M, <<g>> \o t) \cup At(Y, y \o t))
  OBVIOUS
<1>5. At(Y, y \o t) \subseteq E
  OBVIOUS
<1>6. \A p \in T \cup S : IsPair(p) /\ Turn(d, J, p[1], p[2], (T \cup S) \cup E)
  <2>1. \A p \in T : /\ IsPair(p)
                     /\ Turn(d, J, p[1], p[2], T \cup (At(M, <<g>> \o t) \cup At(Y, y \o t)))
    BY <1>3, <1>4
  <2> HIDE DEF E
  <2> QED
    BY <1>2, <1>5, <2>1, TwoTests
<1>7. \A m \in Machine : m.ip \in A => Up(d, J, m, <<h>> \o t, T \cup S)
  <2>1. T \subseteq T \cup S
    OBVIOUS
  <2> QED
    BY <1>3, <2>1, UpSub
<1>8. PICK Q : /\ \A p \in Q : IsPair(p) /\ Turn(d, J, p[1], p[2], Q \cup E)
               /\ \A m \in Machine : m.ip \in A => Up(d, J, m, <<i>> \o t, Q)
  <2> HIDE DEF E
  <2>1. i.k # "break"
    BY <1>i
  <2> QED
    BY <1>6, <1>7, <1>i, <2>1, BeforeTests
<1>9. Q \cup At(Y, y \o t) \cup At(N, z \o t) = Q \cup E
  OBVIOUS
<1> QED
  BY <1>8, <1>9 DEF i

LEMMA MachineIs ==
  ASSUME NEW m \in Machine
  PROVE  m.ip \in Nat /\ m.flag \in BOOLEAN /\ m.reg \in BOOLEAN
BY DEF Machine

LEMMA BranchMoves ==
  ASSUME NEW m \in Machine, NEW w, w.op \in Branches, NEW t \in Nat,
         t = m.ip + BranchSize + (IF Goes(w, m) THEN w.by ELSE 0)
  PROVE  /\ Move(w, m) \in Machine /\ Move(w, m).ip = t
         /\ Move(w, m).flag = m.flag /\ Move(w, m).reg = m.reg
<1>1. Move(w, m) = [m EXCEPT !.ip = t]
  BY DEF Move, Machine
<1> QED
  BY <1>1 DEF Machine

LEMMA ImmMoves ==
  ASSUME NEW m \in Machine, NEW w, w.op = "imm", w.val \in BOOLEAN
  PROVE  Move(w, m) \in Machine /\ Move(w, m).ip = m.ip + 1 /\ Move(w, m).reg = w.val
<1>1. Move(w, m) = [[m EXCEPT !.ip = m.ip + 1] EXCEPT !.reg = w.val]
  BY DEF Move, Machine, Branches
<1>2. PICK v : v = [m EXCEPT !.ip = m.ip + 1]
  OBVIOUS
<1>3. v \in Machine /\ v.ip = m.ip + 1
  BY <1>2 DEF Machine
<1> QED
  BY <1>1, <1>2, <1>3 DEF Machine

\* Words that load or compare.
LEMMA TestDoes ==
  ASSUME NEW m \in Machine, NEW o \in BOOLEAN, NEW w, w.neg \in BOOLEAN
  PROVE  /\ w.op = "set" => /\ Does(w, m, o) \in Machine /\ Does(w, m, o).ip = m.ip + 1
                            /\ Does(w, m, o).flag = (o # w.neg)
         /\ w.op = "load" => /\ Does(w, m, o) \in Machine /\ Does(w, m, o).ip = m.ip + 1
                             /\ Does(w, m, o).reg = (o # w.neg)
<1>2. PICK v : v = [m EXCEPT !.ip = m.ip + 1]
  OBVIOUS
<1>3. v \in Machine /\ v.ip = m.ip + 1
  BY <1>2 DEF Machine
<1>4. PICK b \in BOOLEAN : b = (o # w.neg)
  OBVIOUS
<1>5. w.op = "set" => Does(w, m, o) = [v EXCEPT !.flag = b]
  BY <1>2, <1>4 DEF Does, Machine
<1>6. w.op = "load" => Does(w, m, o) = [v EXCEPT !.reg = b]
  BY <1>2, <1>4 DEF Does, Machine
<1> QED
  BY <1>3, <1>4, <1>5, <1>6 DEF Machine

OpOf(c, sense) ==
  IF c.k = "cmp" THEN IF sense = AsIs(c) THEN "BCT" ELSE "BCF"
  ELSE IF sense THEN "BNZ" ELSE "BEZ"

\* What BranchIf loads before the branch itself.
Lead(c) == IF c.k \in {"var", "lit"} THEN 1 ELSE 0

BranchWords(d, q, c, n, side, sense, t) ==
  /\ c.k = "var" => d[q + 1] = [op |-> "load", n |-> n, side |-> side, neg |-> FALSE]
  /\ c.k = "lit" => d[q + 1] = [op |-> "imm", val |-> c.val]
  /\ d[q + Lead(c) + 1].op = OpOf(c, sense)
  /\ d[q + Lead(c) + 1].by = t - (q + Lead(c)) - BranchSize

\* At t, with a verdict that took a branch there, the code goes on to X.
Onward(d, J, t, c, sense, X) ==
  \A m \in Machine :
    m.ip = t /\ (c.k \in {"cmp", "lit"} => Shows(m, c, sense)) =>
      \E w \in Machine : Reaches(d, J, m, w) /\ w.ip \in X

LEMMA BranchExits ==
  ASSUME NEW d, NEW J, NEW q \in Nat, NEW t \in Nat, NEW c \in SimpleConditions,
         NEW n, NEW side, NEW sense \in BOOLEAN, q \in J, q + Lead(c) \in J,
         BranchWords(d, q, c, n, side, sense, t),
         NEW X, NEW O, q + Lead(c) + BranchSize \in O, Onward(d, J, t, c, sense, X),
         NEW Y, Y = (IF sense THEN X ELSE O), NEW N, N = (IF sense THEN O ELSE X)
  PROVE  Exits(d, J, q, c, n, side, Y, N)
<1> DEFINE z == q + Lead(c)
           w == d[z + 1]
<1>z. z \in Nat /\ z \in J
  BY DEF Lead
<1>c. /\ c.k \in {"cmp", "var", "notvar", "lit"}
      /\ c.k = "cmp" => AsIs(c) \in BOOLEAN
      /\ c.k = "lit" => c.val \in BOOLEAN
  BY SimpleIs DEF AsIs
<1>w. w.op = OpOf(c, sense) /\ w.by = t - z - BranchSize /\ w.op \in Branches
  BY DEF BranchWords, OpOf, Branches
<1>l. /\ c.k = "var" => d[q + 1] = [op |-> "load", n |-> n, side |-> side, neg |-> FALSE]
      /\ c.k = "lit" => d[q + 1] = [op |-> "imm", val |-> c.val]
  BY DEF BranchWords
<1> HIDE DEF z, w
<1>b. ASSUME NEW m \in Machine, m.ip = z, NEW v \in BOOLEAN, c.k = "lit" => v = c.val,
             IF c.k = "cmp" THEN m.flag = (v = AsIs(c)) ELSE m.reg = v
      PROVE  \E x \in Machine : Reaches(d, J, m, x) /\ x.ip \in (IF v = sense THEN X ELSE O)
  <2>1. Goes(w, m) = (v = sense)
    BY <1>b, <1>c, <1>w, MachineIs DEF Goes, OpOf
  <2>2. PICK to \in Nat : to = IF v = sense THEN t ELSE z + BranchSize
    BY <1>z DEF BranchSize
  <2>3. to = m.ip + BranchSize + (IF Goes(w, m) THEN w.by ELSE 0)
    <3>1. CASE v = sense
      <4>1. Goes(w, m) = TRUE
        BY <2>1, <3>1
      <4> QED
        BY <1>b, <1>w, <1>z, <2>2, <3>1, <4>1 DEF BranchSize
    <3>2. CASE v # sense
      <4>1. Goes(w, m) = FALSE
        BY <2>1, <3>2
      <4> QED
        BY <1>b, <1>w, <1>z, <2>2, <3>2, <4>1 DEF BranchSize
    <3> QED
      BY <3>1, <3>2
  <2>4. PICK x \in Machine : x = Move(w, m) /\ x.ip = to /\ x.flag = m.flag
    BY <1>w, <2>3, BranchMoves
  <2>5. ASSUME NEW y, Reaches(d, J, x, y)
        PROVE  Reaches(d, J, m, y)
    <3>1. Silent(d[m.ip + 1]) /\ m.ip \in J /\ Move(d[m.ip + 1], m) = x
      BY <1>b, <1>w, <1>z, <2>4 DEF Silent, w
    <3> QED
      BY <2>5, <3>1, ReachesStep
  <2>6. CASE v = sense
    <3>1. c.k \in {"cmp", "lit"} => Shows(x, c, sense)
      BY <1>b, <2>4, <2>6 DEF Shows
    <3>2. PICK y \in Machine : Reaches(d, J, x, y) /\ y.ip \in X
      BY <2>2, <2>4, <2>6, <3>1 DEF Onward
    <3> QED
      BY <2>5, <2>6, <3>2
  <2>7. CASE v # sense
    <3>1. x.ip \in O
      BY <2>2, <2>4, <2>7 DEF z
    <3> QED
      BY <2>4, <2>5, <2>7, <3>1, ReachesSelf
  <2> QED
    BY <2>6, <2>7
<1>y. \A v \in BOOLEAN : (IF v = sense THEN X ELSE O) = (IF v THEN Y ELSE N)
  OBVIOUS
<1>1. CASE c.k = "var"
  <2>1. z = q + 1
    BY <1>1 DEF z, Lead
  <2>2. /\ d[q + 1].op = "load" /\ d[q + 1].neg = FALSE
        /\ WordEvent(d[q + 1]) = <<n, side>> /\ d[q + 1].op \in {"set", "load"}
    <3>1. PICK u : u = d[q + 1] /\ u = [op |-> "load", n |-> n, side |-> side, neg |-> FALSE]
      BY <1>1, <1>l
    <3>2. u.op = "load" /\ u.neg = FALSE /\ u.n = n /\ u.side = side
      BY <3>1
    <3>3. WordEvent(u) = <<n, side>>
      BY <3>2 DEF WordEvent
    <3> QED
      BY <3>1, <3>2, <3>3
  <2>3. Negates(c) = FALSE
    BY <1>1 DEF Negates
  <2>4. ASSUME NEW m \in Machine, NEW o \in BOOLEAN, m.ip = q
        PROVE  \E x \in Machine : /\ Reaches(d, J, Does(d[q + 1], m, o), x)
                                  /\ x.ip \in (IF o = Negates(c) THEN N ELSE Y)
    <3>1. PICK y \in Machine : y = Does(d[q + 1], m, o) /\ y.ip = z /\ y.reg = o
      <4>1. PICK u : u = d[q + 1] /\ u.op = "load" /\ u.neg = FALSE
        BY <2>2
      <4>2. /\ Does(u, m, o) \in Machine /\ Does(u, m, o).ip = m.ip + 1
            /\ Does(u, m, o).reg = (o # u.neg)
        <5>1. u.neg \in BOOLEAN
          BY <4>1
        <5> QED
          BY <4>1, <5>1, TestDoes
      <4>3. (o # u.neg) = o
        BY <4>1
      <4> QED
        BY <2>1, <2>4, <4>1, <4>2, <4>3
    <3>2. PICK x \in Machine : Reaches(d, J, y, x) /\ x.ip \in (IF o THEN Y ELSE N)
      BY <1>1, <1>b, <1>y, <3>1
    <3> QED
      BY <2>3, <3>1, <3>2
  <2>5. Tests(d, J, {q}, Y, N, c, n, side)
    <3>1. c.k \in {"cmp", "var", "notvar"}
      BY <1>1
    <3>2. Answers(d, J, q, c, Y, N)
      BY <2>4 DEF Answers
    <3>3. IsTest(d[q + 1], n, side)
      BY <2>2 DEF IsTest
    <3> QED
      BY <3>1, <3>2, <3>3, EventTests
  <2> QED
    BY <1>1, <2>5 DEF Exits
<1>2. CASE c.k # "var"
  <2>1. ASSUME NEW m \in Machine, NEW v \in BOOLEAN, m.ip = q, Shows(m, c, v)
        PROVE  \E x \in Machine : Reaches(d, J, m, x) /\ x.ip \in (IF v THEN Y ELSE N)
    <3>1. CASE c.k = "lit"
      <4>1. /\ d[q + 1].op = "imm" /\ d[q + 1].val = v
            /\ z = q + 1 /\ Silent(d[m.ip + 1]) /\ m.ip \in J /\ m.ip + 1 = z
        BY <1>l, <2>1, <3>1 DEF z, Lead, Silent, Shows
      <4>2. PICK y \in Machine : y = Move(d[m.ip + 1], m) /\ y.ip = z /\ y.reg = v
        BY <2>1, <4>1, ImmMoves
      <4>3. PICK x \in Machine : Reaches(d, J, y, x) /\ x.ip \in (IF v THEN Y ELSE N)
        <5>1. v = c.val
          BY <2>1, <3>1 DEF Shows
        <5> QED
          BY <1>b, <1>y, <3>1, <4>2, <5>1
      <4>4. Reaches(d, J, m, x)
        BY <4>1, <4>2, <4>3, ReachesStep
      <4> QED
        BY <4>3, <4>4
    <3>2. CASE c.k # "lit"
      <4>1. z = q
        BY <1>2, <3>2 DEF z, Lead
      <4>2. IF c.k = "cmp" THEN m.flag = (v = AsIs(c)) ELSE m.reg = v
        BY <1>2, <1>c, <2>1, <3>2 DEF Shows
      <4> QED
        BY <1>b, <1>y, <2>1, <3>2, <4>1, <4>2
    <3> QED
      BY <3>1, <3>2
  <2> QED
    BY <1>2, <2>1 DEF Exits
<1> QED
  BY <1>1, <1>2

\* What Operand emits.
Body(c) == IF c.k \in {"cmp", "notvar"} THEN 1 ELSE 0

OperandWords(d, p, c, n, side) ==
  /\ c.k = "cmp" => d[p + 1] = [op |-> "set", n |-> n, side |-> side, neg |-> c.swapped]
  /\ c.k = "notvar" => d[p + 1] = [op |-> "load", n |-> n, side |-> side, neg |-> TRUE]

LEMMA OperandTests ==
  ASSUME NEW d, NEW J, NEW p \in Nat, NEW c \in SimpleConditions, NEW n, NEW side,
         OperandWords(d, p, c, n, side), Body(c) = 1 => p \in J,
         NEW q, q = p + Body(c), NEW Y, NEW N, Exits(d, J, q, c, n, side, Y, N)
  PROVE  Tests(d, J, {p}, Y, N, c, n, side)
<1>c. /\ c.k \in {"cmp", "var", "notvar", "lit"}
      /\ c.k = "cmp" => c.swapped \in BOOLEAN /\ c.not \in BOOLEAN
      /\ c.k = "lit" => c.val \in BOOLEAN
  BY SimpleIs
<1>e. c.k # "var" =>
        \A m \in Machine, v \in BOOLEAN :
          m.ip = q /\ Shows(m, c, v) =>
            \E w \in Machine : Reaches(d, J, m, w) /\ w.ip \in (IF v THEN Y ELSE N)
  BY DEF Exits
<1>1. CASE c.k = "var"
  <2>1. q = p
    BY <1>1 DEF Body
  <2> QED
    BY <1>1, <2>1 DEF Exits
<1>2. CASE c.k = "lit"
  <2>1. q = p
    BY <1>2 DEF Body
  <2>2. ASSUME NEW m \in Machine, m.ip \in {p}
        PROVE  \E w \in Machine : Reaches(d, J, m, w) /\ w.ip \in (IF c.val THEN Y ELSE N)
    <3>1. Shows(m, c, c.val)
      BY <1>2 DEF Shows
    <3> QED
      BY <1>2, <1>c, <1>e, <2>1, <2>2, <3>1
  <2>3. PICK v \in BOOLEAN : v = c.val
    BY <1>2, <1>c
  <2>4. \A m \in Machine :
          m.ip \in {p} => \E w \in Machine : Reaches(d, J, m, w) /\ w.ip \in (IF v THEN Y ELSE N)
    BY <2>2, <2>3
  <2> QED
    BY <1>2, <2>3, <2>4, SilentTests
<1>3. CASE c.k = "cmp"
  <2>1. q = p + 1 /\ p \in J
    BY <1>3 DEF Body
  <2>2. PICK u : u = d[p + 1] /\ u = [op |-> "set", n |-> n, side |-> side, neg |-> c.swapped]
    BY <1>3 DEF OperandWords
  <2>3. u.op = "set" /\ u.neg = c.swapped /\ u.n = n /\ u.side = side
    BY <2>2
  <2>4. IsTest(u, n, side)
    BY <2>3 DEF IsTest, WordEvent
  <2>5. ASSUME NEW m \in Machine, NEW o \in BOOLEAN, m.ip = p
        PROVE  \E w \in Machine : /\ Reaches(d, J, Does(u, m, o), w)
                                  /\ w.ip \in (IF o = Negates(c) THEN N ELSE Y)
    <3>1. PICK x \in Machine : x = Does(u, m, o) /\ x.ip = q /\ x.flag = (o # c.swapped)
      <4>1. u.neg \in BOOLEAN
        BY <1>3, <1>c, <2>3
      <4> QED
        BY <2>1, <2>3, <2>5, <4>1, TestDoes
    <3>2. Negates(c) = c.not
      BY <1>3, <1>c DEF Negates
    <3>3. PICK v \in BOOLEAN : v = (o # c.not)
      OBVIOUS
    <3>4. Shows(x, c, v)
      BY <1>3, <1>c, <3>1, <3>3 DEF Shows, AsIs
    <3>5. PICK w \in Machine : Reaches(d, J, x, w) /\ w.ip \in (IF v THEN Y ELSE N)
      BY <1>3, <1>e, <3>1, <3>4
    <3>6. (IF v THEN Y ELSE N) = (IF o = Negates(c) THEN N ELSE Y)
      BY <1>3, <1>c, <3>2, <3>3
    <3> QED
      BY <3>1, <3>5, <3>6
  <2>6. Answers(d, J, p, c, Y, N)
    BY <2>2, <2>5 DEF Answers
  <2>7. c.k \in {"cmp", "var", "notvar"} /\ IsTest(d[p + 1], n, side)
    BY <1>3, <2>2, <2>4
  <2> QED
    BY <2>1, <2>6, <2>7, EventTests
<1>4. CASE c.k = "notvar"
  <2>1. q = p + 1 /\ p \in J
    BY <1>4 DEF Body
  <2>2. PICK u : u = d[p + 1] /\ u = [op |-> "load", n |-> n, side |-> side, neg |-> TRUE]
    BY <1>4 DEF OperandWords
  <2>3. u.op = "load" /\ u.neg = TRUE /\ u.n = n /\ u.side = side
    BY <2>2
  <2>4. IsTest(u, n, side)
    BY <2>3 DEF IsTest, WordEvent
  <2>5. ASSUME NEW m \in Machine, NEW o \in BOOLEAN, m.ip = p
        PROVE  \E w \in Machine : /\ Reaches(d, J, Does(u, m, o), w)
                                  /\ w.ip \in (IF o = Negates(c) THEN N ELSE Y)
    <3>1. PICK x \in Machine : x = Does(u, m, o) /\ x.ip = q /\ x.reg = (o # u.neg)
      <4>1. u.neg \in BOOLEAN
        BY <2>3
      <4> QED
        BY <2>1, <2>3, <2>5, <4>1, TestDoes
    <3>2. Negates(c) = TRUE
      BY <1>4 DEF Negates
    <3>3. PICK v \in BOOLEAN : v = (o # TRUE)
      OBVIOUS
    <3>4. Shows(x, c, v)
      BY <1>4, <2>3, <3>1, <3>3 DEF Shows
    <3>5. PICK w \in Machine : Reaches(d, J, x, w) /\ w.ip \in (IF v THEN Y ELSE N)
      BY <1>4, <1>e, <3>1, <3>4
    <3>6. (IF v THEN Y ELSE N) = (IF o = Negates(c) THEN N ELSE Y)
      BY <3>2, <3>3
    <3> QED
      BY <3>1, <3>5, <3>6
  <2>6. Answers(d, J, p, c, Y, N)
    BY <2>2, <2>5 DEF Answers
  <2>7. c.k \in {"cmp", "var", "notvar"} /\ IsTest(d[p + 1], n, side)
    BY <1>4, <2>2, <2>4
  <2> QED
    BY <2>1, <2>6, <2>7, EventTests
<1> QED
  BY <1>1, <1>2, <1>3, <1>4, <1>c

Skip(c) == c.k = "or"
Gate(c) == ~Literal(c.l, Skip(c))    \* the left operand's branch is emitted

Behalf(c, p) == p + Body(c.l)                                    \* its place,
Second(c, p) == Behalf(c, p) + Lead(c.l) + BranchSize            \* the right operand's,
Join(c, p) ==                                                    \* and what follows
  IF ~Compound(c) THEN p + Body(c)
  ELSE IF Gate(c) THEN Second(c, p) + Body(c.r) ELSE Behalf(c, p)

ExprWords(d, p, c, n) ==
  IF ~Compound(c) THEN OperandWords(d, p, c, n, 1)
  ELSE /\ OperandWords(d, p, c.l, n, 1)
       /\ Gate(c) => /\ BranchWords(d, Behalf(c, p), c.l, n, 1, Skip(c), Join(c, p))
                     /\ OperandWords(d, Second(c, p), c.r, n, 2)

LEMMA JoinIs ==
  ASSUME NEW p \in Nat, NEW c
  PROVE  /\ Body(c) \in {0, 1} /\ Lead(c) \in {0, 1}
         /\ Behalf(c, p) \in Nat /\ Second(c, p) \in Nat /\ Join(c, p) \in Nat
         /\ p <= Behalf(c, p) /\ Behalf(c, p) + Lead(c.l) + 2 = Second(c, p)
         /\ p <= Join(c, p)
         /\ ~Compound(c) => Join(c, p) = p + Body(c)
         /\ Compound(c) /\ Gate(c) => Join(c, p) = Second(c, p) + Body(c.r)
         /\ Compound(c) /\ ~Gate(c) => Join(c, p) = Behalf(c, p)
         /\ Behalf(c, p) = p + Body(c.l)
BY DEF Body, Lead, Behalf, Second, Join, BranchSize

LEMMA CompoundTests ==
  ASSUME NEW d, NEW J, NEW p \in Nat, NEW c \in SimpleConditions \cup CompoundConditions,
         NEW n, Compound(c), ShortCircuits(c), ExprWords(d, p, c, n),
         NEW q, q = Join(c, p), p .. q - 1 \subseteq J, NEW Y, NEW N,
         Exits(d, J, q, c.r, n, 2, Y, N)
  PROVE  Tests(d, J, {p}, Y, N, c, n, 1)
<1>c. c.l \in SimpleConditions /\ c.r \in SimpleConditions /\ c.k \in {"and", "or"}
  BY ConditionIs DEF Compound
<1>k. /\ c.l.k \in {"cmp", "var", "notvar", "lit"} /\ c.r.k \in {"cmp", "var", "notvar", "lit"}
      /\ c.l.k = "cmp" => AsIs(c.l) \in BOOLEAN
      /\ c.l.k = "lit" => c.l.val \in BOOLEAN
  BY <1>c, SimpleIs DEF AsIs
<1>d. PICK skip \in BOOLEAN : skip = Skip(c) /\ (skip <=> c.k = "or") /\ (~skip <=> c.k = "and")
  BY <1>c DEF Skip
<1>s. \/ Literal(c.l, ~skip)
      \/ c.l.k = "cmp" /\ c.r.k = "cmp" /\ AsIs(c.l) = AsIs(c.r)
      \/ Literal(c.r, skip)
  <2>1. (c.k = "or") = skip
    BY <1>d
  <2> QED
    BY <1>c, <2>1 DEF ShortCircuits
<1>e. c.r.k # "var" =>
        \A m \in Machine, v \in BOOLEAN :
          m.ip = q /\ Shows(m, c.r, v) =>
            \E w \in Machine : Reaches(d, J, m, w) /\ w.ip \in (IF v THEN Y ELSE N)
  BY DEF Exits
<1> DEFINE X == IF skip THEN Y ELSE N
<1>j. /\ q \in Nat /\ Behalf(c, p) \in Nat /\ Second(c, p) \in Nat
      /\ Body(c.l) \in {0, 1} /\ Body(c.r) \in {0, 1} /\ Lead(c.l) \in {0, 1}
      /\ Behalf(c, p) = p + Body(c.l)
      /\ Behalf(c, p) + Lead(c.l) + BranchSize = Second(c, p)
      /\ Gate(c) => q = Second(c, p) + Body(c.r)
      /\ ~Gate(c) => q = Behalf(c, p)
  BY JoinIs DEF BranchSize
<1>w. OperandWords(d, p, c.l, n, 1)
  BY DEF ExprWords
<1>1. CASE ~Gate(c)
  <2>1. Literal(c.l, skip) /\ c.l.k = "lit" /\ c.l.val = skip
    BY <1>1, <1>d DEF Gate, Literal
  <2>2. c.r.k = "lit" /\ c.r.val = skip
    BY <1>s, <2>1 DEF Literal
  <2>3. q = p
    <3>1. Body(c.l) = 0
      BY <2>1 DEF Body
    <3> QED
      BY <1>1, <1>j, <3>1
  <2>4. \A m \in Machine : m.ip \in {p} => \E w \in Machine : Reaches(d, J, m, w) /\ w.ip \in X
    <3>1. \A m : Shows(m, c.r, skip)
      BY <2>2 DEF Shows
    <3> QED
      BY <1>e, <2>2, <2>3, <3>1
  <2>5. CASE skip
    <3>1. Tests(d, J, {p}, Y, {}, c.l, n, 1)
      <4>1. \A m \in Machine : m.ip \in {p} =>
              \E w \in Machine : Reaches(d, J, m, w) /\ w.ip \in (IF skip THEN Y ELSE {})
        BY <2>4, <2>5
      <4> QED
        BY <2>1, <4>1, SilentTests
    <3>2. Tests(d, J, {}, Y, N, c.r, n, 2)
      BY DEF Tests
    <3> QED
      BY <1>d, <2>5, <3>1, <3>2, OrTests
  <2>6. CASE ~skip
    <3>1. Tests(d, J, {p}, {}, N, c.l, n, 1)
      <4>1. \A m \in Machine : m.ip \in {p} =>
              \E w \in Machine : Reaches(d, J, m, w) /\ w.ip \in (IF skip THEN {} ELSE N)
        BY <2>4, <2>6
      <4> QED
        BY <2>1, <4>1, SilentTests
    <3>2. Tests(d, J, {}, Y, N, c.r, n, 2)
      BY DEF Tests
    <3> QED
      BY <1>d, <2>6, <3>1, <3>2, AndTests
  <2> QED
    BY <2>5, <2>6
<1>2. CASE Gate(c)
  <2> DEFINE b == Behalf(c, p)
             M == Second(c, p)
  <2>1. /\ BranchWords(d, b, c.l, n, 1, skip, q) /\ OperandWords(d, M, c.r, n, 2)
    BY <1>2, <1>d DEF ExprWords
  <2>2. /\ q = M + Body(c.r) /\ b = p + Body(c.l) /\ M = b + Lead(c.l) + BranchSize
        /\ M \in Nat /\ b \in Nat
    BY <1>2, <1>j
  <2>3. /\ b \in J /\ b + Lead(c.l) \in J
        /\ Body(c.l) = 1 => p \in J
        /\ Body(c.r) = 1 => M \in J
    <3> HIDE DEF b, M
    <3>1. /\ b \in p .. q - 1 /\ b + Lead(c.l) \in p .. q - 1
          /\ Body(c.l) = 1 => p \in p .. q - 1
          /\ Body(c.r) = 1 => M \in p .. q - 1
      BY <1>j, <2>2 DEF BranchSize
    <3> QED
      BY <3>1
  <2> HIDE DEF b, M
  <2>4. Tests(d, J, {M}, Y, N, c.r, n, 2)
    BY <1>c, <2>1, <2>2, <2>3, OperandTests
  <2>5. ASSUME NEW m \in Machine, m.ip = q, c.l.k \in {"cmp", "lit"} => Shows(m, c.l, skip)
        PROVE  \E w \in Machine : Reaches(d, J, m, w) /\ w.ip \in X
    <3>1. ~Literal(c.l, ~skip)
      BY <2>5 DEF Literal, Shows
    <3>2. c.r.k # "var" /\ Shows(m, c.r, skip)
      <4>1. CASE Literal(c.r, skip)
        BY <4>1 DEF Literal, Shows
      <4>2. CASE c.l.k = "cmp" /\ c.r.k = "cmp" /\ AsIs(c.l) = AsIs(c.r)
        BY <2>5, <4>2 DEF Shows
      <4> QED
        BY <1>s, <3>1, <4>1, <4>2
    <3> QED
      BY <1>e, <2>5, <3>2
  <2>x. PICK U, V : U = (IF skip THEN X ELSE {M}) /\ V = (IF skip THEN {M} ELSE X)
    OBVIOUS
  <2>6. Exits(d, J, b, c.l, n, 1, U, V)
    <3>1. b + Lead(c.l) + BranchSize \in {M}
      BY <2>2
    <3>2. Onward(d, J, q, c.l, skip, X)
      BY <2>5 DEF Onward
    <3> HIDE DEF X
    <3> QED
      BY <1>c, <1>j, <2>1, <2>2, <2>3, <2>x, <3>1, <3>2, BranchExits
  <2>7. Tests(d, J, {p}, U, V, c.l, n, 1)
    BY <1>c, <1>w, <2>2, <2>3, <2>6, OperandTests
  <2>8. CASE skip
    BY <1>d, <2>4, <2>7, <2>8, <2>x, OrTests
  <2>9. CASE ~skip
    BY <1>d, <2>4, <2>7, <2>9, <2>x, AndTests
  <2> QED
    BY <2>8, <2>9
<1> QED
  BY <1>1, <1>2

\* The code of a condition: whatever comes behind it shows what it decides.
LEMMA CondTests ==
  ASSUME NEW d, NEW J, NEW p \in Nat, NEW c \in SimpleConditions \cup CompoundConditions,
         NEW n, ShortCircuits(c), ExprWords(d, p, c, n),
         NEW q, q = Join(c, p), p .. q - 1 \subseteq J, NEW Y, NEW N,
         Exits(d, J, q, Result(c), n, Side(c), Y, N)
  PROVE  Tests(d, J, {p}, Y, N, c, n, 1)
<1>1. CASE Compound(c)
  BY <1>1, CompoundTests DEF Result, Side
<1>2. CASE ~Compound(c)
  <2>1. c \in SimpleConditions /\ Result(c) = c /\ Side(c) = 1 /\ q = p + Body(c)
    BY <1>2, ConditionIs, JoinIs DEF Result, Side
  <2>2. OperandWords(d, p, c, n, 1)
    BY <1>2 DEF ExprWords
  <2>3. Body(c) = 1 => p \in J
    <3>1. Body(c) = 1 => p \in p .. q - 1
      BY <2>1
    <3> QED
      BY <3>1
  <2> QED
    BY <2>1, <2>2, <2>3, OperandTests
<1> QED
  BY <1>1, <1>2

-----------------------------------------------------------------------------
(* The words the compiler emits for a condition *)

\* At the places a .. b - 1 both codes are the same.
Same(c, d, a, b) == \A i \in a + 1 .. b : d[i] = c[i]

Extends(c, d) == Len(c) <= Len(d) /\ Same(c, d, 0, Len(c))

LEMMA ExtendsOn ==
  ASSUME NEW c \in Seq(WordSet), NEW d \in Seq(WordSet), NEW f \in Seq(WordSet),
         Extends(c, d), Extends(d, f)
  PROVE  Extends(c, f)
BY DEF Extends, Same

LEMMA WordEmitted ==
  ASSUME NEW e \in Emitter, e.emit, NEW w \in WordSet, NEW f, f = Emit(e, w)
  PROVE  /\ f \in Emitter /\ f.emit /\ f.dead = e.dead /\ Here(f) = Here(e) + 1
         /\ f.code[Here(e) + 1] = w /\ Extends(e.code, f.code)
<1>1. f \in Emitter /\ f.emit /\ f.dead = e.dead /\ f.code = Append(e.code, w)
  BY EmitTyped
<1>2. e.code \in Seq(WordSet)
  BY EmitterIs
<1> QED
  BY <1>1, <1>2 DEF Here, Extends, Same

LEMMA BranchEmitted ==
  ASSUME NEW e \in Emitter, e.emit, NEW op \in Branches, NEW to \in Int,
         NEW f, f = EmitBranch(e, op, to)
  PROVE  /\ f \in Emitter /\ f.emit /\ f.dead = e.dead /\ Here(f) = Here(e) + BranchSize
         /\ BranchAt(f) = Here(e)
         /\ f.code[Here(e) + 1].op = op /\ f.code[Here(e) + 1].by = to - Here(e) - BranchSize
         /\ Extends(e.code, f.code)
<1>1. f \in Emitter /\ f.emit /\ f.dead = e.dead /\ Branched(e.code, f.code, op, to)
  BY EmitBranchTyped
<1>2. PICK w \in WordSet : /\ w.op = op /\ w.by = to - Len(e.code) - BranchSize
                           /\ f.code = Append(Append(e.code, w), SecondHalf)
  BY <1>1 DEF Branched
<1>3. e.code \in Seq(WordSet) /\ Len(e.code) \in Nat
  BY EmitterIs DEF Here
<1>4. SecondHalf \in WordSet
  BY DEF SecondHalf, WordSet
<1>g. PICK g : g = Append(e.code, w)
  OBVIOUS
<1>5. /\ g \in Seq(WordSet) /\ Len(g) = Len(e.code) + 1
      /\ g[Len(e.code) + 1] = w /\ \A i \in 1 .. Len(e.code) : g[i] = e.code[i]
  BY <1>3, <1>g
<1>6. /\ f.code = Append(g, SecondHalf) /\ Len(f.code) = Len(e.code) + 2
      /\ \A i \in 1 .. Len(e.code) + 1 : f.code[i] = g[i]
  <2>1. f.code = Append(g, SecondHalf)
    BY <1>2, <1>g
  <2>2. /\ Len(Append(g, SecondHalf)) = Len(g) + 1
        /\ \A i \in 1 .. Len(g) : Append(g, SecondHalf)[i] = g[i]
    BY <1>4, <1>5
  <2> QED
    BY <1>3, <1>5, <2>1, <2>2
<1>7. f.code[Len(e.code) + 1] = w /\ \A i \in 1 .. Len(e.code) : f.code[i] = e.code[i]
  BY <1>3, <1>5, <1>6
<1>8. Here(f) = Here(e) + BranchSize /\ BranchAt(f) = Here(e)
  BY <1>1, <1>3, <1>6 DEF Here, BranchSize, BranchAt
<1> QED
  BY <1>1, <1>2, <1>3, <1>6, <1>7, <1>8 DEF Extends, Same, Here

LEMMA OperandEmits ==
  ASSUME NEW e \in Emitter, e.emit, NEW c \in SimpleConditions, NEW n \in Nat,
         NEW side \in Nat, NEW f, f = Operand(e, c, n, side)
  PROVE  /\ f \in Emitter /\ f.emit /\ Here(f) = Here(e) + Body(c) /\ Extends(e.code, f.code)
         /\ OperandWords(f.code, Here(e), c, n, side)
<1>e. e.code \in Seq(WordSet) /\ Here(e) \in Nat
  BY EmitterIs
<1>1. CASE c.k = "cmp"
  <2>1. PICK w \in WordSet : w = [op |-> "set", n |-> n, side |-> side, neg |-> c.swapped]
    BY <1>1, SimpleIs DEF WordSet
  <2>2. f = Emit(e, w)
    BY <1>1, <2>1 DEF Operand, Test
  <2> QED
    BY <1>1, <2>1, <2>2, WordEmitted DEF Body, OperandWords
<1>2. CASE c.k = "notvar"
  <2>1. PICK w \in WordSet : w = [op |-> "load", n |-> n, side |-> side, neg |-> TRUE]
    BY DEF WordSet
  <2>2. f = Emit(e, w)
    BY <1>2, <2>1 DEF Operand, Load
  <2> QED
    BY <1>2, <2>1, <2>2, WordEmitted DEF Body, OperandWords
<1>3. CASE c.k \notin {"cmp", "notvar"}
  <2>1. f = e
    BY <1>3 DEF Operand
  <2>2. Body(c) = 0 /\ OperandWords(f.code, Here(e), c, n, side)
    BY <1>3 DEF Body, OperandWords
  <2>3. Extends(e.code, e.code)
    BY <1>e DEF Extends, Same, Here
  <2> QED
    BY <2>1, <2>2, <2>3, <1>e
<1> QED
  BY <1>1, <1>2, <1>3

LEMMA BranchIfEmits ==
  ASSUME NEW e \in Emitter, e.emit, NEW c \in SimpleConditions, NEW n \in Nat,
         NEW side \in Nat, NEW sense \in BOOLEAN, NEW f, f = BranchIf(e, c, n, side, sense)
  PROVE  /\ f \in Emitter /\ f.emit /\ Here(f) = Here(e) + Lead(c) + BranchSize
         /\ Extends(e.code, f.code) /\ BranchAt(f) = Here(e) + Lead(c)
         /\ BranchWords(f.code, Here(e), c, n, side, sense, Here(f))
<1>e. e.code \in Seq(WordSet) /\ Here(e) \in Nat
  BY EmitterIs
<1>1. PICK g : /\ g \in Emitter /\ g.emit /\ Here(g) = Here(e) + Lead(c)
               /\ Extends(e.code, g.code)
               /\ c.k = "var" =>
                    g.code[Here(e) + 1] = [op |-> "load", n |-> n, side |-> side, neg |-> FALSE]
               /\ c.k = "lit" => g.code[Here(e) + 1] = [op |-> "imm", val |-> c.val]
               /\ g = (CASE c.k = "var" -> Load(e, n, side, FALSE)
                         [] c.k = "lit" -> Emit(e, [op |-> "imm", val |-> c.val])
                         [] OTHER       -> e)
  <2>1. CASE c.k = "var"
    <3>1. PICK w \in WordSet : w = [op |-> "load", n |-> n, side |-> side, neg |-> FALSE]
      BY DEF WordSet
    <3>2. PICK g : g = Emit(e, w)
      OBVIOUS
    <3>3. Load(e, n, side, FALSE) = g
      BY <3>1, <3>2 DEF Load
    <3>4. g \in Emitter /\ g.emit /\ Here(g) = Here(e) + 1 /\ Extends(e.code, g.code)
          /\ g.code[Here(e) + 1] = w
      BY <3>2, WordEmitted
    <3> QED
      BY <2>1, <3>1, <3>3, <3>4 DEF Lead
  <2>2. CASE c.k = "lit"
    <3>1. PICK w \in WordSet : w = [op |-> "imm", val |-> c.val]
      BY <2>2, SimpleIs DEF WordSet
    <3>2. PICK g : g = Emit(e, w)
      OBVIOUS
    <3>3. Emit(e, [op |-> "imm", val |-> c.val]) = g
      BY <3>1, <3>2
    <3>4. g \in Emitter /\ g.emit /\ Here(g) = Here(e) + 1 /\ Extends(e.code, g.code)
          /\ g.code[Here(e) + 1] = w
      BY <3>2, WordEmitted
    <3> QED
      BY <2>2, <3>1, <3>3, <3>4 DEF Lead
  <2>3. CASE c.k \notin {"var", "lit"}
    <3>1. e = (CASE c.k = "var" -> Load(e, n, side, FALSE)
                 [] c.k = "lit" -> Emit(e, [op |-> "imm", val |-> c.val])
                 [] OTHER       -> e)
      BY <2>3
    <3>2. Extends(e.code, e.code)
      BY <1>e DEF Extends, Same, Here
    <3>3. Lead(c) = 0 /\ Here(e) = Here(e) + Lead(c)
      BY <2>3, <1>e DEF Lead
    <3> QED
      BY <2>3, <3>1, <3>2, <3>3
  <2> QED
    BY <2>1, <2>2, <2>3
<1>2. PICK op \in Branches : op = OpOf(c, sense)
  BY DEF Branches, OpOf
<1>3. PICK to \in Int : to = Here(g) + BranchSize
  <2>1. Here(g) \in Nat
    BY <1>1, EmitterIs
  <2> QED
    BY <2>1 DEF BranchSize
<1>4. f = EmitBranch(g, op, to)
  <2>1. op = (CASE c.k = "cmp" -> IF sense = AsIs(c) THEN "BCT" ELSE "BCF"
                [] OTHER       -> IF sense THEN "BNZ" ELSE "BEZ")
    BY <1>2 DEF OpOf
  <2> QED
    BY <1>1, <1>3, <2>1 DEF BranchIf
<1>5. /\ f \in Emitter /\ f.emit /\ Here(f) = Here(g) + BranchSize /\ BranchAt(f) = Here(g)
      /\ f.code[Here(g) + 1].op = op
      /\ f.code[Here(g) + 1].by = to - Here(g) - BranchSize /\ Extends(g.code, f.code)
  <2>1. g \in Emitter /\ g.emit
    BY <1>1
  <2> QED
    BY <2>1, <1>4, BranchEmitted
<1>6. /\ g.code \in Seq(WordSet) /\ f.code \in Seq(WordSet) /\ Here(g) \in Nat
      /\ Here(g) = Len(g.code)
  BY <1>1, <1>5, EmitterIs DEF Here
<1>7. Extends(e.code, f.code)
  BY <1>1, <1>5, <1>6, <1>e, ExtendsOn
<1>8. Lead(c) = 1 => f.code[Here(e) + 1] = g.code[Here(e) + 1]
  <2>1. Lead(c) = 1 => Here(e) + 1 \in 0 + 1 .. Len(g.code)
    <3>1. Len(g.code) = Here(e) + Lead(c)
      BY <1>1, <1>6
    <3> QED
      BY <3>1, <1>e
  <2> QED
    BY <2>1, <1>5 DEF Extends, Same
<1>9. BranchWords(f.code, Here(e), c, n, side, sense, Here(f))
  <2>1. /\ f.code[Here(e) + Lead(c) + 1].op = OpOf(c, sense)
        /\ f.code[Here(e) + Lead(c) + 1].by = Here(f) - (Here(e) + Lead(c)) - BranchSize
    BY <1>1, <1>2, <1>3, <1>5, <1>6
  <2>2. c.k \in {"var", "lit"} => Lead(c) = 1
    BY DEF Lead
  <2> QED
    BY <1>1, <1>8, <2>1, <2>2 DEF BranchWords
<1> QED
  BY <1>1, <1>5, <1>7, <1>9

\* What is behind it does not change it.
LEMMA WordsStay ==
  ASSUME NEW d, NEW g, NEW p \in Nat, NEW c \in SimpleConditions, NEW n, NEW side,
         NEW sense, NEW t, NEW q \in Nat, Same(d, g, p, q)
  PROVE  /\ OperandWords(d, p, c, n, side) /\ p + Body(c) <= q => OperandWords(g, p, c, n, side)
         /\ BranchWords(d, p, c, n, side, sense, t) /\ p + Lead(c) < q =>
              BranchWords(g, p, c, n, side, sense, t)
<1>1. Body(c) = 1 /\ p + Body(c) <= q => g[p + 1] = d[p + 1]
  BY DEF Same
<1>2. OperandWords(d, p, c, n, side) /\ p + Body(c) <= q => OperandWords(g, p, c, n, side)
  BY <1>1 DEF OperandWords, Body
<1>3. Lead(c) \in {0, 1} /\ (c.k \in {"var", "lit"} => Lead(c) = 1)
  BY DEF Lead
<1>4. p + Lead(c) < q => g[p + Lead(c) + 1] = d[p + Lead(c) + 1]
                         /\ (Lead(c) = 1 => g[p + 1] = d[p + 1])
  BY <1>3 DEF Same
<1>5. BranchWords(d, p, c, n, side, sense, t) /\ p + Lead(c) < q =>
        BranchWords(g, p, c, n, side, sense, t)
  BY <1>3, <1>4 DEF BranchWords
<1> QED
  BY <1>2, <1>5

LEMMA SameIn ==
  ASSUME NEW d, NEW g, NEW p \in Nat, NEW q \in Nat, Same(d, g, p, q),
         NEW a \in Nat, NEW b \in Nat, p <= a, b <= q
  PROVE  Same(d, g, a, b)
BY DEF Same

LEMMA ExprStays ==
  ASSUME NEW d, NEW g, NEW p \in Nat, NEW c \in SimpleConditions \cup CompoundConditions, NEW n,
         NEW q \in Nat, q = Join(c, p), Same(d, g, p, q), ExprWords(d, p, c, n)
  PROVE  ExprWords(g, p, c, n)
<1>j. /\ Body(c) \in {0, 1} /\ Lead(c.l) \in {0, 1} /\ Body(c.l) \in {0, 1} /\ Body(c.r) \in {0, 1}
      /\ Behalf(c, p) \in Nat /\ Second(c, p) \in Nat /\ p <= Behalf(c, p)
      /\ Behalf(c, p) + Lead(c.l) + 2 = Second(c, p) /\ p <= Second(c, p)
      /\ ~Compound(c) => q = p + Body(c)
      /\ Compound(c) /\ Gate(c) => q = Second(c, p) + Body(c.r)
      /\ Compound(c) /\ ~Gate(c) => q = Behalf(c, p)
      /\ Behalf(c, p) = p + Body(c.l)
  BY JoinIs DEF Body, Lead
<1>1. CASE ~Compound(c)
  <2>1. c \in SimpleConditions
    BY <1>1, ConditionIs
  <2>2. OperandWords(d, p, c, n, 1) /\ p + Body(c) <= q
    BY <1>1, <1>j DEF ExprWords
  <2>3. OperandWords(g, p, c, n, 1)
    BY <2>1, <2>2, WordsStay
  <2> QED
    BY <1>1, <2>3 DEF ExprWords
<1>2. CASE Compound(c)
  <2>1. c.l \in SimpleConditions /\ c.r \in SimpleConditions
    BY <1>2, ConditionIs
  <2>2. OperandWords(g, p, c.l, n, 1)
    <3>1. OperandWords(d, p, c.l, n, 1)
      BY <1>2 DEF ExprWords
    <3>2. p + Body(c.l) <= q
      BY <1>2, <1>j
    <3> QED
      BY <2>1, <3>1, <3>2, WordsStay
  <2>3. ASSUME Gate(c)
        PROVE  /\ BranchWords(g, Behalf(c, p), c.l, n, 1, Skip(c), q)
               /\ OperandWords(g, Second(c, p), c.r, n, 2)
    <3>1. /\ BranchWords(d, Behalf(c, p), c.l, n, 1, Skip(c), q)
          /\ OperandWords(d, Second(c, p), c.r, n, 2)
      BY <1>2, <2>3 DEF ExprWords
    <3>2. Same(d, g, Behalf(c, p), q) /\ Same(d, g, Second(c, p), q)
      BY <1>j, SameIn
    <3>3. Behalf(c, p) + Lead(c.l) < q /\ Second(c, p) + Body(c.r) <= q
      BY <1>2, <2>3, <1>j
    <3>4. BranchWords(g, Behalf(c, p), c.l, n, 1, Skip(c), q)
      BY <3>1, <3>2, <3>3, <2>1, <1>j, WordsStay
    <3>5. OperandWords(g, Second(c, p), c.r, n, 2)
      BY <3>1, <3>2, <3>3, <2>1, <1>j, WordsStay
    <3> QED
      BY <3>4, <3>5
  <2> QED
    BY <1>2, <2>2, <2>3 DEF ExprWords
<1> QED
  BY <1>1, <1>2

\* Of the words of a branch its target alone changes.
LEMMA Rebranched ==
  ASSUME NEW d, NEW g, NEW q \in Nat, NEW c \in SimpleConditions, NEW n, NEW side, NEW sense,
         NEW u, NEW t, BranchWords(d, q, c, n, side, sense, u),
         Lead(c) = 1 => g[q + 1] = d[q + 1],
         g[q + Lead(c) + 1].op = d[q + Lead(c) + 1].op,
         g[q + Lead(c) + 1].by = t - (q + Lead(c)) - BranchSize
  PROVE  BranchWords(g, q, c, n, side, sense, t)
BY DEF BranchWords, Lead

LEMMA ExprEmits ==
  ASSUME NEW A, NEW e, Sound(e, A), e.emit, NEW c \in SimpleConditions \cup CompoundConditions,
         NEW n \in Nat, NEW f, f = Expr(e, c, n)
  PROVE  /\ f \in Emitter /\ f.emit /\ Here(f) = Join(c, Here(e)) /\ Extends(e.code, f.code)
         /\ ExprWords(f.code, Here(e), c, n)
<1>e. e \in Emitter /\ e.code \in Seq(WordSet) /\ Here(e) \in Nat
  BY SoundIs
<1>1. CASE ~Compound(c)
  <2>1. c \in SimpleConditions /\ f = Operand(e, c, n, 1)
    BY <1>1, ConditionIs DEF Expr
  <2>2. Join(c, Here(e)) = Here(e) + Body(c)
    BY <1>1 DEF Join
  <2> QED
    BY <1>1, <1>e, <2>1, <2>2, OperandEmits DEF ExprWords
<1>2. CASE Compound(c)
  <2>c. c.l \in SimpleConditions /\ c.r \in SimpleConditions
    BY <1>2, ConditionIs
  <2>1. PICK left : left = Operand(e, c.l, n, 1)
    OBVIOUS
  <2>2. PICK gate : gate = [left EXCEPT !.emit = @ /\ ~Literal(c.l, Skip(c))]
    OBVIOUS
  <2>3. PICK jump : jump = BranchIf(gate, c.l, n, 1, Skip(c))
    OBVIOUS
  <2>4. PICK right : right = Operand(jump, c.r, n, 2)
    OBVIOUS
  <2>5. PICK at : at = BranchAt(jump)
    OBVIOUS
  <2>6. PICK last : last = PatchToCurrent(right, at)
    OBVIOUS
  <2>7. f = [last EXCEPT !.emit = e.emit]
    BY <1>2, <2>1, <2>2, <2>3, <2>4, <2>5, <2>6 DEF Expr, Skip
  <2>8. /\ left \in Emitter /\ left.emit /\ Here(left) = Behalf(c, Here(e))
        /\ Extends(e.code, left.code) /\ OperandWords(left.code, Here(e), c.l, n, 1)
        /\ Sound(left, A)
    <3>1. /\ left \in Emitter /\ left.emit /\ Here(left) = Here(e) + Body(c.l)
          /\ Extends(e.code, left.code) /\ OperandWords(left.code, Here(e), c.l, n, 1)
      <4>1. PICK one \in Nat : one = 1
        OBVIOUS
      <4>2. left = Operand(e, c.l, n, one) /\ c.l \in SimpleConditions /\ e \in Emitter
        BY <4>1, <2>1, <2>c, <1>e
      <4>3. /\ left \in Emitter /\ left.emit /\ Here(left) = Here(e) + Body(c.l)
            /\ Extends(e.code, left.code) /\ OperandWords(left.code, Here(e), c.l, n, one)
        BY <4>2, OperandEmits
      <4> QED
        BY <4>1, <4>3
    <3>2. Sound(left, A)
      BY <2>c, <2>1, OperandSound
    <3> QED
      BY <3>1, <3>2 DEF Behalf
  <2>9. /\ gate \in Emitter /\ gate.code = left.code /\ (gate.emit <=> Gate(c))
        /\ Here(gate) = Here(left) /\ Sound(gate, A)
    <3>1. PICK b \in BOOLEAN : b <=> Gate(c)
      BY DEF Gate, Literal
    <3>2. gate = [left EXCEPT !.emit = b]
      BY <2>2, <2>8, <3>1 DEF Gate, Emitter, Literal
    <3> QED
      BY <2>8, <3>1, <3>2, SwitchedSound, SoundIs
  <2>10. Skip(c) \in BOOLEAN
    BY DEF Skip
  <2>11. CASE ~Gate(c)
    <3>1. ~gate.emit
      BY <2>9, <2>11
    <3>2. jump = gate /\ Sound(jump, A)
      <4>1. Sound(jump, A) /\ Continues(gate, jump)
        BY <2>3, <2>9, <2>10, <2>c, BranchIfSound
      <4> QED
        BY <4>1, <3>1 DEF Continues
    <3>3. right = jump
      <4>1. Continues(jump, right)
        BY <3>2, <2>4, <2>c, OperandSound
      <4> QED
        BY <4>1, <3>1, <3>2 DEF Continues
    <3>4. last = gate
      BY <3>1, <3>2, <3>3, <2>6 DEF PatchToCurrent, Patch
    <3>5. f \in Emitter /\ f.code = left.code /\ f.emit /\ Here(f) = Here(left)
      <4>1. e.emit \in BOOLEAN
        BY <1>e, EmitterIs
      <4>2. Sound(f, A) /\ f.code = gate.code /\ f.emit = e.emit /\ Here(f) = Here(gate)
        <5>1. PICK b \in BOOLEAN : b = e.emit
          BY <4>1
        <5>2. f = [gate EXCEPT !.emit = b]
          BY <5>1, <3>4, <2>7
        <5>3. Sound(gate, A)
          BY <2>9
        <5>4. Sound(f, A) /\ f.code = gate.code /\ f.emit = b /\ Here(f) = Here(gate)
          BY <5>2, <5>3, SwitchedSound
        <5> QED
          BY <5>1, <5>4
      <4>3. f \in Emitter
        BY <4>2, SoundIs
      <4> QED
        BY <4>2, <4>3, <2>9
    <3>6. Join(c, Here(e)) = Behalf(c, Here(e))
      BY <1>2, <2>11 DEF Join
    <3> QED
      BY <1>2, <2>8, <2>11, <3>5, <3>6 DEF ExprWords
  <2>12. CASE Gate(c)
    <3>1. gate.emit /\ gate \in Emitter
      BY <2>9, <2>12
    <3>2. /\ jump \in Emitter /\ jump.emit /\ Here(jump) = Second(c, Here(e))
          /\ Extends(gate.code, jump.code) /\ at = Behalf(c, Here(e)) + Lead(c.l)
          /\ BranchWords(jump.code, Here(gate), c.l, n, 1, Skip(c), Here(jump))
      <4>1. /\ jump \in Emitter /\ jump.emit /\ Here(jump) = Here(gate) + Lead(c.l) + BranchSize
            /\ Extends(gate.code, jump.code) /\ BranchAt(jump) = Here(gate) + Lead(c.l)
            /\ BranchWords(jump.code, Here(gate), c.l, n, 1, Skip(c), Here(jump))
        <5>1. PICK sense \in BOOLEAN : sense = Skip(c)
          BY <2>10
        <5>2. PICK one \in Nat : one = 1
          OBVIOUS
        <5>3. jump = BranchIf(gate, c.l, n, one, sense) /\ gate \in Emitter /\ gate.emit
              /\ c.l \in SimpleConditions
          BY <5>1, <5>2, <2>3, <3>1, <2>c
        <5>4. /\ jump \in Emitter /\ jump.emit /\ Here(jump) = Here(gate) + Lead(c.l) + BranchSize
              /\ Extends(gate.code, jump.code) /\ BranchAt(jump) = Here(gate) + Lead(c.l)
              /\ BranchWords(jump.code, Here(gate), c.l, n, one, sense, Here(jump))
          BY <5>3, BranchIfEmits
        <5> QED
          BY <5>1, <5>2, <5>4
      <4> QED
        BY <4>1, <2>5, <2>8, <2>9 DEF Second
    <3>3. /\ Sound(jump, A) /\ IsBranch(jump.code, at) /\ at \in Nat
      BY <2>3, <2>5, <2>9, <2>10, <3>1, <2>c, BranchIfSound
    <3>4. /\ right \in Emitter /\ right.emit /\ Here(right) = Here(jump) + Body(c.r)
          /\ Extends(jump.code, right.code)
          /\ OperandWords(right.code, Here(jump), c.r, n, 2)
      BY <3>2, <2>4, <2>c, OperandEmits
    <3>5. IsBranch(right.code, at)
      <4>1. Sound(right, A) /\ Kept(jump.code, right.code)
        BY <3>3, <2>4, <2>c, OperandSound DEF Continues
      <4>2. jump.code \in Seq(WordSet) /\ right.code \in Seq(WordSet)
        BY <3>3, <4>1, SoundIs
      <4> QED
        BY <3>3, <4>1, <4>2, KeptBranch
    <3>6. PICK to \in Nat : to = Here(right)
      BY <3>4, EmitterIs
    <3>7. last \in Emitter /\ last.emit /\ Here(last) = to /\ Patched(right.code, last.code, at, to)
      <4>1. last = Patch(right, at, to) /\ to \in Int
        BY <2>6, <3>6 DEF PatchToCurrent
      <4>2. last \in Emitter /\ last.emit = right.emit /\ Here(last) = Here(right)
        <5>1. right \in Emitter /\ at \in Nat /\ to \in Int
          BY <4>1, <3>3, <3>4
        <5>2. last = Patch(right, at, to)
          BY <4>1
        <5> QED
          BY <5>1, <5>2, PatchIs, ZenonT(60)
      <4>3. Patched(right.code, last.code, at, to)
        BY <4>1, <3>3, <3>4, <3>5, PatchTyped
      <4> QED
        BY <4>2, <4>3, <3>4, <3>6
    <3>8. f \in Emitter /\ f.emit /\ f.code = last.code
      BY <3>7, <2>7, <1>e, EmitterIs, Switched
    <3>9. to = Join(c, Here(e))
      BY <1>2, <2>12, <3>2, <3>4, <3>6 DEF Join
    <3>j. /\ Lead(c.l) \in {0, 1} /\ Body(c.r) \in {0, 1}
          /\ Behalf(c, Here(e)) \in Nat /\ Second(c, Here(e)) \in Nat
          /\ Here(e) <= Behalf(c, Here(e))
          /\ Behalf(c, Here(e)) + Lead(c.l) + 2 = Second(c, Here(e))
      BY <1>e, JoinIs DEF Lead, Body
    <3>l. /\ Len(e.code) = Here(e) /\ Len(left.code) = Behalf(c, Here(e))
          /\ Len(jump.code) = Second(c, Here(e)) /\ Len(right.code) = to
          /\ to = Second(c, Here(e)) + Body(c.r)
      BY <2>8, <3>2, <3>4, <3>6 DEF Here
    <3>10. \A i \in 1 .. to : i # at + 1 => f.code[i] = right.code[i]
      BY <3>7, <3>8, <3>l DEF Patched
    <3>11. Same(left.code, right.code, 0, Behalf(c, Here(e)))
      BY <2>9, <3>2, <3>4, <3>l, <3>j DEF Extends, Same
    <3>a. at = Behalf(c, Here(e)) + Lead(c.l) /\ to \in Nat /\ Behalf(c, Here(e)) <= to
      BY <3>2, <3>6, <3>l, <3>j
    <3>12. Same(left.code, f.code, 0, Behalf(c, Here(e)))
      <4>1. \A i \in 0 + 1 .. Behalf(c, Here(e)) : i \in 1 .. to /\ i # at + 1
        BY <3>a, <3>j
      <4> QED
        BY <4>1, <3>10, <3>11 DEF Same
    <3>13. Extends(e.code, f.code)
      <4>1. Len(e.code) <= Len(f.code)
        BY <3>l, <3>j, <3>7, <3>8 DEF Here
      <4>2. Same(e.code, left.code, 0, Len(e.code))
        BY <2>8 DEF Extends
      <4> QED
        BY <4>1, <4>2, <3>12, <3>l, <3>j, <1>e DEF Extends, Same
    <3>14. OperandWords(f.code, Here(e), c.l, n, 1)
      <4>1. Same(left.code, f.code, Here(e), Behalf(c, Here(e)))
        BY <3>12, <3>j, <1>e, SameIn
      <4>2. Here(e) + Body(c.l) <= Behalf(c, Here(e))
        BY <3>j DEF Behalf
      <4> QED
        BY <4>1, <4>2, <2>8, <2>c, <3>j, <1>e, WordsStay
    <3>15. OperandWords(f.code, Second(c, Here(e)), c.r, n, 2)
      <4>1. Same(right.code, f.code, Second(c, Here(e)), to)
        BY <3>10, <3>a, <3>j DEF Same
      <4>2. OperandWords(right.code, Second(c, Here(e)), c.r, n, 2)
        BY <3>4, <3>2
      <4>3. Second(c, Here(e)) + Body(c.r) <= to
        BY <3>l, <3>j
      <4> QED
        BY <4>1, <4>2, <4>3, <3>a, <3>j, <2>c, WordsStay
    <3>16. BranchWords(f.code, Behalf(c, Here(e)), c.l, n, 1, Skip(c), to)
      <4>1. BranchWords(jump.code, Behalf(c, Here(e)), c.l, n, 1, Skip(c), Here(jump))
        BY <3>2, <2>8, <2>9
      <4>2. Lead(c.l) = 1 => f.code[Behalf(c, Here(e)) + 1] = jump.code[Behalf(c, Here(e)) + 1]
        BY <3>10, <3>2, <3>4, <3>l, <3>j DEF Extends, Same
      <4>3. /\ f.code[at + 1].op = jump.code[at + 1].op
            /\ f.code[at + 1].by = to - at - BranchSize
        <5>1. f.code[at + 1].op = right.code[at + 1].op /\ f.code[at + 1].by = to - at - BranchSize
          BY <3>7, <3>8 DEF Patched
        <5>2. at + 1 \in 0 + 1 .. Len(jump.code)
          BY <3>a, <3>l, <3>j
        <5>3. right.code[at + 1] = jump.code[at + 1]
          BY <5>2, <3>4 DEF Extends, Same
        <5> QED
          BY <5>1, <5>3
      <4> QED
        BY <4>1, <4>2, <4>3, <3>2, <3>j, <2>c, Rebranched
    <3> QED
      BY <1>2, <2>12, <3>7, <3>8, <3>9, <3>13, <3>14, <3>15, <3>16 DEF ExprWords, Here
  <2> QED
    BY <2>11, <2>12
<1> QED
  BY <1>1, <1>2

-----------------------------------------------------------------------------
(* Conditions that are compiled, their branches still to be patched *)

\* d is a code that has more to it than c: what c has at the places I is there.
Agree(c, I, d, J) == I \subseteq J /\ \A p \in I : d[p + 1] = c[p + 1]

\* The branch at `from' is what it was, and leads to x.
Led(c, d, J, from, x) ==
  from \in J /\ d[from + 1].op = c[from + 1].op /\ d[from + 1].by = x - from - BranchSize

\* The places from a up to b.
Span(a, b) == a .. b - 1

\* When the branch at `from' will lead to x, the code from a on tests cond, and goes
\* on at b if it holds and at x if it does not.
TestWaits(c, I, a, b, from, cond, n, side) ==
  /\ from \in Nat /\ from < Len(c)
  /\ \A d, J, x : x \in Nat /\ Agree(c, I, d, J) /\ Led(c, d, J, from, x) =>
                    Tests(d, J, {a}, {b}, {x}, cond, n, side)

LEMMA OnwardSelf ==
  ASSUME NEW d, NEW J, NEW t, NEW c, NEW sense, NEW X, t \in X
  PROVE  Onward(d, J, t, c, sense, X)
BY ReachesSelf DEF Onward

LEMMA UnlessExits ==
  ASSUME NEW d, NEW J, NEW q \in Nat, NEW t \in Nat, NEW c \in SimpleConditions,
         NEW n, NEW side, q \in J, q + Lead(c) \in J,
         BranchWords(d, q, c, n, side, FALSE, t),
         NEW b, b = q + Lead(c) + BranchSize
  PROVE  Exits(d, J, q, c, n, side, {b}, {t})
<1>1. PICK X, O : X = {t} /\ O = {b}
  OBVIOUS
<1>2. Onward(d, J, t, c, FALSE, X)
  BY <1>1, OnwardSelf
<1>3. O = (IF FALSE THEN X ELSE O) /\ X = (IF FALSE THEN O ELSE X)
  OBVIOUS
<1>4. q + Lead(c) + BranchSize \in O
  BY <1>1
<1>5. Exits(d, J, q, c, n, side, O, X)
  BY <1>2, <1>3, <1>4, BranchExits
<1> QED
  BY <1>1, <1>5

\* f is e and a branch behind it, taken when c does not hold.
HasUnless(e, f, c, n, side) ==
  /\ f \in Emitter /\ f.emit /\ Here(f) = Here(e) + Lead(c) + BranchSize
  /\ Extends(e.code, f.code) /\ BranchAt(f) = Here(e) + Lead(c)
  /\ BranchWords(f.code, Here(e), c, n, side, FALSE, Here(f))
HasOperand(e, f, c, n, side) ==
  /\ f \in Emitter /\ f.emit /\ Here(f) = Here(e) + Body(c) /\ Extends(e.code, f.code)
  /\ OperandWords(f.code, Here(e), c, n, side)

LEMMA UnlessEmits ==
  ASSUME NEW e \in Emitter, e.emit, NEW c \in SimpleConditions, NEW n \in Nat,
         NEW side \in Nat, NEW f, f = BranchIf(e, c, n, side, FALSE)
  PROVE  HasUnless(e, f, c, n, side)
<1>1. PICK no \in BOOLEAN : no = FALSE
  OBVIOUS
<1>2. f = BranchIf(e, c, n, side, no)
  BY <1>1
<1>3. /\ f \in Emitter /\ f.emit /\ Here(f) = Here(e) + Lead(c) + BranchSize
      /\ Extends(e.code, f.code) /\ BranchAt(f) = Here(e) + Lead(c)
      /\ BranchWords(f.code, Here(e), c, n, side, no, Here(f))
  BY <1>2, BranchIfEmits, ZenonT(60)
<1> QED
  BY <1>1, <1>3 DEF HasUnless

LEMMA OperandHas ==
  ASSUME NEW e \in Emitter, e.emit, NEW c \in SimpleConditions, NEW n \in Nat,
         NEW side \in Nat, NEW f, f = Operand(e, c, n, side)
  PROVE  HasOperand(e, f, c, n, side)
BY OperandEmits DEF HasOperand

\* g has the words that c has behind e, but for the branch's target.
LEMMA SimpleWaits ==
  ASSUME NEW e \in Emitter, NEW c \in SimpleConditions, NEW n, NEW side,
         NEW y, HasOperand(e, y, c, n, side), NEW g, HasUnless(y, g, c, n, side),
         NEW I, Span(Here(e), BranchAt(g)) \subseteq I
  PROVE  /\ TestWaits(g.code, I, Here(e), Here(g), BranchAt(g), c, n, side)
         /\ g \in Emitter /\ g.emit /\ Extends(e.code, g.code)
         /\ BranchAt(g) \in Nat /\ Here(e) <= BranchAt(g) /\ Here(g) = BranchAt(g) + 2
<1>1. /\ y \in Emitter /\ Here(y) = Here(e) + Body(c) /\ Extends(e.code, y.code)
      /\ OperandWords(y.code, Here(e), c, n, side)
  BY DEF HasOperand
<1>4. /\ g \in Emitter /\ g.emit /\ Here(g) = Here(y) + Lead(c) + BranchSize
      /\ Extends(y.code, g.code) /\ BranchAt(g) = Here(y) + Lead(c)
      /\ BranchWords(g.code, Here(y), c, n, side, FALSE, Here(g))
  BY DEF HasUnless
<1>5. PICK p, q, at, h, l :
        p = Here(e) /\ q = Here(y) /\ at = BranchAt(g) /\ h = Here(g) /\ l = Lead(c)
  OBVIOUS
<1>a. p \in Nat /\ q = Len(y.code) /\ h = Len(g.code)
  BY <1>5, EmitterIs DEF Here
<1>b. q = p + Body(c) /\ at = q + l /\ h = q + l + 2
  BY <1>1, <1>4, <1>5 DEF BranchSize
<1>c. Body(c) \in {0, 1} /\ l \in {0, 1}
  BY <1>5 DEF Body, Lead
<1>d. q \in Nat /\ at \in Nat /\ p <= q /\ q <= at /\ h = at + 2 /\ at < h
  <2>1. PICK o : o = Body(c)
    OBVIOUS
  <2>2. o \in {0, 1} /\ q = p + o
    BY <2>1, <1>b, <1>c
  <2> QED
    BY <2>2, <1>a, <1>b, <1>c
<1>6. OperandWords(g.code, p, c, n, side)
  <2>1. Same(y.code, g.code, p, q)
    <3>1. Same(y.code, g.code, 0, q)
      BY <1>4, <1>a DEF Extends
    <3>2. 0 \in Nat /\ 0 <= p /\ q <= q
      BY <1>a, <1>d
    <3> QED
      BY <3>1, <3>2, <1>a, <1>d, SameIn
  <2>2. OperandWords(y.code, p, c, n, side) /\ p + Body(c) <= q
    BY <1>1, <1>5, <1>b, <1>d
  <2> QED
    BY <1>a, <1>d, <2>1, <2>2, WordsStay
<1>7. BranchWords(g.code, q, c, n, side, FALSE, h)
  BY <1>4, <1>5
<1>8. ASSUME NEW d, NEW J, NEW x, x \in Nat, Agree(g.code, I, d, J), Led(g.code, d, J, at, x)
      PROVE  Tests(d, J, {p}, {h}, {x}, c, n, side)
  <2>0. p .. at - 1 \subseteq I
    BY <1>5 DEF Span
  <2>1. \A i \in p .. at - 1 : i \in J /\ d[i + 1] = g.code[i + 1]
    BY <2>0, <1>8 DEF Agree
  <2>2. Same(g.code, d, p, q)
    <3>1. \A i \in p + 1 .. q : i - 1 \in p .. at - 1 /\ (i - 1) + 1 = i
      BY <1>a, <1>d
    <3> QED
      BY <2>1, <3>1 DEF Same
  <2>3. OperandWords(d, p, c, n, side)
    <3>1. p + Body(c) <= q
      BY <1>b, <1>d
    <3> QED
      BY <1>6, <2>2, <3>1, <1>a, <1>d, WordsStay
  <2>4. BranchWords(d, q, c, n, side, FALSE, x)
    <3>1. l = 1 => d[q + 1] = g.code[q + 1]
      <4>1. l = 1 => q \in p .. at - 1
        BY <1>b, <1>d, <1>a
      <4> QED
        BY <4>1, <2>1
    <3>2. q + Lead(c) = at
      BY <1>b, <1>5
    <3>3. d[at + 1].op = g.code[at + 1].op /\ d[at + 1].by = x - at - BranchSize
      BY <1>8 DEF Led
    <3>4. /\ Lead(c) = 1 => d[q + 1] = g.code[q + 1]
          /\ d[q + Lead(c) + 1].op = g.code[q + Lead(c) + 1].op
          /\ d[q + Lead(c) + 1].by = x - (q + Lead(c)) - BranchSize
      BY <3>1, <3>2, <3>3, <1>5
    <3>5. BranchWords(g.code, q, c, n, side, FALSE, h)
      BY <1>7
    <3> QED
      BY <3>4, <3>5 DEF BranchWords, Lead
  <2>5. q \in J /\ q + Lead(c) \in J /\ (Body(c) = 1 => p \in J)
    <3>1. at \in J
      BY <1>8 DEF Led
    <3>2. q # at => q \in p .. at - 1
      BY <1>d, <1>a
    <3>3. p # at => p \in p .. at - 1
      BY <1>d, <1>a
    <3> QED
      BY <3>1, <3>2, <3>3, <2>1, <1>b, <1>5
  <2>6. Exits(d, J, q, c, n, side, {h}, {x})
    <3>1. h = q + Lead(c) + BranchSize
      BY <1>b, <1>5 DEF BranchSize
    <3> QED
      BY <3>1, <2>4, <2>5, <1>8, <1>d, UnlessExits
  <2> QED
    BY <1>a, <1>b, <2>3, <2>5, <2>6, OperandTests
<1>9. TestWaits(g.code, I, p, h, at, c, n, side)
  BY <1>a, <1>d, <1>8 DEF TestWaits
<1>10. Extends(e.code, g.code)
  <2>1. e.code \in Seq(WordSet) /\ y.code \in Seq(WordSet) /\ g.code \in Seq(WordSet)
    BY <1>1, <1>4, EmitterIs
  <2>2. Extends(e.code, y.code) /\ Extends(y.code, g.code)
    BY <1>1, <1>4
  <2> QED
    BY <2>1, <2>2, ExtendsOn
<1>11. g \in Emitter /\ g.emit
  BY <1>4
<1> QED
  BY <1>5, <1>d, <1>9, <1>10, <1>11

\* f is e and the code of c behind it.
HasExpr(e, f, c, n) ==
  /\ f \in Emitter /\ f.emit /\ Here(f) = Join(c, Here(e)) /\ Extends(e.code, f.code)
  /\ ExprWords(f.code, Here(e), c, n)

LEMMA ExprHas ==
  ASSUME NEW A, NEW e, Sound(e, A), e.emit, NEW c \in SimpleConditions \cup CompoundConditions,
         NEW n \in Nat, NEW f, f = Expr(e, c, n)
  PROVE  HasExpr(e, f, c, n)
BY ExprEmits DEF HasExpr

\* The code of c is behind p, and the verdict has been taken where it ends.
LEMMA CondRuns ==
  ASSUME NEW c, NEW I, NEW p \in Nat, NEW cond \in SimpleConditions \cup CompoundConditions,
         NEW n, ExprWords(c, p, cond, n), ShortCircuits(cond), NEW q, q = Join(cond, p),
         NEW d, NEW J, Agree(c, I, d, J), Span(p, q) \subseteq I,
         NEW Y, NEW N, Exits(d, J, q, Result(cond), n, Side(cond), Y, N)
  PROVE  Tests(d, J, {p}, Y, N, cond, n, 1)
<1>1. q \in Nat /\ p <= q
  BY JoinIs
<1>2. p .. q - 1 \subseteq J /\ \A i \in p .. q - 1 : d[i + 1] = c[i + 1]
  BY DEF Agree, Span
<1>3. Same(c, d, p, q)
  <2>1. \A i \in p + 1 .. q : i - 1 \in p .. q - 1 /\ (i - 1) + 1 = i
    BY <1>1
  <2> QED
    BY <2>1, <1>2 DEF Same
<1>4. ExprWords(d, p, cond, n)
  BY <1>1, <1>3, ExprStays
<1> QED
  BY <1>2, <1>4, CondTests

LEMMA CondWaits ==
  ASSUME NEW e \in Emitter, NEW c \in SimpleConditions \cup CompoundConditions, NEW n \in Nat,
         ShortCircuits(c), NEW y, HasExpr(e, y, c, n),
         NEW g, HasUnless(y, g, Result(c), n, Side(c)),
         NEW I, Span(Here(e), BranchAt(g)) \subseteq I
  PROVE  /\ TestWaits(g.code, I, Here(e), Here(g), BranchAt(g), c, n, 1)
         /\ g \in Emitter /\ g.emit /\ Extends(e.code, g.code)
         /\ BranchAt(g) \in Nat /\ Here(e) <= BranchAt(g) /\ Here(g) = BranchAt(g) + 2
<1>1. /\ y \in Emitter /\ Here(y) = Join(c, Here(e)) /\ Extends(e.code, y.code)
      /\ ExprWords(y.code, Here(e), c, n)
  BY DEF HasExpr
<1>side. PICK side : side = Side(c)
  OBVIOUS
<1>r. PICK r \in SimpleConditions : r = Result(c) /\ side = Side(c)
  BY <1>side, ConditionIs
<1>4. /\ g \in Emitter /\ g.emit /\ Here(g) = Here(y) + Lead(r) + BranchSize
      /\ Extends(y.code, g.code) /\ BranchAt(g) = Here(y) + Lead(r)
      /\ BranchWords(g.code, Here(y), r, n, side, FALSE, Here(g))
  BY <1>r DEF HasUnless
<1>5. PICK p, q, at, h, l :
        p = Here(e) /\ q = Here(y) /\ at = BranchAt(g) /\ h = Here(g) /\ l = Lead(r)
  OBVIOUS
<1>a. p \in Nat /\ q \in Nat /\ q = Len(y.code) /\ h = Len(g.code)
  BY <1>1, <1>5, EmitterIs DEF Here
<1>b. at = q + l /\ h = q + l + 2
  BY <1>1, <1>4, <1>5 DEF BranchSize
<1>c. l \in {0, 1} /\ q = Join(c, p)
  BY <1>1, <1>5 DEF Lead
<1>d. at \in Nat /\ p <= q /\ q <= at /\ h = at + 2 /\ at < h
  BY <1>a, <1>b, <1>c, JoinIs
<1>6. ExprWords(g.code, p, c, n)
  <2>1. Same(y.code, g.code, p, q)
    <3>1. Same(y.code, g.code, 0, q)
      BY <1>4, <1>a DEF Extends
    <3>2. 0 \in Nat /\ 0 <= p /\ q <= q
      BY <1>a, <1>d
    <3> QED
      BY <3>1, <3>2, <1>a, <1>d, SameIn
  <2>2. ExprWords(y.code, p, c, n)
    BY <1>1, <1>5
  <2> QED
    BY <1>a, <1>c, <2>1, <2>2, ExprStays
<1>7. BranchWords(g.code, q, r, n, side, FALSE, h)
  BY <1>4, <1>5
<1>8. ASSUME NEW d, NEW J, NEW x, x \in Nat, Agree(g.code, I, d, J), Led(g.code, d, J, at, x)
      PROVE  Tests(d, J, {p}, {h}, {x}, c, n, 1)
  <2>0. p .. at - 1 \subseteq I
    BY <1>5 DEF Span
  <2>1. \A i \in p .. at - 1 : i \in J /\ d[i + 1] = g.code[i + 1]
    BY <2>0, <1>8 DEF Agree
  <2>2. Span(p, q) \subseteq I
    <3>1. p .. q - 1 \subseteq p .. at - 1
      BY <1>a, <1>d
    <3> QED
      BY <3>1, <2>0 DEF Span
  <2>4. BranchWords(d, q, r, n, side, FALSE, x)
    <3>1. l = 1 => d[q + 1] = g.code[q + 1]
      <4>1. l = 1 => q \in p .. at - 1
        BY <1>b, <1>d, <1>a
      <4> QED
        BY <4>1, <2>1
    <3>2. q + Lead(r) = at
      BY <1>b, <1>5
    <3>3. d[at + 1].op = g.code[at + 1].op /\ d[at + 1].by = x - at - BranchSize
      BY <1>8 DEF Led
    <3>4. /\ Lead(r) = 1 => d[q + 1] = g.code[q + 1]
          /\ d[q + Lead(r) + 1].op = g.code[q + Lead(r) + 1].op
          /\ d[q + Lead(r) + 1].by = x - (q + Lead(r)) - BranchSize
      BY <3>1, <3>2, <3>3, <1>5
    <3>5. BranchWords(g.code, q, r, n, side, FALSE, h)
      BY <1>7
    <3> QED
      BY <3>4, <3>5 DEF BranchWords, Lead
  <2>5. q \in J /\ q + Lead(r) \in J
    <3>1. at \in J
      BY <1>8 DEF Led
    <3>2. q # at => q \in p .. at - 1
      BY <1>d, <1>a
    <3> QED
      BY <3>1, <3>2, <2>1, <1>b, <1>5
  <2>6. Exits(d, J, q, r, n, side, {h}, {x})
    <3>1. h = q + Lead(r) + BranchSize
      BY <1>b, <1>5 DEF BranchSize
    <3> QED
      BY <3>1, <2>4, <2>5, <1>8, <1>a, UnlessExits
  <2>7. Exits(d, J, q, Result(c), n, Side(c), {h}, {x})
    BY <2>6, <1>r
  <2>8. Agree(g.code, I, d, J)
    BY <1>8
  <2> QED
    BY <1>a, <1>c, <1>6, <2>2, <2>7, <2>8, CondRuns
<1>9. TestWaits(g.code, I, p, h, at, c, n, 1)
  BY <1>a, <1>d, <1>8 DEF TestWaits
<1>10. Extends(e.code, g.code)
  <2>1. e.code \in Seq(WordSet) /\ y.code \in Seq(WordSet) /\ g.code \in Seq(WordSet)
    BY <1>1, <1>4, EmitterIs
  <2>2. Extends(e.code, y.code) /\ Extends(y.code, g.code)
    BY <1>1, <1>4
  <2> QED
    BY <2>1, <2>2, ExtendsOn
<1>11. g \in Emitter /\ g.emit
  BY <1>4
<1> QED
  BY <1>5, <1>d, <1>9, <1>10, <1>11

\* A condition that a literal decides, where there is no branch behind it.
LEMMA CondDone ==
  ASSUME NEW e \in Emitter, NEW c \in SimpleConditions \cup CompoundConditions, NEW n \in Nat,
         ShortCircuits(c), NEW y, HasExpr(e, y, c, n), NEW v \in BOOLEAN,
         Literal(Result(c), v),
         NEW I, Span(Here(e), Here(y)) \subseteq I,
         NEW Y, NEW N, Here(y) \in (IF v THEN Y ELSE N)
  PROVE  Tests(y.code, I, {Here(e)}, Y, N, c, n, 1)
<1>1. Here(y) = Join(c, Here(e)) /\ ExprWords(y.code, Here(e), c, n)
  BY DEF HasExpr
<1>2. Exits(y.code, I, Here(y), Result(c), n, Side(c), Y, N)
  <2>1. Result(c).k = "lit" /\ Result(c).val = v
    BY DEF Literal
  <2>2. ASSUME NEW m \in Machine, NEW u \in BOOLEAN, m.ip = Here(y), Shows(m, Result(c), u)
        PROVE  Reaches(y.code, I, m, m) /\ m.ip \in (IF u THEN Y ELSE N)
    BY <2>1, <2>2, ReachesSelf DEF Shows
  <2> QED
    BY <2>1, <2>2 DEF Exits
<1>3. Agree(y.code, I, y.code, I)
  BY DEF Agree
<1>4. Here(e) \in Nat
  BY EmitterIs
<1>5. PICK q : q = Here(y)
  OBVIOUS
<1>6. /\ q = Join(c, Here(e)) /\ ExprWords(y.code, Here(e), c, n) /\ Span(Here(e), q) \subseteq I
      /\ Exits(y.code, I, q, Result(c), n, Side(c), Y, N)
  BY <1>1, <1>2, <1>5
<1> QED
  BY <1>3, <1>4, <1>6, CondRuns

-----------------------------------------------------------------------------
(* Places that are still to be patched *)

\* Those the i-th construct will patch, its own and those of its breaks.
Owned(s, i, bs) ==
  {p \in Nat : \/ p \in Sites(s[i])
               \/ \E b \in 1 .. Len(bs) : BreakOf(s, i, b) /\ s[i].live /\ p = bs[b]}
Held(s, bs) == {p \in Nat : \E i \in 1 .. Len(s) : p \in Owned(s, i, bs)}
\* The places whose words are final.
Settled(c, s, bs) == {p \in Nat : p < Len(c) /\ p \notin Held(s, bs)}

\* An arm's test is none of the branches behind the arms before it.
Tidy(f) == f.k = "arm" /\ ~f.const /\ f.last => Last(f.arms).next \notin ToSet(f.outs)
\* No place is patched twice.
Apart(s, bs) ==
  /\ \A i, j \in 1 .. Len(s) : i # j => Owned(s, i, bs) \cap Owned(s, j, bs) = {}
  /\ \A i \in 1 .. Len(s) : Tidy(s[i])

\* The breaks that leave the innermost of the first i constructs which is a loop.
Home(s, i, bs) ==
  {p \in Nat : \E l \in 1 .. i :
     /\ IsLoop(s[l]) /\ \A j \in l + 1 .. i : s[j].k \notin Loops
     /\ \E b \in 1 .. Len(bs) : BreakOf(s, l, b) /\ p = bs[b]}

\* The breaks noted before f began; what f owns; the breaks that f is home to.
Below(f, bs) == IF IsLoop(f) THEN Early(bs, f.prev) ELSE bs
Own(f, bs) ==
  {p \in Nat : p \in Sites(f) \/ (IsLoop(f) /\ f.live /\ p \in ToSet(Late(bs, f.prev)))}
Inner(r, f, bs) ==
  IF IsLoop(f) THEN ToSet(Late(bs, f.prev))
  ELSE IF f.k = "repeat" THEN {} ELSE Home(r, Len(r), bs)

LEMMA SitesIn == \A f : Sites(f) \subseteq Nat
BY DEF Sites

\* Breaks, with a construct on the others.
LEMMA BreakOn ==
  ASSUME NEW s, NEW r, NEW f, On(s, r, f), NEW bs \in Seq(Nat),
         IsLoop(f) => f.prev \in 0 .. Len(bs), NEW u, u = Below(f, bs)
  PROVE  /\ u \in Seq(Nat) /\ Len(u) <= Len(bs) /\ \A b \in 1 .. Len(u) : u[b] = bs[b]
         /\ \A i \in 1 .. Len(r), b \in 1 .. Len(bs) :
              BreakOf(s, i, b) <=> b \in 1 .. Len(u) /\ BreakOf(r, i, b)
<1>1. CASE ~IsLoop(f)
  <2>1. u = bs
    BY <1>1 DEF Below
  <2> QED
    BY <1>1, <2>1, OnBreaks
<1>2. CASE IsLoop(f)
  <2>1. PICK n : n = f.prev
    OBVIOUS
  <2>2. n \in 0 .. Len(bs) /\ n \in Nat /\ u = Early(bs, n)
    BY <1>2, <2>1 DEF Below
  <2>3. u \in Seq(Nat) /\ Len(u) = n /\ \A b \in 1 .. n : u[b] = bs[b] /\ b \in 1 .. Len(bs)
    BY <2>2, FirstOnes
  <2>4. \A i \in 1 .. Len(r), b \in Nat : BreakOf(s, i, b) <=> b <= n /\ BreakOf(r, i, b)
    BY <1>2, <2>1, <2>2, BreakUnder
  <2> QED
    BY <2>2, <2>3, <2>4
<1> QED
  BY <1>1, <1>2

LEMMA BreakTop ==
  ASSUME NEW s, NEW r, NEW f, On(s, r, f), NEW bs \in Seq(Nat),
         IsLoop(f) => f.prev \in 0 .. Len(bs), NEW p
  PROVE  (\E b \in 1 .. Len(bs) : BreakOf(s, Len(s), b) /\ p = bs[b]) <=>
            IsLoop(f) /\ p \in ToSet(Late(bs, f.prev))
<1>1. CASE ~IsLoop(f)
  BY <1>1, OnBreaks
<1>2. CASE IsLoop(f)
  <2>1. PICK n, late : n = f.prev /\ late = Late(bs, n)
    OBVIOUS
  <2>2. n \in 0 .. Len(bs)
    BY <1>2, <2>1
  <2>3. late \in Seq(Nat) /\ Len(late) = Len(bs) - n /\ \A b \in 1 .. Len(late) : late[b] = bs[b + n]
    <3>1. late = Late(bs, n)
      BY <2>1
    <3> QED
      BY <2>2, <3>1, OtherOnes, ZenonT(60)
  <2>4. \A b \in 1 .. Len(bs) : BreakOf(s, Len(s), b) <=> n < b
    BY <1>2, <2>1 DEF BreakOf, On, IsStack
  <2>5. p \in ToSet(late) <=> \E b \in 1 .. Len(late) : p = late[b]
    BY <2>3, InToSet
  <2>6. (\E b \in 1 .. Len(late) : p = late[b]) <=> \E b \in 1 .. Len(bs) : n < b /\ p = bs[b]
    <3>1. ASSUME NEW b \in 1 .. Len(late), p = late[b]
          PROVE  b + n \in 1 .. Len(bs) /\ n < b + n /\ p = bs[b + n]
      BY <2>2, <2>3, <3>1
    <3>2. ASSUME NEW b \in 1 .. Len(bs), n < b, p = bs[b]
          PROVE  b - n \in 1 .. Len(late) /\ p = late[b - n]
      <4>1. b - n \in 1 .. Len(late) /\ (b - n) + n = b
        BY <2>2, <2>3, <3>2
      <4> QED
        BY <4>1, <3>2, <2>3
    <3> QED
      BY <3>1, <3>2
  <2> QED
    BY <1>2, <2>1, <2>4, <2>5, <2>6
<1> QED
  BY <1>1, <1>2

LEMMA OwnedOn ==
  ASSUME NEW s, NEW r, NEW f, On(s, r, f), NEW bs \in Seq(Nat),
         IsLoop(f) => f.prev \in 0 .. Len(bs), NEW u, u = Below(f, bs)
  PROVE  /\ \A i \in 1 .. Len(r) : Owned(s, i, bs) = Owned(r, i, u)
         /\ Owned(s, Len(s), bs) = Own(f, bs)
         /\ Held(s, bs) = Held(r, u) \cup Own(f, bs)
<1>u. /\ u \in Seq(Nat) /\ Len(u) <= Len(bs) /\ \A b \in 1 .. Len(u) : u[b] = bs[b]
      /\ \A i \in 1 .. Len(r), b \in 1 .. Len(bs) :
           BreakOf(s, i, b) <=> b \in 1 .. Len(u) /\ BreakOf(r, i, b)
  BY BreakOn
<1>s. IsStack(s) /\ IsStack(r) /\ Len(s) = Len(r) + 1 /\ Len(r) \in Nat /\ s[Len(s)] = f
      /\ \A i \in 1 .. Len(r) : s[i] = r[i]
  BY DEF On, IsStack
<1>l. Len(bs) \in Nat /\ Len(u) \in Nat
  BY <1>u
<1>1. ASSUME NEW i \in 1 .. Len(r)
      PROVE  Owned(s, i, bs) = Owned(r, i, u)
  <2>1. s[i] = r[i]
    BY <1>s
  <2>a. \A b \in 1 .. Len(bs) : BreakOf(s, i, b) <=> b \in 1 .. Len(u) /\ BreakOf(r, i, b)
    BY <1>u
  <2>b. \A b \in 1 .. Len(u) : b \in 1 .. Len(bs) /\ u[b] = bs[b]
    BY <1>u, <1>l
  <2>2. \A p : (\E b \in 1 .. Len(bs) : BreakOf(s, i, b) /\ s[i].live /\ p = bs[b])
                 <=> \E b \in 1 .. Len(u) : BreakOf(r, i, b) /\ r[i].live /\ p = u[b]
    BY <2>a, <2>b, <2>1
  <2>3. \A p : p \in Owned(s, i, bs) <=> p \in Owned(r, i, u)
    BY <2>1, <2>2, Zenon DEF Owned
  <2> QED
    BY <2>3 DEF Owned
<1>2. Owned(s, Len(s), bs) = Own(f, bs)
  <2>1. \A p : (\E b \in 1 .. Len(bs) : BreakOf(s, Len(s), b) /\ p = bs[b]) <=>
                  IsLoop(f) /\ p \in ToSet(Late(bs, f.prev))
    BY BreakTop
  <2> QED
    BY <1>s, <2>1 DEF Owned, Own
<1>3. Held(s, bs) = Held(r, u) \cup Own(f, bs)
  <2>1. \A i : i \in 1 .. Len(s) <=> i \in 1 .. Len(r) \/ i = Len(s)
    BY <1>s
  <2>2. Own(f, bs) \subseteq Nat
    BY DEF Own
  <2> QED
    BY <1>1, <1>2, <2>1, <2>2 DEF Held
<1> QED
  BY <1>1, <1>2, <1>3

\* What waits of f.
Mine(f, bs) ==
  {p \in Nat : p \in Waits(f) \/ (IsLoop(f) /\ f.live /\ p \in ToSet(Late(bs, f.prev)))}

\* p is a break of one of the first n constructs.
BreakIn(s, n, bs, p) ==
  \E i \in 1 .. n, b \in 1 .. Len(bs) : BreakOf(s, i, b) /\ s[i].live /\ p = bs[b]

LEMMA WaitingOn ==
  ASSUME NEW s, NEW r, NEW f, On(s, r, f), NEW bs \in Seq(Nat),
         IsLoop(f) => f.prev \in 0 .. Len(bs), NEW u, u = Below(f, bs)
  PROVE  Waiting(s, bs) = Waiting(r, u) \cup Mine(f, bs)
<1>u. /\ u \in Seq(Nat) /\ Len(u) <= Len(bs) /\ \A b \in 1 .. Len(u) : u[b] = bs[b]
      /\ \A i \in 1 .. Len(r), b \in 1 .. Len(bs) :
           BreakOf(s, i, b) <=> b \in 1 .. Len(u) /\ BreakOf(r, i, b)
  BY BreakOn
<1>s. IsStack(s) /\ IsStack(r) /\ Len(s) = Len(r) + 1 /\ Len(r) \in Nat /\ s[Len(s)] = f
      /\ \A i \in 1 .. Len(r) : s[i] = r[i]
  BY DEF On, IsStack
<1>l. Len(bs) \in Nat /\ Len(u) \in Nat
  BY <1>u
<1>b. \A b \in 1 .. Len(u) : b \in 1 .. Len(bs) /\ u[b] = bs[b]
  BY <1>u, <1>l
<1>1. \A i : i \in 1 .. Len(s) <=> i \in 1 .. Len(r) \/ i = Len(s)
  BY <1>s
<1>2. \A p : (\E i \in 1 .. Len(s) : p \in Waits(s[i]))
               <=> (\E i \in 1 .. Len(r) : p \in Waits(r[i])) \/ p \in Waits(f)
  BY <1>s, <1>1
<1>3. \A p : BreakIn(s, Len(r), bs, p) <=> BreakIn(r, Len(r), u, p)
  <2>a. \A i \in 1 .. Len(r), b \in 1 .. Len(bs) :
           BreakOf(s, i, b) <=> b \in 1 .. Len(u) /\ BreakOf(r, i, b)
    BY <1>u
  <2>b. \A i \in 1 .. Len(r) : s[i] = r[i]
    BY <1>s
  <2> QED
    BY <2>a, <2>b, <1>b DEF BreakIn
<1>4. \A p : (\E b \in 1 .. Len(bs) : BreakOf(s, Len(s), b) /\ s[Len(s)].live /\ p = bs[b])
               <=> IsLoop(f) /\ f.live /\ p \in ToSet(Late(bs, f.prev))
  <2>1. \A p : (\E b \in 1 .. Len(bs) : BreakOf(s, Len(s), b) /\ p = bs[b]) <=>
                  IsLoop(f) /\ p \in ToSet(Late(bs, f.prev))
    BY BreakTop
  <2> QED
    BY <1>s, <2>1
<1>5. \A p : BreakIn(s, Len(s), bs, p)
               <=> BreakIn(r, Len(r), u, p) \/ (IsLoop(f) /\ f.live /\ p \in ToSet(Late(bs, f.prev)))
  <2>1. \A p : BreakIn(s, Len(s), bs, p)
                 <=> \/ BreakIn(s, Len(r), bs, p)
                     \/ \E b \in 1 .. Len(bs) : BreakOf(s, Len(s), b) /\ s[Len(s)].live /\ p = bs[b]
    BY <1>1 DEF BreakIn
  <2> QED
    BY <2>1, <1>3, <1>4
<1> QED
  BY <1>2, <1>5 DEF Waiting, Mine, BreakIn

LEMMA ApartOn ==
  ASSUME NEW s, NEW r, NEW f, On(s, r, f), NEW bs \in Seq(Nat),
         IsLoop(f) => f.prev \in 0 .. Len(bs), NEW u, u = Below(f, bs)
  PROVE  Apart(s, bs) <=>
           Apart(r, u) /\ Held(r, u) \cap Own(f, bs) = {} /\ Tidy(f)
<1>s. Len(s) = Len(r) + 1 /\ Len(r) \in Nat /\ s[Len(s)] = f
      /\ \A i \in 1 .. Len(r) : s[i] = r[i]
  BY DEF On, IsStack
<1>1. /\ \A i \in 1 .. Len(r) : Owned(s, i, bs) = Owned(r, i, u)
      /\ Owned(s, Len(s), bs) = Own(f, bs)
  BY OwnedOn
<1>2. \A i : i \in 1 .. Len(s) <=> i \in 1 .. Len(r) \/ i = Len(s)
  BY <1>s
<1>3. Len(s) \notin 1 .. Len(r)
  BY <1>s
<1>4. \A i \in 1 .. Len(r) : Owned(r, i, u) \subseteq Nat
  BY DEF Owned
<1>5. Held(r, u) \cap Own(f, bs) = {} <=>
        \A i \in 1 .. Len(r) : Owned(r, i, u) \cap Own(f, bs) = {}
  BY <1>4 DEF Held
<1>6. (\A i \in 1 .. Len(s) : Tidy(s[i])) <=> (\A i \in 1 .. Len(r) : Tidy(r[i])) /\ Tidy(f)
  BY <1>s, <1>2
<1>7. (\A i, j \in 1 .. Len(s) : i # j => Owned(s, i, bs) \cap Owned(s, j, bs) = {}) <=>
        /\ \A i, j \in 1 .. Len(r) : i # j => Owned(r, i, u) \cap Owned(r, j, u) = {}
        /\ \A i \in 1 .. Len(r) : Owned(r, i, u) \cap Own(f, bs) = {}
  BY <1>1, <1>2, <1>3
<1> QED
  BY <1>5, <1>6, <1>7 DEF Apart

LEMMA HomeOn ==
  ASSUME NEW s, NEW r, NEW f, On(s, r, f), NEW bs \in Seq(Nat),
         IsLoop(f) => f.prev \in 0 .. Len(bs), NEW u, u = Below(f, bs)
  PROVE  /\ \A i \in 0 .. Len(r) : Home(s, i, bs) = Home(r, i, u)
         /\ Home(s, Len(s), bs) = Inner(r, f, bs)
<1>u. /\ u \in Seq(Nat) /\ Len(u) <= Len(bs) /\ \A b \in 1 .. Len(u) : u[b] = bs[b]
      /\ \A i \in 1 .. Len(r), b \in 1 .. Len(bs) :
           BreakOf(s, i, b) <=> b \in 1 .. Len(u) /\ BreakOf(r, i, b)
  BY BreakOn
<1>s. Len(s) = Len(r) + 1 /\ Len(r) \in Nat /\ s[Len(s)] = f
      /\ \A i \in 1 .. Len(r) : s[i] = r[i]
  BY DEF On, IsStack
<1>l. Len(bs) \in Nat /\ Len(u) \in Nat
  BY <1>u
<1>1. ASSUME NEW i \in 0 .. Len(r)
      PROVE  Home(s, i, bs) = Home(r, i, u)
  <2>1. \A l \in 1 .. i : l \in 1 .. Len(r) /\ s[l] = r[l]
                           /\ \A j \in l + 1 .. i : j \in 1 .. Len(r) /\ s[j] = r[j]
    BY <1>s
  <2>2. \A p : \A l \in 1 .. i :
          (\E b \in 1 .. Len(bs) : BreakOf(s, l, b) /\ p = bs[b])
            <=> \E b \in 1 .. Len(u) : BreakOf(r, l, b) /\ p = u[b]
    <3>1. \A l \in 1 .. i : \A b \in 1 .. Len(bs) :
             BreakOf(s, l, b) <=> b \in 1 .. Len(u) /\ BreakOf(r, l, b)
      BY <1>u, <2>1
    <3>2. \A b \in 1 .. Len(u) : b \in 1 .. Len(bs) /\ u[b] = bs[b]
      BY <1>u, <1>l
    <3>3. ASSUME NEW p, NEW l \in 1 .. i
          PROVE  (\E b \in 1 .. Len(bs) : BreakOf(s, l, b) /\ p = bs[b])
                   <=> \E b \in 1 .. Len(u) : BreakOf(r, l, b) /\ p = u[b]
      BY <3>1, <3>2
    <3> QED
      BY <3>3, Zenon
  <2>3. \A l \in 1 .. i : /\ IsLoop(s[l]) <=> IsLoop(r[l])
                          /\ (\A j \in l + 1 .. i : s[j].k \notin Loops) <=>
                             (\A j \in l + 1 .. i : r[j].k \notin Loops)
    BY <2>1
  <2>4. ASSUME NEW p
        PROVE  (\E l \in 1 .. i :
                  /\ IsLoop(s[l]) /\ \A j \in l + 1 .. i : s[j].k \notin Loops
                  /\ \E b \in 1 .. Len(bs) : BreakOf(s, l, b) /\ p = bs[b]) <=>
               (\E l \in 1 .. i :
                  /\ IsLoop(r[l]) /\ \A j \in l + 1 .. i : r[j].k \notin Loops
                  /\ \E b \in 1 .. Len(u) : BreakOf(r, l, b) /\ p = u[b])
    BY <2>2, <2>3
  <2> QED
    BY <2>4 DEF Home
<1>2. ASSUME NEW p \in Nat
      PROVE  p \in Home(s, Len(s), bs) <=> p \in Inner(r, f, bs)
  <2>t. (\E b \in 1 .. Len(bs) : BreakOf(s, Len(s), b) /\ p = bs[b]) <=>
           IsLoop(f) /\ p \in ToSet(Late(bs, f.prev))
    BY BreakTop
  <2>1. p \in Home(s, Len(s), bs) <=>
          \/ IsLoop(f) /\ \E b \in 1 .. Len(bs) : BreakOf(s, Len(s), b) /\ p = bs[b]
          \/ \E l \in 1 .. Len(r) :
               /\ IsLoop(s[l]) /\ \A j \in l + 1 .. Len(s) : s[j].k \notin Loops
               /\ \E b \in 1 .. Len(bs) : BreakOf(s, l, b) /\ p = bs[b]
    <3>1. \A l : l \in 1 .. Len(s) <=> l \in 1 .. Len(r) \/ l = Len(s)
      BY <1>s
    <3>2. \A j : j \notin Len(s) + 1 .. Len(s)
      BY <1>s
    <3> QED
      BY <1>s, <3>1, <3>2 DEF Home
  <2>2. \A l \in 1 .. Len(r) :
          (\A j \in l + 1 .. Len(s) : s[j].k \notin Loops) <=>
             f.k \notin Loops /\ \A j \in l + 1 .. Len(r) : s[j].k \notin Loops
    <3>1. ASSUME NEW l \in 1 .. Len(r), NEW j
          PROVE  j \in l + 1 .. Len(s) <=> j \in l + 1 .. Len(r) \/ j = Len(s)
      BY <1>s
    <3> QED
      BY <3>1, <1>s, Zenon
  <2>3. f.k \in Loops <=> IsLoop(f) \/ f.k = "repeat"
    BY DEF Loops, IsLoop
  <2>4. CASE f.k \in Loops
    <3>1. p \in Home(s, Len(s), bs) <=> IsLoop(f) /\ p \in ToSet(Late(bs, f.prev))
      BY <2>4, <2>1, <2>2, <2>t
    <3> QED
      BY <3>1, <2>3, <2>4 DEF Inner
  <2>5. CASE f.k \notin Loops
    <3>1. u = bs /\ Inner(r, f, bs) = Home(r, Len(r), bs) /\ ~IsLoop(f)
      BY <2>3, <2>5 DEF Below, Inner
    <3>2. p \in Home(s, Len(s), bs) <=> p \in Home(s, Len(r), bs)
      BY <2>1, <2>2, <2>5, <3>1, <1>s DEF Home
    <3>3. Home(s, Len(r), bs) = Home(r, Len(r), bs)
      BY <1>1, <1>s, <3>1
    <3> QED
      BY <3>1, <3>2, <3>3
  <2> QED
    BY <2>4, <2>5
<1>3. Home(s, Len(s), bs) \subseteq Nat /\ Inner(r, f, bs) \subseteq Nat
  <2>1. IsLoop(f) => ToSet(Late(bs, f.prev)) \subseteq Nat
    <3>1. IsLoop(f) => Late(bs, f.prev) \in Seq(Nat)
      BY OtherOnes
    <3> QED
      BY <3>1, InToSet
  <2> QED
    BY <2>1 DEF Home, Inner
<1> QED
  BY <1>1, <1>2, <1>3

-----------------------------------------------------------------------------
(* What the code compiled so far does *)

\* The arms of a CASE: from a on the code takes one of them and goes on at some x of X,
\* where the branches at P lead, or takes none and goes on at N.
Falls(c, I, B, a, N, P, X, n, arms) ==
  /\ IsSeq(arms)
  /\ \A d, J, D, x, more, o :
       /\ x \in X /\ Agree(c, I, d, J) /\ B \subseteq D /\ IsSeq(more)
       /\ \A p \in P : p \in J /\ d[p + 1].op = "BR" /\ d[p + 1].by = x - p - BranchSize
       /\ Means(d, J, D, N, x, <<CaseOf(n, more, o)>>)
       => Means(d, J, D, {a}, x, <<CaseOf(n, arms \o more, o)>>)
\* `gone' is whether an arm of a constant CASE has been taken for granted.
ArmsFall(c, I, B, f, arms, gone, a, h) ==
  Falls(c, I, B, a, IF f.const /\ gone THEN {} ELSE {h},
        IF f.const THEN {} ELSE ToSet(f.outs),
        IF f.const /\ gone THEN {h} ELSE Nat, f.n, arms)

Inits(n) == <<Act(n, "init"), Act(n, "bound")>>

ThenPart(c, I, f, a, b) ==
  /\ Unknown(f.c) => TestWaits(c, I, a, b, f.from, f.c, f.n, 1)
  /\ Always(f.c) => Tests(c, I, {a}, {b}, {}, f.c, f.n, 1)
  /\ Never(f.c) => Tests(c, I, {a}, {}, {b}, f.c, f.n, 1)
ElsePart(c, I, B, f, a, b) ==
  /\ ~Never(f.c)
  /\ \E h : /\ Tests(c, I, {a}, {h}, IF Unknown(f.c) THEN {b} ELSE {}, f.c, f.n, 1)
            /\ IF Unknown(f.c)
               THEN f.from < Len(c) /\ c[f.from + 1].op = "BR" /\ Means(c, I, B, {h}, f.from, f.yes)
               ELSE Means(c, I, B, {h}, b, f.yes)
WhilePart(c, I, f, a, b) ==
  /\ f.head = a
  /\ ~Never(f.c) => TestWaits(c, I, a, b, f.exit, f.c, f.n, 1)
  /\ Never(f.c) => Tests(c, I, {a}, {}, {b}, f.c, f.n, 1)
ForPart(c, I, B, f, a, b) ==
  /\ Means(c, I, B, {a}, f.head, Inits(f.n))
  /\ TestWaits(c, I, f.head, b, f.exit, f.c, f.n, 1)
ArmPart(c, I, B, f, a, b) ==
  LET arm == Last(f.arms) IN
  \E h : /\ ArmsFall(c, I, B, f, Front(f.arms), f.emitted /\ ~Literal(arm.c, TRUE), a, h)
         /\ f.const => h = b /\ arm.c.k = "lit" /\ arm.c.val \in BOOLEAN /\ (arm.c.val => f.emitted)
         /\ ~f.const => TestWaits(c, I, h, b, arm.next, arm.c, f.n, arm.side)
OtherPart(c, I, B, f, a, b) ==
  \E h : /\ ArmsFall(c, I, B, f, f.arms, f.emitted, a, h)
         /\ IF f.const /\ f.emitted THEN h = b ELSE Means(c, I, B, {h}, b, f.list)
\* What the code of f, begun at a, is when what is inside it begins at b.  B and D are
\* the breaks that leave what f is in, and f.
Part(c, I, B, D, f, a, b) ==
  /\ f.k = "begin" => Means(c, I, B, {a}, b, f.list)
  /\ f.k = "repeat" => f.head = a /\ Means(c, I, D, {a}, b, f.list)
  /\ f.k = "then" => ThenPart(c, I, f, a, b)
  /\ f.k = "else" => ElsePart(c, I, B, f, a, b)
  /\ f.k = "while" => WhilePart(c, I, f, a, b)
  /\ f.k = "for" => ForPart(c, I, B, f, a, b)
  /\ f.k = "case" => ArmsFall(c, I, B, f, f.arms, f.emitted, a, b)
  /\ f.k = "arm" => ArmPart(c, I, B, f, a, b)
  /\ f.k = "otherwise" => OtherPart(c, I, B, f, a, b)
  /\ f.k \in {"case", "arm"} => f.list = << >>

\* The i-th construct begins at st[i].
Step(c, I, s, bs, st, i) ==
  /\ AllRun(s, i - 1) =>
       Part(c, I, Home(s, i - 1, bs), Home(s, i, bs), s[i], st[i], st[i + 1])
  /\ ~AllRun(s, i) => st[i + 1] = Len(c)
Chain(c, I, s, bs, st) ==
  /\ st \in [1 .. Len(s) + 1 -> Nat] /\ st[1] = EnterSize
  /\ \A i \in 1 .. Len(s) : Step(c, I, s, bs, st, i)
\* What is inside all of them begins at b.
Under(c, I, s, bs, b) == \E st : Chain(c, I, s, bs, st) /\ b = st[Len(s) + 1]
\* The statement inside, which m is the meaning of.
Now(c, I, s, D, w, m, b) ==
  /\ w \/ s[Len(s)].k = "case" \/ ~AllRun(s, Len(s)) => b = Len(c)
  /\ ~w /\ s[Len(s)].k # "case" /\ AllRun(s, Len(s)) => Means(c, I, D, {b}, Len(c), m)
CaseOnTop(s, w) == \A i \in 1 .. Len(s) : s[i].k = "case" => i = Len(s) /\ ~w
\* What waits for its target is a BR.
Jumps(c, s, bs) == \A p \in Waiting(s, bs) : p < Len(c) /\ c[p + 1].op = "BR"
Built(c, s, bs, w, m) ==
  /\ Apart(s, bs) /\ CaseOnTop(s, w) /\ Jumps(c, s, bs)
  /\ \E b \in Nat :
       /\ Under(c, Settled(c, s, bs), s, bs, b)
       /\ Now(c, Settled(c, s, bs), s, Home(s, Len(s), bs), w, m, b)

\* d is c with more behind it, or with other targets where nothing is settled yet.
Grows(c, I, d, J) ==
  Agree(c, I, d, J) /\ Len(c) <= Len(d) /\ \A i \in 1 .. Len(c) : d[i].op = c[i].op

LEMMA AgreeOn ==
  ASSUME NEW c, NEW I, NEW d, NEW J, NEW g, NEW K, Agree(c, I, d, J), Agree(d, J, g, K)
  PROVE  Agree(c, I, g, K)
BY DEF Agree

LEMMA WaitsStays ==
  ASSUME NEW c, NEW I, NEW d, NEW J, Grows(c, I, d, J), Len(c) \in Nat, Len(d) \in Nat,
         NEW a, NEW b, NEW from, NEW cond, NEW n, NEW side,
         TestWaits(c, I, a, b, from, cond, n, side)
  PROVE  TestWaits(d, J, a, b, from, cond, n, side)
<1>1. from \in Nat /\ from < Len(c) /\ Agree(c, I, d, J) /\ Len(c) <= Len(d)
  BY DEF TestWaits, Grows
<1>2. d[from + 1].op = c[from + 1].op
  <2>1. from + 1 \in 1 .. Len(c)
    BY <1>1
  <2> QED
    BY <2>1 DEF Grows
<1>3. ASSUME NEW g, NEW K, NEW x \in Nat, Agree(d, J, g, K), Led(d, g, K, from, x)
      PROVE  Tests(g, K, {a}, {b}, {x}, cond, n, side)
  <2>1. Agree(c, I, g, K)
    BY <1>1, <1>3, AgreeOn
  <2>2. Led(c, g, K, from, x)
    BY <1>2, <1>3 DEF Led
  <2> QED
    BY <2>1, <2>2 DEF TestWaits
<1>4. from < Len(d)
  BY <1>1
<1> QED
  BY <1>1, <1>3, <1>4 DEF TestWaits

LEMMA FallsStays ==
  ASSUME NEW c, NEW I, NEW d, NEW J, Agree(c, I, d, J), NEW B, NEW D, B \subseteq D,
         NEW a, NEW N, NEW P, NEW X, NEW n, NEW arms, Falls(c, I, B, a, N, P, X, n, arms)
  PROVE  Falls(d, J, D, a, N, P, X, n, arms)
<1>1. ASSUME NEW g, NEW K, NEW E, NEW x, NEW more, NEW o,
             x \in X, Agree(d, J, g, K), D \subseteq E, IsSeq(more),
             \A p \in P : p \in K /\ g[p + 1].op = "BR" /\ g[p + 1].by = x - p - BranchSize,
             Means(g, K, E, N, x, <<CaseOf(n, more, o)>>)
      PROVE  Means(g, K, E, {a}, x, <<CaseOf(n, arms \o more, o)>>)
  <2>1. Agree(c, I, g, K) /\ B \subseteq E
    BY <1>1, AgreeOn
  <2> QED
    BY <1>1, <2>1 DEF Falls
<1>2. IsSeq(arms)
  BY DEF Falls
<1> QED
  BY <1>1, <1>2 DEF Falls

LEMMA MeansGrows ==
  ASSUME NEW c, NEW I, NEW d, NEW J, Agree(c, I, d, J), NEW B, NEW D, B \subseteq D,
         NEW A, NEW x, NEW s, Means(c, I, B, A, x, s)
  PROVE  Means(d, J, D, A, x, s)
BY MeansStays DEF Agree

LEMMA TestsGrow ==
  ASSUME NEW c, NEW I, NEW d, NEW J, Agree(c, I, d, J), NEW A, NEW Y, NEW N,
         NEW cond, NEW n, NEW side, Tests(c, I, A, Y, N, cond, n, side)
  PROVE  Tests(d, J, A, Y, N, cond, n, side)
BY TestsStays DEF Agree

LEMMA PartStays ==
  ASSUME NEW c, NEW I, NEW d, NEW J, Grows(c, I, d, J), Len(c) \in Nat, Len(d) \in Nat,
         NEW B, NEW D, NEW B2, NEW D2, B \subseteq B2, D \subseteq D2,
         NEW f, FrameOK(f), NEW a, NEW b, Part(c, I, B, D, f, a, b)
  PROVE  Part(d, J, B2, D2, f, a, b)
<1>a. Agree(c, I, d, J) /\ Len(c) <= Len(d)
  BY DEF Grows
<1>f. \A arms, gone, h : ArmsFall(c, I, B, f, arms, gone, a, h) => ArmsFall(d, J, B2, f, arms, gone, a, h)
  BY <1>a, FallsStays DEF ArmsFall
<1>1. f.k = "begin" => Means(d, J, B2, {a}, b, f.list)
  BY <1>a, MeansGrows DEF Part
<1>2. f.k = "repeat" => f.head = a /\ Means(d, J, D2, {a}, b, f.list)
  BY <1>a, MeansGrows DEF Part
<1>3. f.k = "then" => ThenPart(d, J, f, a, b)
  <2>1. f.k = "then" => ThenPart(c, I, f, a, b)
    BY DEF Part
  <2>2. TestWaits(c, I, a, b, f.from, f.c, f.n, 1) => TestWaits(d, J, a, b, f.from, f.c, f.n, 1)
    BY WaitsStays
  <2>3. Tests(c, I, {a}, {b}, {}, f.c, f.n, 1) => Tests(d, J, {a}, {b}, {}, f.c, f.n, 1)
    BY <1>a, TestsGrow
  <2>4. Tests(c, I, {a}, {}, {b}, f.c, f.n, 1) => Tests(d, J, {a}, {}, {b}, f.c, f.n, 1)
    BY <1>a, TestsGrow
  <2> QED
    BY <2>1, <2>2, <2>3, <2>4 DEF ThenPart
<1>4. f.k = "else" => ElsePart(d, J, B2, f, a, b)
  <2> SUFFICES ASSUME f.k = "else"
               PROVE  ElsePart(d, J, B2, f, a, b)
    OBVIOUS
  <2>1. ElsePart(c, I, B, f, a, b)
    BY DEF Part
  <2>2. PICK N : N = (IF Unknown(f.c) THEN {b} ELSE {})
    OBVIOUS
  <2>3. PICK h : /\ Tests(c, I, {a}, {h}, N, f.c, f.n, 1)
                 /\ IF Unknown(f.c)
                    THEN /\ f.from < Len(c) /\ c[f.from + 1].op = "BR"
                         /\ Means(c, I, B, {h}, f.from, f.yes)
                    ELSE Means(c, I, B, {h}, b, f.yes)
    BY <2>1, <2>2 DEF ElsePart
  <2>4. Tests(d, J, {a}, {h}, N, f.c, f.n, 1)
    BY <1>a, <2>3, TestsGrow
  <2>5. Unknown(f.c) => /\ f.from < Len(d) /\ d[f.from + 1].op = "BR"
                        /\ Means(d, J, B2, {h}, f.from, f.yes)
    <3> SUFFICES ASSUME Unknown(f.c)
                 PROVE  /\ f.from < Len(d) /\ d[f.from + 1].op = "BR"
                        /\ Means(d, J, B2, {h}, f.from, f.yes)
      OBVIOUS
    <3>1. f.from < Len(c) /\ c[f.from + 1].op = "BR" /\ Means(c, I, B, {h}, f.from, f.yes)
      BY <2>3
    <3>2. f.from \in Nat
      BY DEF FrameOK
    <3>3. f.from + 1 \in 1 .. Len(c) /\ f.from < Len(d)
      BY <3>1, <3>2, <1>a
    <3>4. d[f.from + 1].op = "BR"
      BY <3>1, <3>3 DEF Grows
    <3>5. Means(d, J, B2, {h}, f.from, f.yes)
      BY <1>a, <3>1, MeansGrows
    <3> QED
      BY <3>3, <3>4, <3>5
  <2>6. ~Unknown(f.c) => Means(d, J, B2, {h}, b, f.yes)
    BY <1>a, <2>3, MeansGrows
  <2>7. ~Never(f.c)
    BY <2>1 DEF ElsePart
  <2> QED
    BY <2>2, <2>4, <2>5, <2>6, <2>7 DEF ElsePart
<1>5. f.k = "while" => WhilePart(d, J, f, a, b)
  <2>1. f.k = "while" => WhilePart(c, I, f, a, b)
    BY DEF Part
  <2>2. TestWaits(c, I, a, b, f.exit, f.c, f.n, 1) => TestWaits(d, J, a, b, f.exit, f.c, f.n, 1)
    BY WaitsStays
  <2>3. Tests(c, I, {a}, {}, {b}, f.c, f.n, 1) => Tests(d, J, {a}, {}, {b}, f.c, f.n, 1)
    BY <1>a, TestsGrow
  <2> QED
    BY <2>1, <2>2, <2>3 DEF WhilePart
<1>6. f.k = "for" => ForPart(d, J, B2, f, a, b)
  <2>1. f.k = "for" => ForPart(c, I, B, f, a, b)
    BY DEF Part
  <2>2. TestWaits(c, I, f.head, b, f.exit, f.c, f.n, 1) => TestWaits(d, J, f.head, b, f.exit, f.c, f.n, 1)
    BY WaitsStays
  <2>3. Means(c, I, B, {a}, f.head, Inits(f.n)) => Means(d, J, B2, {a}, f.head, Inits(f.n))
    BY <1>a, MeansGrows
  <2> QED
    BY <2>1, <2>2, <2>3 DEF ForPart
<1>7. f.k = "case" => ArmsFall(d, J, B2, f, f.arms, f.emitted, a, b)
  BY <1>f DEF Part
<1>8. f.k = "arm" => ArmPart(d, J, B2, f, a, b)
  <2>1. f.k = "arm" => ArmPart(c, I, B, f, a, b)
    BY DEF Part
  <2>2. \A h : TestWaits(c, I, h, b, Last(f.arms).next, Last(f.arms).c, f.n, Last(f.arms).side)
                => TestWaits(d, J, h, b, Last(f.arms).next, Last(f.arms).c, f.n, Last(f.arms).side)
    BY WaitsStays
  <2> QED
    BY <2>1, <2>2, <1>f DEF ArmPart
<1>9. f.k = "otherwise" => OtherPart(d, J, B2, f, a, b)
  <2>1. f.k = "otherwise" => OtherPart(c, I, B, f, a, b)
    BY DEF Part
  <2>2. \A h : Means(c, I, B, {h}, b, f.list) => Means(d, J, B2, {h}, b, f.list)
    BY <1>a, MeansGrows
  <2> QED
    BY <2>1, <2>2, <1>f DEF OtherPart
<1>10. f.k \in {"case", "arm"} => f.list = << >>
  BY DEF Part
<1> QED
  BY <1>1, <1>2, <1>3, <1>4, <1>5, <1>6, <1>7, <1>8, <1>9, <1>10 DEF Part

-----------------------------------------------------------------------------
(* Constructs on each other *)

\* What is known of f, on the others, and of where it begins and what is inside does.
Topmost(c, I, r, f, bs, a, b) ==
  /\ b \in Nat
  /\ AllRun(r, Len(r)) =>
       Part(c, I, Home(r, Len(r), Below(f, bs)), Inner(r, f, bs), f, a, b)
  /\ ~(AllRun(r, Len(r)) /\ Runs(f)) => b = Len(c)

SameSteps(c, I, s, bs, st, r, u, su) ==
  \A i \in 1 .. Len(r) : Step(c, I, s, bs, st, i) <=> Step(c, I, r, u, su, i)

LEMMA StepOn ==
  ASSUME NEW s, NEW r, NEW f, On(s, r, f), NEW bs \in Seq(Nat),
         IsLoop(f) => f.prev \in 0 .. Len(bs), NEW u, u = Below(f, bs),
         NEW c, NEW I, NEW st, NEW su, \A i \in 1 .. Len(r) + 1 : su[i] = st[i]
  PROVE  /\ SameSteps(c, I, s, bs, st, r, u, su)
         /\ st[Len(s) + 1] \in Nat =>
              (Step(c, I, s, bs, st, Len(s)) <=>
                 Topmost(c, I, r, f, bs, su[Len(s)], st[Len(s) + 1]))
<1>s. Len(s) = Len(r) + 1 /\ Len(r) \in Nat /\ s[Len(s)] = f
      /\ \A i \in 1 .. Len(r) : s[i] = r[i]
  BY DEF On, IsStack
<1>r. /\ AllRun(s, Len(s)) <=> AllRun(r, Len(r)) /\ Runs(f)
      /\ \A i \in 0 .. Len(r) : AllRun(s, i) <=> AllRun(r, i)
  BY OnRuns
<1>h. /\ \A i \in 0 .. Len(r) : Home(s, i, bs) = Home(r, i, u)
      /\ Home(s, Len(s), bs) = Inner(r, f, bs)
  BY HomeOn
<1>1. ASSUME NEW i \in 1 .. Len(r)
      PROVE  Step(c, I, s, bs, st, i) <=> Step(c, I, r, u, su, i)
  <2>1. i - 1 \in 0 .. Len(r) /\ i \in 0 .. Len(r) /\ i \in 1 .. Len(r) + 1
        /\ i + 1 \in 1 .. Len(r) + 1
    BY <1>s
  <2>2. /\ AllRun(s, i - 1) <=> AllRun(r, i - 1)
        /\ AllRun(s, i) <=> AllRun(r, i)
        /\ Home(s, i - 1, bs) = Home(r, i - 1, u) /\ Home(s, i, bs) = Home(r, i, u)
        /\ s[i] = r[i] /\ su[i] = st[i] /\ su[i + 1] = st[i + 1]
    BY <2>1, <1>s, <1>r, <1>h
  <2> QED
    BY <2>2 DEF Step
<1>2. ASSUME st[Len(s) + 1] \in Nat
      PROVE  Step(c, I, s, bs, st, Len(s)) <=>
                 Topmost(c, I, r, f, bs, su[Len(s)], st[Len(s) + 1])
  <2>1. Len(s) - 1 = Len(r) /\ Len(r) \in 0 .. Len(r) /\ Len(s) \in 1 .. Len(r) + 1
    BY <1>s
  <2>2. /\ AllRun(s, Len(s) - 1) <=> AllRun(r, Len(r))
        /\ Home(s, Len(s) - 1, bs) = Home(r, Len(r), Below(f, bs))
        /\ su[Len(s)] = st[Len(s)]
    BY <2>1, <1>r, <1>h
  <2> QED
    BY <2>2, <1>2, <1>s, <1>r, <1>h DEF Step, Topmost
<1> QED
  BY <1>1, <1>2 DEF SameSteps

LEMMA UnderTop ==
  ASSUME NEW s, NEW r, NEW f, On(s, r, f), NEW bs \in Seq(Nat),
         IsLoop(f) => f.prev \in 0 .. Len(bs), NEW u, u = Below(f, bs),
         NEW c, NEW I, NEW b, Under(c, I, s, bs, b)
  PROVE  \E a \in Nat : Under(c, I, r, u, a) /\ Topmost(c, I, r, f, bs, a, b)
<1>s. Len(s) = Len(r) + 1 /\ Len(r) \in Nat
  BY DEF On, IsStack
<1>1. PICK st : Chain(c, I, s, bs, st) /\ b = st[Len(s) + 1]
  BY DEF Under
<1>2. PICK su : su = [i \in 1 .. Len(r) + 1 |-> st[i]]
  OBVIOUS
<1>3. /\ st \in [1 .. Len(s) + 1 -> Nat] /\ st[1] = EnterSize
      /\ \A i \in 1 .. Len(s) : Step(c, I, s, bs, st, i)
  BY <1>1 DEF Chain
<1>4. /\ \A i \in 1 .. Len(r) + 1 : su[i] = st[i] /\ i \in 1 .. Len(s) + 1
      /\ 1 \in 1 .. Len(r) + 1 /\ Len(s) \in 1 .. Len(r) + 1 /\ Len(s) + 1 \in 1 .. Len(s) + 1
      /\ Len(s) \in 1 .. Len(s) /\ \A i \in 1 .. Len(r) : i \in 1 .. Len(s)
  BY <1>2, <1>s
<1>5. su \in [1 .. Len(r) + 1 -> Nat]
  BY <1>2, <1>3, <1>4
<1>6. /\ SameSteps(c, I, s, bs, st, r, u, su)
      /\ st[Len(s) + 1] \in Nat =>
           (Step(c, I, s, bs, st, Len(s)) <=>
              Topmost(c, I, r, f, bs, su[Len(s)], st[Len(s) + 1]))
  BY <1>4, StepOn
<1>7. st[Len(s) + 1] \in Nat /\ su[Len(s)] \in Nat
  BY <1>3, <1>4, <1>5
<1>8. Chain(c, I, r, u, su)
  BY <1>3, <1>4, <1>5, <1>6 DEF Chain, SameSteps
<1>9. Under(c, I, r, u, su[Len(s)])
  BY <1>8, <1>s DEF Under
<1>10. Topmost(c, I, r, f, bs, su[Len(s)], b)
  BY <1>1, <1>3, <1>4, <1>6, <1>7
<1> QED
  BY <1>7, <1>9, <1>10

LEMMA UnderOn ==
  ASSUME NEW s, NEW r, NEW f, On(s, r, f), NEW bs \in Seq(Nat),
         IsLoop(f) => f.prev \in 0 .. Len(bs), NEW u, u = Below(f, bs),
         NEW c, NEW I, NEW a \in Nat, NEW b \in Nat,
         Under(c, I, r, u, a), Topmost(c, I, r, f, bs, a, b)
  PROVE  Under(c, I, s, bs, b)
<1>s. Len(s) = Len(r) + 1 /\ Len(r) \in Nat
  BY DEF On, IsStack
<1>1. PICK su : Chain(c, I, r, u, su) /\ a = su[Len(r) + 1]
  BY DEF Under
<1>2. PICK st : st = [i \in 1 .. Len(s) + 1 |-> IF i \in 1 .. Len(r) + 1 THEN su[i] ELSE b]
  OBVIOUS
<1>3. /\ su \in [1 .. Len(r) + 1 -> Nat] /\ su[1] = EnterSize
      /\ \A i \in 1 .. Len(r) : Step(c, I, r, u, su, i)
  BY <1>1 DEF Chain
<1>4. /\ \A i \in 1 .. Len(r) + 1 : i \in 1 .. Len(s) + 1
      /\ 1 \in 1 .. Len(r) + 1 /\ Len(s) + 1 \in 1 .. Len(s) + 1 /\ Len(s) + 1 \notin 1 .. Len(r) + 1
      /\ Len(r) + 1 = Len(s)
      /\ \A i : i \in 1 .. Len(s) <=> i \in 1 .. Len(r) \/ i = Len(s)
  BY <1>s
<1>5. \A i \in 1 .. Len(r) + 1 : su[i] = st[i]
  BY <1>2, <1>4
<1>6. st[Len(s) + 1] = b /\ st \in [1 .. Len(s) + 1 -> Nat]
  BY <1>2, <1>3, <1>4
<1>7. /\ SameSteps(c, I, s, bs, st, r, u, su)
      /\ st[Len(s) + 1] \in Nat =>
           (Step(c, I, s, bs, st, Len(s)) <=>
              Topmost(c, I, r, f, bs, su[Len(s)], st[Len(s) + 1]))
  <2>1. SameSteps(c, I, s, bs, st, r, u, su)
    BY <1>5, StepOn
  <2>2. st[Len(s) + 1] \in Nat =>
           (Step(c, I, s, bs, st, Len(s)) <=>
              Topmost(c, I, r, f, bs, su[Len(s)], st[Len(s) + 1]))
    BY <1>5, StepOn
  <2> QED
    BY <2>1, <2>2
<1>8. Step(c, I, s, bs, st, Len(s))
  BY <1>1, <1>4, <1>6, <1>7
<1>9. Chain(c, I, s, bs, st)
  BY <1>3, <1>4, <1>5, <1>6, <1>7, <1>8 DEF Chain, SameSteps
<1> QED
  BY <1>6, <1>9 DEF Under

LEMMA UnderStays ==
  ASSUME NEW c, NEW I, NEW d, NEW J, Grows(c, I, d, J), Len(c) \in Nat, Len(d) \in Nat,
         NEW s, IsStack(s), \A i \in 1 .. Len(s) : FrameOK(s[i]), NEW bs, NEW u,
         \A i \in 0 .. Len(s) : Home(s, i, bs) \subseteq Home(s, i, u),
         AllRun(s, Len(s)) \/ Len(d) = Len(c),
         NEW b, Under(c, I, s, bs, b)
  PROVE  Under(d, J, s, u, b)
<1>s. Len(s) \in Nat
  BY DEF IsStack
<1>1. PICK st : Chain(c, I, s, bs, st) /\ b = st[Len(s) + 1]
  BY DEF Under
<1>2. /\ st \in [1 .. Len(s) + 1 -> Nat] /\ st[1] = EnterSize
      /\ \A i \in 1 .. Len(s) : Step(c, I, s, bs, st, i)
  BY <1>1 DEF Chain
<1>3. ASSUME NEW i \in 1 .. Len(s)
      PROVE  Step(d, J, s, u, st, i)
  <2>1. i \in 0 .. Len(s) /\ i - 1 \in 0 .. Len(s)
    BY <1>s
  <2>2. Step(c, I, s, bs, st, i) /\ FrameOK(s[i])
        /\ Home(s, i, bs) \subseteq Home(s, i, u) /\ Home(s, i - 1, bs) \subseteq Home(s, i - 1, u)
    BY <1>2, <2>1
  <2>3. ~AllRun(s, i) => Len(d) = Len(c)
    <3>1. \A j \in 1 .. i : j \in 1 .. Len(s)
      BY <1>s
    <3> QED
      BY <3>1 DEF AllRun
  <2>4. AllRun(s, i - 1) =>
          Part(d, J, Home(s, i - 1, u), Home(s, i, u), s[i], st[i], st[i + 1])
    BY <2>2, PartStays DEF Step
  <2> QED
    BY <2>2, <2>3, <2>4 DEF Step
<1>4. Chain(d, J, s, u, st)
  BY <1>2, <1>3 DEF Chain
<1> QED
  BY <1>1, <1>4 DEF Under

LEMMA HeldPlaced ==
  ASSUME NEW c \in Seq(WordSet), NEW s, NEW bs, NEW il, Base(c, s, bs, il)
  PROVE  \A p \in Held(s, bs) : IsBranch(c, p) /\ p < Len(c)
<1>1. ASSUME NEW p \in Held(s, bs)
      PROVE  IsBranch(c, p)
  <2>1. PICK i \in 1 .. Len(s) : p \in Owned(s, i, bs)
    BY <1>1 DEF Held
  <2>2. Placed(c, s[i]) /\ BreaksPlaced(c, s, bs)
    BY DEF Base
  <2>3. CASE p \in Sites(s[i])
    BY <2>2, <2>3 DEF Placed
  <2>4. CASE p \notin Sites(s[i])
    <3>1. PICK b \in 1 .. Len(bs) : BreakOf(s, i, b) /\ s[i].live /\ p = bs[b]
      BY <2>1, <2>4 DEF Owned
    <3> QED
      BY <2>2, <3>1 DEF BreaksPlaced
  <2> QED
    BY <2>3, <2>4
<1>2. \A p \in Nat : IsBranch(c, p) => p < Len(c)
  BY DEF IsBranch
<1>3. Held(s, bs) \subseteq Nat
  BY DEF Held
<1> QED
  BY <1>1, <1>2, <1>3

-----------------------------------------------------------------------------
(* A step of the compiler *)

\* d is c with more behind it, and other targets at P.
Changes(c, d, P) ==
  /\ Len(c) <= Len(d)
  /\ \A i \in 1 .. Len(c) : d[i].op = c[i].op /\ (i - 1 \notin P => d[i] = c[i])
\* Nothing is held but what was, and what is new.
HoldsOn(c, s, bs, t, u) == \A p \in Held(t, u) : p \in Held(s, bs) \/ p >= Len(c)

LEMMA GrowsIs ==
  ASSUME NEW c \in Seq(WordSet), NEW d \in Seq(WordSet), NEW s, NEW bs, NEW t, NEW u,
         NEW P, Changes(c, d, P), P \subseteq Held(s, bs), HoldsOn(c, s, bs, t, u)
  PROVE  Grows(c, Settled(c, s, bs), d, Settled(d, t, u))
<1>1. Len(c) \in Nat /\ Len(d) \in Nat /\ Len(c) <= Len(d)
  BY DEF Changes
<1>2. ASSUME NEW p \in Settled(c, s, bs)
      PROVE  p \in Settled(d, t, u) /\ d[p + 1] = c[p + 1]
  <2>1. p \in Nat /\ p < Len(c) /\ p \notin Held(s, bs)
    BY <1>2 DEF Settled
  <2>2. p \notin Held(t, u)
    BY <2>1, <1>1 DEF HoldsOn
  <2>3. p + 1 \in 1 .. Len(c) /\ (p + 1) - 1 = p /\ p < Len(d)
    BY <2>1, <1>1
  <2>4. d[p + 1] = c[p + 1]
    BY <2>1, <2>3 DEF Changes
  <2> QED
    BY <2>1, <2>2, <2>3, <2>4 DEF Settled
<1> QED
  BY <1>1, <1>2 DEF Grows, Agree, Changes

Live(r) == AllRun(r, Len(r))

\* Nothing waits but what did, or is a BR.
Spreads(d, s, bs, t, u) ==
  \A p \in Waiting(t, u) : p \in Waiting(s, bs) \/ (p < Len(d) /\ d[p + 1].op = "BR")
LEMMA JumpsOn ==
  ASSUME NEW c \in Seq(WordSet), NEW d \in Seq(WordSet), NEW P, Changes(c, d, P),
         NEW s, NEW bs, Jumps(c, s, bs), NEW t, NEW u, Spreads(d, s, bs, t, u)
  PROVE  Jumps(d, t, u)
<1>1. ASSUME NEW p \in Waiting(s, bs) PROVE p < Len(d) /\ d[p + 1].op = "BR"
  <2>1. p \in Nat /\ p < Len(c) /\ c[p + 1].op = "BR"
    BY DEF Waiting, Jumps
  <2>2. p + 1 \in 1 .. Len(c) /\ Len(c) \in Nat /\ Len(d) \in Nat
    BY <2>1
  <2> QED
    BY <2>1, <2>2 DEF Changes
<1> QED
  BY <1>1 DEF Jumps, Spreads

LEMMA AllEarly ==
  ASSUME NEW bs \in Seq(Nat), NEW n, n = Len(bs)
  PROVE  n \in 0 .. Len(bs) /\ Early(bs, n) = bs /\ ToSet(Late(bs, n)) = {}
<1>1. n \in 0 .. Len(bs) /\ n \in Nat
  OBVIOUS
<1>2. PICK early, late : early = Early(bs, n) /\ late = Late(bs, n)
  OBVIOUS
<1>3. early \in Seq(Nat) /\ Len(early) = n /\ \A b \in 1 .. n : early[b] = bs[b] /\ b \in 1 .. Len(bs)
  BY <1>1, <1>2, FirstOnes
<1>4. late \in Seq(Nat) /\ Len(late) = Len(bs) - n
  BY <1>1, <1>2, OtherOnes
<1>5. early = bs
  <2>1. Len(bs) = n /\ Len(early) = n /\ \A b \in 1 .. n : early[b] = bs[b]
    BY <1>3
  <2>2. early = [b \in 1 .. n |-> early[b]] /\ bs = [b \in 1 .. n |-> bs[b]]
    BY <1>3, <2>1
  <2>3. [b \in 1 .. n |-> early[b]] = [b \in 1 .. n |-> bs[b]]
    BY <2>1
  <2> QED
    BY <2>2, <2>3
<1>6. \A p : p \in ToSet(late) <=> \E b \in 1 .. Len(late) : p = late[b]
  BY <1>4, InToSet
<1>7. Len(late) = 0
  BY <1>4
<1>8. \A p : p \notin ToSet(late)
  BY <1>6, <1>7
<1> QED
  BY <1>1, <1>2, <1>5, <1>8

LEMMA BelowAll ==
  ASSUME NEW bs \in Seq(Nat), NEW f, IsLoop(f) => f.prev = Len(bs)
  PROVE  /\ Below(f, bs) = bs /\ (IsLoop(f) => f.prev \in 0 .. Len(bs))
         /\ IsLoop(f) => ToSet(Late(bs, f.prev)) = {}
<1>1. CASE IsLoop(f)
  <2>1. PICK n : n = f.prev
    OBVIOUS
  <2>2. n = Len(bs)
    BY <1>1, <2>1
  <2>3. n \in 0 .. Len(bs) /\ Early(bs, n) = bs /\ ToSet(Late(bs, n)) = {}
    BY <2>2, AllEarly
  <2> QED
    BY <1>1, <2>1, <2>3 DEF Below
<1>2. CASE ~IsLoop(f)
  BY <1>2 DEF Below
<1> QED
  BY <1>1, <1>2

\* A construct f begins.
LEMMA PushGrows ==
  ASSUME NEW c \in Seq(WordSet), NEW d \in Seq(WordSet), NEW s, NEW t, NEW f, On(t, s, f),
         NEW bs \in Seq(Nat), IsLoop(f) => f.prev = Len(bs), Changes(c, d, {}),
         \A p \in Own(f, bs) : p >= Len(c),
         NEW I, I = Settled(c, s, bs), NEW J, J = Settled(d, t, bs),
         \A p \in Held(s, bs) : p < Len(c)
  PROVE  /\ Grows(c, I, d, J) /\ Held(t, bs) = Held(s, bs) \cup Own(f, bs)
         /\ \A p \in Span(Len(c), Len(d)) : p \notin Own(f, bs) => p \in J
<1>1. Below(f, bs) = bs /\ (IsLoop(f) => f.prev \in 0 .. Len(bs))
  BY BelowAll
<1>2. Held(t, bs) = Held(s, bs) \cup Own(f, bs)
  BY <1>1, OwnedOn
<1>3. HoldsOn(c, s, bs, t, bs)
  BY <1>2 DEF HoldsOn
<1>4. Grows(c, I, d, J)
  BY <1>3, GrowsIs
<1>5. ASSUME NEW p \in Span(Len(c), Len(d)), p \notin Own(f, bs)
      PROVE  p \in J
  <2>1. p \in Nat /\ p < Len(d) /\ ~(p < Len(c))
    BY <1>5 DEF Span
  <2> QED
    BY <2>1, <1>2, <1>5 DEF Settled
<1> QED
  BY <1>2, <1>4, <1>5

\* In f a statement comes next; between the arms of a CASE none does.
Wants(w, f) == w = IF f.k = "case" THEN FALSE ELSE TRUE

LEMMA BuiltPush ==
  ASSUME NEW c \in Seq(WordSet), NEW d \in Seq(WordSet), NEW s, StackOK(s),
         NEW t, NEW f, On(t, s, f),
         NEW bs \in Seq(Nat), IsLoop(f) => f.prev = Len(bs), Changes(c, d, {}),
         \A p \in Own(f, bs) : p >= Len(c), Tidy(f),
         NEW I, I = Settled(c, s, bs), NEW J, J = Settled(d, t, bs),
         \A p \in Held(s, bs) : p < Len(c), Spreads(d, s, bs, t, bs),
         NEW m0, Built(c, s, bs, TRUE, m0), NEW w, Wants(w, f), NEW m,
         IF Live(s) THEN Part(d, J, Home(s, Len(s), bs), Inner(s, f, bs), f, Len(c), Len(d))
         ELSE Len(d) = Len(c)
  PROVE  Built(d, t, bs, w, m)
<1>1. Below(f, bs) = bs /\ (IsLoop(f) => f.prev \in 0 .. Len(bs))
  BY BelowAll
<1>2. Grows(c, I, d, J)
  BY PushGrows
<1>s. IsStack(s) /\ (\A i \in 1 .. Len(s) : FrameOK(s[i])) /\ Len(s) \in Nat
  BY DEF StackOK, IsStack
<1>t. Len(t) = Len(s) + 1 /\ t[Len(t)] = f /\ \A i \in 1 .. Len(s) : t[i] = s[i]
  BY DEF On
<1>3. PICK b \in Nat : Under(c, I, s, bs, b) /\ Now(c, I, s, Home(s, Len(s), bs), TRUE, m0, b)
  BY DEF Built
<1>4. b = Len(c)
  BY <1>3 DEF Now
<1>5. Under(d, J, s, bs, Len(c))
  <2>1. Live(s) \/ Len(d) = Len(c)
    OBVIOUS
  <2>2. Len(c) \in Nat /\ Len(d) \in Nat
    OBVIOUS
  <2> QED
    BY <1>2, <1>3, <1>4, <1>s, <2>1, <2>2, UnderStays DEF Live
<1>6. Topmost(d, J, s, f, bs, Len(c), Len(d))
  BY <1>1 DEF Topmost, Live
<1>7. Under(d, J, t, bs, Len(d))
  BY <1>1, <1>5, <1>6, UnderOn
<1>8. Apart(t, bs)
  <2>1. Apart(s, bs)
    BY DEF Built
  <2>2. Held(s, bs) \cap Own(f, bs) = {}
    <3>1. \A p \in Held(s, bs) : p \in Nat /\ p < Len(c)
      BY DEF Held
    <3>2. Len(c) \in Nat
      OBVIOUS
    <3> QED
      BY <3>1, <3>2
  <2> QED
    BY <1>1, <2>1, <2>2, ApartOn
<1>9. CaseOnTop(t, w)
  <2>1. \A i \in 1 .. Len(s) : s[i].k # "case"
    BY DEF Built, CaseOnTop
  <2>2. ASSUME NEW i \in 1 .. Len(t), t[i].k = "case"
        PROVE  i = Len(t) /\ ~w
    <3>1. i \in 1 .. Len(s) \/ i = Len(t)
      BY <1>t, <1>s
    <3>2. i \notin 1 .. Len(s)
      BY <2>1, <2>2, <1>t
    <3>3. i = Len(t) /\ f.k = "case"
      BY <3>1, <3>2, <2>2, <1>t
    <3> QED
      BY <3>3 DEF Wants
  <2> QED
    BY <2>2 DEF CaseOnTop
<1>10. Now(d, J, t, Home(t, Len(t), bs), w, m, Len(d))
  BY <1>t DEF Now, Wants
<1>11. Jumps(d, t, bs)
  <2>1. Jumps(c, s, bs)
    BY DEF Built
  <2> QED
    BY <2>1, JumpsOn
<1> QED
  BY <1>7, <1>8, <1>9, <1>10, <1>11 DEF Built

\* What is known when the statement inside f, which m is the meaning of, is compiled.
Inside(c, I, B, D, f, m, a, b) ==
  /\ Part(c, I, B, D, f, a, b)
  /\ IF f.k = "case" \/ ~Runs(f) THEN b = Len(c) ELSE Means(c, I, D, {b}, Len(c), m)

LEMMA InsideBuilt ==
  ASSUME NEW c \in Seq(WordSet), NEW s, NEW r, NEW f, On(s, r, f), NEW bs \in Seq(Nat),
         IsLoop(f) => f.prev \in 0 .. Len(bs), NEW u, u = Below(f, bs),
         NEW I, I = Settled(c, s, bs), NEW m, Built(c, s, bs, FALSE, m)
  PROVE  \E a \in Nat, b \in Nat :
           /\ Under(c, I, r, u, a)
           /\ Live(r) => Inside(c, I, Home(r, Len(r), u), Inner(r, f, bs), f, m, a, b)
<1>1. PICK b \in Nat : Under(c, I, s, bs, b) /\ Now(c, I, s, Home(s, Len(s), bs), FALSE, m, b)
  BY DEF Built
<1>2. PICK a \in Nat : Under(c, I, r, u, a) /\ Topmost(c, I, r, f, bs, a, b)
  BY <1>1, UnderTop
<1>3. Home(s, Len(s), bs) = Inner(r, f, bs)
  BY HomeOn
<1>4. s[Len(s)] = f /\ (AllRun(s, Len(s)) <=> Live(r) /\ Runs(f))
  BY OnRuns DEF On, Live
<1>5. Live(r) => Inside(c, I, Home(r, Len(r), u), Inner(r, f, bs), f, m, a, b)
  BY <1>1, <1>2, <1>3, <1>4 DEF Now, Topmost, Inside, Live
<1> QED
  BY <1>2, <1>5

LEMMA UnderDead ==
  ASSUME NEW c, NEW I, NEW s, IsStack(s), Len(s) > 0, ~Live(s), NEW bs, NEW b,
         Under(c, I, s, bs, b)
  PROVE  b = Len(c)
<1>1. PICK st : Chain(c, I, s, bs, st) /\ b = st[Len(s) + 1]
  BY DEF Under
<1>2. Len(s) \in 1 .. Len(s)
  BY DEF IsStack
<1>3. Step(c, I, s, bs, st, Len(s))
  BY <1>1, <1>2 DEF Chain
<1> QED
  BY <1>1, <1>3 DEF Step, Live

\* A statement that is complete goes on the same stack.
LEMMA BuiltSame ==
  ASSUME NEW c \in Seq(WordSet), NEW d \in Seq(WordSet), NEW s, StackOK(s), Len(s) > 0,
         NEW bs, NEW u, Changes(c, d, {}), Apart(s, u), HoldsOn(c, s, bs, s, u),
         Spreads(d, s, bs, s, u),
         \A i \in 0 .. Len(s) : Home(s, i, bs) \subseteq Home(s, i, u),
         NEW J, J = Settled(d, s, u), NEW m0, Built(c, s, bs, TRUE, m0), NEW m,
         IF Live(s) THEN Means(d, J, Home(s, Len(s), u), {Len(c)}, Len(d), m)
         ELSE Len(d) = Len(c)
  PROVE  Built(d, s, u, FALSE, m)
<1>1. PICK I : I = Settled(c, s, bs)
  OBVIOUS
<1>2. Grows(c, I, d, J)
  BY <1>1, GrowsIs
<1>s. IsStack(s) /\ (\A i \in 1 .. Len(s) : FrameOK(s[i])) /\ Len(s) \in Nat
  BY DEF StackOK, IsStack
<1>3. PICK b \in Nat : Under(c, I, s, bs, b) /\ Now(c, I, s, Home(s, Len(s), bs), TRUE, m0, b)
  BY <1>1 DEF Built
<1>4. b = Len(c)
  BY <1>3 DEF Now
<1>5. Under(d, J, s, u, b)
  <2>1. Live(s) \/ Len(d) = Len(c)
    OBVIOUS
  <2>2. Len(c) \in Nat /\ Len(d) \in Nat
    OBVIOUS
  <2> QED
    BY <1>2, <1>3, <1>s, <2>1, <2>2, UnderStays DEF Live
<1>6. CaseOnTop(s, FALSE)
  BY DEF Built, CaseOnTop
<1>7. Now(d, J, s, Home(s, Len(s), u), FALSE, m, b)
  <2>1. s[Len(s)].k # "case"
    <3>1. Len(s) \in 1 .. Len(s)
      BY <1>s
    <3> QED
      BY <3>1 DEF Built, CaseOnTop
  <2>3. ~Live(s) => b = Len(d)
    BY <1>4
  <2>4. Live(s) => Means(d, J, Home(s, Len(s), u), {b}, Len(d), m)
    BY <1>4
  <2>5. AllRun(s, Len(s)) <=> Live(s)
    BY DEF Live
  <2> QED
    BY <2>3, <2>4, <2>5, <2>1 DEF Now
<1>8. Jumps(d, s, u)
  <2>1. Jumps(c, s, bs)
    BY DEF Built
  <2> QED
    BY <2>1, JumpsOn
<1> QED
  BY <1>3, <1>5, <1>6, <1>7, <1>8 DEF Built

\* The innermost construct f is over.
LEMMA PopGrows ==
  ASSUME NEW c \in Seq(WordSet), NEW d \in Seq(WordSet), NEW s, NEW r, NEW f, On(s, r, f),
         NEW bs \in Seq(Nat), IsLoop(f) => f.prev \in 0 .. Len(bs), NEW u, u = Below(f, bs),
         NEW il, Base(c, s, bs, il), Changes(c, d, Own(f, bs)), Apart(s, bs),
         NEW I, I = Settled(c, s, bs), NEW J, J = Settled(d, r, u)
  PROVE  /\ Grows(c, I, d, J) /\ Apart(r, u)
         /\ Span(Len(c), Len(d)) \subseteq J /\ Own(f, bs) \subseteq J
<1>1. Held(s, bs) = Held(r, u) \cup Own(f, bs)
  BY OwnedOn
<1>2. HoldsOn(c, s, bs, r, u) /\ Own(f, bs) \subseteq Held(s, bs)
  BY <1>1 DEF HoldsOn
<1>3. Grows(c, I, d, J)
  BY <1>2, GrowsIs
<1>4. Apart(r, u) /\ Held(r, u) \cap Own(f, bs) = {}
  BY ApartOn
<1>5. \A p \in Held(s, bs) : p < Len(c)
  BY HeldPlaced
<1>l. Len(c) \in Nat /\ Len(d) \in Nat /\ Len(c) <= Len(d)
  BY DEF Changes
<1>6. ASSUME NEW p \in Span(Len(c), Len(d))
      PROVE  p \in J
  <2>1. p \in Nat /\ p < Len(d) /\ ~(p < Len(c))
    BY <1>6, <1>l DEF Span
  <2>2. p \notin Held(r, u)
    BY <1>1, <1>5, <2>1
  <2> QED
    BY <2>1, <2>2 DEF Settled
<1>7. ASSUME NEW p \in Own(f, bs)
      PROVE  p \in J
  <2>1. p \in Nat
    BY DEF Own
  <2>2. p < Len(c)
    BY <1>1, <1>5
  <2>3. p \notin Held(r, u) /\ p < Len(d)
    BY <1>4, <1>l, <2>1, <2>2
  <2> QED
    BY <2>1, <2>3 DEF Settled
<1> QED
  BY <1>3, <1>4, <1>6, <1>7

\* What it means, with the statement inside it.
Ends(c, I, d, J, r, f, bs, m, n) ==
  \A a, b \in Nat :
    Inside(c, I, Home(r, Len(r), Below(f, bs)), Inner(r, f, bs), f, m, a, b) =>
      Means(d, J, Home(r, Len(r), Below(f, bs)), {a}, Len(d), n)

LEMMA BuiltPop ==
  ASSUME NEW c \in Seq(WordSet), NEW d \in Seq(WordSet), NEW s, StackOK(s),
         NEW r, NEW f, On(s, r, f), Len(r) > 0,
         NEW bs \in Seq(Nat), IsLoop(f) => f.prev \in 0 .. Len(bs), NEW u, u = Below(f, bs),
         NEW il, Base(c, s, bs, il), Changes(c, d, Own(f, bs)),
         NEW I, I = Settled(c, s, bs), NEW J, J = Settled(d, r, u),
         NEW m, Built(c, s, bs, FALSE, m), NEW n,
         IF Live(r) THEN Ends(c, I, d, J, r, f, bs, m, n) ELSE Len(d) = Len(c)
  PROVE  Built(d, r, u, FALSE, n)
<1>1. Apart(s, bs) /\ CaseOnTop(s, FALSE)
  BY DEF Built
<1>2. Grows(c, I, d, J) /\ Apart(r, u)
  BY <1>1, PopGrows
<1>s. /\ IsStack(r) /\ (\A i \in 1 .. Len(r) : FrameOK(r[i])) /\ Len(r) \in Nat
      /\ Len(s) = Len(r) + 1 /\ \A i \in 1 .. Len(r) : s[i] = r[i]
  BY OnStack DEF On, IsStack
<1>3. PICK a \in Nat, b \in Nat :
        /\ Under(c, I, r, u, a)
        /\ Live(r) => Inside(c, I, Home(r, Len(r), u), Inner(r, f, bs), f, m, a, b)
  BY InsideBuilt
<1>4. Under(d, J, r, u, a)
  <2>1. Live(r) \/ Len(d) = Len(c)
    OBVIOUS
  <2>2. Len(c) \in Nat /\ Len(d) \in Nat
    OBVIOUS
  <2>3. \A i \in 0 .. Len(r) : Home(r, i, u) \subseteq Home(r, i, u)
    OBVIOUS
  <2> QED
    BY <1>2, <1>3, <1>s, <2>1, <2>2, <2>3, UnderStays DEF Live
<1>5. \A i \in 1 .. Len(r) : r[i].k # "case"
  <2>1. ASSUME NEW i \in 1 .. Len(r)
        PROVE  i \in 1 .. Len(s) /\ i # Len(s) /\ s[i] = r[i]
    BY <1>s
  <2> QED
    BY <1>1, <2>1 DEF CaseOnTop
<1>6. Now(d, J, r, Home(r, Len(r), u), FALSE, n, a)
  <2>1. r[Len(r)].k # "case"
    <3>1. Len(r) \in 1 .. Len(r)
      BY <1>s
    <3> QED
      BY <3>1, <1>5
  <2>2. Live(r) => Means(d, J, Home(r, Len(r), u), {a}, Len(d), n)
    BY <1>3 DEF Ends
  <2>3. ~Live(r) => a = Len(d)
    BY <1>3, <1>s, UnderDead
  <2>4. AllRun(r, Len(r)) <=> Live(r)
    BY DEF Live
  <2> QED
    BY <2>1, <2>2, <2>3, <2>4 DEF Now
<1>7. CaseOnTop(r, FALSE)
  BY <1>5 DEF CaseOnTop
<1>8. Jumps(d, r, u)
  <2>1. Jumps(c, s, bs)
    BY DEF Built
  <2>2. Spreads(d, s, bs, r, u)
    BY WaitingOn DEF Spreads
  <2> QED
    BY <2>1, <2>2, JumpsOn
<1> QED
  BY <1>2, <1>4, <1>6, <1>7, <1>8 DEF Built

\* It becomes h.
LEMMA ChangeGrows ==
  ASSUME NEW c \in Seq(WordSet), NEW d \in Seq(WordSet), NEW s, NEW r, NEW f, On(s, r, f),
         NEW t, NEW h, On(t, r, h), ~IsLoop(f), ~IsLoop(h), NEW bs \in Seq(Nat),
         NEW il, Base(c, s, bs, il), NEW P, Changes(c, d, P), P \subseteq Own(f, bs),
         \A p \in Own(h, bs) : p \in Own(f, bs) \/ p >= Len(c), Tidy(h), Apart(s, bs),
         NEW I, I = Settled(c, s, bs), NEW J, J = Settled(d, t, bs)
  PROVE  /\ Grows(c, I, d, J) /\ Apart(t, bs)
         /\ Span(Len(c), Len(d)) \ Own(h, bs) \subseteq J
         /\ Own(f, bs) \ Own(h, bs) \subseteq J
<1>0. Below(f, bs) = bs /\ Below(h, bs) = bs
  BY DEF Below
<1>1. Held(s, bs) = Held(r, bs) \cup Own(f, bs) /\ Held(t, bs) = Held(r, bs) \cup Own(h, bs)
  BY <1>0, OwnedOn
<1>2. HoldsOn(c, s, bs, t, bs) /\ P \subseteq Held(s, bs)
  BY <1>1 DEF HoldsOn
<1>3. Grows(c, I, d, J)
  BY <1>2, GrowsIs
<1>4. Apart(r, bs) /\ Held(r, bs) \cap Own(f, bs) = {}
  BY <1>0, ApartOn
<1>5. \A p \in Held(s, bs) : p < Len(c) /\ p \in Nat
  BY HeldPlaced DEF Held
<1>l. Len(c) \in Nat /\ Len(d) \in Nat /\ Len(c) <= Len(d)
  BY DEF Changes
<1>6. Held(r, bs) \cap Own(h, bs) = {}
  <2>1. ASSUME NEW p \in Held(r, bs), p \in Own(h, bs)
        PROVE  FALSE
    <3>1. p < Len(c) /\ p \in Nat /\ p \notin Own(f, bs)
      BY <1>1, <1>4, <1>5, <2>1
    <3>2. p >= Len(c)
      BY <2>1, <3>1
    <3> QED
      BY <3>1, <3>2, <1>l
  <2> QED
    BY <2>1
<1>7. Apart(t, bs)
  BY <1>0, <1>4, <1>6, ApartOn
<1>8. ASSUME NEW p \in Span(Len(c), Len(d)), p \notin Own(h, bs)
      PROVE  p \in J
  <2>1. p \in Nat /\ p < Len(d) /\ ~(p < Len(c))
    BY <1>8, <1>l DEF Span
  <2>2. p \notin Held(r, bs)
    BY <1>1, <1>5, <2>1
  <2> QED
    BY <1>1, <1>8, <2>1, <2>2 DEF Settled
<1>9. ASSUME NEW p \in Own(f, bs), p \notin Own(h, bs)
      PROVE  p \in J
  <2>1. p \in Nat
    BY DEF Own
  <2>2. p < Len(c)
    BY <1>1, <1>5
  <2>3. p \notin Held(t, bs) /\ p < Len(d)
    BY <1>1, <1>4, <1>9, <1>l, <2>1, <2>2
  <2> QED
    BY <2>1, <2>3 DEF Settled
<1> QED
  BY <1>3, <1>7, <1>8, <1>9

Turns(c, I, d, J, r, f, h, bs, m) ==
  \A a, b \in Nat :
    Inside(c, I, Home(r, Len(r), bs), Inner(r, f, bs), f, m, a, b) =>
      Part(d, J, Home(r, Len(r), bs), Inner(r, h, bs), h, a, Len(d))

LEMMA BuiltChange ==
  ASSUME NEW c \in Seq(WordSet), NEW d \in Seq(WordSet), NEW s, StackOK(s),
         NEW r, NEW f, On(s, r, f),
         NEW t, NEW h, On(t, r, h), ~IsLoop(f), ~IsLoop(h), NEW bs \in Seq(Nat),
         NEW il, Base(c, s, bs, il), NEW P, Changes(c, d, P), P \subseteq Own(f, bs),
         \A p \in Own(h, bs) : p \in Own(f, bs) \/ p >= Len(c), Tidy(h),
         NEW I, I = Settled(c, s, bs), NEW J, J = Settled(d, t, bs),
         \A p \in Waits(h) : p \in Waits(f) \/ (p < Len(d) /\ d[p + 1].op = "BR"),
         NEW m, Built(c, s, bs, FALSE, m), NEW w, Wants(w, h), NEW n,
         IF Live(r) THEN Turns(c, I, d, J, r, f, h, bs, m) ELSE Len(d) = Len(c)
  PROVE  Built(d, t, bs, w, n)
<1>0. Below(f, bs) = bs /\ Below(h, bs) = bs
  BY DEF Below
<1>1. Apart(s, bs) /\ CaseOnTop(s, FALSE)
  BY DEF Built
<1>2. Grows(c, I, d, J) /\ Apart(t, bs)
  BY <1>1, ChangeGrows
<1>s. /\ IsStack(r) /\ (\A i \in 1 .. Len(r) : FrameOK(r[i])) /\ Len(r) \in Nat
      /\ Len(s) = Len(r) + 1 /\ \A i \in 1 .. Len(r) : s[i] = r[i]
  BY OnStack DEF On, IsStack
<1>t. /\ Len(t) = Len(r) + 1 /\ t[Len(t)] = h /\ \A i \in 1 .. Len(r) : t[i] = r[i]
  BY DEF On
<1>3. PICK a \in Nat, b \in Nat :
        /\ Under(c, I, r, bs, a)
        /\ Live(r) => Inside(c, I, Home(r, Len(r), bs), Inner(r, f, bs), f, m, a, b)
  BY <1>0, InsideBuilt
<1>l. Len(c) \in Nat /\ Len(d) \in Nat
  OBVIOUS
<1>4. Under(d, J, r, bs, a)
  <2>1. Live(r) \/ Len(d) = Len(c)
    OBVIOUS
  <2>3. \A i \in 0 .. Len(r) : Home(r, i, bs) \subseteq Home(r, i, bs)
    OBVIOUS
  <2> QED
    BY <1>2, <1>3, <1>s, <2>1, <1>l, <2>3, UnderStays DEF Live
<1>5. \A i \in 1 .. Len(r) : r[i].k # "case"
  <2>1. ASSUME NEW i \in 1 .. Len(r)
        PROVE  i \in 1 .. Len(s) /\ i # Len(s) /\ s[i] = r[i]
    BY <1>s
  <2> QED
    BY <1>1, <2>1 DEF CaseOnTop
<1>6. Topmost(d, J, r, h, bs, a, Len(d))
  <2>1. Live(r) => Part(d, J, Home(r, Len(r), bs), Inner(r, h, bs), h, a, Len(d))
    BY <1>3 DEF Turns
  <2> QED
    BY <1>0, <1>l, <2>1 DEF Topmost, Live
<1>7. Under(d, J, t, bs, Len(d))
  BY <1>0, <1>4, <1>6, <1>l, UnderOn
<1>8. CaseOnTop(t, w)
  <2>2. ASSUME NEW i \in 1 .. Len(t), t[i].k = "case"
        PROVE  i = Len(t) /\ ~w
    <3>1. i \in 1 .. Len(r) \/ i = Len(t)
      BY <1>t, <1>s
    <3>2. i \notin 1 .. Len(r)
      BY <1>5, <2>2, <1>t
    <3>3. i = Len(t) /\ h.k = "case"
      BY <3>1, <3>2, <2>2, <1>t
    <3> QED
      BY <3>3 DEF Wants
  <2> QED
    BY <2>2 DEF CaseOnTop
<1>9. Now(d, J, t, Home(t, Len(t), bs), w, n, Len(d))
  BY <1>t DEF Now, Wants
<1>10. Jumps(d, t, bs)
  <2>1. Jumps(c, s, bs)
    BY DEF Built
  <2>2. Waiting(s, bs) = Waiting(r, bs) \cup Mine(f, bs)
    BY <1>0, WaitingOn
  <2>3. Waiting(t, bs) = Waiting(r, bs) \cup Mine(h, bs)
    BY <1>0, WaitingOn
  <2>4. Spreads(d, s, bs, t, bs)
    BY <2>2, <2>3 DEF Spreads, Mine
  <2> QED
    BY <2>1, <2>4, JumpsOn
<1> QED
  BY <1>l, <1>2, <1>7, <1>8, <1>9, <1>10 DEF Built

-----------------------------------------------------------------------------
(* Statements begin, and are built *)

Compiled == ~Running /\ orderly => Built(em.code, todo, breaks, wants, made)

LEMMA ExtendsChanges ==
  ASSUME NEW c \in Seq(WordSet), NEW d \in Seq(WordSet), Extends(c, d), NEW P
  PROVE  Changes(c, d, P)
<1>1. Len(c) \in Nat /\ Len(c) <= Len(d)
  BY DEF Extends
<1>2. \A i \in 1 .. Len(c) : d[i] = c[i]
  <2>1. \A i \in 0 + 1 .. Len(c) : d[i] = c[i]
    BY DEF Extends, Same
  <2> QED
    BY <2>1, <1>1
<1> QED
  BY <1>1, <1>2 DEF Changes

LEMMA ReadyMore ==
  ASSUME IInv, Compiled, Ready
  PROVE  /\ Base(em.code, todo, breaks, inLoop) /\ (Live(todo) <=> em.emit)
         /\ Built(em.code, todo, breaks, wants, made)
         /\ \A p \in Held(todo, breaks) : p < Len(em.code)
<1>1. /\ Core(em, todo, breaks, inLoop) /\ em.code \in Seq(WordSet) /\ orderly = TRUE
  BY ReadyIs
<1>2. Base(em.code, todo, breaks, inLoop) /\ (Live(todo) <=> em.emit)
  BY <1>1 DEF Core, Live
<1>3. \A p \in Held(todo, breaks) : p < Len(em.code)
  BY <1>1, <1>2, HeldPlaced
<1>4. Built(em.code, todo, breaks, wants, made)
  BY <1>1 DEF Compiled, Ready
<1> QED
  BY <1>2, <1>3, <1>4

\* What is new is settled.
LEMMA NewSettled ==
  ASSUME IInv, Compiled, Ready, NEW d \in Seq(WordSet)
  PROVE  Span(Len(em.code), Len(d)) \subseteq Settled(d, todo, breaks)
<1>1. ASSUME NEW p \in Span(Len(em.code), Len(d))
      PROVE  p \in Settled(d, todo, breaks)
  <2>1. Len(em.code) \in Nat /\ Len(d) \in Nat
    BY ReadyIs
  <2>2. p \in Nat /\ p < Len(d) /\ ~(p < Len(em.code))
    BY <1>1, <2>1 DEF Span
  <2>3. p \notin Held(todo, breaks)
    BY <2>2, ReadyMore
  <2> QED
    BY <2>2, <2>3 DEF Settled
<1> QED
  BY <1>1

LEMMA StmtBuilt ==
  ASSUME IInv, Compiled, Ready, wants = TRUE, NEW d \in Seq(WordSet), d = em'.code,
         Extends(em.code, d), UNCHANGED <<todo, breaks>>, wants' = FALSE,
         IF em.emit
         THEN Means(d, Settled(d, todo, breaks), Home(todo, Len(todo), breaks),
                    {Len(em.code)}, Len(d), made')
         ELSE Len(d) = Len(em.code)
  PROVE  Compiled'
<1>1. PICK c, s, bs, J, m : c = em.code /\ s = todo /\ bs = breaks /\ J = Settled(d, s, bs) /\ m = made'
  OBVIOUS
<1>2. /\ c \in Seq(WordSet) /\ StackOK(s) /\ Len(s) > 0 /\ IsStack(s)
  BY <1>1, ReadyIs
<1>3. /\ Live(s) <=> em.emit
      /\ Built(c, s, bs, TRUE, made)
  BY <1>1, ReadyMore
<1>4. Changes(c, d, {})
  BY <1>1, <1>2, ExtendsChanges
<1>5. Apart(s, bs) /\ HoldsOn(c, s, bs, s, bs) /\ Spreads(d, s, bs, s, bs)
  BY <1>3 DEF Built, HoldsOn, Spreads
<1>6. IF Live(s) THEN Means(d, J, Home(s, Len(s), bs), {Len(c)}, Len(d), m)
      ELSE Len(d) = Len(c)
  BY <1>1, <1>3
<1>7. \A i \in 0 .. Len(s) : Home(s, i, bs) \subseteq Home(s, i, bs)
  OBVIOUS
<1>8. Built(d, s, bs, FALSE, m)
  BY <1>1, <1>2, <1>3, <1>4, <1>5, <1>6, <1>7, BuiltSame
<1> QED
  BY <1>1, <1>8 DEF Compiled

\* A word that is an event.
HasEvent(e, f, n, what, I, B) ==
  /\ f \in Emitter /\ f.emit /\ Here(f) = Here(e) + 1 /\ Extends(e.code, f.code)
  /\ Means(f.code, I, B, {Here(e)}, Here(f), <<Act(n, what)>>)

LEMMA ActMeans ==
  ASSUME NEW e \in Emitter, e.emit, NEW n \in Nat, NEW what \in {"do", "init", "bound", "put"},
         NEW f, f = Emit(e, ActWord(n, what)), NEW I, Here(e) \in I, NEW B
  PROVE  HasEvent(e, f, n, what, I, B)
<1>1. PICK w \in WordSet : w = ActWord(n, what)
  BY ActIs
<1>2. /\ f \in Emitter /\ f.emit /\ Here(f) = Here(e) + 1
      /\ f.code[Here(e) + 1] = w /\ Extends(e.code, f.code)
  BY <1>1, WordEmitted
<1>3. w.op = "act" /\ w.op \in Seen /\ WordEvent(w) = <<n, what>>
  BY <1>1 DEF ActWord, Seen, WordEvent
<1>4. PICK a, x : a = Here(e) /\ x = Here(f)
  OBVIOUS
<1>5. a \in Nat /\ x \in Nat /\ x = a + 1
  BY <1>2, <1>4, EmitterIs
<1>6. ASSUME NEW m \in Machine, m.ip = a, NEW o \in BOOLEAN
      PROVE  Does(w, m, o) \in Machine /\ Does(w, m, o).ip = x
  BY <1>3, <1>5, <1>6 DEF Does, Machine
<1>7. Means(f.code, I, B, {a}, x, <<Act(n, what)>>)
  <2>1. f.code[a + 1] = w
    BY <1>2, <1>4
  <2> QED
    BY <1>3, <1>4, <1>5, <1>6, <2>1, EventMeans
<1> QED
  BY <1>2, <1>4, <1>7 DEF HasEvent

LEMMA SimpleBuilt ==
  ASSUME IInv, Compiled, Simple
  PROVE  Compiled'
<1>1. Ready /\ size \in Nat /\ wants = TRUE
  BY SizeIs, WeightIs DEF Simple, Kinds
<1>2. em \in Emitter /\ em' = Emit(em, ActWord(size, "do")) /\ made' = <<Act(size, "do")>>
      /\ UNCHANGED <<todo, breaks>> /\ wants' = FALSE
  BY <1>1, ReadyIs DEF Simple, Whole, Done
<1>3. em' \in Emitter
  <2>1. PICK w \in WordSet : w = ActWord(size, "do")
    BY <1>1, ActIs
  <2> QED
    BY <1>2, <2>1, EmitTyped
<1>4. PICK d \in Seq(WordSet) : d = em'.code
  BY <1>3, EmitterIs
<1>5. CASE em.emit
  <2>1. PICK I, B : I = Settled(d, todo, breaks) \cup {Here(em)} /\ B = Home(todo, Len(todo), breaks)
    OBVIOUS
  <2>2. HasEvent(em, em', size, "do", I, B)
    BY <1>1, <1>2, <1>5, <2>1, ActMeans
  <2>3. Extends(em.code, d) /\ Len(d) = Len(em.code) + 1
    BY <2>2, <1>4 DEF HasEvent, Here
  <2>4. Here(em) \in Settled(d, todo, breaks)
    <3>1. Here(em) \in Span(Len(em.code), Len(d))
      BY <2>3, <1>2, EmitterIs DEF Span, Here
    <3> QED
      BY <3>1, <1>1, NewSettled
  <2>5. Means(d, I, B, {Len(em.code)}, Len(d), made')
    BY <2>2, <1>2, <1>4 DEF HasEvent, Here
  <2>6. I = Settled(d, todo, breaks)
    BY <2>1, <2>4
  <2> QED
    BY <1>1, <1>2, <1>4, <1>5, <2>1, <2>3, <2>5, <2>6, StmtBuilt
<1>6. CASE ~em.emit
  <2>1. em' = em
    BY <1>2, <1>6 DEF Emit
  <2>2. Extends(em.code, d) /\ Len(d) = Len(em.code)
    BY <2>1, <1>4 DEF Extends, Same
  <2> QED
    BY <1>1, <1>2, <1>4, <1>6, <2>2, StmtBuilt
<1> QED
  BY <1>5, <1>6

LEMMA ExitBuilt ==
  ASSUME IInv, Compiled, ExitStmt
  PROVE  Compiled'
<1>1. Ready /\ wants = TRUE
  BY SizeIs, WeightIs DEF ExitStmt, Kinds
<1>2. em \in Emitter /\ em' = Emit(em, [op |-> "EXIT"]) /\ made' = <<[k |-> "exit"]>>
      /\ UNCHANGED <<todo, breaks>> /\ wants' = FALSE
  BY <1>1, ReadyIs DEF ExitStmt, Whole, Done
<1>w. PICK w \in WordSet : w = [op |-> "EXIT"]
  BY ExitIs
<1>3. em' \in Emitter
  BY <1>2, <1>w, EmitTyped
<1>4. PICK d \in Seq(WordSet) : d = em'.code
  BY <1>3, EmitterIs
<1>5. CASE em.emit
  <2>1. PICK I, B : I = Settled(d, todo, breaks) /\ B = Home(todo, Len(todo), breaks)
    OBVIOUS
  <2>2. /\ Here(em') = Here(em) + 1 /\ em'.code[Here(em) + 1] = w /\ Extends(em.code, em'.code)
    <3>1. PICK g : g = em'
      OBVIOUS
    <3>2. /\ Here(g) = Here(em) + 1 /\ g.code[Here(em) + 1] = w /\ Extends(em.code, g.code)
      BY <1>2, <1>5, <1>w, <3>1, WordEmitted
    <3> QED
      BY <3>1, <3>2
  <2>3. Extends(em.code, d) /\ Len(d) = Len(em.code) + 1 /\ d[Here(em) + 1].op = "EXIT"
    BY <2>2, <1>4, <1>w DEF Here
  <2>4. Here(em) \in I /\ Here(em) \in Nat
    <3>1. Here(em) \in Span(Len(em.code), Len(d)) /\ Here(em) \in Nat
      BY <2>3, <1>2, EmitterIs DEF Span, Here
    <3> QED
      BY <3>1, <1>1, <2>1, NewSettled
  <2>5. Means(d, I, B, {Here(em)}, Len(d), <<[k |-> "exit"]>>)
    BY <2>3, <2>4, ExitMeans
  <2> QED
    BY <1>1, <1>2, <1>4, <1>5, <2>1, <2>3, <2>5, StmtBuilt DEF Here
<1>6. CASE ~em.emit
  <2>1. em' = em
    BY <1>2, <1>6 DEF Emit
  <2>2. Extends(em.code, d) /\ Len(d) = Len(em.code)
    BY <2>1, <1>4 DEF Extends, Same
  <2> QED
    BY <1>1, <1>2, <1>4, <1>6, <2>2, StmtBuilt
<1> QED
  BY <1>5, <1>6

LEMMA NullBuilt ==
  ASSUME IInv, Compiled, NullStmt
  PROVE  Compiled'
<1>1. Ready /\ wants = TRUE
  BY DEF NullStmt, IInv, Typed
<1>2. em \in Emitter /\ em' = em /\ made' = << >>
      /\ UNCHANGED <<todo, breaks>> /\ wants' = FALSE
  BY <1>1, ReadyIs DEF NullStmt, Done
<1>4. PICK d \in Seq(WordSet) : d = em.code
  BY <1>2, EmitterIs
<1>5. PICK I, B, a : I = Settled(d, todo, breaks) /\ B = Home(todo, Len(todo), breaks) /\ a = Len(d)
  OBVIOUS
<1>6. Means(d, I, B, {a}, a, << >>)
  <2>1. a \in Nat
    BY <1>5
  <2>2. \A m \in Machine : m.ip \in {a} => \E v \in Machine : v.ip = a /\ Reaches(d, I, m, v)
    BY ReachesSelf
  <2> QED
    BY <2>1, <2>2, NothingMeans
<1>7. Extends(em.code, d) /\ Len(d) = Len(em.code)
  BY <1>4 DEF Extends, Same
<1> QED
  BY <1>1, <1>2, <1>4, <1>5, <1>6, <1>7, StmtBuilt

\* A break is noted: it is of the innermost loop, the i-th construct.
LEMMA BreakAdds ==
  ASSUME NEW s, IsStack(s), NEW i \in 1 .. Len(s), IsLoop(s[i]), s[i].prev \in Nat,
         \A j \in i + 1 .. Len(s) : s[j].k \notin Loops,
         NEW bs \in Seq(Nat), s[i].prev <= Len(bs), NEW p \in Nat, NEW u, u = Append(bs, p),
         \A q \in Held(s, bs) : q < p, Apart(s, bs)
  PROVE  /\ Apart(s, u) /\ p \in Home(s, Len(s), u)
         /\ \A q \in Held(s, u) : q \in Held(s, bs) \/ q = p
         /\ \A j \in 0 .. Len(s) : Home(s, j, bs) \subseteq Home(s, j, u)
<1>u. /\ Len(bs) \in Nat /\ Len(u) = Len(bs) + 1 /\ u[Len(u)] = p
      /\ \A b \in 1 .. Len(bs) : u[b] = bs[b] /\ b \in 1 .. Len(u)
      /\ \A b \in 1 .. Len(u) : b \in 1 .. Len(bs) \/ b = Len(u)
  OBVIOUS
<1>s. Len(s) \in Nat
  BY DEF IsStack
<1>1. BreakOf(s, i, Len(u))
  <2>1. s[i].prev < Len(u)
    BY <1>u
  <2>2. \A j \in i + 1 .. Len(s) : ~IsLoop(s[j])
    BY DEF IsLoop, Loops
  <2> QED
    BY <2>1, <2>2 DEF BreakOf
<1>2. ASSUME NEW j \in 1 .. Len(s), j # i
      PROVE  ~BreakOf(s, j, Len(u))
  <2>1. CASE j < i
    <3>1. i \in j + 1 .. Len(s)
      BY <1>s, <2>1
    <3>2. ~(Len(u) <= s[i].prev)
      BY <1>u
    <3> QED
      BY <3>1, <3>2 DEF BreakOf
  <2>2. CASE ~(j < i)
    <3>1. j \in i + 1 .. Len(s)
      BY <1>s, <1>2, <2>2
    <3> QED
      BY <3>1 DEF BreakOf, IsLoop, Loops
  <2> QED
    BY <2>1, <2>2
<1>3. ASSUME NEW j \in 1 .. Len(s)
      PROVE  \A q \in Nat : q \in Owned(s, j, u) <=>
                q \in Owned(s, j, bs) \/ (j = i /\ s[i].live /\ q = p)
  <2>1. ASSUME NEW q \in Nat
        PROVE  (\E b \in 1 .. Len(u) : BreakOf(s, j, b) /\ s[j].live /\ q = u[b]) <=>
                 \/ \E b \in 1 .. Len(bs) : BreakOf(s, j, b) /\ s[j].live /\ q = bs[b]
                 \/ BreakOf(s, j, Len(u)) /\ s[j].live /\ q = p
    <3>1. Len(u) \in 1 .. Len(u)
      BY <1>u
    <3> QED
      BY <3>1, <1>u
  <2>2. BreakOf(s, j, Len(u)) <=> j = i
    BY <1>1, <1>2
  <2> QED
    BY <2>1, <2>2 DEF Owned
<1>4. \A q \in Held(s, u) : q \in Held(s, bs) \/ q = p
  BY <1>3 DEF Held
<1>5. Apart(s, u)
  <2>1. ASSUME NEW j \in 1 .. Len(s), NEW l \in 1 .. Len(s), j # l,
               NEW q \in Owned(s, j, u), q \in Owned(s, l, u)
        PROVE  FALSE
    <3>1. q \in Nat
      BY DEF Owned
    <3>2. q \in Owned(s, j, bs) \/ (j = i /\ q = p)
      BY <1>3, <3>1
    <3>3. q \in Owned(s, l, bs) \/ (l = i /\ q = p)
      BY <1>3, <2>1, <3>1
    <3>4. ~(q \in Owned(s, j, bs) /\ q \in Owned(s, l, bs))
      BY <2>1 DEF Apart
    <3>5. q = p => q \notin Owned(s, j, bs) /\ q \notin Owned(s, l, bs)
      <4>1. q \in Owned(s, j, bs) \/ q \in Owned(s, l, bs) => q < p
        BY <3>1 DEF Held
      <4> QED
        BY <4>1, <3>1
    <3> QED
      BY <2>1, <3>2, <3>3, <3>4, <3>5
  <2>2. \A j \in 1 .. Len(s) : Tidy(s[j])
    BY DEF Apart
  <2> QED
    BY <2>1, <2>2 DEF Apart
<1>6. p \in Home(s, Len(s), u)
  <2>1. Len(u) \in 1 .. Len(u)
    BY <1>u
  <2> QED
    BY <2>1, <1>1, <1>u DEF Home
<1>7. ASSUME NEW j \in 0 .. Len(s)
      PROVE  Home(s, j, bs) \subseteq Home(s, j, u)
  <2>1. \A l, q : (\E b \in 1 .. Len(bs) : BreakOf(s, l, b) /\ q = bs[b]) =>
                     \E b \in 1 .. Len(u) : BreakOf(s, l, b) /\ q = u[b]
    BY <1>u
  <2>2. ASSUME NEW q \in Home(s, j, bs) PROVE q \in Home(s, j, u)
    <3>1. PICK l \in 1 .. j :
             /\ IsLoop(s[l]) /\ \A k \in l + 1 .. j : s[k].k \notin Loops
             /\ \E b \in 1 .. Len(bs) : BreakOf(s, l, b) /\ q = bs[b]
      BY <2>2 DEF Home
    <3>2. q \in Nat /\ \E b \in 1 .. Len(u) : BreakOf(s, l, b) /\ q = u[b]
      BY <2>1, <3>1 DEF Home
    <3> QED
      BY <3>1, <3>2 DEF Home
  <2> QED
    BY <2>2
<1> QED
  BY <1>4, <1>5, <1>6, <1>7

LEMMA BranchHere ==
  ASSUME NEW e \in Emitter, e.emit, NEW op \in Branches, NEW to \in Int,
         NEW f, f = EmitBranch(e, op, to)
  PROVE  Here(f) = Here(e) + BranchSize /\ f.code[Here(e) + 1].op = op
BY BranchEmitted

LEMMA BreakBuilt ==
  ASSUME IInv, Compiled, BreakStmt
  PROVE  Compiled'
<1>s. SUFFICES ASSUME orderly'
               PROVE  Compiled'
  BY DEF Compiled
<1>1. Ready /\ wants = TRUE /\ inLoop
  BY SizeIs, WeightIs DEF BreakStmt, Kinds
<1>2. /\ Innermost.k # "repeat" /\ em.emit = Innermost.live /\ Len(breaks) < MaxBreaks
      /\ UNCHANGED todo /\ wants' = FALSE /\ made' = <<[k |-> "break"]>>
  BY <1>s DEF BreakStmt, Whole, Done
<1>r. /\ em \in Emitter /\ em.code \in Seq(WordSet) /\ StackOK(todo) /\ Len(todo) > 0
      /\ IsStack(todo) /\ breaks \in Seq(Nat) /\ em.emit \in BOOLEAN
  BY <1>1, ReadyIs
<1>m. /\ Base(em.code, todo, breaks, inLoop) /\ (Live(todo) <=> em.emit)
      /\ Built(em.code, todo, breaks, TRUE, made)
      /\ \A p \in Held(todo, breaks) : p < Len(em.code)
  BY <1>1, ReadyMore
<1>3. PICK f : f = EmitBranch(em, "BR", 0)
  OBVIOUS
<1>4. em' = f /\ breaks' = Append(breaks, BranchAt(f))
  <2>1. ~(Len(breaks) >= MaxBreaks)
    <3>1. MaxBreaks \in Nat /\ Len(breaks) \in Nat
      BY <1>r, CodegenAssumption
    <3> QED
      BY <3>1, <1>2
  <2> QED
    BY <2>1, <1>3 DEF BreakStmt
<1>5. PICK p : p = Here(em)
  OBVIOUS
<1>6. /\ f \in Emitter /\ p \in Nat /\ p = Len(em.code) /\ BranchAt(f) = p
      /\ Extends(em.code, f.code)
      /\ ~em.emit => Here(f) = p
  <2>0. p \in Nat /\ p = Len(em.code)
    BY <1>r, <1>5, EmitterIs DEF Here
  <2>1. CASE em.emit
    <3>1. "BR" \in Branches /\ 0 \in Int
      BY DEF Branches
    <3>2. f \in Emitter /\ BranchAt(f) = Here(em) /\ Extends(em.code, f.code)
      BY <1>r, <1>3, <2>1, <3>1, BranchEmitted
    <3> QED
      BY <2>0, <2>1, <3>2, <1>5
  <2>2. CASE ~em.emit
    <3>1. f = em
      BY <1>3, <2>2 DEF EmitBranch, Emit
    <3>2. Extends(em.code, em.code)
      BY DEF Extends, Same
    <3> QED
      BY <2>0, <2>2, <3>1, <3>2, <1>5, <1>r DEF BranchAt
  <2> QED
    BY <2>1, <2>2
<1>7. PICK i \in 1 .. Len(todo) :
        /\ Innermost = todo[i] /\ todo[i].k \in Loops
        /\ \A j \in i + 1 .. Len(todo) : todo[j].k \notin Loops
  <2>1. \E j \in 1 .. Len(todo) : todo[j].k \in Loops
    <3>1. \E j \in 1 .. Len(todo) : IsLoop(todo[j])
      BY <1>m, <1>1 DEF Base, LoopsOK
    <3> QED
      BY <3>1 DEF IsLoop, Loops
  <2> QED
    BY <1>r, <2>1, InnermostIs
<1>8. IsLoop(todo[i]) /\ todo[i].prev \in Nat /\ todo[i].prev <= Len(breaks)
  <2>1. IsLoop(todo[i])
    BY <1>2, <1>7 DEF Loops, IsLoop
  <2>2. FrameOK(todo[i])
    BY <1>r DEF StackOK
  <2>3. LoopOK(todo, i, breaks)
    BY <1>m, <2>1 DEF Base, LoopsOK
  <2> QED
    BY <2>1, <2>2, <2>3 DEF FrameOK, LoopOK
<1>9. PICK c, d, s, bs, u, J, m :
        /\ c = em.code /\ d = f.code /\ s = todo /\ bs = breaks /\ u = Append(bs, p)
        /\ J = Settled(d, s, u) /\ m = <<[k |-> "break"]>>
  OBVIOUS
<1>10. /\ Apart(s, u) /\ p \in Home(s, Len(s), u)
       /\ \A q \in Held(s, u) : q \in Held(s, bs) \/ q = p
       /\ \A j \in 0 .. Len(s) : Home(s, j, bs) \subseteq Home(s, j, u)
  <2>1. Apart(s, bs)
    BY <1>m, <1>9 DEF Built
  <2>2. \A q \in Held(s, bs) : q < p
    BY <1>m, <1>6, <1>9
  <2> QED
    BY <1>r, <1>6, <1>7, <1>8, <1>9, <2>1, <2>2, BreakAdds
<1>11. HoldsOn(c, s, bs, s, u)
  <2>1. p >= Len(c)
    BY <1>6, <1>9
  <2> QED
    BY <1>10, <2>1 DEF HoldsOn
<1>12. c \in Seq(WordSet) /\ d \in Seq(WordSet) /\ Changes(c, d, {})
  <2>1. c \in Seq(WordSet) /\ d \in Seq(WordSet) /\ Extends(c, d)
    BY <1>6, <1>9, <1>r, EmitterIs
  <2> QED
    BY <2>1, ExtendsChanges
<1>13. IF Live(s) THEN Means(d, J, Home(s, Len(s), u), {Len(c)}, Len(d), m) ELSE Len(d) = Len(c)
  <2>1. Means(d, J, Home(s, Len(s), u), {p}, Len(d), <<[k |-> "break"]>>)
    BY <1>10, BreakMeans
  <2>2. Live(s) <=> em.emit
    BY <1>m, <1>9
  <2>3. ~em.emit => Len(d) = Len(c)
    BY <1>6, <1>9 DEF Here
  <2> QED
    BY <2>1, <2>2, <2>3, <1>6, <1>9
<1>15. Spreads(d, s, bs, s, u)
  <2>1. ASSUME NEW q \in Waiting(s, u), q \notin Waiting(s, bs)
        PROVE  q < Len(d) /\ d[q + 1].op = "BR"
    <3>u. Len(u) = Len(bs) + 1 /\ u[Len(bs) + 1] = p /\ Len(bs) \in Nat
          /\ \A b \in 1 .. Len(bs) : u[b] = bs[b]
      BY <1>6, <1>9, <1>r
    <3>1. PICK j \in 1 .. Len(s), b \in 1 .. Len(u) : BreakOf(s, j, b) /\ s[j].live /\ q = u[b]
      BY <2>1 DEF Waiting
    <3>2. b = Len(bs) + 1
      <4>1. SUFFICES ASSUME b \in 1 .. Len(bs) PROVE FALSE
        BY <3>u
      <4> QED
        BY <4>1, <2>1, <3>1, <3>u DEF Waiting
    <3>3. q = p
      BY <3>1, <3>2, <3>u
    <3>4. j = i
      <4>1. CASE j < i
        <5>1. i \in j + 1 .. Len(s)
          BY <1>9, <4>1
        <5>2. b <= s[i].prev
          BY <5>1, <3>1, <1>8, <1>9 DEF BreakOf
        <5> QED
          BY <5>2, <3>2, <3>u, <1>8, <1>9
      <4>2. CASE j > i
        <5>1. j \in i + 1 .. Len(s)
          BY <1>9, <4>2
        <5> QED
          BY <5>1, <1>7, <1>9, <3>1 DEF BreakOf, IsLoop, Loops
      <4> QED
        BY <4>1, <4>2, <1>9
    <3>5. em.emit
      BY <3>1, <3>4, <1>2, <1>7, <1>9
    <3>6. PICK op \in Branches, to \in Int : op = "BR" /\ to = 0 /\ f = EmitBranch(em, op, to)
      BY <1>3 DEF Branches
    <3>7. Here(f) = Here(em) + BranchSize /\ f.code[Here(em) + 1].op = op
      <4>1. PICK e \in Emitter : e = em /\ e.emit
        BY <1>r, <3>5
      <4>2. op \in Branches /\ to \in Int /\ f = EmitBranch(e, op, to)
        BY <3>6, <4>1
      <4>3. Here(f) = Here(e) + BranchSize /\ f.code[Here(e) + 1].op = op
        BY <4>1, <4>2, BranchHere
      <4> QED
        BY <4>1, <4>3
    <3>8. Len(d) = p + 2 /\ d[p + 1].op = "BR"
      BY <3>6, <3>7, <1>5, <1>9 DEF Here, BranchSize
    <3> QED
      BY <3>3, <3>8, <1>6
  <2> QED
    BY <2>1 DEF Spreads
<1>14. Built(d, s, u, FALSE, m)
  <2>1. Built(c, s, bs, TRUE, made) /\ StackOK(s) /\ Len(s) > 0
    BY <1>m, <1>r, <1>9
  <2> QED
    BY <1>9, <1>10, <1>11, <1>12, <1>13, <1>15, <2>1, BuiltSame
<1> QED
  BY <1>2, <1>4, <1>6, <1>9, <1>14 DEF Compiled

LEMMA PushBuilt ==
  ASSUME IInv, Compiled, Ready, wants = TRUE, NEW d \in Seq(WordSet), d = em'.code,
         NEW f, todo' = Append(todo, f), UNCHANGED breaks, IsLoop(f) => f.prev = Len(breaks),
         Extends(em.code, d), Tidy(f), \A p \in Own(f, breaks) : p >= Len(em.code),
         Wants(wants', f), Waits(f) = {},
         IF em.emit
         THEN Part(d, Settled(d, todo', breaks), Home(todo, Len(todo), breaks),
                   Inner(todo, f, breaks), f, Len(em.code), Len(d))
         ELSE Len(d) = Len(em.code)
  PROVE  Compiled'
<1>1. PICK c, s, t, bs, I, J, m, w :
        /\ c = em.code /\ s = todo /\ t = todo' /\ bs = breaks /\ I = Settled(c, s, bs)
        /\ J = Settled(d, t, bs) /\ m = made' /\ w = wants'
  OBVIOUS
<1>2. /\ c \in Seq(WordSet) /\ StackOK(s) /\ IsStack(s) /\ bs \in Seq(Nat)
  BY <1>1, ReadyIs
<1>3. /\ Live(s) <=> em.emit
      /\ Built(c, s, bs, TRUE, made)
      /\ \A p \in Held(s, bs) : p < Len(c)
  BY <1>1, ReadyMore
<1>4. Changes(c, d, {})
  BY <1>1, <1>2, ExtendsChanges
<1>5. On(t, s, f)
  BY <1>1, <1>2, Pushed
<1>6. IF Live(s) THEN Part(d, J, Home(s, Len(s), bs), Inner(s, f, bs), f, Len(c), Len(d))
      ELSE Len(d) = Len(c)
  BY <1>1, <1>3
<1>7. (IsLoop(f) => f.prev = Len(bs)) /\ (\A p \in Own(f, bs) : p >= Len(c)) /\ Wants(w, f)
  BY <1>1
<1>8. Tidy(f) /\ \A p \in Held(s, bs) : p < Len(c)
  BY <1>3
<1>10. Spreads(d, s, bs, t, bs)
  <2>1. /\ Below(f, bs) = bs /\ (IsLoop(f) => f.prev \in 0 .. Len(bs))
        /\ IsLoop(f) => ToSet(Late(bs, f.prev)) = {}
    BY <1>2, <1>7, BelowAll
  <2>2. Waiting(t, bs) = Waiting(s, bs) \cup Mine(f, bs)
    BY <1>2, <1>5, <2>1, WaitingOn
  <2>3. Mine(f, bs) = {}
    BY <2>1 DEF Mine
  <2> QED
    BY <2>2, <2>3 DEF Spreads
<1>9. Built(d, t, bs, w, m)
  <2>1. I = Settled(c, s, bs) /\ J = Settled(d, t, bs)
    BY <1>1
  <2>2. c \in Seq(WordSet) /\ d \in Seq(WordSet) /\ StackOK(s) /\ bs \in Seq(Nat)
    BY <1>2
  <2>3. Built(c, s, bs, TRUE, made)
    BY <1>3
  <2> QED
    BY <2>1, <2>2, <2>3, <1>4, <1>5, <1>6, <1>7, <1>8, <1>10, BuiltPush
<1> QED
  BY <1>1, <1>9 DEF Compiled

LEMMA SameExtends == \A c : Len(c) \in Nat => Extends(c, c)
BY DEF Extends, Same

LEMMA HereMeans ==
  ASSUME NEW d, NEW I, NEW B, NEW a \in Nat
  PROVE  Means(d, I, B, {a}, a, << >>)
<1>1. \A m \in Machine : m.ip \in {a} => \E v \in Machine : v.ip = a /\ Reaches(d, I, m, v)
  BY ReachesSelf
<1> QED
  BY <1>1, NothingMeans

LEMMA BeginBuilt ==
  ASSUME IInv, Compiled, BeginStmt
  PROVE  Compiled'
<1>1. Ready /\ wants = TRUE
  BY SizeIs, WeightIs DEF BeginStmt, Kinds
<1>2. PICK f : f = [k |-> "begin", list |-> << >>]
  OBVIOUS
<1>3. em' = em /\ todo' = Append(todo, f) /\ UNCHANGED breaks /\ Wants(wants', f)
  BY <1>2 DEF BeginStmt, Begin, Wants
<1>4. PICK d \in Seq(WordSet) : d = em.code
  BY <1>1, ReadyIs
<1>5. /\ f.k = "begin" /\ ~IsLoop(f) /\ Own(f, breaks) = {} /\ Tidy(f)
  BY <1>2 DEF IsLoop, Own, Sites, IsCase, Tidy
<1>w. Waits(f) = {}
  BY <1>5 DEF Waits, IsCase
<1>6. PICK I, B, D, a : I = Settled(d, todo', breaks) /\ B = Home(todo, Len(todo), breaks)
                        /\ D = Inner(todo, f, breaks) /\ a = Len(d)
  OBVIOUS
<1>7. Part(d, I, B, D, f, a, a)
  <2>1. Means(d, I, B, {a}, a, << >>)
    BY <1>6, HereMeans
  <2>2. f.list = << >>
    BY <1>2
  <2> QED
    BY <1>5, <2>1, <2>2 DEF Part
<1>8. Extends(em.code, d)
  BY <1>4, SameExtends
<1> QED
  BY <1>1, <1>3, <1>4, <1>5, <1>6, <1>7, <1>8, <1>w, PushBuilt

LEMMA RepeatBuilt ==
  ASSUME IInv, Compiled, RepeatStmt
  PROVE  Compiled'
<1>1. Ready /\ wants = TRUE
  BY SizeIs, WeightIs DEF RepeatStmt, Kinds
<1>2. PICK f : f = [k |-> "repeat", n |-> size, head |-> Here(em), live |-> em.emit,
                    list |-> << >>]
  OBVIOUS
<1>3. em' = em /\ todo' = Append(todo, f) /\ UNCHANGED breaks /\ Wants(wants', f)
  BY <1>2 DEF RepeatStmt, Begin, Wants
<1>4. PICK d \in Seq(WordSet) : d = em.code
  BY <1>1, ReadyIs
<1>5. /\ f.k = "repeat" /\ ~IsLoop(f) /\ Own(f, breaks) = {} /\ Tidy(f)
  BY <1>2 DEF IsLoop, Own, Sites, IsCase, Tidy
<1>w. Waits(f) = {}
  BY <1>5 DEF Waits, IsCase
<1>6. PICK I, B, D, a : I = Settled(d, todo', breaks) /\ B = Home(todo, Len(todo), breaks)
                        /\ D = Inner(todo, f, breaks) /\ a = Len(d)
  OBVIOUS
<1>7. Part(d, I, B, D, f, a, a)
  <2>1. Means(d, I, D, {a}, a, << >>)
    BY <1>6, HereMeans
  <2>2. f.list = << >> /\ f.head = a
    BY <1>2, <1>4, <1>6 DEF Here
  <2> QED
    BY <1>5, <2>1, <2>2 DEF Part
<1>8. Extends(em.code, d)
  BY <1>4, SameExtends
<1> QED
  BY <1>1, <1>3, <1>4, <1>5, <1>6, <1>7, <1>8, <1>w, PushBuilt

\* No arm yet.
LEMMA NoArmFalls ==
  ASSUME NEW c, NEW I, NEW B, NEW a, NEW P, NEW X, NEW n
  PROVE  Falls(c, I, B, a, {a}, P, X, n, << >>)
<1>1. IsSeq(<< >>)
  BY SingleIs
<1>2. \A more : IsSeq(more) => << >> \o more = more
  BY <1>1, CatIs
<1> QED
  BY <1>1, <1>2 DEF Falls

LEMMA CaseBuilt ==
  ASSUME IInv, Compiled, NEW const \in BOOLEAN, CaseStmt(const)
  PROVE  Compiled'
<1>1. Ready /\ wants = TRUE
  BY SizeIs, WeightIs DEF CaseStmt, Kinds
<1>2. PICK f : f = [k |-> "case", n |-> size, const |-> const, last |-> em.emit,
                    emitted |-> FALSE, outs |-> << >>, arms |-> << >>, list |-> << >>]
  OBVIOUS
<1>3. em' = em /\ todo' = Append(todo, f) /\ UNCHANGED breaks /\ wants' = FALSE
  BY <1>2 DEF CaseStmt, Done
<1>4. PICK d \in Seq(WordSet) : d = em.code
  BY <1>1, ReadyIs
<1>5. /\ f.k = "case" /\ ~IsLoop(f) /\ Own(f, breaks) = {} /\ Tidy(f)
  <2>1. f.k = "case" /\ f.outs = << >>
    BY <1>2
  <2>2. \A p : p \notin ToSet(<< >>)
    BY DEF ToSet
  <2>3. Sites(f) = {}
    BY <2>1, <2>2 DEF Sites, IsLoop
  <2> QED
    BY <2>1, <2>3 DEF IsLoop, Own, Tidy
<1>w. Waits(f) = {}
  <2>1. f.k = "case" /\ f.outs = << >>
    BY <1>2
  <2>2. \A p : p \notin ToSet(<< >>)
    BY DEF ToSet
  <2> QED
    BY <2>1, <2>2 DEF Waits
<1>6. PICK I, B, D, a : I = Settled(d, todo', breaks) /\ B = Home(todo, Len(todo), breaks)
                        /\ D = Inner(todo, f, breaks) /\ a = Len(d)
  OBVIOUS
<1>7. Part(d, I, B, D, f, a, a)
  <2>1. f.arms = << >> /\ f.emitted = FALSE /\ f.list = << >>
    BY <1>2
  <2>2. \A P, X : Falls(d, I, B, a, {a}, P, X, f.n, << >>)
    BY NoArmFalls
  <2>3. ArmsFall(d, I, B, f, f.arms, f.emitted, a, a)
    BY <2>1, <2>2 DEF ArmsFall
  <2> QED
    BY <1>5, <2>1, <2>3 DEF Part
<1>8. Extends(em.code, d)
  BY <1>4, SameExtends
<1>9. Wants(wants', f)
  BY <1>3, <1>5 DEF Wants
<1> QED
  BY <1>1, <1>3, <1>4, <1>5, <1>6, <1>7, <1>8, <1>9, <1>w, PushBuilt

\* A compiler that does not emit.
LEMMA QuietIs ==
  ASSUME NEW e \in Emitter, ~e.emit
  PROVE  /\ \A w : Emit(e, w) = e
         /\ \A op, to : EmitBranch(e, op, to) = e
         /\ \A c, n, side : Operand(e, c, n, side) = e
         /\ \A c, n, side, sense : BranchIf(e, c, n, side, sense) = e
         /\ \A from, to : Patch(e, from, to) = e
<1>1. \A w : Emit(e, w) = e
  BY DEF Emit
<1>2. \A op, to : EmitBranch(e, op, to) = e
  BY <1>1 DEF EmitBranch
<1>3. \A n, side, neg : Test(e, n, side, neg) = e /\ Load(e, n, side, neg) = e
  BY <1>1 DEF Test, Load
<1>4. \A c, n, side : Operand(e, c, n, side) = e
  BY <1>3 DEF Operand
<1>5. \A c, n, side, sense : BranchIf(e, c, n, side, sense) = e
  BY <1>1, <1>2, <1>3 DEF BranchIf
<1>6. \A from, to : Patch(e, from, to) = e
  BY DEF Patch
<1> QED
  BY <1>1, <1>2, <1>4, <1>5, <1>6

LEMMA QuietExpr ==
  ASSUME NEW e \in Emitter, ~e.emit, NEW c, NEW n, NEW f, f = Expr(e, c, n)
  PROVE  f \in Emitter /\ ~f.emit /\ f.code = e.code
<1>1. CASE ~Compound(c)
  BY <1>1, QuietIs DEF Expr
<1>2. CASE Compound(c)
  <2>1. PICK left, skip : left = Operand(e, c.l, n, 1) /\ skip = (c.k = "or")
    OBVIOUS
  <2>2. left = e
    BY <2>1, QuietIs
  <2>3. PICK gate : gate = [left EXCEPT !.emit = @ /\ ~Literal(c.l, skip)]
    OBVIOUS
  <2>4. gate \in Emitter /\ ~gate.emit /\ gate.code = e.code
    BY <2>2, <2>3 DEF Emitter
  <2>5. PICK jump : jump = BranchIf(gate, c.l, n, 1, skip)
    OBVIOUS
  <2>6. jump = gate
    BY <2>4, <2>5, QuietIs
  <2>7. PICK right : right = Operand(jump, c.r, n, 2)
    OBVIOUS
  <2>8. right = gate
    BY <2>4, <2>6, <2>7, QuietIs
  <2>9. PatchToCurrent(right, BranchAt(jump)) = gate
    BY <2>4, <2>8, QuietIs DEF PatchToCurrent
  <2>10. f = [PatchToCurrent(right, BranchAt(jump)) EXCEPT !.emit = e.emit]
    BY <1>2, <2>1, <2>3, <2>5, <2>7 DEF Expr
  <2>11. f = [gate EXCEPT !.emit = e.emit]
    BY <2>9, <2>10
  <2> QED
    BY <2>4, <2>11, EmitterIs DEF Emitter
<1> QED
  BY <1>1, <1>2

\* The condition of an IF or a WHILE, and the branch behind it.
LEMMA GatedHas ==
  ASSUME NEW A, NEW e, Sound(e, A), e.emit, NEW c \in Conditions, NEW n \in Nat,
         NEW y, y = Gated(e, c, n)
  PROVE  /\ y \in Emitter /\ (y.emit <=> ~Never(c))
         /\ ~Never(c) => HasExpr(e, y, c, n)
         /\ \E x : HasExpr(e, x, c, n) /\ x.code = y.code
<1>1. c \in SimpleConditions \cup CompoundConditions /\ Never(c) \in BOOLEAN
  BY CostIs
<1>2. PICK x : x = Expr(e, c, n)
  OBVIOUS
<1>3. HasExpr(e, x, c, n)
  BY <1>1, <1>2, ExprHas
<1>4. x \in Emitter /\ x.emit
  BY <1>3 DEF HasExpr
<1>5. y = [x EXCEPT !.emit = @ /\ ~Never(c)]
  BY <1>2 DEF Gated
<1>6. y \in Emitter /\ (y.emit <=> ~Never(c)) /\ y.code = x.code
  BY <1>1, <1>4, <1>5 DEF Emitter
<1>7. ~Never(c) => HasExpr(e, y, c, n)
  BY <1>3, <1>6 DEF HasExpr, Here
<1> QED
  BY <1>3, <1>6, <1>7

LEMMA QuietGated ==
  ASSUME NEW e \in Emitter, ~e.emit, NEW c, NEW n, NEW y, y = Gated(e, c, n)
  PROVE  y \in Emitter /\ ~y.emit /\ y.code = e.code
<1>1. PICK x : x = Expr(e, c, n)
  OBVIOUS
<1>2. x \in Emitter /\ ~x.emit /\ x.code = e.code
  BY <1>1, QuietExpr
<1>3. y = [x EXCEPT !.emit = @ /\ ~Never(c)]
  BY <1>1 DEF Gated
<1> QED
  BY <1>2, <1>3 DEF Emitter

\* What a literal decides, and what the branch behind the condition decides.
LEMMA DecidedTests ==
  ASSUME NEW e \in Emitter, NEW c \in Conditions, NEW n \in Nat, ShortCircuits(c),
         NEW x, HasExpr(e, x, c, n), NEW I, Span(Here(e), Here(x)) \subseteq I,
         NEW a, a = Here(e), NEW b, b = Here(x)
  PROVE  /\ Always(c) => Tests(x.code, I, {a}, {b}, {}, c, n, 1)
         /\ Never(c) => Tests(x.code, I, {a}, {}, {b}, c, n, 1)
<1>1. c \in SimpleConditions \cup CompoundConditions
  BY CostIs
<1>k. PICK K, O : K = {b} /\ O = {}
  OBVIOUS
<1>2. PICK yes, no \in BOOLEAN : yes = TRUE /\ no = FALSE /\ K = {b} /\ O = {}
  BY <1>k
<1>3. ASSUME Always(c)
      PROVE  Tests(x.code, I, {a}, K, O, c, n, 1)
  <2>1. Literal(Result(c), yes)
    BY <1>2, <1>3 DEF Always
  <2>2. Here(x) \in (IF yes THEN K ELSE O)
    BY <1>2
  <2> QED
    BY <1>1, <2>1, <2>2, CondDone
<1>4. ASSUME Never(c)
      PROVE  Tests(x.code, I, {a}, O, K, c, n, 1)
  <2>1. Literal(Result(c), no)
    BY <1>2, <1>4 DEF Never
  <2>2. Here(x) \in (IF no THEN O ELSE K)
    BY <1>2
  <2> QED
    BY <1>1, <2>1, <2>2, CondDone
<1> QED
  BY <1>2, <1>3, <1>4

LEMMA BranchWaits ==
  ASSUME NEW e \in Emitter, NEW c \in Conditions, NEW n \in Nat, ShortCircuits(c),
         NEW y, HasExpr(e, y, c, n), NEW g, g = BranchUnless(y, c, n),
         NEW I, Span(Here(e), BranchAt(g)) \subseteq I
  PROVE  /\ TestWaits(g.code, I, Here(e), Here(g), BranchAt(g), c, n, 1)
         /\ g \in Emitter /\ g.emit /\ Extends(e.code, g.code)
         /\ BranchAt(g) \in Nat /\ Here(e) <= BranchAt(g) /\ Here(g) = BranchAt(g) + 2
<1>1. c \in SimpleConditions \cup CompoundConditions
  BY CostIs
<1>2. PICK r \in SimpleConditions, side \in Nat : r = Result(c) /\ side = Side(c)
  BY <1>1, ConditionIs
<1>3. y \in Emitter /\ y.emit
  BY DEF HasExpr
<1>4. g = BranchIf(y, r, n, side, FALSE)
  BY <1>2 DEF BranchUnless
<1>5. HasUnless(y, g, r, n, side)
  BY <1>3, <1>4, UnlessEmits
<1>6. HasUnless(y, g, Result(c), n, Side(c))
  BY <1>2, <1>5
<1> QED
  BY <1>1, <1>6, CondWaits

LEMMA PushSettled ==
  ASSUME IInv, Compiled, Ready, NEW f, todo' = Append(todo, f),
         IsLoop(f) => f.prev = Len(breaks), \A p \in Own(f, breaks) : p >= Len(em.code),
         NEW d \in Seq(WordSet), Extends(em.code, d)
  PROVE  \A p \in Span(Len(em.code), Len(d)) :
           p \notin Own(f, breaks) => p \in Settled(d, todo', breaks)
<1>1. PICK c, s, t, bs, I, J :
        /\ c = em.code /\ s = todo /\ t = todo' /\ bs = breaks /\ I = Settled(c, s, bs)
        /\ J = Settled(d, t, bs)
  OBVIOUS
<1>2. /\ c \in Seq(WordSet) /\ IsStack(s) /\ bs \in Seq(Nat)
  BY <1>1, ReadyIs
<1>3. \A p \in Held(s, bs) : p < Len(c)
  BY <1>1, ReadyMore
<1>4. Changes(c, d, {})
  BY <1>1, <1>2, ExtendsChanges
<1>5. On(t, s, f)
  BY <1>1, <1>2, Pushed
<1>6. (IsLoop(f) => f.prev = Len(bs)) /\ (\A p \in Own(f, bs) : p >= Len(c))
  BY <1>1
<1>7. \A p \in Span(Len(c), Len(d)) : p \notin Own(f, bs) => p \in J
  BY <1>1, <1>2, <1>3, <1>4, <1>5, <1>6, PushGrows
<1> QED
  BY <1>1, <1>7

LEMMA IfBuilt ==
  ASSUME IInv, Compiled, NEW c \in Conditions, IfStmt(c)
  PROVE  Compiled'
<1>s. SUFFICES ASSUME orderly'
               PROVE  Compiled'
  BY DEF Compiled
<1>1. Ready /\ size \in Nat /\ wants = TRUE
  BY SizeIs, CostIs DEF IfStmt, Kinds
<1>r. /\ em \in Emitter /\ em.code \in Seq(WordSet) /\ Here(em) \in Nat /\ Here(em) = Len(em.code)
      /\ Sound(em, Waiting(todo, breaks)) /\ em.emit \in BOOLEAN
  BY <1>1, ReadyIs DEF Here
<1>2. PICK from : from = IF Unknown(c) THEN BranchAt(IfHead(c)) ELSE 0
  OBVIOUS
<1>3. PICK f : f = [k |-> "then", n |-> size, c |-> c, last |-> em.emit, from |-> from, yes |-> << >>]
  OBVIOUS
<1>4. /\ em' = IfHead(c) /\ todo' = Append(todo, f) /\ UNCHANGED breaks /\ Wants(wants', f)
      /\ ShortCircuits(c)
  BY <1>s, <1>1, <1>2, <1>3 DEF IfStmt, Wants
<1>5. PICK y : y = Gated(em, c, size)
  OBVIOUS
<1>6. IfHead(c) = IF Unknown(c) THEN BranchUnless(y, c, size) ELSE y
  BY <1>5 DEF IfHead, Gated
<1>f. /\ f.k = "then" /\ f.c = c /\ f.n = size /\ f.from = from /\ ~IsLoop(f) /\ Tidy(f)
      /\ \A p : p \in Own(f, breaks) <=> p \in Nat /\ Unknown(c) /\ em.emit /\ p = from
  BY <1>3 DEF IsLoop, Tidy, Own, Sites, IsCase
<1>w. Waits(f) = {}
  BY <1>f DEF Waits, IsCase
<1>7. CASE ~em.emit
  <2>1. y \in Emitter /\ ~y.emit /\ y.code = em.code
    BY <1>r, <1>5, <1>7, QuietGated
  <2>u. BranchUnless(y, c, size) = y
    <3>1. \A x, n, side, sense : BranchIf(y, x, n, side, sense) = y
      BY <2>1, QuietIs
    <3> QED
      BY <3>1 DEF BranchUnless
  <2>2. em'.code = em.code
    BY <2>1, <2>u, <1>4, <1>6
  <2>3. PICK d \in Seq(WordSet) : d = em'.code
    BY <2>2, <1>r
  <2>4. Extends(em.code, d) /\ Len(d) = Len(em.code)
    BY <2>2, <2>3, <1>r, SameExtends
  <2>5. \A p \in Own(f, breaks) : p >= Len(em.code)
    BY <1>f, <1>7
  <2> QED
    BY <1>1, <1>4, <1>f, <1>7, <2>3, <2>4, <2>5, <1>w, PushBuilt
<1>8. CASE em.emit
  <2>g. /\ y \in Emitter /\ (y.emit <=> ~Never(c))
        /\ ~Never(c) => HasExpr(em, y, c, size)
        /\ \E x : HasExpr(em, x, c, size) /\ x.code = y.code
    BY <1>r, <1>1, <1>5, <1>8, GatedHas
  <2>1. CASE Unknown(c)
    <3>1. PICK g : g = BranchUnless(y, c, size)
      OBVIOUS
    <3>2. em' = g /\ from = BranchAt(g)
      BY <1>2, <1>4, <1>6, <2>1, <3>1
    <3>3. HasExpr(em, y, c, size)
      BY <2>g, <2>1 DEF Unknown
    <3>4. PICK I : I = Span(Here(em), BranchAt(g))
      OBVIOUS
    <3>5. /\ TestWaits(g.code, I, Here(em), Here(g), BranchAt(g), c, size, 1)
          /\ g \in Emitter /\ g.emit /\ Extends(em.code, g.code)
          /\ BranchAt(g) \in Nat /\ Here(em) <= BranchAt(g) /\ Here(g) = BranchAt(g) + 2
      <4>1. PICK e \in Emitter, z \in Nat : e = em /\ z = size
        BY <1>1, <1>4, <1>r
      <4>2. /\ c \in Conditions /\ ShortCircuits(c) /\ HasExpr(e, y, c, z)
            /\ g = BranchUnless(y, c, z) /\ Span(Here(e), BranchAt(g)) \subseteq I
        BY <1>1, <1>4, <1>r, <3>1, <3>3, <3>4, <4>1
      <4>3. /\ TestWaits(g.code, I, Here(e), Here(g), BranchAt(g), c, z, 1)
            /\ g \in Emitter /\ g.emit /\ Extends(e.code, g.code)
            /\ BranchAt(g) \in Nat /\ Here(e) <= BranchAt(g) /\ Here(g) = BranchAt(g) + 2
        BY <4>2, BranchWaits, ZenonT(60)
      <4> QED
        BY <4>1, <4>3
    <3>6. PICK d \in Seq(WordSet) : d = em'.code
      BY <3>2, <3>5, EmitterIs
    <3>7. \A p \in Own(f, breaks) : p >= Len(em.code)
      BY <1>f, <1>r, <3>2, <3>5
    <3>8. I \subseteq Settled(d, todo', breaks)
      <4>1. \A p \in Span(Len(em.code), Len(d)) :
               p \notin Own(f, breaks) => p \in Settled(d, todo', breaks)
        BY <1>1, <1>4, <1>f, <3>2, <3>5, <3>6, <3>7, PushSettled
      <4>2. \A p \in I : p \in Span(Len(em.code), Len(d)) /\ p # from
        <5>1. Len(d) = Here(g)
          BY <3>2, <3>6 DEF Here
        <5>2. \A p \in Here(em) .. BranchAt(g) - 1 :
                p \in Here(em) .. Here(g) - 1 /\ p # BranchAt(g)
          BY <3>5, <1>r
        <5> QED
          BY <3>2, <3>4, <5>1, <5>2, <1>r DEF Span
      <4> QED
        BY <4>1, <4>2, <1>f
    <3>9. PICK J, B, D, a, b :
             /\ J = Settled(d, todo', breaks) /\ B = Home(todo, Len(todo), breaks)
             /\ D = Inner(todo, f, breaks) /\ a = Len(em.code) /\ b = Len(d)
      OBVIOUS
    <3>10. TestWaits(d, J, a, b, from, c, size, 1)
      <4>1. d = g.code /\ a = Here(em) /\ b = Here(g)
        BY <1>r, <3>2, <3>6, <3>9 DEF Here
      <4>2. Grows(d, I, d, J) /\ Len(d) \in Nat
        BY <3>8, <3>9 DEF Grows, Agree
      <4>3. TestWaits(d, I, a, b, from, c, size, 1)
        BY <3>2, <3>5, <4>1
      <4> QED
        BY <4>2, <4>3, WaitsStays
    <3>11. Part(d, J, B, D, f, a, b)
      BY <1>f, <2>1, <3>10 DEF Part, ThenPart, Unknown
    <3> QED
      BY <1>1, <1>4, <1>f, <1>8, <3>2, <3>5, <3>6, <3>7, <3>9, <3>11, <1>w, PushBuilt
  <2>2. CASE ~Unknown(c)
    <3>1. em' = y
      BY <1>4, <1>6, <2>2
    <3>2. PICK x : HasExpr(em, x, c, size) /\ x.code = y.code
      BY <2>g
    <3>3. PICK d \in Seq(WordSet) : d = em'.code
      BY <3>1, <2>g, EmitterIs
    <3>4. d = x.code /\ Extends(em.code, d)
      BY <3>1, <3>2, <3>3 DEF HasExpr
    <3>5. PICK J, B, D, a, b :
             /\ J = Settled(d, todo', breaks) /\ B = Home(todo, Len(todo), breaks)
             /\ D = Inner(todo, f, breaks) /\ a = Len(em.code) /\ b = Len(d)
      OBVIOUS
    <3>6. a = Here(em) /\ b = Here(x)
      BY <3>4, <3>5 DEF Here
    <3>7. \A p \in Own(f, breaks) : p >= Len(em.code)
      BY <1>f, <2>2
    <3>8. Span(a, b) \subseteq J
      BY <1>1, <1>4, <1>f, <2>2, <3>3, <3>4, <3>5, <3>7, PushSettled
    <3>9. /\ Always(c) => Tests(d, J, {a}, {b}, {}, c, size, 1)
          /\ Never(c) => Tests(d, J, {a}, {}, {b}, c, size, 1)
      BY <1>1, <1>4, <1>r, <3>2, <3>4, <3>6, <3>8, DecidedTests
    <3>10. Part(d, J, B, D, f, a, b)
      BY <1>f, <2>2, <3>9 DEF Part, ThenPart
    <3> QED
      BY <1>1, <1>4, <1>f, <1>8, <3>3, <3>4, <3>5, <3>7, <3>10, <1>w, PushBuilt
  <2> QED
    BY <2>1, <2>2
<1> QED
  BY <1>7, <1>8

LEMMA WhileBuilt ==
  ASSUME IInv, Compiled, NEW c \in Conditions, WhileStmt(c)
  PROVE  Compiled'
<1>s. SUFFICES ASSUME orderly'
               PROVE  Compiled'
  BY DEF Compiled
<1>1. Ready /\ size \in Nat /\ wants = TRUE
  BY SizeIs, CostIs DEF WhileStmt, Kinds
<1>r. /\ em \in Emitter /\ em.code \in Seq(WordSet) /\ Here(em) \in Nat /\ Here(em) = Len(em.code)
      /\ Sound(em, Waiting(todo, breaks)) /\ em.emit \in BOOLEAN /\ breaks \in Seq(Nat)
  BY <1>1, ReadyIs DEF Here
<1>2. PICK g : g = WhileHead(c)
  OBVIOUS
<1>3. PICK f : f = [k |-> "while", c |-> c, n |-> size, head |-> Here(em), exit |-> BranchAt(g),
                    last |-> em.emit, live |-> g.emit,
                    prev |-> Len(breaks), was |-> inLoop]
  OBVIOUS
<1>4. /\ em' = g /\ todo' = Append(todo, f) /\ UNCHANGED breaks /\ Wants(wants', f)
      /\ ShortCircuits(c)
  <2>1. em' = g /\ LoopBody("while", c, Here(em), BranchAt(g)) /\ ShortCircuits(c)
    BY <1>s, <1>2 DEF WhileStmt
  <2> QED
    BY <2>1, <1>1, <1>3 DEF LoopBody, Wants
<1>5. PICK y : y = Gated(em, c, size)
  OBVIOUS
<1>6. g = BranchUnless(y, c, size)
  BY <1>2, <1>5 DEF WhileHead, Gated
<1>f. /\ f.k = "while" /\ f.c = c /\ f.n = size /\ f.exit = BranchAt(g) /\ f.live = g.emit
      /\ f.head = Here(em) /\ IsLoop(f) /\ Tidy(f) /\ f.prev = Len(breaks)
      /\ \A p : p \in Own(f, breaks) => p \in Nat /\ g.emit /\ p = BranchAt(g)
  <2>1. /\ f.k = "while" /\ f.c = c /\ f.n = size /\ f.exit = BranchAt(g) /\ f.live = g.emit
        /\ f.head = Here(em) /\ IsLoop(f) /\ Tidy(f) /\ f.prev = Len(breaks)
    BY <1>3 DEF IsLoop, Tidy
  <2>2. ToSet(Late(breaks, f.prev)) = {}
    BY <2>1, <1>r, BelowAll
  <2>3. \A p : p \in Sites(f) => p \in Nat /\ g.emit /\ p = BranchAt(g)
    BY <2>1 DEF Sites, IsCase
  <2> QED
    BY <2>1, <2>2, <2>3 DEF Own
<1>w. Waits(f) = {}
  BY <1>f DEF Waits, IsCase
<1>7. CASE ~em.emit
  <2>1. y \in Emitter /\ ~y.emit /\ y.code = em.code
    BY <1>r, <1>5, <1>7, QuietGated
  <2>u. BranchUnless(y, c, size) = y
    <3>1. \A x, n, side, sense : BranchIf(y, x, n, side, sense) = y
      BY <2>1, QuietIs
    <3> QED
      BY <3>1 DEF BranchUnless
  <2>2. em'.code = em.code /\ ~g.emit
    BY <2>1, <2>u, <1>4, <1>6
  <2>3. PICK d \in Seq(WordSet) : d = em'.code
    BY <2>2, <1>r
  <2>4. Extends(em.code, d) /\ Len(d) = Len(em.code)
    BY <2>2, <2>3, <1>r, SameExtends
  <2>5. \A p \in Own(f, breaks) : p >= Len(em.code)
    BY <1>f, <2>2
  <2> QED
    BY <1>1, <1>4, <1>f, <1>7, <2>3, <2>4, <2>5, <1>w, PushBuilt
<1>8. CASE em.emit
  <2>g. /\ y \in Emitter /\ (y.emit <=> ~Never(c))
        /\ ~Never(c) => HasExpr(em, y, c, size)
        /\ \E x : HasExpr(em, x, c, size) /\ x.code = y.code
    BY <1>r, <1>1, <1>5, <1>8, GatedHas
  <2>1. CASE ~Never(c)
    <3>3. HasExpr(em, y, c, size)
      BY <2>g, <2>1
    <3>4. PICK I : I = Span(Here(em), BranchAt(g))
      OBVIOUS
    <3>5. /\ TestWaits(g.code, I, Here(em), Here(g), BranchAt(g), c, size, 1)
          /\ g \in Emitter /\ g.emit /\ Extends(em.code, g.code)
          /\ BranchAt(g) \in Nat /\ Here(em) <= BranchAt(g) /\ Here(g) = BranchAt(g) + 2
      <4>1. ShortCircuits(c) /\ em \in Emitter /\ size \in Nat
        BY <1>1, <1>4, <1>r
      <4>2. Span(Here(em), BranchAt(g)) \subseteq I
        BY <3>4
      <4> QED
        BY <4>1, <4>2, <1>6, <3>3, BranchWaits
    <3>6. PICK d \in Seq(WordSet) : d = em'.code
      BY <1>4, <3>5, EmitterIs
    <3>7. \A p \in Own(f, breaks) : p >= Len(em.code)
      BY <1>f, <1>r, <3>5
    <3>8. I \subseteq Settled(d, todo', breaks)
      <4>1. \A p \in Span(Len(em.code), Len(d)) :
               p \notin Own(f, breaks) => p \in Settled(d, todo', breaks)
        BY <1>1, <1>4, <1>f, <3>5, <3>6, <3>7, PushSettled
      <4>2. \A p \in I : p \in Span(Len(em.code), Len(d)) /\ p # BranchAt(g)
        <5>1. Len(d) = Here(g)
          BY <1>4, <3>6 DEF Here
        <5>2. \A p \in Here(em) .. BranchAt(g) - 1 :
                p \in Here(em) .. Here(g) - 1 /\ p # BranchAt(g)
          BY <3>5, <1>r
        <5> QED
          BY <3>4, <5>1, <5>2, <1>r DEF Span
      <4> QED
        BY <4>1, <4>2, <1>f
    <3>9. PICK J, B, D, a, b :
             /\ J = Settled(d, todo', breaks) /\ B = Home(todo, Len(todo), breaks)
             /\ D = Inner(todo, f, breaks) /\ a = Len(em.code) /\ b = Len(d)
      OBVIOUS
    <3>10. TestWaits(d, J, a, b, BranchAt(g), c, size, 1)
      <4>1. d = g.code /\ a = Here(em) /\ b = Here(g)
        BY <1>r, <1>4, <3>6, <3>9 DEF Here
      <4>2. Grows(d, I, d, J) /\ Len(d) \in Nat
        BY <3>8, <3>9 DEF Grows, Agree
      <4>3. TestWaits(d, I, a, b, BranchAt(g), c, size, 1)
        BY <3>5, <4>1
      <4> QED
        BY <4>2, <4>3, WaitsStays
    <3>11. Part(d, J, B, D, f, a, b)
      <4>1. f.head = a
        BY <1>f, <1>r, <3>9
      <4> QED
        BY <4>1, <1>f, <2>1, <3>10 DEF Part, WhilePart
    <3> QED
      BY <1>1, <1>4, <1>f, <1>8, <3>5, <3>6, <3>7, <3>9, <3>11, <1>w, PushBuilt
  <2>2. CASE Never(c)
    <3>0. BranchUnless(y, c, size) = y
      <4>1. \A x, n, side, sense : BranchIf(y, x, n, side, sense) = y
        BY <2>g, <2>2, QuietIs
      <4> QED
        BY <4>1 DEF BranchUnless
    <3>1. em' = y /\ ~g.emit
      BY <1>4, <1>6, <2>2, <2>g, <3>0
    <3>2. PICK x : HasExpr(em, x, c, size) /\ x.code = y.code
      BY <2>g
    <3>3. PICK d \in Seq(WordSet) : d = em'.code
      BY <3>1, <2>g, EmitterIs
    <3>4. d = x.code /\ Extends(em.code, d)
      BY <3>1, <3>2, <3>3 DEF HasExpr
    <3>5. PICK J, B, D, a, b :
             /\ J = Settled(d, todo', breaks) /\ B = Home(todo, Len(todo), breaks)
             /\ D = Inner(todo, f, breaks) /\ a = Len(em.code) /\ b = Len(d)
      OBVIOUS
    <3>6. a = Here(em) /\ b = Here(x)
      BY <3>4, <3>5 DEF Here
    <3>7. Own(f, breaks) = {}
      BY <1>f, <3>1
    <3>8. Span(a, b) \subseteq J
      BY <1>1, <1>4, <1>f, <3>3, <3>4, <3>5, <3>7, PushSettled
    <3>9. Tests(d, J, {a}, {}, {b}, c, size, 1)
      BY <1>1, <1>4, <1>r, <2>2, <3>2, <3>4, <3>6, <3>8, DecidedTests
    <3>10. Part(d, J, B, D, f, a, b)
      <4>1. f.head = a
        BY <1>f, <3>6
      <4> QED
        BY <4>1, <1>f, <2>2, <3>9 DEF Part, WhilePart
    <3> QED
      BY <1>1, <1>4, <1>f, <1>8, <3>3, <3>4, <3>5, <3>7, <3>10, <1>w, PushBuilt
  <2> QED
    BY <2>1, <2>2
<1> QED
  BY <1>7, <1>8

\* A FOR counter's first value and its bound.
LEMMA InitsMean ==
  ASSUME NEW e \in Emitter, e.emit, NEW n \in Nat, NEW e1, e1 = Emit(e, ActWord(n, "init")),
         NEW e2, e2 = Emit(e1, ActWord(n, "bound")), NEW d, Extends(e2.code, d),
         NEW J, Here(e) \in J, Here(e) + 1 \in J, NEW B
  PROVE  /\ e2 \in Emitter /\ e2.emit /\ Here(e2) = Here(e) + 2 /\ Extends(e.code, e2.code)
         /\ Means(d, J, B, {Here(e)}, Here(e2), Inits(n))
<1>1. PICK a, b, x : a = Here(e) /\ b = Here(e1) /\ x = Here(e2)
  OBVIOUS
<1>2. HasEvent(e, e1, n, "init", {a}, B)
  BY <1>1, ActMeans
<1>3. e1 \in Emitter /\ e1.emit /\ b = a + 1 /\ Extends(e.code, e1.code) /\ a \in Nat
      /\ Means(e1.code, {a}, B, {a}, b, <<Act(n, "init")>>)
  BY <1>1, <1>2, EmitterIs DEF HasEvent
<1>4. HasEvent(e1, e2, n, "bound", {b}, B)
  BY <1>1, <1>3, ActMeans
<1>5. e2 \in Emitter /\ e2.emit /\ x = b + 1 /\ Extends(e1.code, e2.code)
      /\ Means(e2.code, {b}, B, {b}, x, <<Act(n, "bound")>>)
  BY <1>1, <1>4 DEF HasEvent
<1>6. e.code \in Seq(WordSet) /\ e1.code \in Seq(WordSet) /\ e2.code \in Seq(WordSet)
      /\ Len(e1.code) = b /\ Len(e2.code) = x
  BY <1>1, <1>3, <1>5, EmitterIs DEF Here
<1>7. Extends(e.code, e2.code)
  BY <1>3, <1>5, <1>6, ExtendsOn
<1>8. d[a + 1] = e1.code[a + 1] /\ d[b + 1] = e2.code[b + 1]
  <2>1. \A i \in 0 + 1 .. x : d[i] = e2.code[i]
    BY <1>6 DEF Extends, Same
  <2>2. \A i \in 0 + 1 .. b : e2.code[i] = e1.code[i]
    BY <1>5, <1>6 DEF Extends, Same
  <2>3. a + 1 \in 0 + 1 .. b /\ a + 1 \in 0 + 1 .. x /\ b + 1 \in 0 + 1 .. x
    BY <1>3, <1>5
  <2> QED
    BY <2>1, <2>2, <2>3
<1>9. Means(d, J, B, {a}, b, <<Act(n, "init")>>)
  <2>1. {a} \subseteq J /\ B \subseteq B /\ \A p \in {a} : d[p + 1] = e1.code[p + 1]
    BY <1>1, <1>8
  <2> QED
    BY <1>3, <2>1, MeansStays
<1>10. Means(d, J, B, {b}, x, <<Act(n, "bound")>>)
  <2>1. {b} \subseteq J /\ B \subseteq B /\ \A p \in {b} : d[p + 1] = e2.code[p + 1]
    BY <1>1, <1>3, <1>8
  <2> QED
    BY <1>5, <2>1, MeansStays
<1>11. Means(d, J, B, {a}, x, <<Act(n, "init")>> \o <<Act(n, "bound")>>)
  BY <1>9, <1>10, SeqMeans
<1>12. Inits(n) = <<Act(n, "init")>> \o <<Act(n, "bound")>>
  BY TwoAre DEF Inits
<1> QED
  BY <1>1, <1>3, <1>5, <1>7, <1>11, <1>12

LEMMA ForBuilt ==
  ASSUME IInv, Compiled, ForStmt
  PROVE  Compiled'
<1>1. Ready /\ size \in Nat /\ wants = TRUE
  BY SizeIs, WeightIs DEF ForStmt, Kinds
<1>r. /\ em \in Emitter /\ em.code \in Seq(WordSet) /\ Here(em) \in Nat /\ Here(em) = Len(em.code)
      /\ em.emit \in BOOLEAN /\ breaks \in Seq(Nat)
  BY <1>1, ReadyIs DEF Here
<1>c. Counter \in SimpleConditions /\ ~Compound(Counter) /\ Result(Counter) = Counter
      /\ Side(Counter) = 1
  BY CounterIs, SimpleIs DEF Result, Side
<1>2. PICK e1, e2, y, g : /\ e1 = Emit(em, ActWord(size, "init"))
                          /\ e2 = Emit(e1, ActWord(size, "bound"))
                          /\ y = Operand(e2, Counter, size, 1)
                          /\ g = BranchUnless(y, Counter, size)
  OBVIOUS
<1>3. PICK f : f = [k |-> "for", c |-> Counter, n |-> size, head |-> Here(e2), exit |-> BranchAt(g),
                    last |-> em.emit, live |-> g.emit,
                    prev |-> Len(breaks), was |-> inLoop]
  OBVIOUS
<1>4. em' = g /\ todo' = Append(todo, f) /\ UNCHANGED breaks /\ Wants(wants', f)
  <2>1. em' = g /\ LoopBody("for", Counter, Here(e2), BranchAt(g))
    BY <1>2 DEF ForStmt
  <2> QED
    BY <2>1, <1>1, <1>3 DEF LoopBody, Wants
<1>6. g = BranchIf(y, Counter, size, 1, FALSE)
  BY <1>2, <1>c DEF BranchUnless
<1>f. /\ f.k = "for" /\ f.c = Counter /\ f.n = size /\ f.exit = BranchAt(g) /\ f.live = g.emit
      /\ f.head = Here(e2) /\ IsLoop(f) /\ Tidy(f) /\ f.prev = Len(breaks)
      /\ \A p : p \in Own(f, breaks) => p \in Nat /\ g.emit /\ p = BranchAt(g)
  <2>1. /\ f.k = "for" /\ f.c = Counter /\ f.n = size /\ f.exit = BranchAt(g) /\ f.live = g.emit
        /\ f.head = Here(e2) /\ IsLoop(f) /\ Tidy(f) /\ f.prev = Len(breaks)
    BY <1>3 DEF IsLoop, Tidy
  <2>2. ToSet(Late(breaks, f.prev)) = {}
    BY <2>1, <1>r, BelowAll
  <2>3. \A p : p \in Sites(f) => p \in Nat /\ g.emit /\ p = BranchAt(g)
    BY <2>1 DEF Sites, IsCase
  <2> QED
    BY <2>1, <2>2, <2>3 DEF Own
<1>w. Waits(f) = {}
  BY <1>f DEF Waits, IsCase
<1>7. CASE ~em.emit
  <2>1. g = em
    <3>1. /\ \A w : Emit(em, w) = em
          /\ \A c, n, side : Operand(em, c, n, side) = em
          /\ \A c, n, side, sense : BranchIf(em, c, n, side, sense) = em
      BY <1>r, <1>7, QuietIs
    <3> QED
      BY <3>1, <1>2, <1>6
  <2>3. PICK d \in Seq(WordSet) : d = em'.code
    BY <2>1, <1>r, <1>4
  <2>4. Extends(em.code, d) /\ Len(d) = Len(em.code)
    BY <2>1, <2>3, <1>r, <1>4, SameExtends
  <2>5. \A p \in Own(f, breaks) : p >= Len(em.code)
    BY <1>f, <2>1, <1>7
  <2> QED
    BY <1>1, <1>4, <1>f, <1>7, <2>3, <2>4, <2>5, <1>w, PushBuilt
<1>8. CASE em.emit
  <2>i. e2 \in Emitter /\ e2.emit /\ Here(e2) = Here(em) + 2 /\ Extends(em.code, e2.code)
    <3>2. PICK w1 \in WordSet, w2 \in WordSet : w1 = ActWord(size, "init") /\ w2 = ActWord(size, "bound")
      BY <1>1, ActIs
    <3>3. e1 \in Emitter /\ e1.emit /\ Here(e1) = Here(em) + 1 /\ Extends(em.code, e1.code)
      BY <1>r, <1>8, <1>2, <3>2, WordEmitted
    <3>4. e2 \in Emitter /\ e2.emit /\ Here(e2) = Here(e1) + 1 /\ Extends(e1.code, e2.code)
      BY <1>2, <3>2, <3>3, WordEmitted
    <3>5. Extends(em.code, e2.code)
      BY <1>r, <3>3, <3>4, EmitterIs, ExtendsOn
    <3> QED
      BY <3>3, <3>4, <3>5, <1>r
  <2>y. HasOperand(e2, y, Counter, size, 1)
    BY <2>i, <1>1, <1>2, <1>c, OperandHas
  <2>g. HasUnless(y, g, Counter, size, 1)
    <3>1. y \in Emitter /\ y.emit
      BY <2>y DEF HasOperand
    <3> QED
      BY <3>1, <1>1, <1>6, <1>c, UnlessEmits
  <2>I. PICK I : I = Span(Here(e2), BranchAt(g))
    OBVIOUS
  <2>5. /\ TestWaits(g.code, I, Here(e2), Here(g), BranchAt(g), Counter, size, 1)
        /\ g \in Emitter /\ g.emit /\ Extends(e2.code, g.code)
        /\ BranchAt(g) \in Nat /\ Here(e2) <= BranchAt(g) /\ Here(g) = BranchAt(g) + 2
    <3>1. Span(Here(e2), BranchAt(g)) \subseteq I
      BY <2>I
    <3> QED
      BY <3>1, <2>i, <2>y, <2>g, <1>1, <1>c, SimpleWaits
  <2>6. PICK d \in Seq(WordSet) : d = em'.code
    BY <1>4, <2>5, EmitterIs
  <2>e. Extends(em.code, d) /\ d = g.code
    <3>1. em.code \in Seq(WordSet) /\ e2.code \in Seq(WordSet) /\ g.code \in Seq(WordSet)
      BY <1>r, <2>i, <2>5, EmitterIs
    <3> QED
      BY <3>1, <2>i, <2>5, <2>6, <1>4, ExtendsOn
  <2>7. \A p \in Own(f, breaks) : p >= Len(em.code)
    BY <1>f, <1>r, <2>5, <2>i
  <2>8. Span(Here(em), BranchAt(g)) \subseteq Settled(d, todo', breaks)
    <4>1. \A p \in Span(Len(em.code), Len(d)) :
             p \notin Own(f, breaks) => p \in Settled(d, todo', breaks)
      BY <1>1, <1>4, <1>f, <2>e, <2>7, PushSettled
    <4>2. \A p \in Span(Here(em), BranchAt(g)) : p \in Span(Len(em.code), Len(d)) /\ p # BranchAt(g)
      <5>1. Len(d) = Here(g)
        BY <2>e DEF Here
      <5>2. \A p \in Here(em) .. BranchAt(g) - 1 :
              p \in Here(em) .. Here(g) - 1 /\ p # BranchAt(g)
        BY <2>5, <1>r
      <5> QED
        BY <5>1, <5>2, <1>r DEF Span
    <4> QED
      BY <4>1, <4>2, <1>f
  <2>9. PICK J, B, D, a, b :
           /\ J = Settled(d, todo', breaks) /\ B = Home(todo, Len(todo), breaks)
           /\ D = Inner(todo, f, breaks) /\ a = Len(em.code) /\ b = Len(d)
    OBVIOUS
  <2>j. /\ I \subseteq J /\ Here(em) \in J /\ Here(em) + 1 \in J
    <3>1. \A p \in Here(em) .. BranchAt(g) - 1 : p \in J
      BY <2>8, <2>9 DEF Span
    <3>2. \A p \in Here(e2) .. BranchAt(g) - 1 : p \in Here(em) .. BranchAt(g) - 1
      BY <1>r, <2>i, <2>5
    <3>3. Here(em) \in Here(em) .. BranchAt(g) - 1 /\ Here(em) + 1 \in Here(em) .. BranchAt(g) - 1
      BY <1>r, <2>i, <2>5
    <3> QED
      BY <3>1, <3>2, <3>3, <2>I DEF Span
  <2>10. TestWaits(d, J, Here(e2), b, BranchAt(g), Counter, size, 1)
    <4>1. d = g.code /\ b = Here(g)
      BY <2>e, <2>9 DEF Here
    <4>2. Grows(d, I, d, J) /\ Len(d) \in Nat
      BY <2>j DEF Grows, Agree
    <4>3. TestWaits(d, I, Here(e2), b, BranchAt(g), Counter, size, 1)
      BY <2>5, <4>1
    <4> QED
      BY <4>2, <4>3, WaitsStays
  <2>11. Means(d, J, B, {a}, Here(e2), Inits(size))
    <4>1. Extends(e2.code, d)
      BY <2>5, <2>e
    <4>2. Means(d, J, B, {Here(em)}, Here(e2), Inits(size))
      BY <4>1, <1>r, <1>1, <1>2, <1>8, <2>j, InitsMean
    <4> QED
      BY <4>2, <2>9, <1>r
  <2>12. Part(d, J, B, D, f, a, b)
    BY <1>f, <2>10, <2>11 DEF Part, ForPart
  <2> QED
    BY <1>1, <1>4, <1>f, <1>8, <2>e, <2>6, <2>7, <2>9, <2>12, <1>w, PushBuilt
<1> QED
  BY <1>7, <1>8
=============================================================================
