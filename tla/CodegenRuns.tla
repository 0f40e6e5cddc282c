----------------------------- MODULE CodegenRuns -----------------------------
(***************************************************************************)
(* Compiled control statements do what the source says, for every program. *)
(*                                                                         *)
(* Each action that ends a construct or one of its parts keeps Built: the  *)
(* branches it patches were the only ones the meaning of that construct    *)
(* still waited for.  So when the program is compiled its code means what  *)
(* the source says, and the VM, which may be ahead of the source by words  *)
(* that show nothing (ReachesOne), never shows another event than the      *)
(* source's next (InStep).                                                 *)
(***************************************************************************)
EXTENDS CodegenMeaning

-----------------------------------------------------------------------------
(* Statements inside have been compiled *)

\* What is known when the statement inside the innermost construct is compiled.
LEMMA TopReady ==
  ASSUME IInv, Compiled, NEW k, After(k)
  PROVE  /\ Base(em.code, todo, breaks, inLoop) /\ Built(em.code, todo, breaks, FALSE, made)
         /\ StackOK(todo) /\ On(todo, Front(todo), Top) /\ breaks \in Seq(Nat)
         /\ em.code \in Seq(WordSet) /\ em \in Emitter /\ em.emit \in BOOLEAN
         /\ em.emit <=> Live(Front(todo)) /\ Runs(Top)
         /\ Apart(todo, breaks) /\ Top.k = k /\ FrameOK(Top) /\ Jumps(em.code, todo, breaks)
<1>1. Ready /\ wants = FALSE
  BY DEF After, IInv, Typed
<1>2. /\ Ready /\ Top.k = k /\ FrameOK(Top) /\ On(todo, Front(todo), Top)
      /\ em.emit <=> AllRun(Front(todo), Len(Front(todo))) /\ Runs(Top)
  BY AfterIs
<1>3. /\ Base(em.code, todo, breaks, inLoop) /\ Built(em.code, todo, breaks, wants, made)
  BY <1>1, ReadyMore
<1>4. /\ StackOK(todo) /\ breaks \in Seq(Nat) /\ em.code \in Seq(WordSet)
      /\ em \in Emitter /\ em.emit \in BOOLEAN
  BY <1>1, ReadyIs
<1>5. Apart(todo, breaks) /\ Jumps(em.code, todo, breaks)
  BY <1>3 DEF Built
<1>6. Built(em.code, todo, breaks, FALSE, made)
  BY <1>1, <1>3
<1> QED
  BY <1>2, <1>3, <1>4, <1>5, <1>6 DEF Live

\* The innermost construct becomes h, the code d.
Turned(h, d, P) ==
  /\ Become(h) /\ ~IsLoop(Top) /\ ~IsLoop(h) /\ UNCHANGED breaks
  /\ Changes(em.code, d, P) /\ P \subseteq Own(Top, breaks)
  /\ \A p \in Own(h, breaks) : p \in Own(Top, breaks) \/ p >= Len(em.code)
  /\ \A p \in Waits(h) : p \in Waits(Top) \/ (p < Len(d) /\ d[p + 1].op = "BR")
  /\ Tidy(h)
LEMMA TurnGrows ==
  ASSUME IInv, Compiled, NEW k, After(k), NEW h, NEW d \in Seq(WordSet), NEW P, Turned(h, d, P),
         NEW I, I = Settled(em.code, todo, breaks), NEW J, J = Settled(d, todo', breaks)
  PROVE  /\ Grows(em.code, I, d, J)
         /\ Span(Len(em.code), Len(d)) \ Own(h, breaks) \subseteq J
         /\ Own(Top, breaks) \ Own(h, breaks) \subseteq J
<1>1. PICK c, s, r, f, t, bs :
        /\ c = em.code /\ s = todo /\ r = Front(todo) /\ f = Top /\ t = todo' /\ bs = breaks
  OBVIOUS
<1>2. /\ Base(c, s, bs, inLoop) /\ On(s, r, f) /\ bs \in Seq(Nat) /\ c \in Seq(WordSet)
      /\ Apart(s, bs)
  BY <1>1, TopReady
<1>3. On(t, r, h)
  BY <1>1, <1>2, Pushed DEF On, Turned, Become
<1>4. /\ ~IsLoop(f) /\ ~IsLoop(h) /\ Changes(c, d, P) /\ P \subseteq Own(f, bs)
      /\ \A p \in Own(h, bs) : p \in Own(f, bs) \/ p >= Len(c)
      /\ Tidy(h)
  BY <1>1 DEF Turned
<1>5. I = Settled(c, s, bs) /\ J = Settled(d, t, bs)
  BY <1>1
<1>6. /\ Grows(c, I, d, J)
      /\ Span(Len(c), Len(d)) \ Own(h, bs) \subseteq J
      /\ Own(f, bs) \ Own(h, bs) \subseteq J
  BY <1>2, <1>3, <1>4, <1>5, ChangeGrows
<1> QED
  BY <1>1, <1>6

LEMMA TurnBuilt ==
  ASSUME IInv, Compiled, NEW k, After(k), NEW h, NEW d \in Seq(WordSet), d = em'.code,
         NEW P, Turned(h, d, P),
         NEW I, I = Settled(em.code, todo, breaks), NEW J, J = Settled(d, todo', breaks),
         Wants(wants', h),
         IF Live(Front(todo)) THEN Turns(em.code, I, d, J, Front(todo), Top, h, breaks, made)
         ELSE Len(d) = Len(em.code)
  PROVE  Compiled'
<1>1. PICK c, s, r, f, t, bs, m, w, n :
        /\ c = em.code /\ s = todo /\ r = Front(todo) /\ f = Top /\ t = todo' /\ bs = breaks
        /\ m = made /\ w = wants' /\ n = made'
  OBVIOUS
<1>2. /\ Base(c, s, bs, inLoop) /\ On(s, r, f) /\ bs \in Seq(Nat) /\ c \in Seq(WordSet)
      /\ StackOK(s) /\ Built(c, s, bs, FALSE, m)
  BY <1>1, TopReady
<1>3. On(t, r, h)
  BY <1>1, <1>2, Pushed DEF On, Turned, Become
<1>4. /\ ~IsLoop(f) /\ ~IsLoop(h) /\ Changes(c, d, P) /\ P \subseteq Own(f, bs)
      /\ \A p \in Own(h, bs) : p \in Own(f, bs) \/ p >= Len(c)
      /\ Tidy(h)
  BY <1>1 DEF Turned
<1>5. I = Settled(c, s, bs) /\ J = Settled(d, t, bs) /\ Wants(w, h)
  BY <1>1
<1>9. \A p \in Waits(h) : p \in Waits(f) \/ (p < Len(d) /\ d[p + 1].op = "BR")
  BY <1>1 DEF Turned
<1>6. IF Live(r) THEN Turns(c, I, d, J, r, f, h, bs, m) ELSE Len(d) = Len(c)
  BY <1>1
<1>7. Built(d, t, bs, w, n)
  BY <1>2, <1>3, <1>4, <1>5, <1>6, <1>9, BuiltChange, ZenonT(120)
<1>8. breaks' = bs
  BY <1>1 DEF Turned
<1> QED
  BY <1>1, <1>7, <1>8 DEF Compiled

\* The innermost construct is over.
Over(d) ==
  /\ todo' = Front(todo) /\ Len(Front(todo)) > 0
  /\ IsLoop(Top) => Top.prev \in 0 .. Len(breaks)
  /\ breaks' = Below(Top, breaks) /\ Changes(em.code, d, Own(Top, breaks))
LEMMA OverGrows ==
  ASSUME IInv, Compiled, NEW k, After(k), NEW d \in Seq(WordSet), Over(d),
         NEW I, I = Settled(em.code, todo, breaks),
         NEW J, J = Settled(d, Front(todo), Below(Top, breaks))
  PROVE  /\ Grows(em.code, I, d, J)
         /\ Span(Len(em.code), Len(d)) \subseteq J /\ Own(Top, breaks) \subseteq J
<1>1. PICK c, s, r, f, bs, u :
        /\ c = em.code /\ s = todo /\ r = Front(todo) /\ f = Top /\ bs = breaks
        /\ u = Below(f, bs)
  OBVIOUS
<1>2. /\ Base(c, s, bs, inLoop) /\ On(s, r, f) /\ bs \in Seq(Nat) /\ c \in Seq(WordSet)
      /\ Apart(s, bs)
  BY <1>1, TopReady
<1>4. (IsLoop(f) => f.prev \in 0 .. Len(bs)) /\ Changes(c, d, Own(f, bs))
  BY <1>1 DEF Over
<1>5. I = Settled(c, s, bs) /\ J = Settled(d, r, u) /\ u = Below(f, bs)
  BY <1>1
<1>6. /\ Grows(c, I, d, J) /\ Span(Len(c), Len(d)) \subseteq J /\ Own(f, bs) \subseteq J
  BY <1>2, <1>4, <1>5, PopGrows
<1> QED
  BY <1>1, <1>6

LEMMA OverBuilt ==
  ASSUME IInv, Compiled, NEW k, After(k), NEW d \in Seq(WordSet), d = em'.code, Over(d),
         NEW I, I = Settled(em.code, todo, breaks),
         NEW J, J = Settled(d, Front(todo), Below(Top, breaks)), wants' = FALSE,
         IF Live(Front(todo)) THEN Ends(em.code, I, d, J, Front(todo), Top, breaks, made, made')
         ELSE Len(d) = Len(em.code)
  PROVE  Compiled'
<1>1. PICK c, s, r, f, bs, u, m, n :
        /\ c = em.code /\ s = todo /\ r = Front(todo) /\ f = Top /\ bs = breaks
        /\ u = Below(f, bs) /\ m = made /\ n = made'
  OBVIOUS
<1>2. /\ Base(c, s, bs, inLoop) /\ On(s, r, f) /\ bs \in Seq(Nat) /\ c \in Seq(WordSet)
      /\ StackOK(s) /\ Built(c, s, bs, FALSE, m)
  BY <1>1, TopReady
<1>4. /\ (IsLoop(f) => f.prev \in 0 .. Len(bs)) /\ Changes(c, d, Own(f, bs)) /\ Len(r) > 0
  BY <1>1 DEF Over
<1>5. I = Settled(c, s, bs) /\ J = Settled(d, r, u) /\ u = Below(f, bs)
  BY <1>1
<1>6. IF Live(r) THEN Ends(c, I, d, J, r, f, bs, m, n) ELSE Len(d) = Len(c)
  BY <1>1
<1>7. Built(d, r, u, FALSE, n)
  BY <1>2, <1>4, <1>5, <1>6, BuiltPop
<1>8. breaks' = u /\ todo' = r
  BY <1>1 DEF Over
<1> QED
  BY <1>1, <1>7, <1>8 DEF Compiled

\* The Inner of what is no loop.
LEMMA InnerIs ==
  ASSUME NEW r, NEW f, ~IsLoop(f), NEW bs
  PROVE  Inner(r, f, bs) = IF f.k = "repeat" THEN {} ELSE Home(r, Len(r), bs)
BY DEF Inner

LEMMA ListPart ==
  ASSUME NEW c, NEW I, NEW B, NEW D, NEW f, f.k \in {"begin", "repeat", "otherwise"},
         f.k # "repeat" => D = B, NEW m, NEW a, NEW b, Inside(c, I, B, D, f, m, a, b),
         NEW h, h.k = f.k, h.n = f.n, h.head = f.head, h.const = f.const,
         h.emitted = f.emitted, h.outs = f.outs, h.arms = f.arms, h.list = f.list \o m
  PROVE  Part(c, I, B, D, h, a, Len(c))
<1>1. /\ Part(c, I, B, D, f, a, b)
      /\ IF ~Runs(f) THEN b = Len(c) ELSE Means(c, I, D, {b}, Len(c), m)
  BY DEF Inside
<1>r. f.k # "otherwise" => Runs(f)
  BY DEF Runs
<1>2. CASE f.k = "begin"
  <2>1. Means(c, I, B, {a}, b, f.list) /\ Means(c, I, B, {b}, Len(c), m)
    BY <1>1, <1>r, <1>2 DEF Part
  <2>2. Means(c, I, B, {a}, Len(c), f.list \o m)
    BY <2>1, SeqMeans
  <2> QED
    BY <1>2, <2>2 DEF Part
<1>3. CASE f.k = "repeat"
  <2>1. f.head = a /\ Means(c, I, D, {a}, b, f.list)
    BY <1>1, <1>3 DEF Part
  <2>2. Means(c, I, D, {a}, Len(c), f.list \o m)
    BY <1>1, <1>r, <1>3, <2>1, SeqMeans
  <2> QED
    BY <1>3, <2>1, <2>2 DEF Part
<1>4. CASE f.k = "otherwise"
  <2>1. OtherPart(c, I, B, f, a, b)
    BY <1>1, <1>4 DEF Part
  <2>2. PICK p : /\ ArmsFall(c, I, B, f, f.arms, f.emitted, a, p)
                 /\ IF f.const /\ f.emitted THEN p = b ELSE Means(c, I, B, {p}, b, f.list)
    BY <2>1 DEF OtherPart
  <2>r. Runs(f) <=> ~(f.const /\ f.emitted)
    BY <1>4 DEF Runs
  <2>4. ArmsFall(c, I, B, h, h.arms, h.emitted, a, p)
    BY <2>2 DEF ArmsFall
  <2>3. Runs(f) => Means(c, I, B, {p}, Len(c), h.list)
    <3>1. SUFFICES ASSUME Runs(f) PROVE Means(c, I, B, {p}, Len(c), f.list \o m)
      OBVIOUS
    <3>2. Means(c, I, B, {b}, Len(c), m) /\ Means(c, I, B, {p}, b, f.list)
      BY <1>1, <1>4, <2>2, <2>r, <3>1
    <3> QED
      BY <3>2, SeqMeans
  <2>5. IF h.const /\ h.emitted THEN p = Len(c) ELSE Means(c, I, B, {p}, Len(c), h.list)
    BY <1>1, <2>2, <2>r, <2>3
  <2>6. OtherPart(c, I, B, h, a, Len(c))
    BY <2>4, <2>5 DEF OtherPart
  <2> QED
    BY <1>4, <2>6 DEF Part
<1> QED
  BY <1>2, <1>3, <1>4

LEMMA SemicolonBuilt ==
  ASSUME IInv, Compiled, Semicolon
  PROVE  Compiled'
<1>1. PICK k \in {"begin", "repeat", "otherwise"} : After(k)
  BY DEF Semicolon
<1>2. /\ Top.k = k /\ FrameOK(Top) /\ em.code \in Seq(WordSet)
  BY <1>1, TopReady
<1>3. PICK h : h = [Top EXCEPT !.list = @ \o made]
  OBVIOUS
<1>4. Become(h) /\ UNCHANGED <<em, breaks>> /\ wants' = TRUE
  BY <1>3 DEF Semicolon
<1>5. /\ h.k = Top.k /\ h.n = Top.n /\ h.head = Top.head
      /\ h.last = Top.last /\ h.const = Top.const /\ h.emitted = Top.emitted
      /\ h.outs = Top.outs /\ h.arms = Top.arms /\ DOMAIN h = DOMAIN Top
      /\ h.live = Top.live
  BY <1>3
<1>6. h.list = Top.list \o made
  <2>1. "list" \in DOMAIN Top
    BY <1>1, <1>2 DEF FrameOK, IsCase
  <2> QED
    BY <1>3, <2>1
<1>7. ~IsLoop(Top) /\ ~IsLoop(h) /\ Tidy(h) /\ Wants(wants', h)
  BY <1>1, <1>2, <1>4, <1>5 DEF IsLoop, Tidy, Wants
<1>8. Own(h, breaks) = Own(Top, breaks)
  BY <1>1, <1>2, <1>5, <1>7 DEF Own, Sites, IsLoop, IsCase
<1>9. PICK d \in Seq(WordSet) : d = em'.code /\ d = em.code
  BY <1>2, <1>4
<1>w. Waits(h) = Waits(Top)
  BY <1>1, <1>2, <1>5 DEF Waits, IsCase
<1>10. Turned(h, d, {})
  BY <1>4, <1>7, <1>8, <1>9, <1>w DEF Turned, Changes
<1>11. PICK I, J : I = Settled(em.code, todo, breaks) /\ J = Settled(d, todo', breaks)
  OBVIOUS
<1>12. Grows(d, I, d, J)
  <2>1. Grows(em.code, I, d, J)
    BY <1>1, <1>10, <1>11, TurnGrows
  <2> QED
    BY <2>1, <1>9
<1>f. FrameOK(h)
  BY <1>1, <1>2, <1>5 DEF FrameOK, IsLoop, IsCase
<1>13. Turns(em.code, I, d, J, Front(todo), Top, h, breaks, made)
  <2>1. PICK r, B, D, m, f : /\ r = Front(todo) /\ B = Home(r, Len(r), breaks) /\ m = made
                             /\ D = Inner(r, Top, breaks) /\ f = Top
    OBVIOUS
  <2>2. Inner(r, h, breaks) = D /\ (f.k # "repeat" => D = B)
    BY <2>1, <1>5, <1>7, InnerIs
  <2>3. SUFFICES ASSUME NEW a \in Nat, NEW b \in Nat, Inside(d, I, B, D, f, m, a, b)
                 PROVE  Part(d, J, B, D, h, a, Len(d))
    BY <2>1, <2>2, <1>9 DEF Turns
  <2>4. Part(d, I, B, D, h, a, Len(d))
    <3>1. f.k \in {"begin", "repeat", "otherwise"}
      BY <1>2, <2>1
    <3>2. /\ h.k = f.k /\ h.n = f.n /\ h.head = f.head /\ h.const = f.const
          /\ h.emitted = f.emitted /\ h.outs = f.outs /\ h.arms = f.arms /\ h.list = f.list \o m
      BY <1>5, <1>6, <2>1
    <3> QED
      BY <2>2, <2>3, <3>1, <3>2, ListPart
  <2> QED
    BY <1>12, <1>f, <2>4, PartStays
<1> QED
  BY <1>1, <1>7, <1>9, <1>10, <1>11, <1>13, TurnBuilt

LEMMA ChangesSelf ==
  ASSUME NEW c \in Seq(WordSet), NEW P
  PROVE  Changes(c, c, P)
BY DEF Changes

LEMMA EndBeginBuilt ==
  ASSUME IInv, Compiled, EndBegin
  PROVE  Compiled'
<1>1. After("begin")
  BY DEF EndBegin
<1>2. /\ Top.k = "begin" /\ em.code \in Seq(WordSet) /\ On(todo, Front(todo), Top)
  BY <1>1, TopReady
<1>3. /\ UNCHANGED <<em, breaks>> /\ wants' = FALSE /\ made' = Top.list \o made
      /\ todo' = Front(todo) /\ Len(todo) > 1
  BY DEF EndBegin, Finish, Done
<1>4. ~IsLoop(Top) /\ Below(Top, breaks) = breaks
  BY <1>2 DEF IsLoop, Below
<1>5. PICK d \in Seq(WordSet) : d = em'.code /\ d = em.code
  BY <1>2, <1>3
<1>6. Over(d)
  <2>1. Changes(em.code, d, Own(Top, breaks))
    BY <1>2, <1>5, ChangesSelf
  <2>2. Len(Front(todo)) > 0
    BY <1>2, <1>3 DEF On, IsStack
  <2> QED
    BY <1>3, <1>4, <2>1, <2>2 DEF Over
<1>7. PICK I, J : /\ I = Settled(em.code, todo, breaks)
                  /\ J = Settled(d, Front(todo), Below(Top, breaks))
  OBVIOUS
<1>8. Agree(d, I, d, J)
  <2>1. Grows(em.code, I, d, J)
    BY <1>1, <1>6, <1>7, OverGrows
  <2> QED
    BY <2>1, <1>5 DEF Grows
<1>9. Ends(em.code, I, d, J, Front(todo), Top, breaks, made, made')
  <2>1. PICK r, B, m, f : /\ r = Front(todo) /\ B = Home(r, Len(r), breaks) /\ m = made
                          /\ f = Top
    OBVIOUS
  <2>2. Inner(r, f, breaks) = B
    BY <2>1, <1>2, <1>4, InnerIs
  <2>3. SUFFICES ASSUME NEW a \in Nat, NEW b \in Nat, Inside(d, I, B, B, f, m, a, b)
                 PROVE  Means(d, J, B, {a}, Len(d), f.list \o m)
    BY <2>1, <2>2, <1>3, <1>4, <1>5 DEF Ends
  <2>4. Means(d, I, B, {a}, b, f.list) /\ Means(d, I, B, {b}, Len(d), m)
    BY <2>1, <2>3, <1>2 DEF Inside, Part, Runs
  <2>5. Means(d, I, B, {a}, Len(d), f.list \o m)
    BY <2>4, SeqMeans
  <2> QED
    BY <2>5, <1>8, MeansGrows
<1> QED
  BY <1>1, <1>3, <1>5, <1>6, <1>7, <1>9, OverBuilt

\* A branch that has been patched.
LEMMA PatchedIs ==
  ASSUME NEW c \in Seq(WordSet), NEW d \in Seq(WordSet), NEW from \in Nat, NEW to \in Int,
         Patched(c, d, from, to), Len(d) = Len(c)
  PROVE  Changes(c, d, {from}) /\ \A J : from \in J => Led(c, d, J, from, to)
<1>1. Changes(c, d, {from})
  <2>1. ASSUME NEW i \in 1 .. Len(c) PROVE d[i].op = c[i].op /\ (i - 1 \notin {from} => d[i] = c[i])
    <3>1. CASE i = from + 1
      BY <3>1 DEF Patched
    <3>2. CASE i # from + 1
      BY <3>2 DEF Patched
    <3> QED
      BY <3>1, <3>2
  <2> QED
    BY <2>1 DEF Changes
<1> QED
  BY <1>1 DEF Patched, Led

LEMMA ChangesMore ==
  ASSUME NEW c \in Seq(WordSet), NEW x \in Seq(WordSet), NEW d \in Seq(WordSet),
         Extends(c, x), NEW P, Changes(x, d, P)
  PROVE  Changes(c, d, P)
<1>1. Len(c) <= Len(x) /\ Len(x) <= Len(d) /\ Len(c) \in Nat /\ Len(x) \in Nat /\ Len(d) \in Nat
  BY DEF Extends, Changes
<1>2. ASSUME NEW i \in 1 .. Len(c) PROVE d[i].op = c[i].op /\ (i - 1 \notin P => d[i] = c[i])
  <2>1. i \in 1 .. Len(x) /\ i \in 0 + 1 .. Len(c)
    BY <1>1
  <2>2. x[i] = c[i]
    BY <2>1 DEF Extends, Same
  <2> QED
    BY <2>1, <2>2 DEF Changes
<1> QED
  BY <1>1, <1>2 DEF Changes

LEMMA LedMore ==
  ASSUME NEW c \in Seq(WordSet), NEW x, NEW d, Extends(c, x), NEW from \in Nat,
         from + 1 \in 1 .. Len(c), NEW J, NEW to, Led(x, d, J, from, to)
  PROVE  Led(c, d, J, from, to)
<1>1. from + 1 \in 0 + 1 .. Len(c)
  OBVIOUS
<1>2. x[from + 1] = c[from + 1]
  BY <1>1 DEF Extends, Same
<1> QED
  BY <1>2 DEF Led

\* A branch that is always taken.
LEMMA JumpMeans ==
  ASSUME NEW d, NEW J, NEW B, NEW p \in Nat, p \in J, NEW x \in Nat,
         d[p + 1].op = "BR", d[p + 1].by = x - p - BranchSize
  PROVE  Means(d, J, B, {p}, x, << >>)
<1>1. ASSUME NEW m \in Machine, m.ip \in {p}
      PROVE  \E v \in Machine : v.ip = x /\ Reaches(d, J, m, v)
  <2>1. PICK w : w = d[p + 1]
    OBVIOUS
  <2>2. w.op = "BR" /\ w.by = x - p - BranchSize /\ w.op \in Branches /\ Goes(w, m)
    BY <2>1 DEF Branches, Goes
  <2>3. x = m.ip + BranchSize + (IF Goes(w, m) THEN w.by ELSE 0)
    BY <1>1, <2>2 DEF BranchSize
  <2>4. Move(w, m) \in Machine /\ Move(w, m).ip = x
    BY <2>2, <2>3, BranchMoves
  <2>5. Silent(w) /\ m.ip \in J /\ w = d[m.ip + 1]
    BY <1>1, <2>1, <2>2 DEF Silent
  <2>6. Reaches(d, J, Move(w, m), Move(w, m))
    BY ReachesSelf
  <2>7. Reaches(d, J, m, Move(w, m))
    BY <2>5, <2>6, ReachesStep
  <2> QED
    BY <2>4, <2>7
<1> QED
  BY <1>1, NothingMeans

LEMMA ElseTurns ==
  ASSUME NEW c, NEW I, NEW d, NEW J, Agree(c, I, d, J), Len(d) \in Nat, NEW B,
         NEW f, f.k = "then", f.c \in Conditions, ~Never(f.c), NEW m, NEW a, NEW b,
         Inside(c, I, B, B, f, m, a, b),
         NEW h, h.k = "else", h.c = f.c, h.n = f.n, h.yes = m,
         Unknown(f.c) => /\ Led(c, d, J, f.from, Len(d)) /\ h.from = Len(c)
                         /\ h.from < Len(d) /\ d[h.from + 1].op = "BR",
         ~Unknown(f.c) => Len(d) = Len(c)
  PROVE  Part(d, J, B, B, h, a, Len(d))
<1>1. /\ ThenPart(c, I, f, a, b) /\ Means(c, I, B, {b}, Len(c), m)
  BY DEF Inside, Part, Runs
<1>2. Means(d, J, B, {b}, Len(c), h.yes)
  BY <1>1, MeansGrows
<1>3. CASE Unknown(f.c)
  <2>1. TestWaits(c, I, a, b, f.from, f.c, f.n, 1)
    BY <1>1, <1>3 DEF ThenPart
  <2>2. Tests(d, J, {a}, {b}, {Len(d)}, f.c, f.n, 1)
    BY <1>3, <2>1 DEF TestWaits
  <2>3. /\ Tests(d, J, {a}, {b}, IF Unknown(h.c) THEN {Len(d)} ELSE {}, h.c, h.n, 1)
        /\ IF Unknown(h.c)
           THEN h.from < Len(d) /\ d[h.from + 1].op = "BR" /\ Means(d, J, B, {b}, h.from, h.yes)
           ELSE Means(d, J, B, {b}, Len(d), h.yes)
    BY <1>2, <1>3, <2>2
  <2>4. ElsePart(d, J, B, h, a, Len(d))
    BY <2>3 DEF ElsePart
  <2> QED
    BY <2>4 DEF Part
<1>4. CASE ~Unknown(f.c)
  <2>1. Tests(c, I, {a}, {b}, {}, f.c, f.n, 1)
    BY <1>1, <1>4 DEF ThenPart, Unknown
  <2>2. Tests(d, J, {a}, {b}, {}, f.c, f.n, 1)
    BY <2>1, TestsGrow
  <2>3. /\ Tests(d, J, {a}, {b}, IF Unknown(h.c) THEN {Len(d)} ELSE {}, h.c, h.n, 1)
        /\ IF Unknown(h.c)
           THEN h.from < Len(d) /\ d[h.from + 1].op = "BR" /\ Means(d, J, B, {b}, h.from, h.yes)
           ELSE Means(d, J, B, {b}, Len(d), h.yes)
    BY <1>2, <1>4, <2>2
  <2>4. ElsePart(d, J, B, h, a, Len(d))
    BY <2>3 DEF ElsePart
  <2> QED
    BY <2>4 DEF Part
<1> QED
  BY <1>3, <1>4

LEMMA IfIs == \A c, n, y, z : If(c, n, y, z) = <<Item(c, n, 1, y, z)>>
BY DEF If, Item

LEMMA NoneMeans == \A c, I, B, x, s : Means(c, I, B, {}, x, s)
BY DEF Means

LEMMA ThenEnds ==
  ASSUME NEW c, NEW I, NEW d, NEW J, Agree(c, I, d, J), Len(c) \in Nat, Len(d) = Len(c), NEW B,
         NEW f, f.k = "then", NEW m, NEW a, NEW b, Inside(c, I, B, B, f, m, a, b),
         Unknown(f.c) => Led(c, d, J, f.from, Len(d))
  PROVE  Means(d, J, B, {a}, Len(d), If(f.c, f.n, m, << >>))
<1>1. ThenPart(c, I, f, a, b) /\ (Never(f.c) \/ Means(c, I, B, {b}, Len(c), m))
  BY DEF Inside, Part, Runs
<1>2. ~Never(f.c) => Means(d, J, B, {b}, Len(d), m)
  BY <1>1, MeansGrows
<1>3. CASE Unknown(f.c)
  <2>1. TestWaits(c, I, a, b, f.from, f.c, f.n, 1)
    BY <1>1, <1>3 DEF ThenPart
  <2>2. Tests(d, J, {a}, {b}, {Len(d)}, f.c, f.n, 1)
    BY <1>3, <2>1 DEF TestWaits
  <2>3. Means(d, J, B, {Len(d)}, Len(d), << >>)
    BY HereMeans
  <2>4. Means(d, J, B, {b}, Len(d), m)
    BY <1>2, <1>3 DEF Unknown
  <2>5. Means(d, J, B, {a}, Len(d), <<Item(f.c, f.n, 1, m, << >>)>>)
    BY <2>2, <2>3, <2>4, IfMeans
  <2> QED
    BY <2>5, IfIs
<1>4. CASE Always(f.c)
  <2>1. Tests(c, I, {a}, {b}, {}, f.c, f.n, 1)
    BY <1>1, <1>4 DEF ThenPart
  <2>2. Tests(d, J, {a}, {b}, {}, f.c, f.n, 1)
    BY <2>1, TestsGrow
  <2>3. Means(d, J, B, {}, Len(d), << >>)
    BY NoneMeans
  <2>4. ~Never(f.c)
    BY <1>4 DEF Always, Never, Literal
  <2>5. Means(d, J, B, {b}, Len(d), m)
    BY <1>2, <2>4
  <2>6. Means(d, J, B, {a}, Len(d), <<Item(f.c, f.n, 1, m, << >>)>>)
    BY <2>2, <2>3, <2>5, IfMeans
  <2> QED
    BY <2>6, IfIs
<1>5. CASE Never(f.c)
  <2>1. Tests(c, I, {a}, {}, {b}, f.c, f.n, 1) /\ b = Len(d)
    BY <1>1, <1>5 DEF ThenPart, Inside, Runs
  <2>2. Tests(d, J, {a}, {}, {b}, f.c, f.n, 1)
    BY <2>1, TestsGrow
  <2>3. Means(d, J, B, {b}, Len(d), << >>)
    BY <2>1, HereMeans
  <2>4. Means(d, J, B, {}, Len(d), m)
    BY NoneMeans
  <2>5. Means(d, J, B, {a}, Len(d), <<Item(f.c, f.n, 1, m, << >>)>>)
    BY <2>2, <2>3, <2>4, IfMeans
  <2> QED
    BY <2>5, IfIs
<1> QED
  BY <1>3, <1>4, <1>5 DEF Unknown

LEMMA ElseEnds ==
  ASSUME NEW c, NEW I, NEW d, NEW J, Agree(c, I, d, J), Len(c) \in Nat, Len(d) = Len(c), NEW B,
         NEW f, f.k = "else", NEW m, NEW a, NEW b, Inside(c, I, B, B, f, m, a, b),
         f.from \in Nat, Unknown(f.c) => Led(c, d, J, f.from, Len(d))
  PROVE  Means(d, J, B, {a}, Len(d), If(f.c, f.n, f.yes, m))
<1>1. ElsePart(c, I, B, f, a, b) /\ (IF Always(f.c) THEN b = Len(c) ELSE Means(c, I, B, {b}, Len(c), m))
  BY DEF Inside, Part, Runs
<1>2. ~Always(f.c) => Means(d, J, B, {b}, Len(d), m)
  BY <1>1, MeansGrows
<1>3. PICK h : /\ Tests(c, I, {a}, {h}, IF Unknown(f.c) THEN {b} ELSE {}, f.c, f.n, 1)
               /\ IF Unknown(f.c)
                  THEN /\ f.from < Len(c) /\ c[f.from + 1].op = "BR"
                       /\ Means(c, I, B, {h}, f.from, f.yes)
                  ELSE Means(c, I, B, {h}, b, f.yes)
  BY <1>1 DEF ElsePart
<1>4. CASE Unknown(f.c)
  <2>1. /\ Tests(c, I, {a}, {h}, {b}, f.c, f.n, 1) /\ Means(c, I, B, {h}, f.from, f.yes)
        /\ c[f.from + 1].op = "BR" /\ Led(c, d, J, f.from, Len(d))
    BY <1>3, <1>4
  <2>2. Tests(d, J, {a}, {h}, {b}, f.c, f.n, 1)
    BY <2>1, TestsGrow
  <2>3. Means(d, J, B, {h}, f.from, f.yes)
    BY <2>1, MeansGrows
  <2>4. Means(d, J, B, {f.from}, Len(d), << >>)
    BY <2>1, JumpMeans DEF Led
  <2>5. Means(d, J, B, {h}, Len(d), f.yes \o << >>)
    BY <2>3, <2>4, SeqMeans
  <2>6. f.yes \o << >> = f.yes
    <3>1. IsSeq(f.yes)
      BY <2>3 DEF Means
    <3> QED
      BY <3>1, CatIs, NoneIs
  <2>7. Means(d, J, B, {b}, Len(d), m) /\ Means(d, J, B, {h}, Len(d), f.yes)
    BY <1>2, <1>4, <2>5, <2>6 DEF Unknown
  <2>8. Means(d, J, B, {a}, Len(d), <<Item(f.c, f.n, 1, f.yes, m)>>)
    BY <2>2, <2>7, IfMeans
  <2> QED
    BY <2>8, IfIs
<1>5. CASE ~Unknown(f.c)
  <2>0. Always(f.c)
    BY <1>1, <1>5 DEF ElsePart, Unknown
  <2>1. Tests(c, I, {a}, {h}, {}, f.c, f.n, 1) /\ Means(c, I, B, {h}, Len(c), f.yes)
    BY <1>1, <1>3, <1>5, <2>0
  <2>2. Tests(d, J, {a}, {h}, {}, f.c, f.n, 1)
    BY <2>1, TestsGrow
  <2>3. Means(d, J, B, {h}, Len(d), f.yes)
    BY <2>1, MeansGrows
  <2>4. Means(d, J, B, {}, Len(d), m)
    BY NoneMeans
  <2>5. Means(d, J, B, {a}, Len(d), <<Item(f.c, f.n, 1, f.yes, m)>>)
    BY <2>2, <2>3, <2>4, IfMeans
  <2> QED
    BY <2>5, IfIs
<1> QED
  BY <1>4, <1>5

LEMMA OwnOfIf ==
  ASSUME NEW f, f.k \in {"then", "else"}, NEW bs
  PROVE  /\ ~IsLoop(f) /\ Below(f, bs) = bs /\ Tidy(f)
         /\ \A p : p \in Own(f, bs) <=> p \in Nat /\ Unknown(f.c) /\ f.last /\ p = f.from
BY DEF IsLoop, Below, Tidy, Own, Sites, IsCase

LEMMA EndIfBuilt ==
  ASSUME IInv, Compiled, EndIf
  PROVE  Compiled'
<1>1. PICK k \in {"then", "else"} : After(k)
  BY DEF EndIf
<1>2. /\ Top.k = k /\ Top.c \in Conditions /\ Top.last \in BOOLEAN /\ Top.from \in Nat
      /\ ~IsLoop(Top)
      /\ Top.last <=> AllRun(Front(todo), Len(Front(todo)))
      /\ Unknown(Top.c) /\ Top.last => IsBranch(em.code, Top.from)
  BY <1>1, ArmOfIf
<1>3. /\ em \in Emitter /\ em.code \in Seq(WordSet) /\ Len(Front(todo)) > 0
  BY <1>1, AfterIs
<1>o. /\ Below(Top, breaks) = breaks
      /\ \A p : p \in Own(Top, breaks) <=> p \in Nat /\ Unknown(Top.c) /\ Top.last /\ p = Top.from
  BY <1>1, <1>2, OwnOfIf
<1>5. PICK e : e = [em EXCEPT !.emit = Top.last]
  OBVIOUS
<1>6. e \in Emitter /\ e.code = em.code /\ e.emit = Top.last
  BY <1>2, <1>3, <1>5, Switched
<1>8. PICK p : p = IF Unknown(Top.c) THEN PatchToCurrent(e, Top.from) ELSE e
  OBVIOUS
<1>9. /\ p \in Emitter /\ Len(p.code) = Len(em.code)
      /\ IF Unknown(Top.c) /\ Top.last
         THEN Patched(em.code, p.code, Top.from, Len(em.code))
         ELSE p.code = em.code
  <2>1. CASE Unknown(Top.c)
    <3>1. PICK to \in Int : to = Here(e) /\ to = Len(em.code)
      BY <1>3, <1>6 DEF Here
    <3>2. PICK at \in Nat : at = Top.from
      BY <1>2
    <3>3. p = Patch(e, at, to)
      BY <1>8, <2>1, <3>1, <3>2 DEF PatchToCurrent
    <3>4. /\ p \in Emitter /\ Here(p) = Here(e) /\ (~e.emit => p = e)
          /\ e.emit /\ IsBranch(e.code, at) => Patched(e.code, p.code, at, to)
      BY <1>6, <3>3, PatchTyped
    <3> QED
      BY <1>2, <1>6, <2>1, <3>1, <3>2, <3>4 DEF Here
  <2>2. CASE ~Unknown(Top.c)
    BY <1>6, <1>8, <2>2
  <2> QED
    BY <2>1, <2>2
<1>10. PICK g : g = IF k = "then" THEN p ELSE [p EXCEPT !.emit = Top.last]
  OBVIOUS
<1>11. g.code = p.code
  BY <1>2, <1>9, <1>10, Switched
<1>12. /\ em' = g /\ todo' = Front(todo) /\ wants' = FALSE /\ UNCHANGED breaks
       /\ made' = IF k = "then" THEN If(Top.c, Top.n, made, << >>)
                  ELSE If(Top.c, Top.n, Top.yes, made)
  <2>1. After("then") => k = "then"
    BY <1>2 DEF After, Top
  <2>2. After("else") => k = "else"
    BY <1>2 DEF After, Top
  <2> QED
    BY <1>5, <1>8, <1>10, <2>1, <2>2 DEF EndIf, Finish, Done, Still
<1>13. PICK d \in Seq(WordSet) : d = em'.code /\ d = p.code
  BY <1>9, <1>11, <1>12, EmitterIs
<1>14. Changes(em.code, d, Own(Top, breaks))
  <2>1. CASE Unknown(Top.c) /\ Top.last
    <3>1. Changes(em.code, d, {Top.from})
      <4>1. Patched(em.code, d, Top.from, Len(em.code)) /\ Len(d) = Len(em.code)
        BY <1>9, <1>13, <2>1
      <4> QED
        BY <4>1, <1>2, <1>3, PatchedIs
    <3>2. Own(Top, breaks) = {Top.from}
      BY <1>o, <1>2, <2>1
    <3> QED
      BY <3>1, <3>2
  <2>2. CASE ~(Unknown(Top.c) /\ Top.last)
    BY <1>3, <1>9, <1>13, <2>2, ChangesSelf
  <2> QED
    BY <2>1, <2>2
<1>15. Over(d)
  BY <1>2, <1>3, <1>o, <1>12, <1>14 DEF Over
<1>16. PICK I, J : /\ I = Settled(em.code, todo, breaks)
                   /\ J = Settled(d, Front(todo), Below(Top, breaks))
  OBVIOUS
<1>17. Agree(em.code, I, d, J) /\ Own(Top, breaks) \subseteq J
  <2>1. Grows(em.code, I, d, J) /\ Own(Top, breaks) \subseteq J
    BY <1>1, <1>15, <1>16, OverGrows
  <2> QED
    BY <2>1 DEF Grows
<1>18. Len(d) = Len(em.code)
  BY <1>9, <1>13
<1>19. ASSUME Live(Front(todo))
       PROVE  Ends(em.code, I, d, J, Front(todo), Top, breaks, made, made')
  <2>1. PICK c, r, B, m, f : /\ r = Front(todo) /\ B = Home(r, Len(r), breaks) /\ m = made
                             /\ f = Top /\ c = em.code
    OBVIOUS
  <2>2. Inner(r, f, breaks) = B
    BY <2>1, <1>1, <1>2, InnerIs
  <2>3. SUFFICES ASSUME NEW a \in Nat, NEW b \in Nat, Inside(c, I, B, B, f, m, a, b)
                 PROVE  Means(d, J, B, {a}, Len(d), made')
    BY <2>1, <2>2, <1>o DEF Ends
  <2>4. Unknown(f.c) => Led(c, d, J, f.from, Len(d))
    <3>1. SUFFICES ASSUME Unknown(f.c) PROVE Led(c, d, J, f.from, Len(d))
      OBVIOUS
    <3>2. Patched(c, d, f.from, Len(d)) /\ f.from \in J
      BY <1>2, <1>9, <1>13, <1>17, <1>18, <1>19, <1>o, <2>1, <3>1 DEF Live
    <3> QED
      BY <3>2 DEF Patched, Led
  <2>5. Agree(c, I, d, J) /\ Len(c) \in Nat /\ Len(d) = Len(c) /\ f.from \in Nat
    BY <1>2, <1>3, <1>17, <1>18, <2>1
  <2>6. CASE k = "then"
    <3>1. f.k = "then" /\ made' = If(f.c, f.n, m, << >>)
      BY <1>2, <1>12, <2>1, <2>6
    <3>2. Means(d, J, B, {a}, Len(d), If(f.c, f.n, m, << >>))
      BY <2>3, <2>4, <2>5, <3>1, ThenEnds
    <3> QED
      BY <3>1, <3>2
  <2>7. CASE k = "else"
    <3>1. f.k = "else" /\ made' = If(f.c, f.n, f.yes, m)
      BY <1>2, <1>12, <2>1, <2>7
    <3>2. Means(d, J, B, {a}, Len(d), If(f.c, f.n, f.yes, m))
      BY <2>3, <2>4, <2>5, <3>1, ElseEnds
    <3> QED
      BY <3>1, <3>2
  <2> QED
    BY <2>6, <2>7
<1> QED
  BY <1>1, <1>12, <1>13, <1>15, <1>16, <1>18, <1>19, OverBuilt

LEMMA PatchOne ==
  ASSUME NEW e \in Emitter, NEW from \in Nat, NEW to \in Int, NEW f, f = Patch(e, from, to)
  PROVE  e.emit /\ IsBranch(e.code, from) =>
           f \in Emitter /\ f.emit /\ Here(f) = Here(e) /\ Patched(e.code, f.code, from, to)
<1>1. /\ f \in Emitter /\ f.emit = e.emit /\ Here(f) = Here(e)
      /\ ~e.emit => f = e
      /\ e.emit /\ IsBranch(e.code, from) =>
           f.dead = e.dead /\ Patched(e.code, f.code, from, to)
  BY PatchTyped
<1> QED
  BY <1>1

\* g has a branch behind e, and that at `from' leads behind it.
JumpsOut(e, j, g, from) ==
  /\ g \in Emitter /\ BranchAt(j) = Len(e.code) /\ BranchAt(g) = Len(e.code)
  /\ Len(g.code) = Len(e.code) + 2 /\ g.code[Len(e.code) + 1].op = "BR"
  /\ Changes(e.code, g.code, {from})
  /\ \A J : from \in J => Led(e.code, g.code, J, from, Len(g.code))
LEMMA OutWords ==
  ASSUME NEW e \in Emitter, NEW j, j = EmitBranch(e, "BR", 0), NEW from \in Nat,
         NEW g, g = PatchToCurrent(j, from)
  PROVE  e.emit /\ IsBranch(e.code, from) => JumpsOut(e, j, g, from)
<1> SUFFICES ASSUME e.emit, IsBranch(e.code, from)
             PROVE  JumpsOut(e, j, g, from)
  OBVIOUS
<1>0. e.code \in Seq(WordSet) /\ Here(e) = Len(e.code) /\ Len(e.code) \in Nat
  BY EmitterIs DEF Here
<1>2. /\ j \in Emitter /\ j.emit /\ Here(j) = Len(e.code) + BranchSize
      /\ BranchAt(j) = Len(e.code) /\ j.code[Len(e.code) + 1].op = "BR"
      /\ Extends(e.code, j.code)
  <2>1. PICK op \in Branches, to \in Int : op = "BR" /\ to = 0 /\ j = EmitBranch(e, op, to)
    BY DEF Branches
  <2>2. /\ j \in Emitter /\ j.emit /\ Here(j) = Here(e) + BranchSize
        /\ BranchAt(j) = Here(e) /\ j.code[Here(e) + 1].op = op
        /\ Extends(e.code, j.code)
    <3>1. e \in Emitter /\ e.emit
      OBVIOUS
    <3> QED
      BY <2>1, <3>1, BranchEmitted
  <2> QED
    BY <1>0, <2>1, <2>2
<1>3. PICK to \in Int : to = Here(j) /\ to = Len(e.code) + 2
  BY <1>0, <1>2 DEF BranchSize
<1>5. from + 1 \in 4 .. Len(e.code) /\ e.code[from + 1].op \in Branches
  BY DEF IsBranch
<1>6. IsBranch(j.code, from)
  <2>1. from + 1 \in 4 .. Len(j.code) /\ from + 1 \in 0 + 1 .. Len(e.code)
    BY <1>0, <1>2, <1>3, <1>5 DEF Here
  <2>2. j.code[from + 1] = e.code[from + 1]
    BY <1>2, <2>1 DEF Extends, Same
  <2> QED
    BY <1>5, <2>1, <2>2 DEF IsBranch
<1>7. g = Patch(j, from, to)
  BY <1>3 DEF PatchToCurrent
<1>8. /\ g \in Emitter /\ g.emit /\ Here(g) = Here(j) /\ Patched(j.code, g.code, from, to)
  <2>1. j.emit /\ IsBranch(j.code, from) =>
          g \in Emitter /\ g.emit /\ Here(g) = Here(j) /\ Patched(j.code, g.code, from, to)
    BY <1>2, <1>3, <1>7, PatchOne
  <2> QED
    BY <1>2, <1>6, <2>1
<1>9. PICK c, x, d : c = e.code /\ x = j.code /\ d = g.code
  OBVIOUS
<1>10. c \in Seq(WordSet) /\ x \in Seq(WordSet) /\ d \in Seq(WordSet) /\ Extends(c, x)
       /\ Len(x) = to /\ Len(d) = to /\ Patched(x, d, from, to) /\ to = Len(c) + 2
  BY <1>0, <1>2, <1>3, <1>8, <1>9, EmitterIs DEF Here
<1>11. Changes(x, d, {from}) /\ \A J : from \in J => Led(x, d, J, from, to)
  BY <1>10, PatchedIs
<1>12. Changes(c, d, {from})
  BY <1>10, <1>11, ChangesMore
<1>13. \A J : from \in J => Led(c, d, J, from, to)
  <2>1. from + 1 \in 1 .. Len(c)
    BY <1>5, <1>9
  <2> QED
    BY <1>10, <1>11, <2>1, LedMore
<1>14. BranchAt(g) = Len(e.code)
  BY <1>2, <1>8 DEF BranchAt
<1>15. d[Len(c) + 1].op = "BR"
  <2>1. Len(c) + 1 \in 1 .. Len(x) /\ Len(c) + 1 # from + 1
    BY <1>5, <1>9, <1>10
  <2>2. d[Len(c) + 1].op = x[Len(c) + 1].op
    BY <1>11, <2>1 DEF Changes
  <2> QED
    BY <1>2, <1>9, <2>2
<1> QED
  BY <1>2, <1>8, <1>9, <1>10, <1>12, <1>13, <1>14, <1>15 DEF JumpsOut

LEMMA ElseBuilt ==
  ASSUME IInv, Compiled, Else
  PROVE  Compiled'
<1>s. SUFFICES ASSUME orderly'
               PROVE  Compiled'
  BY DEF Compiled
<1>1. After("then")
  BY DEF Else
<1>2. /\ Top.k = "then" /\ Top.c \in Conditions /\ Top.last \in BOOLEAN /\ Top.from \in Nat
      /\ Top.n \in Nat /\ ~IsLoop(Top) /\ {"k", "from"} \subseteq DOMAIN Top
      /\ Top.last <=> AllRun(Front(todo), Len(Front(todo)))
      /\ Unknown(Top.c) /\ Top.last => IsBranch(em.code, Top.from)
  BY <1>1, ArmOfIf
<1>3. /\ em \in Emitter /\ em.code \in Seq(WordSet) /\ FrameOK(Top) /\ Len(em.code) \in Nat
  <2>1. /\ em \in Emitter /\ em.code \in Seq(WordSet) /\ FrameOK(Top)
    BY <1>1, TopReady
  <2> QED
    BY <2>1
<1>4. ~(Never(Top.c) /\ Top.last)
  BY <1>s DEF Else
<1>o. \A p : p \in Own(Top, breaks) <=> p \in Nat /\ Unknown(Top.c) /\ Top.last /\ p = Top.from
  BY <1>2, OwnOfIf
<1>c. /\ Never(Top.c) \in BOOLEAN /\ Always(Top.c) \in BOOLEAN
      /\ Unknown(Top.c) <=> ~Never(Top.c) /\ ~Always(Top.c)
  BY <1>2, CostIs DEF Unknown
<1>5. PICK b \in BOOLEAN : b = (Top.last /\ ~Always(Top.c))
  OBVIOUS
<1>b. b <=> Unknown(Top.c) /\ Top.last
  BY <1>2, <1>4, <1>c, <1>5
<1>6. PICK e : e = [em EXCEPT !.emit = b]
  OBVIOUS
<1>7. e \in Emitter /\ e.code = em.code /\ e.emit = b /\ Here(e) = Len(em.code)
  BY <1>3, <1>6, Switched DEF Here
<1>8. PICK j : j = IF Unknown(Top.c) THEN EmitBranch(e, "BR", 0) ELSE e
  OBVIOUS
<1>9. PICK g : g = PatchToCurrent(j, Top.from)
  OBVIOUS
<1>10. g = ElseHead
  <2>1. e = [em EXCEPT !.emit = Top.last /\ ~Always(Top.c)]
    BY <1>5, <1>6
  <2> QED
    BY <1>8, <1>9, <2>1 DEF ElseHead
<1>11. ASSUME ~b
       PROVE  g \in Emitter /\ g.code = em.code
  <2>1. \A op, to : EmitBranch(e, op, to) = e
    BY <1>7, <1>11, QuietIs
  <2>2. j = e
    BY <1>8, <2>1
  <2>3. \A from, to : Patch(e, from, to) = e
    BY <1>7, <1>11, QuietIs
  <2>4. g = e
    BY <1>9, <2>2, <2>3 DEF PatchToCurrent
  <2> QED
    BY <1>7, <2>4
<1>12. ASSUME b
       PROVE  /\ g \in Emitter /\ BranchAt(g) = Len(em.code) /\ Len(g.code) = Len(em.code) + 2
              /\ g.code[Len(em.code) + 1].op = "BR"
              /\ Changes(em.code, g.code, {Top.from})
              /\ \A J : Top.from \in J => Led(em.code, g.code, J, Top.from, Len(g.code))
  <2>1. PICK from \in Nat : from = Top.from
    BY <1>2
  <2>2. e \in Emitter /\ j = EmitBranch(e, "BR", 0) /\ g = PatchToCurrent(j, from)
    BY <1>7, <1>8, <1>9, <1>12, <1>b, <2>1
  <2>3. e.emit /\ IsBranch(e.code, from)
    BY <1>2, <1>7, <1>12, <1>b, <2>1
  <2>4. JumpsOut(e, j, g, from)
    BY <2>1, <2>2, <2>3, OutWords
  <2> QED
    BY <1>7, <2>1, <2>4 DEF JumpsOut
<1>13. g \in Emitter /\ (b \/ ~b)
  BY <1>11, <1>12
<1>14. PICK d \in Seq(WordSet) : d = em'.code /\ d = g.code
  BY <1>10, <1>13, EmitterIs DEF Else
<1>15. PICK from : from = BranchAt(g)
  OBVIOUS
<1>16. PICK h : h = [Top EXCEPT !.k = "else", !.from = from, !.yes = made]
  OBVIOUS
<1>17. /\ h.k = "else" /\ h.from = from /\ h.n = Top.n /\ h.c = Top.c /\ h.last = Top.last
       /\ h.yes = made
  <2>1. "yes" \in DOMAIN Top
    BY <1>2, <1>3 DEF FrameOK
  <2> QED
    BY <1>2, <1>16, <2>1
<1>18. Become(h) /\ wants' = TRUE /\ UNCHANGED breaks /\ Wants(wants', h)
  BY <1>10, <1>15, <1>16, <1>17 DEF Else, Wants
<1>19. /\ ~IsLoop(h) /\ Tidy(h)
       /\ \A p : p \in Own(h, breaks) <=> p \in Nat /\ b /\ p = from
  <2>1. /\ ~IsLoop(h) /\ Tidy(h)
        /\ \A p : p \in Own(h, breaks) <=> p \in Nat /\ Unknown(h.c) /\ h.last /\ p = h.from
    BY <1>17, OwnOfIf
  <2> QED
    BY <2>1, <1>17, <1>b
<1>20. PICK P : P = {p \in {Top.from} : b}
  OBVIOUS
<1>21. Changes(em.code, d, P)
  <2>1. CASE b
    BY <1>12, <1>14, <1>20, <2>1
  <2>2. CASE ~b
    BY <1>3, <1>11, <1>14, <2>2, ChangesSelf
  <2> QED
    BY <2>1, <2>2
<1>22. Turned(h, d, P)
  <2>1. P \subseteq Own(Top, breaks)
    BY <1>2, <1>o, <1>b, <1>20
  <2>2. \A p \in Own(h, breaks) : p >= Len(em.code)
    BY <1>3, <1>12, <1>15, <1>19
  <2>3. \A p \in Waits(h) : p < Len(d) /\ d[p + 1].op = "BR"
    <3>1. \A p \in Waits(h) : b /\ p = from
      BY <1>17, <1>b DEF Waits, IsCase
    <3>2. b => from < Len(d) /\ d[from + 1].op = "BR"
      BY <1>3, <1>12, <1>14, <1>15
    <3> QED
      BY <3>1, <3>2
  <2> QED
    BY <1>2, <1>18, <1>19, <1>21, <2>1, <2>2, <2>3 DEF Turned
<1>23. PICK I, J : I = Settled(em.code, todo, breaks) /\ J = Settled(d, todo', breaks)
  OBVIOUS
<1>24. Agree(em.code, I, d, J) /\ Own(Top, breaks) \ Own(h, breaks) \subseteq J
  <2>1. Grows(em.code, I, d, J) /\ Own(Top, breaks) \ Own(h, breaks) \subseteq J
    BY <1>1, <1>22, <1>23, TurnGrows
  <2> QED
    BY <2>1 DEF Grows
<1>25. CASE ~Top.last
  <2>1. ~Live(Front(todo)) /\ Len(d) = Len(em.code)
    BY <1>2, <1>b, <1>11, <1>14, <1>25 DEF Live
  <2> QED
    BY <2>1, <1>1, <1>14, <1>18, <1>22, <1>23, TurnBuilt
<1>26. CASE Top.last
  <2>1. PICK c, r, B, m, f : /\ r = Front(todo) /\ B = Home(r, Len(r), breaks) /\ m = made
                             /\ f = Top /\ c = em.code
    OBVIOUS
  <2>2. Inner(r, f, breaks) = B /\ Inner(r, h, breaks) = B
    BY <2>1, <1>2, <1>17, <1>19, InnerIs
  <2>3. Turns(c, I, d, J, r, f, h, breaks, m)
    <3>1. SUFFICES ASSUME NEW a \in Nat, NEW z \in Nat, Inside(c, I, B, B, f, m, a, z)
                   PROVE  Part(d, J, B, B, h, a, Len(d))
      BY <2>1, <2>2 DEF Turns
    <3>2. /\ f.k = "then" /\ f.c \in Conditions /\ ~Never(f.c) /\ h.k = "else" /\ h.c = f.c
          /\ h.n = f.n /\ h.yes = m
      BY <1>2, <1>4, <1>17, <1>26, <2>1
    <3>3. Agree(c, I, d, J) /\ Len(d) \in Nat
      BY <1>24, <2>1
    <3>4. ASSUME Unknown(f.c)
          PROVE  /\ Led(c, d, J, f.from, Len(d)) /\ h.from = Len(c)
                 /\ h.from < Len(d) /\ d[h.from + 1].op = "BR"
      <4>1. b
        BY <1>b, <1>26, <2>1, <3>4
      <4>2. /\ from = Len(c) /\ Len(d) = Len(c) + 2 /\ d[Len(c) + 1].op = "BR"
            /\ f.from + 1 \in 4 .. Len(c)
        BY <4>1, <1>2, <1>12, <1>14, <1>15, <1>26, <2>1, <3>4 DEF IsBranch
      <4>3. f.from \in J
        BY <4>1, <4>2, <1>2, <1>3, <1>o, <1>b, <1>19, <1>24, <2>1
      <4>4. Led(c, d, J, f.from, Len(d))
        BY <4>1, <4>3, <1>12, <1>14, <2>1
      <4> QED
        BY <4>2, <4>4, <1>3, <1>17, <2>1
    <3>5. ~Unknown(f.c) => Len(d) = Len(c)
      BY <1>b, <1>11, <1>14, <2>1
    <3> QED
      BY <3>1, <3>2, <3>3, <3>4, <3>5, ElseTurns
  <2>4. Turns(em.code, I, d, J, Front(todo), Top, h, breaks, made)
    BY <2>1, <2>3
  <2>5. Live(Front(todo))
    BY <1>2, <1>26 DEF Live
  <2> QED
    BY <2>4, <2>5, <1>1, <1>14, <1>18, <1>22, <1>23, TurnBuilt
<1> QED
  BY <1>2, <1>25, <1>26

\* The branches at P lead to x, and are always taken.
LeadTo(d, J, P, x) ==
  \A p \in P : p \in Nat /\ p \in J /\ d[p + 1].op = "BR" /\ d[p + 1].by = x - p - BranchSize
LEMMA LedOut ==
  ASSUME NEW d, NEW J, NEW P, NEW x \in Nat, LeadTo(d, J, P, x)
  PROVE  \A m \in Machine : m.ip \in P => \E v \in Machine : v.ip = x /\ Reaches(d, J, m, v)
<1>1. SUFFICES ASSUME NEW m \in Machine, m.ip \in P
               PROVE  \E v \in Machine : v.ip = x /\ Reaches(d, J, m, v)
  OBVIOUS
<1>2. PICK p \in Nat : p = m.ip /\ p \in J /\ d[p + 1].op = "BR" /\ d[p + 1].by = x - p - BranchSize
  BY <1>1 DEF LeadTo
<1>3. PICK w : w = d[p + 1]
  OBVIOUS
<1>4. w.op = "BR" /\ w.by = x - p - BranchSize /\ w.op \in Branches /\ Goes(w, m)
  BY <1>2, <1>3 DEF Branches, Goes
<1>5. x = m.ip + BranchSize + (IF Goes(w, m) THEN w.by ELSE 0)
  BY <1>2, <1>4 DEF BranchSize
<1>6. Move(w, m) \in Machine /\ Move(w, m).ip = x
  BY <1>4, <1>5, BranchMoves
<1>7. Silent(w) /\ m.ip \in J /\ w = d[m.ip + 1]
  BY <1>2, <1>3, <1>4 DEF Silent
<1>8. Reaches(d, J, Move(w, m), Move(w, m))
  BY ReachesSelf
<1>9. Reaches(d, J, m, Move(w, m))
  BY <1>7, <1>8, ReachesStep
<1> QED
  BY <1>6, <1>9

\* The branches at P lead to x now.
Closes(c, d, P, x) ==
  /\ Changes(c, d, P)
  /\ \A p \in P : p \in Nat /\ p < Len(c) /\ d[p + 1].by = x - p - BranchSize
LEMMA UnwindIs ==
  ASSUME NEW x \in Emitter, x.emit, NEW exit \in Nat, IsBranch(x.code, exit),
         NEW late \in Seq(Nat), \A p \in ToSet(late) : IsBranch(x.code, p),
         NEW q, q = PatchAll(PatchToCurrent(x, exit), late)
  PROVE  /\ q \in Emitter /\ q.emit /\ Len(q.code) = Len(x.code)
         /\ Closes(x.code, q.code, {exit} \cup ToSet(late), Len(x.code))
<1>0. x.code \in Seq(WordSet)
  BY EmitterIs
<1>1. PICK to \in Int : to = Here(x) /\ to = Len(x.code)
  BY <1>0 DEF Here
<1>2. PICK p : p = Patch(x, exit, to)
  OBVIOUS
<1>3. p \in Emitter /\ p.emit = x.emit /\ Here(p) = Here(x) /\ Patched(x.code, p.code, exit, to)
  <2>1. to \in Int /\ exit \in Nat /\ x \in Emitter /\ p = Patch(x, exit, to)
    BY <1>2
  <2>2. p \in Emitter /\ p.emit /\ Here(p) = Here(x) /\ Patched(x.code, p.code, exit, to)
    <3>1. x.emit /\ IsBranch(x.code, exit) =>
            p \in Emitter /\ p.emit /\ Here(p) = Here(x) /\ Patched(x.code, p.code, exit, to)
      BY <2>1, PatchOne
    <3> QED
      BY <3>1
  <2> QED
    BY <2>2
<1>4. q = PatchAll(p, late) /\ p.emit /\ p.code \in Seq(WordSet) /\ Len(p.code) = to
  BY <1>1, <1>2, <1>3, EmitterIs DEF PatchToCurrent, Here
<1>5. /\ q \in Emitter /\ q.emit = p.emit /\ Here(q) = Here(p)
      /\ AllPatched(p.code, q.code, late)
  <2>1. p \in Emitter /\ p.emit /\ q = PatchAll(p, late)
    BY <1>3, <1>4
  <2>2. /\ q \in Emitter /\ q.emit = p.emit /\ Here(q) = Here(p)
        /\ p.emit => AllPatched(p.code, q.code, late)
    BY <2>1, PatchAllTyped
  <2> QED
    BY <2>1, <2>2
<1>6. PICK c, y, d : c = x.code /\ y = p.code /\ d = q.code
  OBVIOUS
<1>7. /\ Len(c) = to /\ Len(y) = to /\ Len(d) = to /\ to \in Nat
      /\ Patched(c, y, exit, to) /\ AllPatched(y, d, late)
  BY <1>0, <1>1, <1>3, <1>4, <1>5, <1>6 DEF Here
<1>8. ASSUME NEW i \in 1 .. Len(c)
      PROVE  d[i].op = c[i].op /\ (i - 1 \notin {exit} \cup ToSet(late) => d[i] = c[i])
  <2>1. y[i].op = c[i].op /\ (i # exit + 1 => y[i] = c[i])
    BY <1>7 DEF Patched
  <2>2. d[i].op = y[i].op /\ (i - 1 \notin ToSet(late) => d[i] = y[i])
    BY <1>7 DEF AllPatched
  <2> QED
    BY <2>1, <2>2
<1>9. ASSUME NEW b \in {exit} \cup ToSet(late)
      PROVE  b \in Nat /\ b < Len(c) /\ d[b + 1].by = Len(c) - b - BranchSize
  <2>1. IsBranch(c, b)
    BY <1>6
  <2>2. b + 1 \in 4 .. Len(c) /\ c[b + 1].op \in Branches
    BY <2>1 DEF IsBranch
  <2>0. b \in Nat
    <3>1. ToSet(late) \subseteq Nat
      BY InToSet
    <3> QED
      BY <3>1
  <2>3. y[b + 1].op = c[b + 1].op /\ b + 1 \in 1 .. Len(c)
    BY <2>0, <2>2, <1>7 DEF Patched
  <2>4. CASE b \in ToSet(late)
    <3>1. b + 1 - 1 \in ToSet(late) /\ y[b + 1].op \in Branches /\ b + 1 \in 1 .. Len(y)
      BY <2>0, <2>2, <2>3, <2>4, <1>7
    <3>2. d[b + 1].by = Len(y) - (b + 1 - 1) - BranchSize
      BY <3>1, <1>7 DEF AllPatched
    <3> QED
      BY <2>0, <2>2, <3>2, <1>7
  <2>5. CASE b \notin ToSet(late)
    <3>1. b = exit /\ y[b + 1].by = to - b - BranchSize
      BY <2>5, <1>7 DEF Patched
    <3>2. b + 1 - 1 \notin ToSet(late) /\ b + 1 \in 1 .. Len(y)
      BY <2>0, <2>3, <2>5, <1>7
    <3>3. d[b + 1] = y[b + 1]
      BY <3>2, <1>7 DEF AllPatched
    <3> QED
      BY <2>0, <2>2, <3>1, <3>3, <1>7
  <2> QED
    BY <2>4, <2>5
<1>10. Closes(c, d, {exit} \cup ToSet(late), Len(c))
  <2>1. Len(c) <= Len(d)
    BY <1>7
  <2>2. Changes(c, d, {exit} \cup ToSet(late))
    BY <1>8, <2>1 DEF Changes
  <2> QED
    BY <1>9, <2>2 DEF Closes
<1> QED
  BY <1>3, <1>4, <1>5, <1>6, <1>7, <1>10

\* What the innermost construct, a WHILE or FOR whose body is emitted, has to patch.
LEMMA LoopOwns ==
  ASSUME IInv, Compiled, NEW k \in {"while", "for"}, After(k)
  PROVE  /\ Top.prev \in 0 .. Len(breaks) /\ Below(Top, breaks) = Early(breaks, Top.prev)
         /\ Late(breaks, Top.prev) \in Seq(Nat)
         /\ Inner(Front(todo), Top, breaks) = ToSet(Late(breaks, Top.prev))
         /\ em.emit =>
              /\ Own(Top, breaks) = {Top.exit} \cup ToSet(Late(breaks, Top.prev))
              /\ \A p \in Own(Top, breaks) : IsBranch(em.code, p)
              /\ \A p \in ToSet(Late(breaks, Top.prev)) :
                   p \in Nat /\ p < Len(em.code) /\ em.code[p + 1].op = "BR"
<1>1. /\ Top.k = k /\ IsLoop(Top) /\ (Top.live <=> em.emit) /\ Top.exit \in Nat /\ Top.prev \in Nat
      /\ em.emit => IsBranch(em.code, Top.exit)
  BY LoopTop
<1>2. /\ em \in Emitter /\ em.code \in Seq(WordSet) /\ breaks \in Seq(Nat)
      /\ On(todo, Front(todo), Top) /\ Base(em.code, todo, breaks, inLoop)
      /\ Jumps(em.code, todo, breaks)
  BY TopReady
<1>3. Top.prev \in 0 .. Len(breaks)
  <2>1. IsLoop(todo[Len(todo)]) /\ Len(todo) \in 1 .. Len(todo) /\ todo[Len(todo)] = Top
    BY <1>1, <1>2 DEF On, IsStack
  <2>2. Top.prev <= Len(breaks)
    BY <1>2, <2>1 DEF Base, LoopsOK, LoopOK
  <2> QED
    BY <1>1, <1>2, <2>2
<1>4. PICK n \in 0 .. Len(breaks) : n = Top.prev
  BY <1>3
<1>5. PICK late, early : late = Late(breaks, n) /\ early = Early(breaks, n)
  OBVIOUS
<1>6. late \in Seq(Nat) /\ ToSet(late) \subseteq Nat
  <2>1. late \in Seq(Nat)
    BY <1>2, <1>5, OtherOnes
  <2> QED
    BY <2>1, InToSet
<1>7. Inner(Front(todo), Top, breaks) = ToSet(late) /\ Below(Top, breaks) = Early(breaks, Top.prev)
  BY <1>1, <1>4, <1>5 DEF Inner, Below
<1>8. ASSUME em.emit
      PROVE  /\ Own(Top, breaks) = {Top.exit} \cup ToSet(late)
             /\ \A p \in Own(Top, breaks) : IsBranch(em.code, p)
             /\ \A p \in ToSet(late) : p \in Nat /\ p < Len(em.code) /\ em.code[p + 1].op = "BR"
  <2>1. Own(Top, breaks) = {Top.exit} \cup ToSet(late)
    <3>1. ~IsCase(Top) /\ Top.k \notin {"then", "else", "arm"}
      BY <1>1 DEF IsCase
    <3>2. \A p : p \in Sites(Top) <=> p = Top.exit
      BY <1>1, <1>8, <3>1 DEF Sites
    <3>3. \A p : p \in Own(Top, breaks) <=> p \in Nat /\ (p = Top.exit \/ p \in ToSet(late))
      BY <1>1, <1>4, <1>5, <1>8, <3>2 DEF Own
    <3> QED
      BY <1>1, <1>6, <3>3
  <2>2. \A p \in ToSet(late) : IsBranch(em.code, p)
    <3>1. n \in Nat /\ Top.prev = n
      BY <1>1, <1>4
    <3>2. Top.live => \A p \in ToSet(late) : IsBranch(em.code, p)
      BY <1>1, <1>2, <1>5, <3>1, LoopOff
    <3> QED
      BY <1>1, <1>8, <3>2
  <2>3. ToSet(late) \subseteq Waiting(todo, breaks)
    <3>1. PICK s, r, f, bs, u : /\ s = todo /\ r = Front(todo) /\ f = Top /\ bs = breaks
                                /\ u = Below(f, bs)
      OBVIOUS
    <3>2. On(s, r, f) /\ bs \in Seq(Nat) /\ f.prev \in 0 .. Len(bs)
      BY <1>2, <1>3, <3>1
    <3>3. Waiting(s, bs) = Waiting(r, u) \cup Mine(f, bs)
      BY <3>1, <3>2, WaitingOn
    <3>4. ToSet(late) \subseteq Mine(f, bs)
      BY <1>1, <1>4, <1>5, <1>6, <1>8, <3>1 DEF Mine
    <3> QED
      BY <3>1, <3>3, <3>4
  <2>4. \A p \in ToSet(late) : p < Len(em.code) /\ em.code[p + 1].op = "BR"
    BY <1>2, <2>3 DEF Jumps
  <2> QED
    BY <1>1, <1>6, <1>8, <2>1, <2>2, <2>4
<1> QED
  BY <1>3, <1>4, <1>5, <1>6, <1>7, <1>8

LEMMA LoopCloses ==
  ASSUME IInv, Compiled, NEW k \in {"while", "for"}, After(k), em.emit,
         NEW x \in Emitter, x.emit, Extends(em.code, x.code), NEW q, q = Unwind(x)
  PROVE  /\ q \in Emitter /\ q.emit /\ Len(q.code) = Len(x.code)
         /\ Changes(em.code, q.code, Own(Top, breaks))
         /\ Changes(x.code, q.code, Own(Top, breaks))
         /\ \A p \in Own(Top, breaks) :
              p \in Nat /\ p < Len(em.code) /\ q.code[p + 1].by = Len(x.code) - p - BranchSize
<1>1. PICK exit \in Nat : exit = Top.exit
  BY LoopTop
<1>2. PICK late \in Seq(Nat) : late = Late(breaks, Top.prev)
  BY LoopOwns
<1>3. /\ Own(Top, breaks) = {exit} \cup ToSet(late)
      /\ \A p \in Own(Top, breaks) : IsBranch(em.code, p)
  BY <1>1, <1>2, LoopOwns
<1>4. em.code \in Seq(WordSet) /\ x.code \in Seq(WordSet)
  <2>1. em \in Emitter
    BY TopReady
  <2> QED
    BY <2>1, EmitterIs
<1>5. ASSUME NEW p \in Own(Top, breaks)
      PROVE  IsBranch(x.code, p) /\ p < Len(em.code)
  <2>1. p + 1 \in 4 .. Len(em.code) /\ em.code[p + 1].op \in Branches
    BY <1>3 DEF IsBranch
  <2>0. p \in Nat
    BY DEF Own
  <2>2. p + 1 \in 0 + 1 .. Len(em.code) /\ Len(em.code) <= Len(x.code)
    BY <1>4, <2>1 DEF Extends
  <2>3. x.code[p + 1] = em.code[p + 1]
    BY <2>2 DEF Extends, Same
  <2> QED
    BY <1>4, <2>0, <2>1, <2>2, <2>3 DEF IsBranch
<1>6. q = PatchAll(PatchToCurrent(x, exit), late)
  BY <1>1, <1>2 DEF Unwind, PatchBreaks, Late
<1>7. /\ q \in Emitter /\ q.emit /\ Len(q.code) = Len(x.code)
      /\ Closes(x.code, q.code, {exit} \cup ToSet(late), Len(x.code))
  <2>1. IsBranch(x.code, exit) /\ \A p \in ToSet(late) : IsBranch(x.code, p)
    BY <1>3, <1>5
  <2> QED
    BY <1>6, <2>1, UnwindIs
<1>8. /\ Changes(x.code, q.code, Own(Top, breaks))
      /\ \A p \in Own(Top, breaks) :
           p \in Nat /\ q.code[p + 1].by = Len(x.code) - p - BranchSize
  BY <1>3, <1>7 DEF Closes
<1>9. Changes(em.code, q.code, Own(Top, breaks))
  BY <1>4, <1>7, <1>8, ChangesMore, EmitterIs
<1> QED
  BY <1>5, <1>7, <1>8, <1>9

LEMMA AppendIs ==
  ASSUME NEW s, IsSeq(s), NEW w
  PROVE  Append(s, w) = s \o <<w>>
<1>1. PICK U : s \in Seq(U)
  BY DEF IsSeq
<1>2. s \in Seq(U \cup {w})
  BY <1>1, SeqIn
<1>3. w \in U \cup {w}
  OBVIOUS
<1> QED
  BY <1>2, <1>3

LEMMA LoopIs ==
  ASSUME NEW k \in {"while", "for"}, NEW c, NEW n, NEW body, IsSeq(body),
         NEW w, w = [k |-> k, c |-> c, n |-> n, body |-> body]
  PROVE  /\ w.k \notin {"mark", "break"} /\ ~Visible(w)
         /\ Loop(k, c, n, body) = <<[k |-> "loop", again |-> w]>>
         /\ k = "while" => Unfold(w) = <<Item(c, n, 1, body \o <<w>>, << >>)>>
         /\ k = "for" => Unfold(w) = <<Item(c, n, 1, (body \o <<Act(n, "next")>>) \o <<w>>, << >>)>>
<1>1. w.k = k /\ w.c = c /\ w.n = n /\ w.body = body
  OBVIOUS
<1>2. k = "while" => Unfold(w) = <<Item(c, n, 1, body \o <<w>>, << >>)>>
  <2>1. SUFFICES ASSUME k = "while" PROVE Unfold(w) = <<Item(c, n, 1, body \o <<w>>, << >>)>>
    OBVIOUS
  <2>2. Unfold(w) = If(c, n, Append(body, w), << >>)
    BY <1>1, <2>1 DEF Unfold
  <2> QED
    BY <2>2, AppendIs, IfIs
<1>3. k = "for" => Unfold(w) = <<Item(c, n, 1, (body \o <<Act(n, "next")>>) \o <<w>>, << >>)>>
  <2>1. SUFFICES ASSUME k = "for"
                 PROVE  Unfold(w) = <<Item(c, n, 1, (body \o <<Act(n, "next")>>) \o <<w>>, << >>)>>
    OBVIOUS
  <2>2. Unfold(w) = If(c, n, body \o <<Act(n, "next"), w>>, << >>)
    BY <1>1, <2>1 DEF Unfold
  <2>3. PICK x : x = Act(n, "next")
    OBVIOUS
  <2>4. <<x, w>> = <<x>> \o <<w>>
    BY TwoAre
  <2>5. IsSeq(<<x>>) /\ IsSeq(<<w>>)
    BY SingleIs
  <2>6. body \o <<x, w>> = (body \o <<x>>) \o <<w>>
    BY <2>4, <2>5, CatAssoc
  <2> QED
    BY <2>2, <2>3, <2>6, IfIs
<1>4. Loop(k, c, n, body) = <<[k |-> "loop", again |-> w]>>
  BY DEF Loop
<1> QED
  BY <1>1, <1>2, <1>3, <1>4 DEF Visible

LEMMA WhileEnds ==
  ASSUME NEW c, NEW I, NEW d, NEW J, Agree(c, I, d, J), Len(c) \in Nat, Len(d) \in Nat,
         NEW B, NEW D, NEW f, f.k = "while", ~Never(f.c), f.head \in Nat,
         NEW m, NEW a, NEW b, Inside(c, I, B, D, f, m, a, b),
         Led(c, d, J, f.exit, Len(d)), LeadTo(d, J, D, Len(d)),
         Len(c) \in J, d[Len(c) + 1].op = "BR", d[Len(c) + 1].by = f.head - Len(c) - BranchSize
  PROVE  Means(d, J, B, {a}, Len(d), Loop("while", f.c, f.n, m))
<1>1. f.head = a /\ TestWaits(c, I, a, b, f.exit, f.c, f.n, 1) /\ Means(c, I, D, {b}, Len(c), m)
  BY DEF Inside, Part, WhilePart, Runs
<1>2. Tests(d, J, {a}, {b}, {Len(d)}, f.c, f.n, 1)
  BY <1>1 DEF TestWaits
<1>3. Means(d, J, D, {b}, Len(c), m)
  BY <1>1, MeansGrows
<1>4. IsSeq(m)
  BY <1>3 DEF Means
<1>5. Means(d, J, D, {Len(c)}, a, << >>)
  BY <1>1, JumpMeans
<1>6. Means(d, J, D, {b}, a, m \o << >>)
  BY <1>3, <1>5, SeqMeans
<1>7. m \o << >> = m
  BY <1>4, CatIs, NoneIs
<1>8. PICK w : w = [k |-> "while", c |-> f.c, n |-> f.n, body |-> m]
  OBVIOUS
<1>9. /\ w.k \notin {"mark", "break"} /\ ~Visible(w)
      /\ Loop("while", f.c, f.n, m) = <<[k |-> "loop", again |-> w]>>
      /\ Unfold(w) = <<Item(f.c, f.n, 1, m \o <<w>>, << >>)>>
  BY <1>4, <1>8, LoopIs
<1>10. \A v \in Machine : v.ip \in D => \E z \in Machine : z.ip = Len(d) /\ Reaches(d, J, v, z)
  BY LedOut
<1>11. Means(d, J, {}, {a}, Len(d), <<[k |-> "loop", again |-> w]>>)
  <2>1. PICK y, x, cond, n : y = m \o <<w>> /\ x = Len(d) /\ cond = f.c /\ n = f.n
    OBVIOUS
  <2>2. Tests(d, J, {a}, {b}, {x}, cond, n, 1) /\ Means(d, J, D, {b}, a, m)
    BY <1>2, <1>6, <1>7, <2>1
  <2>3. \A v \in Machine : v.ip \in D => \E z \in Machine : z.ip = x /\ Reaches(d, J, v, z)
    BY <1>10, <2>1
  <2>4. Unfold(w) = <<Item(cond, n, 1, y, << >>)>> /\ w.k \notin {"mark", "break"} /\ ~Visible(w)
    BY <1>9, <2>1
  <2>5. {b} # {} => y = m \o <<w>>
    BY <2>1
  <2>6. Means(d, J, {}, {a}, x, <<[k |-> "loop", again |-> w]>>)
    BY <2>2, <2>3, <2>4, <2>5, LoopMeans
  <2> QED
    BY <2>1, <2>6
<1>12. Agree(d, J, d, J) /\ {} \subseteq B
  BY DEF Agree
<1>13. Means(d, J, B, {a}, Len(d), <<[k |-> "loop", again |-> w]>>)
  BY <1>11, <1>12, MeansGrows
<1> QED
  BY <1>9, <1>13

\* A loop that is never entered.
LEMMA NeverEnds ==
  ASSUME NEW c, NEW I, NEW d, NEW J, Agree(c, I, d, J), Len(c) \in Nat, Len(d) = Len(c),
         NEW B, NEW D, NEW f, f.k = "while", Never(f.c), f.head \in Nat,
         NEW m, NEW a, NEW b, Inside(c, I, B, D, f, m, a, b)
  PROVE  Means(d, J, B, {a}, Len(d), Loop("while", f.c, f.n, m))
<1>1. f.head = a /\ Tests(c, I, {a}, {}, {b}, f.c, f.n, 1) /\ b = Len(d)
  BY DEF Inside, Part, WhilePart, Runs
<1>2. Tests(d, J, {a}, {}, {Len(d)}, f.c, f.n, 1)
  BY <1>1, TestsGrow
<1>8. PICK w : w = [k |-> "while", c |-> f.c, n |-> f.n, body |-> m]
  OBVIOUS
<1>9. /\ w.k \notin {"mark", "break"} /\ ~Visible(w)
      /\ Loop("while", f.c, f.n, m) = <<[k |-> "loop", again |-> w]>>
      /\ Unfold(w) = <<Item(f.c, f.n, 1, Append(m, w), << >>)>>
  <2>1. w.k = "while" /\ w.c = f.c /\ w.n = f.n /\ w.body = m
    BY <1>8
  <2>2. Unfold(w) = If(f.c, f.n, Append(m, w), << >>)
    BY <2>1 DEF Unfold
  <2>3. w.k \notin {"mark", "break"} /\ ~Visible(w)
    BY <2>1 DEF Visible
  <2>4. Loop("while", f.c, f.n, m) = <<[k |-> "loop", again |-> w]>>
    BY <1>8 DEF Loop
  <2> QED
    BY <2>2, <2>3, <2>4, IfIs
<1>11. Means(d, J, {}, {a}, Len(d), <<[k |-> "loop", again |-> w]>>)
  <2>1. PICK y, x, cond, n, Y : /\ y = Append(m, w) /\ x = Len(d) /\ cond = f.c /\ n = f.n
                                /\ Y = {}
    OBVIOUS
  <2>2. Tests(d, J, {a}, Y, {x}, cond, n, 1) /\ Means(d, J, Y, Y, a, m)
    BY <1>2, <2>1, NoneMeans
  <2>3. \A v \in Machine : v.ip \in Y => \E z \in Machine : z.ip = x /\ Reaches(d, J, v, z)
    BY <2>1
  <2>4. Unfold(w) = <<Item(cond, n, 1, y, << >>)>> /\ w.k \notin {"mark", "break"} /\ ~Visible(w)
    BY <1>9, <2>1
  <2>5. Y # {} => y = m \o <<w>>
    BY <2>1
  <2>6. Means(d, J, {}, {a}, x, <<[k |-> "loop", again |-> w]>>)
    BY <2>2, <2>3, <2>4, <2>5, LoopMeans
  <2> QED
    BY <2>1, <2>6
<1>12. Agree(d, J, d, J) /\ {} \subseteq B
  BY DEF Agree
<1>13. Means(d, J, B, {a}, Len(d), <<[k |-> "loop", again |-> w]>>)
  BY <1>11, <1>12, MeansGrows
<1> QED
  BY <1>9, <1>13

LEMMA EndWhileBuilt ==
  ASSUME IInv, Compiled, EndWhile
  PROVE  Compiled'
<1>1. After("while")
  BY DEF EndWhile
<1>2. /\ Top.k = "while" /\ IsLoop(Top) /\ Top.last \in BOOLEAN /\ Top.head \in Nat
      /\ Top.exit \in Nat
      /\ Top.last <=> Live(Front(todo))
      /\ em.emit <=> Top.last /\ Runs(Top)
  BY <1>1, LoopTop DEF Live
<1>3. /\ em \in Emitter /\ em.code \in Seq(WordSet) /\ Here(em) = Len(em.code)
      /\ Len(em.code) \in Nat /\ Len(Front(todo)) > 0
  <2>1. em \in Emitter /\ em.code \in Seq(WordSet)
    BY <1>1, TopReady
  <2>2. PICK k : k = "while" /\ After(k)
    BY <1>1
  <2>3. k # "begin" => Len(Front(todo)) > 0
    BY <2>2, AfterIs
  <2>4. Len(Front(todo)) > 0
    BY <2>2, <2>3
  <2> QED
    BY <2>1, <2>4 DEF Here
<1>o. /\ Top.prev \in 0 .. Len(breaks) /\ Below(Top, breaks) = Early(breaks, Top.prev)
      /\ Inner(Front(todo), Top, breaks) = ToSet(Late(breaks, Top.prev))
  BY <1>1, LoopOwns
<1>4. PICK x : x = EmitBranch(em, "BR", Top.head)
  OBVIOUS
<1>5. PICK q : q = Unwind(x)
  OBVIOUS
<1>6. PICK g : g = [q EXCEPT !.emit = Top.last]
  OBVIOUS
<1>7. /\ em' = g /\ todo' = Front(todo) /\ wants' = FALSE
      /\ breaks' = Below(Top, breaks) /\ made' = Loop("while", Top.c, Top.n, made)
  BY <1>4, <1>5, <1>6, <1>o DEF EndWhile, Unwind, Finish, Done, LeaveLoop, Early
<1>8. ASSUME ~em.emit
      PROVE  em'.code = em.code
  <2>1. \A op, to : EmitBranch(em, op, to) = em
    BY <1>3, <1>8, QuietIs
  <2>2. x = em
    BY <1>4, <2>1
  <2>3. q \in Emitter /\ q.emit = em.emit
    BY <1>1, <1>3, <1>5, <1>o, <2>2, UnwindTyped
  <2>4. \A from, to : Patch(em, from, to) = em
    BY <1>3, <1>8, QuietIs
  <2>5. q = em
    BY <1>5, <1>8, <2>2, <2>4 DEF Unwind, PatchBreaks, PatchAll, PatchToCurrent
  <2> QED
    BY <1>2, <1>3, <1>6, <1>7, <2>5, Switched
<1>9. ASSUME em.emit
      PROVE  /\ q \in Emitter /\ em'.code = q.code /\ Len(q.code) = Len(em.code) + 2
             /\ Changes(em.code, q.code, Own(Top, breaks))
             /\ q.code[Len(em.code) + 1].op = "BR"
             /\ q.code[Len(em.code) + 1].by = Top.head - Len(em.code) - BranchSize
             /\ \A p \in Own(Top, breaks) :
                  p \in Nat /\ p < Len(em.code)
                  /\ q.code[p + 1].by = Len(q.code) - p - BranchSize
  <2>1. PICK op \in Branches, to \in Int : op = "BR" /\ to = Top.head /\ x = EmitBranch(em, op, to)
    BY <1>2, <1>4 DEF Branches
  <2>2. /\ x \in Emitter /\ x.emit /\ Here(x) = Here(em) + BranchSize
        /\ x.code[Here(em) + 1].op = op /\ x.code[Here(em) + 1].by = to - Here(em) - BranchSize
        /\ Extends(em.code, x.code)
    <3>1. em \in Emitter /\ em.emit
      BY <1>3, <1>9
    <3> QED
      BY <3>1, <2>1, BranchEmitted
  <2>3. /\ q \in Emitter /\ q.emit /\ Len(q.code) = Len(x.code)
        /\ Changes(em.code, q.code, Own(Top, breaks))
        /\ Changes(x.code, q.code, Own(Top, breaks))
        /\ \A p \in Own(Top, breaks) :
             p \in Nat /\ p < Len(em.code) /\ q.code[p + 1].by = Len(x.code) - p - BranchSize
    BY <1>1, <1>5, <1>9, <2>2, LoopCloses
  <2>4. Len(x.code) = Len(em.code) + 2
    BY <1>3, <2>2 DEF Here, BranchSize
  <2>5. q.code[Len(em.code) + 1] = x.code[Len(em.code) + 1]
    <3>1. Len(em.code) + 1 \in 1 .. Len(x.code) /\ Len(em.code) + 1 - 1 = Len(em.code)
      BY <1>3, <2>4
    <3>2. Len(em.code) \notin Own(Top, breaks)
      BY <1>3, <2>3
    <3> QED
      BY <2>3, <3>1, <3>2 DEF Changes
  <2>6. em'.code = q.code
    BY <1>2, <1>6, <1>7, <2>3, Switched
  <2> QED
    BY <1>3, <2>1, <2>2, <2>3, <2>4, <2>5, <2>6
<1>10. PICK d \in Seq(WordSet) : d = em'.code
  BY <1>3, <1>8, <1>9, EmitterIs
<1>11. Over(d)
  <2>1. Changes(em.code, d, Own(Top, breaks))
    BY <1>3, <1>8, <1>9, <1>10, ChangesSelf
  <2> QED
    BY <1>3, <1>7, <1>o, <2>1 DEF Over
<1>12. PICK I, J : /\ I = Settled(em.code, todo, breaks)
                   /\ J = Settled(d, Front(todo), Below(Top, breaks))
  OBVIOUS
<1>13. Agree(em.code, I, d, J) /\ Own(Top, breaks) \subseteq J /\ Span(Len(em.code), Len(d)) \subseteq J
  <2>1. /\ Grows(em.code, I, d, J) /\ Own(Top, breaks) \subseteq J
        /\ Span(Len(em.code), Len(d)) \subseteq J
    BY <1>1, <1>11, <1>12, OverGrows
  <2> QED
    BY <2>1 DEF Grows
<1>14. ASSUME Live(Front(todo))
       PROVE  Ends(em.code, I, d, J, Front(todo), Top, breaks, made, made')
  <2>1. PICK c, r, B, D, m, f : /\ r = Front(todo) /\ B = Home(r, Len(r), Below(Top, breaks))
                                /\ m = made /\ f = Top /\ c = em.code
                                /\ D = Inner(r, Top, breaks)
    OBVIOUS
  <2>2. SUFFICES ASSUME NEW a \in Nat, NEW b \in Nat, Inside(c, I, B, D, f, m, a, b)
                 PROVE  Means(d, J, B, {a}, Len(d), Loop("while", f.c, f.n, m))
    BY <2>1, <1>7 DEF Ends
  <2>3. f.k = "while" /\ f.head \in Nat /\ Agree(c, I, d, J) /\ Len(c) \in Nat /\ Len(d) \in Nat
    BY <1>2, <1>3, <1>10, <1>13, <2>1
  <2>4. Runs(f) <=> ~Never(f.c)
    BY <2>3 DEF Runs
  <2>5. CASE Never(f.c)
    <3>1. Len(d) = Len(c)
      BY <1>2, <1>8, <1>10, <2>1, <2>4, <2>5
    <3> QED
      BY <2>2, <2>3, <2>5, <3>1, NeverEnds
  <2>6. CASE ~Never(f.c)
    <3>0. em.emit
      BY <1>2, <1>14, <2>1, <2>4, <2>6
    <3>1. /\ d = q.code /\ Len(d) = Len(c) + 2
          /\ d[Len(c) + 1].op = "BR" /\ d[Len(c) + 1].by = f.head - Len(c) - BranchSize
          /\ \A p \in Own(Top, breaks) :
               p \in Nat /\ p < Len(c) /\ d[p + 1].by = Len(d) - p - BranchSize
          /\ Changes(c, d, Own(Top, breaks))
      BY <1>9, <1>10, <2>1, <3>0
    <3>2. Own(Top, breaks) = {f.exit} \cup D /\ \A p \in D : c[p + 1].op = "BR"
      BY <1>1, <1>o, <2>1, <3>0, LoopOwns
    <3>3. \A p \in Own(Top, breaks) : p \in J /\ d[p + 1].op = c[p + 1].op
      <4>1. \A p \in Own(Top, breaks) : p + 1 \in 1 .. Len(c)
        BY <2>3, <3>1
      <4> QED
        BY <1>13, <3>1, <4>1 DEF Changes
    <3>4. Led(c, d, J, f.exit, Len(d))
      BY <3>1, <3>2, <3>3 DEF Led
    <3>5. LeadTo(d, J, D, Len(d))
      BY <3>1, <3>2, <3>3 DEF LeadTo
    <3>6. Len(c) \in J
      <4>1. Len(c) \in Len(c) .. Len(d) - 1
        BY <2>3, <3>1
      <4> QED
        BY <1>13, <2>1, <4>1 DEF Span
    <3> QED
      BY <2>2, <2>3, <2>6, <3>1, <3>4, <3>5, <3>6, WhileEnds
  <2> QED
    BY <2>5, <2>6
<1>15. ASSUME ~Live(Front(todo))
       PROVE  Len(d) = Len(em.code)
  BY <1>2, <1>8, <1>10, <1>15
<1> QED
  BY <1>1, <1>7, <1>10, <1>11, <1>12, <1>14, <1>15, OverBuilt

LEMMA BackInReach ==
  ASSUME IInv, EndFor, orderly', em.emit
  PROVE  InReach(em, Top.head)
<1>1. After("for")
  BY DEF EndFor
<1>2. Top.head \in Nat /\ Top.head + 1 \in Land(em.code)
  BY <1>1, LoopTop
<1>3. Here(em) \in Nat /\ em.code \in Seq(WordSet)
  BY <1>1, AfterIs, ReadyIs
<1>4. Reach \in Nat \ {0}
  BY CodegenAssumption DEF CodegenAssumption
<1>5. Here(em) + BranchSize - Top.head <= Reach
  BY DEF EndFor
<1>6. Top.head <= Here(em)
  BY <1>2, <1>3 DEF Land, Here
<1>7. PICK by \in Int : by = Top.head - Here(em) - BranchSize
  BY <1>2, <1>3 DEF BranchSize
<1>8. by \in -Reach .. Reach - 1
  BY <1>2, <1>3, <1>4, <1>5, <1>6, <1>7 DEF BranchSize
<1>9. Wrap(by) = by
  BY <1>4, <1>8, WrapIs
<1> QED
  BY <1>7, <1>9 DEF InReach

LEMMA AndIncEmitted ==
  ASSUME NEW e \in Emitter, e.emit, NEW n \in Nat, NEW to \in Int, InReach(e, to),
         NEW f, f = EmitBranchAndInc(e, n, to)
  PROVE  /\ f \in Emitter /\ f.emit /\ Here(f) = Here(e) + 2 /\ Extends(e.code, f.code)
         /\ f.code[Here(e) + 1] = [op |-> "BRI", n |-> n, by |-> to - Here(e) - BranchSize]
<1>1. Here(e) \in Nat /\ e.code \in Seq(WordSet)
  BY EmitterIs
<1>2. PICK by \in Int : by = to - Here(e) - BranchSize
  BY <1>1 DEF BranchSize
<1>3. PICK w \in WordSet : w = [op |-> "BRI", n |-> n, by |-> by]
  BY DEF WordSet
<1>4. PICK h \in WordSet : h = SecondHalf
  BY DEF WordSet, SecondHalf
<1>5. PICK g : g = Emit(e, w)
  OBVIOUS
<1>6. /\ g \in Emitter /\ g.emit /\ Here(g) = Here(e) + 1
      /\ g.code[Here(e) + 1] = w /\ Extends(e.code, g.code)
  BY <1>5, WordEmitted
<1>7. f = Emit(g, h)
  BY <1>2, <1>3, <1>4, <1>5 DEF EmitBranchAndInc, InReach
<1>8. /\ f \in Emitter /\ f.emit /\ Here(f) = Here(g) + 1
      /\ Extends(g.code, f.code)
  BY <1>6, <1>7, WordEmitted
<1>9. f.code[Here(e) + 1] = w
  <2>1. Here(e) + 1 \in 0 + 1 .. Len(g.code)
    BY <1>1, <1>6 DEF Here
  <2>2. f.code[Here(e) + 1] = g.code[Here(e) + 1]
    BY <1>8, <2>1 DEF Extends, Same
  <2> QED
    BY <1>6, <2>2
<1>10. Extends(e.code, f.code)
  <2>1. g.code \in Seq(WordSet) /\ f.code \in Seq(WordSet)
    BY <1>6, <1>8, EmitterIs
  <2> QED
    BY <1>1, <1>6, <1>8, <2>1, ExtendsOn
<1> QED
  BY <1>1, <1>2, <1>3, <1>6, <1>8, <1>9, <1>10

LEMMA NextMeans ==
  ASSUME NEW d, NEW J, NEW B, NEW a \in Nat, a \in J, NEW head \in Nat, NEW n,
         d[a + 1] = [op |-> "BRI", n |-> n, by |-> head - a - BranchSize]
  PROVE  Means(d, J, B, {a}, head, <<Act(n, "next")>>)
<1>1. PICK w : w = d[a + 1]
  OBVIOUS
<1>2. w.op = "BRI" /\ w.n = n /\ w.by = head - a - BranchSize
  BY <1>1
<1>3. w.op \in Seen /\ WordEvent(w) = <<n, "next">>
  BY <1>2 DEF Seen, WordEvent
<1>4. ASSUME NEW m \in Machine, m.ip = a, NEW o \in BOOLEAN
      PROVE  Does(w, m, o) \in Machine /\ Does(w, m, o).ip = head
  <2>1. m.ip + BranchSize + w.by = head
    BY <1>2, <1>4 DEF BranchSize
  <2>2. Does(w, m, o) = [m EXCEPT !.ip = @ + BranchSize + w.by]
    BY <1>2 DEF Does
  <2> QED
    BY <2>1, <2>2 DEF Machine
<1> QED
  BY <1>1, <1>3, <1>4, EventMeans

LEMMA ForEnds ==
  ASSUME NEW c, NEW I, NEW d, NEW J, Agree(c, I, d, J), NEW x \in Nat,
         NEW B, NEW D, NEW f, f.k = "for",
         NEW m, NEW a, NEW b, Inside(c, I, B, D, f, m, a, b),
         Led(c, d, J, f.exit, x), LeadTo(d, J, D, x),
         Means(d, J, D, {Len(c)}, f.head, <<Act(f.n, "next")>>),
         NEW z, Means(d, J, B, {x}, z, <<Act(f.n, "put")>>)
  PROVE  Means(d, J, B, {a}, z, Inits(f.n) \o Loop("for", f.c, f.n, m) \o <<Act(f.n, "put")>>)
<1>1. /\ Means(c, I, B, {a}, f.head, Inits(f.n)) /\ TestWaits(c, I, f.head, b, f.exit, f.c, f.n, 1)
      /\ Means(c, I, D, {b}, Len(c), m)
  BY DEF Inside, Part, ForPart, Runs
<1>2. Tests(d, J, {f.head}, {b}, {x}, f.c, f.n, 1)
  BY <1>1 DEF TestWaits
<1>3. Means(d, J, D, {b}, Len(c), m) /\ Means(d, J, B, {a}, f.head, Inits(f.n))
  <2>1. Means(d, J, D, {b}, Len(c), m)
    BY <1>1, MeansGrows
  <2>2. Means(d, J, B, {a}, f.head, Inits(f.n))
    BY <1>1, MeansGrows
  <2> QED
    BY <2>1, <2>2
<1>4. IsSeq(m)
  BY <1>3 DEF Means
<1>5. PICK body, head : body = m \o <<Act(f.n, "next")>> /\ head = f.head
  OBVIOUS
<1>6. Means(d, J, D, {b}, head, body)
  BY <1>3, <1>5, SeqMeans
<1>8. PICK w : w = [k |-> "for", c |-> f.c, n |-> f.n, body |-> m]
  OBVIOUS
<1>9. /\ w.k \notin {"mark", "break"} /\ ~Visible(w)
      /\ Loop("for", f.c, f.n, m) = <<[k |-> "loop", again |-> w]>>
      /\ Unfold(w) = <<Item(f.c, f.n, 1, body \o <<w>>, << >>)>>
  BY <1>4, <1>5, <1>8, LoopIs
<1>10. \A v \in Machine : v.ip \in D => \E y \in Machine : y.ip = x /\ Reaches(d, J, v, y)
  BY LedOut
<1>11. Means(d, J, {}, {head}, x, <<[k |-> "loop", again |-> w]>>)
  <2>1. PICK y, cond, n : y = body \o <<w>> /\ cond = f.c /\ n = f.n
    OBVIOUS
  <2>2. Tests(d, J, {head}, {b}, {x}, cond, n, 1)
    BY <1>2, <1>5, <2>1
  <2>4. Unfold(w) = <<Item(cond, n, 1, y, << >>)>> /\ w.k \notin {"mark", "break"} /\ ~Visible(w)
    BY <1>9, <2>1
  <2>5. {b} # {} => y = body \o <<w>>
    BY <2>1
  <2> QED
    BY <1>6, <1>10, <2>2, <2>4, <2>5, LoopMeans
<1>12. Agree(d, J, d, J) /\ {} \subseteq B
  BY DEF Agree
<1>13. Means(d, J, B, {head}, x, Loop("for", f.c, f.n, m))
  BY <1>9, <1>11, <1>12, MeansGrows
<1>14. Means(d, J, B, {a}, x, Inits(f.n) \o Loop("for", f.c, f.n, m))
  BY <1>3, <1>5, <1>13, SeqMeans
<1> QED
  BY <1>14, SeqMeans

\* What follows in the code changes nothing of what is before it.
LEMMA ChangesThen ==
  ASSUME NEW c \in Seq(WordSet), NEW x \in Seq(WordSet), NEW d \in Seq(WordSet),
         NEW P, Changes(c, x, P), Extends(x, d)
  PROVE  /\ Changes(c, d, P)
         /\ \A p : p \in Nat /\ p < Len(c) => d[p + 1] = x[p + 1]
<1>1. Len(c) <= Len(x) /\ Len(x) <= Len(d) /\ Len(c) \in Nat /\ Len(x) \in Nat /\ Len(d) \in Nat
  BY DEF Extends, Changes
<1>2. ASSUME NEW i \in 1 .. Len(c) PROVE d[i] = x[i]
  <2>1. i \in 0 + 1 .. Len(x)
    BY <1>1
  <2> QED
    BY <2>1 DEF Extends, Same
<1>3. \A i \in 1 .. Len(c) : d[i].op = c[i].op /\ (i - 1 \notin P => d[i] = c[i])
  BY <1>2 DEF Changes
<1>4. \A p : p \in Nat /\ p < Len(c) => d[p + 1] = x[p + 1]
  BY <1>1, <1>2
<1> QED
  BY <1>1, <1>3, <1>4 DEF Changes

LEMMA EndForBuilt ==
  ASSUME IInv, Compiled, EndFor
  PROVE  Compiled'
<1>s. SUFFICES ASSUME orderly'
               PROVE  Compiled'
  BY DEF Compiled
<1>1. After("for")
  BY DEF EndFor
<1>2. /\ Top.k = "for" /\ IsLoop(Top) /\ Top.head \in Nat /\ Top.n \in Nat
      /\ Top.exit \in Nat
      /\ Top.last <=> Live(Front(todo))
      /\ em.emit <=> Top.last /\ Runs(Top)
  BY <1>1, LoopTop DEF Live
<1>3. /\ em \in Emitter /\ em.code \in Seq(WordSet) /\ Here(em) = Len(em.code)
      /\ Len(em.code) \in Nat /\ Len(Front(todo)) > 0 /\ Top.c = Counter
  <2>1. em \in Emitter /\ em.code \in Seq(WordSet) /\ FrameOK(Top)
    BY <1>1, TopReady
  <2>2. PICK k : k = "for" /\ After(k)
    BY <1>1
  <2>3. k # "begin" => Len(Front(todo)) > 0
    BY <2>2, AfterIs
  <2>4. Len(Front(todo)) > 0
    BY <2>2, <2>3
  <2>5. Top.c = Counter
    BY <1>2, <2>1 DEF FrameOK
  <2> QED
    BY <2>1, <2>4, <2>5 DEF Here
<1>l. em.emit <=> Live(Front(todo))
  BY <1>2 DEF Runs
<1>o. /\ Top.prev \in 0 .. Len(breaks) /\ Below(Top, breaks) = Early(breaks, Top.prev)
      /\ Inner(Front(todo), Top, breaks) = ToSet(Late(breaks, Top.prev))
  BY <1>1, LoopOwns
<1>4. PICK x : x = EmitBranchAndInc(em, Top.n, Top.head)
  OBVIOUS
<1>5. PICK q : q = Unwind(x)
  OBVIOUS
<1>6. PICK g : g = Emit(q, ActWord(Top.n, "put"))
  OBVIOUS
<1>7. /\ em' = g /\ todo' = Front(todo) /\ wants' = FALSE
      /\ breaks' = Below(Top, breaks)
      /\ made' = Inits(Top.n) \o Loop("for", Counter, Top.n, made) \o <<Act(Top.n, "put")>>
  BY <1>4, <1>5, <1>6, <1>o DEF EndFor, Unwind, Finish, Done, LeaveLoop, Early, Inits
<1>8. ASSUME ~em.emit
      PROVE  em'.code = em.code
  <2>1. \A w : Emit(em, w) = em
    BY <1>3, <1>8, QuietIs
  <2>2. x = em
    BY <1>4, <2>1 DEF EmitBranchAndInc
  <2>4. \A from, to : Patch(em, from, to) = em
    BY <1>3, <1>8, QuietIs
  <2>5. q = em
    BY <1>5, <1>8, <2>2, <2>4 DEF Unwind, PatchBreaks, PatchAll, PatchToCurrent
  <2> QED
    BY <1>6, <1>7, <2>1, <2>5
<1>9. ASSUME em.emit
      PROVE  /\ q \in Emitter /\ q.emit /\ Len(q.code) = Len(em.code) + 2
             /\ Changes(em.code, q.code, Own(Top, breaks))
             /\ q.code[Len(em.code) + 1] =
                  [op |-> "BRI", n |-> Top.n, by |-> Top.head - Len(em.code) - BranchSize]
             /\ \A p \in Own(Top, breaks) :
                  p \in Nat /\ p < Len(em.code)
                  /\ q.code[p + 1].by = Len(q.code) - p - BranchSize
  <2>1. PICK n \in Nat, to \in Int : n = Top.n /\ to = Top.head /\ x = EmitBranchAndInc(em, n, to)
    BY <1>2, <1>4
  <2>2. /\ x \in Emitter /\ x.emit /\ Here(x) = Here(em) + 2 /\ Extends(em.code, x.code)
        /\ x.code[Here(em) + 1] = [op |-> "BRI", n |-> n, by |-> to - Here(em) - BranchSize]
    <3>1. em \in Emitter /\ em.emit
      BY <1>3, <1>9
    <3>2. InReach(em, to)
      BY <1>s, <1>9, <2>1, BackInReach
    <3> QED
      BY <3>1, <3>2, <2>1, AndIncEmitted
  <2>3. /\ q \in Emitter /\ q.emit /\ Len(q.code) = Len(x.code)
        /\ Changes(em.code, q.code, Own(Top, breaks))
        /\ Changes(x.code, q.code, Own(Top, breaks))
        /\ \A p \in Own(Top, breaks) :
             p \in Nat /\ p < Len(em.code) /\ q.code[p + 1].by = Len(x.code) - p - BranchSize
    BY <1>1, <1>5, <1>9, <2>2, LoopCloses
  <2>4. Len(x.code) = Len(em.code) + 2
    BY <1>3, <2>2 DEF Here
  <2>5. q.code[Len(em.code) + 1] = x.code[Len(em.code) + 1]
    <3>1. Len(em.code) + 1 \in 1 .. Len(x.code) /\ Len(em.code) + 1 - 1 = Len(em.code)
      BY <1>3, <2>4
    <3>2. Len(em.code) \notin Own(Top, breaks)
      BY <1>3, <2>3
    <3> QED
      BY <2>3, <3>1, <3>2 DEF Changes
  <2> QED
    BY <1>3, <2>1, <2>2, <2>3, <2>4, <2>5
<1>w. ASSUME em.emit, NEW K, Here(q) \in K, NEW B
      PROVE  HasEvent(q, g, Top.n, "put", K, B)
  <2>1. PICK what \in {"do", "init", "bound", "put"}, n \in Nat :
          what = "put" /\ n = Top.n /\ g = Emit(q, ActWord(n, what))
    BY <1>2, <1>6
  <2>2. q \in Emitter /\ q.emit
    BY <1>9, <1>w
  <2>3. HasEvent(q, g, n, what, K, B)
    BY <1>w, <2>1, <2>2, ActMeans
  <2> QED
    BY <2>1, <2>3
<1>e. ASSUME em.emit
      PROVE  /\ g \in Emitter /\ Len(g.code) = Len(em.code) + 3 /\ Extends(q.code, g.code)
             /\ Changes(em.code, g.code, Own(Top, breaks))
             /\ g.code[Len(em.code) + 1] =
                  [op |-> "BRI", n |-> Top.n, by |-> Top.head - Len(em.code) - BranchSize]
             /\ \A p \in Own(Top, breaks) :
                  p \in Nat /\ p < Len(em.code)
                  /\ g.code[p + 1].by = Len(q.code) - p - BranchSize
  <2>1. PICK K, B : K = {Here(q)} /\ B = {Here(q)}
    OBVIOUS
  <2>2. g \in Emitter /\ Here(g) = Here(q) + 1 /\ Extends(q.code, g.code)
    BY <1>e, <1>w, <2>1 DEF HasEvent
  <2>3. Len(g.code) = Len(em.code) + 3
    BY <1>e, <1>3, <1>9, <2>2 DEF Here
  <2>4. q.code \in Seq(WordSet) /\ g.code \in Seq(WordSet)
    BY <1>e, <1>9, <2>2, EmitterIs
  <2>5. /\ Changes(em.code, g.code, Own(Top, breaks))
        /\ \A p : p \in Nat /\ p < Len(em.code) => g.code[p + 1] = q.code[p + 1]
    BY <1>e, <1>3, <1>9, <2>2, <2>4, ChangesThen
  <2>6. g.code[Len(em.code) + 1] = q.code[Len(em.code) + 1]
    <3>1. Len(em.code) + 1 \in 0 + 1 .. Len(q.code)
      BY <1>e, <1>3, <1>9
    <3> QED
      BY <2>2, <3>1 DEF Extends, Same
  <2> QED
    BY <1>e, <1>9, <2>2, <2>3, <2>5, <2>6
<1>10. PICK d \in Seq(WordSet) : d = em'.code
  BY <1>3, <1>7, <1>8, <1>e, EmitterIs
<1>11. Over(d)
  <2>1. Changes(em.code, d, Own(Top, breaks))
    BY <1>3, <1>7, <1>8, <1>e, <1>10, ChangesSelf
  <2> QED
    BY <1>3, <1>7, <1>o, <2>1 DEF Over
<1>12. PICK I, J : /\ I = Settled(em.code, todo, breaks)
                   /\ J = Settled(d, Front(todo), Below(Top, breaks))
  OBVIOUS
<1>13. Agree(em.code, I, d, J) /\ Own(Top, breaks) \subseteq J /\ Span(Len(em.code), Len(d)) \subseteq J
  <2>1. /\ Grows(em.code, I, d, J) /\ Own(Top, breaks) \subseteq J
        /\ Span(Len(em.code), Len(d)) \subseteq J
    BY <1>1, <1>11, <1>12, OverGrows
  <2> QED
    BY <2>1 DEF Grows
<1>14. ASSUME Live(Front(todo))
       PROVE  Ends(em.code, I, d, J, Front(todo), Top, breaks, made, made')
  <2>1. PICK c, r, B, D, m, f : /\ r = Front(todo) /\ B = Home(r, Len(r), Below(Top, breaks))
                                /\ m = made /\ f = Top /\ c = em.code
                                /\ D = Inner(r, Top, breaks)
    OBVIOUS
  <2>2. SUFFICES ASSUME NEW a \in Nat, NEW b \in Nat, Inside(c, I, B, D, f, m, a, b)
                 PROVE  Means(d, J, B, {a}, Len(d),
                              Inits(f.n) \o Loop("for", f.c, f.n, m) \o <<Act(f.n, "put")>>)
    BY <2>1, <1>3, <1>7 DEF Ends
  <2>3. f.k = "for" /\ f.head \in Nat /\ Agree(c, I, d, J) /\ Len(c) \in Nat /\ Len(d) \in Nat
    BY <1>2, <1>3, <1>10, <1>13, <2>1
  <2>4. em.emit
    BY <1>l, <1>14
  <2>5. PICK x0 \in Nat : x0 = Len(q.code) /\ x0 = Len(c) + 2
    BY <1>9, <2>1, <2>3, <2>4
  <2>6. /\ d = g.code /\ Len(d) = Len(c) + 3
        /\ d[Len(c) + 1] = [op |-> "BRI", n |-> f.n, by |-> f.head - Len(c) - BranchSize]
        /\ \A p \in Own(Top, breaks) :
             p \in Nat /\ p < Len(c) /\ d[p + 1].by = x0 - p - BranchSize
        /\ Changes(c, d, Own(Top, breaks))
    BY <1>7, <1>e, <1>10, <2>1, <2>4, <2>5
  <2>7. Own(Top, breaks) = {f.exit} \cup D /\ \A p \in D : c[p + 1].op = "BR"
    BY <1>1, <1>o, <2>1, <2>4, LoopOwns
  <2>8. \A p \in Own(Top, breaks) : p \in J /\ d[p + 1].op = c[p + 1].op
    <3>1. \A p \in Own(Top, breaks) : p + 1 \in 1 .. Len(c)
      BY <2>3, <2>6
    <3> QED
      BY <1>13, <2>6, <3>1 DEF Changes
  <2>9. Led(c, d, J, f.exit, x0) /\ LeadTo(d, J, D, x0)
    BY <2>6, <2>7, <2>8 DEF Led, LeadTo
  <2>10. Len(c) \in J /\ x0 \in J
    <3>1. Len(c) \in Len(c) .. Len(d) - 1 /\ x0 \in Len(c) .. Len(d) - 1
      BY <2>3, <2>5, <2>6
    <3> QED
      BY <1>13, <2>1, <3>1 DEF Span
  <2>11. Means(d, J, D, {Len(c)}, f.head, <<Act(f.n, "next")>>)
    <3>n. PICK n : n = f.n
      OBVIOUS
    <3>1. PICK p \in Nat, head \in Nat : p = Len(c) /\ head = f.head /\ n = f.n
      BY <2>3, <3>n
    <3>2. p \in J /\ d[p + 1] = [op |-> "BRI", n |-> n, by |-> head - p - BranchSize]
      BY <2>6, <2>10, <3>1
    <3>3. Means(d, J, D, {p}, head, <<Act(n, "next")>>)
      BY <3>2, NextMeans
    <3> QED
      BY <3>1, <3>3
  <2>12. Means(d, J, B, {x0}, Len(d), <<Act(f.n, "put")>>)
    <3>1. Here(q) = x0 /\ Here(g) = Len(d)
      BY <2>5, <2>6 DEF Here
    <3>2. HasEvent(q, g, Top.n, "put", J, B)
      BY <1>w, <2>4, <2>10, <3>1
    <3> QED
      BY <2>1, <2>6, <3>1, <3>2 DEF HasEvent
  <2> QED
    BY <2>2, <2>3, <2>9, <2>11, <2>12, ForEnds
<1>15. ASSUME ~Live(Front(todo))
       PROVE  Len(d) = Len(em.code)
  BY <1>l, <1>8, <1>10, <1>15
<1> QED
  BY <1>1, <1>7, <1>10, <1>11, <1>12, <1>14, <1>15, OverBuilt

LEMMA RepeatIs ==
  ASSUME NEW c, NEW n, NEW body, NEW w, w = [k |-> "repeat", c |-> c, n |-> n, body |-> body]
  PROVE  /\ w.k \notin {"mark", "break"} /\ ~Visible(w)
         /\ Loop("repeat", c, n, body) = <<[k |-> "loop", again |-> w]>>
         /\ Unfold(w) = body \o <<Item(c, n, 1, << >>, <<w>>)>>
<1>1. w.k = "repeat" /\ w.c = c /\ w.n = n /\ w.body = body
  OBVIOUS
<1>2. Unfold(w) = body \o If(c, n, << >>, <<w>>)
  BY <1>1 DEF Unfold
<1>3. Loop("repeat", c, n, body) = <<[k |-> "loop", again |-> w]>>
  BY DEF Loop
<1> QED
  BY <1>1, <1>2, <1>3, IfIs DEF Visible

LEMMA RepeatEnds ==
  ASSUME NEW c, NEW I, NEW d, NEW J, Agree(c, I, d, J),
         NEW B, NEW f, f.k = "repeat",
         NEW m, NEW a, NEW b, Inside(c, I, B, {}, f, m, a, b),
         NEW cond, NEW n, NEW x, Tests(d, J, {Len(c)}, {x}, {f.head}, cond, n, 1)
  PROVE  Means(d, J, B, {a}, x, Loop("repeat", cond, n, f.list \o m))
<1>1. /\ f.head = a /\ Means(c, I, {}, {a}, b, f.list) /\ Means(c, I, {}, {b}, Len(c), m)
  BY DEF Inside, Part, Runs
<1>2. PICK body : body = f.list \o m
  OBVIOUS
<1>3. Means(c, I, {}, {a}, Len(c), body)
  BY <1>1, <1>2, SeqMeans
<1>4. Means(d, J, {}, {a}, Len(c), body)
  BY <1>3, MeansGrows
<1>5. PICK w : w = [k |-> "repeat", c |-> cond, n |-> n, body |-> body]
  OBVIOUS
<1>6. /\ w.k \notin {"mark", "break"} /\ ~Visible(w)
      /\ Loop("repeat", cond, n, body) = <<[k |-> "loop", again |-> w]>>
      /\ Unfold(w) = body \o <<Item(cond, n, 1, << >>, <<w>>)>>
  BY <1>5, RepeatIs
<1>7. PICK u : u = Len(c)
  OBVIOUS
<1>8. Tests(d, J, {u}, {x}, {a}, cond, n, 1) /\ Means(d, J, {}, {a}, u, body)
  BY <1>1, <1>4, <1>7
<1>9. Means(d, J, B, {a}, x, <<[k |-> "loop", again |-> w]>>)
  BY <1>6, <1>8, RepeatMeans
<1> QED
  BY <1>2, <1>6, <1>9

\* The code of UNTIL.
LEMMA UntilWords ==
  ASSUME NEW A, NEW e, Sound(e, A), e.emit, NEW c \in Conditions, ShortCircuits(c), NEW n \in Nat,
         NEW head \in Nat, NEW x, x = Expr(e, c, n), NEW g, g = BranchUnless(x, c, n),
         NEW q, q = Patch(g, BranchAt(g), head)
  PROVE  /\ q \in Emitter /\ Len(e.code) <= Len(q.code) /\ Changes(e.code, q.code, {})
         /\ \A J : Span(Len(e.code), Len(q.code)) \subseteq J =>
                     Tests(q.code, J, {Len(e.code)}, {Len(q.code)}, {head}, c, n, 1)
<1>0. e \in Emitter /\ Here(e) \in Nat /\ e.code \in Seq(WordSet) /\ Here(e) = Len(e.code)
  BY SoundIs DEF Here
<1>1. HasExpr(e, x, c, n)
  BY CostIs, ExprHas
<1>k. PICK K : K = Span(Here(e), BranchAt(g))
  OBVIOUS
<1>2. PICK at \in Nat : /\ K = Span(Here(e), BranchAt(g)) /\ at = BranchAt(g)
                   /\ TestWaits(g.code, K, Here(e), Here(g), at, c, n, 1)
                   /\ g \in Emitter /\ g.emit /\ Extends(e.code, g.code)
                   /\ Here(e) <= at /\ Here(g) = at + 2
  <2>2. /\ TestWaits(g.code, K, Here(e), Here(g), BranchAt(g), c, n, 1)
        /\ g \in Emitter /\ g.emit /\ Extends(e.code, g.code)
        /\ BranchAt(g) \in Nat /\ Here(e) <= BranchAt(g) /\ Here(g) = BranchAt(g) + 2
    <3>1. Span(Here(e), BranchAt(g)) \subseteq K /\ e \in Emitter
      BY <1>k, <1>0
    <3> QED
      BY <3>1, <1>1, BranchWaits
  <2> QED
    BY <1>k, <2>2
<1>3. IsBranch(g.code, at)
  <2>1. Sound(x, A) /\ x.emit
    <3>1. Sound(x, A) /\ x.emit = e.emit
      BY CostIs, ExprSound
    <3> QED
      BY <3>1
  <2>2. x.emit => IsBranch(g.code, BranchAt(g))
    BY <2>1, CostIs, ConditionSound
  <2> QED
    BY <1>2, <2>1, <2>2
<1>4. PICK to \in Int : to = head
  OBVIOUS
<1>5. q \in Emitter /\ Here(q) = Here(g) /\ Patched(g.code, q.code, at, to)
  <2>1. g \in Emitter /\ q = Patch(g, at, to)
    BY <1>2, <1>4
  <2>2. g.emit /\ IsBranch(g.code, at) =>
          q \in Emitter /\ q.emit /\ Here(q) = Here(g) /\ Patched(g.code, q.code, at, to)
    BY <2>1, PatchOne
  <2> QED
    BY <1>2, <1>3, <2>2
<1>6. PICK c0, y, d : c0 = e.code /\ y = g.code /\ d = q.code
  OBVIOUS
<1>7. /\ c0 \in Seq(WordSet) /\ y \in Seq(WordSet) /\ d \in Seq(WordSet) /\ Extends(c0, y)
      /\ Len(y) = at + 2 /\ Len(d) = at + 2 /\ Patched(y, d, at, to) /\ Len(c0) <= at
      /\ Len(c0) = Here(e)
  BY <1>0, <1>2, <1>5, <1>6, EmitterIs DEF Here
<1>8. Changes(y, d, {at}) /\ \A J : at \in J => Led(y, d, J, at, to)
  BY <1>7, PatchedIs
<1>9. Changes(c0, d, {at})
  BY <1>7, <1>8, ChangesMore
<1>10. Changes(c0, d, {})
  BY <1>7, <1>9 DEF Changes
<1>11. ASSUME NEW J, Span(Len(c0), Len(d)) \subseteq J
       PROVE  Tests(d, J, {Len(c0)}, {Len(d)}, {to}, c, n, 1)
  <2>1. \A p \in K : p \in J /\ p \in 0 .. at - 1
    <3>1. K = Span(Len(c0), at)
      BY <1>2, <1>7
    <3>2. \A p \in K : p \in Nat /\ Len(c0) <= p /\ p < at
      BY <3>1, <1>7 DEF Span
    <3>3. \A p \in K : p \in Span(Len(c0), Len(d))
      BY <3>2, <1>7 DEF Span
    <3> QED
      BY <3>2, <3>3, <1>11
  <2>2. at \in J
    BY <1>7, <1>11 DEF Span
  <2>3. Agree(y, K, d, J)
    <3>1. \A p \in K : p + 1 \in 1 .. Len(y) /\ p + 1 # at + 1
      BY <1>7, <2>1
    <3>2. \A p \in K : d[p + 1] = y[p + 1]
      BY <1>7, <3>1 DEF Patched
    <3> QED
      BY <2>1, <3>2 DEF Agree
  <2>4. Led(y, d, J, at, to) /\ to \in Nat
    BY <1>4, <1>8, <2>2
  <2>5. TestWaits(y, K, Len(c0), Len(d), at, c, n, 1)
    <3>1. Here(g) = Len(d)
      BY <1>2, <1>7
    <3> QED
      BY <1>2, <1>6, <1>7, <3>1
  <2> QED
    BY <2>3, <2>4, <2>5 DEF TestWaits
<1>12. \A J : Span(Len(e.code), Len(q.code)) \subseteq J =>
                Tests(q.code, J, {Len(e.code)}, {Len(q.code)}, {head}, c, n, 1)
  BY <1>4, <1>6, <1>11
<1>13. Len(e.code) <= Len(q.code) /\ Changes(e.code, q.code, {})
  BY <1>6, <1>10 DEF Changes
<1> QED
  BY <1>5, <1>12, <1>13

LEMMA UntilBuilt ==
  ASSUME IInv, Compiled, NEW c \in Conditions, Until(c)
  PROVE  Compiled'
<1>s. SUFFICES ASSUME orderly'
               PROVE  Compiled'
  BY DEF Compiled
<1>1. After("repeat")
  BY DEF Until
<1>2. /\ Top.k = "repeat" /\ FrameOK(Top) /\ em \in Emitter /\ em.code \in Seq(WordSet)
      /\ em.emit <=> Live(Front(todo)) /\ Runs(Top)
  BY <1>1, TopReady
<1>3. /\ Top.n \in Nat /\ Top.head \in Nat /\ ~IsLoop(Top) /\ Runs(Top)
      /\ Below(Top, breaks) = breaks /\ Own(Top, breaks) = {} /\ ShortCircuits(c)
  <2>1. /\ Top.n \in Nat /\ Top.head \in Nat /\ ~IsLoop(Top) /\ Runs(Top)
        /\ Below(Top, breaks) = breaks
    BY <1>2 DEF FrameOK, IsLoop, Runs, Loops, Below
  <2>2. Own(Top, breaks) = {}
    BY <1>2, <2>1 DEF Own, Sites, IsLoop, IsCase
  <2>3. ShortCircuits(c)
    BY <1>s DEF Until
  <2> QED
    BY <2>1, <2>2, <2>3
<1>4. Len(Front(todo)) > 0 /\ Sound(em, Waiting(todo, breaks))
  <2>1. PICK k : k = "repeat" /\ After(k)
    BY <1>1
  <2>2. k # "begin" => Len(Front(todo)) > 0
    BY <2>1, AfterIs
  <2>3. Ready
    BY <1>1 DEF After
  <2> QED
    BY <2>1, <2>2, <2>3, ReadyIs
<1>5. PICK x, g, q, n, head : /\ x = Expr(em, c, n) /\ g = BranchUnless(x, c, n)
                              /\ q = Patch(g, BranchAt(g), head)
                              /\ n = Top.n /\ head = Top.head
  OBVIOUS
<1>6. /\ em' = q /\ todo' = Front(todo) /\ wants' = FALSE /\ UNCHANGED breaks
      /\ made' = Loop("repeat", c, n, Top.list \o made)
  BY <1>5 DEF Until, Finish, Done
<1>7. ASSUME ~em.emit
      PROVE  em'.code = em.code
  <2>1. x \in Emitter /\ ~x.emit /\ x.code = em.code
    BY <1>2, <1>5, <1>7, QuietExpr
  <2>2. \A y, m, side, sense : BranchIf(x, y, m, side, sense) = x
    BY <2>1, QuietIs
  <2>3. g = x
    BY <1>5, <2>2 DEF BranchUnless
  <2>4. \A from, to : Patch(x, from, to) = x
    BY <2>1, QuietIs
  <2> QED
    BY <1>5, <1>6, <2>1, <2>3, <2>4
<1>8. ASSUME em.emit
      PROVE  /\ q \in Emitter /\ Len(em.code) <= Len(q.code) /\ Changes(em.code, q.code, {})
             /\ \A J : Span(Len(em.code), Len(q.code)) \subseteq J =>
                         Tests(q.code, J, {Len(em.code)}, {Len(q.code)}, {head}, c, n, 1)
  <2>1. n \in Nat /\ head \in Nat
    BY <1>3, <1>5
  <2>2. x = Expr(em, c, n) /\ g = BranchUnless(x, c, n) /\ q = Patch(g, BranchAt(g), head)
    BY <1>5
  <2> QED
    BY <1>3, <1>4, <1>8, <2>1, <2>2, UntilWords
<1>9. PICK d \in Seq(WordSet) : d = em'.code
  BY <1>2, <1>6, <1>7, <1>8, EmitterIs
<1>10. Over(d)
  <2>1. Changes(em.code, d, Own(Top, breaks))
    BY <1>2, <1>3, <1>6, <1>7, <1>8, <1>9, ChangesSelf
  <2> QED
    BY <1>3, <1>4, <1>6, <2>1 DEF Over
<1>11. PICK I, J : /\ I = Settled(em.code, todo, breaks)
                   /\ J = Settled(d, Front(todo), Below(Top, breaks))
  OBVIOUS
<1>12. Agree(em.code, I, d, J) /\ Span(Len(em.code), Len(d)) \subseteq J
  <2>1. Grows(em.code, I, d, J) /\ Span(Len(em.code), Len(d)) \subseteq J
    BY <1>1, <1>10, <1>11, OverGrows
  <2> QED
    BY <2>1 DEF Grows
<1>13. ASSUME Live(Front(todo))
       PROVE  Ends(em.code, I, d, J, Front(todo), Top, breaks, made, made')
  <2>1. PICK c0, r, B, m, f : /\ r = Front(todo) /\ B = Home(r, Len(r), breaks)
                              /\ m = made /\ f = Top /\ c0 = em.code
    OBVIOUS
  <2>2. Inner(r, f, breaks) = {}
    BY <2>1, <1>2, <1>3, InnerIs
  <2>3. SUFFICES ASSUME NEW a \in Nat, NEW b \in Nat, Inside(c0, I, B, {}, f, m, a, b)
                 PROVE  Means(d, J, B, {a}, Len(d), Loop("repeat", c, n, f.list \o m))
    BY <2>1, <2>2, <1>3, <1>6 DEF Ends
  <2>4. em.emit
    BY <1>2, <1>3, <1>13
  <2>5. Tests(d, J, {Len(c0)}, {Len(d)}, {f.head}, c, n, 1)
    BY <1>5, <1>6, <1>8, <1>9, <1>12, <2>1, <2>4
  <2>6. f.k = "repeat" /\ Agree(c0, I, d, J)
    BY <1>2, <1>12, <2>1
  <2> QED
    BY <2>3, <2>5, <2>6, RepeatEnds
<1>14. ASSUME ~Live(Front(todo))
       PROVE  Len(d) = Len(em.code)
  BY <1>2, <1>7, <1>9, <1>14
<1> QED
  BY <1>1, <1>6, <1>9, <1>10, <1>11, <1>13, <1>14, OverBuilt

-----------------------------------------------------------------------------
(* CASE *)

\* The branches at P go to x.
JumpsTo(d, J, P, x) == \A p \in P : p \in J /\ d[p + 1].op = "BR" /\ d[p + 1].by = x - p - BranchSize
\* Of an arm: from N on the code takes it and goes on at x, or goes on at M.
Takes(d, J, D, x, N, P, X, M, n, arm) ==
  /\ x \in X /\ JumpsTo(d, J, P, x)
  /\ \E Y : Tests(d, J, N, Y, M, arm.c, n, arm.side) /\ Means(d, J, D, Y, x, arm.body)
LEMMA CaseOn ==
  ASSUME NEW d, NEW J, NEW D, NEW x, NEW N, NEW M, NEW Y, NEW n, NEW arm, NEW more, NEW o,
         Tests(d, J, N, Y, M, arm.c, n, arm.side), Means(d, J, D, Y, x, arm.body),
         IsSeq(more), Means(d, J, D, M, x, <<CaseOf(n, more, o)>>)
  PROVE  Means(d, J, D, N, x, <<CaseOf(n, <<arm>> \o more, o)>>)
<1>1. PICK z : z = <<CaseOf(n, more, o)>>
  OBVIOUS
<1>2. PICK q : q = <<Item(arm.c, n, arm.side, arm.body, z)>>
  OBVIOUS
<1>3. Means(d, J, D, N, x, q)
  BY <1>1, <1>2, IfMeans
<1>4. PICK a : a = <<arm>> \o more
  OBVIOUS
<1>5. a # << >> /\ Head(a) = arm /\ Rest(a) = more
  BY <1>4, RestSingle
<1>6. PICK s : s = CaseOf(n, a, o)
  OBVIOUS
<1>7. s.k = "case" /\ ~Visible(s) /\ Unfold(s) = q
  BY <1>1, <1>2, <1>5, <1>6, CaseItem
<1>8. Means(d, J, D, N, x, <<s>>)
  BY <1>3, <1>7, FoldMeans
<1> QED
  BY <1>4, <1>6, <1>8
\* One arm more.
LEMMA ArmFalls ==
  ASSUME NEW c, NEW I, NEW B, NEW a, NEW N, NEW P, NEW X, NEW n, NEW arms,
         Falls(c, I, B, a, N, P, X, n, arms),
         NEW d, NEW J, Agree(c, I, d, J), NEW arm, NEW M, NEW Q, NEW Z,
         \A g, K, D, x : Agree(d, J, g, K) /\ B \subseteq D /\ x \in Z /\ JumpsTo(g, K, Q, x)
                           => Takes(g, K, D, x, N, P, X, M, n, arm)
  PROVE  Falls(d, J, B, a, M, Q, Z, n, arms \o <<arm>>)
<1>1. IsSeq(arms) /\ IsSeq(<<arm>>) /\ IsSeq(arms \o <<arm>>)
  BY CatIs, SingleIs DEF Falls
<1>2. ASSUME NEW g, NEW K, NEW D, NEW x, NEW more, NEW o, x \in Z, Agree(d, J, g, K),
             B \subseteq D, IsSeq(more), JumpsTo(g, K, Q, x),
             Means(g, K, D, M, x, <<CaseOf(n, more, o)>>)
      PROVE  Means(g, K, D, {a}, x, <<CaseOf(n, (arms \o <<arm>>) \o more, o)>>)
  <2>1. Takes(g, K, D, x, N, P, X, M, n, arm)
    BY <1>2
  <2>2. PICK Y : Tests(g, K, N, Y, M, arm.c, n, arm.side) /\ Means(g, K, D, Y, x, arm.body)
    BY <2>1 DEF Takes
  <2>3. PICK rest : rest = <<arm>> \o more
    OBVIOUS
  <2>4. Means(g, K, D, N, x, <<CaseOf(n, rest, o)>>)
    BY <1>2, <2>2, <2>3, CaseOn
  <2>5. IsSeq(rest)
    BY <1>1, <1>2, <2>3, CatIs
  <2>6. x \in X /\ \A p \in P : p \in K /\ g[p + 1].op = "BR" /\ g[p + 1].by = x - p - BranchSize
    BY <2>1 DEF Takes, JumpsTo
  <2>7. Agree(c, I, g, K)
    BY <1>2, AgreeOn
  <2>8. Means(g, K, D, {a}, x, <<CaseOf(n, arms \o rest, o)>>)
    BY <1>2, <2>4, <2>5, <2>6, <2>7 DEF Falls
  <2>9. (arms \o <<arm>>) \o more = arms \o rest
    <3>1. PICK one : one = <<arm>> /\ IsSeq(one)
      BY <1>1
    <3>2. (arms \o one) \o more = arms \o (one \o more)
      BY <1>1, <1>2, <3>1, CatAssoc
    <3> QED
      BY <2>3, <3>1, <3>2
  <2>10. PICK all : all = arms \o rest
    OBVIOUS
  <2>11. Means(g, K, D, {a}, x, <<CaseOf(n, all, o)>>)
    BY <2>8, <2>10
  <2>12. all = (arms \o <<arm>>) \o more
    BY <2>9, <2>10
  <2> QED
    BY <2>11, <2>12
<1>3. PICK longer : longer = arms \o <<arm>> /\ IsSeq(longer)
  BY <1>1
<1>4. ASSUME NEW g, NEW K, NEW D, NEW x, NEW more, NEW o, x \in Z, Agree(d, J, g, K),
             B \subseteq D, IsSeq(more), JumpsTo(g, K, Q, x),
             Means(g, K, D, M, x, <<CaseOf(n, more, o)>>)
      PROVE  Means(g, K, D, {a}, x, <<CaseOf(n, longer \o more, o)>>)
  BY <1>2, <1>3, <1>4
<1>5. Falls(d, J, B, a, M, Q, Z, n, longer)
  BY <1>3, <1>4, ZenonT(60) DEF Falls, JumpsTo
<1> QED
  BY <1>3, <1>5
\* All arms are there, and the others' code.
LEMMA FallsEnd ==
  ASSUME NEW c, NEW I, NEW B, NEW a, NEW N, NEW P, NEW X, NEW n, NEW arms,
         Falls(c, I, B, a, N, P, X, n, arms),
         NEW d, NEW J, Agree(c, I, d, J), NEW x \in X, JumpsTo(d, J, P, x),
         NEW o, Means(d, J, B, N, x, o)
  PROVE  Means(d, J, B, {a}, x, <<CaseOf(n, arms, o)>>)
<1>1. PICK s : s = CaseOf(n, << >>, o)
  OBVIOUS
<1>2. s.k = "case" /\ ~Visible(s) /\ Unfold(s) = o
  BY <1>1, CaseItem
<1>3. Means(d, J, B, N, x, <<s>>)
  BY <1>2, FoldMeans
<1>4. IsSeq(<< >>) /\ IsSeq(arms)
  BY NoneIs DEF Falls
<1>5. Means(d, J, B, {a}, x, <<CaseOf(n, arms \o << >>, o)>>)
  BY <1>1, <1>3, <1>4 DEF Falls, JumpsTo
<1>6. arms \o << >> = arms
  BY <1>4, CatIs
<1> QED
  BY <1>5, <1>6

\* What a CASE has to patch.
LEMMA OwnOfCase ==
  ASSUME NEW f, f.k \in {"case", "arm", "otherwise"}, NEW bs
  PROVE  /\ ~IsLoop(f) /\ Below(f, bs) = bs
         /\ \A p : p \in Waits(f) <=> p \in Nat /\ ~f.const /\ f.last /\ p \in ToSet(f.outs)
         /\ \A p : p \in Own(f, bs) <=>
              p \in Nat /\ ~f.const /\ f.last
                /\ (p \in ToSet(f.outs) \/ (f.k = "arm" /\ p = Last(f.arms).next))
BY DEF IsLoop, Below, Waits, Own, Sites, IsCase
LEMMA CaseElseBuilt ==
  ASSUME IInv, Compiled, CaseElse
  PROVE  Compiled'
<1>1. After("case")
  BY DEF CaseElse
<1>2. /\ Top.k = "case" /\ ~IsLoop(Top) /\ em.code \in Seq(WordSet) /\ em \in Emitter
      /\ Len(em.code) \in Nat
  <2>1. /\ Top.k = "case" /\ ~IsLoop(Top)
    BY <1>1, CaseTop
  <2>2. em.code \in Seq(WordSet) /\ em \in Emitter
    BY <1>1, TopReady
  <2> QED
    BY <2>1, <2>2
<1>3. PICK h : h = [Top EXCEPT !.k = "otherwise"]
  OBVIOUS
<1>4. Become(h) /\ UNCHANGED breaks /\ wants' = TRUE
  BY <1>3 DEF CaseElse
<1>5. /\ h.k = "otherwise" /\ h.n = Top.n /\ h.last = Top.last /\ h.const = Top.const
      /\ h.emitted = Top.emitted /\ h.outs = Top.outs /\ h.arms = Top.arms /\ h.list = Top.list
  <2>1. "k" \in DOMAIN Top
    BY <1>1, CaseTop
  <2> QED
    BY <1>3, <2>1
<1>6. em'.code = em.code
  BY <1>2 DEF CaseElse, Emitter
<1>7. ~IsLoop(h) /\ Tidy(h) /\ Wants(wants', h)
  BY <1>4, <1>5 DEF IsLoop, Tidy, Wants
<1>8. Own(h, breaks) = Own(Top, breaks) /\ Waits(h) = Waits(Top)
  <2>1. \A p : p \in Own(h, breaks) <=> p \in Own(Top, breaks)
    BY <1>2, <1>5, OwnOfCase
  <2>2. Waits(h) = Waits(Top)
    BY <1>2, <1>5 DEF Waits, IsCase
  <2>3. Own(h, breaks) \subseteq Nat /\ Own(Top, breaks) \subseteq Nat
    BY DEF Own
  <2> QED
    BY <2>1, <2>2, <2>3
<1>9. PICK d \in Seq(WordSet) : d = em'.code /\ d = em.code
  BY <1>2, <1>6
<1>10. Turned(h, d, {})
  BY <1>2, <1>4, <1>7, <1>8, <1>9 DEF Turned, Changes
<1>11. PICK I, J : I = Settled(em.code, todo, breaks) /\ J = Settled(d, todo', breaks)
  OBVIOUS
<1>12. Agree(d, I, d, J)
  <2>1. Grows(em.code, I, d, J)
    BY <1>1, <1>10, <1>11, TurnGrows
  <2> QED
    BY <2>1, <1>9 DEF Grows
<1>13. Turns(em.code, I, d, J, Front(todo), Top, h, breaks, made)
  <2>1. PICK r, B, D, m, f : /\ r = Front(todo) /\ B = Home(r, Len(r), breaks) /\ m = made
                             /\ D = Inner(r, Top, breaks) /\ f = Top
    OBVIOUS
  <2>2. Inner(r, h, breaks) = D
    BY <2>1, <1>2, <1>5, <1>7, InnerIs
  <2>3. SUFFICES ASSUME NEW a \in Nat, NEW b \in Nat, Inside(d, I, B, D, f, m, a, b)
                 PROVE  Part(d, J, B, D, h, a, Len(d))
    BY <2>1, <2>2, <1>9 DEF Turns
  <2>4. ArmsFall(d, I, B, f, f.arms, f.emitted, a, b) /\ b = Len(d) /\ f.list = << >>
    BY <2>1, <2>3, <1>2 DEF Inside, Part
  <2>5. ArmsFall(d, J, B, h, h.arms, h.emitted, a, Len(d))
    <3>1. ArmsFall(d, J, B, f, f.arms, f.emitted, a, b)
      BY <1>12, <2>4, FallsStays DEF ArmsFall
    <3> QED
      BY <3>1, <1>5, <2>1, <2>4 DEF ArmsFall
  <2>6. Means(d, J, B, {Len(d)}, Len(d), h.list)
    <3>1. Len(d) \in Nat /\ h.list = << >>
      BY <1>5, <2>1, <2>4
    <3> QED
      BY <3>1, HereMeans
  <2>7. OtherPart(d, J, B, h, a, Len(d))
    BY <2>5, <2>6 DEF OtherPart
  <2> QED
    BY <1>5, <2>7 DEF Part
<1> QED
  BY <1>1, <1>7, <1>9, <1>10, <1>11, <1>13, TurnBuilt

Otherwise(f, m) == IF f.k = "otherwise" THEN f.list \o m ELSE << >>
\* f is a CASE at an end of it, and the branches behind its arms lead behind d.
Closed(f, d, J) ==
  f.k \in {"case", "otherwise"} /\ (~f.const => JumpsTo(d, J, ToSet(f.outs), Len(d)))
LEMMA CaseEnds ==
  ASSUME NEW c, NEW I, NEW d, NEW J, Agree(c, I, d, J), Len(c) \in Nat, Len(d) = Len(c), NEW B,
         NEW f, Closed(f, d, J), NEW m, NEW a, NEW b, Inside(c, I, B, B, f, m, a, b),
         NEW o, o = Otherwise(f, m)
  PROVE  Means(d, J, B, {a}, Len(d), <<CaseOf(f.n, f.arms, o)>>)
<1>0. f.k \in {"case", "otherwise"} /\ (~f.const => JumpsTo(d, J, ToSet(f.outs), Len(d)))
  BY DEF Closed
<1>1. PICK gone : gone = (f.const /\ f.emitted)
  OBVIOUS
<1>2. PICK h : /\ ArmsFall(c, I, B, f, f.arms, f.emitted, a, h)
               /\ gone => h = Len(c)
               /\ ~gone => Means(c, I, B, {h}, Len(c), o)
  <2>1. CASE f.k = "case"
    <3>1. ArmsFall(c, I, B, f, f.arms, f.emitted, a, b) /\ b = Len(c) /\ o = << >>
      BY <2>1 DEF Inside, Part, Otherwise
    <3>2. Means(c, I, B, {Len(c)}, Len(c), << >>)
      BY HereMeans
    <3> QED
      BY <3>1, <3>2
  <2>2. CASE f.k = "otherwise"
    <3>1. OtherPart(c, I, B, f, a, b) /\ o = f.list \o m
      BY <2>2 DEF Inside, Part, Otherwise
    <3>2. PICK h : /\ ArmsFall(c, I, B, f, f.arms, f.emitted, a, h)
                   /\ IF f.const /\ f.emitted THEN h = b ELSE Means(c, I, B, {h}, b, f.list)
      BY <3>1 DEF OtherPart
    <3>3. IF gone THEN b = Len(c) ELSE Means(c, I, B, {b}, Len(c), m)
      BY <1>1, <2>2 DEF Inside, Runs
    <3>4. ~gone => Means(c, I, B, {h}, Len(c), f.list \o m)
      <4>1. SUFFICES ASSUME ~gone PROVE Means(c, I, B, {h}, Len(c), f.list \o m)
        OBVIOUS
      <4>2. Means(c, I, B, {h}, b, f.list) /\ Means(c, I, B, {b}, Len(c), m)
        BY <1>1, <3>2, <3>3, <4>1
      <4> QED
        BY <4>2, SeqMeans
    <3> QED
      BY <1>1, <3>1, <3>2, <3>3, <3>4
  <2> QED
    BY <1>0, <2>1, <2>2
<1>3. PICK N, P, X : /\ N = IF gone THEN {} ELSE {h}
                     /\ P = IF f.const THEN {} ELSE ToSet(f.outs)
                     /\ X = IF gone THEN {h} ELSE Nat
  OBVIOUS
<1>4. Falls(c, I, B, a, N, P, X, f.n, f.arms)
  BY <1>1, <1>2, <1>3 DEF ArmsFall
<1>5. PICK x : x = Len(d)
  OBVIOUS
<1>6. x \in X
  BY <1>2, <1>3, <1>5
<1>7. JumpsTo(d, J, P, x)
  BY <1>0, <1>3, <1>5 DEF JumpsTo
<1>8. Means(d, J, B, N, x, o)
  <2>1. CASE gone
    BY <1>3, <2>1, NoneMeans
  <2>2. CASE ~gone
    <3>1. Means(c, I, B, {h}, x, o)
      BY <1>2, <1>5, <2>2
    <3>2. Means(d, J, B, {h}, x, o)
      BY <3>1, MeansGrows
    <3> QED
      BY <1>3, <2>2, <3>2
  <2> QED
    BY <2>1, <2>2
<1> QED
  BY <1>4, <1>5, <1>6, <1>7, <1>8, FallsEnd
LEMMA EndCaseBuilt ==
  ASSUME IInv, Compiled, EndCase
  PROVE  Compiled'
<1>1. PICK k \in {"case", "otherwise"} : After(k)
  BY DEF EndCase
<1>2. /\ Top.k = k /\ ~IsLoop(Top) /\ Top.const \in BOOLEAN /\ Top.last \in BOOLEAN
      /\ Top.outs \in Seq(Nat)
      /\ Top.last <=> AllRun(Front(todo), Len(Front(todo)))
      /\ em.emit <=> Top.last /\ Runs(Top)
      /\ ~Top.const /\ Top.last => \A p \in ToSet(Top.outs) : IsBranch(em.code, p)
  BY <1>1, CaseTop
<1>3. /\ em \in Emitter /\ em.code \in Seq(WordSet) /\ Len(em.code) \in Nat
      /\ Len(Front(todo)) > 0 /\ Jumps(em.code, todo, breaks) /\ On(todo, Front(todo), Top)
  <2>1. /\ em \in Emitter /\ em.code \in Seq(WordSet) /\ Jumps(em.code, todo, breaks)
        /\ On(todo, Front(todo), Top)
    BY <1>1, TopReady
  <2>2. Len(Front(todo)) > 0
    BY <1>1, AfterIs
  <2> QED
    BY <2>1, <2>2
<1>o. /\ Below(Top, breaks) = breaks
      /\ \A p : p \in Waits(Top) <=> p \in Nat /\ ~Top.const /\ Top.last /\ p \in ToSet(Top.outs)
      /\ \A p : p \in Own(Top, breaks) <=> p \in Nat /\ ~Top.const /\ Top.last /\ p \in ToSet(Top.outs)
  BY <1>1, <1>2, OwnOfCase
<1>q. PICK froms \in Seq(Nat) : froms = Top.outs
  BY <1>2
<1>n. \A p \in ToSet(Top.outs) : p \in Nat
  <2>1. \A p : p \in ToSet(froms) <=> \E b \in 1 .. Len(froms) : p = froms[b]
    BY InToSet
  <2>2. \A b \in 1 .. Len(froms) : froms[b] \in Nat
    OBVIOUS
  <2> QED
    BY <1>q, <2>1, <2>2
<1>4. PICK e : e = IF Top.const THEN em ELSE PatchAll(em, Top.outs)
  OBVIOUS
<1>5. /\ e \in Emitter /\ Len(e.code) = Len(em.code)
      /\ IF ~Top.const /\ Top.last THEN AllPatched(em.code, e.code, Top.outs)
         ELSE e.code = em.code
  <2>1. CASE Top.const
    BY <1>3, <1>4, <2>1
  <2>2. CASE ~Top.const
    <3>1. e = PatchAll(em, Top.outs)
      BY <1>4, <2>2
    <3>2. /\ e \in Emitter /\ Here(e) = Here(em) /\ (~em.emit => e = em)
          /\ em.emit => AllPatched(em.code, e.code, Top.outs)
      <4>1. em \in Emitter /\ e = PatchAll(em, froms)
        BY <1>3, <1>q, <3>1
      <4>2. /\ e \in Emitter /\ Here(e) = Here(em) /\ (~em.emit => e = em)
            /\ em.emit => AllPatched(em.code, e.code, froms)
        BY <4>1, PatchAllTyped
      <4> QED
        BY <4>2, <1>q
    <3>3. em.emit <=> Top.last
      BY <1>1, <1>2, <2>2 DEF Runs
    <3> QED
      BY <3>2, <3>3, <2>2 DEF Here
  <2> QED
    BY <1>2, <2>1, <2>2
<1>6. PICK o : o = Otherwise(Top, made)
  OBVIOUS
<1>7. /\ em'.code = e.code /\ todo' = Front(todo) /\ wants' = FALSE /\ UNCHANGED breaks
      /\ made' = <<CaseOf(Top.n, Top.arms, o)>>
  <2>1. em' = [e EXCEPT !.emit = Top.last]
    BY <1>4 DEF EndCase, Finish
  <2>2. /\ todo' = Front(todo) /\ wants' = FALSE /\ UNCHANGED breaks
        /\ made' = <<[k |-> "case", n |-> Top.n, arms |-> Top.arms, otherwise |-> o]>>
    BY <1>6 DEF Otherwise, EndCase, Finish, Done
  <2>3. em'.code = e.code
    BY <1>2, <1>5, <2>1, Switched
  <2> QED
    BY <2>2, <2>3 DEF CaseOf
<1>8. PICK d \in Seq(WordSet) : d = em'.code /\ d = e.code
  BY <1>5, <1>7, EmitterIs
<1>9. Changes(em.code, d, Own(Top, breaks))
  <2>1. CASE ~Top.const /\ Top.last
    <3>1. AllPatched(em.code, d, Top.outs) /\ Len(d) = Len(em.code)
      BY <1>5, <1>8, <2>1
    <3>2. \A p : p \in ToSet(Top.outs) => p \in Own(Top, breaks)
      BY <1>o, <1>n, <2>1
    <3> QED
      BY <1>3, <3>1, <3>2 DEF AllPatched, Changes
  <2>2. CASE ~(~Top.const /\ Top.last)
    BY <1>3, <1>5, <1>8, <2>2, ChangesSelf
  <2> QED
    BY <2>1, <2>2
<1>10. Over(d)
  BY <1>2, <1>3, <1>o, <1>7, <1>9 DEF Over
<1>11. PICK I, J : /\ I = Settled(em.code, todo, breaks)
                   /\ J = Settled(d, Front(todo), Below(Top, breaks))
  OBVIOUS
<1>12. Agree(em.code, I, d, J) /\ Own(Top, breaks) \subseteq J
  <2>1. Grows(em.code, I, d, J) /\ Own(Top, breaks) \subseteq J
    BY <1>1, <1>10, <1>11, OverGrows
  <2> QED
    BY <2>1 DEF Grows
<1>13. Len(d) = Len(em.code)
  BY <1>5, <1>8
<1>14. ASSUME Live(Front(todo))
       PROVE  Ends(em.code, I, d, J, Front(todo), Top, breaks, made, made')
  <2>1. PICK c, r, B, m, f : /\ r = Front(todo) /\ B = Home(r, Len(r), breaks) /\ m = made
                             /\ f = Top /\ c = em.code
    OBVIOUS
  <2>2. Inner(r, f, breaks) = B
    BY <2>1, <1>1, <1>2, InnerIs
  <2>3. SUFFICES ASSUME NEW a \in Nat, NEW b \in Nat, Inside(c, I, B, B, f, m, a, b)
                 PROVE  Means(d, J, B, {a}, Len(d), made')
    BY <2>1, <2>2, <1>o DEF Ends
  <2>4. ~f.const => JumpsTo(d, J, ToSet(f.outs), Len(d))
    <3>1. SUFFICES ASSUME ~Top.const PROVE JumpsTo(d, J, ToSet(Top.outs), Len(d))
      BY <2>1
    <3>2. Top.last
      BY <1>2, <1>14 DEF Live
    <3>3. SUFFICES ASSUME NEW p \in ToSet(Top.outs)
                   PROVE  p \in J /\ d[p + 1].op = "BR" /\ d[p + 1].by = Len(d) - p - BranchSize
      BY DEF JumpsTo
    <3>4. p \in Nat /\ p \in Own(Top, breaks) /\ p \in Waits(Top)
      BY <1>o, <1>n, <3>1, <3>2
    <3>5. p \in Waiting(todo, breaks)
      <4>1. PICK r1 : r1 = Front(todo)
        OBVIOUS
      <4>2. Waiting(todo, breaks) = Waiting(r1, breaks) \cup Waits(Top)
        <5>1. On(todo, r1, Top) /\ ~IsLoop(Top) /\ breaks \in Seq(Nat)
          BY <1>1, <1>2, <1>3, <4>1, TopReady
        <5> QED
          BY <5>1, OnWaiting
      <4> QED
        BY <3>4, <4>2
    <3>6. p < Len(em.code) /\ em.code[p + 1].op = "BR"
      BY <1>3, <3>5 DEF Jumps
    <3>7. AllPatched(em.code, d, Top.outs) /\ "BR" \in Branches /\ p + 1 \in 1 .. Len(em.code)
          /\ (p + 1) - 1 = p
      BY <1>3, <1>5, <1>8, <3>1, <3>2, <3>4, <3>6 DEF Branches
    <3>8. d[p + 1].op = em.code[p + 1].op /\ d[p + 1].by = Len(em.code) - p - BranchSize
      BY <3>3, <3>6, <3>7 DEF AllPatched
    <3> QED
      BY <1>12, <1>13, <3>4, <3>6, <3>8
  <2>5. Agree(c, I, d, J) /\ Len(c) \in Nat /\ Len(d) = Len(c)
    BY <1>3, <1>12, <1>13, <2>1
  <2>6. f.k \in {"case", "otherwise"} /\ o = Otherwise(f, m)
    BY <1>2, <1>6, <2>1
  <2>7. Means(d, J, B, {a}, Len(d), <<CaseOf(f.n, f.arms, o)>>)
    <3>1. Inside(c, I, B, B, f, m, a, b)
      BY <2>3
    <3>2. Closed(f, d, J)
      BY <2>4, <2>6 DEF Closed
    <3>3. o = Otherwise(f, m)
      BY <2>6
    <3> QED
      BY <3>1, <3>2, <3>3, <2>5, CaseEnds
  <2> QED
    BY <1>7, <2>1, <2>7
<1> QED
  BY <1>1, <1>7, <1>8, <1>10, <1>11, <1>13, <1>14, OverBuilt

\* What an arm compares with.
Equals == [k |-> "cmp", swapped |-> FALSE, not |-> FALSE]
LEMMA ArmHas ==
  ASSUME NEW e \in Emitter, e.emit, NEW n \in Nat, NEW side \in Nat,
         NEW y, y = Test(e, n, side, FALSE),
         NEW g, g = EmitBranch(y, "BCF", Here(e) + 1 + BranchSize)
  PROVE  HasOperand(e, y, Equals, n, side) /\ HasUnless(y, g, Equals, n, side)
<1>1. PICK c \in SimpleConditions : c = Equals
  <2>1. Equals \in Comparisons
    BY DEF Equals, Comparisons
  <2> QED
    BY <2>1 DEF SimpleConditions
<1>2. c.k = "cmp" /\ c.swapped = FALSE /\ c.not = FALSE
  BY <1>1 DEF Equals
<1>3. y = Operand(e, c, n, side)
  BY <1>2 DEF Operand
<1>4. HasOperand(e, y, c, n, side)
  BY <1>3, OperandHas
<1>5. y \in Emitter /\ y.emit /\ Here(y) = Here(e) + 1 /\ Here(e) \in Nat
  BY <1>2, <1>4, EmitterIs DEF HasOperand, Body
<1>6. g = BranchIf(y, c, n, side, FALSE)
  BY <1>2, <1>5 DEF BranchIf, AsIs
<1>7. HasUnless(y, g, c, n, side)
  BY <1>5, <1>6, UnlessEmits
<1> QED
  BY <1>1, <1>4, <1>7
LEMMA ArmWords ==
  ASSUME NEW e \in Emitter, NEW n, NEW side,
         NEW y, HasOperand(e, y, Equals, n, side), NEW g, HasUnless(y, g, Equals, n, side),
         NEW I, Span(Here(e), BranchAt(g)) \subseteq I
  PROVE  /\ TestWaits(g.code, I, Here(e), Here(g), BranchAt(g), Equals, n, side)
         /\ g \in Emitter /\ g.emit /\ Extends(e.code, g.code)
         /\ BranchAt(g) \in Nat /\ Here(e) <= BranchAt(g) /\ Here(g) = BranchAt(g) + 2
<1>1. PICK c \in SimpleConditions : c = Equals
  <2>1. Equals \in Comparisons
    BY DEF Equals, Comparisons
  <2> QED
    BY <2>1 DEF SimpleConditions
<1>2. HasOperand(e, y, c, n, side) /\ HasUnless(y, g, c, n, side)
  BY <1>1
<1>3. /\ TestWaits(g.code, I, Here(e), Here(g), BranchAt(g), c, n, side)
      /\ g \in Emitter /\ g.emit /\ Extends(e.code, g.code)
      /\ BranchAt(g) \in Nat /\ Here(e) <= BranchAt(g) /\ Here(g) = BranchAt(g) + 2
  BY <1>1, <1>2, SimpleWaits
<1> QED
  BY <1>1, <1>3
\* The frame h of an arm, in place of that of its CASE.
ArmFrame(f, h, arm) ==
  /\ h.k = "arm" /\ h.n = f.n /\ h.const = f.const /\ h.outs = f.outs /\ h.list = f.list
  /\ Front(h.arms) = f.arms /\ Last(h.arms) = arm
  /\ f.const => /\ arm.c.k = "lit" /\ arm.c.val \in BOOLEAN
                /\ IF arm.c.val THEN h.emitted /\ ~f.emitted ELSE h.emitted = f.emitted
LEMMA ArmTurns ==
  ASSUME NEW c, NEW I, NEW d, NEW J, Agree(c, I, d, J), Len(d) \in Nat, NEW B,
         NEW f, f.k = "case", f.emitted \in BOOLEAN, f.const \in BOOLEAN,
         NEW m, NEW a, NEW b, Inside(c, I, B, B, f, m, a, b),
         NEW h, NEW arm, ArmFrame(f, h, arm),
         f.const => Len(d) = Len(c),
         ~f.const => TestWaits(d, J, Len(c), Len(d), arm.next, arm.c, f.n, arm.side)
  PROVE  Part(d, J, B, B, h, a, Len(d))
<1>1. ArmsFall(c, I, B, f, f.arms, f.emitted, a, b) /\ b = Len(c) /\ f.list = << >>
  BY DEF Inside, Part
<1>2. ArmsFall(d, J, B, f, f.arms, f.emitted, a, b)
  BY <1>1, FallsStays DEF ArmsFall
<1>3. PICK gone : gone = (h.emitted /\ ~Literal(arm.c, TRUE))
  OBVIOUS
<1>4. f.const => (gone <=> f.emitted)
  BY <1>3 DEF ArmFrame, Literal
<1>5. ArmsFall(d, J, B, h, Front(h.arms), gone, a, Len(c))
  BY <1>1, <1>2, <1>4 DEF ArmsFall, ArmFrame
<1>6. /\ h.const => Len(c) = Len(d) /\ arm.c.k = "lit" /\ arm.c.val \in BOOLEAN
                    /\ (arm.c.val => h.emitted)
      /\ ~h.const => TestWaits(d, J, Len(c), Len(d), arm.next, arm.c, h.n, arm.side)
  BY DEF ArmFrame
<1>7. ArmPart(d, J, B, h, a, Len(d))
  BY <1>3, <1>5, <1>6 DEF ArmPart, ArmFrame
<1> QED
  BY <1>1, <1>7 DEF Part, ArmFrame

LEMMA AppendEnds ==
  ASSUME NEW s, IsSeq(s), NEW x, NEW t, t = Append(s, x)
  PROVE  IsSeq(t) /\ t = s \o <<x>> /\ Front(t) = s /\ Last(t) = x
<1>1. t = s \o <<x>> /\ IsSeq(<<x>>)
  BY AppendIs, SingleIs
<1>2. IsSeq(t)
  BY <1>1, CatIs
<1>3. PICK U : s \in Seq(U)
  BY DEF IsSeq
<1>4. PICK V : V = U \cup {x}
  OBVIOUS
<1>5. s \in Seq(V) /\ x \in V
  BY <1>3, <1>4, SeqIn
<1>6. Front(t) = s /\ Last(t) = x
  BY <1>5 DEF Front, Last
<1> QED
  BY <1>1, <1>2, <1>6
LEMMA ArmBuilt ==
  ASSUME IInv, Compiled, NEW equal \in BOOLEAN, Arm(equal)
  PROVE  Compiled'
<1>s. SUFFICES ASSUME orderly'
               PROVE  Compiled'
  BY DEF Compiled
<1>1. After("case")
  BY DEF Arm
<1>2. /\ Top.k = "case" /\ ~IsLoop(Top) /\ Top.n \in Nat
      /\ Top.const \in BOOLEAN /\ Top.last \in BOOLEAN /\ Top.emitted \in BOOLEAN
      /\ Top.outs \in Seq(Nat) /\ IsStack(Top.arms)
      /\ {"k", "emitted", "outs", "arms", "list"} \subseteq DOMAIN Top
      /\ Top.last <=> AllRun(Front(todo), Len(Front(todo)))
      /\ em.emit <=> Top.last /\ Runs(Top)
      /\ ~Top.const /\ Top.last => \A p \in ToSet(Top.outs) : IsBranch(em.code, p)
  BY <1>1, CaseTop
<1>3. /\ em \in Emitter /\ em.code \in Seq(WordSet) /\ Len(em.code) \in Nat /\ em.emit \in BOOLEAN
  <2>1. em \in Emitter /\ em.code \in Seq(WordSet)
    BY <1>1, TopReady
  <2> QED
    BY <2>1, EmitterIs
<1>l. em.emit <=> Top.last
  BY <1>2 DEF Runs
<1>4. PICK v \in BOOLEAN : v = (em.emit /\ ~Top.const)
  BY <1>3
<1>5. PICK e : e = [em EXCEPT !.emit = v]
  OBVIOUS
<1>6. e \in Emitter /\ e.code = em.code /\ e.emit = v /\ Here(e) = Len(em.code)
  BY <1>3, <1>5, Switched DEF Here
<1>7. PICK n \in Nat, side \in Nat : n = Top.n /\ side = ArmSide
  BY <1>2 DEF ArmSide, IsStack
<1>8. PICK y : y = Test(e, n, side, FALSE)
  OBVIOUS
<1>9. PICK g : g = EmitBranch(y, "BCF", Here(e) + 1 + BranchSize)
  OBVIOUS
<1>10. g = ArmTest
  <2>1. e = [em EXCEPT !.emit = @ /\ ~Top.const]
    BY <1>3, <1>4, <1>5
  <2>2. Here(e) = Here(em)
    BY <1>6 DEF Here
  <2> QED
    BY <1>7, <1>8, <1>9, <2>1, <2>2 DEF ArmTest
<1>11. ASSUME ~v
       PROVE  g \in Emitter /\ g.code = em.code
  <2>1. \A w : Emit(e, w) = e
    BY <1>6, <1>11, QuietIs
  <2>2. y = e
    BY <1>8, <2>1 DEF Test
  <2>3. \A op, to : EmitBranch(e, op, to) = e
    BY <1>6, <1>11, QuietIs
  <2>4. g = e
    BY <1>9, <2>2, <2>3
  <2> QED
    BY <1>6, <2>4
<1>12. ASSUME v
       PROVE  HasOperand(e, y, Equals, n, side) /\ HasUnless(y, g, Equals, n, side)
  <2>1. e \in Emitter /\ e.emit
    BY <1>6, <1>12
  <2> QED
    BY <1>7, <1>8, <1>9, <2>1, ArmHas
<1>13. PICK at : at = BranchAt(g)
  OBVIOUS
<1>14. ASSUME v
       PROVE  /\ g \in Emitter /\ Extends(em.code, g.code)
              /\ at \in Nat /\ Len(em.code) <= at /\ Len(g.code) = at + 2
              /\ \A J : Span(Len(em.code), at) \subseteq J =>
                   TestWaits(g.code, J, Len(em.code), Len(g.code), at, Equals, n, side)
  <2>1. e \in Emitter
    BY <1>6
  <2>2. ASSUME NEW J, Span(Here(e), BranchAt(g)) \subseteq J
        PROVE  /\ TestWaits(g.code, J, Here(e), Here(g), BranchAt(g), Equals, n, side)
               /\ g \in Emitter /\ g.emit /\ Extends(e.code, g.code)
               /\ BranchAt(g) \in Nat /\ Here(e) <= BranchAt(g) /\ Here(g) = BranchAt(g) + 2
    BY <1>12, <1>14, <2>1, <2>2, ArmWords
  <2>3. /\ g \in Emitter /\ g.emit /\ Extends(e.code, g.code)
        /\ BranchAt(g) \in Nat /\ Here(e) <= BranchAt(g) /\ Here(g) = BranchAt(g) + 2
    BY <2>2
  <2> QED
    BY <1>6, <1>13, <2>2, <2>3 DEF Here
<1>15. g \in Emitter /\ (v \/ ~v)
  BY <1>11, <1>14
<1>16. em'.code = g.code
  <2>1. em' = [g EXCEPT !.emit = IF Top.const THEN equal ELSE @]
    BY <1>10 DEF Arm
  <2> QED
    BY <1>15, <2>1 DEF Emitter
<1>17. PICK d \in Seq(WordSet) : d = em'.code /\ d = g.code
  BY <1>15, <1>16, EmitterIs
<1>c. PICK c : c = IF Top.const THEN [k |-> "lit", val |-> equal] ELSE Equals
  OBVIOUS
<1>18. PICK arm : arm = [c |-> c, side |-> side, next |-> at, body |-> << >>]
  OBVIOUS
<1>19. PICK h : h = [Top EXCEPT !.k = "arm", !.emitted = @ \/ (Top.const /\ equal),
                                !.arms = Append(@, arm)]
  OBVIOUS
<1>20. Become(h) /\ wants' = TRUE /\ UNCHANGED breaks
  BY <1>7, <1>10, <1>13, <1>c, <1>18, <1>19 DEF Arm, Equals
<1>21. /\ h.k = "arm" /\ h.n = Top.n /\ h.const = Top.const /\ h.outs = Top.outs
       /\ h.list = Top.list /\ h.last = Top.last /\ h.arms = Append(Top.arms, arm)
       /\ h.emitted = (Top.emitted \/ (Top.const /\ equal))
  BY <1>2, <1>19
<1>22. Last(h.arms) = arm
  BY <1>2, <1>21, Pushed DEF On, Last
<1>23. arm.c = c /\ arm.side = side /\ arm.next = at
  BY <1>18
<1>n. ASSUME ~Top.const, Top.last
      PROVE  /\ v
             /\ \A p \in ToSet(Top.outs) : p < Len(em.code)
  <2>1. v
    BY <1>4, <1>l, <1>n
  <2>2. \A p \in ToSet(Top.outs) : IsBranch(em.code, p)
    BY <1>2, <1>n
  <2>3. \A p \in ToSet(Top.outs) : p \in Nat
    <3>1. PICK froms \in Seq(Nat) : froms = Top.outs
      BY <1>2
    <3>2. \A p : p \in ToSet(froms) <=> \E b \in 1 .. Len(froms) : p = froms[b]
      BY InToSet
    <3>3. \A b \in 1 .. Len(froms) : froms[b] \in Nat
      OBVIOUS
    <3> QED
      BY <3>1, <3>2, <3>3
  <2> QED
    BY <1>3, <2>1, <2>2, <2>3 DEF IsBranch
<1>24. /\ ~IsLoop(h) /\ Wants(wants', h)
       /\ \A p : p \in Own(h, breaks) <=>
            p \in Nat /\ ~Top.const /\ Top.last /\ (p \in ToSet(Top.outs) \/ p = at)
  <2>1. /\ ~IsLoop(h)
        /\ \A p : p \in Own(h, breaks) <=>
             p \in Nat /\ ~h.const /\ h.last
               /\ (p \in ToSet(h.outs) \/ (h.k = "arm" /\ p = Last(h.arms).next))
    <3>1. h.k \in {"case", "arm", "otherwise"}
      BY <1>21
    <3> QED
      BY <3>1, OwnOfCase
  <2> QED
    BY <1>20, <1>21, <1>22, <1>23, <2>1 DEF Wants
<1>o. \A p : p \in Own(Top, breaks) <=>
            p \in Nat /\ ~Top.const /\ Top.last /\ p \in ToSet(Top.outs)
  BY <1>2, OwnOfCase
<1>25. Tidy(h)
  <2>1. SUFFICES ASSUME ~Top.const, Top.last
                 PROVE  at \notin ToSet(Top.outs)
    BY <1>21, <1>22, <1>23 DEF Tidy
  <2>2. v /\ \A p \in ToSet(Top.outs) : p < Len(em.code)
    BY <1>n, <2>1
  <2> QED
    BY <1>3, <1>14, <2>2
<1>26. Waits(h) = Waits(Top)
  BY <1>2, <1>21 DEF Waits, IsCase
<1>27. Changes(em.code, d, {}) /\ (~v => d = em.code)
  <2>1. CASE v
    <3>1. Extends(em.code, d)
      BY <1>14, <1>17, <2>1
    <3> QED
      BY <1>3, <2>1, <3>1, ExtendsChanges
  <2>2. CASE ~v
    BY <1>3, <1>11, <1>17, <2>2, ChangesSelf
  <2> QED
    BY <2>1, <2>2
<1>28. Turned(h, d, {})
  <2>1. \A p \in Own(h, breaks) : p \in Own(Top, breaks) \/ p >= Len(em.code)
    <3>1. ~Top.const /\ Top.last => at >= Len(em.code)
      BY <1>3, <1>n, <1>14
    <3> QED
      BY <1>24, <1>o, <3>1
  <2> QED
    BY <1>2, <1>20, <1>24, <1>25, <1>26, <1>27, <2>1 DEF Turned
<1>29. PICK I, J : I = Settled(em.code, todo, breaks) /\ J = Settled(d, todo', breaks)
  OBVIOUS
<1>30. Agree(em.code, I, d, J) /\ Span(Len(em.code), Len(d)) \ Own(h, breaks) \subseteq J
  <2>1. Grows(em.code, I, d, J) /\ Span(Len(em.code), Len(d)) \ Own(h, breaks) \subseteq J
    BY <1>1, <1>28, <1>29, TurnGrows
  <2> QED
    BY <2>1 DEF Grows
<1>31. ASSUME Live(Front(todo))
       PROVE  Turns(em.code, I, d, J, Front(todo), Top, h, breaks, made)
  <2>1. PICK k, r, B, m, f : /\ r = Front(todo) /\ B = Home(r, Len(r), breaks) /\ m = made
                             /\ f = Top /\ k = em.code
    OBVIOUS
  <2>2. Inner(r, f, breaks) = B /\ Inner(r, h, breaks) = B
    BY <2>1, <1>2, <1>21, <1>24, InnerIs
  <2>3. SUFFICES ASSUME NEW a \in Nat, NEW b \in Nat, Inside(k, I, B, B, f, m, a, b)
                 PROVE  Part(d, J, B, B, h, a, Len(d))
    BY <2>1, <2>2 DEF Turns
  <2>4. f.const => Len(d) = Len(k)
    BY <1>4, <1>27, <2>1
  <2>5. ~f.const => TestWaits(d, J, Len(k), Len(d), arm.next, arm.c, f.n, arm.side)
    <3>1. SUFFICES ASSUME ~Top.const
                   PROVE  TestWaits(d, J, Len(em.code), Len(d), at, Equals, n, side)
      BY <1>7, <1>c, <1>23, <2>1
    <3>2. v /\ Top.last
      BY <1>4, <1>l, <1>2, <1>31, <3>1 DEF Live
    <3>3. /\ at \in Nat /\ Len(em.code) <= at /\ Len(d) = at + 2
          /\ \A p \in ToSet(Top.outs) : p < Len(em.code)
      BY <1>14, <1>17, <1>n, <3>1, <3>2
    <3>4. Span(Len(em.code), at) \subseteq J
      <4>1. SUFFICES ASSUME NEW p \in Span(Len(em.code), at)
                     PROVE  p \in J
        OBVIOUS
      <4>2. p \in Nat /\ Len(em.code) <= p /\ p < at /\ p \in Span(Len(em.code), Len(d))
        BY <1>3, <3>3, <4>1 DEF Span
      <4>3. p # at /\ p \notin ToSet(Top.outs)
        BY <1>3, <3>3, <4>2
      <4> QED
        BY <1>24, <1>30, <4>2, <4>3
    <3> QED
      BY <1>14, <1>17, <3>2, <3>4
  <2>6. ArmFrame(f, h, arm)
    <3>1. Front(h.arms) = f.arms
      <4>1. IsSeq(f.arms)
        BY <1>2, <2>1, <2>3 DEF Inside, Part, ArmsFall, Falls
      <4>2. h.arms = Append(f.arms, arm)
        BY <1>21, <2>1
      <4> QED
        BY <4>1, <4>2, AppendEnds
    <3>2. ASSUME f.const
          PROVE  /\ arm.c.k = "lit" /\ arm.c.val \in BOOLEAN
                 /\ IF arm.c.val THEN h.emitted /\ ~f.emitted ELSE h.emitted = f.emitted
      <4>1. arm.c.k = "lit" /\ arm.c.val = equal
        BY <1>c, <1>23, <2>1, <3>2
      <4>2. equal => ~Top.emitted
        BY <1>s, <2>1, <3>2 DEF Arm
      <4> QED
        BY <1>2, <1>21, <2>1, <3>2, <4>1, <4>2
    <3> QED
      BY <1>21, <1>22, <2>1, <3>1, <3>2 DEF ArmFrame
  <2>7. /\ Agree(k, I, d, J) /\ Len(d) \in Nat
        /\ f.k = "case" /\ f.emitted \in BOOLEAN /\ f.const \in BOOLEAN
    BY <1>2, <1>30, <2>1
  <2> QED
    BY <2>3, <2>4, <2>5, <2>6, <2>7, ArmTurns
<1>32. Len(d) = Len(em.code) \/ Live(Front(todo))
  <2>1. Live(Front(todo)) <=> Top.last
    BY <1>2 DEF Live
  <2> QED
    BY <2>1, <1>4, <1>l, <1>27
<1> QED
  BY <1>1, <1>17, <1>24, <1>28, <1>29, <1>31, <1>32, TurnBuilt

\* The frame h of a CASE, in place of that of its arm, which m is inside.
CaseFrame(f, h, m, arm) ==
  /\ h.k = "case" /\ h.n = f.n /\ h.const = f.const /\ h.emitted = f.emitted /\ h.list = f.list
  /\ h.arms = Front(f.arms) \o <<arm>>
  /\ arm.c = Last(f.arms).c /\ arm.side = Last(f.arms).side /\ arm.body = m
\* The branch behind the arm is noted, and its test leads there.
ArmCloses(c, d, J, f, h) ==
  /\ f.const => Len(d) = Len(c)
  /\ ~f.const => /\ ToSet(f.outs) \subseteq ToSet(h.outs) /\ Len(c) \in ToSet(h.outs)
                 /\ Led(c, d, J, Last(f.arms).next, Len(d))
LEMMA DecidedItem ==
  ASSUME NEW d, NEW J, NEW A, NEW Y, NEW N, NEW c, c.k = "lit", NEW n, NEW side,
         NEW v \in BOOLEAN, c.val = v, A \subseteq (IF v THEN Y ELSE N)
  PROVE  Tests(d, J, A, Y, N, c, n, side)
<1>1. \A m \in Machine : m.ip \in A =>
        \E w \in Machine : Reaches(d, J, m, w) /\ w.ip \in (IF v THEN Y ELSE N)
  BY ReachesSelf
<1> QED
  BY <1>1, SilentTests
LEMMA ArmOver ==
  ASSUME NEW c, NEW I, NEW d, NEW J, Agree(c, I, d, J), Len(c) \in Nat, Len(d) \in Nat, NEW B,
         NEW f, f.k = "arm", f.emitted \in BOOLEAN, f.const \in BOOLEAN,
         NEW m, NEW a, NEW b, Inside(c, I, B, B, f, m, a, b),
         NEW h, NEW arm, CaseFrame(f, h, m, arm), ArmCloses(c, d, J, f, h)
  PROVE  Part(d, J, B, B, h, a, Len(d))
<1>1. ArmPart(c, I, B, f, a, b) /\ f.list = << >>
  BY DEF Inside, Part
<1>2. PICK last, gone : last = Last(f.arms) /\ gone = (f.emitted /\ ~Literal(last.c, TRUE))
  OBVIOUS
<1>3. PICK p : /\ ArmsFall(c, I, B, f, Front(f.arms), gone, a, p)
               /\ f.const => /\ p = b /\ last.c.k = "lit" /\ last.c.val \in BOOLEAN
                             /\ (last.c.val => f.emitted)
               /\ ~f.const => TestWaits(c, I, p, b, last.next, last.c, f.n, last.side)
  BY <1>1, <1>2 DEF ArmPart
<1>4. /\ h.k = "case" /\ h.n = f.n /\ h.const = f.const /\ h.emitted = f.emitted /\ h.list = f.list
      /\ h.arms = Front(f.arms) \o <<arm>>
      /\ arm.c = last.c /\ arm.side = last.side /\ arm.body = m
  BY <1>2 DEF CaseFrame
<1>5. CASE ~f.const
  <2>1. Falls(c, I, B, a, {p}, ToSet(f.outs), Nat, f.n, Front(f.arms))
    BY <1>3, <1>5 DEF ArmsFall
  <2>2. /\ ToSet(f.outs) \subseteq ToSet(h.outs) /\ Len(c) \in ToSet(h.outs)
        /\ Led(c, d, J, last.next, Len(d))
    BY <1>2, <1>5 DEF ArmCloses
  <2>3. Means(c, I, B, {b}, Len(c), m)
    BY <1>5 DEF Inside, Runs
  <2>4. PICK n : n = Len(d) /\ n \in Nat
    OBVIOUS
  <2>5. ASSUME NEW g, NEW K, NEW D, NEW x, Agree(d, J, g, K), B \subseteq D, x \in Nat,
               JumpsTo(g, K, ToSet(h.outs), x)
        PROVE  Takes(g, K, D, x, {p}, ToSet(f.outs), Nat, {n}, f.n, arm)
    <3>1. Agree(c, I, g, K)
      BY <2>5, AgreeOn
    <3>2. Led(c, g, K, last.next, n)
      BY <2>2, <2>4, <2>5 DEF Led, Agree
    <3>3. Tests(g, K, {p}, {b}, {n}, last.c, f.n, last.side)
      BY <1>3, <1>5, <2>4, <3>1, <3>2 DEF TestWaits
    <3>4. Means(g, K, D, {b}, Len(c), m)
      BY <2>3, <2>5, <3>1, MeansGrows
    <3>5. PICK q \in Nat : q = Len(c)
      OBVIOUS
    <3>6. q \in K /\ g[q + 1].op = "BR" /\ g[q + 1].by = x - q - BranchSize
      BY <2>2, <2>5, <3>5 DEF JumpsTo
    <3>7. Means(g, K, D, {q}, x, << >>)
      BY <2>5, <3>6, JumpMeans
    <3>8. Means(g, K, D, {b}, x, m \o << >>)
      BY <3>4, <3>5, <3>7, SeqMeans
    <3>9. m \o << >> = m
      <4>1. IsSeq(m)
        BY <3>4 DEF Means
      <4> QED
        BY <4>1, CatIs, NoneIs
    <3>10. JumpsTo(g, K, ToSet(f.outs), x)
      BY <2>2, <2>5 DEF JumpsTo
    <3> QED
      BY <1>4, <2>5, <3>3, <3>8, <3>9, <3>10 DEF Takes
  <2>6. Falls(d, J, B, a, {n}, ToSet(h.outs), Nat, f.n, Front(f.arms) \o <<arm>>)
    BY <2>1, <2>5, ArmFalls
  <2>7. ArmsFall(d, J, B, h, h.arms, h.emitted, a, Len(d))
    BY <1>4, <1>5, <2>4, <2>6 DEF ArmsFall
  <2> QED
    BY <1>1, <1>4, <2>7 DEF Part
<1>6. CASE f.const /\ last.c.val
  <2>0. p = b /\ last.c.k = "lit" /\ last.c.val = TRUE /\ f.emitted /\ ~gone /\ Len(d) = Len(c)
    BY <1>2, <1>3, <1>6 DEF Literal, ArmCloses
  <2>1. PICK P, X : P = {} /\ X = {Len(d)}
    OBVIOUS
  <2>2. Falls(c, I, B, a, {b}, P, Nat, f.n, Front(f.arms))
    BY <1>3, <1>6, <2>0, <2>1 DEF ArmsFall
  <2>3. Means(c, I, B, {b}, Len(c), m)
    BY <1>2, <1>6, <2>0 DEF Inside, Runs, Literal
  <2>5. ASSUME NEW g, NEW K, NEW D, NEW x, Agree(d, J, g, K), B \subseteq D, x \in X,
               JumpsTo(g, K, P, x)
        PROVE  Takes(g, K, D, x, {b}, P, Nat, P, f.n, arm)
    <3>1. Agree(c, I, g, K)
      BY <2>5, AgreeOn
    <3>2. x = Len(c) /\ x \in Nat
      BY <2>0, <2>1, <2>5
    <3>3. Means(g, K, D, {b}, x, m)
      BY <2>3, <2>5, <3>1, <3>2, MeansGrows
    <3>4. Tests(g, K, {b}, {b}, P, arm.c, f.n, arm.side)
      <4>1. PICK v \in BOOLEAN : v = TRUE
        OBVIOUS
      <4>2. arm.c.k = "lit" /\ arm.c.val = v /\ {b} \subseteq (IF v THEN {b} ELSE P)
        BY <1>4, <2>0, <4>1
      <4> QED
        BY <4>1, <4>2, DecidedItem
    <3> QED
      BY <1>4, <2>5, <3>2, <3>3, <3>4 DEF Takes
  <2>6. Falls(d, J, B, a, P, P, X, f.n, Front(f.arms) \o <<arm>>)
    BY <2>2, <2>5, ArmFalls
  <2>7. ArmsFall(d, J, B, h, h.arms, h.emitted, a, Len(d))
    BY <1>4, <1>6, <2>0, <2>1, <2>6 DEF ArmsFall
  <2> QED
    BY <1>1, <1>4, <2>7 DEF Part
<1>7. CASE f.const /\ ~last.c.val
  <2>0. p = b /\ last.c.k = "lit" /\ last.c.val = FALSE /\ (gone <=> f.emitted) /\ Len(d) = Len(c)
    BY <1>2, <1>3, <1>7 DEF Literal, ArmCloses
  <2>3. b = Len(c)
    BY <1>2, <1>7, <2>0 DEF Inside, Runs, Literal
  <2>1. PICK N, P, X : /\ N = (IF f.emitted THEN {} ELSE {Len(d)}) /\ P = {}
                       /\ X = (IF f.emitted THEN {Len(d)} ELSE Nat)
    OBVIOUS
  <2>2. Falls(c, I, B, a, N, P, X, f.n, Front(f.arms))
    BY <1>3, <1>7, <2>0, <2>1, <2>3 DEF ArmsFall
  <2>5. ASSUME NEW g, NEW K, NEW D, NEW x, Agree(d, J, g, K), B \subseteq D, x \in X,
               JumpsTo(g, K, P, x)
        PROVE  Takes(g, K, D, x, N, P, X, N, f.n, arm)
    <3>3. Means(g, K, D, P, x, m)
      BY <2>1, NoneMeans
    <3>4. Tests(g, K, N, P, N, arm.c, f.n, arm.side)
      <4>1. PICK v \in BOOLEAN : v = FALSE
        OBVIOUS
      <4>2. arm.c.k = "lit" /\ arm.c.val = v /\ N \subseteq (IF v THEN P ELSE N)
        BY <1>4, <2>0, <4>1
      <4> QED
        BY <4>1, <4>2, DecidedItem
    <3> QED
      BY <1>4, <2>5, <3>3, <3>4 DEF Takes
  <2>6. Falls(d, J, B, a, N, P, X, f.n, Front(f.arms) \o <<arm>>)
    BY <2>2, <2>5, ArmFalls
  <2>7. ArmsFall(d, J, B, h, h.arms, h.emitted, a, Len(d))
    BY <1>4, <1>7, <2>1, <2>6 DEF ArmsFall
  <2> QED
    BY <1>1, <1>4, <2>7 DEF Part
<1> QED
  BY <1>5, <1>6, <1>7

LEMMA LastUpdated ==
  ASSUME NEW s, IsStack(s), Len(s) > 0, NEW x, NEW t, t = [s EXCEPT ![Len(s)] = x]
  PROVE  t = Front(s) \o <<x>> /\ IsStack(t) /\ Len(t) = Len(s)
<1>1. PICK n \in Nat : n = Len(s) /\ n > 0 /\ DOMAIN s = 1 .. n
  BY DEF IsStack
<1>2. PICK U : U = {s[i] : i \in 1 .. n} \cup {x}
  OBVIOUS
<1>3. t = [i \in 1 .. n |-> IF i = n THEN x ELSE s[i]]
  BY <1>1
<1>4. t \in Seq(U) /\ Len(t) = n /\ n >= 1
  <2>1. n \in Nat /\ \A i \in 1 .. n : (IF i = n THEN x ELSE s[i]) \in U
    BY <1>1, <1>2 DEF IsStack
  <2>2. [i \in 1 .. n |-> IF i = n THEN x ELSE s[i]] \in Seq(U)
    BY <2>1
  <2>3. t \in Seq(U)
    BY <1>3, <2>2
  <2>4. DOMAIN t = 1 .. n
    BY <1>3
  <2>5. Len(t) = n
    BY <1>1, <2>3, <2>4
  <2> QED
    BY <1>1, <2>3, <2>5
<1>5. t[n] = x /\ \A i \in 1 .. n - 1 : t[i] = s[i]
  BY <1>1
<1>6. PICK q : q = SubSeq(t, 1, n - 1)
  OBVIOUS
<1>7. q \in Seq(U) /\ Len(q) = n - 1 /\ \A i \in 1 .. n - 1 : q[i] = t[i]
  BY <1>4, <1>6
<1>8. q = Front(s)
  <2>1. Front(s) = [i \in 1 .. n - 1 |-> s[i]]
    BY <1>1 DEF Front, SubSeq
  <2>2. q = [i \in 1 .. n - 1 |-> q[i]]
    BY <1>7
  <2>3. \A i \in 1 .. n - 1 : q[i] = s[i]
    BY <1>5, <1>7
  <2> QED
    BY <2>1, <2>2, <2>3
<1>9. x \in U
  BY <1>1, <1>2, <1>5
<1>10. q \o <<x>> = t
  BY <1>4, <1>5, <1>7, <1>9
<1> QED
  BY <1>1, <1>4, <1>8, <1>10 DEF IsStack

LEMMA EndArmBuilt ==
  ASSUME IInv, Compiled, EndArm
  PROVE  Compiled'
<1>1. After("arm")
  BY DEF EndArm
<1>2. /\ Top.k = "arm" /\ ~IsLoop(Top) /\ Top.n \in Nat
      /\ Top.const \in BOOLEAN /\ Top.last \in BOOLEAN /\ Top.emitted \in BOOLEAN
      /\ Top.outs \in Seq(Nat) /\ IsStack(Top.arms) /\ Len(Top.arms) > 0
      /\ {"k", "emitted", "outs", "arms", "list"} \subseteq DOMAIN Top
      /\ "body" \in DOMAIN Last(Top.arms) /\ Last(Top.arms).next \in Nat
      /\ Top.last <=> AllRun(Front(todo), Len(Front(todo)))
      /\ em.emit <=> Top.last /\ Runs(Top)
      /\ ~Top.const /\ Top.last => \A p \in ToSet(Top.outs) : IsBranch(em.code, p)
      /\ ~Top.const /\ Top.last => IsBranch(em.code, Last(Top.arms).next)
  BY <1>1, CaseTop
<1>3. /\ em \in Emitter /\ em.code \in Seq(WordSet) /\ Len(em.code) \in Nat /\ em.emit \in BOOLEAN
      /\ Apart(todo, breaks) /\ On(todo, Front(todo), Top)
  <2>1. /\ em \in Emitter /\ em.code \in Seq(WordSet) /\ Apart(todo, breaks)
        /\ On(todo, Front(todo), Top)
    BY <1>1, TopReady
  <2> QED
    BY <2>1, EmitterIs
<1>l. ~Top.const => Runs(Top)
  BY <1>2 DEF Runs
<1>4. PICK v \in BOOLEAN : v = (em.emit /\ ~Top.const)
  BY <1>3
<1>v. v <=> Top.last /\ ~Top.const
  BY <1>2, <1>4, <1>l
<1>5. PICK e : e = [em EXCEPT !.emit = v]
  OBVIOUS
<1>6. e \in Emitter /\ e.code = em.code /\ e.emit = v
  BY <1>3, <1>5, Switched
<1>7. PICK next \in Nat : next = Last(Top.arms).next
  BY <1>2
<1>8. PICK j : j = EmitBranch(e, "BR", 0)
  OBVIOUS
<1>9. PICK g : g = PatchToCurrent(j, next)
  OBVIOUS
<1>10. PICK at : at = BranchAt(j)
  OBVIOUS
<1>11. ASSUME ~v
       PROVE  g \in Emitter /\ g.code = em.code
  <2>1. \A op, to : EmitBranch(e, op, to) = e
    BY <1>6, <1>11, QuietIs
  <2>2. j = e
    BY <1>8, <2>1
  <2>3. \A from, to : Patch(e, from, to) = e
    BY <1>6, <1>11, QuietIs
  <2>4. g = e
    BY <1>9, <2>2, <2>3 DEF PatchToCurrent
  <2> QED
    BY <1>6, <2>4
<1>12. ASSUME v
       PROVE  /\ g \in Emitter /\ at = Len(em.code) /\ Len(g.code) = Len(em.code) + 2
              /\ g.code[Len(em.code) + 1].op = "BR"
              /\ Changes(em.code, g.code, {next})
              /\ \A J : next \in J => Led(em.code, g.code, J, next, Len(g.code))
  <2>1. e \in Emitter /\ e.emit /\ IsBranch(e.code, next)
    BY <1>2, <1>6, <1>7, <1>12, <1>v
  <2>2. JumpsOut(e, j, g, next)
    BY <1>8, <1>9, <2>1, OutWords
  <2> QED
    BY <1>6, <1>10, <2>2 DEF JumpsOut
<1>13. g \in Emitter /\ (v \/ ~v)
  BY <1>11, <1>12
<1>14. em' = [g EXCEPT !.emit = Top.last]
  <2>1. e = [em EXCEPT !.emit = @ /\ ~Top.const]
    BY <1>4, <1>5
  <2> QED
    BY <1>7, <1>8, <1>9, <2>1 DEF EndArm
<1>15. PICK d \in Seq(WordSet) : d = em'.code /\ d = g.code
  <2>1. em'.code = g.code
    BY <1>13, <1>14 DEF Emitter
  <2> QED
    BY <1>13, <2>1, EmitterIs
<1>16. PICK arm : arm = [Top.arms[Len(Top.arms)] EXCEPT !.body = made]
  OBVIOUS
<1>17. PICK arms : arms = [Top.arms EXCEPT ![Len(Top.arms)] = arm]
  OBVIOUS
<1>18. PICK outs : outs = Append(Top.outs, at)
  OBVIOUS
<1>19. PICK h : h = [Top EXCEPT !.k = "case", !.outs = outs, !.arms = arms]
  OBVIOUS
<1>20. /\ h.k = "case" /\ h.n = Top.n /\ h.const = Top.const /\ h.last = Top.last
       /\ h.emitted = Top.emitted /\ h.outs = outs /\ h.arms = arms /\ h.list = Top.list
  BY <1>2, <1>19
<1>21. arms = Front(Top.arms) \o <<arm>>
  BY <1>2, <1>17, LastUpdated
<1>22. arm.c = Last(Top.arms).c /\ arm.side = Last(Top.arms).side /\ arm.body = made
  <2>1. Last(Top.arms) = Top.arms[Len(Top.arms)]
    BY DEF Last
  <2> QED
    BY <1>2, <1>16, <2>1
<1>23. Become(h) /\ wants' = FALSE /\ UNCHANGED breaks
  <2>1. e = [em EXCEPT !.emit = @ /\ ~Top.const]
    BY <1>4, <1>5
  <2> QED
    BY <1>8, <1>10, <1>16, <1>17, <1>18, <1>19, <2>1 DEF EndArm, Done
<1>24. /\ ~IsLoop(h) /\ Tidy(h) /\ Wants(wants', h)
  BY <1>20, <1>23 DEF IsLoop, Tidy, Wants
<1>25. ASSUME v
       PROVE  \A p : p \in ToSet(outs) <=> p \in ToSet(Top.outs) \/ p = at
  <2>a. at \in Nat
    BY <1>3, <1>12, <1>25
  <2>b. PICK x \in Nat, froms \in Seq(Nat) : x = at /\ froms = Top.outs
    BY <1>2, <2>a
  <2>c. Append(froms, x) \in Seq(Nat)
    BY <2>b
  <2>d. outs = Append(froms, x)
    BY <1>18, <2>b
  <2>1. PICK to \in Seq(Nat) : to = Append(froms, x) /\ to = outs
    BY <2>c, <2>d
  <2>2. \A p : p \in ToSet(to) <=> \E i \in 1 .. Len(to) : p = to[i]
    BY InToSet
  <2>3. \A p : p \in ToSet(froms) <=> \E i \in 1 .. Len(froms) : p = froms[i]
    BY InToSet
  <2>4. /\ Len(to) = Len(froms) + 1 /\ Len(froms) \in Nat /\ to[Len(to)] = x
        /\ \A i \in 1 .. Len(froms) : to[i] = froms[i]
    <3>1. PICK n \in Nat : n = Len(froms)
      BY <2>b
    <3>2. Len(Append(froms, x)) = n + 1
      BY <2>b, <3>1
    <3>3. Append(froms, x)[n + 1] = x
      BY <2>b, <3>1
    <3>4. \A i \in 1 .. n : Append(froms, x)[i] = froms[i]
      BY <2>b, <3>1
    <3> QED
      BY <2>1, <3>1, <3>2, <3>3, <3>4
  <2>5. \A p : (\E i \in 1 .. Len(to) : p = to[i])
                 <=> (\E i \in 1 .. Len(froms) : p = froms[i]) \/ p = x
    <3>1. PICK n \in Nat : n = Len(froms)
      BY <2>4
    <3>2. Len(to) = n + 1 /\ to[n + 1] = x /\ \A i \in 1 .. n : to[i] = froms[i]
      BY <2>4, <3>1
    <3>4. \A i \in 1 .. n + 1 : i \in 1 .. n \/ i = n + 1
      BY <3>1
    <3>5. n + 1 \in 1 .. n + 1 /\ \A i \in 1 .. n : i \in 1 .. n + 1
      BY <3>1
    <3>6. ASSUME NEW p
          PROVE  (\E i \in 1 .. n + 1 : p = to[i])
                   <=> (\E i \in 1 .. n : p = froms[i]) \/ p = x
      BY <3>2, <3>4, <3>5
    <3>7. Len(to) = n + 1 /\ Len(froms) = n
      BY <3>1, <3>2
    <3> QED
      BY <3>6, <3>7, Zenon
  <2>6. \A p : p \in ToSet(to) <=> p \in ToSet(froms) \/ p = x
    BY <2>2, <2>3, <2>5
  <2> QED
    BY <2>b, <2>1, <2>6
<1>26. \A p : p \in Own(h, breaks) <=> p \in Nat /\ v /\ p \in ToSet(outs)
  <2>1. \A p : p \in Own(h, breaks) <=>
           p \in Nat /\ ~h.const /\ h.last
             /\ (p \in ToSet(h.outs) \/ (h.k = "arm" /\ p = Last(h.arms).next))
    <3>1. h.k \in {"case", "arm", "otherwise"}
      BY <1>20
    <3> QED
      BY <3>1, OwnOfCase
  <2> QED
    BY <1>20, <1>v, <2>1
<1>27. \A p : p \in Own(Top, breaks) <=> p \in Nat /\ v /\ (p \in ToSet(Top.outs) \/ p = next)
  <2>1. \A p : p \in Own(Top, breaks) <=>
           p \in Nat /\ ~Top.const /\ Top.last
             /\ (p \in ToSet(Top.outs) \/ (Top.k = "arm" /\ p = Last(Top.arms).next))
    BY <1>2, OwnOfCase
  <2> QED
    BY <1>2, <1>7, <1>v, <2>1
<1>28. PICK P : P = {p \in {next} : v}
  OBVIOUS
<1>29. Changes(em.code, d, P)
  <2>1. CASE v
    BY <1>12, <1>15, <1>28, <2>1
  <2>2. CASE ~v
    BY <1>3, <1>11, <1>15, <2>2, ChangesSelf
  <2> QED
    BY <2>1, <2>2
<1>30. Turned(h, d, P)
  <2>1. P \subseteq Own(Top, breaks)
    BY <1>7, <1>27, <1>28
  <2>2. \A p \in Own(h, breaks) : p \in Own(Top, breaks) \/ p >= Len(em.code)
    BY <1>3, <1>12, <1>25, <1>26, <1>27
  <2>3. \A p \in Waits(h) : p \in Waits(Top) \/ (p < Len(d) /\ d[p + 1].op = "BR")
    <3>1. \A p : p \in Waits(h) <=> p \in Nat /\ v /\ p \in ToSet(outs)
      BY <1>20, <1>v DEF Waits, IsCase
    <3>2. \A p : p \in Waits(Top) <=> p \in Nat /\ v /\ p \in ToSet(Top.outs)
      BY <1>2, <1>v DEF Waits, IsCase
    <3>3. v => at < Len(d) /\ d[at + 1].op = "BR"
      BY <1>3, <1>12, <1>15
    <3> QED
      BY <1>25, <3>1, <3>2, <3>3
  <2> QED
    BY <1>2, <1>23, <1>24, <1>29, <2>1, <2>2, <2>3 DEF Turned
<1>31. PICK I, J : I = Settled(em.code, todo, breaks) /\ J = Settled(d, todo', breaks)
  OBVIOUS
<1>32. Agree(em.code, I, d, J) /\ Own(Top, breaks) \ Own(h, breaks) \subseteq J
  <2>1. Grows(em.code, I, d, J) /\ Own(Top, breaks) \ Own(h, breaks) \subseteq J
    BY <1>1, <1>30, <1>31, TurnGrows
  <2> QED
    BY <2>1 DEF Grows
<1>33. ASSUME v
       PROVE  next \in J
  <2>1. next \notin ToSet(Top.outs)
    <3>1. Tidy(Top)
      <4>1. \A i \in 1 .. Len(todo) : Tidy(todo[i])
        BY <1>3 DEF Apart
      <4> QED
        BY <1>1, <1>3, <4>1 DEF After, On, Top, Last
    <3> QED
      BY <1>2, <1>7, <1>33, <1>v, <3>1 DEF Tidy
  <2>2. next # at
    BY <1>2, <1>3, <1>7, <1>12, <1>33, <1>v DEF IsBranch
  <2>3. next \notin ToSet(outs)
    BY <1>25, <1>33, <2>1, <2>2
  <2> QED
    BY <1>7, <1>26, <1>27, <1>32, <1>33, <2>3
<1>34. ASSUME Live(Front(todo))
       PROVE  Turns(em.code, I, d, J, Front(todo), Top, h, breaks, made)
  <2>1. PICK k, r, B, m, f : /\ r = Front(todo) /\ B = Home(r, Len(r), breaks) /\ m = made
                             /\ f = Top /\ k = em.code
    OBVIOUS
  <2>2. Inner(r, f, breaks) = B /\ Inner(r, h, breaks) = B
    BY <2>1, <1>2, <1>20, <1>24, InnerIs
  <2>3. SUFFICES ASSUME NEW a \in Nat, NEW b \in Nat, Inside(k, I, B, B, f, m, a, b)
                 PROVE  Part(d, J, B, B, h, a, Len(d))
    BY <2>1, <2>2 DEF Turns
  <2>4. CaseFrame(f, h, m, arm)
    BY <1>20, <1>21, <1>22, <2>1 DEF CaseFrame
  <2>5. ArmCloses(k, d, J, f, h)
    <3>1. f.const => Len(d) = Len(k)
      BY <1>11, <1>15, <1>v, <2>1
    <3>2. ASSUME ~f.const
          PROVE  /\ ToSet(f.outs) \subseteq ToSet(h.outs) /\ Len(k) \in ToSet(h.outs)
                 /\ Led(k, d, J, Last(f.arms).next, Len(d))
      <4>1. v
        BY <1>v, <1>2, <1>34, <2>1, <3>2 DEF Live
      <4>2. /\ ToSet(f.outs) \subseteq ToSet(h.outs) /\ Len(k) \in ToSet(h.outs)
        BY <1>12, <1>20, <1>25, <2>1, <4>1
      <4>3. Led(k, d, J, next, Len(d))
        BY <1>12, <1>15, <1>33, <2>1, <4>1
      <4> QED
        BY <1>7, <2>1, <4>2, <4>3
    <3> QED
      BY <3>1, <3>2 DEF ArmCloses
  <2>6. Agree(k, I, d, J) /\ Len(k) \in Nat /\ Len(d) \in Nat
    BY <1>3, <1>32, <2>1
  <2>7. f.k = "arm" /\ f.emitted \in BOOLEAN /\ f.const \in BOOLEAN
    BY <1>2, <2>1
  <2> QED
    BY <2>3, <2>4, <2>5, <2>6, <2>7, ArmOver
<1>35. Len(d) = Len(em.code) \/ Live(Front(todo))
  <2>1. Live(Front(todo)) <=> Top.last
    BY <1>2 DEF Live
  <2> QED
    BY <2>1, <1>v, <1>11, <1>15
<1> QED
  BY <1>1, <1>15, <1>24, <1>30, <1>31, <1>34, <1>35, TurnBuilt

-----------------------------------------------------------------------------
(* The program runs as written *)

LEMMA InitBuilt == Init => Compiled
<1>1. SUFFICES ASSUME Init PROVE Built(em.code, todo, breaks, wants, made)
  BY DEF Compiled
<1>2. PICK c, f, bs : /\ c = <<[op |-> "ENTER"], SecondHalf, SecondHalf>>
                      /\ f = [k |-> "begin", list |-> << >>] /\ bs = << >>
  OBVIOUS
<1>3. em.code = c /\ todo = <<f>> /\ breaks = bs /\ wants = TRUE
  BY <1>1, <1>2 DEF Init
<1>t. PICK s : s = <<f>>
  OBVIOUS
<1>4. s = <<f>> /\ Len(s) = 1 /\ s[1] = f
  BY <1>t
<1>5. Len(c) = 3 /\ Len(bs) = 0
  BY <1>2
<1>6. f.k = "begin" /\ f.list = << >> /\ Sites(f) = {} /\ Waits(f) = {}
  BY <1>2 DEF Sites, IsLoop, Waits, IsCase
<1>7. \A i, j \in 1 .. Len(s) : i = 1 /\ j = 1
  BY <1>4
<1>8. Apart(s, bs)
  BY <1>4, <1>6, <1>7 DEF Apart, Tidy
<1>9. CaseOnTop(s, TRUE)
  BY <1>4, <1>6, <1>7 DEF CaseOnTop
<1>10. Waiting(s, bs) = {}
  BY <1>4, <1>5, <1>6, <1>7 DEF Waiting
<1>11. Jumps(c, s, bs)
  BY <1>10 DEF Jumps
<1>12. PICK I, st : I = Settled(c, s, bs) /\ st = [i \in 1 .. 2 |-> 3]
  OBVIOUS
<1>13. Chain(c, I, s, bs, st)
  <2>1. st \in [1 .. Len(s) + 1 -> Nat] /\ st[1] = EnterSize /\ st[2] = 3 /\ st[1] = 3
    BY <1>4, <1>12 DEF EnterSize
  <2>2. \A B, D : Part(c, I, B, D, f, 3, 3)
    <3>1. \A B : Means(c, I, B, {3}, 3, << >>)
      BY HereMeans
    <3> QED
      BY <1>6, <3>1 DEF Part
  <2>3. Step(c, I, s, bs, st, 1)
    <3>1. st[1 + 1] = 3
      BY <2>1
    <3> QED
      BY <1>4, <1>5, <2>1, <2>2, <3>1 DEF Step
  <2> QED
    BY <1>7, <2>1, <2>3 DEF Chain
<1>14. Under(c, I, s, bs, 3)
  <2>1. st[Len(s) + 1] = 3
    BY <1>4, <1>12
  <2> QED
    BY <1>13, <2>1 DEF Under
<1>15. Now(c, I, s, Home(s, Len(s), bs), TRUE, made, 3)
  BY <1>5 DEF Now
<1>16. Built(c, s, bs, TRUE, made)
  BY <1>8, <1>9, <1>11, <1>12, <1>14, <1>15 DEF Built
<1> QED
  BY <1>3, <1>4, <1>16

\* The VM is at m, and s is left to do: the code does it.
Matches(c, m, s) ==
  \E R, x : \E v \in Machine :
    /\ Follows(c, Nat, R, x, {}) /\ Reaches(c, Nat, v, m)
    /\ s # << >> => Up(c, Nat, v, s, R)

LEMMA NothingMatches ==
  ASSUME NEW c, NEW m \in Machine
  PROVE  Matches(c, m, << >>)
<1>1. Follows(c, Nat, {}, 0, {})
  BY DEF Follows
<1>2. Reaches(c, Nat, m, m)
  BY ReachesSelf
<1> QED
  BY <1>1, <1>2 DEF Matches

LEMMA MeansMatches ==
  ASSUME NEW c, NEW a, NEW x, NEW s, Means(c, Nat, {}, {a}, x, s),
         NEW m \in Machine, m.ip = a
  PROVE  Matches(c, m, s)
<1>1. PICK R : /\ Follows(c, Nat, R, x, {})
               /\ \A v \in Machine : v.ip \in {a} => Up(c, Nat, v, s, R)
  BY DEF Means
<1>2. Up(c, Nat, m, s, R) /\ Reaches(c, Nat, m, m)
  BY <1>1, ReachesSelf
<1> QED
  BY <1>1, <1>2 DEF Matches

LEMMA EndMatches ==
  ASSUME IInv, Compiled, EndProgram
  PROVE  Matches(em'.code, vm', src')
<1>1. After("begin") /\ Len(todo) = 1
  BY DEF EndProgram
<1>2. /\ Built(em.code, todo, breaks, FALSE, made) /\ On(todo, Front(todo), Top)
      /\ breaks \in Seq(Nat) /\ em.code \in Seq(WordSet) /\ em \in Emitter
      /\ em.emit <=> Live(Front(todo)) /\ Runs(Top)
      /\ Top.k = "begin"
  BY <1>1, TopReady
<1>3. PICK r, f : r = << >> /\ On(todo, r, f) /\ f = Top /\ r = Front(todo)
  <2>1. Front(todo) = << >>
    BY <1>1 DEF Front
  <2> QED
    BY <1>2, <2>1
<1>4. f.k = "begin" /\ ~IsLoop(f) /\ Runs(f) /\ Len(r) = 0
  BY <1>2, <1>3 DEF IsLoop, Runs
<1>5. Live(r) /\ em.emit
  <2>1. Live(r)
    BY <1>4 DEF Live, AllRun
  <2> QED
    BY <1>2, <1>3, <1>4, <2>1
<1>s. PICK c \in Seq(WordSet), bs \in Seq(Nat) : c = em.code /\ bs = breaks
  BY <1>2
<1>t. PICK s, m, I : s = todo /\ m = made /\ I = Settled(c, s, bs)
  OBVIOUS
<1>6. c = em.code /\ s = todo /\ bs = breaks /\ m = made /\ I = Settled(c, s, bs)
  BY <1>s, <1>t
<1>7. PICK n \in Nat : n = Len(c)
  OBVIOUS
<1>8. PICK w : w = [op |-> "EXIT"]
  OBVIOUS
<1>9. PICK d : d = Append(c, w)
  OBVIOUS
<1>10. em'.code = d
  <2>1. em' = Emit(em, w)
    BY <1>8 DEF EndProgram
  <2> QED
    BY <1>2, <1>5, <1>6, <1>9, <2>1 DEF Emit, Emitter
<1>11. d[n + 1] = w /\ \A p \in I : d[p + 1] = c[p + 1]
  <2>1. w \in WordSet
    BY <1>8 DEF WordSet
  <2>2. d[n + 1] = w /\ \A i \in 1 .. n : d[i] = c[i]
    BY <1>7, <1>9, <2>1
  <2>3. \A p \in I : p \in Nat /\ p < n
    BY <1>6, <1>7 DEF Settled
  <2> QED
    BY <2>2, <2>3
<1>12. I \subseteq Nat
  BY <1>6 DEF Settled
<1>13. Below(f, bs) = bs
  BY <1>4 DEF Below
<1>14. PICK a \in Nat, b \in Nat :
         /\ Under(c, I, r, bs, a)
         /\ Live(r) => Inside(c, I, Home(r, Len(r), bs), Inner(r, f, bs), f, m, a, b)
  <2>1. Built(c, s, bs, FALSE, m) /\ On(s, r, f)
    BY <1>2, <1>3, <1>6
  <2>2. IsLoop(f) => f.prev \in 0 .. Len(bs)
    BY <1>4
  <2>3. PICK u : u = Below(f, bs)
    OBVIOUS
  <2>4. \E a \in Nat, b \in Nat :
           /\ Under(c, I, r, u, a)
           /\ Live(r) => Inside(c, I, Home(r, Len(r), u), Inner(r, f, bs), f, m, a, b)
    BY <1>6, <2>1, <2>2, <2>3, InsideBuilt
  <2> QED
    BY <1>13, <2>3, <2>4
<1>15. a = 3
  BY <1>4, <1>14 DEF Under, Chain, EnterSize
<1>16. PICK B : B = {}
  OBVIOUS
<1>17. Home(r, Len(r), bs) = B /\ Inner(r, f, bs) = B
  <2>1. Home(r, Len(r), bs) = {}
    BY <1>4 DEF Home
  <2> QED
    BY <2>1, <1>4, <1>16, InnerIs
<1>18. Inside(c, I, B, B, f, m, a, b)
  BY <1>5, <1>14, <1>17
<1>19. Means(c, I, B, {a}, b, f.list) /\ Means(c, I, B, {b}, n, m)
  BY <1>4, <1>7, <1>18 DEF Inside, Part
<1>20. Means(c, I, B, {a}, n, f.list \o m)
  BY <1>19, SeqMeans
<1>21. Means(d, Nat, B, {a}, n, f.list \o m)
  <2>1. PICK J : J = Nat
    OBVIOUS
  <2>2. I \subseteq J /\ (\A p \in I : d[p + 1] = c[p + 1])
    BY <1>11, <1>12, <2>1
  <2>3. PICK A, t : A = {a} /\ t = f.list \o m
    OBVIOUS
  <2>4. Means(c, I, B, A, n, t) /\ B \subseteq B
    BY <1>20, <2>3
  <2>5. Means(d, J, B, A, n, t)
    BY <2>2, <2>4, MeansStays
  <2> QED
    BY <2>1, <2>3, <2>5
<1>22. Means(d, Nat, B, {n}, n + 1, <<[k |-> "exit"]>>)
  <2>1. n \in Nat /\ d[n + 1].op = "EXIT"
    BY <1>8, <1>11
  <2> QED
    BY <2>1, ExitMeans
<1>23. Means(d, Nat, B, {a}, n + 1, (f.list \o m) \o <<[k |-> "exit"]>>)
  BY <1>21, <1>22, SeqMeans
<1>24. /\ src' = (f.list \o m) \o <<[k |-> "exit"]>>
       /\ vm' = [ip |-> 3, flag |-> FALSE, reg |-> FALSE]
  BY <1>3, <1>6 DEF EndProgram, EnterSize
<1>25. vm' \in Machine /\ vm'.ip = a
  BY <1>15, <1>24 DEF Machine
<1> QED
  BY <1>10, <1>16, <1>23, <1>24, <1>25, MeansMatches

\* A step of the source alone.
LEMMA TauMatches ==
  ASSUME NEW c, NEW m, NEW s, Matches(c, m, s), s # << >>, ~Visible(Head(s))
  PROVE  Matches(c, m, Tau(s))
<1>1. PICK R, x : \E v \in Machine :
        /\ Follows(c, Nat, R, x, {}) /\ Reaches(c, Nat, v, m)
        /\ s # << >> => Up(c, Nat, v, s, R)
  BY DEF Matches
<1>2. PICK v \in Machine : /\ Follows(c, Nat, R, x, {}) /\ Reaches(c, Nat, v, m)
                           /\ Up(c, Nat, v, s, R)
  BY <1>1
<1>3. PICK y \in Machine : Reaches(c, Nat, v, y) /\ <<y, s>> \in R
  BY <1>2 DEF Up
<1>4. Turn(c, Nat, y, s, R)
  BY <1>2, <1>3 DEF Follows, Leave
<1>5. Up(c, Nat, y, Tau(s), R)
  BY <1>4 DEF Turn
<1>6. Up(c, Nat, v, Tau(s), R)
  BY <1>3, <1>5, UpOn
<1> QED
  BY <1>2, <1>6 DEF Matches

\* A step of the VM alone.
LEMMA MoveMatches ==
  ASSUME NEW c, NEW m \in Machine, NEW s, Matches(c, m, s), Silent(c[m.ip + 1]),
         NEW n, n = Move(c[m.ip + 1], m)
  PROVE  Matches(c, n, s)
<1>1. PICK R, x : \E v \in Machine :
        /\ Follows(c, Nat, R, x, {}) /\ Reaches(c, Nat, v, m)
        /\ s # << >> => Up(c, Nat, v, s, R)
  BY DEF Matches
<1>2. PICK v \in Machine : /\ Follows(c, Nat, R, x, {}) /\ Reaches(c, Nat, v, m)
                           /\ s # << >> => Up(c, Nat, v, s, R)
  BY <1>1
<1>3. Reaches(c, Nat, m, n)
  <2>1. m.ip \in Nat
    BY DEF Machine
  <2>2. Reaches(c, Nat, Move(c[m.ip + 1], m), n)
    BY ReachesSelf
  <2> QED
    BY <2>1, <2>2, ReachesStep
<1>4. Reaches(c, Nat, v, n)
  BY <1>2, <1>3, ReachesOn
<1> QED
  BY <1>2, <1>4 DEF Matches

\* Where the VM is at an event the source waits for the same, and goes on with it.
LEMMA EventMatches ==
  ASSUME NEW c, NEW m \in Machine, NEW s, Matches(c, m, s), s # << >>, Visible(Head(s)),
         c[m.ip + 1].op \in Seen
  PROVE  /\ WordEvent(c[m.ip + 1]) = SourceEvent(Head(s))
         /\ \A o \in BOOLEAN :
              Head(s).k # "exit" /\ Does(c[m.ip + 1], m, o) \in Machine =>
                Matches(c, Does(c[m.ip + 1], m, o), Answer(s, o))
<1>1. PICK R, x : \E v \in Machine :
        /\ Follows(c, Nat, R, x, {}) /\ Reaches(c, Nat, v, m)
        /\ s # << >> => Up(c, Nat, v, s, R)
  BY DEF Matches
<1>2. PICK v \in Machine : /\ Follows(c, Nat, R, x, {}) /\ Reaches(c, Nat, v, m)
                           /\ Up(c, Nat, v, s, R)
  BY <1>1
<1>3. PICK y \in Machine : Reaches(c, Nat, v, y) /\ <<y, s>> \in R
  BY <1>2 DEF Up
<1>4. Turn(c, Nat, y, s, R)
  BY <1>2, <1>3 DEF Follows, Leave
<1>5. PICK z \in Machine :
        /\ Reaches(c, Nat, y, z) /\ z.ip \in Nat /\ c[z.ip + 1].op \in Seen
        /\ WordEvent(c[z.ip + 1]) = SourceEvent(Head(s))
        /\ Head(s).k # "exit" =>
             \A o \in BOOLEAN : /\ IsSeq(Outcome(Head(s), o))
                                /\ Up(c, Nat, Does(c[z.ip + 1], z, o), Answer(s, o), R)
  BY <1>4 DEF Turn
<1>6. Reaches(c, Nat, v, z)
  BY <1>3, <1>5, ReachesOn
<1>7. \A w : w.op \in Seen => ~Silent(w)
  BY DEF Seen, Silent, Branches
<1>8. z = m
  BY <1>2, <1>5, <1>6, <1>7, ReachesOne
<1>9. ASSUME NEW o \in BOOLEAN, Head(s).k # "exit", Does(c[m.ip + 1], m, o) \in Machine
      PROVE  Matches(c, Does(c[m.ip + 1], m, o), Answer(s, o))
  <2>1. PICK n \in Machine : n = Does(c[m.ip + 1], m, o)
    BY <1>9
  <2>2. Up(c, Nat, n, Answer(s, o), R)
    BY <1>5, <1>8, <1>9, <2>1
  <2>3. Reaches(c, Nat, n, n)
    BY ReachesSelf
  <2>4. Matches(c, n, Answer(s, o))
    BY <1>2, <2>2, <2>3 DEF Matches
  <2> QED
    BY <2>1, <2>4
<1> QED
  BY <1>5, <1>8, <1>9

RunsOn == (~Running => src = << >>) /\ Matches(em.code, vm, src)
LEMMA AtFetched ==
  ASSUME IInv, Running
  PROVE  vm \in Machine /\ Fetched = em.code[vm.ip + 1]
<1>1. vm \in Machine
  BY DEF IInv, Typed, Machine
<1>2. Fetched.op # "half"
  BY FetchedIs
<1> QED
  BY <1>1, <1>2 DEF Fetched, WordAt, SecondHalf

LEMMA SourceStepRuns ==
  ASSUME IInv, RunsOn, SourceStep
  PROVE  RunsOn'
<1>1. src' = Tau(src)
  BY DEF SourceStep, Tau, AfterMark, Rest, SelectInSeq
<1>2. Matches(em.code, vm, Tau(src))
  BY TauMatches DEF SourceStep, RunsOn
<1>3. UNCHANGED <<em, vm>> /\ Running'
  BY DEF SourceStep, compiling, Running
<1> QED
  BY <1>1, <1>2, <1>3 DEF RunsOn

LEMMA VMStepRuns ==
  ASSUME IInv, RunsOn, VMStep
  PROVE  RunsOn'
<1>1. Running /\ UNCHANGED <<em, src>> /\ Running'
  BY DEF VMStep, compiling, Running
<1>m. PICK m \in Machine : m = vm /\ Fetched = em.code[m.ip + 1]
  BY <1>1, AtFetched
<1>c. PICK c, w : c = em.code /\ w = c[m.ip + 1]
  OBVIOUS
<1>2. c = em.code /\ m = vm /\ w = c[m.ip + 1] /\ w = Fetched
  BY <1>c, <1>m
<1>3. Silent(w) /\ vm' = Move(w, m)
  <2>1. CASE Fetched.op \in Branches /\ vm' = Jump(Taken)
    <3>1. Taken <=> Goes(w, m)
      BY <1>2, <2>1 DEF Taken, Goes, Branches
    <3> QED
      BY <1>2, <2>1, <3>1 DEF Jump, Move, Silent
  <2>2. CASE Fetched.op = "imm" /\ vm' = [vm EXCEPT !.ip = @ + 1, !.reg = Fetched.val]
    BY <1>2, <2>2 DEF Move, Silent, Branches
  <2> QED
    BY <2>1, <2>2 DEF VMStep
<1>4. Matches(c, Move(w, m), src)
  BY <1>2, <1>3, MoveMatches DEF RunsOn
<1> QED
  BY <1>1, <1>2, <1>3, <1>4 DEF RunsOn

LEMMA EventStepRuns ==
  ASSUME IInv, RunsOn, NEW o \in BOOLEAN, EventStep(o)
  PROVE  RunsOn'
<1>1. /\ Running /\ UNCHANGED em /\ Running' /\ src # << >> /\ Visible(Head(src))
      /\ Fetched.op \in Seen
  BY DEF EventStep, compiling, Running, SourceWaits
<1>m. PICK m \in Machine : m = vm /\ Fetched = em.code[m.ip + 1]
  BY <1>1, AtFetched
<1>c. PICK c, w : c = em.code /\ w = c[m.ip + 1]
  OBVIOUS
<1>2. c = em.code /\ m = vm /\ w = c[m.ip + 1] /\ w = Fetched
  BY <1>c, <1>m
<1>3. vm' \in Machine
  BY EventStepOK DEF IInv, Typed, Machine
<1>4. CASE Head(src).k = "exit"
  <2>1. src' = << >>
    BY <1>4 DEF EventStep
  <2> QED
    BY <1>1, <1>3, <2>1, NothingMatches DEF RunsOn
<1>5. CASE Head(src).k # "exit"
  <2>1. src' = Answer(src, o)
    BY <1>5 DEF EventStep, Answer, Rest
  <2>2. vm' = Does(w, m, o)
    BY <1>2 DEF EventStep, Does, Jump
  <2>3. Matches(c, Does(w, m, o), Answer(src, o))
    BY <1>1, <1>2, <1>3, <1>5, <2>2, EventMatches DEF RunsOn
  <2> QED
    BY <1>1, <1>2, <2>1, <2>2, <2>3 DEF RunsOn
<1> QED
  BY <1>4, <1>5

MInv == IInv /\ Compiled /\ RunsOn
LEMMA MeaningInit == Init => MInv
<1>1. SUFFICES ASSUME Init PROVE MInv
  OBVIOUS
<1>2. IInv /\ Compiled
  BY <1>1, InitOK, InitBuilt
<1>3. vm \in Machine /\ src = << >>
  BY <1>1 DEF Init, Machine
<1>4. RunsOn
  BY <1>3, NothingMatches DEF RunsOn
<1> QED
  BY <1>2, <1>4 DEF MInv

\* While a program is compiled nothing of it is done.
LEMMA WaitsRuns ==
  ASSUME IInv, RunsOn, ~Running, UNCHANGED <<vm, src>>
  PROVE  RunsOn'
<1>1. vm' \in Machine /\ src' = << >>
  BY DEF IInv, Typed, Machine, RunsOn
<1> QED
  BY <1>1, NothingMatches DEF RunsOn

LEMMA StatementMeans ==
  ASSUME IInv, Compiled, RunsOn, Statement
  PROVE  Compiled' /\ RunsOn'
<1>1. Compiled'
  <2>1. CASE \E c \in Conditions : IfStmt(c) \/ WhileStmt(c)
    BY <2>1, IfBuilt, WhileBuilt
  <2>2. CASE \E const \in BOOLEAN : CaseStmt(const)
    BY <2>2, CaseBuilt
  <2> QED
    BY <2>1, <2>2, SimpleBuilt, NullBuilt, ExitBuilt, BreakBuilt, BeginBuilt, ForBuilt,
       RepeatBuilt DEF Statement
<1>2. ~Running /\ UNCHANGED <<vm, src>>
  <2>1. CASE Simple \/ NullStmt \/ ExitStmt \/ BreakStmt \/ BeginStmt \/ ForStmt \/ RepeatStmt
    BY <2>1 DEF Simple, NullStmt, ExitStmt, BreakStmt, BeginStmt, ForStmt, RepeatStmt,
                Start, Ready, Whole, Begin, LoopBody
  <2>2. CASE \E c \in Conditions : IfStmt(c) \/ WhileStmt(c)
    BY <2>2 DEF IfStmt, WhileStmt, Start, Ready, LoopBody
  <2>3. CASE \E const \in BOOLEAN : CaseStmt(const)
    BY <2>3 DEF CaseStmt, Start, Ready
  <2> QED
    BY <2>1, <2>2, <2>3 DEF Statement
<1> QED
  BY <1>1, <1>2, WaitsRuns

LEMMA ContinueMeans ==
  ASSUME IInv, Compiled, RunsOn, Continue, ~EndProgram
  PROVE  Compiled' /\ RunsOn'
<1>1. Compiled'
  <2>1. CASE \E c \in Conditions : Until(c)
    BY <2>1, UntilBuilt
  <2>2. CASE \E equal \in BOOLEAN : Arm(equal)
    BY <2>2, ArmBuilt
  <2>3. CASE Semicolon \/ EndBegin \/ Else \/ EndIf \/ EndWhile \/ EndFor
    BY <2>3, SemicolonBuilt, EndBeginBuilt, ElseBuilt, EndIfBuilt, EndWhileBuilt, EndForBuilt
  <2>4. CASE EndArm \/ CaseElse \/ EndCase
    BY <2>4, EndArmBuilt, CaseElseBuilt, EndCaseBuilt
  <2> QED
    BY <2>1, <2>2, <2>3, <2>4 DEF Continue
<1>2. ~Running /\ UNCHANGED <<vm, src>>
  <2>1. CASE \E c \in Conditions : Until(c)
    BY <2>1 DEF Until, After, Ready, Still
  <2>2. CASE \E equal \in BOOLEAN : Arm(equal)
    BY <2>2 DEF Arm, After, Ready, Still
  <2>3. CASE Semicolon \/ EndBegin \/ Else \/ EndIf \/ EndWhile \/ EndFor
    BY <2>3 DEF Semicolon, EndBegin, Else, EndIf, EndWhile, EndFor, After, Ready, Still
  <2>4. CASE EndArm \/ CaseElse \/ EndCase
    BY <2>4 DEF EndArm, CaseElse, EndCase, After, Ready, Still
  <2> QED
    BY <2>1, <2>2, <2>3, <2>4 DEF Continue
<1> QED
  BY <1>1, <1>2, WaitsRuns

LEMMA MeaningNext == MInv /\ [Next]_vars => MInv'
<1>1. SUFFICES ASSUME MInv, [Next]_vars PROVE MInv'
  OBVIOUS
<1>2. IInv /\ Compiled /\ RunsOn /\ IInv'
  BY <1>1, NextOK DEF MInv
<1>3. CASE Statement
  BY <1>2, <1>3, StatementMeans DEF MInv
<1>4. CASE EndProgram
  <2>1. Running'
    BY <1>4 DEF EndProgram, Running
  <2>2. Matches(em'.code, vm', src')
    BY <1>2, <1>4, EndMatches
  <2> QED
    BY <1>2, <2>1, <2>2 DEF MInv, Compiled, RunsOn
<1>5. CASE Continue /\ ~EndProgram
  BY <1>2, <1>5, ContinueMeans DEF MInv
<1>6. CASE Run
  <2>1. RunsOn'
    BY <1>2, <1>6, SourceStepRuns, VMStepRuns, EventStepRuns DEF Run
  <2>2. Running'
    BY <1>6 DEF Run, SourceStep, VMStep, EventStep, compiling, Running
  <2> QED
    BY <1>2, <2>1, <2>2 DEF MInv, Compiled
<1>7. CASE UNCHANGED vars
  <2>1. Compiled'
    BY <1>2, <1>7 DEF vars, Compiled, Running
  <2>2. RunsOn'
    BY <1>2, <1>7 DEF vars, RunsOn, Running
  <2> QED
    BY <1>2, <2>1, <2>2 DEF MInv
<1> QED
  BY <1>1, <1>3, <1>4, <1>5, <1>6, <1>7 DEF Next

\* As long as it is orderly, the code so far means what the source so far says, each
\* branch still to be patched leading where its construct will let it (Compiler.c:
\* CompileIfStmt ... CompileCaseStmt; Expr.c: ExprAnd, ExprOr; Emitter.c:
\* PVMPatchBranch), and while it runs the VM is where the source is.
THEOREM MeaningInductive == Spec => []MInv
<1>1. Init => MInv
  BY MeaningInit
<1>2. MInv /\ [Next]_vars => MInv'
  BY MeaningNext
<1> QED
  BY <1>1, <1>2, PTL DEF Spec

\* As long as the code has been orderly, a program of any size and depth does what
\* its source says, for every outcome of its tests: the next thing the VM shows is
\* the source's next event (Compiler.c, Expr.c, Emitter.c; PVM.c: BR, Bcc, BRI).
THEOREM RunsAsWritten == Spec => []InStep
<1>1. MInv => InStep
  <2>1. SUFFICES ASSUME MInv, Running, SourceWaits, Fetched.op \in Seen
                 PROVE  WordEvent(Fetched) = SourceEvent(Head(src))
    BY DEF InStep
  <2>2. PICK m \in Machine : m = vm /\ Fetched = em.code[m.ip + 1]
    BY <2>1, AtFetched DEF MInv
  <2>3. PICK c, w : c = em.code /\ w = c[m.ip + 1]
    OBVIOUS
  <2>4. Matches(c, m, src) /\ src # << >> /\ Visible(Head(src)) /\ c[m.ip + 1].op \in Seen
    BY <2>1, <2>2, <2>3 DEF MInv, RunsOn, SourceWaits
  <2>5. WordEvent(c[m.ip + 1]) = SourceEvent(Head(src))
    BY <2>4, EventMatches
  <2> QED
    BY <2>2, <2>3, <2>5
<1> QED
  BY <1>1, MeaningInductive, PTL
=============================================================================
