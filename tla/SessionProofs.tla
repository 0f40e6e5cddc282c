---------------------------- MODULE SessionProofs ----------------------------
(***************************************************************************)
(* The invariants of Session, for every set of names, of parameter lists   *)
(* and of VAR blocks and for every bound: where the code of each           *)
(* subroutine of each text is, which of its calls already lead where they  *)
(* should and which wait for the end of the text, and that the VM is       *)
(* where the source says.                                                  *)
(*                                                                         *)
(* IInv is what every step keeps.  Each action has a lemma of its own      *)
(* (BeginTextOK ... ResetOK); what they share, that code only grows behind *)
(* the entry point, is CodeGrows and Keeps.  Before that come facts about  *)
(* the operators of Session, whatever their arguments: what they do to the *)
(* code, the global data and the state of a VAR block.                     *)
(*                                                                         *)
(* Then where variables lie: what VAR blocks place is apart (Placed),      *)
(* global variables have bytes of their own (GlobalsFit), and so have those *)
(* of a subroutine, in the frame its ENTER makes (FramesFit).  While a     *)
(* block is open its frame is what it has taken from the stack (Room), and *)
(* its ENTER has no size yet.  Last, the line table: lines are in order,   *)
(* each word is of the last one before it (Lined), and the binary search   *)
(* finds that one (SearchFinds).                                           *)
(***************************************************************************)
EXTENDS Session, WellFoundedInduction, SequenceTheorems, FiniteSetTheorems, TLAPS

Entity(m) ==
  {Undefined, Other} \cup [is : {"sub"}, sub : 1 .. m]
    \cup [is : {"var"}, at : Int, size : Nat \ {0}, sure : BOOLEAN]
Subroutine(m) ==
  [loc : Nat \cup {Invalid}, calls : Seq(1 .. m), fate : {"fresh", "kept", "lost"}, holds : BOOLEAN]
Lines == [offset : Nat, count : 1 .. 8]
Chunk == [code : Seq(Words), entry : Nat, lines : Seq(Lines), count : Nat, cap : Nat]
Open == [sub : 0 .. MaxSubs, part : {"declarations", "body", "over"}, stack : Nat]
Reference == [site : Nat, sub : 1 .. MaxSubs]
Compiler == [scope : 0 .. MaxScope - 1, locals : [1 .. MaxScope -> 0 .. MaxSubs],
             refs : Seq(Reference), entry : Nat, last : Nat, error : BOOLEAN, eof : BOOLEAN,
             stack : Nat]

-----------------------------------------------------------------------------
(* Code *)

\* e is c with size words more, the first of them op.
Adds(c, e, op, arg, size, tag) ==
  /\ e \in Chunk /\ Len(e.code) = Len(c.code) + size
  /\ \A i \in 1 .. Len(c.code) : e.code[i] = c.code[i]
  /\ e.code[Len(c.code) + 1].op = op /\ e.code[Len(c.code) + 1].arg = arg
  /\ \A i \in Len(c.code) + 1 .. Len(e.code) : e.code[i].tag = tag
  /\ e.entry = c.entry /\ e.lines = c.lines /\ e.count = c.count /\ e.cap = c.cap

LEMMA LastLineInt ==
  ASSUME NEW c \in Chunk
  PROVE  LastLine(c) \in Int
<1>1. CASE c.lines = << >>
  BY <1>1 DEF LastLine, Invalid
<1>2. CASE c.lines # << >>
  <2>1. Last(c.lines) \in Lines
    BY <1>2 DEF Last, Chunk
  <2> QED
    BY <1>2, <2>1 DEF LastLine, Lines
<1> QED
  BY <1>1, <1>2

LEMMA WithCode ==
  ASSUME NEW c \in Chunk, NEW code \in Seq(Words)
  PROVE  LET e == [c EXCEPT !.code = code]
         IN  /\ e \in Chunk /\ e.code = code /\ e.entry = c.entry /\ e.lines = c.lines
             /\ e.count = c.count /\ e.cap = c.cap
BY DEF Chunk

LEMMA EmitAdds ==
  ASSUME NEW c \in Chunk, NEW op \in {"ENTER", "CALL", "EXIT"}, NEW arg \in Int,
         NEW size \in Nat \ {0}, NEW tag \in Tags
  PROVE  Adds(c, Emit(c, op, arg, size, tag), op, arg, size, tag)
<1> DEFINE word(i) == [op |-> IF i = 1 THEN op ELSE "operand", arg |-> IF i = 1 THEN arg ELSE 0,
                       tag |-> tag, line |-> LastLine(c)]
           new == [i \in 1 .. size |-> word(i)]
           e == [c EXCEPT !.code = @ \o new]
<1>1. \A i \in 1 .. size : word(i) \in Words
  BY LastLineInt DEF Words
<1>2. new \in Seq(Words) /\ Len(new) = size
  BY <1>1
<1>3. c.code \in Seq(Words)
  BY DEF Chunk
<1> HIDE DEF new
<1>4. c.code \o new \in Seq(Words)
  BY <1>2, <1>3
<1>11. e \in Chunk /\ e.code = c.code \o new /\ e.entry = c.entry /\ e.lines = c.lines
       /\ e.count = c.count /\ e.cap = c.cap
  BY <1>4, WithCode
<1>12. Emit(c, op, arg, size, tag) = e
  BY DEF Emit, new
<1> HIDE DEF e, word
<1>16. Len(c.code \o new) = Len(c.code) + size
  BY <1>2, <1>3
<1>5. /\ e.code \in Seq(Words) /\ Len(e.code) = Len(c.code) + size
      /\ Len(c.code) \in Nat /\ Len(e.code) \in Nat
  BY <1>3, <1>4, <1>11, <1>16
<1>6. \A i \in 1 .. Len(c.code) : e.code[i] = c.code[i]
  BY <1>2, <1>3, <1>11
<1>7. \A i \in 1 .. size : e.code[Len(c.code) + i] = new[i]
  BY <1>2, <1>3, <1>11
<1>8. \A i \in 1 .. size : new[i] = word(i)
  BY DEF new
<1>13. \A i \in 1 .. size : word(i).tag = tag
  BY DEF word
<1>14. word(1).op = op /\ word(1).arg = arg
  BY DEF word
<1>9. \A i \in Len(c.code) + 1 .. Len(e.code) : e.code[i].tag = tag
  <2> TAKE i \in Len(c.code) + 1 .. Len(e.code)
  <2>1. i - Len(c.code) \in 1 .. size /\ Len(c.code) + (i - Len(c.code)) = i
    BY <1>5
  <2> QED
    BY <2>1, <1>7, <1>8, <1>13
<1>10. e.code[Len(c.code) + 1].op = op /\ e.code[Len(c.code) + 1].arg = arg
  BY <1>7, <1>8, <1>14
<1> QED
  BY <1>5, <1>6, <1>9, <1>10, <1>11, <1>12 DEF Adds

\* e is c but for the arguments of some instructions, at places not in fixed.
Patches(c, e, fixed) ==
  /\ e \in Chunk /\ Len(e.code) = Len(c.code)
  /\ \A i \in 1 .. Len(c.code) : e.code[i].op = c.code[i].op /\ e.code[i].tag = c.code[i].tag
  /\ \A i \in 1 .. Len(c.code) : i \in fixed => e.code[i] = c.code[i]
  /\ e.entry = c.entry /\ e.lines = c.lines /\ e.count = c.count /\ e.cap = c.cap

WithArg(c, at, arg) == [c EXCEPT !.code[at + 1].arg = arg]
ArgAt(c, at) == c.code[at + 1].arg
Others(at) == Int \ {at + 1}

LEMMA ArgPatches ==
  ASSUME NEW c \in Chunk, NEW at \in Nat, at < Len(c.code), NEW arg \in Int
  PROVE  LET e == WithArg(c, at, arg) IN Patches(c, e, Others(at)) /\ ArgAt(e, at) = arg
<1>1. PICK k \in Nat : k = at + 1
  OBVIOUS
<1>2. c.code \in Seq(Words) /\ k \in 1 .. Len(c.code)
  BY <1>1 DEF Chunk
<1> DEFINE w == [c.code[k] EXCEPT !.arg = arg]
           code == [c.code EXCEPT ![k] = w]
           e == [c EXCEPT !.code = code]
<1>3. c.code[k] \in Words
  BY <1>2
<1>4. w \in Words /\ w.arg = arg /\ w.op = c.code[k].op /\ w.tag = c.code[k].tag
  BY <1>3 DEF Words
<1> HIDE DEF w
<1>5. /\ code \in Seq(Words) /\ Len(code) = Len(c.code) /\ code[k] = w
      /\ \A i \in 1 .. Len(c.code) : i # k => code[i] = c.code[i]
  BY <1>2, <1>4
<1> HIDE DEF code
<1>6. /\ e \in Chunk /\ e.code = code /\ e.entry = c.entry /\ e.lines = c.lines
      /\ e.count = c.count /\ e.cap = c.cap
  BY <1>5, WithCode
<1>7. [c EXCEPT !.code[k].arg = arg] = e
  BY DEF code, w
<1> HIDE DEF e
<1>8. Patches(c, e, Int \ {k})
  <2>1. \A i \in 1 .. Len(c.code) : e.code[i].op = c.code[i].op /\ e.code[i].tag = c.code[i].tag
    BY <1>4, <1>5, <1>6
  <2>2. \A i \in 1 .. Len(c.code) : i \in Int \ {k} => e.code[i] = c.code[i]
    BY <1>5, <1>6
  <2> QED
    BY <2>1, <2>2, <1>5, <1>6 DEF Patches
<1>9. e.code[k].arg = arg
  BY <1>4, <1>5, <1>6
<1> QED
  BY <1>1, <1>7, <1>8, <1>9 DEF WithArg, ArgAt, Others

LEMMA RoundUpOK ==
  ASSUME NEW n \in Nat, NEW to \in {4, 8}
  PROVE  /\ RoundUp(n, to) \in Nat /\ n <= RoundUp(n, to) /\ RoundUp(n, to) % to = 0
         /\ n % to = 0 => RoundUp(n, to) = n
<1>1. CASE to = 4
  BY <1>1 DEF RoundUp
<1>2. CASE to = 8
  BY <1>2 DEF RoundUp
<1> QED
  BY <1>1, <1>2

LEMMA PatchEnterPatches ==
  ASSUME NEW c \in Chunk, NEW at \in Nat, at < Len(c.code), NEW size \in Nat
  PROVE  LET e == PatchEnter(c, at, size) IN Patches(c, e, Others(at)) /\ size <= ArgAt(e, at)
<1>1. PICK arg \in Int : arg = RoundUp(size, StackAlign) /\ size <= arg
  <2>1. RoundUp(size, StackAlign) \in Int /\ size <= RoundUp(size, StackAlign)
    BY DEF RoundUp, StackAlign
  <2> QED
    BY <2>1
<1>2. PatchEnter(c, at, size) = WithArg(c, at, arg)
  BY <1>1 DEF PatchEnter, WithArg
<1> QED
  BY <1>1, <1>2, ArgPatches

LEMMA PatchBranchPatches ==
  ASSUME NEW c \in Chunk, NEW from \in Nat, from < Len(c.code), NEW to \in Int
  PROVE  LET e == PatchBranch(c, from, to)
         IN  Patches(c, e, Others(from)) /\ ArgAt(e, from) = to - from - BranchSize
<1>1. PICK arg \in Int : arg = to - from - BranchSize
  BY DEF BranchSize
<1>2. PatchBranch(c, from, to) = WithArg(c, from, arg)
  BY <1>1 DEF PatchBranch, WithArg
<1> QED
  BY <1>1, <1>2, ArgPatches

\* The code is left alone.
KeepsCode(c, e) ==
  e \in Chunk /\ e.code = c.code /\ e.entry = c.entry

LEMMA DebugInfoKeepsCode ==
  ASSUME NEW c \in Chunk
  PROVE  LET e == WriteDebugInfo(c) IN KeepsCode(c, e) /\ e.count = c.count /\ e.cap = c.cap
<1>1. CASE c.lines # << >> /\ Last(c.lines).offset = Len(c.code)
  <2> DEFINE n == Len(c.lines)
             l == [c.lines[n] EXCEPT !.count = IF @ < 8 THEN @ + 1 ELSE @]
             lines == [c.lines EXCEPT ![n] = l]
  <2>1. c.lines \in Seq(Lines) /\ n \in 1 .. Len(c.lines)
    BY <1>1 DEF Chunk
  <2>2. c.lines[n] \in Lines
    BY <2>1
  <2>3. l \in Lines
    BY <2>2 DEF Lines
  <2>4. lines \in Seq(Lines)
    BY <2>1, <2>3
  <2>5. WriteDebugInfo(c) = [c EXCEPT !.lines = lines]
    BY <1>1 DEF WriteDebugInfo
  <2> HIDE DEF lines, l, n
  <2> QED
    BY <2>4, <2>5 DEF KeepsCode, Chunk
<1>2. CASE ~ (c.lines # << >> /\ Last(c.lines).offset = Len(c.code))
  <2> DEFINE l == [offset |-> Len(c.code), count |-> 1]
             lines == Append(c.lines, l)
  <2>1. l \in Lines
    BY DEF Lines, Chunk
  <2>2. lines \in Seq(Lines)
    BY <2>1 DEF Chunk
  <2>3. WriteDebugInfo(c) = [c EXCEPT !.lines = lines]
    BY <1>2 DEF WriteDebugInfo
  <2> HIDE DEF lines, l
  <2> QED
    BY <2>2, <2>3 DEF KeepsCode, Chunk
<1> QED
  BY <1>1, <1>2

\* Rounding may take the count beyond the capacity, but never far.
Fitted(c) == 3 <= c.cap /\ c.count <= c.cap + 3

LEMMA GlobalDataKeepsCode ==
  ASSUME NEW c \in Chunk, Fitted(c), NEW size \in Nat
  PROVE  LET e == WriteGlobalData(c, size)
         IN  /\ KeepsCode(c, e) /\ c.count <= e.count /\ c.cap <= e.cap /\ Fitted(e)
             /\ c.count + size <= e.cap /\ c.count + size <= e.count
             /\ e.count = c.count + RoundUp(size, GlobalAlign) /\ e.lines = c.lines
<1>1. c.cap \in Nat /\ c.count \in Nat
  BY DEF Chunk
<1>2. PICK taken \in Nat : taken = RoundUp(size, GlobalAlign) /\ size <= taken /\ taken <= size + 3
  <2>1. /\ RoundUp(size, GlobalAlign) \in Nat /\ size <= RoundUp(size, GlobalAlign)
        /\ RoundUp(size, GlobalAlign) <= size + 3
    BY DEF RoundUp, GlobalAlign
  <2> QED
    BY <2>1
<1>3. PICK count \in Nat : count = c.count + taken
  BY <1>1
<1>4. PICK cap \in Nat : cap = IF c.count + size > c.cap THEN 2 * c.cap + size ELSE c.cap
  BY <1>1
<1>5. c.cap <= cap /\ c.count + size <= cap /\ 3 <= cap /\ count <= cap + 3
  BY <1>1, <1>2, <1>3, <1>4 DEF Fitted
<1>6. c.count <= count /\ c.count + size <= count
  BY <1>1, <1>2, <1>3
<1> DEFINE e == [c EXCEPT !.cap = cap, !.count = count]
<1>7. WriteGlobalData(c, size) = e
  BY <1>2, <1>3, <1>4 DEF WriteGlobalData
<1>8. /\ e \in Chunk /\ e.code = c.code /\ e.entry = c.entry /\ e.count = count /\ e.cap = cap
      /\ e.lines = c.lines
  BY DEF Chunk
<1> HIDE DEF e
<1> QED
  BY <1>2, <1>3, <1>5, <1>6, <1>7, <1>8 DEF KeepsCode, Fitted

-----------------------------------------------------------------------------
(* Numbers *)

HasMax(S) == \E i \in S : \A j \in S : j <= i

LEMMA MaxOf ==
  ASSUME NEW n \in Nat, NEW S, S \subseteq 1 .. n, S # {}
  PROVE  HasMax(S)
<1> DEFINE D == {k \in 0 .. n : n - k \in S}
<1>1. D # {}
  <2>1. PICK i \in S : TRUE
    OBVIOUS
  <2>2. n - i \in 0 .. n /\ n - (n - i) = i
    BY <2>1
  <2>3. n - i \in D
    BY <2>1, <2>2
  <2> QED
    BY <2>3
<1>2. D \subseteq Nat
  OBVIOUS
<1>3. PICK k \in D : \A i \in D : ~ (<<i, k>> \in OpToRel(<, Nat))
  <2> HIDE DEF D
  <2> QED
    BY <1>1, <1>2, WFMin, NatLessThanWellFounded, Zenon
<1>4. \A i \in D : ~ (i < k)
  <2> HIDE DEF D
  <2> QED
    BY <1>2, <1>3, Zenon DEF OpToRel
<1>5. ASSUME NEW j \in S PROVE j <= n - k
  <2>1. n - j \in 0 .. n /\ n - (n - j) = j
    OBVIOUS
  <2>2. n - j \in D
    BY <2>1
  <2>3. ~ (n - j < k)
    <3> HIDE DEF D
    <3> QED
      BY <1>4, <2>2
  <2>4. k \in Nat
    OBVIOUS
  <2> QED
    BY <2>1, <2>3, <2>4
<1> QED
  BY <1>3, <1>5 DEF HasMax

-----------------------------------------------------------------------------
(* VAR blocks *)

StepsAlike(g, h, n) == \A i \in 1 .. n : g[i - 1] = h[i - 1] => g[i] = h[i]
Alike(g, h, n) == \A i \in 0 .. n : g[i] = h[i]

LEMMA SameFrom0 ==
  ASSUME NEW n \in Nat, NEW g, NEW h, g[0] = h[0], StepsAlike(g, h, n)
  PROVE  Alike(g, h, n)
<1> USE DEF StepsAlike, Alike
<1> DEFINE Bad == {k \in 0 .. n : g[k] # h[k]}
<1>1. SUFFICES ASSUME Bad # {} PROVE FALSE
  OBVIOUS
<1>2. Bad \subseteq Nat
  OBVIOUS
<1>3. PICK k \in Bad : \A i \in Bad : ~ (<<i, k>> \in OpToRel(<, Nat))
  <2> HIDE DEF Bad
  <2> QED
    BY <1>1, <1>2, WFMin, NatLessThanWellFounded, Zenon
<1>4. \A i \in Bad : ~ (i < k)
  <2> HIDE DEF Bad
  <2> QED
    BY <1>2, <1>3, Zenon DEF OpToRel
<1>5. k \in 1 .. n
  OBVIOUS
<1>6. k - 1 \in 0 .. n /\ k - 1 < k
  BY <1>5
<1>7. k - 1 \notin Bad
  <2> HIDE DEF Bad
  <2> QED
    BY <1>4, <1>6
<1>8. g[k - 1] = h[k - 1]
  BY <1>6, <1>7
<1> QED
  BY <1>5, <1>8

\* A recursion over 0 .. n has a solution.
IsStep(step, S, n) == step \in [1 .. n -> [S -> S]]
Iterated(g, S, b, step, n) ==
  g \in [0 .. n -> S] /\ g[0] = b /\ \A i \in 1 .. n : g[i] = step[i][g[i - 1]]

LEMMA Iterates ==
  ASSUME NEW S, NEW n \in Nat, NEW b \in S, NEW step, IsStep(step, S, n)
  PROVE  \E g : Iterated(g, S, b, step, n)
<1> USE DEF IsStep, Iterated
<1> DEFINE Solves(g, k) == g[0] = b /\ \A i \in 1 .. k : g[i] = step[i][g[i - 1]]
           Bad == {k \in 0 .. n : ~ \E g \in [0 .. k -> S] : Solves(g, k)}
<1>1. SUFFICES ASSUME Bad # {} PROVE FALSE
  <2>1. n \notin Bad
    BY <1>1
  <2> QED
    BY <2>1
<1>2. PICK k \in Bad : \A i \in Bad : ~ (<<i, k>> \in OpToRel(<, Nat))
  <2>1. Bad \subseteq Nat
    OBVIOUS
  <2> HIDE DEF Bad
  <2> QED
    BY <1>1, <2>1, WFMin, NatLessThanWellFounded, Zenon
<1>3. \A i \in Bad : ~ (i < k)
  <2>1. Bad \subseteq Nat
    OBVIOUS
  <2> HIDE DEF Bad
  <2> QED
    BY <1>2, <2>1, Zenon DEF OpToRel
<1>4. k # 0
  <2>1. [i \in 0 .. 0 |-> b] \in [0 .. 0 -> S]
    OBVIOUS
  <2>2. Solves([i \in 0 .. 0 |-> b], 0)
    OBVIOUS
  <2> QED
    BY <2>1, <2>2
<1>5. PICK m \in Nat : k = m + 1 /\ m \in 0 .. n /\ k \in 1 .. n
  <2>1. k - 1 \in Nat /\ k = (k - 1) + 1 /\ k - 1 \in 0 .. n /\ k \in 1 .. n
    BY <1>4
  <2> QED
    BY <2>1
<1>6. PICK g \in [0 .. m -> S] : Solves(g, m)
  <2>1. m \notin Bad
    <3> HIDE DEF Bad
    <3> QED
      BY <1>3, <1>5
  <2> QED
    BY <2>1, <1>5
<1> DEFINE h == [i \in 0 .. k |-> IF i = k THEN step[k][g[m]] ELSE g[i]]
<1>7. step[k][g[m]] \in S
  BY <1>5, <1>6
<1>8. h \in [0 .. k -> S]
  BY <1>5, <1>6, <1>7
<1>9. Solves(h, k)
  <2>1. h[0] = b
    BY <1>4, <1>5, <1>6
  <2>2. ASSUME NEW i \in 1 .. k PROVE h[i] = step[i][h[i - 1]]
    <3>1. CASE i = k
      BY <3>1, <1>5
    <3>2. CASE i # k
      BY <3>2, <1>5, <1>6
    <3> QED
      BY <3>1, <3>2
  <2> QED
    BY <2>1, <2>2
<1> QED
  BY <1>2, <1>8, <1>9

\* The chunk with more global data than c.
Extended(c) ==
  {e \in Chunk : /\ e.code = c.code /\ e.entry = c.entry /\ e.lines = c.lines /\ Fitted(e)
                 /\ c.count <= e.count /\ c.cap <= e.cap}
BlockState(m, c) ==
  [tab : [Names -> Entity(m)], base : Nat, total : Nat, chunk : Extended(c), error : BOOLEAN,
   gone : BOOLEAN, dead : BOOLEAN]

\* A position in a list of names, counted from base.
LEMMA PlaceNat ==
  ASSUME NEW base \in Nat, NEW total \in Nat, NEW i \in Nat \ {0}, NEW aligned \in Nat
  PROVE  base + total + (i - 1) * aligned \in Nat
<1>1. PICK k \in Nat : k = i - 1
  OBVIOUS
<1>2. k * aligned \in Nat
  OBVIOUS
<1> QED
  BY <1>1, <1>2

LEMMA VarListOK ==
  ASSUME NEW m \in Nat, NEW c \in Chunk, NEW b \in BlockState(m, c), NEW d \in Declarations,
         NEW atGlobal \in BOOLEAN, NEW sure \in BOOLEAN
  PROVE  /\ VarList(b, d, atGlobal, sure) \in BlockState(m, c)
         /\ VarList(b, d, atGlobal, sure).chunk = b.chunk
<1> DEFINE to == IF atGlobal THEN GlobalAlign ELSE StackAlign
           isNew(i) == /\ b.tab[d.names[i]] = Undefined
                       /\ \A j \in 1 .. i - 1 : d.names[j] # d.names[i]
           new(n) == {i \in DOMAIN d.names : d.names[i] = n /\ isNew(i)}
<1>1. PICK aligned \in Nat : aligned = RoundUp(d.size, to)
  <2>1. RoundUp(d.size, to) \in Nat
    BY DEF RoundUp, GlobalAlign, StackAlign, Declarations
  <2> QED
    BY <2>1
<1> DEFINE at(i) == b.base + b.total + (i - 1) * aligned
           tab == [n \in Names |-> IF new(n) = {} THEN b.tab[n]
                                  ELSE VarAt(at(CHOOSE i \in new(n) : TRUE), d.size, sure)]
           error == b.error \/ \E i \in DOMAIN d.names : ~ isNew(i)
           e == [b EXCEPT !.tab = tab, !.error = error, !.total = b.total + Len(d.names) * aligned]
<1>2. VarList(b, d, atGlobal, sure) = e
  BY <1>1 DEF VarList
<1>3. b.tab \in [Names -> Entity(m)] /\ b.base \in Nat /\ b.total \in Nat
  BY DEF BlockState
<1>4. d.names \in Seq(Names) /\ d.size \in Nat \ {0}
  BY DEF Declarations
<1>5. tab \in [Names -> Entity(m)]
  <2> SUFFICES ASSUME NEW n \in Names PROVE tab[n] \in Entity(m)
    OBVIOUS
  <2>1. CASE new(n) = {}
    BY <2>1, <1>3
  <2>2. CASE new(n) # {}
    <3>1. PICK i : i = (CHOOSE k \in new(n) : TRUE)
      OBVIOUS
    <3>2. i \in new(n)
      BY <2>2, <3>1
    <3>3. i \in Nat \ {0}
      BY <3>2, <1>4
    <3>4. at(i) \in Int
      BY <3>3, <1>3, PlaceNat
    <3>5. VarAt(at(i), d.size, sure) \in Entity(m)
      <4> HIDE DEF at
      <4> QED
        BY <3>4, <1>4 DEF VarAt, Entity
    <3> HIDE DEF at, new
    <3> QED
      BY <2>2, <3>1, <3>5
  <2> QED
    BY <2>1, <2>2
<1>6. b.total + Len(d.names) * aligned \in Nat
  <2>1. PICK k \in Nat : k = Len(d.names)
    BY <1>4
  <2> QED
    BY <2>1, <1>3
<1>7. error \in BOOLEAN
  BY DEF BlockState
<1> HIDE DEF tab, error
<1>8. PICK total \in Nat : total = b.total + Len(d.names) * aligned
  BY <1>6
<1>9. e \in BlockState(m, c) /\ e.chunk = b.chunk
  BY <1>5, <1>7, <1>8 DEF BlockState
<1> QED
  BY <1>2, <1>9

LEMMA ExtendedMore ==
  ASSUME NEW c \in Chunk, NEW e \in Extended(c), NEW size \in Nat
  PROVE  WriteGlobalData(e, size) \in Extended(c)
<1>1. e \in Chunk /\ Fitted(e)
  BY DEF Extended
<1> DEFINE w == WriteGlobalData(e, size)
<1>2. KeepsCode(e, w) /\ e.count <= w.count /\ e.cap <= w.cap /\ Fitted(w) /\ w.lines = e.lines
  BY <1>1, GlobalDataKeepsCode
<1> HIDE DEF w
<1>3. w \in Chunk
  BY <1>2 DEF KeepsCode
<1>4. c.count \in Nat /\ c.cap \in Nat /\ e.count \in Nat /\ e.cap \in Nat
      /\ w.count \in Nat /\ w.cap \in Nat
  BY <1>1, <1>3 DEF Chunk
<1>5. c.count <= w.count /\ c.cap <= w.cap
  BY <1>2, <1>4 DEF Extended
<1>6. w \in Extended(c)
  BY <1>2, <1>3, <1>5 DEF Extended, KeepsCode
<1> QED
  BY <1>6 DEF w

LEMMA InitializeOK ==
  ASSUME NEW m \in Nat, NEW c \in Chunk, NEW b \in BlockState(m, c), NEW d \in Declarations,
         NEW atGlobal \in BOOLEAN, b.tab[Head(d.names)].is = "var"
  PROVE  Initialize(b, d, atGlobal) \in BlockState(m, c)
<1>1. CASE ~ atGlobal
  BY <1>1 DEF Initialize, BlockState
<1>2. CASE atGlobal
  <2>1. Head(d.names) \in Names
    BY DEF Declarations
  <2>2. b.tab[Head(d.names)] \in Entity(m)
    BY <2>1 DEF BlockState
  <2>3. b.tab[Head(d.names)].size \in Nat
    BY <2>2 DEF Entity, Undefined, Other
  <2>4. PICK more \in Extended(c) : more = WriteGlobalData(b.chunk, b.tab[Head(d.names)].size)
    BY <2>3, ExtendedMore DEF BlockState
  <2>5. PICK base \in Nat : base = b.base + b.total
    BY DEF BlockState
  <2>7. PICK error \in BOOLEAN : error = (b.error \/ Len(d.names) # 1)
    OBVIOUS
  <2>6. Initialize(b, d, atGlobal) =
          [b EXCEPT !.error = error, !.base = base, !.total = 0, !.chunk = more]
    BY <1>2, <2>4, <2>5, <2>7 DEF Initialize
  <2>8. b = [tab |-> b.tab, base |-> b.base, total |-> b.total, chunk |-> b.chunk,
             error |-> b.error, gone |-> b.gone, dead |-> b.dead]
    BY DEF BlockState
  <2>9. Initialize(b, d, atGlobal) =
          [tab |-> b.tab, base |-> base, total |-> 0, chunk |-> more,
             error |-> error, gone |-> b.gone, dead |-> b.dead]
    BY <2>6, <2>8
  <2> QED
    BY <2>4, <2>5, <2>7, <2>9 DEF BlockState
<1> QED
  BY <1>1, <1>2

LEMMA DeclareOK ==
  ASSUME NEW m \in Nat, NEW c \in Chunk, NEW b \in BlockState(m, c), NEW d \in Declarations,
         NEW atGlobal \in BOOLEAN, NEW sure \in BOOLEAN
  PROVE  Declare(b, d, atGlobal, sure) \in BlockState(m, c)
<1>1. PICK listed \in BlockState(m, c) : listed = VarList(b, d, atGlobal, sure)
  BY VarListOK
<1>2. CASE b.gone \/ b.dead
  BY <1>2 DEF Declare
<1>3. CASE ~ (b.gone \/ b.dead) /\ ~ d.typed
  BY <1>3 DEF Declare, BlockState
<1>4. CASE ~ (b.gone \/ b.dead) /\ d.typed /\ ~ d.init
  BY <1>1, <1>4 DEF Declare
<1>5. CASE ~ (b.gone \/ b.dead) /\ d.typed /\ d.init /\ listed.tab[Head(d.names)].is # "var"
  <2>1. Declare(b, d, atGlobal, sure) = [listed EXCEPT !.dead = TRUE]
    BY <1>1, <1>5 DEF Declare
  <2> QED
    BY <2>1 DEF BlockState
<1>6. CASE ~ (b.gone \/ b.dead) /\ d.typed /\ d.init /\ listed.tab[Head(d.names)].is = "var"
  <2>1. Declare(b, d, atGlobal, sure) = Initialize(listed, d, atGlobal)
    BY <1>1, <1>6 DEF Declare
  <2> QED
    BY <1>6, <2>1, InitializeOK
<1> QED
  BY <1>2, <1>3, <1>4, <1>5, <1>6

\* The states of a VAR block, one after each declaration.
DeclaresTo(g, block, atGlobal, sure, b) ==
  /\ g[0] = BlockStart(atGlobal) /\ g[Len(block)] = b
  /\ \A i \in 1 .. Len(block) : g[i] = Declare(g[i - 1], block[i], atGlobal, sure)

LEMMA DeclaredOK ==
  ASSUME NEW m \in Nat, NEW c \in Chunk, NEW block \in Seq(Declarations),
         NEW atGlobal \in BOOLEAN, NEW sure \in BOOLEAN,
         BlockStart(atGlobal) \in BlockState(m, c)
  PROVE  \E g \in [0 .. Len(block) -> BlockState(m, c)] :
           DeclaresTo(g, block, atGlobal, sure, Declared(block, atGlobal, sure))
<1> DEFINE S == BlockState(m, c)
           n == Len(block)
           step == [i \in 1 .. n |-> [b \in S |-> Declare(b, block[i], atGlobal, sure)]]
<1>1. n \in Nat /\ \A i \in 1 .. n : block[i] \in Declarations
  OBVIOUS
<1>2. IsStep(step, S, n)
  BY <1>1, DeclareOK DEF IsStep
<1>3. PICK s0 \in S : s0 = BlockStart(atGlobal)
  OBVIOUS
<1> HIDE DEF S
<1>4. PICK g : Iterated(g, S, s0, step, n)
  <2> HIDE DEF step, n
  <2> QED
    BY <1>1, <1>2, <1>3, Iterates
<1>5. \A i \in 1 .. n : i - 1 \in 0 .. n
  BY <1>1
<1>6. \A i \in 1 .. n : g[i] = Declare(g[i - 1], block[i], atGlobal, sure)
  BY <1>4, <1>5 DEF Iterated
<1>7. g = [i \in 0 .. n |-> IF i = 0 THEN s0 ELSE Declare(g[i - 1], block[i], atGlobal, sure)]
  <2>1. \A i \in 0 .. n : i = 0 \/ i \in 1 .. n
    BY <1>1
  <2> QED
    BY <1>4, <1>6, <2>1 DEF Iterated
<1> DEFINE F(f) == [i \in 0 .. n |-> IF i = 0 THEN BlockStart(atGlobal)
                                    ELSE Declare(f[i - 1], block[i], atGlobal, sure)]
           h == CHOOSE f : f = F(f)
<1>8. h = F(h)
  BY <1>3, <1>7
<1>9. Declared(block, atGlobal, sure) = h[n]
  BY DEF Declared
<1> HIDE DEF h
<1>10. Alike(g, h, n)
  <2>1. g[0] = h[0]
    BY <1>3, <1>4, <1>8 DEF Iterated
  <2>2. \A i \in 1 .. n : i \in 0 .. n /\ i # 0
    OBVIOUS
  <2>3. \A i \in 1 .. n : h[i] = Declare(h[i - 1], block[i], atGlobal, sure)
    BY <1>8, <2>2
  <2>4. StepsAlike(g, h, n)
    BY <1>6, <2>3 DEF StepsAlike
  <2> QED
    BY <1>1, <2>1, <2>4, SameFrom0
<1>11. Declared(block, atGlobal, sure) = g[n]
  BY <1>1, <1>9, <1>10 DEF Alike
<1> QED
  BY <1>3, <1>4, <1>6, <1>11 DEF DeclaresTo, Iterated, S

-----------------------------------------------------------------------------
(* The invariant *)

Known == Len(subs)

Typed ==
  /\ mode \in Modes /\ status \in {"idle", "compiling", "running", "reset", "dead", "quit"}
  /\ Known <= MaxSubs /\ subs \in Seq(Subroutine(Known))
  /\ tables \in [0 .. MaxSubs -> [Names -> Entity(Known)]]
  /\ comp \in Compiler /\ open \in Seq(Open)
  /\ chunk \in Chunk /\ Fitted(chunk)
  /\ calls \in Seq(1 .. Known) /\ spent \in 0 .. MaxSize
  /\ vm \in [pc : Int, ret : Seq(Int)] /\ act \in Seq([unit : 0 .. MaxSubs, next : Nat])

\* Every call has its place in the size of the session.
Counted ==
  /\ status # "idle" => Len(calls) < spent
  /\ \A s \in 1 .. Known : Len(subs[s].calls) < spent

Compiles == status = "compiling"
Between == status \notin {"compiling", "dead"}

\* The blocks being compiled: the scopes are theirs, and all but the innermost
\* wait among their declarations.
Nested ==
  /\ Compiles =>
       /\ Len(open) = comp.scope + 1 /\ open[1].sub = 0
       /\ \A i \in 1 .. comp.scope :
            comp.locals[i] = open[i + 1].sub /\ open[i].part = "declarations"
       /\ \A i, j \in 1 .. Len(open) : open[i].sub = open[j].sub => i = j
       /\ comp.eof => comp.error
  /\ Between => comp.scope = 0 /\ open = << >>

\* They are of this text, and those that wait hold the next.
Opened ==
  /\ Compiles => \A i \in 2 .. Len(open) :
       /\ open[i].sub \in 1 .. Known
       /\ subs[open[i].sub].fate = "fresh" /\ subs[open[i].sub].loc # Invalid
       /\ i < Len(open) => subs[open[i].sub].holds
  /\ Between => \A s \in 1 .. Known : subs[s].fate # "fresh"

\* What is in front of the entry point stays; what is behind it goes.
Entries ==
  /\ chunk.entry <= Here
  /\ status = "idle" => Here = chunk.entry /\ comp.refs = << >>
  /\ Compiles => chunk.entry = comp.last /\ chunk.entry <= comp.entry /\ comp.entry <= Here
  /\ Between => comp.entry = chunk.entry

\* The place of the n-th call of a unit whose ENTER is at loc.
Site(loc, n) == IF n = 0 THEN loc ELSE loc + 1 + 2 * n

\* The ENTER and n calls of unit u, one behind the other; and its EXIT.
Laid(c, u, loc, n) ==
  /\ Site(loc, n + 1) <= Len(c)
  /\ c[loc + 1].op = "ENTER" /\ c[loc + 1].tag = <<u, 0>>
  /\ \A j \in 1 .. n : c[Site(loc, j) + 1].op = "CALL" /\ c[Site(loc, j) + 1].tag = <<u, j>>
Ended(c, u, loc, n) ==
  /\ Laid(c, u, loc, n) /\ Site(loc, n + 1) < Len(c)
  /\ c[Site(loc, n + 1) + 1].op = "EXIT" /\ c[Site(loc, n + 1) + 1].tag = <<u, n + 1>>

\* The calls cs of a unit at loc lead where they should, or will be patched to.
Linked(c, loc, cs) ==
  \A j \in 1 .. Len(cs) : ArgAt(c, Site(loc, j)) = subs[cs[j]].loc - Site(loc, j) - BranchSize
Noticed(loc, cs) ==
  \A j \in 1 .. Len(cs) : \E k \in 1 .. Len(comp.refs) :
    comp.refs[k] = [site |-> Site(loc, j), sub |-> cs[j]]

\* Its body follows its ENTER.
Straight(s) == subs[s].loc # Invalid /\ ~ subs[s].holds
CallCount(s) == Len(subs[s].calls)

\* The subroutines of earlier texts, and those of this one.
KeptAt(s) ==
  /\ Ended(chunk.code, s, subs[s].loc, CallCount(s))
  /\ Site(subs[s].loc, CallCount(s) + 1) < chunk.entry
  /\ Linked(chunk, subs[s].loc, subs[s].calls)
FreshAt(s) ==
  /\ chunk.entry <= subs[s].loc
  /\ Noticed(subs[s].loc, subs[s].calls)
  /\ s # Top.sub => Ended(chunk.code, s, subs[s].loc, CallCount(s))
  /\ s = Top.sub => /\ Laid(chunk.code, s, subs[s].loc, CallCount(s))
                    /\ Here = Site(subs[s].loc, CallCount(s) + 1)

KeptCode == \A s \in 1 .. Known : subs[s].fate = "kept" /\ Straight(s) => KeptAt(s)
FreshCode == Compiles => \A s \in 1 .. Known : subs[s].fate = "fresh" /\ Straight(s) => FreshAt(s)

\* ENTER of an open block is patched later, whatever it holds.
OpenCode ==
  Compiles => \A i \in 2 .. Len(open) :
    LET loc == subs[open[i].sub].loc
    IN  loc \in chunk.entry .. Here - 1 /\ chunk.code[loc + 1].op = "ENTER"

\* The body of the main block is being compiled, or has been.
InBody ==
  Len(open) = 1 /\ (open[1].part = "body" \/ (open[1].part = "over" /\ ~ comp.error))

MainCode ==
  Compiles =>
    /\ open[1].part = "declarations" => calls = << >>
    /\ InBody =>
         /\ Laid(chunk.code, 0, comp.entry, Len(calls))
         /\ Here = Site(comp.entry, Len(calls) + 1)
         /\ Noticed(comp.entry, calls)
         /\ \A i \in 1 .. Here : chunk.code[i].tag[1] # 0 => i <= comp.entry

References ==
  /\ \A k \in 1 .. Len(comp.refs) :
       /\ comp.refs[k].sub \in 1 .. Known
       /\ chunk.entry <= comp.refs[k].site /\ comp.refs[k].site < Here
       /\ chunk.code[comp.refs[k].site + 1].op = "CALL"
  /\ \A k, l \in 1 .. Len(comp.refs) : comp.refs[k].site = comp.refs[l].site => k = l

Tagged ==
  \A i \in 1 .. Here : LET s == chunk.code[i].tag[1] IN
    s # 0 => s \in 1 .. Known /\ (subs[s].fate = "kept" => i <= chunk.entry)

LocOf(u) == IF u = 0 THEN comp.entry ELSE subs[u].loc
Address(a) == Site(LocOf(a.unit), a.next)

\* An activation of a unit that can be run.
Active(a) == a.unit \in {0} \cup Reach(calls) /\ a.next \in 0 .. Len(CallsOf(a.unit)) + 1

Follows ==
  status = "running" /\ act # << >> =>
    /\ Ended(chunk.code, 0, comp.entry, Len(calls)) /\ Linked(chunk, comp.entry, calls)
    /\ Sound(subs)
    /\ \A i \in 1 .. Len(act) : Active(act[i])
    /\ Len(vm.ret) + 1 = Len(act)
    /\ vm.pc = Address(Last(act))
    /\ \A i \in 1 .. Len(vm.ret) : vm.ret[i] = Address(act[i])

IInv ==
  /\ Typed /\ Counted /\ Nested /\ Opened /\ Entries
  /\ KeptCode /\ FreshCode /\ OpenCode /\ MainCode /\ References /\ Tagged /\ Follows

LEMMA InitOK == Init => IInv
<1> SUFFICES ASSUME Init PROVE IInv
  OBVIOUS
<1> USE SessionAssumption
<1>1. Typed
  <2>1. comp \in Compiler
    BY DEF Init, Compiler
  <2>2. chunk \in Chunk /\ Fitted(chunk)
    BY DEF Init, Chunk, Fitted
  <2>3. tables \in [0 .. MaxSubs -> [Names -> Entity(Known)]]
    BY DEF Init, Entity
  <2>4. vm \in [pc : Int, ret : Seq(Int)] /\ act \in Seq([unit : 0 .. MaxSubs, next : Nat])
    BY DEF Init
  <2> QED
    BY <2>1, <2>2, <2>3, <2>4 DEF Init, Typed, Known
<1>2. Counted /\ Nested /\ Opened /\ Entries
  BY DEF Init, Counted, Nested, Opened, Entries, Compiles, Between, Known, Here
<1>3. KeptCode /\ FreshCode /\ OpenCode /\ MainCode /\ References /\ Tagged /\ Follows
  BY DEF Init, KeptCode, FreshCode, OpenCode, MainCode, References, Tagged, Follows, Compiles,
         Known, Here
<1> QED
  BY <1>1, <1>2, <1>3 DEF IInv

\* What the types say of lengths and bounds.
LEMMA Sizes ==
  ASSUME IInv
  PROVE  /\ Known \in Nat /\ MaxSubs \in Nat /\ Known <= MaxSubs /\ MaxScope \in Nat \ {0} /\ MaxSize \in Nat
         /\ chunk \in Chunk /\ Fitted(chunk) /\ chunk.code \in Seq(Words)
         /\ Here \in Nat /\ Here = Len(chunk.code) /\ DOMAIN chunk.code = 1 .. Here
         /\ chunk.entry \in Nat /\ chunk.entry <= Here
         /\ comp \in Compiler /\ comp.refs \in Seq(Reference)
         /\ comp.scope \in Nat /\ comp.scope < MaxScope
         /\ spent \in 0 .. MaxSize
<1>1. MaxSubs \in Nat /\ MaxScope \in Nat \ {0} /\ MaxSize \in Nat
  BY SessionAssumption
<1>2. Known \in Nat /\ Known <= MaxSubs /\ chunk \in Chunk /\ Fitted(chunk) /\ comp \in Compiler
      /\ spent \in 0 .. MaxSize
  BY DEF IInv, Typed, Known
<1>3. chunk.code \in Seq(Words) /\ chunk.entry \in Nat
  BY <1>2 DEF Chunk
<1>4. Here \in Nat /\ Here = Len(chunk.code) /\ DOMAIN chunk.code = 1 .. Here
  BY <1>3 DEF Here
<1>5. chunk.entry <= Here
  BY DEF IInv, Entries
<1>6. comp.refs \in Seq(Reference) /\ comp.scope \in 0 .. MaxScope - 1
  BY <1>2 DEF Compiler
<1>7. comp.scope \in Nat /\ comp.scope < MaxScope
  BY <1>1, <1>6
<1> QED
  BY <1>1, <1>2, <1>3, <1>4, <1>5, <1>6, <1>7

-----------------------------------------------------------------------------
(* What steps leave alone *)

\* The instructions of c are still there, and those up to the entry point as
\* they are.
Grows(c, e) ==
  /\ Len(c.code) <= Len(e.code)
  /\ \A i \in 1 .. Len(c.code) : e.code[i].op = c.code[i].op /\ e.code[i].tag = c.code[i].tag
  /\ \A i \in 1 .. c.entry : e.code[i] = c.code[i]

LEMMA KeepsGrows ==
  ASSUME NEW c, NEW e, c \in Chunk, KeepsCode(c, e), c.entry <= Len(c.code)
  PROVE  Grows(c, e)
BY DEF KeepsCode, Grows, Chunk

LEMMA AddsGrows ==
  ASSUME NEW c, NEW e, c \in Chunk, c.entry <= Len(c.code),
         NEW op, NEW arg, NEW size \in Nat, NEW tag, Adds(c, e, op, arg, size, tag)
  PROVE  Grows(c, e)
<1>1. Len(c.code) \in Nat /\ c.entry \in Nat
  BY DEF Chunk
<1>2. Len(e.code) = Len(c.code) + size /\ \A i \in 1 .. Len(c.code) : e.code[i] = c.code[i]
  BY DEF Adds
<1>3. \A i \in 1 .. c.entry : i \in 1 .. Len(c.code)
  BY <1>1
<1> QED
  BY <1>1, <1>2, <1>3 DEF Grows

LEMMA PatchesGrows ==
  ASSUME NEW c, NEW e, c \in Chunk, c.entry <= Len(c.code),
         NEW at \in Nat, c.entry <= at, Patches(c, e, Others(at))
  PROVE  Grows(c, e)
<1>1. Len(c.code) \in Nat /\ c.entry \in Nat
  BY DEF Chunk
<1>2. \A i \in 1 .. c.entry : i \in 1 .. Len(c.code) /\ i \in Others(at)
  BY <1>1 DEF Others
<1> QED
  BY <1>1, <1>2 DEF Patches, Grows

LEMMA GrowsTwice ==
  ASSUME NEW c, NEW d, NEW e, c \in Chunk, d \in Chunk, e \in Chunk, c.entry <= Len(c.code),
         c.entry = d.entry, Grows(c, d), Grows(d, e)
  PROVE  Grows(c, e)
<1>1. /\ Len(c.code) \in Nat /\ Len(d.code) \in Nat /\ Len(e.code) \in Nat
      /\ c.entry \in Nat
  BY DEF Chunk
<1>2. Len(c.code) <= Len(e.code)
  BY <1>1 DEF Grows
<1>3. \A i \in 1 .. Len(c.code) : i \in 1 .. Len(d.code)
  BY <1>1 DEF Grows
<1> QED
  BY <1>1, <1>2, <1>3 DEF Grows

LEMMA SiteNat ==
  ASSUME NEW loc \in Nat, NEW n \in Nat
  PROVE  /\ Site(loc, n) \in Nat /\ loc <= Site(loc, n) /\ Site(loc, 0) = loc
         /\ Site(loc, n + 1) = loc + 3 + 2 * n
         /\ \A j \in 1 .. n : Site(loc, j) + 2 <= Site(loc, n + 1) /\ loc + 1 < Site(loc, j)
BY DEF Site

LEMMA LaidFirst ==
  ASSUME NEW c, NEW u, NEW at \in Nat, Len(c) = at + 3, c[at + 1].op = "ENTER", c[at + 1].tag = <<u, 0>>
  PROVE  Laid(c, u, at, 0) /\ Len(c) = Site(at, 1)
BY DEF Laid, Site

LEMMA LaidStays ==
  ASSUME NEW c, NEW e, c \in Chunk, e \in Chunk, Grows(c, e), NEW u, NEW loc \in Nat, NEW n \in Nat,
         Laid(c.code, u, loc, n)
  PROVE  Laid(e.code, u, loc, n)
<1>1. Len(c.code) \in Nat /\ Len(e.code) \in Nat /\ Len(c.code) <= Len(e.code)
  BY DEF Chunk, Grows
<1>2. Site(loc, n + 1) \in Nat /\ Site(loc, n + 1) = loc + 3 + 2 * n
  BY SiteNat DEF Site
<1>3. Site(loc, n + 1) <= Len(c.code)
  BY DEF Laid
<1>4. loc + 1 \in 1 .. Len(c.code)
  BY <1>1, <1>2, <1>3
<1>5. \A j \in 1 .. n : Site(loc, j) + 1 \in 1 .. Len(c.code)
  BY <1>1, <1>2, <1>3 DEF Site
<1>6. Site(loc, n + 1) <= Len(e.code)
  BY <1>1, <1>2, <1>3
<1>7. e.code[loc + 1].op = "ENTER" /\ e.code[loc + 1].tag = <<u, 0>>
  BY <1>4 DEF Laid, Grows
<1>8. ASSUME NEW j \in 1 .. n
      PROVE  e.code[Site(loc, j) + 1].op = "CALL" /\ e.code[Site(loc, j) + 1].tag = <<u, j>>
  <2>1. PICK k \in 1 .. Len(c.code) : k = Site(loc, j) + 1
    BY <1>5
  <2> QED
    BY <2>1 DEF Laid, Grows
<1> QED
  BY <1>6, <1>7, <1>8 DEF Laid

LEMMA EndedStays ==
  ASSUME NEW c, NEW e, c \in Chunk, e \in Chunk, Grows(c, e), NEW u, NEW loc \in Nat, NEW n \in Nat,
         Ended(c.code, u, loc, n)
  PROVE  Ended(e.code, u, loc, n)
<1>1. Len(c.code) \in Nat /\ Len(e.code) \in Nat /\ Len(c.code) <= Len(e.code)
  BY DEF Chunk, Grows
<1>2. PICK at \in Nat : at = Site(loc, n + 1)
  BY DEF Site
<1>3. at < Len(c.code)
  BY <1>2 DEF Ended
<1>4. at + 1 \in 1 .. Len(c.code) /\ at < Len(e.code)
  BY <1>1, <1>3
<1>5. Laid(e.code, u, loc, n)
  BY LaidStays DEF Ended
<1>6. e.code[at + 1].op = "EXIT" /\ e.code[at + 1].tag = <<u, n + 1>>
  BY <1>2, <1>4 DEF Ended, Grows
<1> QED
  BY <1>2, <1>4, <1>5, <1>6 DEF Ended

\* What is in front of the entry point of c is still there in e.
Keeps(c, e) ==
  /\ c.entry <= e.entry /\ c.entry <= Len(e.code)
  /\ \A i \in 1 .. c.entry : e.code[i] = c.code[i]

LEMMA EndedKept ==
  ASSUME NEW c, NEW e, c \in Chunk, e \in Chunk, Keeps(c, e), NEW u, NEW loc \in Nat, NEW n \in Nat,
         Ended(c.code, u, loc, n), Site(loc, n + 1) < c.entry
  PROVE  Ended(e.code, u, loc, n)
<1>1. Len(e.code) \in Nat /\ c.entry \in Nat /\ c.entry <= Len(e.code)
  BY DEF Chunk, Keeps
<1>2. PICK at \in Nat : at = Site(loc, n + 1) /\ at = loc + 3 + 2 * n
  BY DEF Site
<1>3. at + 1 \in 1 .. c.entry /\ loc + 1 \in 1 .. c.entry /\ at < Len(e.code)
  BY <1>1, <1>2
<1>4. \A j \in 1 .. n : Site(loc, j) + 1 \in 1 .. c.entry
  BY <1>1, <1>2 DEF Site
<1>5. e.code[loc + 1].op = "ENTER" /\ e.code[loc + 1].tag = <<u, 0>>
  BY <1>3 DEF Ended, Laid, Keeps
<1>6. ASSUME NEW j \in 1 .. n
      PROVE  e.code[Site(loc, j) + 1].op = "CALL" /\ e.code[Site(loc, j) + 1].tag = <<u, j>>
  <2>1. PICK k \in 1 .. c.entry : k = Site(loc, j) + 1
    BY <1>4
  <2> QED
    BY <2>1 DEF Ended, Laid, Keeps
<1>7. e.code[at + 1].op = "EXIT" /\ e.code[at + 1].tag = <<u, n + 1>>
  BY <1>2, <1>3 DEF Ended, Keeps
<1>8. Laid(e.code, u, loc, n)
  BY <1>1, <1>2, <1>3, <1>5, <1>6 DEF Laid
<1> QED
  BY <1>2, <1>3, <1>7, <1>8 DEF Ended

\* Subroutines stay where they are.
LocsStay ==
  Known <= Known' /\ \A s \in 1 .. Known : subs'[s].loc = subs[s].loc

LEMMA KeptStays ==
  ASSUME IInv, chunk' \in Chunk, Keeps(chunk, chunk'), LocsStay,
         NEW s \in 1 .. Known, subs[s].fate = "kept", Straight(s),
         subs'[s].loc = subs[s].loc, subs'[s].calls = subs[s].calls
  PROVE  KeptAt(s)'
<1>1. KeptAt(s)
  BY DEF IInv, KeptCode
<1>2. subs[s] \in Subroutine(Known) /\ chunk \in Chunk /\ Known \in Nat
  BY DEF IInv, Typed, Known
<1>3. PICK loc \in Nat : loc = subs[s].loc /\ loc = subs'[s].loc
  BY <1>2 DEF Subroutine, Straight
<1>4. PICK cs \in Seq(1 .. Known) : cs = subs[s].calls /\ cs = subs'[s].calls
  BY <1>2 DEF Subroutine
<1>5. PICK n \in Nat : n = Len(cs)
  BY <1>4
<1>6. CallCount(s) = n /\ CallCount(s)' = n
  BY <1>4, <1>5 DEF CallCount
<1>7. PICK at \in Nat : at = Site(loc, n + 1) /\ at = loc + 3 + 2 * n
  BY DEF Site
<1>8. at < chunk.entry
  BY <1>1, <1>3, <1>6, <1>7 DEF KeptAt
<1>9. chunk.entry \in Nat /\ chunk'.entry \in Nat
  BY <1>2 DEF Chunk
<1>10. at < chunk'.entry
  BY <1>8, <1>9 DEF Keeps
<1>11. Ended(chunk.code, s, loc, n)
  BY <1>1, <1>3, <1>6 DEF KeptAt
<1>12. Ended(chunk'.code, s, loc, n)
  BY <1>2, <1>7, <1>8, <1>11, EndedKept
<1>13. Linked(chunk, loc, cs)
  BY <1>1, <1>3, <1>4 DEF KeptAt
<1>14. Linked(chunk, loc, cs)'
  <2> SUFFICES ASSUME NEW j \in 1 .. Len(cs)
               PROVE  ArgAt(chunk', Site(loc, j)) = subs'[cs[j]].loc - Site(loc, j) - BranchSize
    BY DEF Linked
  <2>1. PICK k \in 1 .. chunk.entry : k = Site(loc, j) + 1
    BY <1>5, <1>7, <1>8, <1>9 DEF Site
  <2>2. chunk'.code[k] = chunk.code[k]
    BY DEF Keeps
  <2>3. cs[j] \in 1 .. Known
    BY <1>2, <1>4
  <2>4. subs'[cs[j]].loc = subs[cs[j]].loc
    BY <2>3 DEF LocsStay
  <2> QED
    BY <1>13, <2>1, <2>2, <2>4 DEF Linked, ArgAt
<1> QED
  BY <1>3, <1>4, <1>6, <1>7, <1>10, <1>12, <1>14 DEF KeptAt

\* No step of the compiler changes what is settled.
SubsGrow ==
  /\ LocsStay
  /\ \A s \in 1 .. Known : subs'[s].fate = subs[s].fate
  /\ \A s \in 1 .. Known : subs[s].fate # "fresh" => subs'[s] = subs[s]
  /\ \A s \in Known + 1 .. Known' : subs'[s].fate = "fresh"
CodeGrows == chunk' \in Chunk /\ Grows(chunk, chunk') /\ chunk'.entry = chunk.entry

LEMMA GrowingKeeps ==
  ASSUME IInv, CodeGrows
  PROVE  Keeps(chunk, chunk')
<1>1. chunk \in Chunk /\ chunk.entry <= Len(chunk.code)
  BY DEF IInv, Typed, Entries, Here
<1>2. /\ Len(chunk.code) \in Nat /\ Len(chunk'.code) \in Nat /\ chunk.entry \in Nat
      /\ Len(chunk.code) <= Len(chunk'.code)
  BY <1>1 DEF CodeGrows, Chunk, Grows
<1> QED
  BY <1>1, <1>2 DEF CodeGrows, Grows, Keeps

LEMMA SelfKeeps ==
  ASSUME IInv, chunk' = chunk
  PROVE  Keeps(chunk, chunk')
<1>1. chunk.entry \in Nat /\ chunk.entry <= Len(chunk.code)
  BY DEF IInv, Typed, Chunk, Entries, Here
<1> QED
  BY <1>1 DEF Keeps

LEMMA KeptCodeStays ==
  ASSUME IInv, CodeGrows, SubsGrow
  PROVE  KeptCode'
<1>1. Keeps(chunk, chunk') /\ chunk' \in Chunk
  BY GrowingKeeps DEF CodeGrows
<1>2. Known \in Nat /\ Known' \in Nat
  BY DEF IInv, Typed, Known, SubsGrow, LocsStay
<1>3. SUFFICES ASSUME NEW s \in 1 .. Known', subs'[s].fate = "kept", Straight(s)'
               PROVE  KeptAt(s)'
  BY DEF KeptCode
<1>4. s \in 1 .. Known
  <2>1. s \notin Known + 1 .. Known'
    BY <1>3 DEF SubsGrow
  <2> QED
    BY <1>2, <2>1
<1>5. subs[s].fate = "kept" /\ subs'[s] = subs[s]
  BY <1>3, <1>4 DEF SubsGrow
<1>6. Straight(s)
  BY <1>3, <1>5 DEF Straight
<1> QED
  BY <1>1, <1>4, <1>5, <1>6, KeptStays DEF SubsGrow

LEMMA TaggedStays ==
  ASSUME IInv, CodeGrows, SubsGrow,
         \A i \in Here + 1 .. Here' :
           LET s == chunk'.code[i].tag[1] IN s # 0 => s \in 1 .. Known' /\ subs'[s].fate = "fresh"
  PROVE  Tagged'
<1>1. /\ Known \in Nat /\ Known' \in Nat /\ Here \in Nat /\ Here' \in Nat
      /\ Known <= Known'
  BY DEF IInv, Typed, Known, SubsGrow, LocsStay, Here, CodeGrows, Chunk
<1>2. SUFFICES ASSUME NEW i \in 1 .. Here', NEW s, s = chunk'.code[i].tag[1], s # 0
               PROVE  s \in 1 .. Known' /\ (subs'[s].fate = "kept" => i <= chunk'.entry)
  BY DEF Tagged
<1>3. CASE i \in 1 .. Here
  <2>1. chunk.code[i].tag[1] = s
    BY <1>2, <1>3 DEF CodeGrows, Grows, Here
  <2>2. s \in 1 .. Known /\ (subs[s].fate = "kept" => i <= chunk.entry)
    BY <1>2, <1>3, <2>1 DEF IInv, Tagged
  <2> QED
    BY <1>1, <2>2 DEF SubsGrow, CodeGrows
<1>4. CASE i \in Here + 1 .. Here'
  BY <1>2, <1>4
<1> QED
  BY <1>1, <1>3, <1>4

LEMMA ReferencesStay ==
  ASSUME IInv, CodeGrows, Known' \in Nat, Known <= Known', comp'.refs = comp.refs
  PROVE  References'
<1>1. /\ Known \in Nat /\ Here \in Nat /\ Here' \in Nat /\ Here <= Here'
      /\ comp.refs \in Seq(Reference)
  <2>1. Here' \in Nat
    BY DEF CodeGrows, Chunk, Here
  <2>2. Here <= Here'
    BY DEF CodeGrows, Grows, Here
  <2> QED
    BY <2>1, <2>2, Sizes
<1>2. ASSUME NEW k \in 1 .. Len(comp.refs)
      PROVE  /\ comp.refs[k].sub \in 1 .. Known'
             /\ chunk'.entry <= comp.refs[k].site /\ comp.refs[k].site < Here'
             /\ chunk'.code[comp.refs[k].site + 1].op = "CALL"
  <2>1. PICK site \in Nat : site = comp.refs[k].site
    <3>1. comp.refs[k] \in Reference
      BY <1>1
    <3> QED
      BY <3>1 DEF Reference
  <2>2. /\ comp.refs[k].sub \in 1 .. Known /\ chunk.entry <= site /\ site < Here
        /\ chunk.code[site + 1].op = "CALL"
    BY <2>1 DEF IInv, References
  <2>3. site + 1 \in 1 .. Here
    BY <1>1, <2>2
  <2>4. chunk'.code[site + 1].op = "CALL"
    BY <2>2, <2>3 DEF CodeGrows, Grows, Here
  <2> QED
    BY <1>1, <2>1, <2>2, <2>4 DEF CodeGrows
<1>3. \A k, l \in 1 .. Len(comp.refs) : comp.refs[k].site = comp.refs[l].site => k = l
  BY DEF IInv, References
<1> QED
  BY <1>2, <1>3 DEF References

\* References are only added.
RefsGrow ==
  \A k \in 1 .. Len(comp.refs) : k \in 1 .. Len(comp'.refs) /\ comp'.refs[k] = comp.refs[k]

LEMMA NoticedStays ==
  ASSUME RefsGrow, NEW loc, NEW cs, Noticed(loc, cs)
  PROVE  Noticed(loc, cs)'
BY DEF RefsGrow, Noticed

LEMMA FreshStays ==
  ASSUME IInv, Compiles, CodeGrows, RefsGrow, NEW s \in 1 .. Known, subs[s].fate = "fresh", Straight(s),
         s # Top.sub, subs'[s] = subs[s], s # Top'.sub
  PROVE  FreshAt(s)'
<1>1. FreshAt(s)
  BY DEF IInv, FreshCode
<1>2. subs[s] \in Subroutine(Known) /\ chunk \in Chunk /\ chunk' \in Chunk
  BY DEF IInv, Typed, Known, CodeGrows
<1>3. subs[s].loc \in Nat /\ CallCount(s) \in Nat /\ CallCount(s)' = CallCount(s)
  BY <1>2 DEF Subroutine, Straight, CallCount
<1>4. Ended(chunk'.code, s, subs[s].loc, CallCount(s))
  BY <1>1, <1>2, <1>3, EndedStays DEF FreshAt, CodeGrows
<1>5. Noticed(subs[s].loc, subs[s].calls)'
  <2>1. Noticed(subs[s].loc, subs[s].calls)
    BY <1>1 DEF FreshAt
  <2>2. PICK loc, cs : loc = subs[s].loc /\ cs = subs[s].calls
    OBVIOUS
  <2>3. Noticed(loc, cs)'
    BY <2>1, <2>2, NoticedStays
  <2> QED
    BY <2>2, <2>3
<1>6. chunk'.entry <= subs'[s].loc
  BY <1>1 DEF FreshAt, CodeGrows
<1> QED
  BY <1>3, <1>4, <1>5, <1>6 DEF FreshAt

LEMMA FreshTopStays ==
  ASSUME IInv, Compiles, CodeGrows, RefsGrow, NEW s \in 1 .. Known, subs[s].fate = "fresh", Straight(s),
         s = Top.sub, subs'[s] = subs[s], s = Top'.sub, Here' = Here
  PROVE  FreshAt(s)'
<1>1. FreshAt(s)
  BY DEF IInv, FreshCode
<1>2. subs[s] \in Subroutine(Known) /\ chunk \in Chunk /\ chunk' \in Chunk
  BY DEF IInv, Typed, Known, CodeGrows
<1>3. subs[s].loc \in Nat /\ CallCount(s) \in Nat /\ CallCount(s)' = CallCount(s)
  BY <1>2 DEF Subroutine, Straight, CallCount
<1>4. Laid(chunk'.code, s, subs[s].loc, CallCount(s))
  BY <1>1, <1>2, <1>3, LaidStays DEF FreshAt, CodeGrows
<1>5. Noticed(subs[s].loc, subs[s].calls)'
  <2>1. Noticed(subs[s].loc, subs[s].calls)
    BY <1>1 DEF FreshAt
  <2>2. PICK loc, cs : loc = subs[s].loc /\ cs = subs[s].calls
    OBVIOUS
  <2>3. Noticed(loc, cs)'
    BY <2>1, <2>2, NoticedStays
  <2> QED
    BY <2>2, <2>3
<1>6. chunk'.entry <= subs'[s].loc
  BY <1>1 DEF FreshAt, CodeGrows
<1>7. Here' = Site(subs[s].loc, CallCount(s) + 1)
  BY <1>1 DEF FreshAt
<1> QED
  BY <1>3, <1>4, <1>5, <1>6, <1>7 DEF FreshAt

-----------------------------------------------------------------------------
(* Steps within the text *)

\* Nothing is compiled but, at most, an argument patched; the innermost block
\* may go on to its next part.
SameBlocks ==
  /\ Len(open') = Len(open)
  /\ \A i \in 1 .. Len(open) : open'[i].sub = open[i].sub
  /\ \A i \in 1 .. Len(open) - 1 : open'[i].part = open[i].part
  /\ InBody' => InBody
  /\ Top'.part = "declarations" => Top.part = "declarations"
SameScopes ==
  /\ comp'.scope = comp.scope /\ comp'.locals = comp.locals /\ comp'.refs = comp.refs
  /\ comp'.entry = comp.entry /\ comp'.last = comp.last
  /\ comp'.eof => comp'.error
Quiet ==
  /\ Compiles /\ Compiles' /\ spent <= spent'
  /\ subs' = subs /\ calls' = calls
  /\ SameBlocks /\ SameScopes /\ CodeGrows /\ Here' = Here

LEMMA SubsStay ==
  ASSUME IInv, subs' = subs
  PROVE  SubsGrow /\ LocsStay /\ Known' = Known
<1>1. Known \in Nat /\ Known' = Known
  BY DEF IInv, Typed, Known
<1>2. LocsStay
  BY <1>1 DEF LocsStay
<1>3. \A s \in Known + 1 .. Known' : FALSE
  BY <1>1
<1> QED
  BY <1>1, <1>2, <1>3 DEF SubsGrow

LEMMA TopIs ==
  ASSUME IInv, Compiles
  PROVE  /\ Len(open) \in Nat \ {0} /\ Top = open[Len(open)]
         /\ Len(open) = comp.scope + 1 /\ comp.scope \in Nat /\ comp.scope < MaxScope
         /\ Top \in Open /\ open[1].sub = 0
         /\ Top.sub = 0 <=> Len(open) = 1
         /\ Top.sub # 0 => Top.sub \in 1 .. Known /\ subs[Top.sub].fate = "fresh"
                           /\ subs[Top.sub].loc # Invalid
<1>1. open \in Seq(Open) /\ comp.scope \in 0 .. MaxScope - 1 /\ Known \in Nat
  BY DEF IInv, Typed, Compiler, Known
<1>2. /\ Len(open) = comp.scope + 1 /\ open[1].sub = 0
      /\ \A i, j \in 1 .. Len(open) : open[i].sub = open[j].sub => i = j
  BY DEF IInv, Nested
<1>3. Len(open) \in Nat \ {0} /\ comp.scope \in Nat /\ comp.scope < MaxScope
  <2>1. comp.scope \in Nat /\ comp.scope < MaxScope /\ Len(open) = comp.scope + 1
    BY <1>2, Sizes
  <2> QED
    BY <2>1
<1>4. Top = open[Len(open)] /\ Len(open) \in 1 .. Len(open) /\ Top \in Open
  BY <1>1, <1>3 DEF Top, Last
<1>5. Len(open) # 1 => /\ Top.sub \in 1 .. Known /\ subs[Top.sub].fate = "fresh"
                       /\ subs[Top.sub].loc # Invalid
  <2>3. PICK k \in Nat \ {0} : k = Len(open)
    BY <1>3
  <2>1. Len(open) # 1 => Len(open) \in 2 .. Len(open)
    BY <2>3
  <2> QED
    BY <1>4, <2>1 DEF IInv, Opened
<1>6. Len(open) = 1 => Top.sub = 0
  BY <1>2, <1>4
<1> QED
  BY <1>1, <1>2, <1>3, <1>4, <1>5, <1>6

LEMMA QuietOK ==
  ASSUME IInv, Typed', Quiet
  PROVE  IInv' /\ Keeps(chunk, chunk')
<1> USE DEF Quiet
<1>1. SubsGrow /\ LocsStay /\ Known' = Known /\ Known \in Nat
  BY SubsStay DEF IInv, Typed, Known
<1>2. /\ Len(open) \in Nat \ {0} /\ Top = open[Len(open)] /\ Top' = open'[Len(open)]
      /\ Top'.sub = Top.sub
  BY TopIs DEF SameBlocks, Top, Last
<1>3. Counted'
  BY <1>1 DEF IInv, Typed, Counted, Compiles
<1>4. Nested'
  <2>1. /\ Len(open') = comp'.scope + 1 /\ open'[1].sub = 0
        /\ \A i, j \in 1 .. Len(open') : open'[i].sub = open'[j].sub => i = j
        /\ comp'.eof => comp'.error
    BY <1>2 DEF IInv, Nested, SameBlocks, SameScopes
  <2>2. ASSUME NEW i \in 1 .. comp.scope
        PROVE  comp'.locals[i] = open'[i + 1].sub /\ open'[i].part = "declarations"
    <3>1. i \in 1 .. Len(open) - 1 /\ i + 1 \in 1 .. Len(open)
      BY TopIs
    <3>2. comp.locals[i] = open[i + 1].sub /\ open[i].part = "declarations"
      BY DEF IInv, Nested
    <3> QED
      BY <3>1, <3>2 DEF SameBlocks, SameScopes
  <2>3. ~ Between'
    BY DEF Between, Compiles
  <2> QED
    BY <2>1, <2>2, <2>3 DEF Nested, SameScopes
<1>5. Opened'
  <2>1. ~ Between'
    BY DEF Between, Compiles
  <2>2. ASSUME NEW i \in 2 .. Len(open)
        PROVE  /\ open'[i].sub \in 1 .. Known
               /\ subs[open'[i].sub].fate = "fresh" /\ subs[open'[i].sub].loc # Invalid
               /\ i < Len(open) => subs[open'[i].sub].holds
    <3>1. open'[i].sub = open[i].sub
      BY <1>2 DEF SameBlocks
    <3> QED
      BY <3>1 DEF IInv, Opened
  <2> QED
    BY <1>1, <2>1, <2>2 DEF Opened, SameBlocks
<1>6. Entries'
  BY DEF IInv, Entries, SameScopes, CodeGrows, Compiles, Between, Here
<1>7. KeptCode'
  BY <1>1, KeptCodeStays
<1>8. RefsGrow
  BY DEF RefsGrow, SameScopes
<1>9. FreshCode'
  <2> SUFFICES ASSUME NEW s \in 1 .. Known, subs'[s].fate = "fresh", Straight(s)'
               PROVE  FreshAt(s)'
    BY <1>1 DEF FreshCode
  <2>1. subs[s].fate = "fresh" /\ Straight(s)
    BY DEF Straight
  <2> QED
    BY <1>2, <1>8, <2>1, FreshStays, FreshTopStays
<1>10. OpenCode'
  <2> SUFFICES ASSUME NEW i \in 2 .. Len(open)
               PROVE  LET loc == subs'[open'[i].sub].loc
                      IN  loc \in chunk'.entry .. Here' - 1 /\ chunk'.code[loc + 1].op = "ENTER"
    BY DEF OpenCode, SameBlocks
  <2>1. PICK loc : loc = subs[open[i].sub].loc
    OBVIOUS
  <2>2. subs'[open'[i].sub].loc = loc
    BY <1>2, <2>1 DEF SameBlocks
  <2>3. loc \in chunk.entry .. Here - 1 /\ chunk.code[loc + 1].op = "ENTER"
    BY <2>1 DEF IInv, OpenCode
  <2>4. loc + 1 \in 1 .. Here
    <3>1. chunk.entry \in Nat /\ Here \in Nat
      BY DEF IInv, Typed, Chunk, Here
    <3> QED
      BY <2>3, <3>1
  <2> QED
    BY <2>2, <2>3, <2>4 DEF CodeGrows, Grows, Here
<1>11. MainCode'
  <2>1. MainCode
    BY DEF IInv
  <2>2. open'[1].part = "declarations" => calls' = << >>
    <3>1. CASE Len(open) = 1
      BY <1>2, <2>1, <3>1 DEF MainCode, SameBlocks
    <3>2. CASE Len(open) # 1
      BY <1>2, <2>1, <3>2 DEF MainCode, SameBlocks
    <3> QED
      BY <3>1, <3>2
  <2>4. ASSUME InBody'
        PROVE  /\ Laid(chunk'.code, 0, comp'.entry, Len(calls'))
               /\ Here' = Site(comp'.entry, Len(calls') + 1)
               /\ Noticed(comp.entry, calls)'
               /\ \A i \in 1 .. Here' : chunk'.code[i].tag[1] # 0 => i <= comp'.entry
    <3>1. InBody
      BY <2>4 DEF SameBlocks
    <3>2. comp.entry \in Nat /\ Len(calls) \in Nat /\ chunk \in Chunk
      BY DEF IInv, Typed, Compiler
    <3>3. Laid(chunk.code, 0, comp.entry, Len(calls)) /\ Here = Site(comp.entry, Len(calls) + 1)
      BY <2>1, <3>1 DEF MainCode
    <3>4. Laid(chunk'.code, 0, comp.entry, Len(calls))
      BY <3>2, <3>3, LaidStays DEF CodeGrows
    <3>5. \A i \in 1 .. Here : chunk.code[i].tag[1] # 0 => i <= comp.entry
      BY <2>1, <3>1 DEF MainCode
    <3>6. \A i \in 1 .. Here : chunk'.code[i].tag[1] # 0 => i <= comp.entry
      BY <3>5 DEF CodeGrows, Grows, Here
    <3>7. Noticed(comp.entry, calls)
      BY <2>1, <3>1 DEF MainCode
    <3>8. Noticed(comp.entry, calls)'
      BY <3>7 DEF Noticed, SameScopes
    <3> QED
      BY <3>3, <3>4, <3>6, <3>8 DEF SameScopes
  <2> QED
    BY <2>2, <2>4 DEF MainCode
<1>12. References'
  BY <1>1, ReferencesStay DEF SameScopes
<1>13. Tagged'
  <2>1. \A i \in Here + 1 .. Here' : FALSE
    BY DEF IInv, Typed, Chunk, Here
  <2> QED
    BY <1>1, <2>1, TaggedStays
<1>14. Follows'
  BY DEF Follows, Compiles
<1>15. Keeps(chunk, chunk')
  BY GrowingKeeps DEF Quiet
<1> QED
  BY <1>15, <1>3, <1>4, <1>5, <1>6, <1>7, <1>9, <1>10, <1>11, <1>12, <1>13, <1>14 DEF IInv

LEMMA TakesOK ==
  ASSUME Typed, NEW what \in {"text", "sub", "call", "block"}, Takes(what)
  PROVE  spent' \in 0 .. MaxSize /\ spent < spent'
<1>1. Weight[what] \in Nat \ {0} /\ spent \in Nat /\ MaxSize \in Nat
  BY SessionAssumption DEF Typed
<1> QED
  BY <1>1 DEF Takes

LEMMA DeadOK ==
  ASSUME IInv, Typed', status # "idle", Dies, spent <= spent'
  PROVE  IInv' /\ Keeps(chunk, chunk')
<1> USE DEF Dies
<1>1. SubsGrow /\ LocsStay /\ Known' = Known /\ Known \in Nat
  BY SubsStay DEF IInv, Typed, Known
<1>2. Counted'
  BY <1>1 DEF IInv, Typed, Counted
<1>3. ~ Compiles' /\ ~ Between' /\ status' # "idle" /\ status' # "running"
  BY DEF Compiles, Between
<1>4. Nested' /\ Opened' /\ Entries' /\ FreshCode' /\ OpenCode' /\ MainCode' /\ Follows'
  BY <1>3 DEF IInv, Nested, Opened, Entries, FreshCode, OpenCode, MainCode, Follows, Here
<1>5. CodeGrows
  BY KeepsGrows DEF IInv, Typed, Entries, CodeGrows, KeepsCode, Here
<1>6. KeptCode'
  BY <1>1, <1>5, KeptCodeStays
<1>7. References'
  BY <1>1, <1>5, ReferencesStay
<1>8. Tagged'
  <2>1. \A i \in Here + 1 .. Here' : FALSE
    BY DEF IInv, Typed, Chunk, Here
  <2> QED
    BY <1>1, <1>5, <2>1, TaggedStays
<1>9. Keeps(chunk, chunk')
  BY <1>5, GrowingKeeps
<1> QED
  BY <1>9, <1>2, <1>4, <1>6, <1>7, <1>8 DEF IInv

\* o with its last block at part.
GoesTo(o, part) == [o EXCEPT ![Len(o)].part = part]

LEMMA GoesToOK ==
  ASSUME NEW o \in Seq(Open), o # << >>, NEW part \in {"declarations", "body", "over"}
  PROVE  LET p == GoesTo(o, part)
         IN  /\ p \in Seq(Open) /\ Len(p) = Len(o) /\ p[Len(o)].part = part
             /\ \A i \in 1 .. Len(o) : p[i].sub = o[i].sub /\ p[i].stack = o[i].stack
             /\ \A i \in 1 .. Len(o) - 1 : p[i] = o[i]
<1>1. PICK n \in Nat : n = Len(o) /\ n \in 1 .. Len(o)
  OBVIOUS
<1> DEFINE b == [o[n] EXCEPT !.part = part]
           p == [o EXCEPT ![n] = b]
<1>2. o[n] \in Open
  BY <1>1
<1>3. b \in Open /\ b.part = part /\ b.sub = o[n].sub /\ b.stack = o[n].stack
  BY <1>2 DEF Open
<1> HIDE DEF b
<1>4. /\ p \in Seq(Open) /\ Len(p) = n /\ p[n] = b
      /\ \A i \in 1 .. n : i # n => p[i] = o[i]
  BY <1>1, <1>3
<1>5. GoesTo(o, part) = p
  BY <1>1 DEF GoesTo, b
<1> HIDE DEF p
<1>6. \A i \in 1 .. n - 1 : i \in 1 .. n /\ i # n
  OBVIOUS
<1> QED
  BY <1>1, <1>3, <1>4, <1>5, <1>6

LEMMA ReportOK ==
  ASSUME IInv, Compiling("declarations"), NEW error \in BOOLEAN, NEW stack \in Nat,
         Report(error, [comp EXCEPT !.stack = stack], open)
  PROVE  /\ SameScopes /\ SameBlocks
         /\ comp' \in Compiler /\ open' \in Seq(Open)
<1>1. comp \in Compiler /\ open \in Seq(Open) /\ Compiles
  BY DEF IInv, Typed, Compiling, Compiles
<1>2. PICK over \in BOOLEAN : over = (error /\ mode = "repl")
  OBVIOUS
<1>3. PICK err \in BOOLEAN : err = (comp.error \/ error)
  OBVIOUS
<1>4. PICK eof \in BOOLEAN : eof = (comp.eof \/ over)
  OBVIOUS
<1> DEFINE c == [scope |-> comp.scope, locals |-> comp.locals, refs |-> comp.refs,
                 entry |-> comp.entry, last |-> comp.last, error |-> err, eof |-> eof,
                 stack |-> stack]
<1>5. comp' = c
  <2>1. comp' = [[comp EXCEPT !.stack = stack] EXCEPT !.error = @ \/ error, !.eof = @ \/ over]
    BY <1>2 DEF Report
  <2>2. comp = [scope |-> comp.scope, locals |-> comp.locals, refs |-> comp.refs, entry |-> comp.entry,
                last |-> comp.last, error |-> comp.error, eof |-> comp.eof, stack |-> comp.stack]
    BY <1>1 DEF Compiler
  <2> QED
    BY <1>3, <1>4, <2>1, <2>2
<1>6. c \in Compiler /\ SameScopes
  <2>1. /\ c \in Compiler /\ c.scope = comp.scope /\ c.locals = comp.locals /\ c.refs = comp.refs
        /\ c.entry = comp.entry /\ c.last = comp.last /\ c.error = err /\ c.eof = eof
    BY <1>1 DEF Compiler
  <2>2. eof => err
    BY <1>1, <1>2, <1>3, <1>4 DEF IInv, Nested
  <2> QED
    BY <1>5, <2>1, <2>2 DEF SameScopes
<1>7. err = comp'.error
  BY <1>1, <1>5 DEF Compiler
<1> HIDE DEF c
<1>8. Len(open) \in Nat \ {0} /\ Top = open[Len(open)] /\ Top \in Open /\ Top.part = "declarations"
  BY <1>1, TopIs DEF Compiling
<1>9. PICK part \in {"declarations", "body", "over"} :
        part = (IF over THEN "over" ELSE Top.part) /\ part # "body"
  BY <1>8
<1>10. open' = GoesTo(open, part)
  BY <1>2, <1>8, <1>9 DEF Report, GoesTo
<1>11. /\ open' \in Seq(Open) /\ Len(open') = Len(open) /\ open'[Len(open)].part = part
       /\ \A i \in 1 .. Len(open) : open'[i].sub = open[i].sub
       /\ \A i \in 1 .. Len(open) - 1 : open'[i] = open[i]
  BY <1>1, <1>8, <1>10, GoesToOK
<1>12. ~ InBody'
  BY <1>2, <1>3, <1>7, <1>8, <1>9, <1>11 DEF InBody
<1> QED
  BY <1>5, <1>6, <1>8, <1>11, <1>12 DEF SameBlocks

LEMMA BeginTextOK ==
  ASSUME IInv, BeginText
  PROVE  IInv' /\ Keeps(chunk, chunk')
<1> USE DEF BeginText
<1>1. SubsGrow /\ LocsStay /\ Known' = Known /\ Known \in Nat
  BY SubsStay DEF IInv, Typed, Known
<1>2. spent' \in 0 .. MaxSize /\ spent < spent'
  BY TakesOK DEF IInv
<1>3. comp \in Compiler /\ Between /\ ~ Compiles
  BY DEF IInv, Typed, Between, Compiles
<1>4. /\ comp' \in Compiler /\ comp'.scope = 0 /\ comp'.refs = << >> /\ ~ comp'.error /\ ~ comp'.eof
      /\ comp'.last = comp.entry /\ comp'.entry = comp.entry
  BY <1>3 DEF IInv, Compiler, Nested, Entries
<1>5. /\ open' \in Seq(Open) /\ Len(open') = 1 /\ open'[1].sub = 0 /\ open'[1].part = "declarations"
      /\ Top' = open'[1]
  <2>1. 0 \in 0 .. MaxSubs
    BY SessionAssumption
  <2> QED
    BY <2>1 DEF Open, Top, Last
<1>6. Typed'
  BY <1>1, <1>2, <1>4, <1>5 DEF IInv, Typed
<1>7. Counted'
  BY <1>1, <1>2 DEF IInv, Typed, Counted
<1>8. Compiles' /\ ~ Between'
  BY DEF Compiles, Between
<1>9. Nested' /\ Opened'
  <2>1. \A i \in 2 .. Len(open') : FALSE
    BY <1>5
  <2>2. \A i \in 1 .. comp'.scope : FALSE
    BY <1>4
  <2> QED
    BY <1>4, <1>5, <1>8, <2>1, <2>2 DEF Nested, Opened
<1>10. Entries'
  BY <1>3, <1>4, <1>8 DEF IInv, Typed, Chunk, Entries, Here
<1>11. CodeGrows
  BY KeepsGrows DEF IInv, Typed, Entries, CodeGrows, KeepsCode, Here
<1>12. KeptCode'
  BY <1>1, <1>11, KeptCodeStays
<1>13. FreshCode'
  BY <1>1, <1>3 DEF IInv, Opened, FreshCode
<1>14. OpenCode' /\ MainCode'
  <2>1. \A i \in 2 .. Len(open') : FALSE
    BY <1>5
  <2>2. ~ InBody'
    BY <1>5 DEF InBody
  <2> QED
    BY <1>5, <2>1, <2>2 DEF OpenCode, MainCode
<1>15. References'
  BY <1>4 DEF References
<1>16. Tagged'
  <2>1. \A i \in Here + 1 .. Here' : FALSE
    BY DEF IInv, Typed, Chunk, Here
  <2> QED
    BY <1>1, <1>11, <2>1, TaggedStays
<1>17. Follows'
  BY DEF Follows
<1>18. Keeps(chunk, chunk')
  BY <1>11, GrowingKeeps
<1> QED
  BY <1>18, <1>6, <1>7, <1>9, <1>10, <1>12, <1>13, <1>14, <1>15, <1>16, <1>17 DEF IInv

LEMMA CurrentScopeIs ==
  ASSUME IInv, Compiles
  PROVE  CurrentScope = Top.sub /\ CurrentScope \in 0 .. Known /\ CurrentScope \in 0 .. MaxSubs
<1>1. /\ Len(open) = comp.scope + 1 /\ comp.scope \in Nat /\ Top = open[Len(open)]
      /\ (Top.sub = 0 <=> Len(open) = 1)
      /\ (Top.sub # 0 => Top.sub \in 1 .. Known)
  BY TopIs
<1>2. Known \in Nat /\ MaxSubs \in Nat /\ Known <= MaxSubs
  BY SessionAssumption DEF IInv, Typed, Known
<1>3. CASE comp.scope = 0
  BY <1>1, <1>2, <1>3 DEF CurrentScope
<1>4. CASE comp.scope # 0
  <2>1. comp.locals[comp.scope] = open[comp.scope + 1].sub
    <3>1. comp.scope \in 1 .. comp.scope
      BY <1>1, <1>4
    <3> QED
      BY <3>1 DEF IInv, Nested
  <2> QED
    BY <1>1, <1>2, <1>4, <2>1 DEF CurrentScope
<1> QED
  BY <1>3, <1>4

LEMMA BlockStartOK ==
  ASSUME Typed, NEW atGlobal \in BOOLEAN, CurrentScope \in 0 .. MaxSubs
  PROVE  BlockStart(atGlobal) \in BlockState(Known, chunk)
<1>1. tables[CurrentScope] \in [Names -> Entity(Known)]
  BY DEF Typed
<1>2. chunk \in Extended(chunk)
  BY DEF Typed, Extended, Chunk
<1>3. chunk.count \in Nat /\ comp.stack \in Nat
  BY DEF Typed, Chunk, Compiler
<1> QED
  BY <1>1, <1>2, <1>3 DEF BlockStart, BlockState

LEMMA VarBlockOK ==
  ASSUME IInv, NEW block \in Blocks, VarBlock(block)
  PROVE  IInv' /\ Keeps(chunk, chunk')
<1>1. Compiling("declarations") /\ Compiles /\ status = "compiling" /\ mode' = mode
  BY DEF VarBlock, Compiling, Compiles
<1>2. spent' \in 0 .. MaxSize /\ spent < spent'
  BY TakesOK DEF IInv, VarBlock
<1>3. PICK here \in 0 .. MaxSubs : here = CurrentScope
  BY <1>1, CurrentScopeIs
<1>4. PICK sure \in BOOLEAN : sure = Regular(block, tables[here])
  BY DEF Regular
<1>5. PICK global \in BOOLEAN : global = AtGlobal
  BY DEF AtGlobal
<1>6. /\ Known \in Nat /\ chunk \in Chunk /\ block \in Seq(Declarations) /\ Typed
      /\ tables \in [0 .. MaxSubs -> [Names -> Entity(Known)]] /\ comp \in Compiler
  <2>1. Typed /\ tables \in [0 .. MaxSubs -> [Names -> Entity(Known)]]
    BY DEF IInv, Typed
  <2>2. block \in Seq(Declarations)
    BY SessionAssumption
  <2> QED
    BY <2>1, <2>2, Sizes
<1>7. PICK b \in BlockState(Known, chunk) : b = Declared(block, global, sure)
  <2>1. BlockStart(global) \in BlockState(Known, chunk)
    BY <1>3, <1>6, BlockStartOK
  <2>2. PICK g \in [0 .. Len(block) -> BlockState(Known, chunk)] :
          DeclaresTo(g, block, global, sure, Declared(block, global, sure))
    BY <1>6, <2>1, DeclaredOK
  <2>3. g[Len(block)] = Declared(block, global, sure) /\ Len(block) \in 0 .. Len(block)
    BY <1>6, <2>2 DEF DeclaresTo
  <2> QED
    BY <2>3
<1>8. CASE b.dead /\ Dies
  <2>1. Typed'
    BY <1>1, <1>2, <1>8 DEF IInv, Typed, Dies, Known
  <2> QED
    BY <1>1, <1>2, <1>6, <1>8, <2>1, DeadOK DEF Typed
<1>9. CASE ~ b.dead
  <2>1. /\ tables' = [tables EXCEPT ![here] = b.tab]
        /\ chunk' = IF global /\ ~ b.gone THEN WriteGlobalData(b.chunk, b.total) ELSE b.chunk
        /\ Report(b.error, [comp EXCEPT !.stack =
                             IF global \/ b.gone THEN @ ELSE @ + b.total], open)
        /\ UNCHANGED <<status, subs, calls, vm, act>>
    BY <1>3, <1>4, <1>5, <1>7, <1>9 DEF VarBlock
  <2>2. /\ b.tab \in [Names -> Entity(Known)] /\ b.total \in Nat /\ b.chunk \in Extended(chunk)
        /\ b.error \in BOOLEAN
    BY DEF BlockState
  <2>3. tables' \in [0 .. MaxSubs -> [Names -> Entity(Known)]]
    BY <1>6, <2>1, <2>2
  <2>4. chunk' \in Extended(chunk)
    <3>1. CASE global /\ ~ b.gone
      BY <1>6, <2>1, <2>2, <3>1, ExtendedMore
    <3>2. CASE ~ (global /\ ~ b.gone)
      BY <2>1, <2>2, <3>2
    <3> QED
      BY <3>1, <3>2
  <2>5. PICK stack \in Nat : stack = IF global \/ b.gone THEN comp.stack ELSE comp.stack + b.total
    BY <1>6, <2>2 DEF Compiler
  <2>6. SameScopes /\ SameBlocks /\ comp' \in Compiler /\ open' \in Seq(Open)
    <3>1. Report(b.error, [comp EXCEPT !.stack = stack], open)
      BY <2>1, <2>5
    <3> QED
      BY <1>1, <2>2, <3>1, ReportOK
  <2>7. Known' = Known
    BY <2>1 DEF Known
  <2>8. chunk' \in Chunk /\ Fitted(chunk') /\ KeepsCode(chunk, chunk')
    BY <2>4 DEF Extended, KeepsCode
  <2>9. Typed'
    BY <1>1, <1>2, <2>1, <2>3, <2>6, <2>7, <2>8 DEF IInv, Typed
  <2>10. CodeGrows /\ Here' = Here
    BY <1>6, <2>8, KeepsGrows DEF IInv, Entries, CodeGrows, KeepsCode, Here
  <2>11. Quiet
    BY <1>1, <1>2, <1>6, <2>1, <2>6, <2>10 DEF Typed, Quiet, Compiles
  <2> QED
    BY <2>9, <2>11, QuietOK
<1> QED
  BY <1>3, <1>4, <1>5, <1>7, <1>8, <1>9 DEF VarBlock

LEMMA DefinitionBlockOK ==
  ASSUME IInv, NEW n \in Names, DefinitionBlock(n)
  PROVE  IInv' /\ Keeps(chunk, chunk')
<1> USE DEF DefinitionBlock
<1>1. Compiles /\ Compiles' /\ Compiling("declarations")
  BY DEF Compiling, Compiles
<1>2. spent' \in 0 .. MaxSize /\ spent < spent'
  BY TakesOK DEF IInv
<1>3. PICK error \in BOOLEAN : error = (tables[CurrentScope][n] # Undefined)
  OBVIOUS
<1>4. comp = [comp EXCEPT !.stack = comp.stack] /\ comp.stack \in Nat
  BY DEF IInv, Typed, Compiler
<1>5. SameScopes /\ SameBlocks /\ comp' \in Compiler /\ open' \in Seq(Open)
  BY <1>1, <1>3, <1>4, ReportOK
<1>6. Known' = Known
  BY DEF Known
<1>7. tables' \in [0 .. MaxSubs -> [Names -> Entity(Known)]]
  <2>1. CurrentScope \in 0 .. MaxSubs
    BY <1>1, CurrentScopeIs
  <2>2. PICK here \in 0 .. MaxSubs : here = CurrentScope
    BY <2>1
  <2>3. tables \in [0 .. MaxSubs -> [Names -> Entity(Known)]]
    BY DEF IInv, Typed
  <2>4. Define(tables[here], n, Other) \in [Names -> Entity(Known)]
    <3>1. Other \in Entity(Known) /\ tables[here] \in [Names -> Entity(Known)]
      BY <2>3 DEF Entity
    <3> QED
      BY <3>1 DEF Define
  <2>5. tables' = [tables EXCEPT ![here] = Define(tables[here], n, Other)]
    BY <2>2
  <2> QED
    BY <2>3, <2>4, <2>5
<1>8. Typed'
  BY <1>2, <1>5, <1>6, <1>7 DEF IInv, Typed
<1>9. CodeGrows /\ Here' = Here
  BY KeepsGrows DEF IInv, Typed, Entries, CodeGrows, KeepsCode, Here
<1>10. Quiet
  BY <1>1, <1>2, <1>5, <1>9 DEF IInv, Typed, Quiet
<1> QED
  BY <1>8, <1>10, QuietOK

LEMMA WithTopOK ==
  ASSUME IInv, Compiles, NEW part \in {"declarations", "body", "over"}, open' = WithTop(part)
  PROVE  /\ open' \in Seq(Open) /\ Len(open') = Len(open)
         /\ Top' = open'[Len(open)] /\ Top'.part = part /\ Top'.sub = Top.sub
         /\ \A i \in 1 .. Len(open) : open'[i].sub = open[i].sub /\ open'[i].stack = open[i].stack
         /\ \A i \in 1 .. Len(open) - 1 : open'[i] = open[i]
<1>1. open \in Seq(Open) /\ Len(open) \in Nat \ {0} /\ Top = open[Len(open)] /\ open # << >>
  BY TopIs DEF IInv, Typed
<1>2. open' = GoesTo(open, part)
  BY DEF WithTop, GoesTo
<1>3. /\ open' \in Seq(Open) /\ Len(open') = Len(open) /\ open'[Len(open)].part = part
      /\ \A i \in 1 .. Len(open) : open'[i].sub = open[i].sub /\ open'[i].stack = open[i].stack
      /\ \A i \in 1 .. Len(open) - 1 : open'[i] = open[i]
  BY <1>1, <1>2, GoesToOK
<1> QED
  BY <1>1, <1>3 DEF Top, Last

\* The compiler with these error flags.
LEMMA Flagged ==
  ASSUME IInv, Compiles, NEW error, NEW eof, error \in BOOLEAN, eof \in BOOLEAN, eof => error,
         comp' = [comp EXCEPT !.error = error, !.eof = eof]
  PROVE  /\ comp' \in Compiler /\ SameScopes /\ comp'.error = error /\ comp'.eof = eof
         /\ comp'.stack = comp.stack
BY DEF IInv, Typed, Compiler, SameScopes

LEMMA EndBlockOK ==
  ASSUME IInv, Compiling("body"), NEW atEnd \in BOOLEAN, EndBlock(atEnd),
         UNCHANGED <<mode, status, subs, tables, calls, vm, act, spent>>
  PROVE  IInv' /\ Keeps(chunk, chunk')
<1>1. Compiles /\ Compiles' /\ Typed /\ Known' = Known
  BY DEF IInv, Compiling, Compiles, Known
<1>2. PICK error \in BOOLEAN : error = (comp.error \/ atEnd)
  OBVIOUS
<1>3. PICK eof \in BOOLEAN : eof = (comp.eof \/ atEnd)
  OBVIOUS
<1>4. comp' \in Compiler /\ SameScopes
  <2>1. comp' = [comp EXCEPT !.error = error, !.eof = eof]
    BY <1>2, <1>3 DEF EndBlock
  <2>2. eof => error
    BY <1>1, <1>2, <1>3 DEF IInv, Nested
  <2> QED
    BY <1>1, <2>1, <2>2, Flagged
<1>5. Len(open) \in Nat \ {0} /\ Top = open[Len(open)] /\ Top.part = "body"
      /\ Len(open) = comp.scope + 1 /\ comp.scope \in Nat
  BY <1>1, TopIs DEF Compiling
<1>6. /\ open' \in Seq(Open) /\ Len(open') = Len(open) /\ Top'.part = "over"
      /\ \A i \in 1 .. Len(open) : open'[i].sub = open[i].sub
      /\ \A i \in 1 .. Len(open) - 1 : open'[i] = open[i]
  BY <1>1, WithTopOK DEF EndBlock
<1>7. SameBlocks
  BY <1>5, <1>6 DEF SameBlocks, InBody
<1>8. CodeGrows /\ Here' = Here /\ Fitted(chunk')
  <2>1. chunk \in Chunk /\ chunk.entry <= Here /\ Fitted(chunk) /\ comp.stack \in Nat
        /\ comp.entry \in Nat
    BY <1>1 DEF IInv, Typed, Entries, Compiler
  <2>2. CASE AtGlobal
    <3>1. InBody
      BY <1>5, <2>2 DEF InBody, AtGlobal
    <3>2. Site(comp.entry, Len(calls) + 1) <= Here /\ Len(calls) \in Nat
      BY <1>1, <3>1 DEF IInv, Typed, MainCode, Laid, Here
    <3>3. comp.entry < Len(chunk.code)
      <4>1. Site(comp.entry, Len(calls) + 1) = comp.entry + 3 + 2 * Len(calls)
        BY <2>1, <3>2, SiteNat
      <4> QED
        BY <2>1, <3>2, <4>1 DEF Chunk, Here
    <3>4. Patches(chunk, chunk', Others(comp.entry))
      BY <2>1, <2>2, <3>3, PatchEnterPatches DEF EndBlock
    <3>5. chunk.entry <= comp.entry
      BY <1>1 DEF IInv, Entries
    <3>6. Grows(chunk, chunk')
      BY <2>1, <3>4, <3>5, PatchesGrows DEF Here
    <3> QED
      BY <2>1, <3>4, <3>6 DEF Patches, CodeGrows, Fitted, Here
  <2>3. CASE ~ AtGlobal
    <3>1. chunk' = chunk
      BY <2>3 DEF EndBlock
    <3> QED
      BY <2>1, <3>1, KeepsGrows DEF CodeGrows, KeepsCode, Here
  <2> QED
    BY <2>2, <2>3
<1>9. Typed'
  BY <1>1, <1>4, <1>6, <1>8 DEF Typed, CodeGrows
<1>10. Quiet
  BY <1>1, <1>4, <1>7, <1>8 DEF Quiet, Typed
<1> QED
  BY <1>9, <1>10, QuietOK

LEMMA EndOK ==
  ASSUME IInv, End
  PROVE  IInv' /\ Keeps(chunk, chunk')
BY EndBlockOK DEF End

LEMMA TextEndsOK ==
  ASSUME IInv, TextEnds
  PROVE  IInv' /\ Keeps(chunk, chunk')
<1>1. CASE Compiling("body") /\ EndBlock(TRUE)
  BY <1>1, EndBlockOK DEF TextEnds
<1>2. ASSUME Compiling("declarations"), open' = WithTop("over"), UNCHANGED chunk,
             NEW eof \in {TRUE, mode = "repl"}, comp' = [comp EXCEPT !.error = TRUE, !.eof = eof]
      PROVE  IInv' /\ Keeps(chunk, chunk')
  <2>1. Compiles /\ Compiles' /\ Typed /\ Known' = Known
    BY <1>2 DEF TextEnds, IInv, Compiling, Compiles, Known
  <2>2. comp' \in Compiler /\ SameScopes /\ comp'.error
    <3>1. eof \in BOOLEAN
      OBVIOUS
    <3> QED
      BY <1>2, <2>1, <3>1, Flagged
  <2>3. /\ open' \in Seq(Open) /\ Len(open') = Len(open) /\ Top'.part = "over"
        /\ \A i \in 1 .. Len(open) : open'[i].sub = open[i].sub
        /\ \A i \in 1 .. Len(open) - 1 : open'[i] = open[i]
        /\ Top' = open'[Len(open)]
    BY <1>2, <2>1, WithTopOK
  <2>4. SameBlocks
    BY <2>2, <2>3 DEF SameBlocks, InBody
  <2>5. CodeGrows /\ Here' = Here
    BY <1>2, <2>1, KeepsGrows DEF IInv, Typed, Entries, CodeGrows, KeepsCode, Here
  <2>6. Typed'
    BY <1>2, <2>1, <2>2, <2>3 DEF TextEnds, Typed
  <2>7. Quiet
    BY <2>1, <2>2, <2>4, <2>5 DEF TextEnds, Quiet, Typed
  <2> QED
    BY <2>6, <2>7, QuietOK
<1> QED
  BY <1>1, <1>2 DEF TextEnds

LEMMA TagIs ==
  ASSUME SessionAssumption, NEW u \in 0 .. MaxSubs, NEW n \in 0 .. MaxSize
  PROVE  <<u, n>> \in Tags
BY DEF Tags

LEMMA AddsFits ==
  ASSUME NEW c, NEW e, c \in Chunk, Fitted(c), c.entry <= Len(c.code),
         NEW op, NEW arg, NEW size \in Nat, NEW tag, Adds(c, e, op, arg, size, tag)
  PROVE  e \in Chunk /\ Fitted(e) /\ Grows(c, e) /\ e.entry = c.entry
         /\ Len(e.code) = Len(c.code) + size
<1>1. Grows(c, e)
  BY AddsGrows
<1>2. e \in Chunk /\ Len(e.code) = Len(c.code) + size /\ e.entry = c.entry /\ e.count = c.count /\ e.cap = c.cap
  BY DEF Adds
<1>3. Fitted(e)
  BY <1>2 DEF Fitted
<1> QED
  BY <1>1, <1>2, <1>3

LEMMA BeginBlockOK ==
  ASSUME IInv, BeginBlock
  PROVE  IInv' /\ Keeps(chunk, chunk')
<1>1. /\ Compiles /\ Compiles' /\ Typed /\ Known' = Known /\ Known \in Nat
      /\ Compiling("declarations") /\ status = "compiling" /\ status' = status
  BY DEF IInv, Typed, Compiling, Compiles, Known, BeginBlock
<1>2. /\ Len(open) \in Nat \ {0} /\ Top = open[Len(open)] /\ Top.part = "declarations"
      /\ Len(open) = comp.scope + 1 /\ comp.scope \in Nat
      /\ (Top.sub = 0 <=> Len(open) = 1)
  BY <1>1, TopIs DEF Compiling
<1>3. /\ open' \in Seq(Open) /\ Len(open') = Len(open) /\ Top'.part = "body" /\ Top'.sub = Top.sub
      /\ \A i \in 1 .. Len(open) : open'[i].sub = open[i].sub
      /\ \A i \in 1 .. Len(open) - 1 : open'[i] = open[i]
      /\ Top' = open'[Len(open)]
  BY <1>1, WithTopOK DEF BeginBlock
<1>4. SubsGrow /\ LocsStay
  BY SubsStay DEF BeginBlock
<1>5. CASE ~ AtGlobal
  <2>1. comp' = comp /\ chunk' = chunk
    BY <1>5 DEF BeginBlock
  <2>2. SameScopes
    BY <1>1, <2>1 DEF IInv, Nested, SameScopes
  <2>3. SameBlocks
    BY <1>2, <1>3, <1>5 DEF SameBlocks, InBody, AtGlobal
  <2>4. CodeGrows /\ Here' = Here
    BY <1>1, <2>1, KeepsGrows DEF IInv, Typed, Entries, CodeGrows, KeepsCode, Here
  <2>5. Typed'
    BY <1>1, <1>3, <2>1 DEF BeginBlock, Typed
  <2>6. Quiet
    BY <1>1, <2>2, <2>3, <2>4 DEF BeginBlock, Quiet, Typed
  <2> QED
    BY <2>5, <2>6, QuietOK
<1>6. CASE AtGlobal
  <2>1. chunk \in Chunk /\ chunk.entry <= Here /\ Fitted(chunk) /\ Here \in Nat /\ comp \in Compiler
    BY <1>1 DEF IInv, Typed, Entries, Here, Chunk
  <2>2. Adds(chunk, chunk', "ENTER", 0, 3, <<0, 0>>)
    <3>1. <<0, 0>> \in Tags
      BY TagIs, SessionAssumption
    <3>2. chunk' = Emit(chunk, "ENTER", 0, 3, <<0, 0>>)
      BY <1>6 DEF BeginBlock, EmitEnter
    <3> QED
      BY <2>1, <3>1, <3>2, EmitAdds
  <2>3. chunk' \in Chunk /\ Fitted(chunk') /\ CodeGrows /\ Here' = Here + 3
    BY <2>1, <2>2, AddsFits DEF CodeGrows, Here
  <2>4. /\ comp' \in Compiler /\ comp'.entry = Here /\ comp'.scope = comp.scope
        /\ comp'.locals = comp.locals /\ comp'.refs = comp.refs /\ comp'.last = comp.last
        /\ comp'.error = comp.error /\ comp'.eof = comp.eof
    BY <1>6, <2>1 DEF BeginBlock, Compiler
  <2>5. Len(open) = 1 /\ Top.sub = 0 /\ Top = open[1] /\ comp.scope = 0 /\ Top' = open'[1]
        /\ open'[1].sub = 0 /\ Len(open') = 1 /\ open'[1].part = "body"
    BY <1>2, <1>3, <1>6 DEF AtGlobal
  <2>6. Typed'
    BY <1>1, <1>3, <2>3, <2>4 DEF BeginBlock, Typed
  <2>7. Counted'
    BY <1>1 DEF IInv, Counted, BeginBlock
  <2>8. ~ Between' /\ status' # "idle" /\ status' # "running"
    BY <1>1 DEF Between
  <2>9. Nested' /\ Opened' /\ OpenCode'
    <3>1. (\A i \in 2 .. Len(open') : FALSE) /\ \A i \in 1 .. comp'.scope : FALSE
      BY <2>4, <2>5
    <3>2. comp'.eof => comp'.error
      BY <1>1, <2>4 DEF IInv, Nested
    <3> QED
      BY <2>4, <2>5, <2>8, <3>1, <3>2 DEF Nested, Opened, OpenCode
  <2>10. Entries'
    <3>1. chunk.entry = comp.last /\ chunk'.entry = chunk.entry
      BY <1>1, <2>3 DEF IInv, Entries, CodeGrows
    <3>2. chunk.entry \in Nat
      BY <2>1 DEF Chunk
    <3> QED
      BY <2>1, <2>3, <2>4, <2>8, <3>1, <3>2 DEF Entries
  <2>11. KeptCode'
    BY <1>4, <2>3, KeptCodeStays
  <2>12. FreshCode'
    <3>1. RefsGrow
      BY <2>4 DEF RefsGrow
    <3> SUFFICES ASSUME NEW s \in 1 .. Known, subs'[s].fate = "fresh", Straight(s)'
                 PROVE  FreshAt(s)'
      BY <1>1 DEF FreshCode
    <3>2. subs' = subs
      BY DEF BeginBlock
    <3>3. subs[s].fate = "fresh" /\ Straight(s) /\ s # 0
      BY <3>2 DEF Straight
    <3> QED
      BY <1>1, <2>3, <2>5, <3>1, <3>2, <3>3, FreshStays
  <2>13. MainCode'
    <3>1. calls' = << >>
      BY <1>1, <1>2, <2>5 DEF IInv, MainCode, BeginBlock
    <3>2. Laid(chunk'.code, 0, Here, 0) /\ Here' = Site(Here, 1)
      BY <2>1, <2>2, <2>3 DEF Laid, Adds, Here, Site, Chunk
    <3>3. ASSUME NEW i \in 1 .. Here', chunk'.code[i].tag[1] # 0
          PROVE  i <= Here
      <4>1. \A k \in Here + 1 .. Here' : chunk'.code[k].tag[1] = 0
        BY <2>2 DEF Adds, Here
      <4> QED
        BY <2>1, <2>3, <3>3, <4>1
    <3>4. Noticed(comp.entry, calls)'
      BY <3>1 DEF Noticed
    <3>5. Len(calls') = 0
      BY <3>1
    <3> QED
      BY <2>4, <2>5, <3>1, <3>2, <3>3, <3>4, <3>5 DEF MainCode
  <2>14. References'
    BY <1>1, <2>3, <2>4, ReferencesStay
  <2>15. Tagged'
    <3>1. \A i \in Here + 1 .. Here' : chunk'.code[i].tag[1] = 0
      BY <2>2 DEF Adds, Here
    <3> QED
      BY <1>4, <2>3, <3>1, TaggedStays
  <2>16. Follows'
    BY <2>8 DEF Follows
  <2>17. Keeps(chunk, chunk')
    BY <2>3, GrowingKeeps
  <2> QED
    BY <2>17, <2>6, <2>7, <2>9, <2>10, <2>11, <2>12, <2>13, <2>14, <2>15, <2>16 DEF IInv
<1> QED
  BY <1>5, <1>6

\* A line, then an instruction of size words.
LineThenAdds(e, op, arg, size, tag) ==
  /\ e \in Chunk /\ Fitted(e) /\ Grows(chunk, e) /\ e.entry = chunk.entry
  /\ Len(e.code) = Here + size
  /\ \A i \in 1 .. Here : e.code[i] = chunk.code[i]
  /\ e.code[Here + 1].op = op /\ e.code[Here + 1].arg = arg
  /\ \A i \in Here + 1 .. Here + size : e.code[i].tag = tag

LEMMA LineThen ==
  ASSUME IInv, NEW c, c \in Chunk, c.code = chunk.code, c.entry = chunk.entry, Fitted(c),
         NEW op \in {"ENTER", "CALL", "EXIT"}, NEW arg \in Int, NEW size \in Nat \ {0},
         NEW tag \in Tags
  PROVE  LineThenAdds(Emit(WriteDebugInfo(c), op, arg, size, tag), op, arg, size, tag)
<1>1. chunk.entry <= Here /\ Here \in Nat /\ c.entry <= Len(c.code) /\ Here = Len(c.code)
  BY DEF IInv, Entries, Typed, Chunk, Here
<1>2. PICK d : d = WriteDebugInfo(c)
  OBVIOUS
<1>3. /\ d \in Chunk /\ d.code = c.code /\ d.entry = c.entry /\ Fitted(d)
  BY <1>2, DebugInfoKeepsCode DEF KeepsCode, Fitted
<1>4. PICK e : e = Emit(d, op, arg, size, tag)
  OBVIOUS
<1>5. Adds(d, e, op, arg, size, tag)
  BY <1>3, <1>4, EmitAdds
<1>6. e \in Chunk /\ Fitted(e) /\ Grows(d, e) /\ e.entry = d.entry /\ Len(e.code) = Len(d.code) + size
  BY <1>1, <1>3, <1>5, AddsFits
<1>7. Grows(chunk, e)
  BY <1>3, <1>6 DEF Grows
<1>8. /\ Len(e.code) = Here + size
      /\ \A i \in 1 .. Here : e.code[i] = chunk.code[i]
      /\ e.code[Here + 1].op = op /\ e.code[Here + 1].arg = arg
      /\ \A i \in Here + 1 .. Here + size : e.code[i].tag = tag
  BY <1>1, <1>3, <1>5 DEF Adds
<1> QED
  BY <1>2, <1>3, <1>4, <1>6, <1>7, <1>8 DEF LineThenAdds

LEMMA LineThenGrows ==
  ASSUME IInv, NEW op, NEW arg, NEW size \in Nat \ {0}, NEW tag,
         LineThenAdds(chunk', op, arg, size, tag)
  PROVE  CodeGrows /\ Here' = Here + size /\ Fitted(chunk')
BY DEF LineThenAdds, CodeGrows, Here

LEMMA MoreSubs ==
  ASSUME NEW m \in Nat
  PROVE  /\ Seq(1 .. m) \subseteq Seq(1 .. m + 1)
         /\ Subroutine(m) \subseteq Subroutine(m + 1) /\ Entity(m) \subseteq Entity(m + 1)
<1>1. 1 .. m \subseteq 1 .. m + 1
  OBVIOUS
<1>2. Seq(1 .. m) \subseteq Seq(1 .. m + 1)
  <2> SUFFICES ASSUME NEW q \in Seq(1 .. m) PROVE q \in Seq(1 .. m + 1)
    OBVIOUS
  <2> QED
    BY <1>1
<1>3. Subroutine(m) \subseteq Subroutine(m + 1)
  BY <1>2 DEF Subroutine
<1>4. Entity(m) \subseteq Entity(m + 1)
  BY <1>1 DEF Entity
<1> QED
  BY <1>2, <1>3, <1>4

\* The subroutine s is declared in the block being compiled.
Declares(s, loc, forward) ==
  subs' = Append([i \in DOMAIN subs |->
                    IF i = Top.sub THEN [subs[i] EXCEPT !.holds = @ \/ ~ forward] ELSE subs[i]],
                 [loc |-> loc, calls |-> <<>>, fate |-> "fresh", holds |-> FALSE])

LEMMA DeclaresOK ==
  ASSUME IInv, Compiles, Known + 1 <= MaxSubs, NEW forward \in BOOLEAN, NEW loc \in Nat \cup {Invalid},
         Declares(Known + 1, loc, forward)
  PROVE  /\ subs' \in Seq(Subroutine(Known + 1)) /\ Known' = Known + 1 /\ SubsGrow /\ LocsStay
         /\ subs'[Known + 1] = [loc |-> loc, calls |-> <<>>, fate |-> "fresh", holds |-> FALSE]
         /\ \A s \in 1 .. Known : s # Top.sub => subs'[s] = subs[s]
         /\ \A s \in 1 .. Known : subs'[s].calls = subs[s].calls
         /\ \A s \in 1 .. Known : subs[s].holds => subs'[s].holds
         /\ \A s \in 1 .. Known : forward => subs'[s] = subs[s]
         /\ \A s \in 1 .. Known : ~ forward /\ s = Top.sub => subs'[s].holds
<1>1. Known \in Nat /\ subs \in Seq(Subroutine(Known))
  BY DEF IInv, Typed, Known
<1> DEFINE wide(i) == [subs[i] EXCEPT !.holds = @ \/ ~ forward]
           within == [i \in DOMAIN subs |-> IF i = Top.sub THEN wide(i) ELSE subs[i]]
           new == [loc |-> loc, calls |-> <<>>, fate |-> "fresh", holds |-> FALSE]
<1>2. new \in Subroutine(Known + 1)
  BY <1>1 DEF Subroutine
<1>3. ASSUME NEW i \in 1 .. Known
      PROVE  /\ wide(i) \in Subroutine(Known) /\ wide(i).loc = subs[i].loc /\ wide(i).fate = subs[i].fate
             /\ wide(i).calls = subs[i].calls /\ (subs[i].holds => wide(i).holds)
             /\ (forward => wide(i) = subs[i]) /\ (~ forward => wide(i).holds)
  <2>1. subs[i] \in Subroutine(Known)
    BY <1>1 DEF Known
  <2>2. PICK holds \in BOOLEAN : holds = (subs[i].holds \/ ~ forward)
    OBVIOUS
  <2>3. wide(i) = [subs[i] EXCEPT !.holds = holds]
    BY <2>2
  <2>4. wide(i) \in Subroutine(Known) /\ wide(i).loc = subs[i].loc /\ wide(i).fate = subs[i].fate
        /\ wide(i).calls = subs[i].calls /\ wide(i).holds = holds
    BY <2>1, <2>3 DEF Subroutine
  <2>5. forward => holds = subs[i].holds
    BY <2>1, <2>2 DEF Subroutine
  <2>6. forward => wide(i) = subs[i]
    BY <2>1, <2>3, <2>5 DEF Subroutine
  <2> QED
    BY <2>2, <2>4, <2>6
<1> HIDE DEF wide
<1>4. DOMAIN subs = 1 .. Known
  BY <1>1 DEF Known
<1>5. /\ within \in Seq(Subroutine(Known + 1)) /\ Len(within) = Known
      /\ \A i \in 1 .. Known : within[i] = IF i = Top.sub THEN wide(i) ELSE subs[i]
  <2>1. \A i \in 1 .. Known : subs[i] \in Subroutine(Known)
    BY <1>1 DEF Known
  <2>2. within \in [1 .. Known -> Subroutine(Known + 1)]
    BY <1>1, <1>3, <1>4, <2>1, MoreSubs
  <2> QED
    BY <1>1, <1>4, <2>2
<1> HIDE DEF within, new
<1>6. subs' = Append(within, new)
  BY DEF Declares, within, new, wide
<1>7. /\ subs' \in Seq(Subroutine(Known + 1)) /\ Len(subs') = Known + 1 /\ subs'[Known + 1] = new
      /\ \A i \in 1 .. Known : subs'[i] = within[i]
  BY <1>1, <1>2, <1>5, <1>6
<1>8. Known' = Known + 1 /\ Known <= Known'
  BY <1>1, <1>7 DEF Known
<1>9. Top.sub # 0 => Top.sub \in 1 .. Known /\ subs[Top.sub].fate = "fresh"
  BY TopIs
<1>10. ASSUME NEW s \in 1 .. Known
       PROVE  /\ subs'[s].loc = subs[s].loc /\ subs'[s].fate = subs[s].fate
              /\ subs'[s].calls = subs[s].calls
              /\ (subs[s].holds => subs'[s].holds)
              /\ (s # Top.sub => subs'[s] = subs[s])
              /\ (forward => subs'[s] = subs[s])
              /\ (~ forward /\ s = Top.sub => subs'[s].holds)
  BY <1>3, <1>5, <1>7
<1>11. LocsStay
  BY <1>8, <1>10 DEF LocsStay
<1>12. \A s \in 1 .. Known : subs[s].fate # "fresh" => subs'[s] = subs[s]
  BY <1>9, <1>10
<1>13. \A s \in Known + 1 .. Known' : subs'[s].fate = "fresh"
  <2>1. \A s \in Known + 1 .. Known' : s = Known + 1
    BY <1>1, <1>8
  <2> QED
    BY <1>7, <2>1 DEF new
<1>14. SubsGrow
  BY <1>10, <1>11, <1>12, <1>13 DEF SubsGrow
<1> QED
  BY <1>7, <1>8, <1>10, <1>11, <1>14 DEF new

LEMMA DefineOK ==
  ASSUME NEW m, NEW tab \in [Names -> Entity(m)], NEW n, NEW as \in Entity(m)
  PROVE  Define(tab, n, as) \in [Names -> Entity(m)]
BY DEF Define

LEMMA LocalParametersOK ==
  ASSUME NEW m, NEW ps \in Parameters
  PROVE  LocalParameters(ps) \in [Names -> Entity(m)]
<1>1. ps \in Seq(Names) /\ ArgRegs \in Nat
  BY SessionAssumption
<1>2. SUFFICES ASSUME NEW n \in Names PROVE LocalParameters(ps)[n] \in Entity(m)
  BY DEF LocalParameters
<1>3. CASE n \notin ToSet(ps)
  BY <1>3 DEF LocalParameters, Entity
<1>4. CASE n \in ToSet(ps)
  <2>1. \E i \in DOMAIN ps : ps[i] = n
    BY <1>4 DEF ToSet
  <2>2. PICK i \in DOMAIN ps : i = CHOOSE k \in DOMAIN ps : ps[k] = n
    BY <2>1
  <2>5. i \in Nat
    BY <1>1, <2>2
  <2>6. ParameterAt(i) \in Int
    BY <1>1, <2>5 DEF ParameterAt, StackAlign, ParameterSize
  <2>3. PICK at \in Int : at = ParameterAt(i)
    BY <2>6
  <2>4. LocalParameters(ps)[n] = VarAt(at, ParameterSize, TRUE)
    BY <1>4, <2>2, <2>3 DEF LocalParameters
  <2> QED
    BY <2>3, <2>4 DEF VarAt, Entity, ParameterSize
<1> QED
  BY <1>3, <1>4

\* The name n is given to s, in the table here, and s gets a table.
LEMMA TablesOK ==
  ASSUME NEW m \in Nat, NEW tabs \in [0 .. MaxSubs -> [Names -> Entity(m)]],
         NEW here \in 0 .. MaxSubs, NEW s \in 0 .. MaxSubs, s = m + 1, here # s, NEW n,
         NEW table \in [Names -> Entity(m + 1)]
  PROVE  [tabs EXCEPT ![here] = Define(@, n, SubIs(s)), ![s] = table]
           \in [0 .. MaxSubs -> [Names -> Entity(m + 1)]]
<1>1. tabs \in [0 .. MaxSubs -> [Names -> Entity(m + 1)]]
  BY MoreSubs
<1>2. SubIs(s) \in Entity(m + 1)
  BY DEF SubIs, Entity
<1>3. Define(tabs[here], n, SubIs(s)) \in [Names -> Entity(m + 1)]
  BY <1>1, <1>2, DefineOK
<1>4. PICK d \in [Names -> Entity(m + 1)] : d = Define(tabs[here], n, SubIs(s))
  BY <1>3
<1> QED
  BY <1>1, <1>4

\* What all kinds of subroutine declarations share.
LEMMA DeclarationIs ==
  ASSUME IInv, NEW n \in Names, NEW ps \in Parameters, NEW forward \in BOOLEAN,
         SubroutineBlock(n, ps, forward)
  PROVE  /\ Compiles /\ Typed /\ Known \in Nat /\ mode' = mode /\ Top.part = "declarations"
         /\ status = "compiling" /\ Known + 1 <= MaxSubs
         /\ spent' \in 0 .. MaxSize /\ spent < spent' /\ spent \in Nat
<1>1. spent' \in 0 .. MaxSize /\ spent < spent'
  BY TakesOK DEF IInv, SubroutineBlock
<1> QED
  BY <1>1 DEF IInv, Typed, SubroutineBlock, Compiling, Compiles, Known

LEMMA ForwardOK ==
  ASSUME IInv, NEW n \in Names, NEW ps \in Parameters, SubroutineBlock(n, ps, TRUE), ~ Dies
  PROVE  IInv' /\ Keeps(chunk, chunk')
<1>1. /\ Compiles /\ Typed /\ Known \in Nat /\ mode' = mode /\ Top.part = "declarations"
      /\ status = "compiling" /\ Known + 1 <= MaxSubs
      /\ spent' \in 0 .. MaxSize /\ spent < spent' /\ spent \in Nat
  BY DeclarationIs
<1>2. PICK s \in Nat : s = Known + 1 /\ s \in 0 .. MaxSubs
  BY <1>1, SessionAssumption
<1>3. /\ Declares(s, Invalid, TRUE) /\ chunk' = WriteDebugInfo(chunk)
      /\ UNCHANGED <<status, calls, vm, act, open, comp>>
      /\ tables' = [tables EXCEPT ![CurrentScope] = Define(@, n, SubIs(s)), ![s] = @]
  BY <1>2 DEF SubroutineBlock, Declares, Known
<1>4. /\ subs' \in Seq(Subroutine(s)) /\ Known' = s /\ SubsGrow /\ LocsStay
      /\ subs'[s] = [loc |-> Invalid, calls |-> <<>>, fate |-> "fresh", holds |-> FALSE]
      /\ \A r \in 1 .. Known : subs'[r] = subs[r]
  BY <1>1, <1>2, <1>3, DeclaresOK
<1>5. /\ chunk' \in Chunk /\ Fitted(chunk') /\ CodeGrows /\ Here' = Here
  <2>1. chunk \in Chunk /\ Fitted(chunk) /\ chunk.entry <= Here
    BY <1>1 DEF IInv, Typed, Entries
  <2>2. KeepsCode(chunk, chunk') /\ chunk'.count = chunk.count /\ chunk'.cap = chunk.cap
    BY <1>3, <2>1, DebugInfoKeepsCode
  <2> QED
    BY <2>1, <2>2, KeepsGrows DEF CodeGrows, KeepsCode, Fitted, Here
<1>6. tables' \in [0 .. MaxSubs -> [Names -> Entity(s)]]
  <2>1. PICK here \in 0 .. Known : here = CurrentScope /\ here \in 0 .. MaxSubs
    BY <1>1, CurrentScopeIs
  <2>2. tables \in [0 .. MaxSubs -> [Names -> Entity(Known)]]
    BY <1>1 DEF Typed
  <2>3. here # s
    BY <1>1, <1>2, <2>1
  <2>4. tables[s] \in [Names -> Entity(s)]
    BY <1>1, <1>2, <2>2, MoreSubs
  <2>5. tables' = [tables EXCEPT ![here] = Define(@, n, SubIs(s)), ![s] = tables[s]]
    BY <1>3, <2>1, <2>3
  <2> QED
    BY <1>1, <1>2, <2>1, <2>2, <2>3, <2>4, <2>5, TablesOK
<1>7. Compiles' /\ ~ Between' /\ status' # "idle" /\ status' # "running" /\ Top' = Top
      /\ comp' = comp /\ open' = open /\ calls' = calls
  BY <1>1, <1>3 DEF Compiles, Between, Top
<1>8. Typed'
  <2>1. calls' \in Seq(1 .. s)
    BY <1>1, <1>2, <1>7, MoreSubs DEF Typed
  <2> QED
    BY <1>1, <1>2, <1>3, <1>4, <1>5, <1>6, <2>1 DEF Typed
<1>9. \A r \in 1 .. s : r \in 1 .. Known \/ r = s
  BY <1>1, <1>2
<1>10. Counted'
  <2>1. \A r \in 1 .. Known : Len(subs'[r].calls) < spent'
    <3> TAKE r \in 1 .. Known
    <3>1. Len(subs[r].calls) < spent /\ subs[r] \in Subroutine(Known)
      BY <1>1 DEF IInv, Counted, Typed, Known
    <3>2. Len(subs[r].calls) \in Nat
      BY <3>1 DEF Subroutine
    <3> QED
      BY <1>1, <1>4, <3>1, <3>2
  <2>2. Len(subs'[s].calls) < spent'
    BY <1>1, <1>4
  <2>3. Len(calls) < spent'
    BY <1>1 DEF IInv, Counted, Typed
  <2> QED
    BY <1>4, <1>7, <1>9, <2>1, <2>2, <2>3 DEF Counted
<1>11. Nested'
  BY <1>1, <1>7 DEF IInv, Nested
<1>12. Opened'
  <2> SUFFICES ASSUME NEW i \in 2 .. Len(open)
               PROVE  /\ open[i].sub \in 1 .. s
                      /\ subs'[open[i].sub].fate = "fresh" /\ subs'[open[i].sub].loc # Invalid
                      /\ i < Len(open) => subs'[open[i].sub].holds
    BY <1>4, <1>7 DEF Opened
  <2>1. /\ open[i].sub \in 1 .. Known
        /\ subs[open[i].sub].fate = "fresh" /\ subs[open[i].sub].loc # Invalid
        /\ i < Len(open) => subs[open[i].sub].holds
    BY <1>1 DEF IInv, Opened
  <2> QED
    BY <1>1, <1>2, <1>4, <2>1
<1>13. Entries'
  BY <1>1, <1>5, <1>7 DEF IInv, Entries, CodeGrows
<1>14. KeptCode'
  BY <1>4, <1>5, KeptCodeStays
<1>15. FreshCode'
  <2> SUFFICES ASSUME NEW r \in 1 .. s, subs'[r].fate = "fresh", Straight(r)'
               PROVE  FreshAt(r)'
    BY <1>4 DEF FreshCode
  <2>1. r # s
    BY <1>4 DEF Straight
  <2>2. r \in 1 .. Known
    BY <1>9, <2>1
  <2>3. subs'[r] = subs[r] /\ subs[r].fate = "fresh" /\ Straight(r)
    BY <1>4, <2>2 DEF Straight
  <2>4. RefsGrow
    BY <1>7 DEF RefsGrow
  <2> QED
    BY <1>1, <1>5, <1>7, <2>2, <2>3, <2>4, FreshStays, FreshTopStays
<1>16. OpenCode'
  <2> SUFFICES ASSUME NEW i \in 2 .. Len(open)
               PROVE  LET loc == subs'[open[i].sub].loc
                      IN  loc \in chunk'.entry .. Here' - 1 /\ chunk'.code[loc + 1].op = "ENTER"
    BY <1>7 DEF OpenCode
  <2>1. PICK loc : loc = subs[open[i].sub].loc
    OBVIOUS
  <2>2. subs'[open[i].sub].loc = loc
    BY <1>1, <1>4, <2>1 DEF IInv, Opened
  <2>3. loc \in chunk.entry .. Here - 1 /\ chunk.code[loc + 1].op = "ENTER"
    BY <1>1, <2>1 DEF IInv, OpenCode
  <2>4. chunk.entry \in Nat /\ Here \in Nat
    BY <1>1 DEF Typed, Chunk, Here
  <2>5. loc + 1 \in 1 .. Here
    BY <2>3, <2>4
  <2> QED
    BY <1>5, <2>2, <2>3, <2>5 DEF CodeGrows, Grows, Here
<1>17. MainCode'
  <2>2. InBody' <=> InBody
    BY <1>7 DEF InBody
  <2>3. ~ InBody
    BY <1>1, TopIs DEF InBody
  <2> QED
    BY <1>1, <1>7, <2>2, <2>3 DEF IInv, MainCode
<1>18. References'
  BY <1>1, <1>2, <1>4, <1>5, <1>7, ReferencesStay
<1>19. Tagged'
  <2>1. \A i \in Here + 1 .. Here' : FALSE
    BY <1>1, <1>5 DEF Typed, Chunk, Here
  <2> QED
    BY <1>4, <1>5, <2>1, TaggedStays
<1>20. Follows'
  BY <1>7 DEF Follows
<1>21. Keeps(chunk, chunk')
  BY <1>5, GrowingKeeps
<1> QED
  BY <1>21, <1>8, <1>10, <1>11, <1>12, <1>13, <1>14, <1>15, <1>16, <1>17, <1>18, <1>19, <1>20 DEF IInv

LEMMA BodyOK ==
  ASSUME IInv, NEW n \in Names, NEW ps \in Parameters, SubroutineBlock(n, ps, FALSE), ~ Dies
  PROVE  IInv' /\ Keeps(chunk, chunk')
<1>1. /\ Compiles /\ Typed /\ Known \in Nat /\ mode' = mode /\ Top.part = "declarations"
      /\ status = "compiling" /\ Known + 1 <= MaxSubs
      /\ spent' \in 0 .. MaxSize /\ spent < spent' /\ spent \in Nat
  BY DeclarationIs
<1>2. PICK s \in Nat : s = Known + 1 /\ s \in 0 .. MaxSubs /\ s # 0
  BY <1>1, SessionAssumption
<1> DEFINE block == [sub |-> s, part |-> "declarations", stack |-> comp.stack]
<1>3. /\ Declares(s, Here, FALSE) /\ chunk' = EmitEnter(WriteDebugInfo(chunk), <<s, 0>>)
      /\ UNCHANGED <<status, calls, vm, act>> /\ ~ TooDeep
      /\ tables' = [tables EXCEPT ![CurrentScope] = Define(@, n, SubIs(s)), ![s] = LocalParameters(ps)]
      /\ open' = Append(open, block)
      /\ comp' = [PushSubroutine(comp, s) EXCEPT !.stack = @ + ParameterSpace(ps)]
  BY <1>2 DEF SubroutineBlock, Declares, Known
<1>21. chunk \in Chunk /\ Fitted(chunk) /\ chunk.entry <= Here /\ Here \in Nat /\ comp \in Compiler
       /\ chunk.entry \in Nat
  BY <1>1 DEF IInv, Typed, Entries, Here, Chunk
<1>4. /\ subs' \in Seq(Subroutine(s)) /\ Known' = s /\ SubsGrow /\ LocsStay
      /\ subs'[s] = [loc |-> Here, calls |-> <<>>, fate |-> "fresh", holds |-> FALSE]
      /\ \A r \in 1 .. Known : r # Top.sub => subs'[r] = subs[r]
      /\ \A r \in 1 .. Known : subs'[r].calls = subs[r].calls
      /\ \A r \in 1 .. Known : subs[r].holds => subs'[r].holds
      /\ \A r \in 1 .. Known : r = Top.sub => subs'[r].holds
  <2>1. Here \in Nat \cup {Invalid}
    BY <1>21
  <2> QED
    BY <1>1, <1>2, <1>3, <2>1, DeclaresOK
<1>5. LineThenAdds(chunk', "ENTER", 0, 3, <<s, 0>>)
  <2>1. chunk' = Emit(WriteDebugInfo(chunk), "ENTER", 0, 3, <<s, 0>>)
    BY <1>3 DEF EmitEnter
  <2>2. <<s, 0>> \in Tags
    BY <1>2, TagIs, SessionAssumption
  <2> QED
    BY <1>21, <2>1, <2>2, LineThen
<1>6. CodeGrows /\ Here' = Here + 3 /\ Fitted(chunk')
  BY <1>5, LineThenGrows
<1>7. tables' \in [0 .. MaxSubs -> [Names -> Entity(s)]]
  <2>1. PICK here \in 0 .. Known : here = CurrentScope /\ here \in 0 .. MaxSubs
    BY <1>1, CurrentScopeIs
  <2>2. tables \in [0 .. MaxSubs -> [Names -> Entity(Known)]]
    BY <1>1 DEF Typed
  <2>3. here # s
    BY <1>1, <1>2, <2>1
  <2>4. LocalParameters(ps) \in [Names -> Entity(s)]
    BY LocalParametersOK
  <2>5. tables' = [tables EXCEPT ![here] = Define(@, n, SubIs(s)), ![s] = LocalParameters(ps)]
    BY <1>3, <2>1
  <2> QED
    BY <1>1, <1>2, <2>1, <2>2, <2>3, <2>4, <2>5, TablesOK
<1>8. PICK len \in Nat \ {0} : len = Len(open) /\ len = comp.scope + 1 /\ Top = open[len]
                              /\ comp.scope \in Nat /\ open \in Seq(Open)
  BY <1>1, TopIs DEF Typed
<1>9. /\ open' \in Seq(Open) /\ Len(open') = len + 1 /\ open'[len + 1] = block
      /\ \A i \in 1 .. len : open'[i] = open[i]
      /\ Top' = block
  <2>1. block \in Open
    BY <1>2, <1>21 DEF Open, Compiler
  <2> HIDE DEF block
  <2>2. /\ open' \in Seq(Open) /\ Len(open') = len + 1 /\ open'[len + 1] = block
        /\ \A i \in 1 .. len : open'[i] = open[i]
    <3>1. open' = Append(open, block)
      BY <1>3
    <3>2. open \in Seq(Open) /\ len = Len(open)
      BY <1>8
    <3> QED
      BY <2>1, <3>1, <3>2
  <2> QED
    BY <2>2 DEF Top, Last
<1>10. /\ comp' \in Compiler /\ comp'.scope = len /\ comp'.locals[len] = s
       /\ \A i \in 1 .. comp.scope : comp'.locals[i] = comp.locals[i]
       /\ comp'.refs = comp.refs /\ comp'.entry = comp.entry /\ comp'.last = comp.last
       /\ comp'.error = comp.error /\ comp'.eof = comp.eof
  <2>1. len \in 1 .. MaxScope /\ len \in 0 .. MaxScope - 1 /\ MaxScope \in Nat
    <3>1. len + 1 <= MaxScope /\ MaxScope \in Nat
      <4>1. ~ (comp.scope + 1 >= MaxScope) /\ MaxScope \in Nat
        BY <1>3, SessionAssumption DEF TooDeep
      <4> QED
        BY <1>8, <4>1
    <3> QED
      BY <3>1
  <2>2. PICK stack \in Nat : stack = comp.stack + ParameterSpace(ps)
    <3>1. ParameterSpace(ps) \in Nat
      <4>1. ps \in Seq(Names) /\ ArgRegs \in Nat /\ Len(ps) \in Nat
        BY SessionAssumption
      <4> QED
        BY <4>1 DEF ParameterSpace, StackAlign
    <3> QED
      BY <1>21, <3>1 DEF Compiler
  <2>7. PICK locals : locals = [comp.locals EXCEPT ![len] = s]
    OBVIOUS
  <2>3. /\ locals \in [1 .. MaxScope -> 0 .. MaxSubs] /\ locals[len] = s
        /\ \A i \in 1 .. comp.scope : locals[i] = comp.locals[i]
    <3>1. comp.locals \in [1 .. MaxScope -> 0 .. MaxSubs] /\ len \in 1 .. MaxScope /\ s \in 0 .. MaxSubs
      BY <1>2, <1>21, <2>1 DEF Compiler
    <3>2. ASSUME NEW i \in 1 .. comp.scope PROVE i # len /\ i \in 1 .. MaxScope
      <4>1. comp.scope + 1 = len /\ len <= MaxScope /\ MaxScope \in Nat /\ comp.scope \in Nat
        BY <1>8, <2>1
      <4> QED
        BY <4>1
    <3> QED
      BY <2>7, <3>1, <3>2
  <2>4. comp' = [comp EXCEPT !.locals = locals, !.scope = len, !.stack = stack]
    <3>1. PushSubroutine(comp, s) = [comp EXCEPT !.locals = locals, !.scope = len]
      BY <1>8, <2>7 DEF PushSubroutine
    <3>2. PushSubroutine(comp, s).stack = comp.stack
      BY <1>21, <3>1 DEF Compiler
    <3>3. comp' = [[comp EXCEPT !.locals = locals, !.scope = len] EXCEPT !.stack = stack]
      BY <1>3, <2>2, <3>1, <3>2
    <3> QED
      BY <1>21, <3>3 DEF Compiler
  <2>5. /\ comp'.scope = len /\ comp'.locals = locals /\ comp'.stack = stack
        /\ comp'.refs = comp.refs /\ comp'.entry = comp.entry /\ comp'.last = comp.last
        /\ comp'.error = comp.error /\ comp'.eof = comp.eof
    BY <1>21, <2>4 DEF Compiler
  <2>6. comp' \in Compiler
    BY <1>21, <2>1, <2>2, <2>3, <2>4 DEF Compiler
  <2> QED
    BY <2>3, <2>5, <2>6
<1>11. Compiles' /\ ~ Between' /\ status' # "idle" /\ status' # "running" /\ calls' = calls
  BY <1>1, <1>3 DEF Compiles, Between
<1>12. Typed'
  <2>1. calls' \in Seq(1 .. s)
    BY <1>1, <1>2, <1>11, MoreSubs DEF Typed
  <2>2. chunk' \in Chunk
    BY <1>6 DEF CodeGrows
  <2> QED
    BY <1>1, <1>2, <1>3, <1>4, <1>6, <1>7, <1>9, <1>10, <2>1, <2>2 DEF Typed
<1>13. \A r \in 1 .. s : r \in 1 .. Known \/ r = s
  BY <1>1, <1>2
<1>14. Counted'
  <2>1. \A r \in 1 .. Known : Len(subs'[r].calls) < spent'
    <3> TAKE r \in 1 .. Known
    <3>1. Len(subs[r].calls) < spent /\ subs[r] \in Subroutine(Known)
      BY <1>1 DEF IInv, Counted, Typed, Known
    <3>2. Len(subs[r].calls) \in Nat
      BY <3>1 DEF Subroutine
    <3> QED
      BY <1>1, <1>4, <3>1, <3>2
  <2>2. Len(subs'[s].calls) < spent'
    BY <1>1, <1>4
  <2>3. Len(calls) < spent'
    BY <1>1 DEF IInv, Counted, Typed
  <2> QED
    BY <1>4, <1>11, <1>13, <2>1, <2>2, <2>3 DEF Counted
<1>15. \A i \in 1 .. len + 1 : i \in 1 .. len \/ i = len + 1
  OBVIOUS
<1>16. \A i \in 1 .. len : open[i].sub \in 0 .. Known
  <2>1. open[1].sub = 0
    BY <1>1, TopIs
  <2>2. \A i \in 2 .. len : open[i].sub \in 1 .. Known
    BY <1>1, <1>8 DEF IInv, Opened
  <2> QED
    BY <1>1, <2>1, <2>2
<1>17. Nested'
  <2>1. open'[1].sub = 0 /\ (comp'.eof => comp'.error)
    <3>1. 1 \in 1 .. len
      OBVIOUS
    <3> QED
      BY <1>1, <1>9, <1>10, <3>1 DEF IInv, Nested
  <2>2. ASSUME NEW i \in 1 .. len PROVE comp'.locals[i] = open'[i + 1].sub /\ open'[i].part = "declarations"
    <3>1. CASE i = len
      <4>1. comp'.locals[len] = s
        BY <1>10
      <4>2. open'[len + 1].sub = s
        BY <1>9
      <4>3. open'[len] = open[len] /\ open[len] = Top
        <5>1. len \in 1 .. len
          OBVIOUS
        <5> QED
          BY <1>8, <1>9, <5>1
      <4> QED
        BY <1>1, <3>1, <4>1, <4>2, <4>3
    <3>2. CASE i # len
      <4>1. i \in 1 .. comp.scope /\ i + 1 \in 1 .. len
        BY <1>8, <3>2
      <4>2. comp.locals[i] = open[i + 1].sub /\ open[i].part = "declarations"
        BY <1>1, <4>1 DEF IInv, Nested
      <4> QED
        BY <1>9, <1>10, <4>1, <4>2
    <3> QED
      BY <3>1, <3>2
  <2>3. ASSUME NEW i \in 1 .. len + 1, NEW j \in 1 .. len + 1, open'[i].sub = open'[j].sub
        PROVE  i = j
    <3>1. CASE i \in 1 .. len /\ j \in 1 .. len
      <4>1. open[i].sub = open[j].sub
        BY <1>9, <2>3, <3>1
      <4> QED
        BY <1>1, <1>8, <3>1, <4>1 DEF IInv, Nested
    <3>2. CASE i = len + 1 /\ j \in 1 .. len
      <4>1. open[j].sub = s
        BY <1>9, <2>3, <3>2
      <4>2. open[j].sub \in 0 .. Known
        BY <1>16, <3>2
      <4> QED
        BY <1>1, <1>2, <4>1, <4>2
    <3>3. CASE i \in 1 .. len /\ j = len + 1
      <4>1. open[i].sub = s
        BY <1>9, <2>3, <3>3
      <4>2. open[i].sub \in 0 .. Known
        BY <1>16, <3>3
      <4> QED
        BY <1>1, <1>2, <4>1, <4>2
    <3> QED
      BY <1>15, <3>1, <3>2, <3>3
  <2> QED
    BY <1>9, <1>10, <1>11, <2>1, <2>2, <2>3 DEF Nested
<1>18. Opened'
  <2>1. ASSUME NEW i \in 2 .. len + 1
        PROVE  /\ open'[i].sub \in 1 .. s
               /\ subs'[open'[i].sub].fate = "fresh" /\ subs'[open'[i].sub].loc # Invalid
               /\ i < len + 1 => subs'[open'[i].sub].holds
    <3>1. CASE i = len + 1
      <4>1. Here # Invalid
        BY <1>21 DEF Invalid
      <4> QED
        BY <1>2, <1>4, <1>9, <3>1, <4>1
    <3>2. CASE i # len + 1
      <4>1. i \in 2 .. Len(open) /\ i \in 1 .. len
        BY <1>8, <3>2
      <4>2. PICK r \in 1 .. Known : r = open[i].sub
        BY <1>1, <4>1 DEF IInv, Opened
      <4>3. subs[r].fate = "fresh" /\ subs[r].loc # Invalid /\ (i < Len(open) => subs[r].holds)
        BY <1>1, <4>1, <4>2 DEF IInv, Opened
      <4>4. subs'[r].fate = "fresh" /\ subs'[r].loc # Invalid
        BY <1>4, <4>3 DEF SubsGrow, LocsStay
      <4>5. subs'[r].holds
        <5>1. CASE i < Len(open)
          BY <1>4, <4>3, <5>1
        <5>2. CASE ~ (i < Len(open))
          <6>1. Len(open) \in Nat /\ Top = open[Len(open)]
            BY <1>1, TopIs
          <6>2. i = Len(open)
            BY <4>1, <5>2, <6>1
          <6>3. r = Top.sub
            BY <4>2, <6>1, <6>2
          <6> QED
            BY <1>4, <4>3, <6>3
        <5> QED
          BY <5>1, <5>2
      <4> QED
        BY <1>1, <1>2, <1>9, <4>1, <4>2, <4>4, <4>5
    <3> QED
      BY <3>1, <3>2
  <2> QED
    BY <1>4, <1>9, <1>11, <2>1 DEF Opened
<1>19. Entries'
  <2>1. comp.entry \in Nat /\ chunk.entry = comp.last /\ chunk.entry <= comp.entry /\ comp.entry <= Here
    BY <1>1, <1>21 DEF IInv, Entries, Compiler
  <2> QED
    BY <1>6, <1>10, <1>11, <1>21, <2>1 DEF Entries, CodeGrows
<1>20. KeptCode'
  BY <1>4, <1>6, KeptCodeStays
<1>22. FreshCode'
  <2> SUFFICES ASSUME NEW r \in 1 .. s, subs'[r].fate = "fresh", Straight(r)'
               PROVE  FreshAt(r)'
    BY <1>4 DEF FreshCode
  <2>1. CASE r = s
    <3>1. Laid(chunk'.code, s, Here, 0) /\ Here' = Site(Here, 1)
      <4>1. Here + 1 \in Here + 1 .. Here + 3
        BY <1>21
      <4>2. chunk'.code[Here + 1].op = "ENTER" /\ chunk'.code[Here + 1].tag = <<s, 0>>
            /\ Len(chunk'.code) = Here + 3
        BY <1>5, <4>1 DEF LineThenAdds
      <4> QED
        BY <1>6, <1>21, <4>2, LaidFirst
    <3>2. Noticed(subs[s].loc, subs[s].calls)'
      BY <1>4 DEF Noticed
    <3>3. CallCount(s)' = 0
      BY <1>4 DEF CallCount
    <3>4. subs'[s].loc = Here /\ chunk'.entry <= Here
      BY <1>4, <1>6, <1>21 DEF CodeGrows
    <3>5. Top'.sub = s
      BY <1>9
    <3> QED
      BY <2>1, <3>1, <3>2, <3>3, <3>4, <3>5 DEF FreshAt
  <2>2. CASE r # s
    <3>1. r \in 1 .. Known
      BY <1>13, <2>2
    <3>2. r # Top.sub
      BY <1>4, <3>1 DEF Straight
    <3>3. subs'[r] = subs[r] /\ subs[r].fate = "fresh" /\ Straight(r)
      BY <1>4, <3>1, <3>2 DEF Straight
    <3>4. RefsGrow
      BY <1>10 DEF RefsGrow
    <3>5. r # Top'.sub
      BY <1>9, <2>2
    <3> QED
      BY <1>1, <1>6, <3>1, <3>2, <3>3, <3>4, <3>5, FreshStays
  <2> QED
    BY <2>1, <2>2
<1>23. OpenCode'
  <2> SUFFICES ASSUME NEW i \in 2 .. len + 1
               PROVE  LET loc == subs'[open'[i].sub].loc
                      IN  loc \in chunk'.entry .. Here' - 1 /\ chunk'.code[loc + 1].op = "ENTER"
    BY <1>9 DEF OpenCode
  <2>1. CASE i = len + 1
    <3>1. subs'[open'[i].sub].loc = Here
      BY <1>4, <1>9, <2>1
    <3>2. chunk'.code[Here + 1].op = "ENTER"
      BY <1>5 DEF LineThenAdds
    <3> QED
      BY <1>6, <1>21, <3>1, <3>2 DEF CodeGrows
  <2>2. CASE i # len + 1
    <3>1. i \in 2 .. Len(open) /\ i \in 1 .. len
      BY <1>8, <2>2
    <3>2. PICK r \in 1 .. Known : r = open[i].sub
      BY <1>1, <3>1 DEF IInv, Opened
    <3>3. PICK loc : loc = subs[r].loc
      OBVIOUS
    <3>4. subs'[open'[i].sub].loc = loc
      BY <1>4, <1>9, <3>1, <3>2, <3>3 DEF LocsStay
    <3>5. loc \in chunk.entry .. Here - 1 /\ chunk.code[loc + 1].op = "ENTER"
      BY <1>1, <3>1, <3>2, <3>3 DEF IInv, OpenCode
    <3>6. loc + 1 \in 1 .. Here
      BY <1>21, <3>5
    <3>7. chunk'.code[loc + 1].op = "ENTER"
      BY <1>6, <3>5, <3>6 DEF CodeGrows, Grows, Here
    <3>8. loc \in chunk'.entry .. Here' - 1
      BY <1>6, <1>21, <3>5 DEF CodeGrows
    <3> QED
      BY <3>4, <3>7, <3>8
  <2> QED
    BY <2>1, <2>2
<1>24. MainCode'
  <2>1. ~ InBody'
    BY <1>9 DEF InBody
  <2>2. open'[1].part = "declarations" => calls' = << >>
    <3>1. 1 \in 1 .. len
      OBVIOUS
    <3> QED
      BY <1>1, <1>9, <1>11, <3>1 DEF IInv, MainCode
  <2> QED
    BY <2>1, <2>2 DEF MainCode
<1>25. References'
  BY <1>1, <1>2, <1>4, <1>6, <1>10, ReferencesStay
<1>26. Tagged'
  <2>1. \A i \in Here + 1 .. Here' : chunk'.code[i].tag[1] = s
    BY <1>5, <1>6 DEF LineThenAdds
  <2>2. s \in 1 .. Known' /\ subs'[s].fate = "fresh"
    BY <1>2, <1>4
  <2> QED
    BY <1>4, <1>6, <2>1, <2>2, TaggedStays
<1>27. Follows'
  BY <1>11 DEF Follows
<1>28. Keeps(chunk, chunk')
  BY <1>6, GrowingKeeps
<1> QED
  BY <1>28, <1>12, <1>14, <1>17, <1>18, <1>19, <1>20, <1>22, <1>23, <1>24, <1>25, <1>26, <1>27 DEF IInv

Has(n) == {i \in 1 .. comp.scope : tables[comp.locals[i]][n] # Undefined}
HasOpen(n) == {i \in 1 .. Len(open) : tables[open[i].sub][n] # Undefined}

LEMMA NamesAgree ==
  ASSUME IInv, Compiles, NEW n \in Names
  PROVE  FindIdentifier(n) = Visible(n)
<1>1. /\ Len(open) = comp.scope + 1 /\ comp.scope \in Nat /\ open[1].sub = 0
  BY TopIs
<1>2. \A i \in 1 .. comp.scope : comp.locals[i] = open[i + 1].sub
  BY DEF IInv, Nested
<1>3. \A i \in 1 .. comp.scope : i \in Has(n) <=> i + 1 \in HasOpen(n)
  <2> TAKE i \in 1 .. comp.scope
  <2>1. i + 1 \in 1 .. Len(open)
    BY <1>1
  <2> QED
    BY <1>2, <2>1 DEF Has, HasOpen
<1>4. \A i \in HasOpen(n) : i = 1 \/ (i - 1 \in Has(n) /\ i - 1 \in 1 .. comp.scope)
  <2> TAKE i \in HasOpen(n)
  <2>1. CASE i # 1
    <3>1. i - 1 \in 1 .. comp.scope /\ i = (i - 1) + 1
      BY <1>1, <2>1 DEF HasOpen
    <3> QED
      BY <1>3, <3>1
  <2> QED
    BY <2>1
<1>5. FindIdentifier(n) = IF Has(n) = {} THEN tables[0][n]
                          ELSE tables[comp.locals[CHOOSE i \in Has(n) : \A j \in Has(n) : j <= i]][n]
  BY DEF FindIdentifier, Has
<1>6. Visible(n) = IF HasOpen(n) = {} THEN Undefined
                   ELSE tables[open[CHOOSE i \in HasOpen(n) : \A j \in HasOpen(n) : j <= i].sub][n]
  BY DEF Visible, HasOpen
<1>7. CASE Has(n) = {}
  <2>1. \A i \in HasOpen(n) : i = 1
    BY <1>4, <1>7
  <2>2. CASE HasOpen(n) = {}
    <3>1. 1 \notin HasOpen(n) /\ 1 \in 1 .. Len(open)
      BY <1>1, <2>2
    <3>2. tables[0][n] = Undefined
      BY <1>1, <3>1 DEF HasOpen
    <3> QED
      BY <1>5, <1>6, <1>7, <2>2, <3>2
  <2>3. CASE HasOpen(n) # {}
    <3>1. 1 \in HasOpen(n)
      BY <2>1, <2>3
    <3>2. (CHOOSE i \in HasOpen(n) : \A j \in HasOpen(n) : j <= i) = 1
      BY <2>1, <3>1
    <3> QED
      BY <1>1, <1>5, <1>6, <1>7, <2>3, <3>2
  <2> QED
    BY <2>2, <2>3
<1>8. CASE Has(n) # {}
  <2>1. Has(n) \subseteq 1 .. comp.scope
    BY DEF Has
  <2>2. HasMax(Has(n))
    BY <1>1, <1>8, <2>1, MaxOf
  <2>3. PICK k : k = CHOOSE i \in Has(n) : \A j \in Has(n) : j <= i
    OBVIOUS
  <2>4. k \in Has(n) /\ \A j \in Has(n) : j <= k
    BY <2>2, <2>3 DEF HasMax
  <2>5. k \in 1 .. comp.scope
    BY <2>1, <2>4
  <2>6. k + 1 \in HasOpen(n)
    BY <1>3, <2>4, <2>5
  <2>7. \A j \in HasOpen(n) : j \in Nat
    BY <1>1 DEF HasOpen
  <2>8. \A j \in HasOpen(n) : j <= k + 1
    <3> TAKE j \in HasOpen(n)
    <3>1. CASE j = 1
      BY <2>5, <3>1
    <3>2. CASE j - 1 \in Has(n)
      BY <2>4, <2>5, <2>7, <3>2
    <3> QED
      BY <1>4, <3>1, <3>2
  <2>9. (CHOOSE i \in HasOpen(n) : \A j \in HasOpen(n) : j <= i) = k + 1
    <3>1. \A i \in HasOpen(n) : (\A j \in HasOpen(n) : j <= i) => i = k + 1
      BY <2>5, <2>6, <2>7, <2>8
    <3> QED
      BY <2>6, <2>8, <3>1
  <2>10. Visible(n) = tables[open[k + 1].sub][n]
    BY <1>6, <2>6, <2>9
  <2>11. FindIdentifier(n) = tables[comp.locals[k]][n]
    BY <1>5, <1>8, <2>3
  <2> QED
    BY <1>2, <2>5, <2>10, <2>11
<1> QED
  BY <1>7, <1>8

LEMMA FoundIs ==
  ASSUME IInv, Compiles, NEW n \in Names
  PROVE  FindIdentifier(n) \in Entity(Known)
<1>1. tables \in [0 .. MaxSubs -> [Names -> Entity(Known)]] /\ comp.scope \in Nat
      /\ comp.scope < MaxScope /\ comp.locals \in [1 .. MaxScope -> 0 .. MaxSubs]
      /\ MaxScope \in Nat /\ MaxSubs \in Nat
  BY TopIs, SessionAssumption DEF IInv, Typed, Compiler
<1>2. FindIdentifier(n) = IF Has(n) = {} THEN tables[0][n]
                          ELSE tables[comp.locals[CHOOSE i \in Has(n) : \A j \in Has(n) : j <= i]][n]
  BY DEF FindIdentifier, Has
<1>3. CASE Has(n) = {}
  BY <1>1, <1>2, <1>3
<1>4. CASE Has(n) # {}
  <2>1. Has(n) \subseteq 1 .. comp.scope
    BY DEF Has
  <2>2. HasMax(Has(n))
    BY <1>1, <1>4, <2>1, MaxOf
  <2>3. PICK k : k = CHOOSE i \in Has(n) : \A j \in Has(n) : j <= i
    OBVIOUS
  <2>4. k \in Has(n)
    BY <2>2, <2>3 DEF HasMax
  <2>5. k \in 1 .. MaxScope
    BY <1>1, <2>1, <2>4
  <2> QED
    BY <1>1, <1>2, <1>4, <2>3, <2>5
<1> QED
  BY <1>3, <1>4

\* Unit u ends c after n calls; e goes on with the next one.
LaidToEnd(c, u, loc, n) == Laid(c.code, u, loc, n) /\ Len(c.code) = Site(loc, n + 1)
GoesOnWith(c, e, u, n) ==
  /\ Grows(c, e) /\ Len(e.code) = Len(c.code) + 2
  /\ e.code[Len(c.code) + 1].op = "CALL" /\ e.code[Len(c.code) + 1].tag = <<u, n + 1>>
NextLaidToEnd(e, u, loc, n) == Laid(e.code, u, loc, n + 1) /\ Len(e.code) = Site(loc, n + 2)

LEMMA LaidMore ==
  ASSUME NEW c, NEW e, c \in Chunk, e \in Chunk, NEW u, NEW loc \in Nat, NEW n \in Nat,
         LaidToEnd(c, u, loc, n), GoesOnWith(c, e, u, n)
  PROVE  NextLaidToEnd(e, u, loc, n)
<1> USE DEF LaidToEnd, GoesOnWith, NextLaidToEnd
<1>1. PICK m \in Nat : m = n + 1
  OBVIOUS
<1>2. Site(loc, n + 1) = loc + 3 + 2 * n /\ Site(loc, n + 2) = loc + 3 + 2 * n + 2 /\ n + 2 = m + 1
  BY <1>1 DEF Site
<1>3. Laid(e.code, u, loc, n)
  BY LaidStays
<1>4. Site(loc, m + 1) <= Len(e.code)
  BY <1>2
<1>5. \A j \in 1 .. m : j \in 1 .. n \/ j = m
  BY <1>1
<1>6. ASSUME NEW j \in 1 .. m
      PROVE  e.code[Site(loc, j) + 1].op = "CALL" /\ e.code[Site(loc, j) + 1].tag = <<u, j>>
  <2>1. CASE j \in 1 .. n
    BY <1>3, <2>1 DEF Laid
  <2>2. CASE j = m
    BY <1>1, <2>2
  <2> QED
    BY <1>5, <2>1, <2>2
<1>7. Laid(e.code, u, loc, m)
  BY <1>3, <1>4, <1>6 DEF Laid
<1> QED
  BY <1>1, <1>2, <1>7

NextSite(site, loc, cs) == site = Site(loc, Len(cs) + 1)

LEMMA NoticedMore ==
  ASSUME NEW loc, NEW S, NEW cs \in Seq(S), NEW t \in S, comp.refs \in Seq(Reference),
         NEW site, NextSite(site, loc, cs), site \in Nat, t \in 1 .. MaxSubs,
         comp'.refs = Append(comp.refs, [site |-> site, sub |-> t]),
         Noticed(loc, cs)
  PROVE  Noticed(loc, Append(cs, t))'
<1> USE DEF NextSite
<1>1. PICK n \in Nat : n = Len(comp.refs)
  OBVIOUS
<1>2. PICK r \in Reference : r = [site |-> site, sub |-> t]
  BY DEF Reference
<1>3. Len(comp'.refs) = n + 1 /\ comp'.refs[n + 1] = r /\ \A k \in 1 .. n : comp'.refs[k] = comp.refs[k]
  BY <1>1, <1>2
<1>4. PICK ds \in Seq(S) : ds = Append(cs, t)
  <2>1. Append(cs, t) \in Seq(S)
    OBVIOUS
  <2> QED
    BY <2>1
<1>5. PICK m \in Nat : m = Len(cs)
  OBVIOUS
<1>6. Len(ds) = m + 1 /\ ds[m + 1] = t /\ \A j \in 1 .. m : ds[j] = cs[j]
  BY <1>4, <1>5
<1>7. ASSUME NEW j \in 1 .. m + 1
      PROVE  \E k \in 1 .. Len(comp'.refs) : comp'.refs[k] = [site |-> Site(loc, j), sub |-> ds[j]]
  <2>1. CASE j = m + 1
    <3>1. n + 1 \in 1 .. Len(comp'.refs)
      BY <1>3
    <3> QED
      BY <1>2, <1>3, <1>5, <1>6, <2>1, <3>1
  <2>2. CASE j # m + 1
    <3>1. j \in 1 .. m
      BY <2>2
    <3>2. PICK k \in 1 .. n : comp.refs[k] = [site |-> Site(loc, j), sub |-> cs[j]]
      BY <1>1, <1>5, <3>1 DEF Noticed
    <3>3. k \in 1 .. Len(comp'.refs) /\ comp'.refs[k] = comp.refs[k]
      BY <1>3
    <3> QED
      BY <1>6, <3>1, <3>2, <3>3
  <2> QED
    BY <2>1, <2>2
<1>8. Noticed(loc, ds)'
  BY <1>6, <1>7 DEF Noticed
<1> QED
  BY <1>4, <1>8

LEMMA NotedOK ==
  ASSUME IInv, Compiles, NEW t \in 1 .. Known, Noted(t)
  PROVE  /\ subs' \in Seq(Subroutine(Known)) /\ Known' = Known /\ SubsGrow /\ LocsStay
         /\ calls' \in Seq(1 .. Known)
         /\ \A s \in 1 .. Known : subs'[s].holds = subs[s].holds
         /\ \A s \in 1 .. Known : s # Top.sub => subs'[s] = subs[s]
         /\ Top.sub = 0 => calls' = Append(calls, t)
         /\ Top.sub # 0 => calls' = calls /\ subs'[Top.sub].calls = Append(subs[Top.sub].calls, t)
<1>1. /\ Known \in Nat /\ subs \in Seq(Subroutine(Known)) /\ calls \in Seq(1 .. Known)
      /\ Len(subs) = Known
  BY DEF IInv, Typed, Known
<1>2. Top.sub # 0 => Top.sub \in 1 .. Known /\ subs[Top.sub].fate = "fresh"
  BY TopIs
<1>3. CASE Top.sub = 0
  <2>1. subs' = subs /\ calls' = Append(calls, t)
    BY <1>3 DEF Noted
  <2> QED
    BY <1>1, <1>3, <2>1, SubsStay
<1>4. CASE Top.sub # 0
  <2>1. PICK u \in 1 .. Known : u = Top.sub /\ subs[u].fate = "fresh"
    BY <1>2, <1>4
  <2>2. PICK more : more = Append(subs[u].calls, t)
    OBVIOUS
  <2>3. subs[u] \in Subroutine(Known)
    BY <1>1
  <2>4. PICK new : new = [subs[u] EXCEPT !.calls = more]
    OBVIOUS
  <2>5. more \in Seq(1 .. Known)
    BY <1>1, <2>2, <2>3 DEF Subroutine
  <2>6. /\ new \in Subroutine(Known) /\ new.calls = more /\ new.loc = subs[u].loc
        /\ new.fate = subs[u].fate /\ new.holds = subs[u].holds
    BY <2>3, <2>4, <2>5 DEF Subroutine
  <2>7. subs' = [subs EXCEPT ![u] = new] /\ calls' = calls
    BY <1>4, <2>1, <2>2, <2>4 DEF Noted
  <2>8. /\ subs' \in Seq(Subroutine(Known)) /\ Len(subs') = Known /\ subs'[u] = new
        /\ \A s \in 1 .. Known : s # u => subs'[s] = subs[s]
    BY <1>1, <2>6, <2>7
  <2>9. Known' = Known
    BY <2>8 DEF Known
  <2>10. LocsStay /\ \A s \in 1 .. Known : subs'[s].holds = subs[s].holds
    BY <1>1, <2>6, <2>8, <2>9 DEF LocsStay
  <2>11. \A s \in Known + 1 .. Known' : FALSE
    BY <1>1, <2>9
  <2>12. SubsGrow
    BY <2>1, <2>6, <2>8, <2>10, <2>11 DEF SubsGrow
  <2> QED
    BY <1>1, <1>4, <2>1, <2>2, <2>6, <2>7, <2>8, <2>9, <2>10, <2>12
<1> QED
  BY <1>3, <1>4

LEMMA NotFoundOK ==
  ASSUME IInv, NEW n \in Names, CallStmt(n), FindIdentifier(n).is # "sub"
  PROVE  IInv' /\ Keeps(chunk, chunk')
<1>1. /\ Compiles /\ Compiles' /\ Typed /\ Top.part = "body"
      /\ UNCHANGED <<mode, status, tables, open, vm, act, subs, chunk, calls>>
      /\ comp' = [comp EXCEPT !.error = TRUE]
  BY DEF IInv, CallStmt, Compiling, Compiles
<1>2. spent' \in 0 .. MaxSize /\ spent < spent'
  BY TakesOK DEF IInv, CallStmt
<1>3. comp' \in Compiler /\ SameScopes
  BY <1>1 DEF Typed, Compiler, SameScopes
<1>4. Len(open) \in Nat \ {0} /\ Top = open[Len(open)]
  BY <1>1, TopIs
<1>5. SameBlocks
  BY <1>1, <1>3, <1>4 DEF SameBlocks, InBody, Top
<1>6. CodeGrows /\ Here' = Here
  BY <1>1, KeepsGrows DEF IInv, Typed, Entries, CodeGrows, KeepsCode, Here
<1>7. Typed'
  BY <1>1, <1>2, <1>3 DEF Typed, Known
<1>8. Quiet
  BY <1>1, <1>2, <1>3, <1>5, <1>6 DEF Quiet, Typed
<1> QED
  BY <1>7, <1>8, QuietOK

LEMMA FoundOK ==
  ASSUME IInv, NEW n \in Names, CallStmt(n), FindIdentifier(n).is = "sub"
  PROVE  IInv' /\ Keeps(chunk, chunk')
<1>1. /\ Compiles /\ Compiles' /\ Typed /\ Top.part = "body" /\ Known \in Nat
      /\ UNCHANGED <<mode, status, tables, open, vm, act>>
      /\ status = "compiling" /\ Top' = Top /\ Compiling("body")
  BY DEF IInv, Typed, Known, CallStmt, Compiling, Compiles, Top
<1>2. spent' \in 0 .. MaxSize /\ spent < spent' /\ spent \in Nat /\ MaxSize \in Nat /\ MaxSubs \in Nat
  <2>1. Takes("call") /\ spent \in 0 .. MaxSize
    BY <1>1 DEF Typed, CallStmt
  <2>2. MaxSize \in Nat /\ MaxSubs \in Nat
    BY SessionAssumption
  <2> QED
    BY <1>1, <2>1, <2>2, TakesOK
<1>3. PICK t \in 1 .. Known : t = FindIdentifier(n).sub
  <2>1. FindIdentifier(n) \in Entity(Known)
    BY <1>1, FoundIs
  <2> QED
    BY <2>1 DEF CallStmt, Entity, Undefined, Other
<1>4. FindIdentifier(n) = Visible(n)
  BY <1>1, NamesAgree
<1>5. PICK u \in 0 .. Known : u = Top.sub /\ u \in 0 .. MaxSubs
  BY <1>1, CurrentScopeIs
<1>6. PICK m \in Nat : m = Len(Meant) /\ m < spent /\ m + 1 \in 0 .. MaxSize
  <2>1. Len(Meant) \in Nat /\ Len(Meant) < spent
    <3>1. CASE u = 0
      BY <1>1, <1>5, <3>1 DEF IInv, Counted, Typed, Meant
    <3>2. CASE u # 0
      <4>1. u \in 1 .. Known
        BY <1>1, <3>2
      <4>2. subs[u] \in Subroutine(Known)
        BY <1>1, <4>1 DEF Typed, Known
      <4>3. Len(subs[u].calls) \in Nat /\ Len(subs[u].calls) < spent
        BY <1>1, <4>1, <4>2 DEF IInv, Counted, Subroutine
      <4> QED
        BY <1>5, <3>2, <4>3 DEF Meant
    <3> QED
      BY <3>1, <3>2
  <2> QED
    BY <1>2, <2>1
<1>7. /\ comp' = PushReference(comp, Here, t)
      /\ chunk' = EmitCall(WriteDebugInfo(chunk), <<u, m + 1>>)
      /\ Noted(t)
  BY <1>3, <1>4, <1>5, <1>6 DEF CallStmt
<1>8. /\ chunk \in Chunk /\ Fitted(chunk) /\ chunk.entry <= Here /\ Here \in Nat /\ comp \in Compiler
      /\ chunk.entry \in Nat
  BY <1>1 DEF IInv, Typed, Entries, Here, Chunk
<1>9. PICK arg \in Int : LineThenAdds(chunk', "CALL", arg, 2, <<u, m + 1>>)
  <2>1. WriteDebugInfo(chunk).code = chunk.code
    BY <1>8, DebugInfoKeepsCode DEF KeepsCode
  <2>2. PICK arg \in Int : arg = 0 - Len(WriteDebugInfo(chunk).code) - BranchSize
    <3>1. 0 - Here - BranchSize \in Int
      BY <1>8 DEF BranchSize
    <3> QED
      BY <2>1, <3>1 DEF Here
  <2>3. chunk' = Emit(WriteDebugInfo(chunk), "CALL", arg, 2, <<u, m + 1>>)
    BY <1>7, <2>2 DEF EmitCall, BranchSize
  <2>4. <<u, m + 1>> \in Tags
    BY <1>5, <1>6, TagIs, SessionAssumption
  <2> QED
    BY <1>8, <2>3, <2>4, LineThen
<1>10. CodeGrows /\ Here' = Here + 2 /\ Fitted(chunk')
  BY <1>9, LineThenGrows
<1>11. /\ subs' \in Seq(Subroutine(Known)) /\ Known' = Known /\ SubsGrow /\ LocsStay
       /\ calls' \in Seq(1 .. Known)
       /\ \A s \in 1 .. Known : subs'[s].holds = subs[s].holds
       /\ \A s \in 1 .. Known : s # u => subs'[s] = subs[s]
       /\ u = 0 => calls' = Append(calls, t)
       /\ u # 0 => calls' = calls /\ subs'[u].calls = Append(subs[u].calls, t)
  BY <1>1, <1>5, <1>7, NotedOK
<1>12. PICK r \in Reference : r = [site |-> Here, sub |-> t]
  <2>1. t \in 1 .. MaxSubs
    BY <1>1, <1>2 DEF Typed
  <2> QED
    BY <1>8, <2>1 DEF Reference
<1>13. PICK k \in Nat : k = Len(comp.refs)
  BY <1>8 DEF Compiler
<1>14. /\ comp' \in Compiler /\ comp'.refs = Append(comp.refs, r)
       /\ comp'.scope = comp.scope /\ comp'.locals = comp.locals /\ comp'.entry = comp.entry
       /\ comp'.last = comp.last /\ comp'.error = comp.error /\ comp'.eof = comp.eof
  <2>1. comp' = [comp EXCEPT !.refs = Append(comp.refs, r)]
    BY <1>7, <1>12 DEF PushReference
  <2>2. Append(comp.refs, r) \in Seq(Reference)
    BY <1>8 DEF Compiler
  <2> QED
    BY <1>8, <2>1, <2>2 DEF Compiler
<1>15. Len(comp'.refs) = k + 1 /\ comp'.refs[k + 1] = r /\ \A j \in 1 .. k : comp'.refs[j] = comp.refs[j]
  BY <1>8, <1>13, <1>14 DEF Compiler
<1>16. ~ Between' /\ status' # "idle" /\ status' # "running"
  BY <1>1 DEF Between
<1>17. Typed'
  BY <1>1, <1>2, <1>10, <1>11, <1>14 DEF Typed, CodeGrows
<1>18. Counted'
  <2>1. Len(calls') < spent'
    <3>1. Len(calls) \in Nat /\ Len(calls) < spent
      BY <1>1 DEF IInv, Counted, Typed
    <3>2. CASE u = 0
      <4>1. Len(calls') = Len(calls) + 1
        BY <1>1, <1>11, <3>2 DEF Typed
      <4> QED
        BY <1>2, <3>1, <4>1
    <3>3. CASE u # 0
      BY <1>2, <1>11, <3>1, <3>3
    <3> QED
      BY <3>2, <3>3
  <2>2. ASSUME NEW s \in 1 .. Known PROVE Len(subs'[s].calls) < spent'
    <3>1. subs[s] \in Subroutine(Known)
      BY <1>1 DEF Typed, Known
    <3>2. Len(subs[s].calls) \in Nat /\ Len(subs[s].calls) < spent /\ subs[s].calls \in Seq(1 .. Known)
      BY <3>1, <1>1 DEF IInv, Counted, Subroutine
    <3>3. CASE s # u
      BY <1>2, <1>11, <3>2, <3>3
    <3>4. CASE s = u
      <4>1. u # 0
        BY <3>4
      <4>2. Len(Append(subs[s].calls, t)) = Len(subs[s].calls) + 1
        BY <3>2
      <4>3. subs'[u].calls = Append(subs[u].calls, t)
        BY <1>2, <1>11, <4>1
      <4>4. Len(subs'[s].calls) = Len(subs[s].calls) + 1
        BY <3>4, <4>2, <4>3
      <4>5. spent < spent' /\ spent \in Nat /\ spent' \in Nat
        BY <1>2
      <4> QED
        BY <3>2, <4>4, <4>5
    <3> QED
      BY <3>3, <3>4
  <2> QED
    BY <1>11, <2>1, <2>2 DEF Counted
<1>19. Nested'
  BY <1>1, <1>14, <1>16 DEF IInv, Nested
<1>20. Opened'
  <2> SUFFICES ASSUME NEW i \in 2 .. Len(open)
               PROVE  /\ open[i].sub \in 1 .. Known
                      /\ subs'[open[i].sub].fate = "fresh" /\ subs'[open[i].sub].loc # Invalid
                      /\ i < Len(open) => subs'[open[i].sub].holds
    BY <1>1, <1>11, <1>16 DEF Opened
  <2>1. /\ open[i].sub \in 1 .. Known
        /\ subs[open[i].sub].fate = "fresh" /\ subs[open[i].sub].loc # Invalid
        /\ i < Len(open) => subs[open[i].sub].holds
    BY <1>1 DEF IInv, Opened
  <2> QED
    BY <1>11, <2>1 DEF SubsGrow, LocsStay
<1>21. Entries'
  <2>1. comp.entry \in Nat /\ chunk.entry = comp.last /\ chunk.entry <= comp.entry /\ comp.entry <= Here
    BY <1>1, <1>8 DEF IInv, Entries, Compiler
  <2> QED
    BY <1>1, <1>10, <1>8, <1>14, <1>16, <2>1 DEF Entries, CodeGrows
<1>22. KeptCode'
  BY <1>10, <1>11, KeptCodeStays
<1>23. RefsGrow
  BY <1>13, <1>15 DEF RefsGrow
<1>30. comp.refs \in Seq(Reference) /\ comp'.refs = Append(comp.refs, [site |-> Here, sub |-> t])
       /\ t \in 1 .. MaxSubs
  BY <1>8, <1>12, <1>14 DEF Compiler, Reference
<1>24. FreshCode'
  <2> SUFFICES ASSUME NEW s \in 1 .. Known, subs'[s].fate = "fresh", Straight(s)'
               PROVE  FreshAt(s)'
    BY <1>11 DEF FreshCode
  <2>1. subs[s].fate = "fresh" /\ Straight(s) /\ subs'[s].loc = subs[s].loc
    BY <1>11 DEF Straight, SubsGrow, LocsStay
  <2>2. CASE s # u
    BY <1>1, <1>5, <1>10, <1>11, <1>23, <2>1, <2>2, FreshStays
  <2>3. CASE s = u
    <3>1. FreshAt(s)
      BY <1>1, <2>1 DEF IInv, FreshCode
    <3>2. u # 0 /\ m = CallCount(s) /\ Meant = subs[s].calls
      BY <1>5, <1>6, <2>3 DEF CallCount, Meant
    <3>3. PICK loc \in Nat : loc = subs[s].loc
      <4>1. subs[s] \in Subroutine(Known)
        BY <1>1 DEF Typed, Known
      <4> QED
        BY <4>1, <2>1 DEF Subroutine, Straight
    <3>4. PICK cs \in Seq(1 .. Known) : cs = subs[s].calls /\ m = Len(cs)
      <4>1. subs[s] \in Subroutine(Known)
        BY <1>1 DEF Typed, Known
      <4> QED
        BY <4>1, <1>6, <3>2 DEF Subroutine
    <3>5. Laid(chunk.code, u, loc, m) /\ Here = Site(loc, m + 1) /\ chunk.entry <= loc /\ Noticed(loc, cs)
      BY <1>5, <2>3, <3>1, <3>2, <3>3, <3>4 DEF FreshAt
    <3>6. Laid(chunk'.code, u, loc, m + 1) /\ Here' = Site(loc, m + 2)
      <4>1. /\ chunk' \in Chunk /\ Grows(chunk, chunk') /\ Len(chunk'.code) = Len(chunk.code) + 2
            /\ chunk'.code[Len(chunk.code) + 1].op = "CALL"
        BY <1>9, <1>10 DEF LineThenAdds, CodeGrows, Here
      <4>2. chunk'.code[Len(chunk.code) + 1].tag = <<u, m + 1>>
        <5>1. Here + 1 \in Here + 1 .. Here + 2
          BY <1>8
        <5> QED
          BY <1>9, <5>1 DEF LineThenAdds, Here
      <4> QED
        <5>1. LaidToEnd(chunk, u, loc, m)
          BY <3>5 DEF LaidToEnd, Here
        <5>2. GoesOnWith(chunk, chunk', u, m)
          BY <4>1, <4>2 DEF GoesOnWith
        <5>3. NextLaidToEnd(chunk', u, loc, m)
          BY <1>8, <4>1, <5>1, <5>2, LaidMore
        <5> QED
          BY <5>3 DEF NextLaidToEnd, Here
    <3>7. Noticed(loc, Append(cs, t))'
      <4>1. NextSite(Here, loc, cs)
        BY <3>4, <3>5 DEF NextSite
      <4> QED
        BY <1>8, <1>30, <3>4, <3>5, <4>1, NoticedMore
    <3>8. subs'[s].calls = Append(cs, t) /\ subs'[s].loc = loc
      BY <1>11, <2>1, <2>3, <3>2, <3>3, <3>4
    <3>9. CallCount(s)' = m + 1
      <4>1. Len(Append(cs, t)) = m + 1
        BY <3>4
      <4> QED
        BY <3>8, <4>1 DEF CallCount
    <3>10. chunk'.entry <= loc /\ Top'.sub = s /\ m + 1 + 1 = m + 2
      BY <1>1, <1>5, <1>10, <2>3, <3>5 DEF CodeGrows
    <3> QED
      BY <2>3, <3>6, <3>7, <3>8, <3>9, <3>10 DEF FreshAt
  <2> QED
    BY <2>2, <2>3
<1>25. OpenCode'
  <2> SUFFICES ASSUME NEW i \in 2 .. Len(open)
               PROVE  LET loc == subs'[open[i].sub].loc
                      IN  loc \in chunk'.entry .. Here' - 1 /\ chunk'.code[loc + 1].op = "ENTER"
    BY <1>1 DEF OpenCode
  <2>1. PICK loc : loc = subs[open[i].sub].loc
    OBVIOUS
  <2>2. subs'[open[i].sub].loc = loc
    BY <1>1, <1>11, <2>1 DEF IInv, Opened, LocsStay
  <2>3. loc \in chunk.entry .. Here - 1 /\ chunk.code[loc + 1].op = "ENTER"
    BY <1>1, <2>1 DEF IInv, OpenCode
  <2>4. loc + 1 \in 1 .. Here
    BY <1>8, <2>3
  <2>5. chunk'.code[loc + 1].op = "ENTER"
    BY <1>10, <2>3, <2>4 DEF CodeGrows, Grows, Here
  <2>6. loc \in chunk'.entry .. Here' - 1
    BY <1>8, <1>10, <2>3 DEF CodeGrows
  <2> QED
    BY <2>2, <2>5, <2>6
<1>26. MainCode'
  <2>1. Len(open) \in Nat \ {0} /\ Top = open[Len(open)] /\ (u = 0 <=> Len(open) = 1)
    BY <1>1, <1>5, TopIs
  <2>2. open'[1].part = "declarations" => calls' = << >>
    <3>1. CASE u = 0
      BY <1>1, <2>1, <3>1
    <3>2. CASE u # 0
      BY <1>1, <1>11, <3>2 DEF IInv, MainCode
    <3> QED
      BY <3>1, <3>2
  <2>3. ASSUME InBody'
        PROVE  /\ Laid(chunk'.code, 0, comp'.entry, Len(calls'))
               /\ Here' = Site(comp'.entry, Len(calls') + 1)
               /\ Noticed(comp.entry, calls)'
               /\ \A i \in 1 .. Here' : chunk'.code[i].tag[1] # 0 => i <= comp'.entry
    <3>1. u = 0 /\ InBody
      BY <1>1, <1>14, <2>1, <2>3 DEF InBody
    <3>2. PICK cs \in Seq(1 .. Known) : cs = calls /\ m = Len(cs) /\ calls' = Append(cs, t)
      BY <1>1, <1>5, <1>6, <1>11, <3>1 DEF Meant, Typed
    <3>3. PICK loc \in Nat : loc = comp.entry
      BY <1>8 DEF Compiler
    <3>4. /\ Laid(chunk.code, u, loc, m) /\ Here = Site(loc, m + 1) /\ Noticed(loc, cs)
          /\ \A i \in 1 .. Here : chunk.code[i].tag[1] # 0 => i <= loc
      BY <1>1, <3>1, <3>2, <3>3 DEF IInv, MainCode
    <3>6. Laid(chunk'.code, u, loc, m + 1) /\ Here' = Site(loc, m + 2)
      <4>1. /\ chunk' \in Chunk /\ Grows(chunk, chunk') /\ Len(chunk'.code) = Len(chunk.code) + 2
            /\ chunk'.code[Len(chunk.code) + 1].op = "CALL"
        BY <1>9, <1>10 DEF LineThenAdds, CodeGrows, Here
      <4>2. chunk'.code[Len(chunk.code) + 1].tag = <<u, m + 1>>
        <5>1. Here + 1 \in Here + 1 .. Here + 2
          BY <1>8
        <5> QED
          BY <1>9, <5>1 DEF LineThenAdds, Here
      <4> QED
        <5>1. LaidToEnd(chunk, u, loc, m)
          BY <3>4 DEF LaidToEnd, Here
        <5>2. GoesOnWith(chunk, chunk', u, m)
          BY <4>1, <4>2 DEF GoesOnWith
        <5>3. NextLaidToEnd(chunk', u, loc, m)
          BY <1>8, <4>1, <5>1, <5>2, LaidMore
        <5> QED
          BY <5>3 DEF NextLaidToEnd, Here
    <3>7. Noticed(loc, Append(cs, t))'
      <4>1. NextSite(Here, loc, cs)
        BY <3>2, <3>4 DEF NextSite
      <4> QED
        BY <1>8, <1>30, <3>2, <3>4, <4>1, NoticedMore
    <3>8. Len(calls') = m + 1 /\ m + 1 + 1 = m + 2 /\ comp'.entry = loc
      BY <1>14, <3>2, <3>3
    <3>9. ASSUME NEW i \in 1 .. Here', chunk'.code[i].tag[1] # 0 PROVE i <= loc
      <4>1. \A j \in Here + 1 .. Here + 2 : chunk'.code[j].tag[1] = 0
        BY <1>9, <3>1 DEF LineThenAdds
      <4>2. i \in 1 .. Here
        BY <1>8, <1>10, <3>9, <4>1
      <4>3. chunk'.code[i] = chunk.code[i]
        BY <1>9, <4>2 DEF LineThenAdds
      <4> QED
        BY <3>4, <3>9, <4>2, <4>3
    <3>10. Noticed(comp.entry, calls)'
      BY <3>2, <3>7, <3>8 DEF Noticed
    <3> QED
      BY <3>1, <3>6, <3>8, <3>9, <3>10
  <2> QED
    BY <1>1, <2>2, <2>3 DEF MainCode
<1>27. References'
  <2>1. ASSUME NEW j \in 1 .. k
        PROVE  /\ comp'.refs[j].sub \in 1 .. Known
               /\ chunk'.entry <= comp'.refs[j].site /\ comp'.refs[j].site < Here
               /\ chunk'.code[comp'.refs[j].site + 1].op = "CALL"
    <3>1. PICK site \in Nat : site = comp.refs[j].site
      <4>1. comp.refs[j] \in Reference
        BY <1>13, <1>30
      <4> QED
        BY <4>1 DEF Reference
    <3>2. /\ comp.refs[j].sub \in 1 .. Known /\ chunk.entry <= site /\ site < Here
          /\ chunk.code[site + 1].op = "CALL"
      BY <1>13, <3>1 DEF IInv, References
    <3>3. site + 1 \in 1 .. Here
      BY <1>8, <3>2
    <3>4. chunk'.code[site + 1].op = "CALL"
      BY <1>10, <3>2, <3>3 DEF CodeGrows, Grows, Here
    <3> QED
      BY <1>10, <1>15, <3>1, <3>2, <3>4 DEF CodeGrows
  <2>2. chunk'.code[Here + 1].op = "CALL"
    BY <1>9 DEF LineThenAdds
  <2>3. \A j \in 1 .. k + 1 : j \in 1 .. k \/ j = k + 1
    OBVIOUS
  <2>4. ASSUME NEW j \in 1 .. k + 1
        PROVE  /\ comp'.refs[j].sub \in 1 .. Known
               /\ chunk'.entry <= comp'.refs[j].site /\ comp'.refs[j].site < Here'
               /\ chunk'.code[comp'.refs[j].site + 1].op = "CALL"
    <3>1. CASE j = k + 1
      <4>1. comp'.refs[j].site = Here /\ comp'.refs[j].sub = t
        BY <1>12, <1>15, <3>1
      <4> QED
        BY <1>8, <1>10, <2>2, <4>1 DEF CodeGrows
    <3>2. CASE j \in 1 .. k
      <4>1. comp'.refs[j].site \in Nat
        <5>1. comp.refs[j] \in Reference
          BY <1>13, <1>30, <3>2
        <5> QED
          BY <1>15, <3>2, <5>1 DEF Reference
      <4> QED
        BY <1>8, <1>10, <2>1, <3>2, <4>1
    <3> QED
      BY <2>3, <3>1, <3>2
  <2>5. ASSUME NEW i \in 1 .. k + 1, NEW j \in 1 .. k + 1, comp'.refs[i].site = comp'.refs[j].site
        PROVE  i = j
    <3>1. CASE i \in 1 .. k /\ j \in 1 .. k
      BY <1>13, <1>15, <2>5, <3>1 DEF IInv, References
    <3>2. CASE i = k + 1 /\ j \in 1 .. k
      BY <1>8, <1>12, <1>15, <2>1, <2>5, <3>2
    <3>3. CASE i \in 1 .. k /\ j = k + 1
      BY <1>8, <1>12, <1>15, <2>1, <2>5, <3>3
    <3> QED
      BY <2>3, <3>1, <3>2, <3>3
  <2> QED
    BY <1>11, <1>15, <2>4, <2>5 DEF References
<1>28. Tagged'
  <2>1. \A i \in Here + 1 .. Here' : chunk'.code[i].tag[1] = u
    BY <1>9, <1>10 DEF LineThenAdds
  <2>2. u # 0 => u \in 1 .. Known' /\ subs'[u].fate = "fresh"
    BY <1>1, <1>5, <1>11, TopIs DEF SubsGrow
  <2> QED
    BY <1>10, <1>11, <2>1, <2>2, TaggedStays
<1>29. Follows'
  BY <1>16 DEF Follows
<1>31. Keeps(chunk, chunk')
  BY <1>10, GrowingKeeps
<1> QED
  BY <1>31, <1>17, <1>18, <1>19, <1>20, <1>21, <1>22, <1>24, <1>25, <1>26, <1>27, <1>28, <1>29 DEF IInv

\* Code that has been patched, then a line, then an instruction of size words.
PatchedThenAdds(e, op, size, tag) ==
  /\ e \in Chunk /\ Fitted(e) /\ Grows(chunk, e) /\ e.entry = chunk.entry
  /\ Len(e.code) = Here + size /\ e.code[Here + 1].op = op
  /\ \A i \in Here + 1 .. Here + size : e.code[i].tag = tag

LEMMA PatchedThen ==
  ASSUME IInv, NEW c, c \in Chunk, Len(c.code) = Here, c.entry = chunk.entry, Fitted(c), Grows(chunk, c),
         NEW op \in {"ENTER", "CALL", "EXIT"}, NEW arg \in Int, NEW size \in Nat \ {0},
         NEW tag \in Tags, NEW e, e = Emit(WriteDebugInfo(c), op, arg, size, tag)
  PROVE  PatchedThenAdds(e, op, size, tag)
<1>1. chunk.entry <= Here /\ Here \in Nat /\ c.entry <= Len(c.code) /\ chunk \in Chunk
  BY DEF IInv, Entries, Typed, Chunk, Here
<1>2. PICK d : d = WriteDebugInfo(c)
  OBVIOUS
<1>3. /\ d \in Chunk /\ d.code = c.code /\ d.entry = c.entry /\ Fitted(d)
  BY <1>2, DebugInfoKeepsCode DEF KeepsCode, Fitted
<1>5. Adds(d, e, op, arg, size, tag)
  BY <1>2, <1>3, EmitAdds
<1>6. e \in Chunk /\ Fitted(e) /\ Grows(d, e) /\ e.entry = d.entry /\ Len(e.code) = Len(d.code) + size
  BY <1>1, <1>3, <1>5, AddsFits
<1>7. Grows(chunk, d)
  BY <1>3 DEF Grows
<1>8. Grows(chunk, e)
  BY <1>1, <1>3, <1>6, <1>7, GrowsTwice DEF Here
<1>9. /\ Len(e.code) = Here + size /\ e.code[Here + 1].op = op
      /\ \A i \in Here + 1 .. Here + size : e.code[i].tag = tag
  BY <1>1, <1>3, <1>5 DEF Adds
<1> QED
  BY <1>3, <1>6, <1>8, <1>9 DEF PatchedThenAdds

\* e goes on with the EXIT of u.
ExitsWith(c, e, u, n) ==
  /\ Grows(c, e) /\ Len(c.code) < Len(e.code)
  /\ e.code[Len(c.code) + 1].op = "EXIT" /\ e.code[Len(c.code) + 1].tag = <<u, n + 1>>

LEMMA LaidEnded ==
  ASSUME NEW c, NEW e, c \in Chunk, e \in Chunk, NEW u, NEW loc \in Nat, NEW n \in Nat,
         LaidToEnd(c, u, loc, n), ExitsWith(c, e, u, n)
  PROVE  Ended(e.code, u, loc, n)
<1>1. Laid(e.code, u, loc, n)
  BY LaidStays DEF LaidToEnd, ExitsWith
<1> QED
  BY <1>1 DEF LaidToEnd, ExitsWith, Ended

LEMMA OuterOK ==
  ASSUME IInv, Compiles, Len(open) > 1, open' = Outer(open)
  PROVE  /\ open' \in Seq(Open) /\ Len(open') = Len(open) - 1
         /\ Top' = open'[Len(open) - 1]
         /\ \A i \in 1 .. Len(open) - 1 : open'[i].sub = open[i].sub /\ open'[i].stack = open[i].stack
         /\ \A i \in 1 .. Len(open) - 2 : open'[i] = open[i]
         /\ Top'.part = IF comp.eof THEN "over" ELSE "declarations"
<1>1. PICK n \in Nat : n = Len(open) - 1 /\ n = comp.scope /\ n # 0 /\ open \in Seq(Open)
                       /\ Len(open) = n + 1
  BY TopIs DEF IInv, Typed
<1>2. PICK o \in Seq(Open) : o = Front(open)
  <2>1. Front(open) \in Seq(Open)
    <3>1. Front(open) = SubSeq(open, 1, n)
      BY <1>1 DEF Front
    <3>4. (\A i \in 1 .. n : i \in 1 .. Len(open)) /\ open \in Seq(Open)
      BY <1>1
    <3>2. \A i \in 1 .. n : open[i] \in Open
      BY <3>4
    <3>3. SubSeq(open, 1, n) \in Seq(Open)
      BY <3>2, SubSeqProperties
    <3> QED
      BY <3>1, <3>3
  <2> QED
    BY <2>1
<1>3. Len(o) = n /\ o # << >> /\ \A i \in 1 .. n : o[i] = open[i]
  <2>1. o = SubSeq(open, 1, n)
    BY <1>1, <1>2 DEF Front
  <2>2. Len(o) = n /\ \A i \in 1 .. n : o[i] = open[i]
    BY <1>1, <2>1
  <2> QED
    BY <1>1, <2>2
<1>4. open[n].part = "declarations"
  BY <1>1 DEF IInv, Nested
<1>5. PICK part \in {"declarations", "body", "over"} :
        part = IF comp.eof THEN "over" ELSE "declarations"
  OBVIOUS
<1>6. open' = GoesTo(o, part)
  <2>1. o[n].part = "declarations"
    BY <1>1, <1>3, <1>4
  <2>2. open' = [o EXCEPT ![n].part = IF comp.eof THEN "over" ELSE @]
    BY <1>1, <1>2 DEF Outer
  <2>3. open' = [o EXCEPT ![n].part = part]
    BY <1>5, <2>1, <2>2
  <2> QED
    BY <1>3, <2>3 DEF GoesTo
<1>7. /\ open' \in Seq(Open) /\ Len(open') = n /\ open'[n].part = part
      /\ \A i \in 1 .. n : open'[i].sub = o[i].sub /\ open'[i].stack = o[i].stack
      /\ \A i \in 1 .. n - 1 : open'[i] = o[i]
  <2>1. PICK p : p = GoesTo(o, part)
    OBVIOUS
  <2>2. /\ p \in Seq(Open) /\ Len(p) = Len(o) /\ p[Len(o)].part = part
        /\ \A i \in 1 .. Len(o) : p[i].sub = o[i].sub /\ p[i].stack = o[i].stack
        /\ \A i \in 1 .. Len(o) - 1 : p[i] = o[i]
    BY <1>3, <2>1, GoesToOK
  <2> QED
    BY <1>3, <1>6, <2>1, <2>2
<1>8. \A i \in 1 .. Len(open) - 2 : i \in 1 .. n - 1 /\ i \in 1 .. n
  BY <1>1
<1>9. Top' = open'[n]
  BY <1>7 DEF Top, Last
<1> QED
  BY <1>1, <1>3, <1>5, <1>7, <1>8, <1>9

LEMMA EndSubroutineOK ==
  ASSUME IInv, EndSubroutine
  PROVE  IInv' /\ Keeps(chunk, chunk')
<1>1. /\ Compiles /\ Compiles' /\ Typed /\ Known \in Nat /\ Known' = Known
      /\ UNCHANGED <<mode, status, subs, tables, calls, vm, act, spent>>
      /\ status = "compiling" /\ Top.part = "over"
  BY DEF IInv, Typed, Known, EndSubroutine, Compiling, Compiles
<1>2. PICK n \in Nat : n = comp.scope /\ n # 0 /\ Len(open) = n + 1 /\ Top = open[n + 1] /\ n < MaxScope
  BY <1>1, TopIs DEF EndSubroutine
<1>3. PICK s \in 1 .. Known : s = Top.sub /\ s # 0 /\ s \in 0 .. MaxSubs
  <2>1. Top.sub # 0 /\ MaxSubs \in Nat
    <3>1. Len(open) # 1
      BY <1>2
    <3> QED
      BY <1>1, <3>1, TopIs, SessionAssumption
  <2>2. Top.sub \in 1 .. Known
    BY <1>1, <2>1, TopIs
  <2>3. Top.sub \in 0 .. MaxSubs
    BY <2>2, Sizes
  <2> QED
    BY <2>1, <2>2, <2>3
<1>4. /\ chunk \in Chunk /\ Fitted(chunk) /\ chunk.entry <= Here /\ Here \in Nat /\ comp \in Compiler
      /\ chunk.entry \in Nat /\ subs[s] \in Subroutine(Known) /\ open \in Seq(Open)
  <2>1. open \in Seq(Open) /\ subs[s] \in Subroutine(Known)
    BY DEF IInv, Typed, Known
  <2> QED
    BY <2>1, Sizes
<1>5. PICK loc \in Nat : /\ loc = subs[s].loc /\ chunk.entry <= loc /\ loc < Here
                         /\ chunk.code[loc + 1].op = "ENTER"
  <2>1. n + 1 \in 2 .. Len(open)
    BY <1>2
  <2>2. subs[s].loc \in chunk.entry .. Here - 1 /\ chunk.code[subs[s].loc + 1].op = "ENTER"
    BY <1>1, <1>2, <1>3, <2>1 DEF IInv, OpenCode
  <2>3. subs[s].loc \in Nat /\ chunk.entry <= subs[s].loc /\ subs[s].loc < Here
    BY <1>4, <2>2
  <2> QED
    BY <2>2, <2>3
<1>6. PICK m \in Nat : m = CallCount(s) /\ m + 1 \in 0 .. MaxSize
  <2>1. CallCount(s) \in Nat
    BY <1>4 DEF CallCount, Subroutine
  <2>2. CallCount(s) < spent
    BY DEF IInv, Counted, CallCount
  <2>3. spent \in 0 .. MaxSize /\ MaxSize \in Nat
    BY Sizes
  <2>4. PICK m \in Nat : m = CallCount(s) /\ m + 1 \in 0 .. MaxSize
    BY <2>1, <2>2, <2>3
  <2> QED
    BY <2>4
<1>7. PICK p : p = PatchEnter(chunk, loc, comp.stack)
  OBVIOUS
<1>8. p \in Chunk /\ Len(p.code) = Here /\ p.entry = chunk.entry /\ Fitted(p) /\ Grows(chunk, p)
  <2>1. Patches(chunk, p, Others(loc))
    BY <1>4, <1>5, <1>7, PatchEnterPatches DEF Here, Compiler
  <2>2. Grows(chunk, p)
    BY <1>4, <1>5, <2>1, PatchesGrows DEF Here
  <2> QED
    BY <1>4, <2>1, <2>2 DEF Patches, Fitted, Here
<1>9. chunk' = Emit(WriteDebugInfo(p), "EXIT", 0, 1, <<s, m + 1>>)
  BY <1>3, <1>5, <1>6, <1>7 DEF EndSubroutine, EmitExit, CallCount
<1>10. /\ chunk' \in Chunk /\ Fitted(chunk') /\ CodeGrows /\ Here' = Here + 1
       /\ chunk'.code[Here + 1].op = "EXIT" /\ chunk'.code[Here + 1].tag = <<s, m + 1>>
  <2>1. <<s, m + 1>> \in Tags
    BY <1>3, <1>6, TagIs, SessionAssumption
  <2>2. /\ chunk' \in Chunk /\ Fitted(chunk') /\ Grows(chunk, chunk') /\ chunk'.entry = chunk.entry
        /\ Len(chunk'.code) = Here + 1 /\ chunk'.code[Here + 1].op = "EXIT"
        /\ \A i \in Here + 1 .. Here + 1 : chunk'.code[i].tag = <<s, m + 1>>
    <3>1. PatchedThenAdds(chunk', "EXIT", 1, <<s, m + 1>>)
      BY <1>8, <1>9, <2>1, PatchedThen
    <3> QED
      BY <3>1 DEF PatchedThenAdds, Here
  <2>3. Here + 1 \in Here + 1 .. Here + 1
    BY <1>4
  <2> QED
    BY <2>2, <2>3 DEF CodeGrows, Here
<1>11. /\ open' \in Seq(Open) /\ Len(open') = n /\ Top' = open'[n]
       /\ \A i \in 1 .. n : open'[i].sub = open[i].sub
       /\ \A i \in 1 .. n - 1 : open'[i] = open[i]
       /\ Top'.part = IF comp.eof THEN "over" ELSE "declarations"
  <2>1. open' = Outer(open) /\ Len(open) > 1 /\ Len(open) - 1 = n /\ Len(open) - 2 = n - 1
    BY <1>2 DEF EndSubroutine
  <2> QED
    BY <1>1, <2>1, OuterOK
<1>12. /\ comp' \in Compiler /\ comp'.scope = n - 1 /\ comp'.locals = comp.locals
       /\ comp'.refs = comp.refs /\ comp'.entry = comp.entry /\ comp'.last = comp.last
       /\ comp'.error = comp.error /\ comp'.eof = comp.eof
  <2>1. PICK scope \in 0 .. MaxScope - 1 : scope = n - 1
    <3>1. MaxScope \in Nat /\ n \in Nat /\ n # 0 /\ comp.scope = n /\ comp.scope < MaxScope
      BY <1>2, Sizes
    <3>2. n - 1 \in 0 .. MaxScope - 1
      BY <3>1
    <3> QED
      BY <3>2
  <2>2. PICK stack \in Nat : stack = Top.stack
    BY <1>1, TopIs DEF Open
  <2>3. comp' = [[comp EXCEPT !.scope = scope] EXCEPT !.stack = stack]
    BY <1>2, <2>1, <2>2 DEF EndSubroutine, PopSubroutine
  <2> QED
    BY <1>4, <2>1, <2>2, <2>3 DEF Compiler
<1>13. ~ Between' /\ status' # "idle" /\ status' # "running"
  BY <1>1 DEF Between
<1>14. SubsGrow /\ LocsStay
  BY <1>1, SubsStay
<1>15. comp.eof => comp.error
  BY <1>1 DEF IInv, Nested
<1>16. Typed'
  BY <1>1, <1>10, <1>11, <1>12 DEF Typed
<1>17. Counted'
  BY <1>1 DEF IInv, Counted
<1>18. Nested'
  <2>1. open'[1].sub = 0
    <3>1. 1 \in 1 .. n /\ open[1].sub = 0
      BY <1>1, <1>2, TopIs
    <3> QED
      BY <1>11, <3>1
  <2>2. ASSUME NEW i \in 1 .. n - 1 PROVE comp'.locals[i] = open'[i + 1].sub /\ open'[i].part = "declarations"
    <3>1. i \in 1 .. comp.scope /\ i + 1 \in 1 .. n
      BY <1>2
    <3>2. comp.locals[i] = open[i + 1].sub /\ open[i].part = "declarations"
      BY <1>1, <3>1 DEF IInv, Nested
    <3> QED
      BY <1>11, <1>12, <3>1, <3>2
  <2>3. ASSUME NEW i \in 1 .. n, NEW j \in 1 .. n, open'[i].sub = open'[j].sub
        PROVE  i = j
    <3>1. open[i].sub = open[j].sub /\ i \in 1 .. Len(open) /\ j \in 1 .. Len(open)
      BY <1>2, <1>11, <2>3
    <3> QED
      BY <1>1, <3>1 DEF IInv, Nested
  <2> QED
    BY <1>2, <1>11, <1>12, <1>13, <1>15, <2>1, <2>2, <2>3 DEF Nested
<1>19. \A i \in 2 .. n : i \in 2 .. Len(open) /\ i < Len(open) /\ i \in 1 .. n
  BY <1>2
<1>20. Opened'
  <2> SUFFICES ASSUME NEW i \in 2 .. n
               PROVE  /\ open'[i].sub \in 1 .. Known
                      /\ subs[open'[i].sub].fate = "fresh" /\ subs[open'[i].sub].loc # Invalid
                      /\ i < n => subs[open'[i].sub].holds
    BY <1>1, <1>11, <1>13 DEF Opened
  <2>1. open'[i].sub = open[i].sub
    BY <1>11, <1>19
  <2> QED
    BY <1>1, <1>19, <2>1 DEF IInv, Opened
<1>21. Entries'
  <2>1. comp.entry \in Nat /\ chunk.entry = comp.last /\ chunk.entry <= comp.entry /\ comp.entry <= Here
    BY <1>1, <1>4 DEF IInv, Entries, Compiler
  <2> QED
    BY <1>4, <1>10, <1>12, <1>13, <2>1 DEF Entries, CodeGrows
<1>22. KeptCode'
  BY <1>10, <1>14, KeptCodeStays
<1>23. RefsGrow
  BY <1>12 DEF RefsGrow
<1>24. FreshCode'
  <2> SUFFICES ASSUME NEW r \in 1 .. Known, subs[r].fate = "fresh", Straight(r)
               PROVE  FreshAt(r)'
    BY <1>1 DEF FreshCode, Straight
  <2>1. r # Top'.sub
    <3>1. CASE n = 1
      BY <1>1, <1>11, TopIs, <3>1
    <3>2. CASE n # 1
      <4>1. n \in 2 .. Len(open) /\ n < Len(open) /\ n \in 1 .. n
        BY <1>2, <3>2
      <4>2. subs[open[n].sub].holds
        BY <1>1, <4>1 DEF IInv, Opened
      <4>3. Top'.sub = open[n].sub
        BY <1>11, <4>1
      <4> QED
        BY <4>2, <4>3 DEF Straight
    <3> QED
      BY <3>1, <3>2
  <2>2. CASE r # s
    BY <1>1, <1>3, <1>10, <1>23, <2>1, <2>2, FreshStays
  <2>3. CASE r = s
    <3>1. FreshAt(s)
      BY <1>1, <2>3 DEF IInv, FreshCode
    <3>2. LaidToEnd(chunk, s, loc, m) /\ chunk.entry <= loc /\ Noticed(loc, subs[s].calls)
      BY <1>3, <1>5, <1>6, <3>1 DEF FreshAt, LaidToEnd, Here
    <3>3. ExitsWith(chunk, chunk', s, m)
      BY <1>4, <1>10 DEF ExitsWith, CodeGrows, Here
    <3>4. Ended(chunk'.code, s, loc, m)
      BY <1>4, <1>10, <3>2, <3>3, LaidEnded
    <3>5. PICK cs : cs = subs[s].calls
      OBVIOUS
    <3>6. Noticed(loc, cs)'
      BY <1>23, <3>2, <3>5, NoticedStays
    <3>7. subs'[s].loc = loc /\ subs'[s].calls = cs /\ CallCount(s)' = m
      BY <1>1, <1>5, <1>6, <3>5 DEF CallCount
    <3> QED
      BY <1>10, <2>1, <2>3, <3>2, <3>4, <3>6, <3>7 DEF FreshAt, CodeGrows
  <2> QED
    BY <2>2, <2>3
<1>25. OpenCode'
  <2> SUFFICES ASSUME NEW i \in 2 .. n
               PROVE  LET l == subs[open'[i].sub].loc
                      IN  l \in chunk'.entry .. Here' - 1 /\ chunk'.code[l + 1].op = "ENTER"
    BY <1>1, <1>11 DEF OpenCode
  <2>1. PICK l : l = subs[open[i].sub].loc /\ l = subs[open'[i].sub].loc
    BY <1>11, <1>19
  <2>2. l \in chunk.entry .. Here - 1 /\ chunk.code[l + 1].op = "ENTER"
    BY <1>1, <1>19, <2>1 DEF IInv, OpenCode
  <2>3. l + 1 \in 1 .. Here
    BY <1>4, <2>2
  <2>4. chunk'.code[l + 1].op = "ENTER"
    BY <1>10, <2>2, <2>3 DEF CodeGrows, Grows, Here
  <2>5. l \in chunk'.entry .. Here' - 1
    BY <1>4, <1>10, <2>2 DEF CodeGrows
  <2> QED
    BY <2>1, <2>4, <2>5
<1>26. MainCode'
  <2>1. ~ InBody'
    BY <1>11, <1>12, <1>15 DEF InBody
  <2>2. calls' = << >>
    <3>1. 1 \in 1 .. comp.scope
      BY <1>2
    <3> QED
      BY <1>1, <3>1 DEF IInv, Nested, MainCode
  <2> QED
    BY <2>1, <2>2 DEF MainCode
<1>27. References'
  BY <1>1, <1>10, <1>12, ReferencesStay
<1>28. Tagged'
  <2>1. \A i \in Here + 1 .. Here' : i = Here + 1
    BY <1>4, <1>10
  <2>2. chunk'.code[Here + 1].tag[1] = s
    BY <1>10
  <2>3. s \in 1 .. Known' /\ subs'[s].fate = "fresh"
    BY <1>1, <1>3, TopIs
  <2> QED
    BY <1>10, <1>14, <2>1, <2>2, <2>3, TaggedStays
<1>29. Follows'
  BY <1>13 DEF Follows
<1>30. Keeps(chunk, chunk')
  BY <1>10, GrowingKeeps
<1> QED
  BY <1>30, <1>16, <1>17, <1>18, <1>20, <1>21, <1>22, <1>24, <1>25, <1>26, <1>27, <1>28, <1>29 DEF IInv

\* The calls at the sites that are noticed lead to their subroutines.
Resolved(r) ==
  \A k \in 1 .. Len(comp.refs) :
    ArgAt(r, comp.refs[k].site) = subs[comp.refs[k].sub].loc - comp.refs[k].site - BranchSize

LEMMA ResolveOK ==
  ASSUME IInv
  PROVE  LET r == Resolve(chunk)
         IN  /\ r \in Chunk /\ Len(r.code) = Here /\ r.entry = chunk.entry /\ Fitted(r)
             /\ Grows(chunk, r) /\ Resolved(r)
<1>1. /\ chunk \in Chunk /\ Fitted(chunk) /\ chunk.entry <= Here /\ Here \in Nat /\ Known \in Nat
      /\ chunk.entry \in Nat /\ comp.refs \in Seq(Reference) /\ chunk.code \in Seq(Words)
      /\ Len(chunk.code) = Here /\ DOMAIN chunk.code = 1 .. Here
  BY Sizes
<1>2. PICK m \in Nat : m = Len(comp.refs) /\ DOMAIN comp.refs = 1 .. m
  BY <1>1
<1>3. ASSUME NEW k \in 1 .. m
      PROVE  /\ comp.refs[k].site \in Nat /\ chunk.entry <= comp.refs[k].site /\ comp.refs[k].site < Here
             /\ subs[comp.refs[k].sub].loc \in Int
  <2>1. comp.refs[k] \in Reference
    BY <1>1, <1>2
  <2>2. comp.refs[k].sub \in 1 .. Known
    BY <1>2 DEF IInv, References
  <2>3. subs[comp.refs[k].sub] \in Subroutine(Known)
    BY <2>2 DEF IInv, Typed, Known
  <2> QED
    BY <1>2, <2>1, <2>3 DEF IInv, References, Reference, Subroutine, Invalid
<1> DEFINE refs(i) == {k \in 1 .. m : comp.refs[k].site = i - 1}
           target(i) == subs[comp.refs[CHOOSE k \in refs(i) : TRUE].sub].loc
           patched(i) == PatchBranch(chunk, i - 1, target(i)).code[i]
           code == [i \in 1 .. Here |-> IF refs(i) = {} THEN chunk.code[i] ELSE patched(i)]
<1>4. Resolve(chunk) = [chunk EXCEPT !.code = code]
  BY <1>1, <1>2 DEF Resolve
<1>5. ASSUME NEW i \in 1 .. Here, refs(i) # {}
      PROVE  /\ patched(i) \in Words /\ patched(i).op = chunk.code[i].op
             /\ patched(i).tag = chunk.code[i].tag
             /\ patched(i).arg = target(i) - (i - 1) - BranchSize
             /\ chunk.entry < i /\ target(i) \in Int
  <2>1. PICK k : k = CHOOSE l \in refs(i) : TRUE
    OBVIOUS
  <2>2. k \in 1 .. m /\ comp.refs[k].site = i - 1
    BY <1>5, <2>1
  <2>3. target(i) = subs[comp.refs[k].sub].loc
    BY <2>1
  <2>4. PICK to \in Int : to = target(i)
    BY <1>3, <2>2, <2>3
  <2>5. PICK at \in Nat : at = i - 1 /\ at + 1 = i /\ at < Here /\ chunk.entry <= at
    BY <1>3, <2>2
  <2>6. PICK e : e = PatchBranch(chunk, at, to)
    OBVIOUS
  <2>7. Patches(chunk, e, Others(at)) /\ ArgAt(e, at) = to - at - BranchSize
    BY <1>1, <2>5, <2>6, PatchBranchPatches
  <2>8. e.code[i] \in Words /\ e.code[i].op = chunk.code[i].op /\ e.code[i].tag = chunk.code[i].tag
        /\ e.code[i].arg = to - at - BranchSize
    <3>1. e.code \in Seq(Words) /\ i \in 1 .. Len(e.code)
      BY <1>1, <2>7 DEF Patches, Chunk
    <3>2. e.code[i] \in Words
      BY <3>1
    <3> QED
      BY <1>1, <2>5, <2>7, <3>2 DEF Patches, ArgAt
  <2>9. patched(i) = e.code[i]
    BY <2>4, <2>5, <2>6
  <2>10. chunk.entry < i
    BY <1>1, <2>5
  <2> HIDE DEF patched, target
  <2> QED
    BY <2>4, <2>5, <2>8, <2>9, <2>10
<1>6. \A i \in 1 .. Here : code[i] = IF refs(i) = {} THEN chunk.code[i] ELSE patched(i)
  OBVIOUS
<1>7. code \in Seq(Words) /\ Len(code) = Here
  <2>1. \A i \in 1 .. Here : chunk.code[i] \in Words
    BY <1>1
  <2>2. code \in [1 .. Here -> Words]
    <3> HIDE DEF refs, patched
    <3> QED
      BY <1>5, <2>1
  <2> HIDE DEF code
  <2> QED
    BY <1>1, <2>2
<1> HIDE DEF code, patched
<1>8. PICK r : r = [chunk EXCEPT !.code = code]
  OBVIOUS
<1>9. r \in Chunk /\ r.code = code /\ r.entry = chunk.entry /\ r.count = chunk.count /\ r.cap = chunk.cap
  BY <1>1, <1>7, <1>8, WithCode
<1>10. Grows(chunk, r)
  <2>1. ASSUME NEW i \in 1 .. Here
        PROVE  code[i].op = chunk.code[i].op /\ code[i].tag = chunk.code[i].tag
    BY <1>5, <1>6
  <2>2. ASSUME NEW i \in 1 .. chunk.entry PROVE code[i] = chunk.code[i]
    <3>1. i \in 1 .. Here /\ ~ (chunk.entry < i)
      BY <1>1
    <3> QED
      BY <1>5, <1>6, <3>1
  <2> QED
    BY <1>1, <1>7, <1>9, <2>1, <2>2 DEF Grows
<1>11. Resolved(r)
  <2> SUFFICES ASSUME NEW k \in 1 .. m
               PROVE  ArgAt(r, comp.refs[k].site) =
                        subs[comp.refs[k].sub].loc - comp.refs[k].site - BranchSize
    BY <1>2 DEF Resolved
  <2>1. PICK site \in Nat : site = comp.refs[k].site /\ site + 1 \in 1 .. Here /\ (site + 1) - 1 = site
    <3>1. PICK site \in Nat : site = comp.refs[k].site /\ site < Here
      BY <1>3
    <3>2. site + 1 \in 1 .. Here /\ (site + 1) - 1 = site
      BY <1>1, <3>1
    <3> QED
      BY <3>1, <3>2
  <2>2. PICK i \in 1 .. Here : i = site + 1 /\ i - 1 = site
    BY <2>1
  <2>3. k \in refs(i)
    BY <2>1, <2>2
  <2>4. \A l \in refs(i) : l = k
    <3>1. \A l \in 1 .. m : comp.refs[l].site = comp.refs[k].site => l = k
      BY <1>2 DEF IInv, References
    <3> QED
      BY <2>1, <2>2, <3>1
  <2>5. (CHOOSE l \in refs(i) : TRUE) = k
    BY <2>3, <2>4
  <2>6. target(i) = subs[comp.refs[k].sub].loc
    BY <2>5
  <2>7. code[i].arg = target(i) - site - BranchSize
    <3>1. refs(i) # {}
      BY <2>3
    <3> HIDE DEF refs, target
    <3> QED
      BY <1>5, <1>6, <2>2, <3>1
  <2> HIDE DEF target, refs
  <2> QED
    BY <1>9, <2>1, <2>2, <2>6, <2>7 DEF ArgAt
<1> QED
  BY <1>1, <1>4, <1>7, <1>8, <1>9, <1>10, <1>11 DEF Fitted

LEMMA SettledOK ==
  ASSUME IInv, NEW fate \in {"lost", "kept"}, subs' = Settled(fate)
  PROVE  /\ subs' \in Seq(Subroutine(Known)) /\ Known' = Known /\ LocsStay /\ DOMAIN subs' = DOMAIN subs
         /\ \A s \in 1 .. Known : /\ subs'[s].loc = subs[s].loc /\ subs'[s].calls = subs[s].calls
                                  /\ subs'[s].holds = subs[s].holds
                                  /\ subs'[s].fate = IF subs[s].fate = "fresh" THEN fate ELSE subs[s].fate
<1>1. Known \in Nat /\ subs \in Seq(Subroutine(Known)) /\ DOMAIN subs = 1 .. Known /\ Len(subs) = Known
  BY DEF IInv, Typed, Known
<1> DEFINE new(s) == [subs[s] EXCEPT !.fate = fate]
<1>2. ASSUME NEW s \in 1 .. Known
      PROVE  /\ new(s) \in Subroutine(Known) /\ new(s).loc = subs[s].loc /\ new(s).calls = subs[s].calls
             /\ new(s).holds = subs[s].holds /\ new(s).fate = fate
  <2>1. subs[s] \in Subroutine(Known)
    BY <1>1
  <2> QED
    BY <2>1 DEF Subroutine
<1>3. subs' = [s \in 1 .. Known |-> IF subs[s].fate = "fresh" THEN new(s) ELSE subs[s]]
  BY <1>1 DEF Settled
<1> HIDE DEF new
<1>4. subs' \in [1 .. Known -> Subroutine(Known)]
  <2>1. \A s \in 1 .. Known : subs[s] \in Subroutine(Known)
    BY <1>1
  <2> QED
    BY <1>2, <1>3, <2>1
<1>5. subs' \in Seq(Subroutine(Known)) /\ DOMAIN subs' = 1 .. Known /\ Len(subs') = Known
  BY <1>1, <1>4
<1>6. \A s \in 1 .. Known : /\ subs'[s].loc = subs[s].loc /\ subs'[s].calls = subs[s].calls
                            /\ subs'[s].holds = subs[s].holds
                            /\ subs'[s].fate = IF subs[s].fate = "fresh" THEN fate ELSE subs[s].fate
  BY <1>2, <1>3
<1>7. Known' = Known
  BY <1>5 DEF Known
<1> QED
  BY <1>1, <1>5, <1>6, <1>7 DEF LocsStay

LEMMA ReachStays ==
  ASSUME DOMAIN subs' = DOMAIN subs, \A s \in DOMAIN subs : subs'[s].calls = subs[s].calls,
         calls' = calls
  PROVE  Reach(calls)' = Reach(calls)
<1>1. \A set \in SUBSET DOMAIN subs : Closed(set)' = Closed(set)
  BY DEF Closed
<1> QED
  BY <1>1 DEF Reach

SameWords(r) == \A i \in 1 .. Here : chunk'.code[i] = r.code[i]

LEMMA NoticedLinked ==
  ASSUME IInv, NEW r, Resolved(r), SameWords(r), LocsStay, NEW loc, NEW cs \in Seq(1 .. Known),
         Noticed(loc, cs)
  PROVE  Linked(chunk, loc, cs)'
<1>1. Known \in Nat /\ Here \in Nat /\ comp.refs \in Seq(Reference)
  BY Sizes
<1>2. SUFFICES ASSUME NEW j \in 1 .. Len(cs)
               PROVE  ArgAt(chunk', Site(loc, j)) = subs'[cs[j]].loc - Site(loc, j) - BranchSize
  BY DEF Linked
<1>3. PICK k \in 1 .. Len(comp.refs) : comp.refs[k] = [site |-> Site(loc, j), sub |-> cs[j]]
  BY DEF Noticed
<1>4. PICK site \in Nat : site = Site(loc, j) /\ site = comp.refs[k].site /\ site < Here
  <2>1. comp.refs[k] \in Reference
    BY <1>1
  <2>2. comp.refs[k].site \in Nat /\ comp.refs[k].site < Here
    BY <2>1 DEF IInv, References, Reference
  <2> QED
    BY <1>3, <2>2
<1>5. PICK s \in 1 .. Known : s = cs[j] /\ s = comp.refs[k].sub
  BY <1>1, <1>3
<1>6. ArgAt(r, site) = subs[s].loc - site - BranchSize
  BY <1>4, <1>5 DEF Resolved
<1>7. ArgAt(chunk', site) = ArgAt(r, site)
  <2>1. site + 1 \in 1 .. Here
    BY <1>1, <1>4
  <2> QED
    BY <2>1 DEF SameWords, ArgAt
<1>8. subs'[s].loc = subs[s].loc
  BY DEF LocsStay
<1> QED
  BY <1>4, <1>5, <1>6, <1>7, <1>8

\* The program is patched and gets its EXIT.
Finished == [Resolve(chunk) EXCEPT !.entry = comp.entry]
Finishes == chunk' = EmitExit(Finished, <<0, Len(calls) + 1>>)

LEMMA FinishesOK ==
  ASSUME IInv, Compiles, Finishes
  PROVE  /\ chunk' \in Chunk /\ Fitted(chunk') /\ Keeps(chunk, chunk') /\ Grows(chunk, chunk')
         /\ chunk'.entry = comp.entry /\ Len(chunk'.code) = Here + 1
         /\ chunk'.code[Here + 1].op = "EXIT" /\ chunk'.code[Here + 1].tag = <<0, Len(calls) + 1>>
         /\ \E r : Resolved(r) /\ SameWords(r)
<1>1. PICK r \in Chunk : /\ r = Resolve(chunk) /\ Len(r.code) = Here /\ r.entry = chunk.entry /\ Fitted(r)
                         /\ Grows(chunk, r) /\ Resolved(r)
  BY ResolveOK
<1>2. PICK entry \in Nat : entry = comp.entry /\ chunk.entry <= entry /\ entry <= Here
  BY DEF IInv, Typed, Entries, Compiler
<1>3. PICK d : d = [r EXCEPT !.entry = entry]
  OBVIOUS
<1>4. d \in Chunk /\ d.code = r.code /\ d.entry = entry /\ Fitted(d)
  BY <1>1, <1>3 DEF Chunk, Fitted
<1>5. PICK m \in Nat : m = Len(calls) /\ <<0, m + 1>> \in Tags
  <2>1. Len(calls) \in Nat /\ Len(calls) < spent /\ spent \in 0 .. MaxSize /\ MaxSize \in Nat
    BY SessionAssumption DEF IInv, Typed, Counted, Compiles
  <2>2. PICK m \in Nat : m = Len(calls) /\ m + 1 \in 0 .. MaxSize
    BY <2>1
  <2> QED
    BY <2>2, TagIs, SessionAssumption
<1>6. PICK tag \in Tags : tag = <<0, m + 1>>
  BY <1>5
<1>7. chunk' = Emit(d, "EXIT", 0, 1, tag)
  BY <1>1, <1>2, <1>3, <1>5, <1>6 DEF Finishes, Finished, EmitExit
<1>8. Adds(d, chunk', "EXIT", 0, 1, tag)
  BY <1>4, <1>7, EmitAdds
<1>9. chunk' \in Chunk /\ Fitted(chunk') /\ Grows(d, chunk') /\ chunk'.entry = entry
      /\ Len(chunk'.code) = Here + 1
  <2>1. d.entry <= Len(d.code) /\ Len(d.code) = Here
    BY <1>1, <1>2, <1>4
  <2>2. /\ chunk' \in Chunk /\ Fitted(chunk') /\ Grows(d, chunk') /\ chunk'.entry = d.entry
        /\ Len(chunk'.code) = Len(d.code) + 1
    <3>1. d \in Chunk /\ Fitted(d)
      BY <1>4
    <3> QED
      BY <2>1, <3>1, <1>8, AddsFits
  <2> QED
    BY <1>4, <2>1, <2>2
<1>10. Here \in Nat /\ chunk.entry \in Nat /\ Here = Len(chunk.code) /\ chunk \in Chunk
  BY DEF IInv, Typed, Chunk, Here
<1>11. SameWords(r)
  BY <1>1, <1>4, <1>8 DEF Adds, SameWords
<1>12. chunk'.code[Here + 1].op = "EXIT" /\ chunk'.code[Here + 1].tag = tag
  <2>1. Here + 1 \in Here + 1 .. Here + 1
    BY <1>10
  <2> QED
    BY <1>1, <1>4, <1>9, <1>8, <2>1 DEF Adds
<1>13. Grows(chunk, chunk')
  <2>1. Len(chunk.code) <= Len(chunk'.code)
    BY <1>9, <1>10
  <2>2. ASSUME NEW i \in 1 .. Len(chunk.code)
        PROVE  chunk'.code[i].op = chunk.code[i].op /\ chunk'.code[i].tag = chunk.code[i].tag
    BY <1>1, <1>10, <1>11 DEF Grows, SameWords
  <2>3. ASSUME NEW i \in 1 .. chunk.entry
        PROVE  chunk'.code[i] = chunk.code[i]
    <3>1. i \in 1 .. Here
      BY <1>2, <1>10
    <3> QED
      BY <3>1, <1>1, <1>11 DEF Grows, SameWords
  <2> QED
    BY <2>1, <2>2, <2>3 DEF Grows
<1>14. Keeps(chunk, chunk')
  BY <1>2, <1>9, <1>10, <1>13 DEF Keeps, Grows
<1> QED
  BY <1>1, <1>2, <1>5, <1>6, <1>9, <1>11, <1>12, <1>13, <1>14

\* What the ends of a text have in common.
EndsText(error) ==
  /\ Compiling("over") /\ Len(open) = 1
  /\ subs' = Settled(IF error THEN "lost" ELSE "kept")
  /\ comp'.error = error /\ comp'.scope = comp.scope
  /\ comp' \in Compiler
  /\ open' = <<>> /\ status' = IF error THEN "reset" ELSE "running"
  /\ vm' \in [pc : Int, ret : Seq(Int)]
  /\ UNCHANGED <<mode, tables, calls, spent>>

LEMMA EndTextIs ==
  ASSUME IInv, NEW dot \in BOOLEAN, EndText(dot), NEW error \in BOOLEAN, error = (comp.error \/ ~ dot)
  PROVE  /\ EndsText(error) /\ comp'.scope = 0 /\ vm'.pc = comp.entry /\ vm'.ret = vm.ret
         /\ error /\ mode = "repl" =>
              chunk' = chunk /\ comp'.entry = comp.last /\ comp'.refs = comp.refs
         /\ ~ (error /\ mode = "repl") =>
              Finishes /\ comp'.entry = comp.entry /\ comp'.refs = << >>
<1>1. comp \in Compiler /\ vm \in [pc : Int, ret : Seq(Int)] /\ Compiles /\ Len(open) = 1
  BY DEF IInv, Typed, EndText, Compiling, Compiles
<1>2. comp.scope = 0
  BY <1>1, TopIs
<1>3. PICK entry \in Nat : entry = IF error /\ mode = "repl" THEN comp.last ELSE comp.entry
  BY <1>1 DEF Compiler
<1>4. PICK refs \in Seq(Reference) : refs = IF error /\ mode = "repl" THEN comp.refs ELSE << >>
  <2>1. comp.refs \in Seq(Reference) /\ << >> \in Seq(Reference)
    BY <1>1 DEF Compiler
  <2>2. CASE error /\ mode = "repl"
    BY <2>1, <2>2
  <2>3. CASE ~ (error /\ mode = "repl")
    BY <2>1, <2>3
  <2> QED
    BY <2>2, <2>3
<1>5. comp' = [comp EXCEPT !.error = error, !.entry = entry, !.refs = refs]
  BY <1>3, <1>4 DEF EndText
<1>6. /\ comp' \in Compiler /\ comp'.error = error /\ comp'.entry = entry /\ comp'.refs = refs
      /\ comp'.scope = comp.scope
  BY <1>1, <1>3, <1>4, <1>5 DEF Compiler
<1>7. /\ vm' \in [pc : Int, ret : Seq(Int)] /\ vm'.pc = comp.entry /\ vm'.ret = vm.ret
  <2>1. PICK at \in Int : at = comp.entry
    BY <1>1 DEF Compiler
  <2>2. vm' = [vm EXCEPT !.pc = at]
    BY <2>1 DEF EndText
  <2> QED
    BY <1>1, <2>1, <2>2
<1>8. EndsText(error)
  BY <1>6, <1>7 DEF EndText, EndsText
<1> QED
  BY <1>2, <1>3, <1>4, <1>6, <1>7, <1>8 DEF EndText, Finishes, Finished

\* The calls of a text that is over are those of its main block.
LEMMA MainEnds ==
  ASSUME IInv, Compiles, Len(open) = 1, Top.part = "over", ~ comp.error, Finishes, comp'.entry = comp.entry,
         calls' = calls, subs' \in Seq(Subroutine(Known)), LocsStay
  PROVE  /\ Ended(chunk.code, 0, comp.entry, Len(calls))'
         /\ Linked(chunk, comp.entry, calls)'
         /\ \A i \in 1 .. Here : chunk.code[i].tag[1] # 0 => i <= comp.entry
<1>1. InBody
  BY TopIs DEF InBody
<1>2. /\ Laid(chunk.code, 0, comp.entry, Len(calls)) /\ Here = Site(comp.entry, Len(calls) + 1)
      /\ Noticed(comp.entry, calls)
      /\ \A i \in 1 .. Here : chunk.code[i].tag[1] # 0 => i <= comp.entry
  BY <1>1 DEF IInv, MainCode
<1>3. PICK loc \in Nat, cs \in Seq(1 .. Known) : loc = comp.entry /\ cs = calls
  BY DEF IInv, Typed, Compiler
<1>4. /\ chunk' \in Chunk /\ Grows(chunk, chunk') /\ Len(chunk'.code) = Here + 1
      /\ chunk'.code[Here + 1].op = "EXIT" /\ chunk'.code[Here + 1].tag = <<0, Len(calls) + 1>>
  BY FinishesOK
<1>5. PICK r : Resolved(r) /\ SameWords(r)
  BY FinishesOK
<1>6. Linked(chunk, loc, cs)'
  BY <1>2, <1>3, <1>5, NoticedLinked
<1>7. PICK n \in Nat : n = Len(cs)
  BY <1>3
<1>8. LaidToEnd(chunk, 0, loc, n)
  BY <1>2, <1>3, <1>7 DEF LaidToEnd, Here
<1>9. ExitsWith(chunk, chunk', 0, n)
  <2>1. Len(chunk.code) < Len(chunk'.code) /\ Here = Len(chunk.code)
    BY <1>4 DEF IInv, Typed, Chunk, Here
  <2> QED
    BY <2>1, <1>3, <1>4, <1>7 DEF ExitsWith
<1>10. chunk \in Chunk
  BY DEF IInv, Typed
<1>11. Ended(chunk'.code, 0, loc, n)
  BY <1>4, <1>8, <1>9, <1>10, LaidEnded
<1>12. comp'.entry = loc /\ calls' = cs /\ Len(calls') = n
  BY <1>3, <1>7
<1> QED
  BY <1>2, <1>6, <1>11, <1>12

\* What was compiled for this text is kept, if it has no error.
LEMMA FreshKept ==
  ASSUME IInv, Compiles, Len(open) = 1, Top.part = "over", ~ comp.error, Finishes, comp'.entry = comp.entry,
         calls' = calls, subs' \in Seq(Subroutine(Known)), LocsStay,
         NEW s \in 1 .. Known, subs[s].fate = "fresh", Straight(s),
         subs'[s].loc = subs[s].loc, subs'[s].calls = subs[s].calls
  PROVE  KeptAt(s)'
<1>1. Top.sub = 0 /\ s # Top.sub
  BY TopIs DEF IInv, Typed, Known
<1>2. /\ Noticed(subs[s].loc, subs[s].calls)
      /\ Ended(chunk.code, s, subs[s].loc, CallCount(s))
  BY <1>1 DEF IInv, FreshCode, FreshAt
<1>3. PICK loc \in Nat, cs \in Seq(1 .. Known) : loc = subs[s].loc /\ cs = subs[s].calls
  <2>1. subs[s] \in Subroutine(Known)
    BY DEF IInv, Typed, Known
  <2> QED
    BY <2>1 DEF Subroutine, Straight
<1>4. PICK n \in Nat : n = Len(cs) /\ n = CallCount(s)
  BY <1>3 DEF CallCount
<1>5. chunk' \in Chunk /\ chunk \in Chunk /\ Grows(chunk, chunk') /\ chunk'.entry = comp.entry
  BY FinishesOK DEF IInv, Typed
<1>6. PICK r : Resolved(r) /\ SameWords(r)
  BY FinishesOK
<1>7. Linked(chunk, loc, cs)'
  BY <1>2, <1>3, <1>6, NoticedLinked
<1>8. Ended(chunk'.code, s, loc, n)
  BY <1>2, <1>3, <1>4, <1>5, EndedStays
<1>9. PICK site \in Nat : site = Site(loc, n + 1)
  <2>1. n + 1 \in Nat
    OBVIOUS
  <2> QED
    BY <2>1, SiteNat
<1>10. site < Here /\ chunk.code[site + 1].tag = <<s, n + 1>>
  BY <1>2, <1>3, <1>4, <1>9 DEF Ended, Here
<1>11. site + 1 <= comp.entry
  <2>1. Here \in Nat
    BY DEF IInv, Typed, Chunk, Here
  <2>2. site + 1 \in 1 .. Here
    BY <2>1, <1>9, <1>10
  <2>3. chunk.code[site + 1].tag[1] = s /\ s # 0
    BY <1>10 DEF IInv, Typed, Known
  <2> QED
    BY <2>2, <2>3, MainEnds
<1>12. site < chunk'.entry
  <2>1. comp.entry \in Nat
    BY DEF IInv, Typed, Compiler
  <2> QED
    BY <1>5, <1>9, <1>11, <2>1
<1>13. subs'[s].loc = loc /\ subs'[s].calls = cs /\ CallCount(s)' = n
  BY <1>3, <1>4 DEF CallCount
<1> QED
  BY <1>7, <1>8, <1>9, <1>12, <1>13 DEF KeptAt

\* What the end of a text leaves, in the cases where it is kept or given up.
Kept == /\ ~ comp.error /\ ~ comp'.error /\ Finishes /\ comp'.entry = comp.entry /\ comp'.refs = << >>
Lost == /\ comp'.error /\ act' = << >>
        /\ \/ chunk' = chunk /\ comp'.entry = comp.last /\ comp'.refs = comp.refs
           \/ Finishes /\ comp'.entry = comp.entry /\ comp'.refs = << >>

LEMMA EndTextCases ==
  ASSUME IInv, NEW dot \in BOOLEAN, EndText(dot)
  PROVE  /\ Compiles /\ Len(open) = 1 /\ Top.part = "over" /\ open' = << >> /\ UNCHANGED <<mode, tables, calls, spent>>
         /\ comp' \in Compiler /\ comp'.scope = 0
         /\ status' = IF comp'.error THEN "reset" ELSE "running"
         /\ subs' = Settled(IF comp'.error THEN "lost" ELSE "kept")
         /\ Kept \/ Lost
         /\ vm' \in [pc : Int, ret : Seq(Int)] /\ vm'.pc = comp.entry /\ vm'.ret = vm.ret
         /\ act' = << >> \/ (act' = <<[unit |-> 0, next |-> 0]>> /\ Sound(subs') /\ vm'.ret = << >>)
<1>1. PICK error \in BOOLEAN : error = (comp.error \/ ~ dot)
  OBVIOUS
<1>2. /\ EndsText(error) /\ comp'.scope = 0 /\ vm'.pc = comp.entry /\ vm'.ret = vm.ret
      /\ error /\ mode = "repl" => chunk' = chunk /\ comp'.entry = comp.last /\ comp'.refs = comp.refs
      /\ ~ (error /\ mode = "repl") => Finishes /\ comp'.entry = comp.entry /\ comp'.refs = << >>
  BY <1>1, EndTextIs
<1>3. comp'.error = error /\ subs' = Settled(IF error THEN "lost" ELSE "kept")
  BY <1>2 DEF EndsText
<1>4. act' = IF error \/ ~ Sound(subs') \/ vm.ret # << >> THEN << >> ELSE <<[unit |-> 0, next |-> 0]>>
  BY <1>1, <1>3 DEF EndText
<1>5. Kept \/ Lost
  <2>1. CASE error
    BY <2>1, <1>2, <1>3, <1>4 DEF Lost
  <2>2. CASE ~ error
    BY <2>2, <1>1, <1>2, <1>3 DEF Kept
  <2> QED
    BY <2>1, <2>2
<1>6. Compiles /\ Len(open) = 1 /\ Top.part = "over" /\ comp' \in Compiler
  BY <1>2 DEF EndsText, Compiling, Compiles
<1>7. act' = << >> \/ (act' = <<[unit |-> 0, next |-> 0]>> /\ Sound(subs') /\ vm'.ret = << >>)
  BY <1>2, <1>4
<1>8. status' = IF comp'.error THEN "reset" ELSE "running"
  BY <1>2, <1>3 DEF EndsText
<1> QED
  BY <1>2, <1>3, <1>5, <1>6, <1>7, <1>8 DEF EndsText

\* What chunk is then.
LEMMA EndTextChunk ==
  ASSUME IInv, NEW dot \in BOOLEAN, EndText(dot)
  PROVE  /\ chunk' \in Chunk /\ Fitted(chunk') /\ Keeps(chunk, chunk') /\ Grows(chunk, chunk')
         /\ chunk'.entry = comp'.entry /\ chunk'.entry <= Here' /\ chunk.entry <= chunk'.entry
         /\ \A i \in 1 .. Here' : i \in 1 .. Here \/ chunk'.code[i].tag[1] = 0
<1>1. Compiles /\ (Kept \/ Lost)
  BY EndTextCases
<1>2. chunk \in Chunk /\ Fitted(chunk) /\ Here = Len(chunk.code) /\ Here \in Nat /\ chunk.entry \in Nat
  BY DEF IInv, Typed, Chunk, Here
<1>3. chunk.entry = comp.last /\ chunk.entry <= comp.entry /\ comp.entry <= Here /\ comp.entry \in Nat
  BY <1>1 DEF IInv, Entries, Typed, Compiler
<1>4. CASE Finishes /\ comp'.entry = comp.entry
  <2>1. /\ chunk' \in Chunk /\ Fitted(chunk') /\ Keeps(chunk, chunk') /\ Grows(chunk, chunk')
        /\ chunk'.entry = comp.entry /\ Len(chunk'.code) = Here + 1
        /\ chunk'.code[Here + 1].tag = <<0, Len(calls) + 1>>
    BY <1>1, <1>4, FinishesOK
  <2>2. Here' = Here + 1
    BY <2>1 DEF Here
  <2>3. chunk'.code[Here + 1].tag[1] = 0
    BY <2>1
  <2>4. \A i \in 1 .. Here' : i \in 1 .. Here \/ i = Here + 1
    BY <1>2, <2>2
  <2>5. chunk'.entry <= Here' /\ chunk.entry <= chunk'.entry
    BY <1>2, <1>3, <2>1, <2>2
  <2> QED
    BY <1>4, <2>1, <2>3, <2>4, <2>5
<1>5. CASE chunk' = chunk /\ comp'.entry = comp.last
  <2>1. Here' = Here /\ Keeps(chunk, chunk') /\ Grows(chunk, chunk')
    BY <1>2, <1>3, <1>5 DEF Here, Keeps, Grows
  <2> QED
    BY <2>1, <1>2, <1>3, <1>5
<1> QED
  BY <1>1, <1>4, <1>5 DEF Kept, Lost

\* What becomes of the subroutines.
LEMMA EndTextSubs ==
  ASSUME IInv, NEW dot \in BOOLEAN, EndText(dot)
  PROVE  /\ subs' \in Seq(Subroutine(Known)) /\ Known' = Known /\ LocsStay /\ DOMAIN subs' = DOMAIN subs
         /\ \A s \in 1 .. Known :
              /\ subs'[s].loc = subs[s].loc /\ subs'[s].calls = subs[s].calls
              /\ subs'[s].holds = subs[s].holds /\ subs'[s].fate # "fresh"
              /\ subs'[s].fate = "kept" => subs[s].fate = "kept" \/ (subs[s].fate = "fresh" /\ Kept)
<1>1. comp'.error \in BOOLEAN /\ subs' = Settled(IF comp'.error THEN "lost" ELSE "kept") /\ (Kept \/ Lost)
  BY EndTextCases DEF Compiler
<1>2. PICK fate \in {"lost", "kept"} : fate = IF comp'.error THEN "lost" ELSE "kept"
  OBVIOUS
<1>3. /\ subs' \in Seq(Subroutine(Known)) /\ Known' = Known /\ LocsStay /\ DOMAIN subs' = DOMAIN subs
      /\ \A s \in 1 .. Known : /\ subs'[s].loc = subs[s].loc /\ subs'[s].calls = subs[s].calls
                               /\ subs'[s].holds = subs[s].holds
                               /\ subs'[s].fate = IF subs[s].fate = "fresh" THEN fate ELSE subs[s].fate
  BY <1>1, <1>2, SettledOK
<1>4. fate = "kept" => Kept
  BY <1>1, <1>2 DEF Lost
<1> QED
  BY <1>3, <1>4

LEMMA EndTextKept ==
  ASSUME IInv, NEW dot \in BOOLEAN, EndText(dot)
  PROVE  KeptCode'
<1>1. /\ subs' \in Seq(Subroutine(Known)) /\ Known' = Known /\ LocsStay
      /\ \A s \in 1 .. Known :
           /\ subs'[s].loc = subs[s].loc /\ subs'[s].calls = subs[s].calls
           /\ subs'[s].holds = subs[s].holds
           /\ subs'[s].fate = "kept" => subs[s].fate = "kept" \/ (subs[s].fate = "fresh" /\ Kept)
  BY EndTextSubs
<1>2. SUFFICES ASSUME NEW s \in 1 .. Known, subs'[s].fate = "kept", Straight(s)'
               PROVE  KeptAt(s)'
  BY <1>1 DEF KeptCode
<1>3. Straight(s)
  BY <1>1, <1>2 DEF Straight
<1>4. CASE subs[s].fate = "kept"
  <2>1. chunk' \in Chunk /\ Keeps(chunk, chunk')
    BY EndTextChunk
  <2> QED
    BY <1>1, <1>3, <1>4, <2>1, KeptStays
<1>5. CASE subs[s].fate = "fresh" /\ Kept
  <2>1. Compiles /\ Len(open) = 1 /\ Top.part = "over" /\ calls' = calls
    BY EndTextCases
  <2>2. ~ comp.error /\ Finishes /\ comp'.entry = comp.entry
    BY <1>5 DEF Kept
  <2> QED
    BY <1>1, <1>3, <1>5, <2>1, <2>2, FreshKept
<1> QED
  BY <1>1, <1>2, <1>4, <1>5

LEMMA EndTextTagged ==
  ASSUME IInv, NEW dot \in BOOLEAN, EndText(dot)
  PROVE  Tagged'
<1>1. /\ Known' = Known /\ Known \in Nat
      /\ \A s \in 1 .. Known :
           subs'[s].fate = "kept" => subs[s].fate = "kept" \/ (subs[s].fate = "fresh" /\ Kept)
  BY EndTextSubs DEF IInv, Typed, Known
<1>2. SUFFICES ASSUME NEW i \in 1 .. Here', chunk'.code[i].tag[1] # 0
               PROVE  /\ chunk'.code[i].tag[1] \in 1 .. Known
                      /\ subs'[chunk'.code[i].tag[1]].fate = "kept" => i <= chunk'.entry
  BY <1>1 DEF Tagged
<1>3. /\ chunk' \in Chunk /\ chunk'.entry \in Nat /\ chunk.entry \in Nat
      /\ chunk.entry <= chunk'.entry /\ Grows(chunk, chunk') /\ i \in 1 .. Here
  BY <1>2, EndTextChunk DEF IInv, Typed, Chunk
<1>4. chunk'.code[i].tag = chunk.code[i].tag
  BY <1>3 DEF Grows, Here
<1>5. PICK s : s = chunk.code[i].tag[1]
  OBVIOUS
<1>6. s # 0 /\ s \in 1 .. Known /\ (subs[s].fate = "kept" => i <= chunk.entry)
  BY <1>2, <1>3, <1>4, <1>5 DEF IInv, Tagged
<1>7. ASSUME subs'[s].fate = "kept"
      PROVE  i <= chunk'.entry
  <2>1. CASE subs[s].fate = "kept"
    BY <1>3, <1>6, <2>1
  <2>2. CASE Kept
    <3>1. /\ Compiles /\ Len(open) = 1 /\ Top.part = "over" /\ calls' = calls
          /\ subs' \in Seq(Subroutine(Known)) /\ LocsStay
      BY EndTextCases, EndTextSubs
    <3>2. ~ comp.error /\ Finishes /\ comp'.entry = comp.entry
      BY <2>2 DEF Kept
    <3>3. i <= comp.entry
      BY <1>3, <1>5, <1>6, <3>1, <3>2, MainEnds
    <3> QED
      BY <3>2, <3>3, EndTextChunk
  <2> QED
    BY <1>1, <1>6, <1>7, <2>1, <2>2
<1> QED
  BY <1>4, <1>5, <1>6, <1>7

LEMMA EndTextReferences ==
  ASSUME IInv, NEW dot \in BOOLEAN, EndText(dot)
  PROVE  References'
<1>1. CASE comp'.refs = << >>
  BY <1>1 DEF References
<1>2. CASE chunk' = chunk /\ comp'.refs = comp.refs
  <2>1. Known' = Known /\ Here' = Here
    BY <1>2, EndTextSubs DEF Here
  <2> QED
    BY <1>2, <2>1 DEF IInv, References
<1> QED
  BY <1>1, <1>2, EndTextCases DEF Kept, Lost

LEMMA EndTextTyped ==
  ASSUME IInv, NEW dot \in BOOLEAN, EndText(dot)
  PROVE  Typed'
<1>1. UNCHANGED <<mode, tables, calls, spent>> /\ comp' \in Compiler /\ vm' \in [pc : Int, ret : Seq(Int)]
      /\ status' \in {"reset", "running"} /\ open' = << >>
  BY EndTextCases
<1>2. subs' \in Seq(Subroutine(Known)) /\ Known' = Known /\ chunk' \in Chunk /\ Fitted(chunk')
  BY EndTextSubs, EndTextChunk
<1>3. act' \in Seq([unit : 0 .. MaxSubs, next : Nat])
  <2>1. PICK a : a = [unit |-> 0, next |-> 0]
    OBVIOUS
  <2>2. a \in [unit : 0 .. MaxSubs, next : Nat]
    BY <2>1, SessionAssumption
  <2>3. << >> \in Seq([unit : 0 .. MaxSubs, next : Nat]) /\ <<a>> \in Seq([unit : 0 .. MaxSubs, next : Nat])
    BY <2>2
  <2> QED
    BY <2>1, <2>3, EndTextCases
<1>4. open' \in Seq(Open)
  BY <1>1
<1>5. /\ mode \in Modes /\ Known <= MaxSubs /\ tables \in [0 .. MaxSubs -> [Names -> Entity(Known)]]
      /\ calls \in Seq(1 .. Known) /\ spent \in 0 .. MaxSize
  BY DEF IInv, Typed
<1>6. Entity(Known') = Entity(Known) /\ Subroutine(Known') = Subroutine(Known) /\ 1 .. Known' = 1 .. Known
  BY <1>2
<1>7. status' \in {"idle", "compiling", "running", "reset", "dead", "quit"}
  BY <1>1
<1>8. tables' \in [0 .. MaxSubs -> [Names -> Entity(Known')]]
  BY <1>1, <1>5, <1>6
<1>9. calls' \in Seq(1 .. Known') /\ subs' \in Seq(Subroutine(Known'))
  BY <1>1, <1>2, <1>5, <1>6
<1> QED
  BY <1>1, <1>2, <1>3, <1>4, <1>5, <1>7, <1>8, <1>9 DEF Typed

LEMMA EndTextFollows ==
  ASSUME IInv, NEW dot \in BOOLEAN, EndText(dot)
  PROVE  Follows'
<1>1. SUFFICES ASSUME status' = "running", act' # << >>
               PROVE  /\ Ended(chunk.code, 0, comp.entry, Len(calls))' /\ Linked(chunk, comp.entry, calls)'
                      /\ Sound(subs)' /\ (\A i \in 1 .. Len(act) : Active(act[i]))'
                      /\ Len(vm'.ret) + 1 = Len(act') /\ vm'.pc = Address(Last(act))'
                      /\ (\A i \in 1 .. Len(vm.ret) : vm.ret[i] = Address(act[i]))'
  BY DEF Follows
<1>2. /\ act' = <<[unit |-> 0, next |-> 0]>> /\ Sound(subs') /\ vm'.ret = << >> /\ vm'.pc = comp.entry
      /\ Compiles /\ Len(open) = 1 /\ Top.part = "over" /\ calls' = calls /\ comp' \in Compiler
  BY <1>1, EndTextCases
<1>3. Kept
  BY <1>1, EndTextCases DEF Lost
<1>4. subs' \in Seq(Subroutine(Known)) /\ LocsStay /\ DOMAIN subs' = DOMAIN subs /\ Known' = Known
      /\ \A s \in 1 .. Known : subs'[s].calls = subs[s].calls
  BY EndTextSubs
<1>5. Ended(chunk.code, 0, comp.entry, Len(calls))' /\ Linked(chunk, comp.entry, calls)'
  BY <1>2, <1>3, <1>4, MainEnds DEF Kept
<1>6. Sound(subs)'
  <2>1. Reach(calls)' = Reach(calls)
    <3>1. DOMAIN subs = 1 .. Known
      BY DEF IInv, Typed, Known
    <3> QED
      BY <1>2, <1>4, <3>1, ReachStays
  <2> QED
    BY <1>2, <2>1 DEF Sound
<1>7. PICK a : a = [unit |-> 0, next |-> 0]
  OBVIOUS
<1>8. act' = <<a>> /\ a.unit = 0 /\ a.next = 0
  BY <1>2, <1>7
<1>9. Len(calls') \in Nat
  BY <1>2 DEF IInv, Typed
<1>10. Active(a)'
  BY <1>8, <1>9 DEF Active, CallsOf
<1>11. Address(a)' = comp'.entry
  BY <1>8 DEF Address, Site, LocOf
<1>12. comp'.entry = comp.entry
  BY <1>3 DEF Kept
<1>13. Len(act') = 1 /\ act'[1] = a /\ Last(act)' = a
  BY <1>8 DEF Last
<1>14. \A i \in 1 .. Len(act') : i = 1
  BY <1>13
<1>15. Len(vm'.ret) = 0
  BY <1>2
<1>16. vm'.pc = Address(Last(act))'
  BY <1>2, <1>11, <1>12, <1>13
<1>17. Len(vm'.ret) + 1 = Len(act')
  BY <1>13, <1>15
<1>18. (\A i \in 1 .. Len(act) : Active(act[i]))'
  BY <1>10, <1>13, <1>14
<1>19. (\A i \in 1 .. Len(vm.ret) : vm.ret[i] = Address(act[i]))'
  BY <1>15
<1> QED
  BY <1>5, <1>6, <1>16, <1>17, <1>18, <1>19

LEMMA EndTextOK ==
  ASSUME IInv, NEW dot \in BOOLEAN, EndText(dot)
  PROVE  IInv' /\ Keeps(chunk, chunk')
<1>1. /\ Compiles /\ open' = << >> /\ comp'.scope = 0 /\ calls' = calls /\ spent' = spent
      /\ status' \in {"reset", "running"}
  BY EndTextCases
<1>2. /\ Known' = Known
      /\ \A s \in 1 .. Known : subs'[s].calls = subs[s].calls /\ subs'[s].fate # "fresh"
  BY EndTextSubs
<1>3. ~ Compiles' /\ Between' /\ status # "idle" /\ status' # "idle"
  BY <1>1 DEF Compiles, Between
<1>4. Counted'
  BY <1>1, <1>2, <1>3 DEF IInv, Counted
<1>5. Nested' /\ Opened'
  BY <1>1, <1>2, <1>3 DEF Nested, Opened
<1>6. Entries'
  BY <1>3, EndTextChunk DEF Entries
<1>7. FreshCode' /\ OpenCode' /\ MainCode'
  BY <1>3 DEF FreshCode, OpenCode, MainCode
<1>8. Keeps(chunk, chunk')
  BY EndTextChunk
<1> QED
  BY <1>8, <1>4, <1>5, <1>6, <1>7, EndTextTyped, EndTextKept, EndTextReferences, EndTextTagged, EndTextFollows
     DEF IInv

LEMMA SubroutineBlockOK ==
  ASSUME IInv, NEW n \in Names, NEW ps \in Parameters, NEW forward \in BOOLEAN,
         SubroutineBlock(n, ps, forward)
  PROVE  IInv' /\ Keeps(chunk, chunk')
<1>1. CASE Dies
  <2>1. Typed /\ mode' = mode /\ status = "compiling" /\ spent' \in 0 .. MaxSize /\ spent < spent'
        /\ spent \in Nat
    BY DeclarationIs
  <2>2. Typed'
    BY <1>1, <2>1 DEF Typed, Dies, Known
  <2>3. spent <= spent' /\ status # "idle"
    BY <2>1
  <2> QED
    BY <1>1, <2>2, <2>3, DeadOK
<1>2. CASE ~ Dies
  <2>1. CASE forward
    BY <1>2, <2>1, ForwardOK
  <2>2. CASE ~ forward
    BY <1>2, <2>2, BodyOK
  <2> QED
    BY <2>1, <2>2
<1> QED
  BY <1>1, <1>2

LEMMA CallStmtOK ==
  ASSUME IInv, NEW n \in Names, CallStmt(n)
  PROVE  IInv' /\ Keeps(chunk, chunk')
BY NotFoundOK, FoundOK

-----------------------------------------------------------------------------
(* Running it *)

Runs == status = "running" /\ act # << >>

\* Where the code of a unit that can run is.
LEMMA UnitAt ==
  ASSUME IInv, Runs, NEW u, u \in {0} \cup Reach(calls)
  PROVE  /\ LocOf(u) \in Nat /\ CallsOf(u) \in Seq(1 .. Known) /\ u \in 0 .. Known
         /\ Ended(chunk.code, u, LocOf(u), Len(CallsOf(u)))
         /\ Linked(chunk, LocOf(u), CallsOf(u))
<1>1. CASE u = 0
  <2>1. comp.entry \in Nat /\ calls \in Seq(1 .. Known) /\ Known \in Nat
    BY DEF IInv, Typed, Compiler, Known
  <2> QED
    BY <1>1, <2>1 DEF IInv, Follows, Runs, LocOf, CallsOf
<1>2. CASE u # 0
  <2>1. u \in DOMAIN subs /\ subs[u].fate = "kept" /\ Straight(u) /\ u \in Reach(calls)
    BY <1>2 DEF IInv, Follows, Runs, Sound, Reach, Straight
  <2>2. u \in 1 .. Known /\ subs[u] \in Subroutine(Known)
    BY <2>1 DEF IInv, Typed, Known
  <2>3. KeptAt(u)
    BY <2>1, <2>2 DEF IInv, KeptCode
  <2>4. subs[u].loc \in Nat /\ subs[u].calls \in Seq(1 .. Known)
    BY <2>1, <2>2 DEF Subroutine, Straight
  <2>5. u \in 0 .. Known
    BY <2>2
  <2> QED
    BY <1>2, <2>3, <2>4, <2>5 DEF KeptAt, LocOf, CallsOf, CallCount
<1> QED
  BY <1>1, <1>2

\* The word an activation goes on with.
LEMMA AddressIs ==
  ASSUME IInv, Runs, NEW a, Active(a)
  PROVE  /\ Address(a) \in Nat /\ Address(a) < Here /\ At(Address(a)).tag = <<a.unit, a.next>>
         /\ a.next = 0 => At(Address(a)).op = "ENTER"
         /\ a.next \in 1 .. Len(CallsOf(a.unit)) => At(Address(a)).op = "CALL"
         /\ a.next = Len(CallsOf(a.unit)) + 1 => At(Address(a)).op = "EXIT"
<1>1. PICK u, loc, n : u = a.unit /\ loc = LocOf(u) /\ n = Len(CallsOf(u))
  OBVIOUS
<1>2. loc \in Nat /\ n \in Nat /\ Ended(chunk.code, u, loc, n)
  BY <1>1, UnitAt DEF Active
<1>3. PICK j \in 0 .. n + 1 : j = a.next
  BY <1>1 DEF Active
<1>4. PICK site : site = Site(loc, j) /\ site = Address(a)
  BY <1>1, <1>3 DEF Address
<1>5. PICK end : end = Site(loc, n + 1)
  OBVIOUS
<1>6. site \in Nat /\ site <= end /\ end < Here /\ end \in Nat
  <2>1. end \in Nat /\ \A i \in 1 .. n : Site(loc, i) + 2 <= end
    BY <1>2, <1>5, SiteNat
  <2>2. end < Here
    BY <1>2, <1>5 DEF Ended, Here
  <2>3. CASE j = 0
    BY <2>1, <2>2, <1>2, <1>4, <1>5, <2>3 DEF Site
  <2>4. CASE j # 0
    BY <2>1, <2>2, <1>2, <1>3, <1>4, <1>5, <2>4 DEF Site
  <2> QED
    BY <2>3, <2>4
<1>7. /\ chunk.code[site + 1].tag = <<u, j>>
      /\ j = 0 => chunk.code[site + 1].op = "ENTER"
      /\ j \in 1 .. n => chunk.code[site + 1].op = "CALL"
      /\ j = n + 1 => chunk.code[site + 1].op = "EXIT"
  <2>1. CASE j = 0
    <3>1. site = loc
      BY <1>4, <2>1 DEF Site
    <3>2. chunk.code[loc + 1].op = "ENTER" /\ chunk.code[loc + 1].tag = <<u, 0>>
      BY <1>2 DEF Ended, Laid
    <3>3. j # n + 1 /\ j \notin 1 .. n
      BY <1>2, <2>1
    <3> QED
      BY <2>1, <3>1, <3>2, <3>3
  <2>2. CASE j \in 1 .. n
    <3>1. chunk.code[site + 1].op = "CALL" /\ chunk.code[site + 1].tag = <<u, j>>
      BY <1>2, <1>4, <2>2 DEF Ended, Laid
    <3>2. j # n + 1 /\ j # 0
      BY <1>2, <2>2
    <3> QED
      BY <3>1, <3>2
  <2>3. CASE j = n + 1
    <3>1. chunk.code[site + 1].op = "EXIT" /\ chunk.code[site + 1].tag = <<u, j>>
      BY <1>2, <1>4, <2>3 DEF Ended
    <3>2. j \notin 1 .. n /\ j # 0
      BY <1>2, <2>3
    <3> QED
      BY <3>1, <3>2
  <2> QED
    BY <1>2, <1>3, <2>1, <2>2, <2>3
<1>8. site < Here
  <2>1. Here \in Nat
    BY DEF IInv, Typed, Chunk, Here
  <2> QED
    BY <1>6, <2>1
<1>9. At(Address(a)) = chunk.code[site + 1]
  BY <1>4 DEF At
<1>10. Len(CallsOf(a.unit)) = n /\ a.unit = u /\ a.next = j /\ Address(a) = site
  BY <1>1, <1>3, <1>4
<1> QED
  BY <1>6, <1>7, <1>8, <1>9, <1>10

\* What can be reached is closed under calls.
LEMMA ReachCalls ==
  ASSUME IInv, Runs, NEW u \in {0} \cup Reach(calls), NEW j \in 1 .. Len(CallsOf(u))
  PROVE  CallsOf(u)[j] \in Reach(calls)
<1>1. PICK cs \in Seq(1 .. Known) : cs = CallsOf(u)
  BY UnitAt
<1>2. PICK t \in 1 .. Known : t = cs[j] /\ t \in ToSet(cs)
  <2>1. j \in 1 .. Len(cs) /\ j \in DOMAIN cs
    BY <1>1
  <2>2. cs[j] \in 1 .. Known
    <3>1. Known \in Nat
      BY DEF IInv, Typed, Known
    <3> QED
      BY <1>1, <2>1, <3>1
  <2>3. cs[j] \in ToSet(cs)
    BY <2>1 DEF ToSet
  <2> QED
    BY <2>2, <2>3
<1>3. DOMAIN subs = 1 .. Known
  BY DEF IInv, Typed, Known
<1>4. SUFFICES ASSUME NEW set \in SUBSET DOMAIN subs, ToSet(calls) \subseteq set, Closed(set)
               PROVE  t \in set
  BY <1>1, <1>2, <1>3 DEF Reach
<1>5. CASE u = 0
  BY <1>1, <1>2, <1>4, <1>5 DEF CallsOf
<1>6. CASE u # 0
  <2>1. u \in set
    BY <1>4, <1>6 DEF Reach
  <2> QED
    BY <1>1, <1>2, <1>4, <1>6, <2>1 DEF Closed, CallsOf
<1> QED
  BY <1>5, <1>6

\* The VM and its ghost change, and nothing else.
RunsOn ==
  /\ vm' \in [pc : Int, ret : Seq(Int)] /\ act' \in Seq([unit : 0 .. MaxSubs, next : Nat])
  /\ status' \in {"running", "reset"}
  /\ UNCHANGED <<mode, subs, tables, comp, open, chunk, calls, spent>>

LEMMA RunsOnOK ==
  ASSUME IInv, status = "running", RunsOn, Follows'
  PROVE  IInv' /\ Keeps(chunk, chunk')
<1>1. UNCHANGED <<mode, subs, tables, comp, open, chunk, calls, spent>>
      /\ status' # "compiling" /\ status' # "idle" /\ status' # "dead" /\ status # "compiling" /\ status # "idle"
      /\ status # "dead"
  BY DEF RunsOn
<1>2. Known' = Known /\ Here' = Here
  BY <1>1 DEF Known, Here
<1>3. Typed'
  BY <1>1, <1>2 DEF IInv, Typed, RunsOn
<1>4. ~ Compiles' /\ Between /\ ~ Compiles
  BY <1>1 DEF Compiles, Between
<1>5. Counted' /\ Nested' /\ Opened' /\ Entries' /\ FreshCode' /\ OpenCode' /\ MainCode'
  BY <1>1, <1>2, <1>4 DEF IInv, Counted, Nested, Opened, Entries, FreshCode, OpenCode, MainCode
<1>6. KeptCode'
  BY <1>1, <1>2 DEF IInv, KeptCode, KeptAt, Straight, CallCount, Linked
<1>7. References' /\ Tagged'
  BY <1>1, <1>2 DEF IInv, References, Tagged
<1>8. Keeps(chunk, chunk')
  BY <1>1, SelfKeeps
<1> QED
  BY <1>8, <1>3, <1>5, <1>6, <1>7 DEF IInv

LEMMA StopsOK ==
  ASSUME IInv, status = "running", Stops,
         UNCHANGED <<mode, subs, tables, comp, open, chunk, calls, spent>>
  PROVE  IInv' /\ Keeps(chunk, chunk')
<1>1. RunsOn
  BY DEF IInv, Typed, Stops, RunsOn
<1>2. Follows'
  BY DEF Stops, Follows
<1> QED
  BY <1>1, <1>2, RunsOnOK

\* What Follows says of the activations, from any state of them.
Stacked(pc, ret, acts) ==
  /\ Len(ret) + 1 = Len(acts)
  /\ \A i \in 1 .. Len(acts) : Active(acts[i])
  /\ pc = Address(acts[Len(acts)])
  /\ \A i \in 1 .. Len(ret) : ret[i] = Address(acts[i])

LEMMA StackedIs ==
  ASSUME IInv, Runs
  PROVE  Stacked(vm.pc, vm.ret, act)
BY DEF IInv, Runs, Follows, Stacked, Last

LEMMA StackedFollows ==
  ASSUME IInv, Runs, RunsOn, NEW pc, NEW ret, NEW acts, Stacked(pc, ret, acts),
         vm'.pc = pc, vm'.ret = ret, act' = acts
  PROVE  Follows'
<1>1. UNCHANGED <<subs, comp, chunk, calls>>
  BY DEF RunsOn
<1>2. \A a : Active(a)' <=> Active(a)
  BY <1>1 DEF Active, Reach, Closed, CallsOf
<1>3. \A a : Address(a)' = Address(a)
  BY <1>1 DEF Address, LocOf
<1>4. Sound(subs)'
  BY <1>1 DEF IInv, Runs, Follows, Sound, Reach, Closed
<1>5. Ended(chunk.code, 0, comp.entry, Len(calls))' /\ Linked(chunk, comp.entry, calls)'
  BY <1>1 DEF IInv, Runs, Follows, Linked
<1> QED
  BY <1>2, <1>3, <1>4, <1>5 DEF Follows, Stacked, Last

Activation == [unit : 0 .. MaxSubs, next : Nat]

LEMMA VMEnterOK ==
  ASSUME IInv, Runs, VMEnter, UNCHANGED <<mode, subs, tables, comp, open, chunk, calls, spent>>
  PROVE  IInv' /\ Keeps(chunk, chunk')
<1>1. PICK acts \in Seq(Activation), ret \in Seq(Int), pc \in Int :
        acts = act /\ ret = vm.ret /\ pc = vm.pc /\ vm \in [pc : Int, ret : Seq(Int)]
  BY DEF IInv, Typed, Activation
<1>2. Stacked(pc, ret, acts)
  BY <1>1, StackedIs
<1>3. PICK m \in Nat : m = Len(acts) /\ m # 0 /\ m \in 1 .. Len(acts)
  <2>1. Len(acts) \in Nat /\ Len(acts) # 0
    BY <1>1 DEF Runs
  <2> QED
    BY <2>1
<1>4. PICK a \in Activation : a = acts[m] /\ a = acts[Len(acts)]
  <2>1. acts[m] \in Activation
    BY <1>1, <1>3
  <2> QED
    BY <1>3, <2>1
<1>5. Active(a) /\ pc = Address(a)
  BY <1>2, <1>3, <1>4 DEF Stacked
<1>6. a.next = 0
  <2>1. At(Address(a)).op = "ENTER"
    BY <1>1, <1>5 DEF VMEnter
  <2>2. PICK n \in Nat : n = Len(CallsOf(a.unit))
    BY <1>5, UnitAt DEF Active
  <2>3. a.next \in 0 .. n + 1
    BY <1>5, <2>2 DEF Active
  <2>4. a.next \notin 1 .. n /\ a.next # n + 1
    BY <1>5, <2>1, <2>2, AddressIs
  <2>5. a.next \in Nat /\ a.next <= n + 1
    BY <2>2, <2>3
  <2>6. a.next = 0 \/ a.next \in 1 .. n \/ a.next = n + 1
    BY <2>2, <2>5
  <2> QED
    BY <2>4, <2>6
<1>7. PICK b \in Activation : b = [unit |-> a.unit, next |-> 1]
  BY <1>4 DEF Activation
<1>8. act' = [acts EXCEPT ![m] = b]
  <2>1. [a EXCEPT !.next = 1] = b
    BY <1>4, <1>7 DEF Activation
  <2>2. act' = [acts EXCEPT ![m].next = 1]
    BY <1>1, <1>3 DEF VMEnter
  <2>3. act' = [acts EXCEPT ![m] = [acts[m] EXCEPT !.next = 1]]
    BY <2>2
  <2> QED
    BY <1>4, <2>1, <2>3
<1>9. PICK acts2 \in Seq(Activation) :
        acts2 = act' /\ Len(acts2) = m /\ acts2[m] = b /\ \A i \in 1 .. m - 1 : acts2[i] = acts[i]
  <2>1. act' \in Seq(Activation)
    BY <1>1, <1>3, <1>7, <1>8
  <2>2. Len(act') = m /\ act'[m] = b /\ \A i \in 1 .. m - 1 : act'[i] = acts[i]
    BY <1>1, <1>3, <1>8
  <2> QED
    BY <2>1, <2>2
<1>10. Active(b) /\ Address(b) = pc + 3
  <2>1. LocOf(a.unit) \in Nat /\ Len(CallsOf(a.unit)) \in Nat
    BY <1>5, UnitAt DEF Active
  <2>2. pc = LocOf(a.unit)
    BY <1>5, <1>6 DEF Address, Site
  <2>3. Address(b) = LocOf(a.unit) + 1 + 2 * 1
    BY <1>7 DEF Address, Site
  <2>4. Active(b)
    BY <1>5, <1>7, <2>1 DEF Active
  <2> QED
    BY <2>1, <2>2, <2>3, <2>4
<1>11. vm' = [pc |-> pc + 3, ret |-> ret]
  BY <1>1 DEF VMEnter
<1>12. Stacked(pc + 3, ret, acts2)
  <2>1. Len(ret) + 1 = m /\ Len(ret) \in Nat
    BY <1>1, <1>2, <1>3 DEF Stacked
  <2>2. ASSUME NEW i \in 1 .. Len(acts2) PROVE Active(acts2[i])
    <3>1. CASE i = m
      BY <3>1, <1>9, <1>10
    <3>2. CASE i # m
      <4>1. i \in 1 .. m - 1 /\ i \in 1 .. Len(acts)
        BY <1>3, <1>9, <3>2
      <4> QED
        BY <4>1, <1>2, <1>9 DEF Stacked
    <3> QED
      BY <3>1, <3>2
  <2>3. ASSUME NEW i \in 1 .. Len(ret) PROVE ret[i] = Address(acts2[i])
    <3>1. i \in 1 .. m - 1
      BY <2>1
    <3> QED
      BY <3>1, <1>2, <1>9 DEF Stacked
  <2>4. pc + 3 = Address(acts2[Len(acts2)]) /\ Len(ret) + 1 = Len(acts2)
    BY <1>9, <1>10, <2>1
  <2> QED
    BY <2>2, <2>3, <2>4 DEF Stacked
<1>13. RunsOn
  <2>1. vm' \in [pc : Int, ret : Seq(Int)]
    BY <1>1, <1>11
  <2>2. status' = "running"
    BY DEF VMEnter, Runs
  <2> QED
    BY <1>9, <2>1, <2>2 DEF RunsOn, Activation
<1>14. Follows'
  BY <1>9, <1>11, <1>12, <1>13, StackedFollows
<1> QED
  BY <1>13, <1>14, RunsOnOK DEF Runs

LEMMA WithNext ==
  ASSUME NEW a \in Activation, NEW k \in Nat
  PROVE  [a EXCEPT !.next = k] = [unit |-> a.unit, next |-> k]
<1> DEFINE e == [a EXCEPT !.next = k]
           f == [unit |-> a.unit, next |-> k]
<1>1. e \in Activation /\ f \in Activation
  BY DEF Activation
<1>2. e.unit = f.unit /\ e.next = f.next
  BY DEF Activation
<1> HIDE DEF e, f
<1>3. e = f
  BY <1>1, <1>2 DEF Activation
<1> QED
  BY <1>3 DEF e, f

LEMMA VMCallOK ==
  ASSUME IInv, Runs, VMCall, UNCHANGED <<mode, subs, tables, comp, open, chunk, calls, spent>>
  PROVE  IInv' /\ Keeps(chunk, chunk')
<1>1. PICK acts \in Seq(Activation), ret \in Seq(Int), pc \in Int :
        acts = act /\ ret = vm.ret /\ pc = vm.pc /\ vm \in [pc : Int, ret : Seq(Int)]
  BY DEF IInv, Typed, Activation
<1>2. Stacked(pc, ret, acts)
  BY <1>1, StackedIs
<1>3. PICK m \in Nat : m = Len(acts) /\ m # 0 /\ m \in 1 .. Len(acts)
  <2>1. Len(acts) \in Nat /\ Len(acts) # 0
    BY <1>1 DEF Runs
  <2> QED
    BY <2>1
<1>4. PICK a \in Activation : a = acts[m] /\ a = acts[Len(acts)]
  <2>1. acts[m] \in Activation
    BY <1>1, <1>3
  <2> QED
    BY <1>3, <2>1
<1>5. Active(a) /\ pc = Address(a)
  BY <1>2, <1>3, <1>4 DEF Stacked
<1>6. PICK loc \in Nat, cs \in Seq(1 .. Known), n \in Nat :
        loc = LocOf(a.unit) /\ cs = CallsOf(a.unit) /\ n = Len(cs) /\ Linked(chunk, loc, cs)
  BY <1>5, UnitAt DEF Active
<1>7. PICK j \in 1 .. n : j = a.next
  <2>1. At(Address(a)).op = "CALL"
    BY <1>1, <1>5 DEF VMCall
  <2>2. a.next \in 0 .. n + 1
    BY <1>5, <1>6 DEF Active
  <2>3. a.next # 0 /\ a.next # n + 1
    BY <1>5, <1>6, <2>1, AddressIs
  <2>4. a.next \in Nat /\ a.next <= n + 1
    BY <1>6, <2>2
  <2> QED
    BY <2>3, <2>4
<1>8. PICK t \in 1 .. Known : t = cs[j] /\ t \in Reach(calls) /\ subs[t].loc \in Nat /\ t # 0
                              /\ t \in 0 .. MaxSubs
  <2>1. cs[j] \in Reach(calls)
    BY <1>5, <1>6, <1>7, ReachCalls DEF Active
  <2>2. Known \in Nat /\ Known <= MaxSubs /\ MaxSubs \in Nat
    BY SessionAssumption DEF IInv, Typed, Known
  <2>3. cs[j] \in 1 .. Known
    BY <1>6, <1>7, <2>2
  <2>4. cs[j] # 0 /\ cs[j] \in 0 .. MaxSubs
    BY <2>2, <2>3
  <2>5. subs[cs[j]].loc \in Nat
    BY <2>1, <2>4, UnitAt DEF LocOf
  <2> QED
    BY <2>1, <2>3, <2>4, <2>5
<1>9. pc = Site(loc, j) /\ At(pc).arg = subs[t].loc - pc - BranchSize
  BY <1>5, <1>6, <1>7, <1>8 DEF Address, Linked, ArgAt, At
<1>10. pc + BranchSize + At(pc).arg = subs[t].loc
  <2>1. PICK l \in Nat : l = subs[t].loc
    BY <1>8
  <2>2. PICK arg : arg = At(pc).arg
    OBVIOUS
  <2>3. arg = l - pc - 2
    BY <1>9, <2>1, <2>2 DEF BranchSize
  <2>4. pc + 2 + arg = l
    <3>1. pc \in Int /\ l \in Int
      BY <2>1
    <3> QED
      BY <3>1, <2>3
  <2> QED
    BY <2>1, <2>2, <2>4 DEF BranchSize
<1>11. PICK b \in Activation : b = [unit |-> a.unit, next |-> j + 1]
  <2>1. j + 1 \in Nat
    BY <1>6, <1>7
  <2> QED
    BY <1>4, <2>1 DEF Activation
<1>12. PICK d \in Activation : d = [unit |-> t, next |-> 0]
  BY <1>8 DEF Activation
<1>13. Active(b) /\ Address(b) = pc + BranchSize
  <2>1. Active(b)
    <3>1. j + 1 \in 0 .. n + 1
      BY <1>7
    <3> QED
      BY <1>5, <1>6, <1>11, <3>1 DEF Active
  <2>2. Address(b) = loc + 1 + 2 * (j + 1)
    BY <1>6, <1>7, <1>11 DEF Address, Site
  <2>3. pc = loc + 1 + 2 * j
    BY <1>7, <1>9 DEF Site
  <2> QED
    BY <1>6, <1>7, <2>1, <2>2, <2>3 DEF BranchSize
<1>14. Active(d) /\ Address(d) = subs[t].loc
  <2>1. Len(CallsOf(t)) \in Nat
    BY <1>8, UnitAt
  <2>2. 0 \in 0 .. Len(CallsOf(t)) + 1
    BY <2>1
  <2> QED
    BY <1>8, <1>12, <2>2 DEF Active, Address, Site, LocOf
<1>15. CASE Len(vm.ret) = RetSlots
  BY <1>15, StopsOK DEF VMCall, Runs
<1>16. CASE Len(vm.ret) # RetSlots
  <2>1. /\ vm' = [pc |-> pc + BranchSize + At(pc).arg, ret |-> Append(ret, pc + BranchSize)]
        /\ act' = Append([act EXCEPT ![Len(act)].next = @ + 1],
                         [unit |-> CallsOf(Last(act).unit)[Last(act).next], next |-> 0])
        /\ status' = status
    BY <1>1, <1>16 DEF VMCall
  <2>2. Last(act) = a
    BY <1>1, <1>4 DEF Last
  <2>3. act' = Append([act EXCEPT ![Len(act)].next = @ + 1], d)
    BY <2>1, <2>2, <1>6, <1>7, <1>8, <1>12
  <2>4. PICK acts2 \in Seq(Activation) :
          /\ acts2 = [acts EXCEPT ![m] = b]
          /\ Len(acts2) = m /\ acts2[m] = b /\ \A i \in 1 .. m - 1 : acts2[i] = acts[i]
    <3> DEFINE x == [acts EXCEPT ![m] = b]
    <3>1. x \in Seq(Activation)
      BY <1>1, <1>3, <1>11
    <3>2. Len(x) = m /\ x[m] = b /\ \A i \in 1 .. m - 1 : x[i] = acts[i]
      BY <1>1, <1>3
    <3> QED
      BY <3>1, <3>2
  <2>5. act' = Append(acts2, d)
    <3>1. [act EXCEPT ![Len(act)].next = @ + 1] = [acts EXCEPT ![m] = [acts[m] EXCEPT !.next = acts[m].next + 1]]
      BY <1>1, <1>3
    <3>2. [a EXCEPT !.next = a.next + 1] = b
      <4>1. a.next + 1 = j + 1
        BY <1>7
      <4>2. [a EXCEPT !.next = j + 1] = b
        <5>1. PICK k \in Nat : k = j + 1
          BY <1>6, <1>7
        <5>2. [a EXCEPT !.next = k] = [unit |-> a.unit, next |-> k]
          BY <1>4, <5>1, WithNext
        <5> QED
          BY <1>11, <5>1, <5>2
      <4> QED
        BY <4>1, <4>2
    <3>3. [act EXCEPT ![Len(act)].next = @ + 1] = acts2
      BY <1>4, <2>4, <3>1, <3>2
    <3> QED
      BY <2>3, <3>3
  <2>6. PICK acts3 \in Seq(Activation) :
          /\ acts3 = act' /\ Len(acts3) = m + 1 /\ acts3[m + 1] = d /\ acts3[m] = b
          /\ \A i \in 1 .. m - 1 : acts3[i] = acts[i]
    <3>1. Append(acts2, d) \in Seq(Activation) /\ Len(Append(acts2, d)) = m + 1
          /\ Append(acts2, d)[m + 1] = d
      BY <1>12, <2>4
    <3>2. \A i \in 1 .. m : Append(acts2, d)[i] = acts2[i]
      BY <1>12, <2>4
    <3>3. Append(acts2, d)[m] = b /\ \A i \in 1 .. m - 1 : Append(acts2, d)[i] = acts[i]
      BY <1>3, <2>4, <3>2
    <3> QED
      BY <2>5, <3>1, <3>3
  <2>7. Len(ret) + 1 = m /\ Len(ret) \in Nat
    BY <1>1, <1>2, <1>3 DEF Stacked
  <2>8. PICK ret2 \in Seq(Int) : /\ ret2 = Append(ret, pc + BranchSize) /\ Len(ret2) = m
                                 /\ ret2[m] = Address(b) /\ \A i \in 1 .. m - 1 : ret2[i] = ret[i]
    <3>1. PICK back \in Int : back = pc + BranchSize /\ back = Address(b)
      BY <1>1, <1>13 DEF BranchSize
    <3>2. Append(ret, back) \in Seq(Int) /\ Len(Append(ret, back)) = m /\ Append(ret, back)[m] = back
      BY <1>1, <2>7
    <3>3. \A i \in 1 .. m - 1 : Append(ret, back)[i] = ret[i]
      BY <1>1, <2>7
    <3> QED
      BY <3>1, <3>2, <3>3
  <2>9. PICK to \in Int : to = pc + BranchSize + At(pc).arg /\ to = Address(d)
    BY <1>8, <1>10, <1>14
  <2>10. vm' = [pc |-> to, ret |-> ret2]
    BY <2>1, <2>8, <2>9
  <2>11. Stacked(to, ret2, acts3)
    <3>1. ASSUME NEW i \in 1 .. Len(acts3) PROVE Active(acts3[i])
      <4>1. i = m + 1 \/ i = m \/ (i \in 1 .. m - 1 /\ i \in 1 .. Len(acts))
        BY <1>3, <2>6
      <4>2. i \in 1 .. Len(acts) => Active(acts[i])
        BY <1>2 DEF Stacked
      <4> QED
        BY <4>1, <4>2, <2>6, <1>13, <1>14
    <3>2. ASSUME NEW i \in 1 .. Len(ret2) PROVE ret2[i] = Address(acts3[i])
      <4>1. i = m \/ (i \in 1 .. m - 1 /\ i \in 1 .. Len(ret))
        BY <2>7, <2>8
      <4>2. i \in 1 .. Len(ret) => ret[i] = Address(acts[i])
        BY <1>2 DEF Stacked
      <4> QED
        BY <4>1, <4>2, <2>6, <2>8
    <3>3. to = Address(acts3[Len(acts3)]) /\ Len(ret2) + 1 = Len(acts3)
      BY <2>6, <2>8, <2>9
    <3> QED
      BY <3>1, <3>2, <3>3 DEF Stacked
  <2>12. RunsOn
    <3>1. vm' \in [pc : Int, ret : Seq(Int)]
      BY <2>10
    <3>2. status' = "running"
      BY <2>1 DEF Runs
    <3> QED
      BY <2>6, <3>1, <3>2 DEF RunsOn, Activation
  <2>13. vm'.pc = to /\ vm'.ret = ret2
    BY <2>10
  <2>14. Follows'
    BY <2>6, <2>11, <2>12, <2>13, StackedFollows
  <2> QED
    BY <2>12, <2>14, RunsOnOK DEF Runs
<1> QED
  BY <1>15, <1>16

LEMMA FrontIs ==
  ASSUME NEW S, NEW s \in Seq(S), NEW n \in Nat, Len(s) = n + 1
  PROVE  Front(s) \in Seq(S) /\ Len(Front(s)) = n /\ \A i \in 1 .. n : Front(s)[i] = s[i]
<1>1. Front(s) = SubSeq(s, 1, n)
  BY DEF Front
<1>2. \A i \in 1 .. n : s[i] \in S
  <2>1. \A i \in 1 .. n : i \in 1 .. Len(s)
    OBVIOUS
  <2> QED
    BY <2>1
<1>3. SubSeq(s, 1, n) \in Seq(S)
  BY <1>2, SubSeqProperties
<1>4. Len(SubSeq(s, 1, n)) = n /\ \A i \in 1 .. n : SubSeq(s, 1, n)[i] = s[i]
  OBVIOUS
<1> QED
  BY <1>1, <1>3, <1>4

LEMMA VMExitOK ==
  ASSUME IInv, Runs, VMExit, UNCHANGED <<mode, subs, tables, comp, open, chunk, calls, spent>>
  PROVE  IInv' /\ Keeps(chunk, chunk')
<1>1. PICK acts \in Seq(Activation), ret \in Seq(Int), pc \in Int :
        acts = act /\ ret = vm.ret /\ pc = vm.pc
  BY DEF IInv, Typed, Activation
<1>2. Stacked(pc, ret, acts)
  BY <1>1, StackedIs
<1>3. CASE vm.ret = << >>
  BY <1>3, StopsOK DEF VMExit, Runs
<1>4. CASE vm.ret # << >>
  <2>1. PICK n \in Nat : Len(ret) = n + 1 /\ Len(acts) = n + 2 /\ n + 1 \in Nat
    <3>1. Len(ret) \in Nat /\ Len(ret) # 0 /\ Len(ret) + 1 = Len(acts)
      BY <1>1, <1>2, <1>4 DEF Stacked
    <3>2. PICK n \in Nat : n = Len(ret) - 1
      BY <3>1
    <3> QED
      BY <3>1, <3>2
  <2>2. PICK ret2 \in Seq(Int) : ret2 = Front(ret) /\ Len(ret2) = n /\ \A i \in 1 .. n : ret2[i] = ret[i]
    <3>1. ret \in Seq(Int) /\ Len(ret) = n + 1 /\ n \in Nat
      BY <1>1, <2>1
    <3>2. Front(ret) \in Seq(Int) /\ Len(Front(ret)) = n /\ \A i \in 1 .. n : Front(ret)[i] = ret[i]
      BY <3>1, FrontIs, Zenon
    <3> QED
      BY <3>2
  <2>3. PICK acts2 \in Seq(Activation) :
          acts2 = Front(acts) /\ Len(acts2) = n + 1 /\ \A i \in 1 .. n + 1 : acts2[i] = acts[i]
    <3>1. PICK k \in Nat : k = n + 1 /\ Len(acts) = k + 1
      BY <2>1
    <3>2. Front(acts) \in Seq(Activation) /\ Len(Front(acts)) = k
          /\ \A i \in 1 .. k : Front(acts)[i] = acts[i]
      BY <3>1, FrontIs
    <3> QED
      BY <3>1, <3>2
  <2>4. PICK to \in Int : to = Last(ret) /\ to = Address(acts2[n + 1])
    <3>1. n + 1 \in 1 .. Len(ret) /\ n + 1 \in 1 .. n + 1
      BY <2>1
    <3>2. ret[n + 1] \in Int
      BY <1>1, <3>1
    <3>3. Last(ret) = ret[n + 1]
      BY <2>1 DEF Last
    <3>4. ret[n + 1] = Address(acts[n + 1]) /\ acts2[n + 1] = acts[n + 1]
      BY <1>2, <2>3, <3>1 DEF Stacked
    <3> QED
      BY <3>2, <3>3, <3>4
  <2>5. vm' = [pc |-> to, ret |-> ret2] /\ act' = acts2 /\ status' = "running"
    BY <1>1, <1>4, <2>2, <2>3, <2>4 DEF VMExit, Runs
  <2>6. Stacked(to, ret2, acts2)
    <3>1. ASSUME NEW i \in 1 .. Len(acts2) PROVE Active(acts2[i])
      <4>1. i \in 1 .. n + 1 /\ i \in 1 .. Len(acts)
        BY <2>1, <2>3
      <4> QED
        BY <4>1, <1>2, <2>3 DEF Stacked
    <3>2. ASSUME NEW i \in 1 .. Len(ret2) PROVE ret2[i] = Address(acts2[i])
      <4>1. i \in 1 .. n + 1 /\ i \in 1 .. n /\ i \in 1 .. Len(ret)
        BY <2>1, <2>2
      <4> QED
        BY <4>1, <1>2, <2>2, <2>3 DEF Stacked
    <3>3. to = Address(acts2[Len(acts2)]) /\ Len(ret2) + 1 = Len(acts2)
      BY <2>2, <2>3, <2>4
    <3> QED
      BY <3>1, <3>2, <3>3 DEF Stacked
  <2>7. RunsOn
    <3>1. vm' \in [pc : Int, ret : Seq(Int)]
      BY <2>5
    <3> QED
      BY <2>5, <3>1 DEF RunsOn, Activation
  <2>8. vm'.pc = to /\ vm'.ret = ret2
    BY <2>5
  <2>9. Follows'
    BY <2>5, <2>6, <2>7, <2>8, StackedFollows
  <2> QED
    BY <2>7, <2>9, RunsOnOK DEF Runs
<1> QED
  BY <1>3, <1>4

LEMMA RunOK ==
  ASSUME IInv, Run
  PROVE  IInv' /\ Keeps(chunk, chunk')
<1>1. status = "running" /\ UNCHANGED <<mode, subs, tables, comp, open, chunk, calls, spent>>
  BY DEF Run
<1>2. CASE Derailed
  BY <1>1, <1>2, StopsOK DEF Derailed
<1>3. CASE act # << >> /\ (VMEnter \/ VMCall \/ VMExit)
  BY <1>1, <1>3, VMEnterOK, VMCallOK, VMExitOK DEF Runs
<1> QED
  BY <1>2, <1>3 DEF Run

\* What has been settled stays where it is, if what is in front of the entry
\* point does.
LEMMA ChunkResetOK ==
  ASSUME IInv, Between
  PROVE  LET e == ChunkReset(chunk)
         IN  e \in Chunk /\ Fitted(e) /\ Keeps(chunk, e) /\ e.entry = chunk.entry /\ Len(e.code) = chunk.entry
<1>1. PICK c \in Chunk : c = chunk /\ Fitted(c)
  BY DEF IInv, Typed
<1>2. PICK n \in Nat : n = c.entry /\ n <= Len(c.code)
  BY <1>1 DEF IInv, Entries, Here, Chunk
<1>3. PICK code \in Seq(Words) : /\ code = SubSeq(c.code, 1, n) /\ Len(code) = n
                                 /\ \A i \in 1 .. n : code[i] = c.code[i]
  <2>1. c.code \in Seq(Words)
    BY DEF Chunk
  <2>2. \A i \in 1 .. n : i \in 1 .. Len(c.code)
    BY <1>2, <2>1
  <2>3. \A i \in 1 .. n : c.code[i] \in Words
    BY <2>1, <2>2
  <2>4. SubSeq(c.code, 1, n) \in Seq(Words)
    BY <2>3, SubSeqProperties
  <2>5. Len(SubSeq(c.code, 1, n)) = n /\ \A i \in 1 .. n : SubSeq(c.code, 1, n)[i] = c.code[i]
    BY <2>1, <1>2
  <2> QED
    BY <2>4, <2>5
<1>4. PICK S : S = {i \in DOMAIN c.lines : c.lines[i].offset < n}
  OBVIOUS
<1>5. PICK l \in Nat : l = Len(c.lines) /\ c.lines \in Seq(Lines) /\ DOMAIN c.lines = 1 .. l
  BY DEF Chunk
<1>6. PICK k \in Nat : k = Cardinality(S) /\ k <= l
  <2>1. IsFiniteSet(1 .. l) /\ Cardinality(1 .. l) = l
    BY FS_Interval, <1>5
  <2>2. S \subseteq 1 .. l
    BY <1>4, <1>5
  <2>3. IsFiniteSet(S) /\ Cardinality(S) <= Cardinality(1 .. l)
    BY <2>1, <2>2, FS_Subset
  <2>4. Cardinality(S) \in Nat
    BY <2>3, FS_CardinalityType
  <2> QED
    BY <2>1, <2>3, <2>4
<1>7. PICK lines \in Seq(Lines) : lines = SubSeq(c.lines, 1, k)
  <2>1. \A i \in 1 .. k : i \in 1 .. l
    BY <1>6
  <2>2. \A i \in 1 .. k : c.lines[i] \in Lines
    BY <1>5, <2>1
  <2>3. SubSeq(c.lines, 1, k) \in Seq(Lines)
    BY <2>2, SubSeqProperties
  <2> QED
    BY <2>3
<1>8. ChunkReset(c) = [c EXCEPT !.code = code, !.lines = lines]
  BY <1>2, <1>3, <1>4, <1>6, <1>7 DEF ChunkReset
<1>9. PICK e : e = [c EXCEPT !.code = code, !.lines = lines]
  OBVIOUS
<1>10. e \in Chunk /\ e.code = code /\ e.entry = n /\ e.count = c.count /\ e.cap = c.cap
  BY <1>2, <1>9 DEF Chunk
<1>11. Fitted(e) /\ Keeps(c, e)
  BY <1>1, <1>2, <1>3, <1>10 DEF Fitted, Keeps
<1> QED
  BY <1>1, <1>2, <1>3, <1>8, <1>9, <1>10, <1>11

LEMMA ResetReplOK ==
  ASSUME IInv, Reset, mode = "repl"
  PROVE  IInv' /\ Keeps(chunk, chunk')
<1>1. /\ status = "reset" /\ status' = "idle" /\ comp' = CompilerReset(comp) /\ chunk' = ChunkReset(chunk)
      /\ UNCHANGED <<mode, subs, tables, open, calls, vm, act, spent>>
  BY DEF Reset
<1>2. Between /\ ~ Compiles /\ ~ Compiles' /\ Between'
  BY <1>1 DEF Between, Compiles
<1>3. /\ chunk' \in Chunk /\ Fitted(chunk') /\ Keeps(chunk, chunk') /\ chunk'.entry = chunk.entry
      /\ Len(chunk'.code) = chunk.entry
  BY <1>1, <1>2, ChunkResetOK
<1>4. /\ comp' \in Compiler /\ comp'.scope = comp.scope /\ comp'.refs = << >> /\ comp'.entry = comp.entry
  <2>1. PICK locals \in [1 .. MaxScope -> 0 .. MaxSubs] : locals = [i \in 1 .. MaxScope |-> 0]
    <3>1. 0 \in 0 .. MaxSubs
      BY SessionAssumption
    <3> QED
      BY <3>1
  <2>2. PICK refs \in Seq(Reference) : refs = << >>
    <3>1. << >> \in Seq(Reference)
      OBVIOUS
    <3> QED
      BY <3>1
  <2>3. comp' = [comp EXCEPT !.refs = refs, !.error = FALSE, !.stack = 0, !.locals = locals]
    BY <1>1, <2>1, <2>2 DEF CompilerReset
  <2>4. comp \in Compiler
    BY DEF IInv, Typed
  <2> QED
    BY <2>2, <2>3, <2>4 DEF Compiler
<1>5. Known' = Known /\ LocsStay /\ Known \in Nat
  BY <1>1 DEF IInv, Typed, Known, LocsStay
<1>6. Typed'
  BY <1>1, <1>3, <1>4, <1>5 DEF IInv, Typed
<1>7. Counted'
  BY <1>1, <1>5 DEF IInv, Counted
<1>8. Nested' /\ Opened'
  BY <1>1, <1>2, <1>4, <1>5 DEF IInv, Nested, Opened
<1>9. Here' = chunk'.entry /\ Here' \in Nat
  BY <1>3 DEF Here, Chunk
<1>10. Entries'
  BY <1>2, <1>3, <1>4, <1>9 DEF IInv, Entries
<1>11. KeptCode'
  <2>1. SUFFICES ASSUME NEW s \in 1 .. Known, subs[s].fate = "kept", Straight(s)
                 PROVE  KeptAt(s)'
    BY <1>1, <1>5 DEF KeptCode, Straight
  <2>2. subs'[s].loc = subs[s].loc /\ subs'[s].calls = subs[s].calls
    BY <1>1
  <2> QED
    BY <2>1, <2>2, <1>3, <1>5, KeptStays
<1>12. FreshCode' /\ OpenCode' /\ MainCode'
  BY <1>2 DEF FreshCode, OpenCode, MainCode
<1>13. References'
  BY <1>4 DEF References
<1>14. Tagged'
  <2>1. SUFFICES ASSUME NEW i \in 1 .. Here', chunk'.code[i].tag[1] # 0
                 PROVE  /\ chunk'.code[i].tag[1] \in 1 .. Known
                        /\ subs[chunk'.code[i].tag[1]].fate = "kept" => i <= chunk'.entry
    BY <1>1, <1>5 DEF Tagged
  <2>2. i \in 1 .. chunk.entry /\ i <= chunk'.entry
    BY <1>3, <1>9
  <2>3. i \in 1 .. Here
    <3>1. chunk.entry <= Here /\ Here \in Nat /\ chunk.entry \in Nat
      BY DEF IInv, Entries, Typed, Chunk, Here
    <3> QED
      BY <2>2, <3>1
  <2>4. chunk'.code[i] = chunk.code[i]
    BY <1>3, <2>2 DEF Keeps
  <2> QED
    BY <2>1, <2>2, <2>3, <2>4 DEF IInv, Tagged
<1>15. Follows'
  BY <1>1 DEF Follows
<1>16. Keeps(chunk, chunk')
  BY <1>3
<1> QED
  BY <1>16, <1>6, <1>7, <1>8, <1>10, <1>11, <1>12, <1>13, <1>14, <1>15 DEF IInv

\* Nothing but the status changes, from one of those between texts.
LEMMA StatusOK ==
  ASSUME IInv, UNCHANGED <<mode, subs, tables, comp, open, chunk, calls, vm, act, spent>>,
         status' = status \/ (Between /\ status # "idle" /\ status' = "quit")
  PROVE  IInv' /\ Keeps(chunk, chunk')
<1>1. Known' = Known /\ Here' = Here /\ (Compiles' <=> Compiles) /\ (Between' => Between)
      /\ (status' = "idle" => status = "idle") /\ (status' # "idle" => status # "idle")
      /\ (status' = "running" => status = "running")
      /\ status' \in {"idle", "compiling", "running", "reset", "dead", "quit"}
  BY DEF IInv, Typed, Known, Here, Compiles, Between
<1>2. Typed' /\ Counted'
  BY <1>1 DEF IInv, Typed, Counted
<1>3. Nested' /\ Opened'
  BY <1>1 DEF IInv, Nested, Opened
<1>4. Entries' /\ OpenCode'
  BY <1>1 DEF IInv, Entries, OpenCode
<1>5. KeptCode'
  BY <1>1 DEF IInv, KeptCode, KeptAt, Straight, CallCount, Linked
<1>6. FreshCode'
  BY <1>1 DEF IInv, FreshCode, FreshAt, Straight, CallCount, Noticed, Top
<1>7. MainCode'
  BY <1>1 DEF IInv, MainCode, InBody, Noticed
<1>8. References' /\ Tagged'
  BY <1>1 DEF IInv, References, Tagged
<1>9. Follows'
  BY <1>1 DEF IInv, Follows, Linked, Sound, Reach, Closed, Active, CallsOf, Address, LocOf
<1>10. Keeps(chunk, chunk')
  BY SelfKeeps
<1> QED
  BY <1>10, <1>2, <1>3, <1>4, <1>5, <1>6, <1>7, <1>8, <1>9 DEF IInv

LEMMA ResetOK ==
  ASSUME IInv, Reset
  PROVE  IInv' /\ Keeps(chunk, chunk')
<1>1. CASE mode = "repl"
  BY <1>1, ResetReplOK
<1>2. CASE mode # "repl"
  BY <1>2, StatusOK DEF Reset, Between
<1> QED
  BY <1>1, <1>2

LEMMA NextOK ==
  ASSUME IInv, [Next]_vars
  PROVE  IInv' /\ Keeps(chunk, chunk')
<1>1. CASE UNCHANGED vars
  BY <1>1, StatusOK DEF vars
<1>2. CASE Step
  BY <1>2, EndSubroutineOK, EndTextOK, RunOK, ResetOK DEF Step
<1>3. CASE BeginText
  BY <1>3, BeginTextOK
<1>4. CASE \E block \in Blocks : VarBlock(block)
  BY <1>4, VarBlockOK
<1>5. CASE \E n \in Names : DefinitionBlock(n) \/ CallStmt(n)
  BY <1>5, DefinitionBlockOK, CallStmtOK
<1>6. CASE \E n \in Names, ps \in Parameters, forward \in BOOLEAN : SubroutineBlock(n, ps, forward)
  BY <1>6, SubroutineBlockOK
<1>7. CASE BeginBlock \/ End \/ TextEnds
  BY <1>7, BeginBlockOK, EndOK, TextEndsOK
<1> QED
  BY <1>1, <1>2, <1>3, <1>4, <1>5, <1>6, <1>7 DEF Next

\* What every state of a session satisfies.
THEOREM Inductive == Spec => []IInv
<1>1. Init => IInv
  BY InitOK
<1>2. IInv /\ [Next]_vars => IInv'
  BY NextOK
<1> QED
  BY <1>1, <1>2, PTL DEF Spec

\* The types of the variables, and what TypeOK says beyond them: the scopes
\* fit their array, a text begins at global scope and without references, and
\* references are to CALLs (Data.c: CompilerPushSubroutine, PushReference).
LEMMA TypedOK == IInv => TypeOK
<1> SUFFICES ASSUME IInv PROVE TypeOK
  OBVIOUS
<1>1. Known \in Nat /\ Known <= MaxSubs /\ MaxSubs \in Nat
  BY SessionAssumption DEF IInv, Typed, Known
<1>2. Seq(1 .. Known) \subseteq Seq(1 .. MaxSubs)
  <2>1. 1 .. Known \subseteq 1 .. MaxSubs
    BY <1>1
  <2>2. PICK k \in Nat, m \in Nat : k = Known /\ m = MaxSubs /\ 1 .. k \subseteq 1 .. m
    BY <1>1, <2>1
  <2>3. ASSUME NEW q \in Seq(1 .. k) PROVE q \in Seq(1 .. m)
    BY <2>2
  <2> QED
    BY <2>2, <2>3
<1>3. subs \in Seq([loc : Int, calls : Seq(1 .. MaxSubs), fate : {"fresh", "kept", "lost"},
                    holds : BOOLEAN])
  <2>1. PICK S : S = [loc : Int, calls : Seq(1 .. MaxSubs), fate : {"fresh", "kept", "lost"},
                      holds : BOOLEAN]
    OBVIOUS
  <2>2. Subroutine(Known) \subseteq S
    BY <1>2, <2>1 DEF Subroutine, Invalid
  <2>3. subs \in Seq(Subroutine(Known))
    BY DEF IInv, Typed
  <2>4. subs \in Seq(S)
    BY <2>2, <2>3
  <2> QED
    BY <2>1, <2>4
<1>4. tables \in [0 .. MaxSubs -> [Names -> Entities]]
  <2>1. Entity(Known) \subseteq Entities
    BY <1>1 DEF Entity, Entities
  <2>2. tables \in [0 .. MaxSubs -> [Names -> Entity(Known)]]
    BY DEF IInv, Typed
  <2> QED
    BY <2>1, <2>2
<1>5. /\ comp.scope \in 0 .. MaxScope - 1 /\ comp.locals \in [1 .. MaxScope -> 0 .. MaxSubs]
      /\ comp.stack \in Nat /\ comp.entry \in Nat /\ comp.last \in Nat /\ comp.refs \in Seq(Reference)
  BY DEF IInv, Typed, Compiler
<1>6. status = "idle" => comp.scope = 0 /\ comp.refs = <<>>
  BY DEF IInv, Nested, Entries, Between
<1>7. \A i \in DOMAIN comp.refs : At(comp.refs[i].site).op = "CALL"
  BY <1>5 DEF IInv, References, At
<1>8. chunk.code \in Seq(Words) /\ chunk.entry \in 0 .. Here
  <2>1. chunk.entry \in Nat /\ chunk.code \in Seq(Words)
    BY DEF IInv, Typed, Chunk
  <2>2. Here \in Nat /\ chunk.entry <= Here
    BY <2>1 DEF IInv, Entries, Here
  <2> QED
    BY <2>1, <2>2
<1>9. chunk.lines \in Seq([offset : Nat, count : 1 .. 8])
  BY DEF IInv, Typed, Chunk, Lines
<1>10. calls \in Seq(1 .. MaxSubs)
  BY <1>2 DEF IInv, Typed
<1>11. mode \in Modes /\ status \in {"idle", "compiling", "running", "reset", "dead", "quit"}
  BY DEF IInv, Typed
<1> QED
  BY <1>3, <1>4, <1>5, <1>6, <1>7, <1>8, <1>9, <1>10, <1>11 DEF TypeOK

\* Every state of a session has the types TypeOK states; no text is begun
\* within a scope or with references of one before (Compiler.c:
\* CompilerReset; Data.c: CompilerPushSubroutine).
THEOREM TypeCorrect == Spec => []TypeOK
BY Inductive, TypedOK, PTL

\* A name always means what the innermost open block says, the array of
\* scopes being that of the blocks (Data.c: FindIdentifier).
THEOREM ScopesRight == Spec => []NamesFound
<1>1. IInv => NamesFound
  BY NamesAgree DEF NamesFound, Compiles
<1> QED
  BY <1>1, Inductive, PTL

\* What runs is what the source says, in every text of the session
\* (Data.c: ResolveSubroutineReferences; PascalCompileRepl).
THEOREM RunsRight == Spec => []InStep
<1>1. ASSUME IInv, Runs
      PROVE  LET a == Last(act)
                 n == Len(CallsOf(a.unit))
             IN  /\ vm.pc < Here /\ At(vm.pc).tag = <<a.unit, a.next>>
                 /\ At(vm.pc).op = IF a.next = 0 THEN "ENTER" ELSE IF a.next <= n THEN "CALL" ELSE "EXIT"
  <2>1. PICK a : a = Last(act)
    OBVIOUS
  <2>2. Active(a) /\ vm.pc = Address(a)
    <3>1. Len(act) \in 1 .. Len(act)
      BY <1>1 DEF IInv, Typed, Runs
    <3> QED
      BY <1>1, <2>1, <3>1 DEF IInv, Runs, Follows, Last
  <2>3. PICK n \in Nat : n = Len(CallsOf(a.unit))
    BY <1>1, <2>2, UnitAt DEF Active
  <2>4. a.next \in 0 .. n + 1
    BY <2>2, <2>3 DEF Active
  <2>5. /\ Address(a) < Here /\ At(Address(a)).tag = <<a.unit, a.next>>
        /\ a.next = 0 => At(Address(a)).op = "ENTER"
        /\ a.next \in 1 .. n => At(Address(a)).op = "CALL"
        /\ a.next = n + 1 => At(Address(a)).op = "EXIT"
    BY <1>1, <2>2, <2>3, AddressIs
  <2>6. At(Address(a)).op = IF a.next = 0 THEN "ENTER" ELSE IF a.next <= n THEN "CALL" ELSE "EXIT"
    <3>1. CASE a.next = 0
      BY <2>5, <3>1
    <3>2. CASE a.next # 0 /\ a.next <= n
      BY <2>3, <2>4, <2>5, <3>2
    <3>3. CASE a.next # 0 /\ ~ (a.next <= n)
      <4>1. a.next = n + 1
        BY <2>3, <2>4, <3>3
      <4> QED
        BY <2>5, <3>3, <4>1
    <3> QED
      BY <3>1, <3>2, <3>3
  <2> QED
    BY <2>1, <2>2, <2>3, <2>5, <2>6
<1>2. IInv => InStep
  BY <1>1 DEF InStep, Runs
<1> QED
  BY <1>2, Inductive, PTL

\* No step cuts off or writes again the code of a subroutine that is kept
\* (Chunk.c: ChunkReset).
THEOREM Persists == Spec => KeepsSubroutines
<1>1. ASSUME IInv, [Next]_vars, NEW i \in DOMAIN chunk.code,
             chunk.code[i].tag[1] # 0, chunk.code[i].tag[1] \in DOMAIN subs,
             subs[chunk.code[i].tag[1]].fate = "kept"
      PROVE  i \in DOMAIN chunk'.code /\ chunk'.code[i] = chunk.code[i]
  <2>1. chunk \in Chunk /\ chunk' \in Chunk /\ Keeps(chunk, chunk')
    BY <1>1, NextOK DEF IInv, Typed
  <2>2. i \in 1 .. Here
    BY <2>1 DEF Chunk, Here
  <2>3. i <= chunk.entry
    BY <1>1, <2>2 DEF IInv, Tagged
  <2>4. i \in 1 .. chunk.entry /\ i \in 1 .. Len(chunk'.code)
    BY <2>1, <2>2, <2>3 DEF Chunk, Keeps
  <2> QED
    BY <2>1, <2>4 DEF Keeps, Chunk
<1>2. IInv /\ [Next]_vars => [\A i \in DOMAIN chunk.code :
                                LET s == chunk.code[i].tag[1]
                                IN  s # 0 /\ s \in DOMAIN subs /\ subs[s].fate = "kept" =>
                                      i \in DOMAIN chunk'.code /\ chunk'.code[i] = chunk.code[i]]_vars
  BY <1>1
<1> QED
  BY <1>2, Inductive, PTL DEF Spec, KeepsSubroutines

-----------------------------------------------------------------------------
(* Numbers *)

\* The first k rows of width w leave room for a shorter one among n.
LEMMA Rows ==
  ASSUME NEW k \in Nat, NEW n \in Nat, k < n, NEW w \in Nat, NEW size \in Nat, size <= w
  PROVE  k * w + size <= n * w
<1>1. PICK d \in Nat : n = k + 1 + d
  <2>1. n - k - 1 \in Nat /\ n = k + 1 + (n - k - 1)
    OBVIOUS
  <2> QED
    BY <2>1
<1>2. PICK a \in Nat : a = k * w
  BY PlaceNat
<1>3. PICK b \in Nat : b = d * w
  OBVIOUS
<1>4. n * w = a + w + b
  BY <1>1, <1>2, <1>3
<1> QED
  BY <1>2, <1>4

\* What holds at first and from each number to the next holds to the end.
LEMMA UpTo ==
  ASSUME NEW n \in Nat, NEW S, 0 \in S, \A i \in 1 .. n : i - 1 \in S => i \in S
  PROVE  n \in S
<1> DEFINE Bad == {k \in 0 .. n : k \notin S}
<1>1. SUFFICES ASSUME Bad # {} PROVE FALSE
  OBVIOUS
<1>2. Bad \subseteq Nat
  OBVIOUS
<1>3. PICK k \in Bad : \A i \in Bad : ~ (<<i, k>> \in OpToRel(<, Nat))
  <2> HIDE DEF Bad
  <2> QED
    BY <1>1, <1>2, WFMin, NatLessThanWellFounded, Zenon
<1>4. \A i \in Bad : ~ (i < k)
  <2> HIDE DEF Bad
  <2> QED
    BY <1>2, <1>3, Zenon DEF OpToRel
<1>5. k \in 1 .. n
  OBVIOUS
<1>6. k - 1 \in 0 .. n /\ k - 1 < k
  BY <1>5
<1>7. k - 1 \notin Bad
  <2> HIDE DEF Bad
  <2> QED
    BY <1>4, <1>6
<1> QED
  BY <1>5, <1>6, <1>7

-----------------------------------------------------------------------------
(* What a VAR block places *)

Beyond(v) == v.at + v.size
NewIn(t, u) == {n \in Names : u[n] # t[n]}

\* u is t with more variables, all between from and to and apart.
Within(v, from, to) == from <= v.at /\ Beyond(v) <= to
Placed(t, from, u, to, sure) ==
  /\ \A n \in NewIn(t, u) :
       /\ t[n] = Undefined /\ u[n].is = "var" /\ u[n].sure = sure
       /\ u[n].at \in Int /\ u[n].size \in Nat /\ Within(u[n], from, to)
  /\ \A n, m \in NewIn(t, u) : n # m => ~ Overlap(u[n], u[m])

LEMMA PlacedTwice ==
  ASSUME NEW t, NEW u, NEW v, NEW a \in Int, NEW b \in Int, NEW c \in Int, a <= b, b <= c, NEW sure,
         Placed(t, a, u, b, sure), Placed(u, b, v, c, sure)
  PROVE  Placed(t, a, v, c, sure)
<1>1. ASSUME NEW n \in NewIn(t, v)
      PROVE  \/ n \in NewIn(t, u) /\ v[n] = u[n] /\ n \notin NewIn(u, v)
             \/ n \in NewIn(u, v) /\ u[n] = t[n] /\ n \notin NewIn(t, u)
  BY DEF Placed, NewIn, Undefined
<1>2. ASSUME NEW n \in NewIn(t, v)
      PROVE  /\ t[n] = Undefined /\ v[n].is = "var" /\ v[n].sure = sure
             /\ v[n].at \in Int /\ v[n].size \in Nat /\ Within(v[n], a, c)
  BY <1>1 DEF Placed, Within, Beyond
<1>3. ASSUME NEW n \in NewIn(t, v), NEW m \in NewIn(t, v), n # m
      PROVE  ~ Overlap(v[n], v[m])
  <2>1. CASE n \in NewIn(t, u) /\ m \in NewIn(t, u)
    BY <1>1, <1>3, <2>1 DEF Placed
  <2>2. CASE n \in NewIn(u, v) /\ m \in NewIn(u, v)
    BY <1>3, <2>2 DEF Placed
  <2>3. CASE n \in NewIn(t, u) /\ m \in NewIn(u, v)
    <3>1. Within(v[n], a, b) /\ Within(v[m], b, c) /\ v[n].at \in Int /\ v[n].size \in Nat
          /\ v[m].at \in Int /\ v[m].size \in Nat
      BY <1>1, <2>3 DEF Placed
    <3> QED
      BY <3>1 DEF Within, Beyond, Overlap
  <2>4. CASE n \in NewIn(u, v) /\ m \in NewIn(t, u)
    <3>1. Within(v[m], a, b) /\ Within(v[n], b, c) /\ v[n].at \in Int /\ v[n].size \in Nat
          /\ v[m].at \in Int /\ v[m].size \in Nat
      BY <1>1, <2>4 DEF Placed
    <3> QED
      BY <3>1 DEF Within, Beyond, Overlap
  <2> QED
    BY <1>1, <2>1, <2>2, <2>3, <2>4
<1> QED
  BY <1>2, <1>3 DEF Placed

\* The i-th row, counted from 1.
Row(start, w, i) == start + (i - 1) * w

LEMMA RowsApart ==
  ASSUME NEW start \in Nat, NEW w \in Nat, NEW size \in Nat, size <= w, NEW i \in Nat \ {0},
         NEW j \in Nat \ {0}, i < j
  PROVE  Row(start, w, i) + size <= Row(start, w, j)
<1>1. PICK k \in Nat : k = i - 1
  OBVIOUS
<1>2. PICK n \in Nat : n = j - 1 /\ k < n
  BY <1>1
<1>3. k * w + size <= n * w
  BY <1>1, <1>2, Rows
<1>4. PICK a \in Nat : a = k * w
  OBVIOUS
<1>5. PICK b \in Nat : b = n * w
  OBVIOUS
<1> QED
  BY <1>1, <1>2, <1>3, <1>4, <1>5 DEF Row

LEMMA RowNat ==
  ASSUME NEW start \in Nat, NEW w \in Nat, NEW i \in Nat \ {0}
  PROVE  Row(start, w, i) \in Nat /\ start <= Row(start, w, i)
<1>1. PICK k \in Nat : k = i - 1
  OBVIOUS
<1>2. PICK a \in Nat : a = k * w
  OBVIOUS
<1> QED
  BY <1>1, <1>2 DEF Row

\* The list starts where the block is and takes a row for each name.
LEMMA ListPlaces ==
  ASSUME NEW m \in Nat, NEW c \in Chunk, NEW b \in BlockState(m, c), NEW d \in Declarations,
         NEW atGlobal \in BOOLEAN, NEW sure \in BOOLEAN,
         NEW w, w = RoundUp(d.size, IF atGlobal THEN GlobalAlign ELSE StackAlign),
         NEW e, e = VarList(b, d, atGlobal, sure)
  PROVE  /\ w \in Nat /\ d.size <= w
         /\ Placed(b.tab, b.base + b.total, e.tab, Row(b.base + b.total, w, Len(d.names) + 1), sure)
         /\ e.base = b.base /\ e.base + e.total = Row(b.base + b.total, w, Len(d.names) + 1)
         /\ e.total \in Nat /\ e.gone = b.gone /\ e.dead = b.dead /\ e.chunk = b.chunk
         /\ \A n \in NewIn(b.tab, e.tab) : n \in ToSet(d.names) /\ e.tab[n].size = d.size
         /\ Len(d.names) = 1 /\ b.tab[Head(d.names)] = Undefined => Head(d.names) \in NewIn(b.tab, e.tab)
<1> DEFINE isNew(i) == /\ b.tab[d.names[i]] = Undefined
                       /\ \A j \in 1 .. i - 1 : d.names[j] # d.names[i]
           new(n) == {i \in DOMAIN d.names : d.names[i] = n /\ isNew(i)}
<1>1. b.tab \in [Names -> Entity(m)] /\ b.base \in Nat /\ b.total \in Nat
  BY DEF BlockState
<1>2. d.names \in Seq(Names) /\ d.size \in Nat \ {0}
  BY DEF Declarations
<1>3. w \in Nat /\ d.size <= w
  <2>1. CASE atGlobal
    BY <1>2, <2>1 DEF RoundUp, GlobalAlign
  <2>2. CASE ~ atGlobal
    BY <1>2, <2>2 DEF RoundUp, StackAlign
  <2> QED
    BY <2>1, <2>2
<1>4. PICK start \in Nat : start = b.base + b.total
  BY <1>1
<1>5. PICK len \in Nat : len = Len(d.names) /\ DOMAIN d.names = 1 .. len
  BY <1>2
<1> DEFINE tab == [n \in Names |-> IF new(n) = {} THEN b.tab[n]
                      ELSE VarAt(b.base + b.total + ((CHOOSE i \in new(n) : TRUE) - 1) * w, d.size, sure)]
<1>6. e.tab = tab /\ e.base = b.base /\ e.gone = b.gone /\ e.dead = b.dead /\ e.chunk = b.chunk
      /\ e.total = b.total + len * w
  BY <1>5 DEF VarList, BlockState
<1>7. ASSUME NEW n \in NewIn(b.tab, e.tab)
      PROVE  \E i \in 1 .. len : /\ d.names[i] = n /\ isNew(i)
                                 /\ e.tab[n] = VarAt(Row(start, w, i), d.size, sure)
  <2>1. n \in Names /\ new(n) # {}
    BY <1>6 DEF NewIn
  <2>2. PICK i : i = (CHOOSE k \in new(n) : TRUE)
    OBVIOUS
  <2>3. i \in new(n)
    BY <2>1, <2>2
  <2>4. e.tab[n] = VarAt(start + (i - 1) * w, d.size, sure)
    BY <1>4, <1>6, <2>1, <2>2
  <2> QED
    BY <1>5, <2>3, <2>4 DEF Row
<1> HIDE DEF tab
<1>14. PICK next \in Nat \ {0} : next = len + 1
  OBVIOUS
<1>8. PICK end \in Nat : end = Row(start, w, len + 1) /\ start <= end
  BY <1>3, <1>4, <1>14, RowNat
<1>9. ASSUME NEW n \in NewIn(b.tab, e.tab)
      PROVE  /\ b.tab[n] = Undefined /\ e.tab[n].is = "var" /\ e.tab[n].sure = sure
             /\ e.tab[n].at \in Int /\ e.tab[n].size \in Nat /\ Within(e.tab[n], start, end)
             /\ n \in ToSet(d.names) /\ e.tab[n].size = d.size
  <2>1. PICK i \in 1 .. len : /\ d.names[i] = n /\ isNew(i)
                              /\ e.tab[n] = VarAt(Row(start, w, i), d.size, sure)
    BY <1>7
  <2>5. i \in Nat \ {0} /\ i < next
    BY <1>14
  <2>2. PICK at \in Nat : at = Row(start, w, i) /\ start <= at
    BY <1>3, <1>4, <2>5, RowNat
  <2>3. at + d.size <= end
    BY <1>2, <1>3, <1>8, <1>14, <2>2, <2>5, RowsApart
  <2>4. e.tab[n] = [is |-> "var", at |-> at, size |-> d.size, sure |-> sure]
    BY <2>1, <2>2 DEF VarAt
  <2> QED
    BY <1>2, <1>5, <2>1, <2>2, <2>3, <2>4 DEF Within, Beyond, ToSet
<1>10. ASSUME NEW n \in NewIn(b.tab, e.tab), NEW k \in NewIn(b.tab, e.tab), n # k
       PROVE  ~ Overlap(e.tab[n], e.tab[k])
  <2>1. PICK i \in 1 .. len : /\ d.names[i] = n /\ e.tab[n] = VarAt(Row(start, w, i), d.size, sure)
    BY <1>7
  <2>2. PICK j \in 1 .. len : /\ d.names[j] = k /\ e.tab[k] = VarAt(Row(start, w, j), d.size, sure)
    BY <1>7
  <2>3. PICK p \in Nat : p = Row(start, w, i)
    BY <1>3, <1>4, RowNat
  <2>4. PICK q \in Nat : q = Row(start, w, j)
    BY <1>3, <1>4, RowNat
  <2>5. p + d.size <= q \/ q + d.size <= p
    <3>1. i < j \/ j < i
      BY <1>10, <2>1, <2>2
    <3>4. i \in Nat \ {0} /\ j \in Nat \ {0}
      OBVIOUS
    <3>5. d.size \in Nat
      BY <1>2
    <3>2. CASE i < j
      BY <1>3, <1>4, <2>3, <2>4, <3>2, <3>4, <3>5, RowsApart
    <3>3. CASE j < i
      BY <1>3, <1>4, <2>3, <2>4, <3>3, <3>4, <3>5, RowsApart
    <3> QED
      BY <3>1, <3>2, <3>3
  <2>6. /\ e.tab[n].at = p /\ e.tab[n].size = d.size
        /\ e.tab[k].at = q /\ e.tab[k].size = d.size
    BY <2>1, <2>2, <2>3, <2>4 DEF VarAt
  <2> QED
    BY <1>2, <2>5, <2>6 DEF Overlap
<1>11. e.total \in Nat /\ e.base + e.total = end
  <2>1. PICK p \in Nat : p = len * w
    BY <1>3
  <2>2. Row(start, w, len + 1) = start + p
    BY <2>1 DEF Row
  <2> QED
    BY <1>1, <1>4, <1>6, <1>8, <2>1, <2>2
<1>12. ASSUME len = 1, b.tab[Head(d.names)] = Undefined
       PROVE  Head(d.names) \in NewIn(b.tab, e.tab)
  <2>1. PICK n \in Names : n = Head(d.names) /\ n = d.names[1]
    BY <1>2, <1>5, <1>12
  <2>2. 1 \in new(n)
    BY <1>5, <1>12, <2>1
  <2>3. PICK at : tab[n] = VarAt(at, d.size, sure)
    BY <2>1, <2>2 DEF tab
  <2>4. tab[n] # Undefined
    BY <2>3 DEF VarAt, Undefined
  <2> QED
    BY <1>6, <1>12, <2>1, <2>4 DEF NewIn
<1>13. Placed(b.tab, start, e.tab, end, sure)
  BY <1>9, <1>10 DEF Placed
<1> QED
  BY <1>3, <1>4, <1>5, <1>6, <1>8, <1>9, <1>11, <1>12, <1>13

Height(b) == b.base + b.total

LEMMA NothingPlaced ==
  ASSUME NEW t, NEW a, NEW sure
  PROVE  Placed(t, a, t, a, sure)
BY DEF Placed, NewIn

LEMMA DeclarePlaces ==
  ASSUME NEW m \in Nat, NEW c \in Chunk, NEW b \in BlockState(m, c), NEW d \in Declarations,
         NEW atGlobal \in BOOLEAN, NEW sure \in BOOLEAN,
         NEW e, e = Declare(b, d, atGlobal, sure)
  PROVE  /\ Placed(b.tab, Height(b), e.tab, Height(e), sure) /\ Height(b) <= Height(e)
         /\ NewIn(b.tab, e.tab) \subseteq ToSet(d.names)
<1>1. PICK w : w = RoundUp(d.size, IF atGlobal THEN GlobalAlign ELSE StackAlign)
  OBVIOUS
<1>2. PICK listed \in BlockState(m, c) : listed = VarList(b, d, atGlobal, sure)
  BY VarListOK
<1>3. PICK start \in Nat : start = Height(b)
  BY DEF BlockState, Height
<1>4. PICK next \in Nat \ {0} : next = Len(d.names) + 1
  BY DEF Declarations
<1>5. /\ w \in Nat /\ Placed(b.tab, start, listed.tab, Row(start, w, next), sure)
      /\ Height(listed) = Row(start, w, next) /\ NewIn(b.tab, listed.tab) \subseteq ToSet(d.names)
  BY <1>1, <1>2, <1>3, <1>4, ListPlaces, SMTT(20) DEF Height
<1>6. PICK end \in Nat : end = Height(listed) /\ start <= end
  BY <1>3, <1>4, <1>5, RowNat
<1>7. CASE e.tab = b.tab /\ Height(e) = start
  BY <1>3, <1>7, NothingPlaced DEF NewIn
<1>8. CASE e.tab = listed.tab /\ Height(e) = end
  BY <1>3, <1>5, <1>6, <1>8
<1>9. CASE b.gone \/ b.dead
  BY <1>3, <1>7, <1>9 DEF Declare
<1>10. CASE ~ (b.gone \/ b.dead) /\ ~ d.typed
  <2>1. e.tab = b.tab /\ e.base = b.base /\ e.total = b.total
    BY <1>10 DEF Declare, BlockState
  <2> QED
    BY <1>3, <1>7, <2>1 DEF Height
<1>11. CASE ~ (b.gone \/ b.dead) /\ d.typed /\ ~ d.init
  BY <1>2, <1>6, <1>8, <1>11 DEF Declare
<1>12. CASE ~ (b.gone \/ b.dead) /\ d.typed /\ d.init /\ listed.tab[Head(d.names)].is # "var"
  <2>1. e = [listed EXCEPT !.dead = TRUE]
    BY <1>2, <1>12 DEF Declare
  <2>2. e.tab = listed.tab /\ e.base = listed.base /\ e.total = listed.total
    BY <2>1 DEF BlockState
  <2> QED
    BY <1>6, <1>8, <2>2 DEF Height
<1>13. CASE ~ (b.gone \/ b.dead) /\ d.typed /\ d.init /\ listed.tab[Head(d.names)].is = "var"
  <2>1. e = Initialize(listed, d, atGlobal)
    BY <1>2, <1>13 DEF Declare
  <2>2. CASE ~ atGlobal
    <3>1. e.tab = listed.tab /\ e.base = listed.base /\ e.total = listed.total
      BY <2>1, <2>2 DEF Initialize, BlockState
    <3> QED
      BY <1>6, <1>8, <3>1 DEF Height
  <2>3. CASE atGlobal
    <3>1. e.tab = listed.tab /\ e.base = listed.base + listed.total /\ e.total = 0
      BY <2>1, <2>3 DEF Initialize, BlockState
    <3> QED
      BY <1>6, <1>8, <3>1 DEF Height
  <2> QED
    BY <2>2, <2>3
<1> QED
  BY <1>9, <1>10, <1>11, <1>12, <1>13

\* The block has as many bytes of global data as its variables take.
Exact(b) == b.base = b.chunk.count /\ ~ b.gone

LEMMA DeclareExact ==
  ASSUME NEW m \in Nat, NEW c \in Chunk, NEW b \in BlockState(m, c), NEW d \in Declarations,
         NEW sure \in BOOLEAN, NEW e, e = Declare(b, d, TRUE, sure), d.typed,
         d.init => Len(d.names) = 1 /\ b.total = 0 /\ b.tab[Head(d.names)] = Undefined,
         b.dead \/ Exact(b)
  PROVE  e.dead \/ (Exact(e) /\ (d.init => e.total = 0))
<1>1. CASE b.dead
  BY <1>1 DEF Declare
<1>2. CASE ~ b.dead
  <2>1. PICK listed \in BlockState(m, c) : listed = VarList(b, d, TRUE, sure)
    BY VarListOK
  <2>7. PICK atGlobal \in BOOLEAN : atGlobal
    OBVIOUS
  <2>8. listed = VarList(b, d, atGlobal, sure)
    BY <2>1, <2>7
  <2>2. PICK w : w = RoundUp(d.size, GlobalAlign) /\ w = RoundUp(d.size, IF atGlobal THEN GlobalAlign ELSE StackAlign)
    BY <2>7
  <2>3. /\ w \in Nat /\ listed.base = b.base /\ listed.chunk = b.chunk /\ listed.gone = b.gone
        /\ listed.base + listed.total = Row(b.base + b.total, w, Len(d.names) + 1)
        /\ \A n \in NewIn(b.tab, listed.tab) : listed.tab[n].size = d.size
        /\ Len(d.names) = 1 /\ b.tab[Head(d.names)] = Undefined => Head(d.names) \in NewIn(b.tab, listed.tab)
    BY <2>2, <2>8, ListPlaces
  <2>4. CASE ~ d.init
    BY <1>2, <2>1, <2>3, <2>4 DEF Declare, Exact
  <2>5. CASE d.init /\ listed.tab[Head(d.names)].is # "var"
    <3>1. e = [listed EXCEPT !.dead = TRUE]
      BY <1>2, <2>1, <2>5 DEF Declare, Exact
    <3> QED
      BY <3>1 DEF BlockState
  <2>6. CASE d.init /\ listed.tab[Head(d.names)].is = "var"
    <3>1. e = Initialize(listed, d, TRUE)
      BY <1>2, <2>1, <2>6 DEF Declare, Exact
    <3>2. listed.tab[Head(d.names)].size = d.size
      BY <2>3, <2>6
    <3>3. PICK base \in Nat : base = b.base
      BY DEF BlockState
    <3>4. listed.base + listed.total = base + w
      <4>1. Row(b.base + b.total, w, Len(d.names) + 1) = base + w
        <5>1. d.init /\ Len(d.names) = 1 /\ b.total = 0
          BY <2>6
        <5>2. b.base + b.total = base /\ Len(d.names) + 1 = 2
          BY <3>3, <5>1
        <5>3. base + (2 - 1) * w = base + w
          BY <2>3
        <5> QED
          BY <5>2, <5>3 DEF Row
      <4> QED
        BY <2>3, <4>1
    <3>5. PICK more : more = WriteGlobalData(b.chunk, d.size)
      OBVIOUS
    <3>6. more.count = b.chunk.count + w
      <4>1. b.chunk \in Chunk /\ Fitted(b.chunk) /\ d.size \in Nat
        BY DEF BlockState, Extended, Declarations
      <4> QED
        BY <2>2, <3>5, <4>1, GlobalDataKeepsCode
    <3>7. e.base = listed.base + listed.total /\ e.total = 0 /\ e.gone = listed.gone /\ e.chunk = more
      <4>1. Initialize(listed, d, TRUE) =
              [listed EXCEPT !.error = @ \/ Len(d.names) # 1, !.base = @ + listed.total, !.total = 0, !.chunk = more]
        BY <2>3, <3>2, <3>5 DEF Initialize
      <4>2. PICK wrong : wrong = (listed.error \/ Len(d.names) # 1)
        OBVIOUS
      <4>3. PICK next : next = listed.base + listed.total
        OBVIOUS
      <4>4. e = [listed EXCEPT !.error = wrong, !.base = next, !.total = 0, !.chunk = more]
        BY <3>1, <4>1, <4>2, <4>3
      <4>5. {"base", "total", "gone", "chunk"} \subseteq DOMAIN listed
        BY DEF BlockState
      <4>6. e.base = next /\ e.total = 0 /\ e.gone = listed.gone /\ e.chunk = more
        BY <4>4, <4>5
      <4> QED
        BY <4>3, <4>6
    <3> QED
      BY <1>2, <2>3, <3>3, <3>4, <3>6, <3>7 DEF Exact
  <2> QED
    BY <2>4, <2>5, <2>6
<1> QED
  BY <1>1, <1>2

LEMMA DeclaredPlaces ==
  ASSUME NEW m \in Nat, NEW c \in Chunk, NEW block \in Seq(Declarations),
         NEW atGlobal \in BOOLEAN, NEW sure \in BOOLEAN,
         NEW a, a = BlockStart(atGlobal), a \in BlockState(m, c),
         NEW b, b = Declared(block, atGlobal, sure)
  PROVE  /\ b \in BlockState(m, c) /\ Placed(a.tab, a.base, b.tab, Height(b), sure)
         /\ a.base <= Height(b)
<1>1. PICK n \in Nat : n = Len(block)
  OBVIOUS
<1>2. PICK g \in [0 .. n -> BlockState(m, c)] : DeclaresTo(g, block, atGlobal, sure, b)
  BY <1>1, DeclaredOK
<1>3. g[0] = a /\ g[n] = b
  BY <1>1, <1>2 DEF DeclaresTo
<1>4. PICK from \in Nat : from = a.base /\ from = Height(a)
  BY DEF BlockState, BlockStart, Height
<1> DEFINE S == {i \in 0 .. n : Placed(a.tab, from, g[i].tab, Height(g[i]), sure) /\ from <= Height(g[i])}
<1>5. 0 \in S
  BY <1>3, <1>4, NothingPlaced
<1>6. ASSUME NEW i \in 1 .. n, i - 1 \in S PROVE i \in S
  <2>1. PICK s \in BlockState(m, c) : s = g[i - 1]
    BY <1>2, <1>6
  <2>2. PICK e \in BlockState(m, c) : e = g[i]
    BY <1>2
  <2>3. e = Declare(s, block[i], atGlobal, sure) /\ block[i] \in Declarations
    BY <1>1, <1>2, <2>1, <2>2 DEF DeclaresTo
  <2>4. Placed(s.tab, Height(s), e.tab, Height(e), sure) /\ Height(s) <= Height(e)
    BY <2>3, DeclarePlaces
  <2>5. PICK mid \in Int : mid = Height(s)
    BY DEF BlockState, Height
  <2>6. PICK to \in Int : to = Height(e)
    BY DEF BlockState, Height
  <2>7. Placed(a.tab, from, s.tab, mid, sure) /\ from <= mid
    BY <1>6, <2>1, <2>5
  <2>8. Placed(a.tab, from, e.tab, to, sure)
    BY <2>4, <2>5, <2>6, <2>7, PlacedTwice
  <2>9. from <= to
    BY <2>4, <2>5, <2>6, <2>7
  <2> QED
    BY <2>2, <2>6, <2>8, <2>9
<1>7. n \in S
  <2> HIDE DEF S
  <2> QED
    BY <1>5, <1>6, UpTo
<1>8. b \in BlockState(m, c)
  BY <1>1, <1>2, <1>3
<1> QED
  BY <1>3, <1>4, <1>7, <1>8

\* Names of the first i declarations.
NamesUpTo(block, i) == UNION {ToSet(block[j].names) : j \in 1 .. i}

\* A regular block reserves what it places: initialised variables come first
\* and take their bytes at once, the others at the end.
LEMMA DeclaredExact ==
  ASSUME NEW m \in Nat, NEW c \in Chunk, NEW block \in Seq(Declarations), NEW sure \in BOOLEAN,
         NEW a, a = BlockStart(TRUE), a \in BlockState(m, c), a.base = a.chunk.count,
         NEW b, b = Declared(block, TRUE, sure), Regular(block, a.tab)
  PROVE  b.dead \/ Exact(b)
<1>1. PICK n \in Nat : n = Len(block) /\ DOMAIN block = 1 .. n
  OBVIOUS
<1>2. PICK g \in [0 .. n -> BlockState(m, c)] : DeclaresTo(g, block, TRUE, sure, b)
  <2>1. PICK global \in BOOLEAN : global = TRUE
    OBVIOUS
  <2>2. BlockStart(global) \in BlockState(m, c) /\ b = Declared(block, global, sure)
    BY <2>1
  <2>3. \E g \in [0 .. Len(block) -> BlockState(m, c)] : DeclaresTo(g, block, global, sure, b)
    BY <2>2, DeclaredOK
  <2> QED
    BY <1>1, <2>1, <2>3
<1>3. g[0] = a /\ g[n] = b
  BY <1>1, <1>2 DEF DeclaresTo
<1> DEFINE Ready(i) == i = 0 \/ block[i].init
           S == {i \in 0 .. n : /\ NewIn(a.tab, g[i].tab) \subseteq NamesUpTo(block, i)
                                /\ g[i].dead \/ (Exact(g[i]) /\ (Ready(i) => g[i].total = 0))}
<1>4. 0 \in S
  <2>1. NewIn(a.tab, g[0].tab) = {}
    BY <1>3 DEF NewIn
  <2>2. a.total = 0 /\ ~ a.gone
    BY DEF BlockStart
  <2> QED
    BY <1>3, <2>1, <2>2 DEF Exact
<1>5. ASSUME NEW i \in 1 .. n, i - 1 \in S PROVE i \in S
  <2>1. PICK k \in 0 .. n : k = i - 1
    OBVIOUS
  <2>2. PICK s \in BlockState(m, c) : s = g[k]
    BY <1>2
  <2>3. PICK e \in BlockState(m, c) : e = g[i]
    BY <1>2
  <2>4. PICK d \in Declarations : d = block[i]
    BY <1>1
  <2>5. e = Declare(s, d, TRUE, sure)
    BY <1>1, <1>2, <2>1, <2>2, <2>3, <2>4 DEF DeclaresTo
  <2>6. NewIn(a.tab, s.tab) \subseteq NamesUpTo(block, k) /\ (s.dead \/ Exact(s))
        /\ (s.dead \/ (Ready(k) => s.total = 0))
    BY <1>5, <2>1, <2>2
  <2>7. d.typed /\ (d.init => Len(d.names) = 1)
    BY <1>1, <2>4 DEF Regular
  <2>8. d.init => Ready(k)
    <3>1. SUFFICES ASSUME d.init, k # 0 PROVE block[k].init
      OBVIOUS
    <3>2. k \in DOMAIN block /\ i \in DOMAIN block /\ k < i
      BY <1>1, <2>1, <3>1
    <3> QED
      BY <2>4, <3>1, <3>2 DEF Regular
  <2>9. ASSUME d.init PROVE s.tab[Head(d.names)] = Undefined
    <3>1. PICK x \in Names : x = d.names[1] /\ x = Head(d.names) /\ 1 \in DOMAIN d.names
      BY <2>7, <2>9 DEF Declarations
    <3>2. i \in DOMAIN block
      BY <1>1
    <3>3. a.tab[x] = Undefined
      <4>1. \A k1 \in DOMAIN block[i].names, l \in DOMAIN block[i].names : a.tab[block[i].names[k1]] = Undefined
        BY <3>2 DEF Regular
      <4> QED
        BY <2>4, <3>1, <4>1
    <3>4. x \notin NamesUpTo(block, k)
      <4>1. SUFFICES ASSUME NEW j \in 1 .. k, x \in ToSet(block[j].names) PROVE FALSE
        BY DEF NamesUpTo
      <4>2. PICK l \in DOMAIN block[j].names : x = block[j].names[l]
        BY <4>1 DEF ToSet
      <4>3. j \in DOMAIN block /\ j # i
        BY <1>1, <2>1
      <4> QED
        BY <2>4, <3>1, <3>2, <4>2, <4>3, SMTT(20) DEF Regular
    <3>5. s.tab[x] = a.tab[x]
      BY <2>6, <3>4 DEF NewIn
    <3> QED
      BY <3>1, <3>3, <3>5
  <2>10. CASE s.dead
    <3>1. e = s
      BY <2>5, <2>10 DEF Declare
    <3> QED
      BY <2>1, <2>3, <2>6, <2>10, <3>1 DEF NamesUpTo
  <2>11. CASE ~ s.dead
    <3>1. d.init => s.total = 0
      BY <2>6, <2>8, <2>11
    <3>2. e.dead \/ (Exact(e) /\ (d.init => e.total = 0))
      BY <2>5, <2>6, <2>7, <2>9, <3>1, DeclareExact
    <3>3. NewIn(s.tab, e.tab) \subseteq ToSet(d.names)
      BY <2>5, DeclarePlaces
    <3>4. NewIn(a.tab, e.tab) \subseteq NewIn(a.tab, s.tab) \cup NewIn(s.tab, e.tab)
      BY DEF NewIn
    <3>5. NamesUpTo(block, k) \subseteq NamesUpTo(block, i) /\ ToSet(d.names) \subseteq NamesUpTo(block, i)
      BY <2>1, <2>4 DEF NamesUpTo
    <3> QED
      BY <2>3, <2>4, <2>6, <3>2, <3>3, <3>4, <3>5
  <2> QED
    BY <2>10, <2>11
<1>6. n \in S
  <2> HIDE DEF S
  <2> QED
    BY <1>4, <1>5, UpTo
<1> QED
  BY <1>3, <1>6

-----------------------------------------------------------------------------
(* Variables within bounds *)

\* Variables are apart and none reaches beyond size.
Sure(t) == {n \in Names : t[n].is = "var" /\ t[n].sure}
Fits(t, size) ==
  /\ \A n, m \in Sure(t) : n # m => ~ Overlap(t[n], t[m])
  /\ \A n \in Sure(t) : Beyond(t[n]) <= size

\* Nothing is added to t, or nothing that is sure.
NoMore(t, u) == \A n \in Sure(u) : u[n] = t[n]

LEMMA SureIs ==
  ASSUME NEW m, NEW t \in [Names -> Entity(m)], NEW n \in Sure(t)
  PROVE  t[n].at \in Int /\ t[n].size \in Nat /\ Beyond(t[n]) \in Int
<1>1. t[n] \in Entity(m) /\ t[n].is = "var"
  BY DEF Sure
<1>2. t[n] \in [is : {"var"}, at : Int, size : Nat \ {0}, sure : BOOLEAN]
  BY <1>1 DEF Entity, Undefined, Other
<1> QED
  BY <1>2 DEF Beyond

LEMMA FitsMore ==
  ASSUME NEW m, NEW t \in [Names -> Entity(m)], NEW a \in Int, NEW b \in Int, a <= b, Fits(t, a)
  PROVE  Fits(t, b)
BY SureIs DEF Fits

LEMMA FitsNoMore ==
  ASSUME NEW t, NEW u, NEW a, NoMore(t, u), Fits(t, a)
  PROVE  Fits(u, a)
BY DEF Fits, NoMore, Sure

LEMMA UnsureNoMore ==
  ASSUME NEW t, NEW u, NEW a, NEW b, Placed(t, a, u, b, FALSE)
  PROVE  NoMore(t, u)
BY DEF Placed, NoMore, NewIn, Sure

LEMMA FitsPlaced ==
  ASSUME NEW m, NEW t \in [Names -> Entity(m)], NEW a \in Int, Fits(t, a),
         NEW b \in Int, a <= b, NEW u, NEW sure, Placed(t, a, u, b, sure)
  PROVE  Fits(u, b)
<1>1. ASSUME NEW n \in Sure(u)
      PROVE  \/ n \in Sure(t) /\ u[n] = t[n] /\ n \notin NewIn(t, u)
             \/ n \in NewIn(t, u)
  BY DEF Sure, NewIn
<1>2. ASSUME NEW n \in Sure(t)
      PROVE  t[n].at \in Int /\ t[n].size \in Nat /\ t[n].at + t[n].size <= a
  BY SureIs DEF Fits, Beyond
<1>3. ASSUME NEW n \in NewIn(t, u)
      PROVE  u[n].at \in Int /\ u[n].size \in Nat /\ u[n].at + u[n].size <= b /\ a <= u[n].at
  BY DEF Placed, Within, Beyond
<1>4. ASSUME NEW n \in Sure(u), NEW k \in Sure(u), n # k
      PROVE  ~ Overlap(u[n], u[k])
  <2>1. CASE u[n] = t[n] /\ n \in Sure(t) /\ u[k] = t[k] /\ k \in Sure(t)
    BY <1>4, <2>1 DEF Fits
  <2>2. CASE u[n] = t[n] /\ n \in Sure(t) /\ k \in NewIn(t, u)
    BY <1>2, <1>3, <2>2 DEF Overlap
  <2>3. CASE n \in NewIn(t, u) /\ u[k] = t[k] /\ k \in Sure(t)
    BY <1>2, <1>3, <2>3 DEF Overlap
  <2>4. CASE n \in NewIn(t, u) /\ k \in NewIn(t, u)
    BY <1>4, <2>4 DEF Placed
  <2> QED
    BY <1>1, <2>1, <2>2, <2>3, <2>4
<1>5. ASSUME NEW n \in Sure(u)
      PROVE  Beyond(u[n]) <= b
  BY <1>1, <1>2, <1>3 DEF Beyond
<1> QED
  BY <1>4, <1>5 DEF Fits

LEMMA DefineNoMore ==
  ASSUME NEW m, NEW t \in [Names -> Entity(m)], NEW n, NEW as, as.is # "var"
  PROVE  NoMore(t, Define(t, n, as))
BY DEF NoMore, Define, Sure

-----------------------------------------------------------------------------
(* Global variables *)

SameData(c, e) == e.count = c.count /\ e.cap = c.cap

LEMMA SameDataTwice ==
  ASSUME NEW c, NEW d, NEW e, SameData(c, d), SameData(d, e)
  PROVE  SameData(c, e)
BY DEF SameData

LEMMA EmitSameData ==
  ASSUME NEW c \in Chunk, NEW op, NEW arg, NEW size, NEW tag
  PROVE  SameData(c, Emit(c, op, arg, size, tag))
<1>1. PICK code : Emit(c, op, arg, size, tag) = [c EXCEPT !.code = code]
  BY DEF Emit
<1> QED
  BY <1>1 DEF SameData, Chunk

LEMMA ResolveSameData ==
  ASSUME NEW c \in Chunk
  PROVE  SameData(c, Resolve(c))
<1>1. PICK code : Resolve(c) = [c EXCEPT !.code = code]
  BY DEF Resolve
<1> QED
  BY <1>1 DEF SameData, Chunk

LEMMA PatchEnterSameData ==
  ASSUME NEW c \in Chunk, NEW at, NEW size
  PROVE  SameData(c, PatchEnter(c, at, size))
<1>1. PICK code : PatchEnter(c, at, size) = [c EXCEPT !.code = code]
  BY DEF PatchEnter
<1> QED
  BY <1>1 DEF SameData, Chunk

LEMMA DebugInfoSameData ==
  ASSUME NEW c \in Chunk
  PROVE  WriteDebugInfo(c) \in Chunk /\ SameData(c, WriteDebugInfo(c))
BY DebugInfoKeepsCode DEF KeepsCode, SameData

GlobalsFit == Fits(tables[0], chunk.count) /\ Fits(tables[0], chunk.cap)

LEMMA GlobalsFitApart ==
  ASSUME IInv, GlobalsFit
  PROVE  GlobalsApart
<1>1. Variables(0) = Sure(tables[0])
  BY DEF Variables, Sure
<1> QED
  BY <1>1 DEF GlobalsFit, GlobalsApart, Apart, Fits, Beyond

\* Nothing in these steps concerns global data.
GlobalsStay == NoMore(tables[0], tables'[0]) /\ SameData(chunk, chunk')

LEMMA GlobalsStayOK ==
  ASSUME GlobalsFit, GlobalsStay
  PROVE  GlobalsFit'
<1>1. Fits(tables'[0], chunk.count) /\ Fits(tables'[0], chunk.cap)
  BY FitsNoMore DEF GlobalsFit, GlobalsStay
<1> QED
  BY <1>1 DEF GlobalsFit, GlobalsStay, SameData

LEMMA TablesSame ==
  ASSUME tables' = tables
  PROVE  \A s \in 0 .. MaxSubs : NoMore(tables[s], tables'[s])
BY DEF NoMore

LEMMA EndTextStays ==
  ASSUME IInv, NEW dot \in BOOLEAN, EndText(dot)
  PROVE  SameData(chunk, chunk')
<1>1. chunk \in Chunk
  BY Sizes
<1>2. PICK r : r = Resolve(chunk)
  OBVIOUS
<1>3. SameData(chunk, r) /\ r \in Chunk
  BY <1>1, <1>2, ResolveOK, ResolveSameData
<1>4. PICK e : e = [r EXCEPT !.entry = comp.entry]
  OBVIOUS
<1>5. e \in Chunk /\ SameData(r, e)
  <2>1. comp.entry \in Nat
    BY Sizes DEF Compiler
  <2> QED
    BY <1>3, <1>4, <2>1 DEF Chunk, SameData
<1>6. PICK f : f = EmitExit(e, <<0, Len(calls) + 1>>)
  OBVIOUS
<1>7. SameData(e, f)
  BY <1>5, <1>6, EmitSameData DEF EmitExit
<1>8. chunk' = chunk \/ chunk' = f
  BY <1>2, <1>4, <1>6 DEF EndText
<1>9. SameData(chunk, f)
  BY <1>3, <1>5, <1>7 DEF SameData
<1> QED
  BY <1>8, <1>9 DEF SameData

\* The end of a subroutine: its ENTER at loc gets the size of its frame.
Closes(s, loc, p) ==
  /\ s = Top.sub /\ loc = subs[s].loc /\ chunk.entry <= loc /\ loc < Here
  /\ p = PatchEnter(chunk, loc, comp.stack) /\ Patches(chunk, p, Others(loc))
  /\ comp.stack <= ArgAt(p, loc) /\ SameData(chunk, p)

LEMMA EndSubroutineCloses ==
  ASSUME IInv, EndSubroutine
  PROVE  \E s \in 1 .. Known, loc \in Nat, p \in Chunk : Closes(s, loc, p)
<1>1. Compiles /\ Len(open) > 1
  BY DEF EndSubroutine, Compiling, Compiles
<1>2. PICK n \in Nat : n = Len(open) /\ n \in 2 .. Len(open) /\ Top = open[n]
  BY <1>1, TopIs
<1>3. PICK s \in 1 .. Known : s = Top.sub
  BY <1>1, <1>2, TopIs
<1>4. chunk \in Chunk /\ Here \in Nat /\ Here = Len(chunk.code) /\ chunk.entry \in Nat /\ comp.stack \in Nat
  BY Sizes DEF Compiler
<1>5. subs[s].loc \in chunk.entry .. Here - 1
  BY <1>1, <1>2, <1>3 DEF IInv, OpenCode
<1>6. PICK loc \in Nat : loc = subs[s].loc /\ chunk.entry <= loc /\ loc < Here
  BY <1>4, <1>5
<1>7. PICK p : p = PatchEnter(chunk, loc, comp.stack)
  OBVIOUS
<1>8. Patches(chunk, p, Others(loc)) /\ comp.stack <= ArgAt(p, loc)
  BY <1>4, <1>6, <1>7, PatchEnterPatches
<1>9. p \in Chunk
  BY <1>8 DEF Patches
<1>10. Closes(s, loc, p)
  BY <1>3, <1>4, <1>6, <1>7, <1>8, PatchEnterSameData DEF Closes
<1> QED
  BY <1>9, <1>10

LEMMA OthersStay ==
  ASSUME IInv, Next, ~ \E block \in Blocks : VarBlock(block),
         ~ \E n \in Names : DefinitionBlock(n),
         ~ \E n \in Names, ps \in Parameters, forward \in BOOLEAN : SubroutineBlock(n, ps, forward)
  PROVE  tables' = tables /\ SameData(chunk, chunk')
<1>1. chunk \in Chunk
  BY Sizes
<1>2. SameData(chunk, chunk)
  BY DEF SameData
<1>3. CASE BeginText
  BY <1>2, <1>3 DEF BeginText
<1>4. CASE BeginBlock
  <2>1. chunk' = chunk \/ chunk' = EmitEnter(chunk, <<0, 0>>)
    BY <1>4 DEF BeginBlock
  <2>2. SameData(chunk, EmitEnter(chunk, <<0, 0>>))
    BY <1>1, EmitSameData DEF EmitEnter
  <2> QED
    BY <1>2, <1>4, <2>1, <2>2 DEF BeginBlock
<1>5. ASSUME NEW n \in Names, CallStmt(n)
      PROVE  tables' = tables /\ SameData(chunk, chunk')
  <2>1. PICK d \in Chunk : d = WriteDebugInfo(chunk) /\ SameData(chunk, d)
    BY <1>1, DebugInfoSameData
  <2>2. PICK tag : tag = <<Top.sub, Len(Meant) + 1>>
    OBVIOUS
  <2>3. chunk' = chunk \/ chunk' = EmitCall(d, tag)
    BY <1>5, <2>1, <2>2 DEF CallStmt
  <2>4. SameData(d, EmitCall(d, tag))
    BY EmitSameData DEF EmitCall
  <2>5. SameData(chunk, EmitCall(d, tag))
    BY <2>1, <2>4, SameDataTwice
  <2> QED
    BY <1>2, <1>5, <2>3, <2>5 DEF CallStmt
<1>6. ASSUME NEW atEnd \in BOOLEAN, EndBlock(atEnd)
      PROVE  SameData(chunk, chunk')
  <2>1. chunk' = chunk \/ chunk' = PatchEnter(chunk, comp.entry, comp.stack)
    BY <1>6 DEF EndBlock
  <2> QED
    BY <1>1, <1>2, <2>1, PatchEnterSameData
<1>7. CASE End
  BY <1>6, <1>7 DEF End
<1>8. CASE TextEnds
  BY <1>2, <1>6, <1>8 DEF TextEnds
<1>9. CASE EndSubroutine
  <2>1. PICK s \in 1 .. Known, loc \in Nat, p \in Chunk : Closes(s, loc, p)
    BY <1>9, EndSubroutineCloses
  <2>2. SameData(chunk, p) /\ p \in Chunk
    BY <2>1 DEF Closes
  <2>3. PICK d \in Chunk : d = WriteDebugInfo(p) /\ SameData(p, d)
    BY <2>2, DebugInfoSameData
  <2>4. PICK tag : chunk' = EmitExit(d, tag)
    BY <1>9, <2>1, <2>3 DEF EndSubroutine, Closes
  <2>5. SameData(d, chunk')
    BY <2>4, EmitSameData DEF EmitExit
  <2>6. SameData(chunk, d)
    BY <2>2, <2>3, SameDataTwice
  <2> QED
    BY <1>9, <2>5, <2>6, SameDataTwice DEF EndSubroutine
<1>10. ASSUME NEW dot \in BOOLEAN, EndText(dot)
       PROVE  tables' = tables /\ SameData(chunk, chunk')
  BY <1>10, EndTextStays DEF EndText
<1>11. CASE Run
  BY <1>2, <1>11 DEF Run
<1>12. CASE Reset
  <2>1. chunk' = chunk \/ chunk' = ChunkReset(chunk)
    BY <1>12 DEF Reset
  <2>2. PICK code, lines : ChunkReset(chunk) = [chunk EXCEPT !.code = code, !.lines = lines]
    BY DEF ChunkReset
  <2>3. SameData(chunk, ChunkReset(chunk))
    BY <1>1, <2>2 DEF SameData, Chunk
  <2> QED
    BY <1>2, <1>12, <2>1, <2>3 DEF Reset
<1> QED
  BY <1>3, <1>4, <1>5, <1>7, <1>8, <1>9, <1>10, <1>11, <1>12 DEF Next, Step

LEMMA DefinitionStays ==
  ASSUME IInv, NEW n \in Names, DefinitionBlock(n)
  PROVE  SameData(chunk, chunk') /\ \A s \in 0 .. MaxSubs : NoMore(tables[s], tables'[s])
<1>1. tables \in [0 .. MaxSubs -> [Names -> Entity(Known)]]
  BY DEF IInv, Typed
<1>2. PICK here : here = CurrentScope
  OBVIOUS
<1>3. tables' = [tables EXCEPT ![here] = Define(@, n, Other)]
  BY <1>2 DEF DefinitionBlock
<1>4. ASSUME NEW s \in 0 .. MaxSubs PROVE NoMore(tables[s], tables'[s])
  <2>1. tables'[s] = tables[s] \/ tables'[s] = Define(tables[s], n, Other)
    BY <1>1, <1>3
  <2>2. NoMore(tables[s], Define(tables[s], n, Other))
    BY <1>1, DefineNoMore DEF Other
  <2> QED
    BY <2>1, <2>2 DEF NoMore
<1> QED
  BY <1>4 DEF DefinitionBlock, SameData

\* A subroutine's own table is new; the others get its name at most.
LEMMA SubroutineStays ==
  ASSUME IInv, NEW n \in Names, NEW ps \in Parameters, NEW forward \in BOOLEAN,
         SubroutineBlock(n, ps, forward)
  PROVE  /\ SameData(chunk, chunk')
         /\ \A s \in 0 .. MaxSubs : s # Known + 1 => NoMore(tables[s], tables'[s])
<1>1. tables \in [0 .. MaxSubs -> [Names -> Entity(Known)]] /\ chunk \in Chunk
  BY Sizes DEF IInv, Typed
<1>2. PICK here, new : here = CurrentScope /\ new = Known + 1
  OBVIOUS
<1>3. CASE Dies
  BY <1>3 DEF Dies, SameData, NoMore
<1>4. CASE ~ Dies
  <2>1. PICK d \in Chunk : d = WriteDebugInfo(chunk) /\ SameData(chunk, d)
    BY <1>1, DebugInfoSameData
  <2>2. /\ chunk' = d \/ chunk' = EmitEnter(d, <<new, 0>>)
        /\ \E t : tables' = [tables EXCEPT ![here] = Define(@, n, SubIs(new)), ![new] = t]
    BY <1>2, <1>4, <2>1 DEF SubroutineBlock, Known
  <2>3. SameData(d, EmitEnter(d, <<new, 0>>))
    BY EmitSameData DEF EmitEnter
  <2>4. SameData(chunk, chunk')
    BY <2>1, <2>2, <2>3, SameDataTwice
  <2>5. ASSUME NEW s \in 0 .. MaxSubs, s # new PROVE NoMore(tables[s], tables'[s])
    <3>1. tables'[s] = tables[s] \/ tables'[s] = Define(tables[s], n, SubIs(new))
      BY <1>1, <2>2, <2>5
    <3>2. NoMore(tables[s], Define(tables[s], n, SubIs(new)))
      BY <1>1, DefineNoMore DEF SubIs
    <3> QED
      BY <3>1, <3>2 DEF NoMore
  <2> QED
    BY <1>2, <2>4, <2>5
<1> QED
  BY <1>3, <1>4

LEMMA LocalBase ==
  ASSUME NEW m \in Nat, NEW c \in Chunk, NEW block \in Seq(Declarations), NEW sure \in BOOLEAN,
         NEW atGlobal \in BOOLEAN, ~ atGlobal, NEW a, a = BlockStart(atGlobal), a \in BlockState(m, c),
         NEW b, b = Declared(block, atGlobal, sure)
  PROVE  b.base = a.base
<1>1. PICK n \in Nat : n = Len(block)
  OBVIOUS
<1>2. PICK g \in [0 .. n -> BlockState(m, c)] : DeclaresTo(g, block, atGlobal, sure, b)
  BY <1>1, DeclaredOK
<1> DEFINE S == {i \in 0 .. n : g[i].base = a.base}
<1>3. g[0] = a /\ g[n] = b
  BY <1>1, <1>2 DEF DeclaresTo
<1>4. ASSUME NEW i \in 1 .. n, i - 1 \in S PROVE i \in S
  <2>1. PICK s \in BlockState(m, c) : s = g[i - 1] /\ s.base = a.base
    BY <1>2, <1>4
  <2>2. PICK d \in Declarations : d = block[i]
    BY <1>1
  <2>3. g[i] = Declare(s, d, atGlobal, sure)
    BY <1>1, <1>2, <2>1, <2>2 DEF DeclaresTo
  <2>4. PICK listed \in BlockState(m, c) : listed = VarList(s, d, atGlobal, sure)
    BY VarListOK
  <2>5. listed.base = s.base
    BY <2>4 DEF VarList, BlockState
  <2>6. g[i] = s \/ g[i] = [s EXCEPT !.error = TRUE, !.gone = TRUE] \/ g[i] = listed
        \/ g[i] = [listed EXCEPT !.dead = TRUE] \/ g[i] = Initialize(listed, d, atGlobal)
    BY <2>3, <2>4 DEF Declare
  <2>7. [s EXCEPT !.error = TRUE, !.gone = TRUE].base = s.base
        /\ [listed EXCEPT !.dead = TRUE].base = listed.base
        /\ Initialize(listed, d, atGlobal).base = listed.base
    BY DEF Initialize, BlockState
  <2>8. g[i].base = a.base
    <3>1. CASE g[i] = s \/ g[i] = [s EXCEPT !.error = TRUE, !.gone = TRUE]
      BY <2>1, <2>7, <3>1
    <3>2. CASE g[i] = listed \/ g[i] = [listed EXCEPT !.dead = TRUE] \/ g[i] = Initialize(listed, d, atGlobal)
      BY <2>1, <2>5, <2>7, <3>2
    <3> QED
      BY <2>6, <3>1, <3>2
  <2> QED
    BY <2>8
<1>5. 0 \in S
  BY <1>3
<1>6. n \in S
  <2> HIDE DEF S
  <2> QED
    BY <1>4, <1>5, UpTo
<1> QED
  BY <1>3, <1>6

\* A block is given up only where a type does not parse.
LEMMA TypedGoesOn ==
  ASSUME NEW m \in Nat, NEW c \in Chunk, NEW block \in Seq(Declarations), NEW sure \in BOOLEAN,
         \A i \in DOMAIN block : block[i].typed,
         NEW atGlobal \in BOOLEAN, NEW a, a = BlockStart(atGlobal), a \in BlockState(m, c),
         NEW b, b = Declared(block, atGlobal, sure)
  PROVE  ~ b.gone
<1>1. PICK n \in Nat : n = Len(block)
  OBVIOUS
<1>2. PICK g \in [0 .. n -> BlockState(m, c)] : DeclaresTo(g, block, atGlobal, sure, b)
  BY <1>1, DeclaredOK
<1> DEFINE S == {i \in 0 .. n : ~ g[i].gone}
<1>3. g[0] = a /\ g[n] = b /\ ~ a.gone
  BY <1>1, <1>2 DEF DeclaresTo, BlockStart
<1>4. ASSUME NEW i \in 1 .. n, i - 1 \in S PROVE i \in S
  <2>1. PICK s \in BlockState(m, c) : s = g[i - 1] /\ ~ s.gone
    BY <1>2, <1>4
  <2>2. PICK d \in Declarations : d = block[i] /\ d.typed
    BY <1>1
  <2>3. g[i] = Declare(s, d, atGlobal, sure)
    BY <1>1, <1>2, <2>1, <2>2 DEF DeclaresTo
  <2>4. PICK listed \in BlockState(m, c) : listed = VarList(s, d, atGlobal, sure)
    BY VarListOK
  <2>5. listed.gone = s.gone
    BY <2>4 DEF VarList, BlockState
  <2>6. g[i] = s \/ g[i] = listed \/ g[i] = [listed EXCEPT !.dead = TRUE]
        \/ g[i] = Initialize(listed, d, atGlobal)
    BY <2>2, <2>3, <2>4 DEF Declare
  <2>7. [listed EXCEPT !.dead = TRUE].gone = listed.gone
        /\ Initialize(listed, d, atGlobal).gone = listed.gone
    BY DEF Initialize, BlockState
  <2>8. ~ g[i].gone
    BY <2>1, <2>5, <2>6, <2>7
  <2> QED
    BY <2>8
<1>5. 0 \in S
  BY <1>3
<1>6. n \in S
  <2> HIDE DEF S
  <2> QED
    BY <1>4, <1>5, UpTo
<1> QED
  BY <1>3, <1>6

\* What a VAR block that is compiled to its end does.
Stores(here, global, sure, b, block, base) ==
  /\ here = CurrentScope /\ here \in 0 .. Known /\ global = AtGlobal
  /\ sure = Regular(block, tables[here]) /\ ~ b.dead
  /\ base = IF global THEN chunk.count ELSE comp.stack
  /\ b \in BlockState(Known, chunk)
  /\ Placed(tables[here], base, b.tab, Height(b), sure) /\ base <= Height(b)
  /\ global /\ sure => Exact(b)
  /\ ~ global => b.base = base
  /\ sure => ~ b.gone
  /\ tables' = [tables EXCEPT ![here] = b.tab]
  /\ chunk' = IF global /\ ~ b.gone THEN WriteGlobalData(b.chunk, b.total) ELSE b.chunk
  /\ comp'.stack = IF global \/ b.gone THEN comp.stack ELSE comp.stack + b.total
  /\ subs' = subs

LEMMA VarBlockDeclares ==
  ASSUME IInv, NEW block \in Blocks, VarBlock(block), ~ Dies
  PROVE  \E here \in 0 .. Known, global \in BOOLEAN, sure \in BOOLEAN,
              b \in BlockState(Known, chunk), base \in Nat :
           Stores(here, global, sure, b, block, base)
<1>1. Compiles
  BY DEF VarBlock, Compiling, Compiles
<1>2. PICK here \in 0 .. Known : here = CurrentScope /\ here \in 0 .. MaxSubs
  BY <1>1, CurrentScopeIs
<1>3. PICK sure \in BOOLEAN : sure = Regular(block, tables[here])
  BY DEF Regular
<1>4. PICK global \in BOOLEAN : global = AtGlobal
  BY DEF AtGlobal
<1>5. Known \in Nat /\ chunk \in Chunk /\ block \in Seq(Declarations) /\ Typed /\ comp \in Compiler
  BY Sizes, SessionAssumption DEF IInv
<1>6. PICK a \in BlockState(Known, chunk) : a = BlockStart(global)
  BY <1>2, <1>5, BlockStartOK
<1>7. PICK b : b = Declared(block, global, sure)
  OBVIOUS
<1>8. /\ b \in BlockState(Known, chunk) /\ Placed(a.tab, a.base, b.tab, Height(b), sure)
      /\ a.base <= Height(b)
  BY <1>5, <1>6, <1>7, DeclaredPlaces
<1>9. PICK base \in Nat : base = (IF global THEN chunk.count ELSE comp.stack) /\ base = a.base
  BY <1>5, <1>6 DEF BlockStart, Chunk, Compiler
<1>10. a.tab = tables[here] /\ a.chunk = chunk
  BY <1>2, <1>6 DEF BlockStart
<1>11. ~ b.dead /\ tables' = [tables EXCEPT ![here] = b.tab]
       /\ chunk' = (IF global /\ ~ b.gone THEN WriteGlobalData(b.chunk, b.total) ELSE b.chunk)
       /\ Report(b.error, [comp EXCEPT !.stack =
                             IF global \/ b.gone THEN @ ELSE @ + b.total], open)
       /\ subs' = subs
  BY <1>2, <1>3, <1>4, <1>7 DEF VarBlock
<1>12. comp'.stack = IF global \/ b.gone THEN comp.stack ELSE comp.stack + b.total
  <2>1. PICK stack : stack = IF global \/ b.gone THEN comp.stack ELSE comp.stack + b.total
    OBVIOUS
  <2>2. Report(b.error, [comp EXCEPT !.stack = stack], open)
    BY <1>11, <2>1
  <2>3. comp'.stack = stack
    BY <1>5, <2>2 DEF Report, Compiler
  <2> QED
    BY <2>1, <2>3
<1>13. global /\ sure => Exact(b)
  <2>1. SUFFICES ASSUME global, sure PROVE Exact(b)
    OBVIOUS
  <2>2. a = BlockStart(TRUE) /\ b = Declared(block, TRUE, sure)
    BY <1>6, <1>7, <2>1
  <2>3. a.base = a.chunk.count /\ Regular(block, a.tab)
    BY <1>3, <1>9, <1>10, <2>1
  <2> QED
    BY <1>5, <1>6, <1>11, <2>2, <2>3, DeclaredExact
<1>14. ~ global => b.base = base
  <2>1. SUFFICES ASSUME ~ global PROVE b.base = base
    OBVIOUS
  <2>2. b.base = a.base
    BY <1>5, <1>6, <1>7, <2>1, LocalBase
  <2> QED
    BY <1>9, <2>2
<1>15. sure => ~ b.gone
  <2>1. SUFFICES ASSUME sure PROVE ~ b.gone
    OBVIOUS
  <2>2. \A i \in DOMAIN block : block[i].typed
    BY <1>3, <2>1 DEF Regular
  <2> QED
    BY <1>5, <1>6, <1>7, <2>2, TypedGoesOn
<1>16. Stores(here, global, sure, b, block, base)
  BY <1>2, <1>3, <1>4, <1>8, <1>9, <1>10, <1>11, <1>12, <1>13, <1>14, <1>15 DEF Stores
<1> QED
  BY <1>2, <1>8, <1>16

LEMMA VarBlockGlobals ==
  ASSUME IInv, GlobalsFit, NEW block \in Blocks, VarBlock(block)
  PROVE  GlobalsFit'
<1>1. CASE Dies
  BY <1>1 DEF Dies, GlobalsFit
<1>2. CASE ~ Dies
  <2>1. PICK here \in 0 .. Known, global \in BOOLEAN, sure \in BOOLEAN,
              b \in BlockState(Known, chunk), base \in Nat :
           Stores(here, global, sure, b, block, base)
    BY <1>2, VarBlockDeclares
  <2>2. /\ tables \in [0 .. MaxSubs -> [Names -> Entity(Known)]] /\ chunk \in Chunk /\ Known \in Nat
        /\ Known <= MaxSubs /\ MaxSubs \in Nat
    BY Sizes DEF IInv, Typed
  <2>3. PICK t \in [Names -> Entity(Known)] : t = tables[0]
    BY <2>2, SessionAssumption
  <2>4. /\ b.tab \in [Names -> Entity(Known)] /\ b.total \in Nat /\ b.chunk \in Extended(chunk)
        /\ b.base \in Nat
    BY <2>1 DEF Stores, BlockState
  <2>5. PICK count \in Nat, cap \in Nat : count = chunk.count /\ cap = chunk.cap
    BY <2>2 DEF Chunk
  <2>6. Fits(t, count) /\ Fits(t, cap)
    BY <2>3, <2>5 DEF GlobalsFit
  <2>7. chunk' \in Extended(chunk)
    BY <2>1, <2>2, <2>4, ExtendedMore DEF Stores
  <2>8. PICK more \in Nat, room \in Nat : more = chunk'.count /\ room = chunk'.cap
                                         /\ count <= more /\ cap <= room
    BY <2>5, <2>7 DEF Extended, Chunk
  <2>9. CASE here # 0 \/ ~ sure
    <3>1. NoMore(t, tables'[0])
      <4>1. CASE here # 0
        <5>1. tables'[0] = tables[0]
          BY <2>1, <2>2, <4>1 DEF Stores
        <5> QED
          BY <2>3, <5>1 DEF NoMore
      <4>2. CASE here = 0 /\ ~ sure
        <5>1. tables'[0] = b.tab
          BY <2>1, <2>2, <4>2 DEF Stores
        <5>2. Placed(t, base, b.tab, Height(b), FALSE)
          BY <2>1, <2>3, <4>2 DEF Stores
        <5> QED
          BY <5>1, <5>2, UnsureNoMore
      <4> QED
        BY <2>9, <4>1, <4>2
    <3>2. Fits(t, more) /\ Fits(t, room)
      BY <2>6, <2>8, FitsMore
    <3>3. Fits(tables'[0], more) /\ Fits(tables'[0], room)
      BY <3>1, <3>2, FitsNoMore
    <3> QED
      BY <2>8, <3>3 DEF GlobalsFit
  <2>10. CASE here = 0 /\ sure
    <3>1. global
      <4>1. CurrentScope = 0 => AtGlobal
        <5>1. Compiles
          BY DEF VarBlock, Compiling, Compiles
        <5> QED
          BY <5>1, CurrentScopeIs, TopIs DEF AtGlobal
      <4> QED
        BY <2>1, <2>10, <4>1 DEF Stores
    <3>2. Exact(b) /\ base = count /\ Placed(t, base, b.tab, Height(b), sure) /\ base <= Height(b)
          /\ chunk' = WriteGlobalData(b.chunk, b.total) /\ tables'[0] = b.tab
      <4>1. Exact(b) /\ base = count /\ base <= Height(b)
        BY <2>1, <2>5, <2>10, <3>1 DEF Stores
      <4>2. chunk' = WriteGlobalData(b.chunk, b.total)
        BY <2>1, <3>1, <4>1 DEF Stores, Exact
      <4>3. Placed(t, base, b.tab, Height(b), sure)
        BY <2>1, <2>3, <2>10 DEF Stores
      <4>4. tables'[0] = b.tab
        BY <2>1, <2>2, <2>10 DEF Stores
      <4> QED
        BY <4>1, <4>2, <4>3, <4>4
    <3>3. PICK height \in Nat : height = Height(b) /\ height = b.chunk.count + b.total
      BY <2>4, <3>2 DEF Height, Exact
    <3>4. height <= more /\ height <= room
      <4>1. b.chunk \in Chunk /\ Fitted(b.chunk)
        BY <2>4 DEF Extended
      <4> QED
        BY <2>4, <2>8, <3>2, <3>3, <4>1, GlobalDataKeepsCode
    <3>5. Fits(b.tab, height)
      BY <2>6, <3>2, <3>3, FitsPlaced
    <3>6. Fits(b.tab, more) /\ Fits(b.tab, room)
      BY <2>4, <3>4, <3>5, FitsMore
    <3> QED
      BY <2>8, <3>2, <3>6 DEF GlobalsFit
  <2> QED
    BY <2>9, <2>10
<1> QED
  BY <1>1, <1>2

LEMMA InitGlobals == Init => GlobalsFit
<1> SUFFICES ASSUME Init PROVE GlobalsFit
  OBVIOUS
<1>1. \A n \in Names : tables[0][n] = Undefined
  BY SessionAssumption DEF Init
<1>2. Sure(tables[0]) = {}
  BY <1>1 DEF Sure, Undefined
<1> QED
  BY <1>2 DEF GlobalsFit, Fits

LEMMA GlobalsStep ==
  ASSUME IInv, GlobalsFit, [Next]_vars
  PROVE  GlobalsFit'
<1>1. 0 \in 0 .. MaxSubs /\ 0 # Known + 1
  BY Sizes
<1>2. CASE UNCHANGED vars
  BY <1>2 DEF vars, GlobalsFit
<1>3. ASSUME NEW block \in Blocks, VarBlock(block) PROVE GlobalsFit'
  BY <1>3, VarBlockGlobals
<1>4. ASSUME NEW n \in Names, DefinitionBlock(n) PROVE GlobalsFit'
  BY <1>1, <1>4, DefinitionStays, GlobalsStayOK DEF GlobalsStay
<1>5. ASSUME NEW n \in Names, NEW ps \in Parameters, NEW forward \in BOOLEAN,
             SubroutineBlock(n, ps, forward)
      PROVE  GlobalsFit'
  BY <1>1, <1>5, SubroutineStays, GlobalsStayOK DEF GlobalsStay
<1>6. CASE tables' = tables /\ SameData(chunk, chunk')
  BY <1>1, <1>6, TablesSame, GlobalsStayOK DEF GlobalsStay
<1> QED
  BY <1>2, <1>3, <1>4, <1>5, <1>6, OthersStay

\* Global variables of any text, however many texts declare more, have bytes
\* of their own within those reserved (Compiler.c: CompileVarBlock).
THEOREM GlobalsHaveRoom == Spec => []GlobalsApart
<1>1. Init => GlobalsFit
  BY InitGlobals
<1>2. IInv /\ IInv' /\ GlobalsFit /\ [Next]_vars => GlobalsFit'
  BY GlobalsStep
<1>3. IInv /\ GlobalsFit => GlobalsApart
  BY GlobalsFitApart
<1> QED
  BY <1>1, <1>2, <1>3, Inductive, PTL DEF Spec

-----------------------------------------------------------------------------
(* Frames *)

\* The ENTER of s is where s is located, and makes a frame for its variables.
Located(s) == subs[s].loc # Invalid
EnterAt(code, s, loc) ==
  loc < Len(code) /\ code[loc + 1].op = "ENTER" /\ code[loc + 1].tag[1] = s
Entered(s) == EnterAt(chunk.code, s, subs[s].loc)
FrameFits(s) == Fits(tables[s], ArgAt(chunk, subs[s].loc))
Framed(s) == Entered(s) /\ FrameFits(s)

\* The stack an open block has taken: what was there when the next was opened.
IsOpen(s) == \E i \in 2 .. Len(open) : open[i].sub = s
Room(i) == IF i = Len(open) THEN comp.stack ELSE open[i + 1].stack

KeptFrames == \A s \in 1 .. Known : subs[s].fate = "kept" /\ Located(s) => Framed(s)
FreshFrames ==
  Compiles => \A s \in 1 .. Known :
    subs[s].fate = "fresh" /\ Located(s) => Entered(s) /\ (~ IsOpen(s) => FrameFits(s))
OpenFrames == Compiles => \A i \in 2 .. Len(open) : Fits(tables[open[i].sub], Room(i))
FramesFit == KeptFrames /\ FreshFrames /\ OpenFrames

LEMMA FramesFitHold ==
  ASSUME IInv, FramesFit
  PROVE  FramesHold
<1> SUFFICES ASSUME NEW s \in DOMAIN subs, subs[s].fate = "kept", subs[s].loc # Invalid
             PROVE  /\ Apart(s)
                    /\ \A n \in Variables(s) :
                         tables[s][n].at + tables[s][n].size <= At(subs[s].loc).arg
  BY DEF FramesHold
<1>1. s \in 1 .. Known
  BY DEF IInv, Typed, Known
<1>2. FrameFits(s)
  BY <1>1 DEF FramesFit, KeptFrames, Located, Framed
<1>3. Variables(s) = Sure(tables[s])
  BY DEF Variables, Sure
<1> QED
  BY <1>2, <1>3 DEF FrameFits, Fits, Apart, Beyond, ArgAt, At

\* The subroutine s is where it was, its ENTER is as it was, and it has no more
\* variables.
SameEnter(s) ==
  /\ subs'[s].loc = subs[s].loc /\ Here <= Here'
  /\ \E i \in Int : i = subs[s].loc + 1 /\ chunk'.code[i] = chunk.code[i]
SameFrame(s) == SameEnter(s) /\ NoMore(tables[s], tables'[s])

LEMMA LocIs ==
  ASSUME IInv, NEW s \in 1 .. Known, Located(s)
  PROVE  subs[s].loc \in Nat /\ Here \in Nat /\ Here = Len(chunk.code) /\ s \in 0 .. MaxSubs
<1>1. subs[s] \in Subroutine(Known) /\ s \in 0 .. MaxSubs
  BY Sizes DEF IInv, Typed, Known
<1> QED
  BY <1>1, Sizes DEF Subroutine, Located

LEMMA SameEnterOK ==
  ASSUME IInv, Here' \in Nat, NEW s \in 1 .. Known, Located(s), Entered(s), SameEnter(s)
  PROVE  Entered(s)'
<1>1. PICK loc \in Nat : loc = subs[s].loc /\ loc = subs'[s].loc
  BY LocIs DEF SameEnter
<1>2. PICK i \in Int : i = loc + 1 /\ chunk'.code[i] = chunk.code[i]
  BY <1>1 DEF SameEnter
<1>3. chunk'.code[loc + 1] = chunk.code[loc + 1]
  BY <1>2
<1>4. Here \in Nat /\ Here = Len(chunk.code) /\ Here' = Len(chunk'.code) /\ Here <= Here'
  BY LocIs DEF SameEnter, Here
<1>5. EnterAt(chunk.code, s, loc)
  BY <1>1 DEF Entered
<1>6. EnterAt(chunk'.code, s, loc)
  BY <1>3, <1>4, <1>5 DEF EnterAt
<1> QED
  BY <1>1, <1>6 DEF Entered

LEMMA SameFrameOK ==
  ASSUME IInv, Here' \in Nat, NEW s \in 1 .. Known, Located(s), Framed(s), SameFrame(s)
  PROVE  Framed(s)'
<1>1. PICK loc \in Nat : loc = subs[s].loc /\ loc = subs'[s].loc
  BY LocIs DEF SameFrame, SameEnter
<1>2. PICK i \in Int : i = loc + 1 /\ chunk'.code[i] = chunk.code[i]
  BY <1>1 DEF SameFrame, SameEnter
<1>3. ArgAt(chunk', loc) = ArgAt(chunk, loc)
  BY <1>2 DEF ArgAt
<1>4. Fits(tables[s], ArgAt(chunk, loc))
  BY <1>1 DEF Framed, FrameFits
<1>5. Fits(tables'[s], ArgAt(chunk, loc))
  BY <1>4, FitsNoMore DEF SameFrame
<1>6. FrameFits(s)'
  BY <1>1, <1>3, <1>5 DEF FrameFits
<1> QED
  BY <1>6, SameEnterOK DEF Framed, SameFrame

\* Kept subroutines have their frames in front of the entry point, which stays.
LEMMA KeptFrameStays ==
  ASSUME IInv, FramesFit, Here' \in Nat, Keeps(chunk, chunk'), LocsStay, NEW s \in 1 .. Known,
         subs[s].fate = "kept", Located(s), NoMore(tables[s], tables'[s])
  PROVE  Framed(s)'
<1>1. Framed(s)
  BY DEF FramesFit, KeptFrames
<1>2. PICK loc \in Nat : loc = subs[s].loc
  BY LocIs
<1>3. PICK i \in Nat : i = loc + 1
  OBVIOUS
<1>4. Here \in Nat /\ Here = Len(chunk.code) /\ chunk.entry \in Nat
  BY Sizes
<1>5. EnterAt(chunk.code, s, loc)
  BY <1>1, <1>2 DEF Framed, Entered
<1>6. loc < Len(chunk.code) /\ chunk.code[i].tag[1] = s
  BY <1>3, <1>5 DEF EnterAt
<1>7. i \in 1 .. Here
  BY <1>2, <1>3, <1>4, <1>6
<1>8. i <= chunk.entry
  BY <1>6, <1>7 DEF IInv, Tagged
<1>9. chunk'.code[i] = chunk.code[i] /\ chunk.entry <= Here'
  BY <1>3, <1>4, <1>8 DEF Keeps, Here
<1>10. subs'[s].loc = loc
  BY <1>2 DEF LocsStay
<1>11. EnterAt(chunk'.code, s, loc)
  <2>1. chunk'.code[loc + 1] = chunk.code[loc + 1]
    BY <1>3, <1>9
  <2>2. loc < Len(chunk'.code)
    BY <1>3, <1>4, <1>8, <1>9 DEF Here
  <2> QED
    BY <1>5, <2>1, <2>2 DEF EnterAt
<1>12. ArgAt(chunk', loc) = ArgAt(chunk, loc)
  BY <1>3, <1>9 DEF ArgAt
<1>13. Fits(tables'[s], ArgAt(chunk, loc))
  BY <1>1, <1>2, FitsNoMore DEF Framed, FrameFits
<1>14. Entered(s)'
  BY <1>10, <1>11 DEF Entered
<1>15. FrameFits(s)'
  BY <1>10, <1>12, <1>13 DEF FrameFits
<1> QED
  BY <1>14, <1>15 DEF Framed

\* The ENTERs of subroutines are as they were.
EntersStay ==
  /\ Here' \in Nat /\ Here <= Here'
  /\ \A i \in 1 .. Here :
       chunk.code[i].op = "ENTER" /\ chunk.code[i].tag[1] # 0 => chunk'.code[i] = chunk.code[i]

LEMMA EnterStays ==
  ASSUME IInv, EntersStay, NEW s \in 1 .. Known, Located(s), Entered(s), subs'[s].loc = subs[s].loc
  PROVE  SameEnter(s)
<1>1. PICK loc \in Nat : loc = subs[s].loc
  BY LocIs
<1>2. PICK i \in Nat : i = loc + 1
  OBVIOUS
<1>3. EnterAt(chunk.code, s, loc)
  BY <1>1 DEF Entered
<1>4. i \in 1 .. Here /\ chunk.code[i].op = "ENTER" /\ chunk.code[i].tag[1] = s
  BY <1>2, <1>3, LocIs DEF EnterAt
<1>5. chunk'.code[i] = chunk.code[i]
  BY <1>4 DEF EntersStay
<1> QED
  BY <1>1, <1>2, <1>5 DEF SameEnter, EntersStay

\* No subroutine is kept that was not, and what is kept is left alone.
KeptOnly ==
  /\ Here' \in Nat /\ Keeps(chunk, chunk') /\ LocsStay
  /\ \A s \in 1 .. Known' : subs'[s].fate = "kept" => s \in 1 .. Known /\ subs[s].fate = "kept"
  /\ \A s \in 1 .. Known : subs[s].fate = "kept" => NoMore(tables[s], tables'[s])

LEMMA KeptFramesStay ==
  ASSUME IInv, FramesFit, KeptOnly
  PROVE  KeptFrames'
<1> SUFFICES ASSUME NEW s \in 1 .. Known', subs'[s].fate = "kept", Located(s)'
             PROVE  Framed(s)'
  BY DEF KeptFrames
<1>1. s \in 1 .. Known /\ subs[s].fate = "kept"
  BY DEF KeptOnly
<1>2. Located(s)
  BY <1>1 DEF Located, KeptOnly, LocsStay
<1> QED
  BY <1>1, <1>2, KeptFrameStays DEF KeptOnly

\* After a text, and at its start, there is nothing else to show.
LEMMA NothingOpen ==
  ASSUME IInv, FramesFit, KeptOnly,
         Compiles' => /\ \A s \in 1 .. Known' : subs'[s].fate # "fresh"
                      /\ Len(open') = 1
  PROVE  FramesFit'
<1>1. FreshFrames'
  BY DEF FreshFrames
<1>2. OpenFrames'
  <2>1. Compiles' => 2 .. Len(open') = {}
    OBVIOUS
  <2> QED
    BY <2>1 DEF OpenFrames
<1> QED
  BY <1>1, <1>2, KeptFramesStay DEF FramesFit

\* Steps that open and close no block.
BlocksStay ==
  /\ Len(open') = Len(open)
  /\ \A i \in 1 .. Len(open) : open'[i].sub = open[i].sub /\ open'[i].stack = open[i].stack
TopFits == Top.sub # 0 => Fits(tables'[Top.sub], comp'.stack)

LEMMA GrowingKeepsOnly ==
  ASSUME IInv, Here' \in Nat, Keeps(chunk, chunk'), SubsGrow,
         \A s \in 1 .. Known : subs[s].fate = "kept" => NoMore(tables[s], tables'[s])
  PROVE  KeptOnly
<1>1. Known \in Nat /\ Known' \in Nat /\ Known <= Known'
  BY Sizes DEF IInv, Typed, Known, SubsGrow, LocsStay
<1>2. ASSUME NEW s \in 1 .. Known', subs'[s].fate = "kept"
      PROVE  s \in 1 .. Known /\ subs[s].fate = "kept"
  <2>1. s \notin Known + 1 .. Known'
    BY <1>2 DEF SubsGrow
  <2>2. s \in 1 .. Known
    BY <1>1, <2>1
  <2> QED
    BY <1>2, <2>2 DEF SubsGrow
<1> QED
  BY <1>2 DEF KeptOnly, SubsGrow

LEMMA FreshFrameStays ==
  ASSUME IInv, FramesFit, Compiles, Here' \in Nat, NEW s \in 1 .. Known, subs[s].fate = "fresh", Located(s),
         Entered(s) => SameEnter(s), NoMore(tables[s], tables'[s]), IsOpen(s) => IsOpen(s)'
  PROVE  Entered(s)' /\ (~ IsOpen(s)' => FrameFits(s)')
<1>1. Entered(s) /\ (~ IsOpen(s) => FrameFits(s))
  BY DEF FramesFit, FreshFrames
<1>2. SameEnter(s) /\ SameFrame(s)
  BY <1>1 DEF SameFrame
<1>3. Entered(s)'
  BY <1>1, <1>2, SameEnterOK
<1>4. ASSUME ~ IsOpen(s) PROVE FrameFits(s)'
  <2>1. Framed(s)'
    BY <1>1, <1>2, <1>4, SameFrameOK DEF Framed
  <2> QED
    BY <2>1 DEF Framed
<1> QED
  BY <1>3, <1>4

LEMMA FramesStay ==
  ASSUME IInv, FramesFit, Compiles, SubsGrow, Keeps(chunk, chunk'), EntersStay, BlocksStay, TopFits,
         \A s \in 1 .. Known : s # Top.sub => NoMore(tables[s], tables'[s]),
         \A s \in Known + 1 .. Known' : ~ Located(s)'
  PROVE  FramesFit'
<1>1. Known \in Nat /\ Known' \in Nat /\ Known <= Known' /\ MaxSubs \in Nat /\ Known <= MaxSubs
  BY Sizes DEF IInv, Typed, Known, SubsGrow, LocsStay
<1>2. PICK n \in Nat \ {0} : n = Len(open) /\ Top = open[n]
  BY TopIs
<1>3. n # 1 => n \in 2 .. Len(open)
  BY <1>2
<1>4. \A s \in 1 .. Known : subs[s].fate = "kept" => s # Top.sub
  BY <1>2, TopIs
<1>5. ASSUME NEW s \in 1 .. Known', Located(s)' PROVE s \in 1 .. Known /\ Located(s)
  <2>1. s \in 1 .. Known
    BY <1>1, <1>5
  <2> QED
    BY <1>5, <2>1 DEF Located, SubsGrow, LocsStay
<1>6. KeptOnly
  BY <1>4, GrowingKeepsOnly DEF EntersStay
<1>7. \A s : IsOpen(s)' <=> IsOpen(s)
  BY <1>2 DEF IsOpen, BlocksStay
<1>8. FreshFrames'
  <2> SUFFICES ASSUME NEW s \in 1 .. Known', subs'[s].fate = "fresh", Located(s)'
               PROVE  Entered(s)' /\ (~ IsOpen(s)' => FrameFits(s)')
    BY DEF FreshFrames
  <2>1. s \in 1 .. Known /\ Located(s)
    BY <1>5
  <2>2. subs[s].fate = "fresh" /\ subs'[s].loc = subs[s].loc
    BY <2>1 DEF SubsGrow, LocsStay
  <2>3. Entered(s) /\ (~ IsOpen(s) => FrameFits(s))
    BY <2>1, <2>2 DEF FramesFit, FreshFrames
  <2>4. SameEnter(s)
    BY <2>1, <2>2, <2>3, EnterStays
  <2>5. Entered(s)'
    BY <2>1, <2>3, <2>4, SameEnterOK DEF EntersStay
  <2>6. ASSUME ~ IsOpen(s)' PROVE FrameFits(s)'
    <3>1. ~ IsOpen(s)
      BY <1>7, <2>6
    <3>2. s # Top.sub
      <4>1. n # 1 => Top.sub # s
        BY <1>2, <1>3, <3>1 DEF IsOpen
      <4> QED
        BY <1>2, <4>1, TopIs
    <3>3. SameFrame(s)
      BY <2>1, <2>4, <3>2 DEF SameFrame
    <3> QED
      BY <2>1, <2>3, <3>1, <3>3, SameFrameOK DEF Framed, EntersStay
  <2> QED
    BY <2>5, <2>6
<1>9. OpenFrames'
  <2> SUFFICES ASSUME NEW i \in 2 .. Len(open') PROVE Fits(tables'[open'[i].sub], Room(i)')
    BY DEF OpenFrames
  <2>1. i \in 2 .. n /\ i \in 1 .. n /\ Len(open') = n
    BY <1>2 DEF BlocksStay
  <2>2. open'[i].sub = open[i].sub
    BY <1>2, <2>1 DEF BlocksStay
  <2>3. CASE i = n
    <3>1. Top.sub # 0 /\ open[i].sub = Top.sub
      BY <1>2, <2>1, <2>3, TopIs
    <3>2. Room(i)' = comp'.stack
      BY <2>1, <2>3 DEF Room
    <3> QED
      BY <2>2, <3>1, <3>2 DEF TopFits
  <2>4. CASE i # n
    <3>1. PICK j \in 2 .. n : j = i + 1 /\ j \in 1 .. n
      BY <2>1, <2>4
    <3>2. Room(i)' = open'[j].stack /\ Room(i) = open[j].stack
      BY <1>2, <2>1, <2>4, <3>1 DEF Room
    <3>3. Room(i)' = Room(i)
      BY <1>2, <3>1, <3>2 DEF BlocksStay
    <3>4. open[i].sub # Top.sub
      <4>1. n \in 1 .. Len(open) /\ i \in 1 .. Len(open)
        BY <1>2, <2>1
      <4> QED
        BY <1>2, <2>4, <4>1 DEF IInv, Nested
    <3>5. open[i].sub \in 1 .. Known
      BY <1>2, <2>1 DEF IInv, Opened
    <3>6. Fits(tables[open[i].sub], Room(i))
      BY <1>2, <2>1 DEF FramesFit, OpenFrames
    <3>7. NoMore(tables[open[i].sub], tables'[open[i].sub])
      BY <3>4, <3>5
    <3> QED
      BY <2>2, <3>3, <3>6, <3>7, FitsNoMore
  <2> QED
    BY <2>3, <2>4
<1> QED
  BY <1>6, <1>8, <1>9, KeptFramesStay DEF FramesFit

\* Nothing more is on the stack.
LEMMA TopStays ==
  ASSUME IInv, FramesFit, Compiles, comp'.stack = comp.stack,
         \A s \in 1 .. Known : NoMore(tables[s], tables'[s])
  PROVE  TopFits
<1> SUFFICES ASSUME Top.sub # 0 PROVE Fits(tables'[Top.sub], comp'.stack)
  BY DEF TopFits
<1>1. PICK n \in Nat \ {0} : n = Len(open) /\ Top = open[n] /\ n # 1
  BY TopIs
<1>2. n \in 2 .. Len(open)
  BY <1>1
<1>3. Fits(tables[Top.sub], Room(n))
  BY <1>1, <1>2 DEF FramesFit, OpenFrames
<1>4. Room(n) = comp.stack
  BY <1>1 DEF Room
<1>5. NoMore(tables[Top.sub], tables'[Top.sub])
  BY TopIs
<1> QED
  BY <1>3, <1>4, <1>5, FitsNoMore

LEMMA FramesSame ==
  ASSUME IInv, FramesFit, Compiles, SubsGrow, Keeps(chunk, chunk'), EntersStay, BlocksStay,
         comp'.stack = comp.stack, \A s \in 1 .. Known : NoMore(tables[s], tables'[s]),
         \A s \in Known + 1 .. Known' : ~ Located(s)'
  PROVE  FramesFit'
BY TopStays, FramesStay

LEMMA NoneNew ==
  ASSUME IInv, Known' = Known
  PROVE  \A s \in Known + 1 .. Known' : FALSE
BY Sizes

\* Words are only added.
LEMMA WordsStay ==
  ASSUME IInv, Here' \in Nat, Here <= Here', \A i \in 1 .. Here : chunk'.code[i] = chunk.code[i]
  PROVE  EntersStay
BY DEF EntersStay

LEMMA SameCode ==
  ASSUME IInv, chunk' = chunk
  PROVE  EntersStay
<1>1. Here' = Here /\ Here \in Nat
  BY Sizes DEF Here
<1> QED
  BY <1>1 DEF EntersStay

\* Reporting an error leaves the blocks as they are.
LEMMA ReportBlocks ==
  ASSUME IInv, Compiles, NEW error, NEW c, Report(error, c, open)
  PROVE  BlocksStay
<1>1. open \in Seq(Open) /\ Len(open) \in Nat \ {0} /\ open # << >>
  BY TopIs DEF IInv, Typed
<1>2. Top \in Open /\ Top = open[Len(open)]
  BY TopIs
<1>3. PICK part \in {"declarations", "body", "over"} :
        part = IF error /\ mode = "repl" THEN "over" ELSE Top.part
  BY <1>2 DEF Open
<1>4. open' = GoesTo(open, part)
  BY <1>2, <1>3 DEF Report, GoesTo
<1> QED
  BY <1>1, <1>4, GoesToOK DEF BlocksStay

LEMMA DefinitionFrames ==
  ASSUME IInv, FramesFit, Keeps(chunk, chunk'), NEW n \in Names, DefinitionBlock(n)
  PROVE  FramesFit'
<1>1. Compiles /\ Compiling("declarations")
  BY DEF DefinitionBlock, Compiling, Compiles
<1>2. PICK error \in BOOLEAN : error = (tables[CurrentScope][n] # Undefined)
  OBVIOUS
<1>3. comp = [comp EXCEPT !.stack = comp.stack] /\ comp.stack \in Nat
  BY DEF IInv, Typed, Compiler
<1>4. Report(error, comp, open)
  BY <1>2 DEF DefinitionBlock
<1>5. BlocksStay
  BY <1>1, <1>4, ReportBlocks
<1>6. comp'.stack = comp.stack
  BY <1>4 DEF Report, IInv, Typed, Compiler
<1>7. SubsGrow /\ Known' = Known
  BY SubsStay DEF DefinitionBlock
<1>8. \A s \in 1 .. Known : NoMore(tables[s], tables'[s])
  BY DefinitionStays, Sizes
<1>9. EntersStay
  BY SameCode DEF DefinitionBlock
<1> QED
  BY <1>1, <1>5, <1>6, <1>7, <1>8, <1>9, NoneNew, FramesSame

\* A VAR block of a subroutine takes its variables from the stack.
LEMMA VarBlockFrames ==
  ASSUME IInv, FramesFit, Keeps(chunk, chunk'), NEW block \in Blocks, VarBlock(block), ~ Dies
  PROVE  FramesFit'
<1>1. PICK here \in 0 .. Known, global \in BOOLEAN, sure \in BOOLEAN,
            b \in BlockState(Known, chunk), base \in Nat :
         Stores(here, global, sure, b, block, base)
  BY VarBlockDeclares
<1>2. /\ tables \in [0 .. MaxSubs -> [Names -> Entity(Known)]] /\ chunk \in Chunk /\ Known \in Nat
      /\ Known <= MaxSubs /\ MaxSubs \in Nat /\ comp \in Compiler /\ comp.stack \in Nat
  BY Sizes DEF IInv, Typed, Compiler
<1>3. Compiles
  BY DEF VarBlock, Compiling, Compiles
<1>4. here = Top.sub /\ here \in 0 .. MaxSubs /\ (global <=> here = 0)
  <2>1. here = CurrentScope /\ here \in 0 .. Known /\ global = AtGlobal
    BY <1>1 DEF Stores
  <2>2. CurrentScope = Top.sub /\ CurrentScope \in 0 .. MaxSubs
    BY <1>3, CurrentScopeIs
  <2>3. AtGlobal <=> Top.sub = 0
    BY <1>3, TopIs DEF AtGlobal
  <2> QED
    BY <2>1, <2>2, <2>3
<1>5. /\ b.tab \in [Names -> Entity(Known)] /\ b.total \in Nat /\ b.chunk \in Extended(chunk)
  BY <1>1 DEF Stores, BlockState
<1>6. tables' = [tables EXCEPT ![here] = b.tab] /\ subs' = subs
  BY <1>1 DEF Stores
<1>7. chunk' \in Extended(chunk)
  BY <1>1, <1>2, <1>5, ExtendedMore DEF Stores
<1>8. chunk'.code = chunk.code
  BY <1>7 DEF Extended
<1>9. EntersStay
  BY <1>2, <1>8, Sizes DEF EntersStay, Here
<1>10. BlocksStay
  <2>1. PICK error, c : Report(error, c, open)
    BY DEF VarBlock
  <2> QED
    BY <1>3, <2>1, ReportBlocks
<1>11. SubsGrow /\ Known' = Known
  BY <1>6, SubsStay
<1>12. TopFits
  <2> SUFFICES ASSUME here # 0 PROVE Fits(tables'[here], comp'.stack)
    BY <1>4 DEF TopFits
  <2>1. ~ global /\ base = comp.stack /\ b.base = base
    BY <1>1, <1>4 DEF Stores
  <2>2. PICK t \in [Names -> Entity(Known)] : t = tables[here]
    BY <1>2, <1>4
  <2>3. Fits(t, base)
    <3>1. PICK n \in Nat \ {0} : n = Len(open) /\ Top = open[n] /\ n # 1
      BY <1>3, <1>4, TopIs
    <3>2. n \in 2 .. Len(open)
      BY <3>1
    <3>3. Room(n) = comp.stack
      BY <3>1 DEF Room
    <3> QED
      BY <1>3, <1>4, <2>1, <2>2, <3>1, <3>2, <3>3 DEF FramesFit, OpenFrames
  <2>4. tables'[here] = b.tab
    BY <1>2, <1>4, <1>6
  <2>5. PICK height \in Nat : height = Height(b) /\ height = base + b.total
    BY <1>5, <2>1 DEF Height
  <2>6. Placed(t, base, b.tab, height, sure)
    BY <1>1, <2>2, <2>5 DEF Stores
  <2>7. comp'.stack = base \/ comp'.stack = height
    BY <1>1, <2>1, <2>5 DEF Stores
  <2>8. CASE sure
    <3>1. comp'.stack = height /\ base <= height
      BY <1>1, <1>5, <2>1, <2>5, <2>8 DEF Stores
    <3>2. Fits(b.tab, height)
      BY <2>3, <2>6, <3>1, FitsPlaced
    <3> QED
      BY <2>4, <3>1, <3>2
  <2>9. CASE ~ sure
    <3>1. Placed(t, base, b.tab, height, FALSE)
      BY <2>6, <2>9
    <3>2. NoMore(t, b.tab)
      BY <3>1, UnsureNoMore
    <3>3. Fits(b.tab, base)
      BY <2>3, <3>2, FitsNoMore
    <3>4. b.tab \in [Names -> Entity(Known)] /\ base <= height
      BY <1>5, <2>5
    <3>5. Fits(b.tab, height)
      BY <3>3, <3>4, FitsMore
    <3> QED
      BY <2>4, <2>7, <3>3, <3>5
  <2> QED
    BY <2>8, <2>9
<1>13. \A s \in 1 .. Known : s # Top.sub => NoMore(tables[s], tables'[s])
  <2>1. \A s \in 1 .. Known : s \in 0 .. MaxSubs
    BY <1>2
  <2> QED
    BY <1>2, <1>4, <1>6, <2>1 DEF NoMore
<1> QED
  BY <1>3, <1>9, <1>10, <1>11, <1>12, <1>13, NoneNew, FramesStay

\* e has the words of c, and may have more.
AddsTo(c, e) ==
  Len(c.code) <= Len(e.code) /\ \A i \in 1 .. Len(c.code) : e.code[i] = c.code[i]

LEMMA EmitAddsTo ==
  ASSUME NEW c \in Chunk, NEW op, NEW arg, NEW size \in Nat, NEW tag
  PROVE  AddsTo(c, Emit(c, op, arg, size, tag))
<1> DEFINE word(i) == [op |-> IF i = 1 THEN op ELSE "operand", arg |-> IF i = 1 THEN arg ELSE 0,
                       tag |-> tag, line |-> LastLine(c)]
           new == [i \in 1 .. size |-> word(i)]
           W == {word(i) : i \in 1 .. size} \cup Words
<1>1. PICK e : e = Emit(c, op, arg, size, tag)
  OBVIOUS
<1>2. new \in Seq(W) /\ Len(new) = size /\ c.code \in Seq(W)
  <2>1. c.code \in Seq(Words)
    BY DEF Chunk
  <2>2. \A i \in 1 .. size : word(i) \in W
    OBVIOUS
  <2>3. \A w \in Words : w \in W
    OBVIOUS
  <2> HIDE DEF W, word
  <2> QED
    BY <2>1, <2>2, <2>3
<1>3. e = [c EXCEPT !.code = @ \o new]
  BY <1>1 DEF Emit
<1> HIDE DEF new, W
<1>4. e.code = c.code \o new
  BY <1>3 DEF Chunk
<1>5. Len(e.code) = Len(c.code) + size /\ \A i \in 1 .. Len(c.code) : e.code[i] = c.code[i]
  <2>1. PICK code \in Seq(W) : code = c.code
    BY <1>2
  <2>2. Len(code \o new) = Len(code) + size /\ \A i \in 1 .. Len(code) : (code \o new)[i] = code[i]
    BY <1>2, SMTT(20)
  <2> QED
    BY <1>4, <2>1, <2>2
<1>6. Len(c.code) \in Nat
  BY DEF Chunk
<1> QED
  BY <1>1, <1>5, <1>6 DEF AddsTo

LEMMA AddsToEnters ==
  ASSUME IInv, Here' \in Nat, AddsTo(chunk, chunk')
  PROVE  EntersStay
BY WordsStay DEF AddsTo, Here

LEMMA BeginBlockFrames ==
  ASSUME IInv, FramesFit, Here' \in Nat, Keeps(chunk, chunk'), BeginBlock
  PROVE  FramesFit'
<1>1. Compiles /\ comp'.stack = comp.stack
  BY DEF BeginBlock, Compiling, Compiles, IInv, Typed, Compiler
<1>2. SubsGrow /\ Known' = Known
  BY SubsStay DEF BeginBlock
<1>3. BlocksStay
  BY <1>1, WithTopOK DEF BeginBlock, BlocksStay
<1>4. \A s \in 1 .. Known : NoMore(tables[s], tables'[s])
  BY DEF BeginBlock, NoMore
<1>5. EntersStay
  <2>1. CASE chunk' = chunk
    BY <2>1, SameCode
  <2>2. CASE chunk' = EmitEnter(chunk, <<0, 0>>)
    <3>1. PICK tag : chunk' = Emit(chunk, "ENTER", 0, 3, tag)
      BY <2>2 DEF EmitEnter
    <3>2. AddsTo(chunk, chunk')
      BY <3>1, Sizes, EmitAddsTo
    <3> QED
      BY <3>2, AddsToEnters
  <2> QED
    BY <2>1, <2>2 DEF BeginBlock
<1> QED
  BY <1>1, <1>2, <1>3, <1>4, <1>5, NoneNew, FramesSame

LEMMA CallFrames ==
  ASSUME IInv, FramesFit, Here' \in Nat, Keeps(chunk, chunk'), NEW n \in Names, CallStmt(n)
  PROVE  FramesFit'
<1>1. Compiles /\ Top' = Top
  BY DEF CallStmt, Compiling, Compiles, Top
<1>2. BlocksStay
  BY DEF CallStmt, BlocksStay
<1>3. \A s \in 1 .. Known : NoMore(tables[s], tables'[s])
  BY DEF CallStmt, NoMore
<1>4. CASE FindIdentifier(n).is # "sub"
  <2>1. subs' = subs /\ chunk' = chunk /\ comp' = [comp EXCEPT !.error = TRUE]
    BY <1>4 DEF CallStmt
  <2>2. comp'.stack = comp.stack
    BY <2>1 DEF IInv, Typed, Compiler
  <2>3. SubsGrow /\ Known' = Known /\ EntersStay
    BY <2>1, SubsStay, SameCode
  <2> QED
    BY <1>1, <1>2, <1>3, <2>2, <2>3, NoneNew, FramesSame
<1>5. CASE FindIdentifier(n).is = "sub"
  <2>1. PICK t \in 1 .. Known : Noted(t)
    <3>1. FindIdentifier(n) = Visible(n) /\ FindIdentifier(n) \in Entity(Known)
      BY <1>1, NamesAgree, FoundIs
    <3>2. FindIdentifier(n).sub \in 1 .. Known
      BY <1>5, <3>1 DEF Entity, Undefined, Other
    <3>3. Noted(FindIdentifier(n).sub)
      BY <1>5, <3>1 DEF CallStmt
    <3> QED
      BY <3>2, <3>3
  <2>2. SubsGrow /\ Known' = Known
    BY <1>1, <2>1, NotedOK
  <2>3. comp'.stack = comp.stack
    <3>1. comp' = PushReference(comp, Here, FindIdentifier(n).sub)
      BY <1>5 DEF CallStmt
    <3> QED
      BY <3>1 DEF PushReference, IInv, Typed, Compiler
  <2>4. EntersStay
    <3>1. chunk \in Chunk
      BY Sizes
    <3>2. PICK d \in Chunk : d = WriteDebugInfo(chunk) /\ d.code = chunk.code
      BY <3>1, DebugInfoKeepsCode DEF KeepsCode
    <3>3. PICK arg, tag : chunk' = Emit(d, "CALL", arg, 2, tag)
      BY <1>5, <3>2 DEF CallStmt, EmitCall, BranchSize
    <3>4. AddsTo(d, chunk')
      BY <3>3, EmitAddsTo
    <3>5. AddsTo(chunk, chunk')
      BY <3>2, <3>4 DEF AddsTo
    <3> QED
      BY <3>5, AddsToEnters
  <2> QED
    BY <1>1, <1>2, <1>3, <2>2, <2>3, <2>4, NoneNew, FramesSame
<1> QED
  BY <1>4, <1>5

LEMMA EndBlockFrames ==
  ASSUME IInv, FramesFit, Here' \in Nat, Keeps(chunk, chunk'), Compiling("body"), NEW atEnd, EndBlock(atEnd),
         UNCHANGED <<subs, tables>>
  PROVE  FramesFit'
<1>1. Compiles
  BY DEF Compiling, Compiles
<1>2. comp'.stack = comp.stack
  BY DEF EndBlock, IInv, Typed, Compiler
<1>3. SubsGrow /\ Known' = Known
  BY SubsStay
<1>4. BlocksStay
  BY <1>1, WithTopOK DEF EndBlock, BlocksStay
<1>5. \A s \in 1 .. Known : NoMore(tables[s], tables'[s])
  BY DEF NoMore
<1>6. EntersStay
  <2>1. CASE ~ AtGlobal
    BY <2>1, SameCode DEF EndBlock
  <2>2. CASE AtGlobal
    <3>1. InBody
        <4>1. Len(open) = 1 /\ Top = open[1]
        <5>1. Len(open) = comp.scope + 1 /\ Top = open[Len(open)]
          BY <1>1, TopIs
        <5>2. comp.scope = 0
          BY <2>2 DEF AtGlobal
        <5> QED
          BY <5>1, <5>2
      <4> QED
        BY <4>1 DEF InBody, Compiling
    <3>2. Laid(chunk.code, 0, comp.entry, Len(calls))
      BY <1>1, <3>1 DEF IInv, MainCode
    <3>3. PICK loc \in Nat : loc = comp.entry /\ chunk.code[loc + 1].tag = <<0, 0>>
      BY <3>2 DEF Laid, IInv, Typed, Compiler
    <3>4. loc < Len(chunk.code) /\ comp.stack \in Nat /\ chunk \in Chunk
      <4>1. Len(calls) \in Nat /\ Len(chunk.code) \in Nat
        BY DEF IInv, Typed, Chunk
      <4>2. Site(loc, Len(calls) + 1) <= Len(chunk.code)
        BY <3>2, <3>3 DEF Laid
      <4>3. Site(loc, Len(calls) + 1) = loc + 3 + 2 * Len(calls)
        BY <4>1, SiteNat
      <4>4. loc < Len(chunk.code)
        BY <4>1, <4>2, <4>3
      <4> QED
        BY <4>4, Sizes DEF Compiler
    <3>5. Patches(chunk, chunk', Others(loc))
      BY <2>2, <3>3, <3>4, PatchEnterPatches DEF EndBlock
    <3>6. PICK k \in Nat : k = loc + 1
      OBVIOUS
    <3>7. ASSUME NEW i \in 1 .. Here, chunk.code[i].tag[1] # 0
          PROVE  chunk'.code[i] = chunk.code[i]
      <4>1. i # k
        BY <3>3, <3>6, <3>7
      <4>2. i \in Others(loc) /\ i \in 1 .. Len(chunk.code)
        BY <3>6, <4>1 DEF Others, Here
      <4> QED
        BY <3>5, <4>2 DEF Patches
    <3>8. Here' = Here /\ Here \in Nat
      BY <3>5, Sizes DEF Patches, Here
    <3> QED
      BY <3>7, <3>8 DEF EntersStay
  <2> QED
    BY <2>1, <2>2
<1> QED
  BY <1>1, <1>2, <1>3, <1>4, <1>5, <1>6, NoneNew, FramesSame

LEMMA TextEndsFrames ==
  ASSUME IInv, FramesFit, Here' \in Nat, Keeps(chunk, chunk'), TextEnds
  PROVE  FramesFit'
<1>1. Compiles
  BY DEF TextEnds, Compiling, Compiles
<1>2. CASE Compiling("body") /\ EndBlock(TRUE)
  BY <1>2, EndBlockFrames DEF TextEnds
<1>3. CASE /\ open' = WithTop("over") /\ chunk' = chunk
           /\ \E eof : comp' = [comp EXCEPT !.error = TRUE, !.eof = eof]
  <2>1. comp'.stack = comp.stack
    BY <1>3 DEF IInv, Typed, Compiler
  <2>2. SubsGrow /\ Known' = Known
    BY SubsStay DEF TextEnds
  <2>3. BlocksStay
    BY <1>1, <1>3, WithTopOK DEF BlocksStay
  <2>4. \A s \in 1 .. Known : NoMore(tables[s], tables'[s])
    BY DEF TextEnds, NoMore
  <2> QED
    BY <1>1, <1>3, <2>1, <2>2, <2>3, <2>4, SameCode, NoneNew, FramesSame
<1> QED
  BY <1>2, <1>3 DEF TextEnds

LEMMA ForwardFrames ==
  ASSUME IInv, FramesFit, Here' \in Nat, Keeps(chunk, chunk'), NEW n \in Names, NEW ps \in Parameters,
         SubroutineBlock(n, ps, TRUE), ~ Dies
  PROVE  FramesFit'
<1>1. Compiles /\ Known \in Nat /\ Known + 1 <= MaxSubs
  BY DeclarationIs
<1>2. Declares(Known + 1, Invalid, TRUE) /\ comp' = comp /\ open' = open /\ chunk' = WriteDebugInfo(chunk)
  BY DEF SubroutineBlock, Declares, Known
<1>3. SubsGrow /\ Known' = Known + 1 /\ subs'[Known + 1].loc = Invalid
  <2>1. PICK loc \in Nat \cup {Invalid} : loc = Invalid
    OBVIOUS
  <2>2. SubsGrow /\ Known' = Known + 1
        /\ subs'[Known + 1] = [loc |-> loc, calls |-> <<>>, fate |-> "fresh", holds |-> FALSE]
    BY <1>1, <1>2, <2>1, DeclaresOK
  <2> QED
    BY <2>1, <2>2
<1>4. ASSUME NEW s \in Known + 1 .. Known' PROVE ~ Located(s)'
  <2>1. s = Known + 1
    BY <1>1, <1>3
  <2> QED
    BY <1>3, <2>1 DEF Located
<1>5. \A s \in 1 .. Known : NoMore(tables[s], tables'[s])
  <2>1. \A s \in 1 .. Known : s # Known + 1 /\ s \in 0 .. MaxSubs
    BY <1>1, Sizes
  <2> QED
    BY <2>1, SubroutineStays
<1>6. chunk'.code = chunk.code
  BY <1>2, Sizes, DebugInfoKeepsCode DEF KeepsCode
<1>7. EntersStay
  BY <1>6, Sizes DEF EntersStay, Here
<1>8. BlocksStay
  BY <1>2 DEF BlocksStay
<1> QED
  BY <1>1, <1>2, <1>3, <1>4, <1>5, <1>7, <1>8, FramesSame

\* The place of a parameter is that of an entry of the list with its name.
ParameterIs(ps, n, i) == ps[i] = n /\ LocalParameters(ps)[n] = VarAt(ParameterAt(i), ParameterSize, TRUE)

LEMMA SureParameter ==
  ASSUME NEW ps \in Parameters, NEW n \in Sure(LocalParameters(ps))
  PROVE  \E i \in 1 .. Len(ps) : ParameterIs(ps, n, i)
<1>1. ps \in Seq(Names) /\ n \in Names
  BY SessionAssumption DEF Sure
<1>2. n \in ToSet(ps)
  <2>1. LocalParameters(ps)[n].is = "var"
    BY DEF Sure
  <2> QED
    BY <1>1, <2>1 DEF LocalParameters, Undefined
<1>3. \E i \in DOMAIN ps : ps[i] = n
  BY <1>2 DEF ToSet
<1>4. PICK i \in DOMAIN ps : i = CHOOSE k \in DOMAIN ps : ps[k] = n
  BY <1>3
<1>5. i \in 1 .. Len(ps) /\ ps[i] = n
  BY <1>1, <1>3, <1>4
<1>6. LocalParameters(ps)[n] = VarAt(ParameterAt(i), ParameterSize, TRUE)
  BY <1>1, <1>2, <1>4 DEF LocalParameters
<1> QED
  BY <1>5, <1>6 DEF ParameterIs

LEMMA ParametersFit ==
  ASSUME NEW ps \in Parameters
  PROVE  ParameterSpace(ps) \in Nat /\ Fits(LocalParameters(ps), ParameterSpace(ps))
<1>1. ps \in Seq(Names) /\ ArgRegs \in Nat /\ Len(ps) \in Nat
  BY SessionAssumption
<1>2. PICK most \in Nat, length \in Nat : most = ArgRegs /\ length = Len(ps)
  BY <1>1
<1>3. PICK space \in Nat : /\ space = ParameterSpace(ps)
                           /\ space = 8 * (IF length < most THEN length ELSE most)
  BY <1>2 DEF ParameterSpace, StackAlign
<1> DEFINE t == LocalParameters(ps)
<1>4. ASSUME NEW n \in Sure(t), NEW i \in 1 .. length, ParameterIs(ps, n, i)
      PROVE  /\ t[n].size = 4 /\ t[n].at \in Int
             /\ i <= most => t[n].at = 8 * (i - 1)
             /\ i > most => t[n].at = 4 * (most - i)
  <2>1. t[n] = VarAt(ParameterAt(i), ParameterSize, TRUE)
    BY <1>4 DEF ParameterIs
  <2>2. t[n].at = ParameterAt(i) /\ t[n].size = 4
    BY <2>1 DEF VarAt, ParameterSize
  <2>3. ParameterAt(i) = IF i <= most THEN (i - 1) * 8 ELSE (most - i) * 4
    BY <1>2 DEF ParameterAt, StackAlign, ParameterSize
  <2> QED
    BY <2>2, <2>3
<1>5. \A n \in Sure(t) : \E i \in 1 .. length : ParameterIs(ps, n, i)
  BY <1>2, SureParameter
<1> HIDE DEF t
<1>6. ASSUME NEW n \in Sure(t), NEW m \in Sure(t), n # m PROVE ~ Overlap(t[n], t[m])
  <2>1. PICK i \in 1 .. length : ParameterIs(ps, n, i)
    BY <1>5
  <2>2. PICK j \in 1 .. length : ParameterIs(ps, m, j)
    BY <1>5
  <2>3. i # j
    BY <1>6, <2>1, <2>2 DEF ParameterIs
  <2>4. /\ t[n].size = 4 /\ t[n].at \in Int /\ (i <= most => t[n].at = 8 * (i - 1))
        /\ (i > most => t[n].at = 4 * (most - i))
    BY <1>4, <2>1
  <2>5. /\ t[m].size = 4 /\ t[m].at \in Int /\ (j <= most => t[m].at = 8 * (j - 1))
        /\ (j > most => t[m].at = 4 * (most - j))
    BY <1>4, <2>2
  <2> QED
    BY <2>3, <2>4, <2>5 DEF Overlap
<1>7. ASSUME NEW n \in Sure(t) PROVE Beyond(t[n]) <= space
  <2>1. PICK i \in 1 .. length : ParameterIs(ps, n, i)
    BY <1>5
  <2>2. /\ t[n].size = 4 /\ t[n].at \in Int /\ (i <= most => t[n].at = 8 * (i - 1))
        /\ (i > most => t[n].at = 4 * (most - i))
    BY <1>4, <2>1
  <2> QED
    BY <1>3, <2>2 DEF Beyond
<1>8. Fits(t, space)
  BY <1>6, <1>7 DEF Fits
<1> QED
  BY <1>3, <1>8 DEF t

LEMMA BodyFrames ==
  ASSUME IInv, FramesFit, Here' \in Nat, Keeps(chunk, chunk'), NEW n \in Names, NEW ps \in Parameters,
         SubroutineBlock(n, ps, FALSE), ~ Dies
  PROVE  FramesFit'
<1>1. Compiles /\ Known \in Nat /\ Known + 1 <= MaxSubs
  BY DeclarationIs
<1>2. /\ chunk \in Chunk /\ Here \in Nat /\ MaxSubs \in Nat /\ Here = Len(chunk.code)
      /\ comp \in Compiler /\ comp.stack \in Nat
      /\ tables \in [0 .. MaxSubs -> [Names -> Entity(Known)]] /\ open \in Seq(Open)
  BY Sizes DEF IInv, Typed, Compiler
<1>3. PICK s \in Nat : s = Known + 1 /\ s \in 0 .. MaxSubs /\ s # 0 /\ s \notin 1 .. Known
  BY <1>1, <1>2
<1> DEFINE block == [sub |-> s, part |-> "declarations", stack |-> comp.stack]
<1>4. /\ Declares(Known + 1, Here, FALSE) /\ chunk' = EmitEnter(WriteDebugInfo(chunk), <<s, 0>>)
      /\ tables' = [tables EXCEPT ![CurrentScope] = Define(@, n, SubIs(s)), ![s] = LocalParameters(ps)]
      /\ open' = Append(open, block)
      /\ comp' = [PushSubroutine(comp, s) EXCEPT !.stack = @ + ParameterSpace(ps)]
  BY <1>3 DEF SubroutineBlock, Declares, Known
<1>5. /\ Known' = s /\ SubsGrow
      /\ subs'[s] = [loc |-> Here, calls |-> <<>>, fate |-> "fresh", holds |-> FALSE]
  <2>1. Here \in Nat \cup {Invalid}
    BY <1>2
  <2> QED
    BY <1>1, <1>3, <1>4, <2>1, DeclaresOK
<1>6. PICK d \in Chunk : d = WriteDebugInfo(chunk) /\ d.code = chunk.code
  BY <1>2, DebugInfoKeepsCode DEF KeepsCode
<1>7. PICK tag \in Tags : tag = <<s, 0>>
  <2>1. <<s, 0>> \in Tags
    BY <1>3, TagIs, SessionAssumption
  <2> QED
    BY <2>1
<1>8. Adds(d, chunk', "ENTER", 0, 3, tag)
  <2>1. chunk' = Emit(d, "ENTER", 0, 3, tag)
    BY <1>4, <1>6, <1>7 DEF EmitEnter
  <2> QED
    BY <1>6, <2>1, EmitAdds
<1>9. /\ Here' = Here + 3 /\ \A i \in 1 .. Here : chunk'.code[i] = chunk.code[i]
      /\ chunk'.code[Here + 1].op = "ENTER"
      /\ \A i \in Here + 1 .. Here + 3 : chunk'.code[i].tag = tag
  BY <1>2, <1>6, <1>8 DEF Adds, Here
<1>10. EntersStay
  BY <1>2, <1>9, WordsStay
<1>11. \A t \in 1 .. Known : t \in 0 .. MaxSubs /\ NoMore(tables[t], tables'[t])
  <2>1. \A t \in 1 .. Known : t # Known + 1 /\ t \in 0 .. MaxSubs
    BY <1>1, <1>2
  <2> QED
    BY <2>1, SubroutineStays
<1>12. PICK k \in Nat \ {0} : k = Len(open) /\ Top = open[k]
  BY <1>1, TopIs
<1>13. Len(open') = k + 1 /\ open'[k + 1].sub = s /\ open'[k + 1].stack = comp.stack
       /\ \A i \in 1 .. k : open'[i] = open[i]
  <2> HIDE DEF block
  <2>1. Len(open') = k + 1 /\ open'[k + 1] = block /\ \A i \in 1 .. k : open'[i] = open[i]
    BY <1>2, <1>4, <1>12
  <2> QED
    BY <2>1 DEF block
<1>14. \A t \in 1 .. Known : IsOpen(t) => IsOpen(t)'
  BY <1>12, <1>13 DEF IsOpen
<1>15. KeptOnly
  BY <1>5, <1>11, GrowingKeepsOnly
<1>16. FreshFrames'
  <2> SUFFICES ASSUME NEW t \in 1 .. Known', subs'[t].fate = "fresh", Located(t)'
               PROVE  Entered(t)' /\ (~ IsOpen(t)' => FrameFits(t)')
    BY DEF FreshFrames
  <2>1. CASE t \in 1 .. Known
    <3>1. subs[t].fate = "fresh" /\ subs'[t].loc = subs[t].loc /\ Located(t)
      BY <1>5, <2>1 DEF SubsGrow, LocsStay, Located
    <3>2. Entered(t) => SameEnter(t)
      BY <1>10, <2>1, <3>1, EnterStays
    <3> QED
      BY <1>1, <1>11, <1>14, <2>1, <3>1, <3>2, FreshFrameStays
  <2>2. CASE t = s
    <3>1. EnterAt(chunk'.code, s, Here)
      <4>1. Here + 1 \in Here + 1 .. Here + 3 /\ Here < Here'
        BY <1>2, <1>9
      <4>2. chunk'.code[Here + 1].tag[1] = s
        BY <1>7, <1>9, <4>1
      <4> QED
        BY <1>9, <4>1, <4>2 DEF EnterAt, Here
    <3>2. Entered(t)'
      BY <1>5, <2>2, <3>1 DEF Entered
    <3>3. IsOpen(t)'
      <4>1. k + 1 \in 2 .. Len(open')
        BY <1>12, <1>13
      <4> QED
        BY <1>13, <2>2, <4>1 DEF IsOpen
    <3> QED
      BY <3>2, <3>3
  <2> QED
    BY <1>1, <1>3, <1>5, <2>1, <2>2
<1>17. OpenFrames'
  <2> SUFFICES ASSUME NEW i \in 2 .. Len(open') PROVE Fits(tables'[open'[i].sub], Room(i)')
    BY DEF OpenFrames
  <2>1. CASE i = k + 1
    <3>1. PICK space \in Nat : space = ParameterSpace(ps) /\ Fits(LocalParameters(ps), space)
      BY ParametersFit
    <3>2. PICK stack \in Nat : stack = comp.stack + space /\ space <= stack
      BY <1>2, <3>1
    <3>3. comp'.stack = stack
      BY <1>2, <1>4, <3>1, <3>2 DEF PushSubroutine, Compiler
    <3>4. Fits(LocalParameters(ps), stack)
      <4>1. PICK t \in [Names -> Entity(Known)] : t = LocalParameters(ps)
        BY LocalParametersOK
      <4>2. Fits(t, space)
        BY <3>1, <4>1
      <4>3. Fits(t, stack)
        BY <3>2, <4>2, FitsMore
      <4> QED
        BY <4>1, <4>3
    <3>5. tables'[s] = LocalParameters(ps)
      BY <1>2, <1>3, <1>4
    <3>6. Room(i)' = stack
      BY <1>13, <2>1, <3>3 DEF Room
    <3> QED
      BY <1>13, <2>1, <3>4, <3>5, <3>6
  <2>2. CASE i \in 2 .. k
    <3>1. i \in 1 .. k /\ i \in 2 .. Len(open) /\ i # k + 1
      BY <1>12, <2>2
    <3>2. Room(i)' = Room(i)
      <4>1. CASE i = k
        BY <1>12, <1>13, <3>1, <4>1 DEF Room
      <4>2. CASE i # k
        <5>1. PICK j \in 1 .. k : j = i + 1
          BY <2>2, <4>2
        <5>2. Room(i)' = open'[j].stack /\ Room(i) = open[j].stack
          BY <1>12, <1>13, <3>1, <4>2, <5>1 DEF Room
        <5> QED
          BY <1>13, <5>1, <5>2
      <4> QED
        BY <4>1, <4>2
    <3>3. open'[i].sub = open[i].sub /\ open[i].sub \in 1 .. Known
      BY <1>1, <1>13, <3>1 DEF IInv, Opened
    <3>4. Fits(tables[open[i].sub], Room(i))
      BY <1>1, <3>1 DEF FramesFit, OpenFrames
    <3>5. NoMore(tables[open[i].sub], tables'[open[i].sub])
      BY <1>11, <3>3
    <3> QED
      BY <3>2, <3>3, <3>4, <3>5, FitsNoMore
  <2> QED
    BY <1>13, <2>1, <2>2
<1> QED
  BY <1>15, <1>16, <1>17, KeptFramesStay DEF FramesFit

LEMMA EndSubroutineFrames ==
  ASSUME IInv, FramesFit, Here' \in Nat, Keeps(chunk, chunk'), EndSubroutine
  PROVE  FramesFit'
<1>1. PICK s \in 1 .. Known, loc \in Nat, p \in Chunk : Closes(s, loc, p)
  BY EndSubroutineCloses
<1>2. /\ Compiles /\ Len(open) > 1 /\ subs' = subs /\ tables' = tables /\ open' = Outer(open)
      /\ comp' = [PopSubroutine(comp) EXCEPT !.stack = Top.stack]
  BY DEF EndSubroutine, Compiling, Compiles
<1>3. PICK n \in Nat : n = Len(open) /\ n \in 2 .. Len(open) /\ Top = open[n] /\ n > 1
  BY <1>2, TopIs
<1>4. /\ s = Top.sub /\ loc = subs[s].loc /\ Located(s) /\ subs[s].fate = "fresh"
      /\ p = PatchEnter(chunk, loc, comp.stack) /\ Patches(chunk, p, Others(loc))
      /\ comp.stack <= ArgAt(p, loc) /\ loc < Here
  BY <1>1, <1>2, TopIs DEF Closes, Located
<1>5. chunk \in Chunk /\ Here \in Nat /\ Here = Len(chunk.code) /\ comp \in Compiler /\ comp.stack \in Nat
      /\ tables \in [0 .. MaxSubs -> [Names -> Entity(Known)]]
  BY Sizes DEF IInv, Typed, Compiler
<1>6. PICK k \in Nat : k = loc + 1 /\ k \in 1 .. Here
  BY <1>4, <1>5
<1>7. /\ AddsTo(p, chunk') /\ Len(p.code) = Here
  <2>1. PICK d \in Chunk : d = WriteDebugInfo(p) /\ d.code = p.code
    BY DebugInfoKeepsCode DEF KeepsCode
  <2>2. PICK tag : chunk' = Emit(d, "EXIT", 0, 1, tag)
    BY <1>4, <2>1 DEF EndSubroutine, EmitExit
  <2>3. AddsTo(d, chunk')
    BY <2>2, EmitAddsTo
  <2>4. AddsTo(p, chunk')
    BY <2>1, <2>3 DEF AddsTo
  <2>5. Len(p.code) = Len(chunk.code)
    BY <1>4 DEF Patches
  <2> QED
    BY <1>5, <2>4, <2>5
<1>8. Here <= Here' /\ \A i \in 1 .. Here : chunk'.code[i] = p.code[i]
  BY <1>7 DEF AddsTo, Here
<1>9. \A i \in 1 .. Here : i # k => chunk'.code[i] = chunk.code[i]
  <2>1. \A i \in 1 .. Len(chunk.code) : i \in Others(loc) => p.code[i] = chunk.code[i]
    BY <1>4 DEF Patches
  <2>2. \A i \in 1 .. Here : i # k => i \in Others(loc)
    BY <1>5, <1>6 DEF Others
  <2> QED
    BY <1>5, <1>8, <2>1, <2>2
<1>10. EnterAt(chunk.code, s, loc)
  BY <1>2, <1>4 DEF FramesFit, FreshFrames, Entered
<1>11. ASSUME NEW t \in 1 .. Known, t # s, Located(t), Entered(t) PROVE SameEnter(t)
  <2>1. PICK at \in Nat : at = subs[t].loc
    BY <1>11, LocIs
  <2>2. PICK i \in Nat : i = at + 1
    OBVIOUS
  <2>3. EnterAt(chunk.code, t, at)
    BY <1>11, <2>1 DEF Entered
  <2>4. i \in 1 .. Here /\ chunk.code[i].tag[1] = t
    BY <1>5, <2>2, <2>3 DEF EnterAt
  <2>5. chunk.code[k].tag[1] = s
    BY <1>6, <1>10 DEF EnterAt
  <2>6. chunk'.code[i] = chunk.code[i]
    BY <1>9, <1>11, <2>4, <2>5
  <2> QED
    BY <1>2, <1>8, <2>1, <2>2, <2>6 DEF SameEnter
<1>12. \A t : NoMore(tables[t], tables'[t])
  BY <1>2 DEF NoMore
<1>13. /\ Len(open') = n - 1
       /\ \A i \in 1 .. n - 1 : open'[i].sub = open[i].sub /\ open'[i].stack = open[i].stack
  BY <1>2, <1>3, OuterOK
<1>14. SubsGrow /\ Known' = Known
  BY <1>2, SubsStay
<1>15. KeptOnly
  BY <1>12, <1>14, GrowingKeepsOnly
<1>16. FreshFrames'
  <2> SUFFICES ASSUME NEW t \in 1 .. Known, subs[t].fate = "fresh", Located(t)
               PROVE  Entered(t)' /\ (~ IsOpen(t)' => FrameFits(t)')
    BY <1>2, <1>14 DEF FreshFrames, Located
  <2>1. CASE t # s
    <3>1. IsOpen(t) => IsOpen(t)'
      <4> SUFFICES ASSUME IsOpen(t) PROVE IsOpen(t)'
        OBVIOUS
      <4>1. PICK i \in 2 .. Len(open) : open[i].sub = t
        BY DEF IsOpen
      <4>2. i # n
        BY <1>3, <1>4, <2>1, <4>1
      <4>3. i \in 2 .. Len(open') /\ i \in 1 .. n - 1
        BY <1>3, <1>13, <4>2
      <4> QED
        BY <1>13, <4>1, <4>3 DEF IsOpen
    <3> QED
      BY <1>2, <1>11, <1>12, <2>1, <3>1, FreshFrameStays
  <2>2. CASE t = s
    <3>1. chunk'.code[k] = p.code[k] /\ p.code[k].op = chunk.code[k].op
          /\ p.code[k].tag = chunk.code[k].tag
      BY <1>4, <1>5, <1>6, <1>8 DEF Patches
    <3>2. EnterAt(chunk'.code, s, loc)
      BY <1>4, <1>5, <1>6, <1>8, <1>10, <3>1 DEF EnterAt, Here
    <3>3. Entered(s)'
      BY <1>2, <1>4, <3>2 DEF Entered
    <3>4. ArgAt(chunk', loc) = ArgAt(p, loc)
      BY <1>6, <3>1 DEF ArgAt
    <3>5. PICK arg \in Int : arg = ArgAt(p, loc)
      <4>1. p.code \in Seq(Words) /\ k \in 1 .. Len(p.code)
        BY <1>6, <1>7 DEF Chunk
      <4>2. p.code[k] \in Words
        BY <4>1
      <4> QED
        BY <1>6, <4>2 DEF ArgAt, Words
    <3>6. Fits(tables[s], comp.stack)
      <4>1. Room(n) = comp.stack
        BY <1>3 DEF Room
      <4> QED
        BY <1>2, <1>3, <1>4, <4>1 DEF FramesFit, OpenFrames
    <3>7. PICK u \in [Names -> Entity(Known)] : u = tables[s]
      BY <1>4, <1>5, LocIs
    <3>8. Fits(u, arg)
      <4>1. comp.stack \in Int /\ comp.stack <= arg /\ Fits(u, comp.stack)
        BY <1>4, <1>5, <3>5, <3>6, <3>7
      <4> QED
        BY <4>1, FitsMore
    <3>9. FrameFits(s)'
      BY <1>2, <1>4, <3>4, <3>5, <3>7, <3>8 DEF FrameFits
    <3> QED
      BY <2>2, <3>3, <3>9
  <2> QED
    BY <2>1, <2>2
<1>17. OpenFrames'
  <2> SUFFICES ASSUME NEW i \in 2 .. Len(open') PROVE Fits(tables'[open'[i].sub], Room(i)')
    BY DEF OpenFrames
  <2>1. i \in 1 .. n - 1 /\ i \in 2 .. Len(open) /\ i # n
    BY <1>3, <1>13
  <2>2. PICK j \in 2 .. n : j = i + 1
    BY <1>3, <1>13
  <2>3. Room(i) = open[j].stack
    BY <1>3, <2>1, <2>2 DEF Room
  <2>4. Room(i)' = open[j].stack
    <3>1. CASE j = n
      <4>1. comp'.stack = Top.stack
        BY <1>2, <1>5 DEF PopSubroutine, Compiler
      <4>2. i = Len(open')
        BY <1>13, <2>2, <3>1
      <4> QED
        BY <1>3, <3>1, <4>1, <4>2 DEF Room
    <3>2. CASE j # n
      <4>1. j \in 1 .. n - 1 /\ i # Len(open')
        BY <1>13, <2>2, <3>2
      <4> QED
        BY <1>13, <2>2, <4>1 DEF Room
    <3> QED
      BY <3>1, <3>2
  <2> QED
    BY <1>2, <1>13, <2>1, <2>3, <2>4 DEF FramesFit, OpenFrames
<1> QED
  BY <1>15, <1>16, <1>17, KeptFramesStay DEF FramesFit

\* Only CALLs are patched at the end of a text.
LEMMA ResolveEnters ==
  ASSUME IInv, NEW i \in 1 .. Here, chunk.code[i].op = "ENTER"
  PROVE  Resolve(chunk).code[i] = chunk.code[i]
<1>1. chunk \in Chunk /\ comp.refs \in Seq(Reference) /\ DOMAIN chunk.code = 1 .. Here
      /\ DOMAIN comp.refs = 1 .. Len(comp.refs)
  BY Sizes
<1>2. {k \in DOMAIN comp.refs : comp.refs[k].site = i - 1} = {}
  <2> SUFFICES ASSUME NEW k \in 1 .. Len(comp.refs), comp.refs[k].site = i - 1 PROVE FALSE
    BY <1>1
  <2>1. chunk.code[comp.refs[k].site + 1].op = "CALL"
    BY DEF IInv, References
  <2>2. comp.refs[k].site + 1 = i
    OBVIOUS
  <2> QED
    BY <2>1, <2>2
<1> QED
  BY <1>1, <1>2 DEF Resolve, Chunk

LEMMA FinishedEnters ==
  ASSUME IInv, Here' \in Nat, Finishes
  PROVE  EntersStay
<1>1. PICK r \in Chunk : r = Resolve(chunk) /\ Len(r.code) = Here
  BY ResolveOK
<1>2. PICK entry \in Nat : entry = comp.entry
  BY DEF IInv, Typed, Compiler
<1>3. PICK e : e = [r EXCEPT !.entry = entry]
  OBVIOUS
<1>4. e \in Chunk /\ e.code = r.code
  BY <1>1, <1>3 DEF Chunk
<1>5. PICK tag : chunk' = Emit(e, "EXIT", 0, 1, tag)
  BY <1>1, <1>2, <1>3 DEF Finishes, Finished, EmitExit
<1>6. AddsTo(e, chunk')
  BY <1>4, <1>5, EmitAddsTo
<1> QED
  BY <1>1, <1>4, <1>6, ResolveEnters DEF AddsTo, EntersStay, Here

LEMMA EndTextFrames ==
  ASSUME IInv, FramesFit, Here' \in Nat, NEW dot \in BOOLEAN, EndText(dot)
  PROVE  FramesFit'
<1>1. /\ Compiles /\ Len(open) = 1 /\ tables' = tables
      /\ status' = IF comp'.error THEN "reset" ELSE "running"
  BY EndTextCases
<1>2. /\ Known' = Known /\ LocsStay
      /\ \A s \in 1 .. Known :
           /\ subs'[s].loc = subs[s].loc
           /\ subs'[s].fate = "kept" => subs[s].fate = "kept" \/ (subs[s].fate = "fresh" /\ Kept)
  BY EndTextSubs
<1>3. Keeps(chunk, chunk')
  BY EndTextChunk
<1>4. \A s : NoMore(tables[s], tables'[s])
  BY <1>1 DEF NoMore
<1>5. KeptFrames'
  <2> SUFFICES ASSUME NEW s \in 1 .. Known, subs'[s].fate = "kept", Located(s)' PROVE Framed(s)'
    BY <1>2 DEF KeptFrames
  <2>1. Located(s) /\ subs'[s].loc = subs[s].loc
    BY <1>2 DEF Located
  <2>2. CASE subs[s].fate = "kept"
    BY <1>2, <1>3, <1>4, <2>1, <2>2, KeptFrameStays
  <2>3. CASE subs[s].fate = "fresh" /\ Kept
    <3>1. ~ IsOpen(s)
      <4>1. 2 .. Len(open) = {}
        BY <1>1
      <4> QED
        BY <4>1 DEF IsOpen
    <3>2. Framed(s)
      BY <1>1, <2>1, <2>3, <3>1 DEF FramesFit, FreshFrames, Framed
    <3>3. EntersStay
      BY <2>3, FinishedEnters DEF Kept
    <3>4. SameFrame(s)
      BY <1>4, <2>1, <3>2, <3>3, EnterStays DEF Framed, SameFrame
    <3> QED
      BY <2>1, <3>2, <3>4, SameFrameOK
  <2> QED
    BY <1>2, <2>2, <2>3
<1>6. ~ Compiles'
  BY <1>1 DEF Compiles
<1> QED
  BY <1>5, <1>6 DEF FramesFit, FreshFrames, OpenFrames

\* Steps that leave subroutines and tables alone and compile nothing.
LEMMA QuietFrames ==
  ASSUME IInv, FramesFit, Here' \in Nat, Keeps(chunk, chunk'), subs' = subs, tables' = tables,
         Compiles' => status = "idle" /\ Len(open') = 1
  PROVE  FramesFit'
<1>1. KeptOnly
  BY SubsStay DEF KeptOnly, NoMore
<1>2. Compiles' => \A s \in 1 .. Known' : subs'[s].fate # "fresh"
  <2>1. status = "idle" => \A s \in 1 .. Known : subs[s].fate # "fresh"
    BY DEF IInv, Opened, Between
  <2> QED
    BY <2>1 DEF Known
<1> QED
  BY <1>1, <1>2, NothingOpen

LEMMA UnchangedFrames ==
  ASSUME FramesFit, UNCHANGED <<status, subs, tables, comp, open, chunk>>
  PROVE  FramesFit'
<1>1. Known' = Known /\ Here' = Here
  BY DEF Known, Here
<1>2. \A s : /\ Located(s)' = Located(s) /\ Entered(s)' = Entered(s) /\ FrameFits(s)' = FrameFits(s)
             /\ Framed(s)' = Framed(s) /\ IsOpen(s)' = IsOpen(s)
  BY DEF Located, Entered, FrameFits, Framed, IsOpen
<1>3. \A i : Room(i)' = Room(i)
  BY DEF Room
<1> QED
  BY <1>1, <1>2, <1>3 DEF FramesFit, KeptFrames, FreshFrames, OpenFrames, Compiles

LEMMA InitFrames == Init => FramesFit
<1> SUFFICES ASSUME Init PROVE FramesFit
  OBVIOUS
<1>1. 1 .. Known = {} /\ ~ Compiles
  BY DEF Init, Known, Compiles
<1> QED
  BY <1>1 DEF FramesFit, KeptFrames, FreshFrames, OpenFrames

LEMMA FramesStep ==
  ASSUME IInv, IInv', FramesFit, [Next]_vars
  PROVE  FramesFit'
<1>1. Here' \in Nat
  BY DEF IInv, Typed, Chunk, Here
<1>2. Keeps(chunk, chunk')
  BY NextOK
<1>3. CASE UNCHANGED vars
  BY <1>3, UnchangedFrames DEF vars
<1>4. CASE Dies
  BY <1>1, <1>2, <1>4, QuietFrames DEF Dies, Compiles
<1>5. CASE BeginText
  <2>1. Len(open') = 1 /\ status = "idle"
    BY <1>5 DEF BeginText
  <2> QED
    BY <1>1, <1>2, <1>5, <2>1, QuietFrames DEF BeginText
<1>6. ASSUME NEW block \in Blocks, VarBlock(block), ~ Dies PROVE FramesFit'
  BY <1>2, <1>6, VarBlockFrames
<1>7. ASSUME NEW n \in Names, DefinitionBlock(n) \/ CallStmt(n) PROVE FramesFit'
  BY <1>1, <1>2, <1>7, DefinitionFrames, CallFrames
<1>8. ASSUME NEW n \in Names, NEW ps \in Parameters, NEW forward \in BOOLEAN,
             SubroutineBlock(n, ps, forward), ~ Dies
      PROVE  FramesFit'
  <2>1. CASE forward = TRUE
    BY <1>1, <1>2, <1>8, <2>1, ForwardFrames
  <2>2. CASE forward = FALSE
    BY <1>1, <1>2, <1>8, <2>2, BodyFrames
  <2> QED
    BY <2>1, <2>2
<1>9. CASE BeginBlock
  BY <1>1, <1>2, <1>9, BeginBlockFrames
<1>10. CASE End
  BY <1>1, <1>2, <1>10, EndBlockFrames DEF End
<1>11. CASE TextEnds
  BY <1>1, <1>2, <1>11, TextEndsFrames
<1>12. CASE EndSubroutine
  BY <1>1, <1>2, <1>12, EndSubroutineFrames
<1>13. ASSUME NEW dot \in BOOLEAN, EndText(dot) PROVE FramesFit'
  BY <1>1, <1>13, EndTextFrames
<1>14. CASE Run
  <2>1. status = "running" /\ UNCHANGED <<subs, tables>>
    BY <1>14 DEF Run
  <2>2. ~ Compiles'
    BY <1>14, <2>1 DEF Run, Derailed, Stops, VMEnter, VMCall, VMExit, Compiles
  <2> QED
    BY <1>1, <1>2, <2>1, <2>2, QuietFrames
<1>15. CASE Reset
  BY <1>1, <1>2, <1>15, QuietFrames DEF Reset, Compiles
<1> QED
  BY <1>3, <1>4, <1>5, <1>6, <1>7, <1>8, <1>9, <1>10, <1>11, <1>12, <1>13, <1>14, <1>15 DEF Next, Step

\* The parameters and locals of every subroutine kept have bytes of their own
\* in the frame its ENTER makes (Compiler.c: CompileSubroutineBlock).
THEOREM FramesHaveRoom == Spec => []FramesHold
<1>1. Init => FramesFit
  BY InitFrames
<1>2. IInv /\ IInv' /\ FramesFit /\ [Next]_vars => FramesFit'
  BY FramesStep
<1>3. IInv /\ FramesFit => FramesHold
  BY FramesFitHold
<1> QED
  BY <1>1, <1>2, <1>3, Inductive, PTL DEF Spec

-----------------------------------------------------------------------------
(* The line table *)

\* k is the last line written at or before `at', and is the line remembered.
LineAt(ls, k, at, line) ==
  ls[k].offset = line /\ line <= at /\ \A j \in k + 1 .. Len(ls) : at < ls[j].offset
Remembers(ls, at, line) == line = Invalid \/ \E k \in 1 .. Len(ls) : LineAt(ls, k, at, line)

Rising(ls) == \A i, j \in 1 .. Len(ls) : i < j => ls[i].offset < ls[j].offset
Lined(c) ==
  /\ Rising(c.lines)
  /\ \A i \in 1 .. Len(c.lines) : c.lines[i].offset <= Len(c.code)
  /\ \A i \in 1 .. Len(c.code) : Remembers(c.lines, i - 1, c.code[i].line)

LEMMA LinesAre ==
  ASSUME NEW c \in Chunk
  PROVE  /\ Len(c.code) \in Nat /\ Len(c.lines) \in Nat /\ c.lines \in Seq(Lines) /\ c.code \in Seq(Words)
         /\ c.entry \in Nat
         /\ \A i \in 1 .. Len(c.lines) : c.lines[i] \in Lines /\ c.lines[i].offset \in Nat
<1>1. c.code \in Seq(Words) /\ c.lines \in Seq(Lines) /\ c.entry \in Nat
  BY DEF Chunk
<1>2. \A i \in 1 .. Len(c.lines) : c.lines[i] \in Lines
  BY <1>1
<1> QED
  BY <1>1, <1>2 DEF Lines

\* Neither patches nor global data concern the lines.
LEMMA LinedSame ==
  ASSUME NEW c \in Chunk, NEW e, Lined(c), Len(e.code) = Len(c.code), e.lines = c.lines,
         \A i \in 1 .. Len(c.code) : e.code[i].line = c.code[i].line
  PROVE  Lined(e)
BY DEF Lined

LEMMA LinedInfo ==
  ASSUME NEW c \in Chunk, Lined(c)
  PROVE  Lined(WriteDebugInfo(c))
<1>1. PICK n \in Nat, len \in Nat :
        /\ n = Len(c.lines) /\ len = Len(c.code) /\ c.lines \in Seq(Lines)
        /\ \A i \in 1 .. n : c.lines[i] \in Lines /\ c.lines[i].offset \in Nat /\ c.lines[i].offset <= len
  BY LinesAre DEF Lined
<1>2. PICK d \in Chunk : d = WriteDebugInfo(c) /\ d.code = c.code
  BY DebugInfoKeepsCode DEF KeepsCode
<1>3. CASE c.lines # << >> /\ Last(c.lines).offset = Len(c.code)
  <2> DEFINE l == [c.lines[n] EXCEPT !.count = IF @ < 8 THEN @ + 1 ELSE @]
             ls == [c.lines EXCEPT ![n] = l]
  <2>1. n \in 1 .. n
    BY <1>1, <1>3
  <2>2. l.offset = c.lines[n].offset
    BY <1>1, <2>1 DEF Lines
  <2> HIDE DEF l
  <2>3. Len(ls) = n /\ \A i \in 1 .. n : ls[i].offset = c.lines[i].offset
    BY <1>1, <2>1, <2>2
  <2>4. d = [c EXCEPT !.lines = ls]
    BY <1>1, <1>2, <1>3 DEF WriteDebugInfo, l
  <2>5. d.lines = ls
    BY <2>4 DEF Chunk
  <2> HIDE DEF ls
  <2>6. Rising(d.lines)
    BY <1>1, <2>3, <2>5 DEF Lined, Rising
  <2>7. \A at, line : Remembers(c.lines, at, line) => Remembers(d.lines, at, line)
    BY <1>1, <2>3, <2>5 DEF Remembers, LineAt
  <2> QED
    BY <1>1, <1>2, <2>3, <2>5, <2>6, <2>7 DEF Lined
<1>4. CASE ~ (c.lines # << >> /\ Last(c.lines).offset = Len(c.code))
  <2> DEFINE l == [offset |-> len, count |-> 1]
             ls == Append(c.lines, l)
  <2>1. d = [c EXCEPT !.lines = ls]
    BY <1>1, <1>2, <1>4 DEF WriteDebugInfo
  <2>2. d.lines = ls
    BY <2>1 DEF Chunk
  <2>3. /\ Len(ls) = n + 1 /\ ls[n + 1].offset = len
        /\ \A i \in 1 .. n : ls[i] = c.lines[i]
    BY <1>1
  <2> HIDE DEF ls
  <2>4. ASSUME NEW i \in 1 .. n PROVE c.lines[i].offset < len
    <3>1. n \in 1 .. n /\ c.lines # << >>
      BY <1>1
    <3>2. c.lines[n].offset # len
      BY <1>1, <1>4, <3>1 DEF Last
    <3>3. i = n \/ c.lines[i].offset < c.lines[n].offset
      BY <1>1, <3>1 DEF Lined, Rising
    <3> QED
      BY <1>1, <3>1, <3>2, <3>3
  <2>5. Rising(d.lines)
    <3> SUFFICES ASSUME NEW i \in 1 .. n + 1, NEW j \in 1 .. n + 1, i < j
                 PROVE  ls[i].offset < ls[j].offset
      BY <2>2, <2>3 DEF Rising
    <3>1. CASE j = n + 1
      BY <1>1, <2>3, <2>4, <3>1
    <3>2. CASE j # n + 1
      <4>1. i \in 1 .. n /\ j \in 1 .. n
        BY <1>1, <3>2
      <4> QED
        BY <1>1, <2>3, <4>1 DEF Lined, Rising
    <3> QED
      BY <3>1, <3>2
  <2>6. ASSUME NEW i \in 1 .. len PROVE Remembers(d.lines, i - 1, d.code[i].line)
    <3>1. Remembers(c.lines, i - 1, c.code[i].line)
      BY <1>1 DEF Lined
    <3>2. ASSUME NEW k \in 1 .. n, LineAt(c.lines, k, i - 1, c.code[i].line)
          PROVE  k \in 1 .. n + 1 /\ LineAt(ls, k, i - 1, c.code[i].line)
      <4>1. \A j \in k + 1 .. n + 1 : i - 1 < ls[j].offset
        <5> TAKE j \in k + 1 .. n + 1
        <5>1. CASE j = n + 1
          BY <1>1, <2>3, <5>1
        <5>2. CASE j # n + 1
          <6>1. j \in k + 1 .. n /\ j \in 1 .. n
            <7>1. k \in Int /\ n \in Int /\ j \in Int /\ 1 <= k /\ k < j /\ j <= n + 1
              BY <1>1
            <7> QED
              BY <5>2, <7>1
          <6> QED
            BY <1>1, <2>3, <3>2, <6>1 DEF LineAt
        <5> QED
          BY <5>1, <5>2
      <4> QED
        BY <1>1, <2>3, <3>2, <4>1 DEF LineAt
    <3> QED
      BY <1>1, <1>2, <2>2, <2>3, <3>1, <3>2 DEF Remembers
  <2>7. \A i \in 1 .. n + 1 : ls[i].offset <= len
    BY <1>1, <2>3
  <2> QED
    BY <1>1, <1>2, <2>2, <2>3, <2>5, <2>6, <2>7 DEF Lined
<1> QED
  BY <1>2, <1>3, <1>4

LEMMA LinedEmit ==
  ASSUME NEW c \in Chunk, Lined(c), NEW op, NEW arg, NEW size \in Nat, NEW tag
  PROVE  Lined(Emit(c, op, arg, size, tag))
<1>1. PICK n \in Nat, len \in Nat :
        /\ n = Len(c.lines) /\ len = Len(c.code) /\ c.lines \in Seq(Lines) /\ c.code \in Seq(Words)
        /\ \A i \in 1 .. n : c.lines[i].offset \in Nat /\ c.lines[i].offset <= len
  BY LinesAre DEF Lined
<1> DEFINE word(i) == [op |-> IF i = 1 THEN op ELSE "operand", arg |-> IF i = 1 THEN arg ELSE 0,
                       tag |-> tag, line |-> LastLine(c)]
           new == [i \in 1 .. size |-> word(i)]
           any == Words \cup {word(i) : i \in 1 .. size}
           e == [c EXCEPT !.code = @ \o new]
<1>2. /\ Len(new) = size /\ \A i \in 1 .. size : new[i].line = LastLine(c)
      /\ new \in Seq(any)
  <2>1. new \in [1 .. size -> any]
    <3> HIDE DEF word
    <3> QED
      OBVIOUS
  <2> QED
    BY <2>1
<1>3. e = Emit(c, op, arg, size, tag)
  BY DEF Emit
<1>4. e.code = c.code \o new /\ e.lines = c.lines
  BY DEF Chunk
<1>9. c.code \in Seq(any)
  BY <1>1
<1> HIDE DEF new, e, word, any
<1>5. /\ Len(e.code) = len + size
      /\ \A i \in 1 .. len : e.code[i] = c.code[i]
      /\ \A i \in 1 .. size : e.code[len + i] = new[i]
  <2>1. Len(c.code \o new) = len + size
    BY <1>1, <1>2, <1>9, ConcatProperties
  <2>2. \A i \in 1 .. len : (c.code \o new)[i] = c.code[i]
    BY <1>1, <1>2, <1>9
  <2>3. \A i \in 1 .. size : (c.code \o new)[len + i] = new[i]
    BY <1>1, <1>2, <1>9
  <2> QED
    BY <1>4, <2>1, <2>2, <2>3
<1>6. ASSUME NEW i \in len + 1 .. len + size PROVE Remembers(c.lines, i - 1, e.code[i].line)
  <2>1. PICK m \in 1 .. size : i = len + m
    <3>1. i - len \in 1 .. size /\ i = len + (i - len)
      BY <1>1
    <3> QED
      BY <3>1
  <2>2. e.code[i].line = LastLine(c)
    BY <1>2, <1>5, <2>1
  <2>3. CASE c.lines = << >>
    BY <2>2, <2>3 DEF LastLine, Remembers
  <2>4. CASE c.lines # << >>
    <3>1. n \in 1 .. n
      BY <1>1, <2>4
    <3>2. LastLine(c) = c.lines[n].offset
      BY <1>1, <2>4 DEF LastLine, Last
    <3>3. n + 1 .. n = {}
      BY <1>1
    <3>4. c.lines[n].offset <= i - 1
      BY <1>1, <3>1
    <3>5. LineAt(c.lines, n, i - 1, e.code[i].line)
      BY <1>1, <2>2, <3>2, <3>3, <3>4 DEF LineAt
    <3> QED
      BY <1>1, <3>1, <3>5 DEF Remembers
  <2> QED
    BY <2>3, <2>4
<1>7. ASSUME NEW i \in 1 .. len + size PROVE Remembers(c.lines, i - 1, e.code[i].line)
  <2>1. CASE i \in 1 .. len
    BY <1>1, <1>5, <2>1 DEF Lined
  <2>2. CASE i \notin 1 .. len
    <3>1. i \in len + 1 .. len + size
      BY <1>1, <2>2
    <3> QED
      BY <1>6, <3>1
  <2> QED
    BY <2>1, <2>2
<1>8. \A i \in 1 .. n : c.lines[i].offset <= len + size
  BY <1>1
<1> QED
  BY <1>1, <1>3, <1>4, <1>5, <1>7, <1>8 DEF Lined

\* The lines before the entry point are the first ones.
LEMMA FirstLines ==
  ASSUME NEW ls \in Seq(Lines), Rising(ls), NEW at \in Nat
  PROVE  \E k \in 0 .. Len(ls) :
           /\ k = Cardinality({i \in DOMAIN ls : ls[i].offset < at})
           /\ \A i \in 1 .. Len(ls) : ls[i].offset < at <=> i <= k
<1> DEFINE S == {i \in DOMAIN ls : ls[i].offset < at}
<1>1. PICK n \in Nat : n = Len(ls) /\ DOMAIN ls = 1 .. n /\ \A i \in 1 .. n : ls[i].offset \in Nat
  <2>1. \A i \in 1 .. Len(ls) : ls[i] \in Lines
    OBVIOUS
  <2> QED
    BY <2>1 DEF Lines
<1>2. CASE S = {}
  <2>1. Cardinality(S) = 0
    BY <1>2, FS_EmptySet
  <2>2. \A i \in 1 .. n : ~ (ls[i].offset < at) /\ ~ (i <= 0)
    BY <1>1, <1>2
  <2> HIDE DEF S
  <2>3. 0 \in 0 .. Len(ls) /\ 0 = Cardinality(S) /\ \A i \in 1 .. Len(ls) : ls[i].offset < at <=> i <= 0
    BY <1>1, <2>1, <2>2
  <2> QED
    BY <2>3 DEF S
<1>3. CASE S # {}
  <2>1. S \subseteq 1 .. n
    BY <1>1
  <2>2. PICK k \in S : \A j \in S : j <= k
    <3> HIDE DEF S
    <3> QED
      BY <1>1, <1>3, <2>1, MaxOf DEF HasMax
  <2>3. k \in 1 .. n /\ ls[k].offset < at
    BY <1>1, <2>2
  <2>4. ASSUME NEW i \in 1 .. n PROVE ls[i].offset < at <=> i <= k
    <3>1. ASSUME ls[i].offset < at PROVE i <= k
      BY <1>1, <2>2, <3>1
    <3>2. ASSUME i <= k PROVE ls[i].offset < at
      <4>1. i = k \/ ls[i].offset < ls[k].offset
        BY <1>1, <2>3, <3>2 DEF Rising
      <4> QED
        BY <1>1, <2>3, <4>1
    <3> QED
      BY <3>1, <3>2
  <2>5. S = 1 .. k
    BY <1>1, <2>3, <2>4
  <2>8. k \in Nat /\ ~ (1 > k) /\ k - 1 + 1 = k
    BY <1>1, <2>3
  <2>9. Cardinality(1 .. k) = IF 1 > k THEN 0 ELSE k - 1 + 1
    BY <2>8, FS_Interval
  <2>6. Cardinality(S) = k
    BY <2>5, <2>8, <2>9
  <2> HIDE DEF S
  <2>7. k \in 0 .. Len(ls) /\ k = Cardinality(S) /\ \A i \in 1 .. Len(ls) : ls[i].offset < at <=> i <= k
    BY <1>1, <2>3, <2>4, <2>6
  <2> QED
    BY <2>7 DEF S
<1> QED
  BY <1>2, <1>3

LEMMA LinedReset ==
  ASSUME NEW c \in Chunk, Lined(c), c.entry <= Len(c.code)
  PROVE  Lined(ChunkReset(c))
<1>1. PICK n \in Nat, len \in Nat, at \in Nat :
        /\ n = Len(c.lines) /\ len = Len(c.code) /\ at = c.entry /\ at <= len
        /\ c.lines \in Seq(Lines) /\ c.code \in Seq(Words)
        /\ \A i \in 1 .. n : c.lines[i].offset \in Nat
  BY LinesAre
<1>2. PICK k \in Nat : /\ k <= n /\ k = Cardinality({i \in DOMAIN c.lines : c.lines[i].offset < at})
                       /\ \A i \in 1 .. n : c.lines[i].offset < at <=> i <= k
  <2>1. Rising(c.lines)
    BY DEF Lined
  <2>2. PICK k \in 0 .. Len(c.lines) :
          /\ k = Cardinality({i \in DOMAIN c.lines : c.lines[i].offset < at})
          /\ \A i \in 1 .. Len(c.lines) : c.lines[i].offset < at <=> i <= k
    BY <1>1, <2>1, FirstLines
  <2>3. k \in Nat /\ k <= n
    BY <1>1, <2>2
  <2> QED
    BY <1>1, <2>2, <2>3
<1> DEFINE code == SubSeq(c.code, 1, at)
           ls == SubSeq(c.lines, 1, k)
<1>3. Len(code) = at /\ \A i \in 1 .. at : code[i] = c.code[i]
  BY <1>1
<1>4. Len(ls) = k /\ \A i \in 1 .. k : ls[i] = c.lines[i] /\ i \in 1 .. n
  <2>1. Len(ls) = k
    BY <1>1, <1>2
  <2>2. \A i \in 1 .. k : ls[i] = c.lines[i]
    BY <1>1, <1>2
  <2>3. \A i \in 1 .. k : i \in 1 .. n
    BY <1>1, <1>2
  <2> QED
    BY <2>1, <2>2, <2>3
<1>5. PICK e : e = [c EXCEPT !.code = code, !.lines = ls]
  OBVIOUS
<1>6. e = ChunkReset(c)
  BY <1>1, <1>2, <1>5 DEF ChunkReset
<1>7. e.code = code /\ e.lines = ls
  BY <1>5 DEF Chunk
<1> HIDE DEF code, ls
<1>8. Rising(ls)
  <2>1. ASSUME NEW i \in 1 .. Len(ls), NEW j \in 1 .. Len(ls), i < j
        PROVE  ls[i].offset < ls[j].offset
    <3>1. /\ i \in 1 .. n /\ j \in 1 .. n /\ ls[i] = c.lines[i] /\ ls[j] = c.lines[j]
      BY <1>4
    <3>2. c.lines[i].offset < c.lines[j].offset
      BY <1>1, <2>1, <3>1 DEF Lined, Rising
    <3> QED
      BY <3>1, <3>2
  <2> QED
    BY <2>1 DEF Rising
<1>9. \A i \in 1 .. k : ls[i].offset <= at
  BY <1>1, <1>2, <1>4
<1>10. ASSUME NEW i \in 1 .. at PROVE Remembers(ls, i - 1, code[i].line)
  <2>1. i \in 1 .. len /\ code[i] = c.code[i]
    BY <1>1, <1>3
  <2>2. Remembers(c.lines, i - 1, code[i].line)
    BY <1>1, <2>1 DEF Lined
  <2>3. ASSUME NEW j \in 1 .. n, LineAt(c.lines, j, i - 1, code[i].line)
        PROVE  j \in 1 .. k /\ LineAt(ls, j, i - 1, code[i].line)
    <3>1. c.lines[j].offset <= i - 1
      BY <2>3 DEF LineAt
    <3>2. j \in 1 .. k
      BY <1>1, <1>2, <3>1
    <3>3. \A l \in j + 1 .. k : l \in j + 1 .. n /\ l \in 1 .. k
      BY <1>1, <1>2, <3>2
    <3> QED
      BY <1>1, <1>4, <2>3, <3>2, <3>3 DEF LineAt
  <2> QED
    BY <1>1, <1>4, <2>2, <2>3 DEF Remembers
<1> QED
  BY <1>3, <1>4, <1>6, <1>7, <1>8, <1>9, <1>10 DEF Lined
\* A search for `at', whose line is the k-th of n: it keeps k between low and high.
Searches(n, k) ==
  {s \in [low : 1 .. n, mid : 1 .. n, high : 1 .. n] :
     /\ s.low <= k /\ k < s.high
     /\ s.high - s.low >= 2 => s.low < s.mid /\ s.mid < s.high}
Ends(at, s) == s.high - s.low <= Few \/ at = Offset(s.mid)

\* The lines up to k, and no others, are at or before `at'.
Splits(n, k, at) ==
  /\ at \in Int /\ \A i \in 1 .. n : Offset(i) \in Nat
  /\ \A i \in 1 .. n : Offset(i) <= at <=> i <= k
  /\ \A i \in 1 .. n : Offset(i) = at => i = k

LEMMA NarrowOK ==
  ASSUME NEW n \in Nat, NEW k \in 1 .. n, NEW at, Splits(n, k, at), NEW s \in Searches(n, k)
  PROVE  /\ Narrow(at, s) \in Searches(n, k)
         /\ Ends(at, s) => Narrow(at, s) = s
         /\ ~ Ends(at, s) => Narrow(at, s).high - Narrow(at, s).low < s.high - s.low
<1>1. PICK low \in 1 .. n, mid \in 1 .. n, high \in 1 .. n :
        s = [low |-> low, mid |-> mid, high |-> high] /\ low <= k /\ k < high
        /\ (high - low >= 2 => low < mid /\ mid < high)
  BY DEF Searches
<1>2. CASE Ends(at, s)
  <2>1. Narrow(at, s) = s
    BY <1>2 DEF Narrow, Ends
  <2> QED
    BY <1>2, <2>1
<1>3. CASE ~ Ends(at, s)
  <2>1. low < mid /\ mid < high /\ at # Offset(mid) /\ ~ (high - low <= Few)
    BY <1>1, <1>3, SessionAssumption DEF Ends
  <2>2. CASE at > Offset(mid)
    <3>1. PICK m \in Int : m = mid + (high - mid) \div 2
      OBVIOUS
    <3>2. mid <= m /\ m <= high /\ (high - mid >= 2 => mid < m /\ m < high)
      BY <3>1, <2>1
    <3>3. Narrow(at, s) = [low |-> mid, mid |-> m, high |-> high]
      BY <1>1, <2>1, <2>2, <3>1 DEF Narrow
    <3>4. mid <= k
      BY <2>2 DEF Splits
    <3>5. m \in 1 .. n
      BY <3>1, <3>2
    <3> QED
      BY <1>1, <1>3, <2>1, <3>2, <3>3, <3>4, <3>5 DEF Searches
  <2>3. CASE ~ (at > Offset(mid))
    <3>1. PICK m \in Int : m = low + (mid - low) \div 2
      OBVIOUS
    <3>2. low <= m /\ m <= mid /\ (mid - low >= 2 => low < m /\ m < mid)
      BY <3>1, <2>1
    <3>3. Narrow(at, s) = [low |-> low, mid |-> m, high |-> mid]
      BY <1>1, <2>1, <2>3, <3>1 DEF Narrow
    <3>4. k < mid
      BY <2>1, <2>3 DEF Splits
    <3>5. m \in 1 .. n
      BY <3>1, <3>2
    <3> QED
      BY <1>1, <1>3, <2>1, <3>2, <3>3, <3>4, <3>5 DEF Searches
  <2> QED
    BY <2>2, <2>3
<1> QED
  BY <1>2, <1>3

LEMMA MiddleIs ==
  ASSUME NEW n \in Nat, 1 < n
  PROVE  n \div 2 + 1 \in 1 .. n /\ (n - 1 >= 2 => 1 < n \div 2 + 1 /\ n \div 2 + 1 < n)
OBVIOUS

\* As many steps as there are lines are enough.
LEMMA SearchEnds ==
  ASSUME NEW n \in Nat, n = Len(chunk.lines), NEW k \in 1 .. n, k < n, NEW at, Splits(n, k, at)
  PROVE  BinarySearch(at) \in Searches(n, k) /\ Ends(at, BinarySearch(at))
<1>16. PICK m \in 1 .. n : m = n \div 2 + 1 /\ (n - 1 >= 2 => 1 < m /\ m < n)
  <2>1. n \div 2 + 1 \in 1 .. n /\ (n - 1 >= 2 => 1 < n \div 2 + 1 /\ n \div 2 + 1 < n)
    <3>1. n \in Nat /\ 1 < n
      OBVIOUS
    <3> QED
      BY <3>1, MiddleIs, Zenon
  <2> QED
    BY <2>1
<1>17. [low |-> 1, mid |-> m, high |-> n] \in Searches(n, k)
  <2>1. 1 \in 1 .. n /\ n \in 1 .. n /\ 1 <= k
    OBVIOUS
  <2> QED
    BY <1>16, <2>1 DEF Searches
<1> DEFINE S == Searches(n, k)
           step == [i \in 1 .. n |-> [s \in S |-> Narrow(at, s)]]
           s0 == [low |-> 1, mid |-> n \div 2 + 1, high |-> n]
<1>1. IsStep(step, S, n)
  BY NarrowOK DEF IsStep
<1>2. s0 \in S
  BY <1>16, <1>17
<1>3. s0.low = 1 /\ s0.high = n
  OBVIOUS
<1> HIDE DEF S, s0
<1>4. PICK g : Iterated(g, S, s0, step, n)
  <2> HIDE DEF step
  <2> QED
    BY <1>1, <1>2, Iterates
<1>5. \A i \in 1 .. n : i - 1 \in 0 .. n
  OBVIOUS
<1>6. g \in [0 .. n -> S] /\ g[0] = s0 /\ \A i \in 1 .. n : g[i] = Narrow(at, g[i - 1])
  BY <1>4, <1>5 DEF Iterated
<1> DEFINE F(f) == [i \in 0 .. n |-> IF i = 0 THEN s0 ELSE Narrow(at, f[i - 1])]
           h == CHOOSE f : f = F(f)
<1>7. g = F(g)
  <2>1. \A i \in 0 .. n : i = 0 \/ i \in 1 .. n
    OBVIOUS
  <2> QED
    BY <1>6, <2>1
<1>8. h = F(h)
  BY <1>7
<1>9. BinarySearch(at) = h[n]
  BY DEF BinarySearch, s0
<1> HIDE DEF h
<1>10. Alike(g, h, n)
  <2>1. g[0] = h[0]
    BY <1>6, <1>8
  <2>2. \A i \in 1 .. n : i \in 0 .. n /\ i # 0
    OBVIOUS
  <2>3. \A i \in 1 .. n : h[i] = Narrow(at, h[i - 1])
    BY <1>8, <2>2
  <2>4. StepsAlike(g, h, n)
    BY <1>6, <2>3 DEF StepsAlike
  <2> QED
    BY <2>1, <2>4, SameFrom0
<1>11. BinarySearch(at) = g[n] /\ g[n] \in S
  BY <1>6, <1>9, <1>10 DEF Alike
<1> DEFINE T == {i \in 0 .. n : Ends(at, g[i]) \/ g[i].high - g[i].low <= n - i}
<1>12. 0 \in T
  BY <1>3, <1>6
<1>13. ASSUME NEW i \in 1 .. n, i - 1 \in T PROVE i \in T
  <2>1. g[i - 1] \in S /\ g[i] \in S /\ g[i] = Narrow(at, g[i - 1])
    <3>1. i \in 0 .. n /\ i - 1 \in 0 .. n
      BY <1>5
    <3> HIDE DEF T
    <3> QED
      BY <1>6, <3>1
  <2>2. CASE Ends(at, g[i - 1])
    <3>1. g[i] = g[i - 1]
      BY <2>1, <2>2, NarrowOK DEF S
    <3> QED
      BY <2>2, <3>1
  <2>3. CASE ~ Ends(at, g[i - 1])
    <3>1. g[i].high - g[i].low < g[i - 1].high - g[i - 1].low
      BY <2>1, <2>3, NarrowOK DEF S
    <3>2. g[i - 1].high - g[i - 1].low <= n - (i - 1)
      BY <1>13, <2>3
    <3>3. /\ g[i].high \in Int /\ g[i].low \in Int /\ g[i - 1].high \in Int /\ g[i - 1].low \in Int
      BY <2>1 DEF S, Searches
    <3>5. \A a, b, c, d \in Int : a - b < c - d /\ c - d <= n - (i - 1) => a - b <= n - i
      OBVIOUS
    <3> HIDE DEF T
    <3>4. g[i].high - g[i].low <= n - i
      BY <3>1, <3>2, <3>3, <3>5
    <3> QED
      BY <3>4 DEF T
  <2> QED
    BY <2>2, <2>3
<1>14. n \in T
  <2> HIDE DEF T
  <2> QED
    BY <1>12, <1>13, UpTo
<1>15. Ends(at, g[n])
  <2>1. ASSUME g[n].high - g[n].low <= 0 PROVE g[n].high - g[n].low <= Few
    <3>1. g[n].high \in Int /\ g[n].low \in Int
      BY <1>11 DEF S, Searches
    <3>2. Few \in Nat
      BY SessionAssumption
    <3> QED
      BY <2>1, <3>1, <3>2
  <2> QED
    BY <1>14, <2>1 DEF Ends
<1> QED
  BY <1>11, <1>15 DEF S

\* ChunkGetDebugInfo finds the last line at or before an instruction.
LEMMA SearchFinds ==
  ASSUME NEW n \in Nat, n = Len(chunk.lines), NEW k \in 1 .. n, NEW at, Splits(n, k, at)
  PROVE  GetDebugInfo(at) = k
<1>1. CASE Offset(n) <= at
  <2>1. k = n
    BY <1>1 DEF Splits
  <2> QED
    BY <1>1, <2>1 DEF GetDebugInfo
<1>2. CASE ~ (Offset(n) <= at)
  <2>1. k < n
    BY <1>2 DEF Splits
  <2>2. PICK s : s = BinarySearch(at)
    OBVIOUS
  <2>3. s \in Searches(n, k) /\ Ends(at, s)
    BY <2>1, <2>2, SearchEnds
  <2> DEFINE stops == {i \in s.low .. s.high - 1 : Offset(i) = at \/ Offset(i + 1) > at}
  <2>4. GetDebugInfo(at) = IF s.high - s.low > Few THEN s.mid
                           ELSE IF stops = {} THEN s.high ELSE CHOOSE i \in stops : \A j \in stops : i <= j
    BY <1>2, <2>2 DEF GetDebugInfo
  <2>5. /\ s.low \in 1 .. n /\ s.mid \in 1 .. n /\ s.high \in 1 .. n /\ s.low <= k /\ k < s.high
    BY <2>3 DEF Searches
  <2>6. CASE s.high - s.low > Few
    <3>1. at = Offset(s.mid)
      BY <2>3, <2>5, <2>6, SessionAssumption DEF Ends
    <3>2. s.mid = k
      BY <2>5, <3>1 DEF Splits
    <3> QED
      BY <2>4, <2>6, <3>2
  <2>7. CASE ~ (s.high - s.low > Few)
    <3>1. k \in stops
      <4>1. k \in s.low .. s.high - 1 /\ k + 1 \in 1 .. n /\ ~ (k + 1 <= k)
        BY <2>5
      <4>2. Offset(k + 1) > at
        BY <4>1 DEF Splits
      <4> QED
        BY <4>1, <4>2
    <3>2. ASSUME NEW j \in stops PROVE k <= j
      <4>1. j \in 1 .. n /\ j + 1 \in 1 .. n
        BY <2>5
      <4>2. CASE Offset(j) = at
        BY <4>1, <4>2 DEF Splits
      <4>3. CASE Offset(j + 1) > at
        <5>1. ~ (j + 1 <= k)
          BY <4>1, <4>3 DEF Splits
        <5> QED
          BY <4>1, <5>1
      <4> QED
        BY <4>2, <4>3
    <3>3. \A j \in stops : j \in Int
      BY <2>5
    <3> HIDE DEF stops
    <3>4. \A i \in stops : (\A j \in stops : i <= j) => i = k
      BY <3>1, <3>2, <3>3
    <3>5. (CHOOSE i \in stops : \A j \in stops : i <= j) = k
      BY <3>1, <3>2, <3>4
    <3> QED
      BY <2>4, <2>7, <3>1, <3>5
  <2> QED
    BY <2>6, <2>7
<1> QED
  BY <1>1, <1>2

LEMMA LinedFound ==
  ASSUME chunk \in Chunk, Lined(chunk)
  PROVE  LinesFound
<1>1. PICK n \in Nat, len \in Nat :
        /\ n = Len(chunk.lines) /\ len = Len(chunk.code) /\ DOMAIN chunk.code = 1 .. len
        /\ \A i \in 1 .. n : Offset(i) \in Nat
  BY LinesAre DEF Offset
<1> SUFFICES ASSUME NEW i \in 1 .. len, chunk.code[i].line # Invalid
             PROVE  Offset(GetDebugInfo(i - 1)) = chunk.code[i].line
  BY <1>1 DEF LinesFound
<1>2. Remembers(chunk.lines, i - 1, chunk.code[i].line)
  BY <1>1 DEF Lined
<1>3. PICK k \in 1 .. n : LineAt(chunk.lines, k, i - 1, chunk.code[i].line)
  BY <1>1, <1>2 DEF Remembers
<1>4. /\ Offset(k) = chunk.code[i].line /\ Offset(k) <= i - 1
      /\ \A j \in k + 1 .. n : i - 1 < Offset(j)
  BY <1>1, <1>3 DEF LineAt, Offset
<1>5. \A j, l \in 1 .. n : j < l => Offset(j) < Offset(l)
  BY <1>1 DEF Lined, Rising, Offset
<1>6. Splits(n, k, i - 1)
  <2>1. ASSUME NEW j \in 1 .. n
        PROVE  (Offset(j) <= i - 1 <=> j <= k) /\ (Offset(j) = i - 1 => j = k)
    <3>1. CASE j < k
      BY <1>1, <1>4, <1>5, <3>1
    <3>2. CASE j = k
      BY <1>1, <1>4, <3>2
    <3>3. CASE j > k
      <4>1. j \in k + 1 .. n
        BY <3>3
      <4> QED
        BY <1>1, <1>4, <3>3, <4>1
    <3> QED
      BY <3>1, <3>2, <3>3
  <2> QED
    BY <1>1, <2>1 DEF Splits
<1>7. GetDebugInfo(i - 1) = k
  BY <1>1, <1>6, SearchFinds
<1> QED
  BY <1>4, <1>7
-----------------------------------------------------------------------------
(* What steps do to the lines *)

LEMMA SameLine ==
  ASSUME NEW w \in Words, NEW arg \in Int
  PROVE  [w EXCEPT !.arg = arg] \in Words /\ [w EXCEPT !.arg = arg].line = w.line
BY DEF Words

\* A patch, wherever it goes.
LEMMA LinedArg ==
  ASSUME NEW c \in Chunk, Lined(c), NEW at \in Int, NEW arg \in Int
  PROVE  WithArg(c, at, arg) \in Chunk /\ Lined(WithArg(c, at, arg))
<1>1. PICK n \in Nat, k \in Int : n = Len(c.code) /\ k = at + 1 /\ c.code \in [1 .. n -> Words]
  <2>1. c.code \in Seq(Words) /\ Len(c.code) \in Nat /\ at + 1 \in Int
    BY LinesAre
  <2>2. c.code \in [1 .. Len(c.code) -> Words]
    BY <2>1
  <2> QED
    BY <2>1, <2>2
<1> DEFINE code == [c.code EXCEPT ![k] = [c.code[k] EXCEPT !.arg = arg]]
<1>2. /\ code \in [1 .. n -> Words]
      /\ \A i \in 1 .. n : code[i].line = c.code[i].line
  <2>1. ASSUME NEW i \in 1 .. n PROVE code[i] \in Words /\ code[i].line = c.code[i].line
    <3>1. c.code[i] \in Words
      BY <1>1
    <3>2. CASE i = k
      <4>1. code[i] = [c.code[i] EXCEPT !.arg = arg]
        BY <1>1, <3>2
      <4> QED
        BY <3>1, <4>1, SameLine
    <3>3. CASE i # k
      <4>1. code[i] = c.code[i]
        BY <1>1, <3>3
      <4> QED
        BY <3>1, <4>1
    <3> QED
      BY <3>2, <3>3
  <2>2. code = [i \in 1 .. n |-> code[i]]
    BY <1>1
  <2> HIDE DEF code
  <2> QED
    BY <2>1, <2>2
<1>3. WithArg(c, at, arg) = [c EXCEPT !.code = code]
  BY <1>1 DEF WithArg
<1> HIDE DEF code
<1>4. code \in Seq(Words) /\ Len(code) = n
  BY <1>2
<1>5. PICK e \in Chunk : e = [c EXCEPT !.code = code] /\ e.code = code /\ e.lines = c.lines
  BY <1>4, WithCode
<1> QED
  BY <1>1, <1>2, <1>3, <1>4, <1>5, LinedSame

LEMMA LinedEnter ==
  ASSUME NEW c \in Chunk, Lined(c), NEW at \in Int, NEW size \in Nat
  PROVE  PatchEnter(c, at, size) \in Chunk /\ Lined(PatchEnter(c, at, size))
<1>1. PICK arg \in Int : arg = RoundUp(size, StackAlign)
  <2>1. RoundUp(size, StackAlign) \in Int
    BY DEF RoundUp, StackAlign
  <2> QED
    BY <2>1
<1>2. PatchEnter(c, at, size) = WithArg(c, at, arg)
  BY <1>1 DEF PatchEnter, WithArg
<1> QED
  BY <1>2, LinedArg

LEMMA LinedLine ==
  ASSUME NEW c \in Chunk, Lined(c)
  PROVE  WriteDebugInfo(c) \in Chunk /\ Lined(WriteDebugInfo(c))
BY LinedInfo, DebugInfoKeepsCode DEF KeepsCode

LEMMA LinedSize ==
  ASSUME NEW c \in Chunk, Lined(c), NEW tag
  PROVE  Lined(EmitEnter(c, tag)) /\ Lined(EmitExit(c, tag)) /\ Lined(EmitCall(c, tag))
<1>1. 3 \in Nat /\ 1 \in Nat /\ BranchSize \in Nat
  BY DEF BranchSize
<1> QED
  BY <1>1, LinedEmit DEF EmitEnter, EmitExit, EmitCall

LEMMA LinedResolve ==
  ASSUME IInv, Lined(chunk)
  PROVE  Lined(Resolve(chunk))
<1>1. PICK r \in Chunk : r = Resolve(chunk) /\ Len(r.code) = Here
  BY ResolveOK
<1>2. chunk \in Chunk /\ Here = Len(chunk.code) /\ DOMAIN chunk.code = 1 .. Here /\ chunk.code \in Seq(Words)
  BY Sizes
<1>3. r.lines = chunk.lines
  BY <1>1, <1>2 DEF Resolve, Chunk
<1>4. ASSUME NEW i \in 1 .. Here PROVE r.code[i].line = chunk.code[i].line
  <2>1. i - 1 + 1 = i /\ chunk.code[i] \in Words
    BY <1>2
  <2>2. PICK to : r.code[i] = IF {k \in DOMAIN comp.refs : comp.refs[k].site = i - 1} = {} THEN chunk.code[i]
                              ELSE PatchBranch(chunk, i - 1, to).code[i]
    <3> DEFINE refs(j) == {k \in DOMAIN comp.refs : comp.refs[k].site = j - 1}
               target(j) == subs[comp.refs[CHOOSE k \in refs(j) : TRUE].sub].loc
               word(j) == IF refs(j) = {} THEN chunk.code[j] ELSE PatchBranch(chunk, j - 1, target(j)).code[j]
    <3>1. r = [chunk EXCEPT !.code = [j \in 1 .. Here |-> word(j)]]
      BY <1>1, <1>2 DEF Resolve
    <3>2. r.code = [j \in 1 .. Here |-> word(j)]
      BY <1>2, <3>1 DEF Chunk
    <3>3. r.code[i] = word(i)
      BY <3>2
    <3> QED
      BY <3>3
  <2>3. PICK arg : PatchBranch(chunk, i - 1, to) = [chunk EXCEPT !.code[i].arg = arg]
    BY <2>1 DEF PatchBranch
  <2>4. PatchBranch(chunk, i - 1, to).code[i] = [chunk.code[i] EXCEPT !.arg = arg]
    BY <1>2, <2>3 DEF Chunk
  <2>5. PatchBranch(chunk, i - 1, to).code[i].line = chunk.code[i].line
    BY <2>1, <2>4 DEF Words
  <2> QED
    BY <2>2, <2>5
<1> QED
  BY <1>1, <1>2, <1>3, <1>4, LinedSame

LEMMA LinedFinishes ==
  ASSUME IInv, Lined(chunk), Finishes
  PROVE  Lined(chunk')
<1>1. PICK r \in Chunk : r = Resolve(chunk) /\ Lined(r)
  BY ResolveOK, LinedResolve
<1>2. PICK entry \in Nat : entry = comp.entry
  BY Sizes DEF Compiler
<1>3. PICK d : d = [r EXCEPT !.entry = entry]
  OBVIOUS
<1>6. d \in Chunk /\ d.code = r.code /\ d.lines = r.lines
  BY <1>1, <1>2, <1>3 DEF Chunk
<1>4. Lined(d)
  BY <1>1, <1>6, LinedSame
<1>5. chunk' = EmitExit(d, <<0, Len(calls) + 1>>)
  BY <1>1, <1>2, <1>3 DEF Finishes, Finished
<1> QED
  BY <1>4, <1>5, <1>6, LinedSize

LEMMA VarBlockLined ==
  ASSUME IInv, Lined(chunk), NEW block \in Blocks, VarBlock(block), ~ Dies
  PROVE  Lined(chunk')
<1>1. PICK here \in 0 .. Known, global \in BOOLEAN, sure \in BOOLEAN, b \in BlockState(Known, chunk),
           base \in Nat : Stores(here, global, sure, b, block, base)
  BY VarBlockDeclares
<1>2. chunk \in Chunk /\ b.chunk \in Extended(chunk) /\ b.total \in Nat
  BY Sizes DEF BlockState
<1>3. chunk' \in Extended(chunk)
  BY <1>1, <1>2, ExtendedMore DEF Stores
<1> QED
  BY <1>2, <1>3, LinedSame DEF Extended

LEMMA EndBlockLined ==
  ASSUME IInv, Lined(chunk), NEW atEnd, EndBlock(atEnd)
  PROVE  Lined(chunk')
<1>1. comp.entry \in Int /\ comp.stack \in Nat /\ chunk \in Chunk
  BY Sizes DEF Compiler
<1> QED
  BY <1>1, LinedEnter DEF EndBlock

LEMMA LinesStep ==
  ASSUME IInv, Lined(chunk), [Next]_vars
  PROVE  Lined(chunk)'
<1>1. chunk \in Chunk /\ chunk.entry <= Len(chunk.code)
  BY Sizes
<1>2. PICK d \in Chunk : d = WriteDebugInfo(chunk) /\ Lined(d)
  BY <1>1, LinedLine
<1>3. CASE chunk' = chunk
  BY <1>3 DEF Lined
<1>4. ASSUME NEW block \in Blocks, VarBlock(block), ~ Dies PROVE Lined(chunk')
  BY <1>4, VarBlockLined
<1>5. ASSUME NEW n \in Names, CallStmt(n) PROVE Lined(chunk')
  BY <1>2, <1>3, <1>5, LinedSize DEF CallStmt
<1>6. ASSUME NEW n \in Names, NEW ps \in Parameters, NEW forward \in BOOLEAN,
             SubroutineBlock(n, ps, forward), ~ Dies
      PROVE  Lined(chunk')
  <2>1. chunk' = d \/ chunk' = EmitEnter(d, <<Len(subs) + 1, 0>>)
    BY <1>2, <1>6 DEF SubroutineBlock
  <2> QED
    BY <1>2, <2>1, LinedSize
<1>7. CASE BeginBlock
  BY <1>1, <1>3, <1>7, LinedSize DEF BeginBlock
<1>8. CASE End \/ (Compiling("body") /\ EndBlock(TRUE))
  BY <1>8, EndBlockLined DEF End
<1>9. CASE EndSubroutine
  <2>1. PICK s \in 1 .. Known, loc \in Nat, p \in Chunk : Closes(s, loc, p)
    BY <1>9, EndSubroutineCloses
  <2>2. comp.stack \in Nat
    BY Sizes DEF Compiler
  <2>3. Lined(p)
    BY <1>1, <2>1, <2>2, LinedEnter DEF Closes
  <2>4. PICK e \in Chunk : e = WriteDebugInfo(p) /\ Lined(e)
    BY <2>3, LinedLine
  <2>5. chunk' = EmitExit(e, <<s, Len(subs[s].calls) + 1>>)
    BY <1>9, <2>1, <2>4 DEF EndSubroutine, Closes
  <2> QED
    BY <2>4, <2>5, LinedSize
<1>10. ASSUME NEW dot \in BOOLEAN, EndText(dot) PROVE Lined(chunk')
  <2>1. chunk' = chunk \/ Finishes
    BY <1>10, EndTextCases DEF Kept, Lost
  <2> QED
    BY <1>3, <2>1, LinedFinishes
<1>11. CASE Reset
  BY <1>1, <1>3, <1>11, LinedReset DEF Reset
<1>12. CASE \/ UNCHANGED vars \/ Dies \/ BeginText \/ Run
            \/ \E n \in Names : DefinitionBlock(n)
            \/ TextEnds /\ UNCHANGED chunk
  BY <1>3, <1>12 DEF vars, Dies, BeginText, Run, DefinitionBlock
<1>13. Lined(chunk')
  BY <1>3, <1>4, <1>5, <1>6, <1>7, <1>8, <1>9, <1>10, <1>11, <1>12 DEF Next, Step, TextEnds
<1> QED
  BY <1>13

-----------------------------------------------------------------------------
\* Wherever texts fail and code is thrown away, the line found for an instruction
\* is the last one written before it (Chunk.c: ChunkWriteDebugInfo, ChunkReset,
\* ChunkGetDebugInfo).
THEOREM LinesRight == Spec => []LinesFound
<1>1. Init => Lined(chunk)
  BY DEF Init, Lined, Rising
<1>2. IInv /\ Lined(chunk) /\ [Next]_vars => Lined(chunk)'
  BY LinesStep
<1>3. IInv /\ Lined(chunk) => LinesFound
  BY LinedFound, Sizes
<1> QED
  BY <1>1, <1>2, <1>3, Inductive, PTL DEF Spec
=============================================================================
