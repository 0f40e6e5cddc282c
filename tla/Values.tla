-------------------------------- MODULE Values --------------------------------
(***************************************************************************)
(* From the characters of a number to the bytes of a variable: the         *)
(* tokenizer (Tokenizer.c), the typing, folding and conversion of operands *)
(* (Compiler/Expr.c), the code of loads, stores and arithmetic             *)
(* (Compiler/Emitter.c, PVM/Chunk.c) and the VM that runs it (PVM/PVM.c).  *)
(*                                                                         *)
(* A text is a sequence of characters, "nl" the end of a line.  It is      *)
(* scanned to its end and compiled if it is one assignment of at most two  *)
(* operands to a global variable; anything else is a syntax error here.    *)
(* `val' is what the source says the variables are, for the texts of       *)
(* which Claimed says that the code means what the source does; README.md  *)
(* lists the others.                                                       *)
(*                                                                         *)
(* Bytes have Half / 2 bits: all widths scale with Half, and with them the *)
(* bounds of immediates.  Left out: real numbers, characters and strings   *)
(* beyond their tokens, booleans as operands, and += and its kin.          *)
(* EitherBound, OneCharacter, PastTheEnd, ZeroExtends and WholeRegister    *)
(* are no part of the model: they are wrong versions of what follows them. *)
(***************************************************************************)
EXTENDS Integers, Sequences, FiniteSets, FiniteSetsExt, SequencesExt

CONSTANTS
  Sessions,  \* [types |-> type of each variable, "a" and "b", script |-> a name,
             \*  length |-> how many texts are typed in]
  Texts(_, _),  \* what may be typed in, of a script, as which text
  Garbage,   \* what an earlier run may have left in the registers
  Half,      \* bits of a half word, 16
  Small      \* bits of the immediate of MOVQI, 4

ASSUME ValuesAssumption ==
  /\ {Half, Small} \subseteq Nat \ {0} /\ Half % 2 = 0
  /\ Garbage \subseteq 0 .. 2 ^ (4 * Half) - 1

VARIABLES
  session, n,  \* the session, and which of its texts is next
  text, lex,   \* what is scanned; Curr, Line, LinePtr
  toks,        \* the tokens so far
  phase,       \* "ready", "scan", "compile", "run", or why there is no more
  code, vm,    \* words of code; IP, the registers and the flag
  mem,         \* bytes of global data
  val,         \* ghost: what the source says the variables are
  want         \* ghost: what the statement makes of it

vars == <<session, n, text, lex, toks, phase, code, vm, mem, val, want>>

-----------------------------------------------------------------------------
(* Integers of so many bytes, as the 8 bytes of a register or a literal    *)

Byte == 2 ^ (Half \div 2)
Span(size) == Byte ^ size
Unsigned(x, size) == x % Span(size)
Signed(x, size) ==
  LET u == Unsigned(x, size) IN IF 2 * u < Span(size) THEN u ELSE u - Span(size)

I(size) == [k |-> "int", size |-> size]
U(size) == [k |-> "uint", size |-> size]
Boolean == [k |-> "bool", size |-> 1]
IsSigned(t) == t.k = "int"
IsInteger(t) == t.k # "bool"

\* What a pattern is as a value of a type, and whether a number is one.
As(x, t) == IF IsSigned(t) THEN Signed(x, t.size) ELSE Unsigned(x, t.size)
Fits(x, t) == As(x, t) = x

Bit(x, i) == (x \div 2 ^ i) % 2
Bitwise(op, x, y) ==
  MapThenSumSet(LAMBDA i : LET both == Bit(x, i) + Bit(y, i)
                           IN  CASE op = "and" -> 2 ^ i * (both \div 2)
                                 [] op = "or"  -> 2 ^ i * ((both + 1) \div 2)
                                 [] op = "xor" -> 2 ^ i * (both % 2),
                0 .. 4 * Half - 1)

Quotient(x, y) ==
  LET Abs(z) == IF z < 0 THEN -z ELSE z
  IN  IF (x < 0) = (y < 0) THEN Abs(x) \div Abs(y) ELSE -(Abs(x) \div Abs(y))

-----------------------------------------------------------------------------
(* The tokenizer *)

At(p) == IF p <= Len(text) THEN text[p] ELSE "eof"
Until(p, chars) ==
  CHOOSE q \in p .. Len(text) + 1 :
    At(q) \in chars \cup {"eof"} /\ \A r \in p .. q - 1 : At(r) \notin chars
Within(p, q, c) == {r \in p .. q : At(r) = c}

Digits == <<"0", "1", "2", "3", "4", "5", "6", "7", "8", "9",
            "a", "b", "c", "d", "e", "f">>
Base(b) == {Digits[i] : i \in 1 .. b}
Alpha == {Digits[i] : i \in 11 .. 16} \cup {"h", "i", "l", "m", "n", "o", "r", "s",
                                            "t", "v", "x", "_"}
AlphaNum == Alpha \cup Base(10)

\* ConsumeInteger and its kin: where the digits end and what they are.
EndOf(p, b) ==
  CHOOSE q \in p .. Len(text) + 1 :
    At(q) \notin Base(b) /\ \A r \in p .. q - 1 : At(r) \in Base(b)
ValueOf(p, b) ==
  FoldLeft(LAMBDA v, c : Unsigned(v * b + CHOOSE d \in 0 .. b - 1 : Digits[d + 1] = c, 8),
           0, SubSeq(text, p, EndOf(p, b) - 1))

LastOf(S) == IF S = {} THEN 0 ELSE Max(S)

\* Where the next token starts; the lines passed, and the last LinePtr if any.
SkipWhitespace[p \in 1 .. Len(text) + 1] ==
  LET Past(q, lines, start) ==
        [SkipWhitespace[q] EXCEPT !.lines = @ + lines, !.start = IF @ = 0 THEN start ELSE @]
      Comment(from, last, next) ==
        Past(IF next > Len(text) THEN Len(text) + 1 ELSE next,
             Cardinality(Within(from, last, "nl")), LastOf(Within(from, last, "nl")))
  IN  CASE At(p) = " " -> Past(p + 1, 0, 0)
        [] At(p) = "nl" -> Past(p + 1, 1, p + 1)
        [] At(p) = "{" -> LET end == Until(p + 1, {"}"}) IN Comment(p + 1, end, end + 1)
        [] At(p) = "(" /\ At(p + 1) = "*" ->
             LET ends == {r \in p + 2 .. Len(text) : At(r) = "*" /\ At(r + 1) # ")"}
             IN  IF ends = {} THEN Comment(p + 3, Len(text), Len(text) + 1)
                 ELSE Comment(p + 3, Min(ends), Min(ends) + 2)
        [] At(p) = "/" /\ At(p + 1) = "/" ->
             LET end == Until(p + 2, {"nl"}) IN Past(end, 1, end)
        [] OTHER -> [at |-> p, lines |-> 0, start |-> 0]

Never == 0                 \* where a scan ends that does not
Lexeme(type, to, int) == [type |-> type, to |-> to, int |-> int]

\* No letter may follow a number.
NumberToken(type, to, int, no) == Lexeme(IF At(to) \in no THEN "error" ELSE type, to, int)
ConsumeHex(p) == NumberToken("number", EndOf(p, 16), ValueOf(p, 16), AlphaNum)
EitherBound(p) == Lexeme("none", Never, 0)
ConsumeBinary(p) == NumberToken("number", EndOf(p, 2), ValueOf(p, 2), AlphaNum)

\* While `0' <= c or c <= `7': every character is.
ConsumeOct(p) == Lexeme("none", Never, 0)

AfterIf(p, c) == IF At(p) = c THEN p + 1 ELSE p       \* AdvanceIfEqual

ConsumeNumber(p) ==
  LET point == EndOf(p, 10)
      exponent == EndOf(point + 1, 10)
      end == IF At(exponent) = "e"
             THEN EndOf(AfterIf(AfterIf(exponent + 1, "+"), "-"), 10) ELSE exponent
  IN  IF At(p) = "0" /\ At(p + 1) = "x" THEN ConsumeHex(p + 2)
      ELSE IF At(point) = "." /\ At(point + 1) # "." THEN NumberToken("real", end, 0, Alpha)
      ELSE NumberToken("number", point, ValueOf(p, 10), Alpha)

\* To the closing quote, or the end of the text.
ToQuote(p) == Until(p, {"'"})
Segment(p) ==
  IF At(p) = "'"
  THEN [to |-> AfterIf(ToQuote(p + 1), "'"), chars |-> ToQuote(p + 1) - p - 1]
  ELSE [to |-> CASE At(p + 1) = "$" -> EndOf(p + 2, 16)
                 [] At(p + 1) = "%" -> EndOf(p + 2, 2)
                 [] At(p + 1) = "&" -> Never
                 [] OTHER           -> EndOf(p + 1, 10), chars |-> 1]
Segments[p \in 1 .. Len(text) + 1] ==
  LET this == Segment(p)
  IN  IF At(p) \notin {"'", "#"} THEN [to |-> p, chars |-> 0]
      ELSE IF this.to = Never THEN this
      ELSE [Segments[this.to] EXCEPT !.chars = @ + this.chars]
ConsumeString(p) ==
  LET end == Segments[p]
  IN  Lexeme(CASE end.to = Never     -> "none"
               [] end.to > Len(text) -> "error"
               [] OTHER -> IF end.chars = 1 THEN "char" ELSE "string", end.to, 0)

ConsumeWord(p) ==
  Lexeme("word", CHOOSE q \in p + 1 .. Len(text) + 1 :
                   At(q) \notin AlphaNum /\ \A r \in p .. q - 1 : At(r) \in AlphaNum, 0)

\* What may follow a character in one symbol.
Follows(c) ==
  CASE c \in {":", "+", "-", "/", "=", "!", "%"} -> {"="}
    [] c = "*" -> {"*", "="}
    [] c = "<" -> {">", "<", "="}
    [] c = ">" -> {">", "="}
    [] c = "." -> {"."}
    [] OTHER   -> {}
Single == {"^", "@", "[", "]", "(", ")", ".", ",", ";", ":", "+", "-", "*", "/", "<", ">",
           "=", "!"}
OneCharacter(p) == Lexeme(IF At(p) \in Single THEN "symbol" ELSE "error", p + 1, 0)
Symbol(p) ==
  CASE At(p + 1) \in Follows(At(p)) ->
         Lexeme(IF At(p) \in {"=", "!"} THEN "error" ELSE "symbol", p + 2, 0)
    [] At(p) = "%" -> ConsumeBinary(p + 1)
    [] OTHER       -> Lexeme(IF At(p) \in Single THEN "symbol" ELSE "error", p + 1, 0)

PastTheEnd(p) == Lexeme("eof", p + 1, 0)
AtTheEnd(p) == Lexeme("eof", p, 0)
GetToken(p) ==
  CASE At(p) = "eof"         -> AtTheEnd(p)
    [] At(p) \in Base(10)    -> ConsumeNumber(p)
    [] At(p) \in Alpha       -> ConsumeWord(p)
    [] At(p) \in {"#", "'"}  -> ConsumeString(p)
    [] At(p) = "$"           -> ConsumeHex(p + 1)
    [] At(p) = "&"           -> ConsumeOct(p + 1)
    [] OTHER                 -> Symbol(p)

Spelling(tok) == SubSeq(text, tok.from, tok.to - 1)

-----------------------------------------------------------------------------
(* Operands: what is known of them (VarLocation), and the code that loads  *)
(* and converts them.  The registers are the one of the result, "dst", and *)
(* the one of the right operand, "src".                                    *)

types == session.types

TypeOfIntLit(x) == IF Signed(x, 8) = Signed(x, 4) THEN I(4) ELSE I(8)
Literal(x, t) == [loc |-> "lit", type |-> t, int |-> Unsigned(x, 8)]
IntLit(x) == Literal(x, TypeOfIntLit(x))
Variable(name) == [loc |-> "mem", type |-> types[name], name |-> name]
InReg(t) == [loc |-> "reg", type |-> t]

Ins(op, d, s, wide) == [op |-> op, d |-> d, s |-> s, wide |-> wide]

\* PVMImmType: four unsigned and three signed kinds of one half word and more.
UnsignedKinds == <<0, 1, 2, 3>>
SignedKinds == <<4, 5, 6, 3>>
ImmSize(kind) == CASE kind < 4 -> kind + 1 [] kind \in 4 .. 6 -> kind - 3 [] OTHER -> 0
ImmValue(kind, x) ==
  LET size == 2 * ImmSize(kind) IN IF kind \in 4 .. 6 THEN Signed(x, size) ELSE Unsigned(x, size)
Holds(kind, x) == Unsigned(ImmValue(kind, x), 8) = Unsigned(x, 8)
IsSmall(x) == 2 * x \in -(2 ^ Small) .. 2 ^ Small - 1
Immediate(op, d, kinds, x, wide) ==
  LET kind == kinds[SelectInSeq(kinds, LAMBDA k : Holds(k, x))]
  IN  <<Ins(op, d, kind, wide)>>
        \o [i \in 1 .. ImmSize(kind) |->
              [op |-> "half", x |-> (Unsigned(x, 8) \div Span(2) ^ (i - 1)) % Span(2)]]

\* ChunkWriteMovImm
MovImm(d, x) ==
  IF IsSmall(Signed(x, 8)) THEN <<Ins("movqi", d, Signed(x, 8), TRUE)>>
  ELSE Immediate("movi", d, <<4, 0, 5, 1, 6, 2, 3>>, x, TRUE)

\* MoveMemToReg: of a U16 the low byte is loaded.
MoveMemToReg(d, v) ==
  LET size == IF v.type = U(2) THEN 1 ELSE v.type.size
  IN  <<[op |-> "ld", d |-> d, s |-> v.name, wide |-> size = 8, size |-> size,
         sex |-> IsSigned(v.type) /\ size < 4]>>

IntoReg(d, v) ==
  CASE v.loc = "lit"  -> MovImm(d, v.int)
    [] v.loc = "mem"  -> MoveMemToReg(d, v)
    [] v.loc = "flag" -> <<Ins("getflag", d, d, FALSE)>>
    [] v.loc = "reg"  -> << >>

\* PVMEmitIntegerTypeConversion, in the register the value is in.
Extend(op, d, from, wide) == <<[Ins(op, d, d, wide) EXCEPT !.s = from]>>
ZeroExtends(d, to, from) ==
  IF to = from \/ from.size = 8 THEN << >> ELSE Extend("zex", d, from.size, to.size = 8)
Conversion(d, to, from) ==
  CASE to = from \/ from.size = 8 -> << >>
    [] OTHER ->
         IF to.size = 8
         THEN IF IsSigned(to) /\ IsSigned(from) THEN Extend("sex", d, 4, TRUE)
              ELSE Extend("zex", d, from.size, TRUE)
         ELSE IF from.size < 4 /\ ~(IsSigned(to) /\ IsSigned(from))
              THEN Extend("zex", d, from.size, FALSE) ELSE << >>

\* ConvertTypeImplicitly: code, and what the operand has become.
Convertible(v, to) == v.type = to \/ (IsInteger(v.type) /\ IsInteger(to))
Convert(d, v, to) ==
  CASE v.type = to   -> [code |-> << >>, v |-> v]
    [] v.loc = "lit" -> [code |-> << >>, v |-> Literal(v.int, to)]
    [] OTHER -> [code |-> IntoReg(d, v) \o Conversion(d, to, v.type), v |-> InReg(to)]

\* ExprUnary; an operand is a literal or a variable.
Operand(d, sign, v) ==
  CASE sign = "none" -> [code |-> << >>, v |-> v]
    [] v.loc = "lit" -> [code |-> << >>,
                         v |-> IF sign = "neg" THEN IntLit(-v.int)
                               ELSE Literal(-v.int - 1, v.type)]
    [] OTHER -> [code |-> IntoReg(d, v) \o <<Ins(sign, d, d, v.type.size = 8)>>,
                 v |-> InReg(v.type)]

-----------------------------------------------------------------------------
(* Operators *)

Comparing == {"<", ">", "<=", ">=", "=", "<>"}
Logical == {"and", "or", "xor"}

Invalid == [k |-> "none", size |-> 0]
CoerceTypes(l, r) ==
  CASE l.size = 8 -> l
    [] r.size = 8 -> IF IsSigned(l) THEN I(8) ELSE r
    [] OTHER      -> IF IsSigned(l) \/ IsSigned(r) THEN I(4) ELSE U(4)
TryCoercingTypes(op, l, r) ==
  CASE ~IsInteger(l) \/ ~IsInteger(r) -> Invalid
    [] op \in Comparing /\ IsSigned(l) # IsSigned(r) -> Invalid
    [] op \in {"shl", "shr", "asr", "mod"} -> l
    [] OTHER -> CoerceTypes(l, r)

\* LiteralExprBinary: literals are unsigned, and all of + - * DIV add.
LiteralCompare(op, x, y) ==
  CASE op = "<" -> x < y [] op = ">"  -> x > y [] op = "<=" -> x <= y
    [] op = ">=" -> x >= y [] op = "=" -> x = y [] op = "<>" -> x # y
LiteralExprBinary(op, t, x, y) ==
  CASE op \in Comparing     -> Literal(IF LiteralCompare(op, x, y) THEN 1 ELSE 0, Boolean)
    [] op = "mod"           -> Literal(x % y, t)
    [] op \in Logical       -> Literal(Bitwise(op, x, y), t)
    [] op \in {"shl", "shr"} -> IntLit(x * 2 ^ (y % (4 * Half)))
    [] op = "asr"           -> IntLit(0)        \* shifts the result, still zero
    [] OTHER                -> Literal(x + y, t)

Log2(x) == CHOOSE s \in 0 .. 4 * Half : 2 ^ s = x
IsPow2(x) == \E s \in 0 .. 4 * Half : 2 ^ s = x

\* PVMEmitAddImm: a small one is written where its type belongs.
AddImm(x, t) ==
  CASE x = 0 -> << >>
    [] IsSigned(t) /\ IsSmall(x) -> <<Ins("addi", "dst", x % 16, t.size = 8)>>
    [] OTHER -> Immediate("addi", "dst", IF IsSigned(t) THEN SignedKinds ELSE UnsignedKinds, x,
                      t.size = 8)

\* PVMEmitIMulConst; what is multiplied with otherwise is not loaded.
MulImm(x, t) ==
  CASE x = -1 -> <<Ins("neg", "dst", "dst", t.size = 8)>>
    [] x = 0  -> MovImm("dst", 0)
    [] x = 1  -> << >>
    [] x > 1 /\ IsPow2(x) ->
         IF Log2(x) > Half THEN <<Ins("shl", "dst", "src", t.size = 8)>>
         ELSE <<Ins("qshl", "dst", Log2(x) % Half, t.size = 8)>>
    [] OTHER -> <<Ins("mul", "dst", "src", t.size = 8)>>

\* A literal divisor is shifted by if it is a small power of two.
WithRight(op, right) == IntoReg("src", right) \o <<Ins(op, "dst", "src", right.type.size = 8)>>
EmitDiv(right) ==
  LET t == right.type
      lit == right.loc = "lit"
      x == IF lit THEN Signed(right.int, 8) ELSE 0
      one == lit /\ x = 1
      minusOne == lit /\ x = -1 /\ IsSigned(t)
      shift == lit /\ x > 1 /\ IsPow2(x) /\ Log2(x) < Half
  IN  CASE one      -> << >>
        [] minusOne -> MovImm("dst", right.int) \o <<Ins("neg", "dst", "dst", t.size = 8)>>
        [] shift    -> <<Ins(IF IsSigned(t) THEN "qasr" ELSE "qshr", "dst", Log2(x), t.size = 8)>>
        [] OTHER    -> WithRight(IF IsSigned(t) THEN "idiv" ELSE "div", right)

\* The amount of a literal shift is 32 bits wide.
EmitShift(op, right) ==
  LET amount == Unsigned(right.int, 4)
  IN  IF right.loc = "lit" /\ amount < Half
      THEN <<Ins("q" \o op, "dst", amount, right.type.size = 8)>> ELSE WithRight(op, right)

\* PVMEmitAdd and its kin, right being a literal or not.
EmitBinary(op, right) ==
  LET lit == right.loc = "lit"
      x == Signed(right.int, 8)
  IN  CASE op \in {"+", "-"} /\ lit         -> AddImm(-x, right.type)
        [] op = "+" /\ ~lit                 -> WithRight("add", right)
        [] op = "-" /\ ~lit                 -> WithRight("sub", right)
        [] op = "*" /\ lit                  -> MulImm(x, right.type)
        [] op = "*" /\ ~lit                 -> WithRight("mul", right)
        [] op = "div"                       -> EmitDiv(right)
        [] op \in {"shl", "shr", "asr"}     -> EmitShift(op, right)
        [] op \in {"mod"} \cup Logical      -> WithRight(op, right)

\* PVMEmitSetIf...: signed operands are compared by SLT, the unsigned one.
EmitSetIf(op, right) ==
  LET t == right.type
      less == IF IsSigned(t) THEN "slt" ELSE "islt"
      wide == t.size = 8
  IN  CASE op \in {"<", ">="} -> <<Ins(less, "dst", "src", wide)>>
        [] op \in {">", "<="} -> <<Ins(less, "src", "dst", wide)>>
        [] op \in {"=", "<>"} -> <<Ins("seq", "dst", "src", wide)>>

-----------------------------------------------------------------------------
(* Statements.  A statement s is [dst, sign, v, op, sign2, v2], op "none"  *)
(* for one operand alone.                                                  *)

Operators == {<<"+">>, <<"-">>, <<"*">>, <<"<">>, <<">">>, <<"=">>, <<"<", "=">>, <<">", "=">>,
              <<"<", ">">>, <<"d", "i", "v">>, <<"m", "o", "d">>, <<"a", "n", "d">>,
              <<"o", "r">>, <<"x", "o", "r">>, <<"s", "h", "l">>, <<"s", "h", "r">>,
              <<"a", "s", "r">>}
Operator(tok) == FoldLeft(LAMBDA word, c : word \o c, "", Spelling(tok))

IsVariable(i) == toks[i].type = "word" /\ Spelling(toks[i]) \in {<<v>> : v \in DOMAIN types}
IsAtom(i) == toks[i].type = "number" \/ IsVariable(i)
Sign(i) == CASE Spelling(toks[i]) = <<"-">> -> "neg"
             [] Spelling(toks[i]) = <<"n", "o", "t">> -> "not"
             [] OTHER -> "none"
AtomAt(i) == IF Sign(i) = "none" THEN i ELSE i + 1
Atom(i) == IF IsVariable(i) THEN Variable(At(toks[i].from)) ELSE IntLit(toks[i].int)

\* CompileAssignStmt, for what is modelled; the last token is that of the end.
Left == AtomAt(3)
Right == AtomAt(Left + 2)
StartsWell ==
  /\ Len(toks) >= 4 /\ IsVariable(1) /\ Spelling(toks[2]) = <<":", "=">>
  /\ Len(toks) > Left /\ IsAtom(Left)
Alone == StartsWell /\ Len(toks) = Left + 1
Pair == /\ StartsWell /\ Len(toks) > Left + 2 /\ Spelling(toks[Left + 1]) \in Operators
        /\ Len(toks) = Right + 1 /\ IsAtom(Right)
Statement ==
  [dst |-> At(toks[1].from), sign |-> Sign(3), v |-> Atom(Left),
   op |-> IF Pair THEN Operator(toks[Left + 1]) ELSE "none",
   sign2 |-> IF Pair THEN Sign(Left + 2) ELSE "none",
   v2 |-> IF Pair THEN Atom(Right) ELSE Atom(Left)]

\* Convert and evaluate both operands, the operation, the conversion to what
\* is assigned to, and the store.
Results(s) ==
  LET l == Operand("dst", s.sign, s.v)
      r == Operand("src", s.sign2, s.v2)
  IN  [l |-> l, r |-> r, type |-> TryCoercingTypes(s.op, l.v.type, r.v.type)]
BothLiteral(res) == res.l.v.loc = "lit" /\ res.r.v.loc = "lit"

Evaluate(s) ==
  LET res == Results(s)
      l == Convert("dst", res.l.v, res.type)
      r == Convert("src", res.r.v, res.type)
      loaded == res.l.code \o res.r.code \o l.code \o r.code \o IntoReg("dst", l.v)
  IN  CASE s.op = "none" -> res.l
        [] s.op # "none" /\ BothLiteral(res) ->
             [code |-> << >>, v |-> LiteralExprBinary(s.op, res.type, l.v.int, r.v.int)]
        [] s.op \in Comparing /\ ~BothLiteral(res) ->
             [code |-> loaded \o IntoReg("src", r.v) \o EmitSetIf(s.op, InReg(res.type)),
              v |-> [loc |-> "flag", type |-> Boolean]]
        [] s.op \notin Comparing \cup {"none"} /\ ~BothLiteral(res) ->
             [code |-> loaded \o EmitBinary(s.op, r.v), v |-> InReg(res.type)]

\* MoveRegToMem
WholeRegister(name) == <<[op |-> "st", s |-> name, size |-> 8]>>
Store(name) == <<[op |-> "st", s |-> name, size |-> types[name].size]>>

Emitted(s) ==
  LET value == Evaluate(s)
      moved == Convert("dst", value.v, types[s.dst])
  IN  value.code \o moved.code \o IntoReg("dst", moved.v) \o Store(s.dst)

ByLiteralZero(s) == LET res == Results(s) IN BothLiteral(res) /\ res.r.v.int = 0
Dies(s) == s.op = "mod" /\ ByLiteralZero(s)
Erroneous(s) ==
  \/ s.op # "none" /\ Results(s).type = Invalid
  \/ s.op = "div" /\ ByLiteralZero(s)
  \/ ~Convertible(Evaluate(s).v, types[s.dst])

-----------------------------------------------------------------------------
(* What the source means, and where the code means the same                *)

Number(v) == IF v.loc = "lit" THEN Signed(v.int, 8) ELSE val[v.name]
Signs(sign, t, x) == CASE sign = "none" -> x [] sign = "neg" -> -x [] sign = "not" -> As(-x - 1, t)
Outcome(op, t, x, y) ==
  CASE op = "+" -> x + y [] op = "-" -> x - y [] op = "*" -> x * y
    [] op = "div" -> Quotient(x, y)
    [] op = "mod" -> x - y * Quotient(x, y)
    [] op \in Logical -> As(Bitwise(op, Unsigned(x, 8), Unsigned(y, 8)), t)
    [] op = "shl" -> x * 2 ^ y
    [] op \in {"shr", "asr"} -> x \div 2 ^ y
    [] op \in Comparing -> IF LiteralCompare(op, x, y) THEN 1 ELSE 0

\* The operator is compiled to another.
Folded(op, x, y) ==
  \/ op \in {"-", "*", "div", "shr", "asr"}
  \/ op \in {"mod", "<", ">", "<=", ">="} /\ (x < 0 \/ y < 0)
ByLiteral(op, t, x, y) ==
  LET shift == y > 1 /\ IsPow2(y) /\ Log2(y) < Half
  IN  \/ op = "+" /\ y # 0
      \/ op = "-" /\ y # 0 /\ IsSigned(t) /\ IsSmall(-y)
      \/ op = "*" /\ y \notin -1 .. 1 /\ ~shift
      \/ op = "div" /\ (y = -1 \/ (x < 0 /\ shift))
AtRuntime(op, t, x, y) ==
  LET high(z) == IF IsSigned(t) THEN z < 0 ELSE 2 * z >= Span(t.size)
  IN  \/ op = "mod" /\ (x < 0 \/ y < 0)
      \/ op \in {"<", ">"} /\ high(x) # high(y)
      \/ op \in {"<=", ">=", "<>"}
      \/ op = "shr" /\ x < 0
      \/ op = "asr" /\ x >= 0 /\ high(x)

Claimed(s) ==
  LET res == Results(s)
      x == Signs(s.sign, res.l.v.type, Number(s.v))
      y == Signs(s.sign2, res.r.v.type, Number(s.v2))
      result == IF s.op = "none" THEN x ELSE Outcome(s.op, res.type, x, y)
      Loads(v) == IF v.loc = "lit" THEN 2 * v.int < Span(8)
                  ELSE v.type = U(2) => val[v.name] < Byte
  IN  /\ Loads(s.v) /\ Loads(s.v2)
      /\ Fits(x, res.l.v.type) /\ Fits(y, res.r.v.type)
      /\ s.op # "none" =>
           /\ Fits(x, res.type) /\ Fits(y, res.type)
           /\ s.op \in {"div", "mod"} => y # 0
           /\ s.op = "*" => 2 * Max({x, y}) <= Span(8)    \* what TLC can multiply
           /\ s.op \in {"shl", "shr", "asr"} => y \in 0 .. 2 * Half - 1
           /\ s.op \notin Comparing => Fits(result, res.type)
           /\ ~ IF BothLiteral(res) THEN Folded(s.op, x, y)
                ELSE \/ AtRuntime(s.op, res.type, x, y)
                     \/ res.r.v.loc = "lit" /\ ByLiteral(s.op, res.type, x, y)
      /\ Fits(result, types[s.dst])

Wanted(s) ==
  LET res == Results(s)
      x == Signs(s.sign, res.l.v.type, Number(s.v))
      y == Signs(s.sign2, res.r.v.type, Number(s.v2))
  IN  IF ~Claimed(s) THEN [dst |-> s.dst, claimed |-> FALSE, x |-> 0]
      ELSE [dst |-> s.dst, claimed |-> TRUE,
            x |-> IF s.op = "none" THEN x ELSE Outcome(s.op, res.type, x, y)]

-----------------------------------------------------------------------------
(* The VM *)

\* CompileVarList: 4 bytes or 8 for each.
Address(name) == IF name = "a" THEN 1 ELSE IF types["a"].size = 8 THEN 9 ELSE 5
Extent(name, size) == Address(name) .. Address(name) + size - 1
MemSize == Address("b") + 7
Bytes(name, size) ==
  MapThenSumSet(LAMBDA at : mem[at] * Byte ^ (at - Address(name)), Extent(name, size))
ValueOfVariable(name) == As(Bytes(name, types[name].size), types[name])

\* A register of which 4 bytes or all are written.
Put(old, wide, x) ==
  IF wide THEN Unsigned(x, 8) ELSE old - Unsigned(old, 4) + Unsigned(x, 4)

\* GET_SEX_IMM
ImmediateAt(ip, kind) ==
  ImmValue(kind, MapThenSumSet(LAMBDA i : code[ip + i].x * Span(2) ^ (i - 1), 1 .. ImmSize(kind)))

Shifts(op, x, by) ==
  IF op \in {"shl", "qshl"} THEN x * 2 ^ by ELSE x \div 2 ^ by
Arithmetic(op, x, y, ux, uy, bits) ==
  CASE op = "add" -> x + y [] op = "sub" -> x - y [] op = "mul" -> x * y
    [] op = "idiv" -> Quotient(x, y) [] op = "div" -> ux \div uy [] op = "mod" -> ux % uy
    [] op \in Logical -> Bitwise(op, ux, uy)
    [] op = "neg" -> -y [] op = "not" -> -y - 1
    [] op \in {"shl", "shr"} -> Shifts(op, ux, uy % bits)
    [] op = "asr" -> Shifts(op, x, uy % bits)

\* What instruction i makes of its register.
Loaded(i) ==
  LET size == IF i.wide THEN 8 ELSE 4
      old == vm.r[i.d]
      Reg(s) == vm.r[s]
  IN  CASE i.op = "movqi" -> i.s
        [] i.op = "movi"  -> ImmediateAt(vm.ip, i.s)
        [] i.op = "addi"  -> old + ImmediateAt(vm.ip, i.s)
        [] i.op = "ld" -> IF i.sex THEN Signed(Bytes(i.s, i.size), i.size) ELSE Bytes(i.s, i.size)
        [] i.op = "zex"   -> Unsigned(old, i.s)
        [] i.op = "sex"   -> Signed(old, i.s)
        [] i.op = "getflag" -> vm.flag
        [] i.op \in {"qshl", "qshr"} -> Shifts(i.op, Unsigned(old, size), i.s)
        [] i.op = "qasr"  -> Shifts(i.op, Signed(old, size), i.s)
        [] OTHER -> Arithmetic(i.op, Signed(old, size), Signed(Reg(i.s), size),
                               Unsigned(old, size), Unsigned(Reg(i.s), size),
                               (size * Half) \div 2)
Compared(i) ==
  LET size == IF i.wide THEN 8 ELSE 4
      x == vm.r[i.d]
      y == vm.r[i.s]
  IN  CASE i.op = "seq" -> Unsigned(x, size) = Unsigned(y, size)
        [] i.op = "slt" -> Unsigned(x, size) < Unsigned(y, size)
        [] i.op = "islt" -> Signed(x, size) < Signed(y, size)

Instruction == code[vm.ip]
Divides(i) == i.op \in {"div", "idiv", "mod"}
Divisor(i) == Unsigned(vm.r[i.s], IF i.wide THEN 8 ELSE 4)
HasImmediate(i) == i.op \in {"movi", "addi"}

\* Words that are no instruction, and an immediate taken from instructions: what
\* then happens is not modelled.
Undefined(i) ==
  \/ i.op = "half"
  \/ /\ HasImmediate(i)
     /\ ~((vm.ip + 1 .. vm.ip + ImmSize(i.s))
            \subseteq {at \in DOMAIN code : code[at].op = "half"})
\* The least number by -1.
Overflows(i) ==
  /\ i.op = "idiv"
  /\ LET size == IF i.wide THEN 8 ELSE 4
     IN  Signed(vm.r[i.s], size) = -1 /\ 2 * Unsigned(vm.r[i.d], size) = Span(size)

-----------------------------------------------------------------------------
(* A session *)

Nothing == [dst |-> "a", claimed |-> FALSE, x |-> 0]
NoText == [at |-> 1, line |-> 1, start |-> 1]
AtRest == [ip |-> 1, r |-> [d \in {"dst", "src"} |-> 0], flag |-> 0]

Init ==
  /\ session \in Sessions /\ n = 1
  /\ text = << >> /\ lex = NoText /\ toks = << >> /\ phase = "ready"
  /\ code = << >> /\ vm = AtRest
  /\ mem = [at \in 1 .. MemSize |-> 0]
  /\ val = [v \in {"a", "b"} |-> 0] /\ want = Nothing

\* The prompt again.
Prompt(value) ==
  /\ phase' = "ready" /\ n' = n + 1 /\ val' = value
  /\ text' = << >> /\ lex' = NoText /\ toks' = << >>
  /\ code' = << >> /\ vm' = AtRest /\ want' = Nothing
  /\ UNCHANGED session

\* TokenizerInit
Begin ==
  /\ phase = "ready" /\ n <= session.length
  /\ text' \in Texts(session.script, n)
  /\ phase' = "scan"
  /\ UNCHANGED <<session, n, lex, toks, code, vm, mem, val, want>>

\* SkipWhitespace and the token, with its place in the source.
Scan ==
  /\ phase = "scan"
  /\ \E skip \in {SkipWhitespace[lex.at]} : \E tok \in {GetToken(skip.at)} :
       LET line == lex.line + skip.lines
           start == IF skip.start = 0 THEN lex.start ELSE skip.start
       IN  IF tok.to = Never THEN phase' = "hung" /\ UNCHANGED <<lex, toks>>
           ELSE /\ lex' = [at |-> tok.to, line |-> line, start |-> start]
                /\ toks' = Append(toks, [type |-> tok.type, from |-> skip.at, to |-> tok.to,
                                        int |-> tok.int, line |-> line,
                                        col |-> skip.at - start + 1])
                /\ phase' = IF tok.type = "eof" THEN "compile" ELSE "scan"
  /\ UNCHANGED <<session, n, text, code, vm, mem, val, want>>

\* A text that is no such statement, or one of types that do not go together.
Reject ==
  /\ phase = "compile"
  /\ IF Alone \/ Pair THEN ~Dies(Statement) /\ Erroneous(Statement) ELSE TRUE
  /\ Prompt(val) /\ UNCHANGED mem

Stop(why) == phase' = why /\ UNCHANGED <<session, n, text, lex, toks, code, vm, mem, val, want>>

\* MOD of a literal by the literal zero is evaluated by the compiler.
DivideInCompiler == phase = "compile" /\ (Alone \/ Pair) /\ Dies(Statement) /\ Stop("died")

CompileAssignStmt ==
  /\ phase = "compile" /\ (Alone \/ Pair) /\ ~Dies(Statement) /\ ~Erroneous(Statement)
  /\ code' = Emitted(Statement) /\ want' = Wanted(Statement) /\ phase' = "run"
  /\ \E g \in Garbage : vm' = [vm EXCEPT !.r = [d \in {"dst", "src"} |-> g]]
  /\ UNCHANGED <<session, n, text, lex, toks, mem, val>>

Running == phase = "run" /\ vm.ip <= Len(code)
Works == ~Undefined(Instruction) /\ ~(Divides(Instruction) /\ Divisor(Instruction) = 0)
Advance == vm.ip + 1 + IF HasImmediate(Instruction) THEN ImmSize(Instruction.s) ELSE 0

\* Loads, moves, conversions and arithmetic.
Compute ==
  /\ Running /\ Instruction.op \notin {"st", "seq", "slt", "islt"} /\ Works
  /\ vm' = [vm EXCEPT !.ip = Advance,
                      !.r[Instruction.d] = Put(@, Instruction.wide, Loaded(Instruction))]
  /\ UNCHANGED <<session, n, text, lex, toks, phase, code, mem, val, want>>

SetFlag ==
  /\ Running /\ Instruction.op \in {"seq", "slt", "islt"}
  /\ vm' = [vm EXCEPT !.ip = Advance, !.flag = IF Compared(Instruction) THEN 1 ELSE 0]
  /\ UNCHANGED <<session, n, text, lex, toks, phase, code, mem, val, want>>

StoreBytes ==
  /\ Running /\ Instruction.op = "st"
  /\ LET to == Extent(Instruction.s, Instruction.size)
     IN  mem' = [at \in 1 .. MemSize |->
                   IF at \in to THEN (vm.r.dst \div Byte ^ (at - Min(to))) % Byte ELSE mem[at]]
  /\ vm' = [vm EXCEPT !.ip = Advance]
  /\ UNCHANGED <<session, n, text, lex, toks, phase, code, val, want>>

\* What the statement should have done is done, or was not said.
Meant == [val EXCEPT ![want.dst] = IF want.claimed THEN want.x ELSE ValueOfVariable(want.dst)]

DivisionByZero ==
  /\ Running /\ Divides(Instruction) /\ Divisor(Instruction) = 0
  /\ Prompt(Meant) /\ UNCHANGED mem

Wild == Running /\ Undefined(Instruction) /\ Stop("wild")
Trap == Running /\ Overflows(Instruction) /\ Stop("died")

EndOfRun == phase = "run" /\ vm.ip > Len(code) /\ Prompt(Meant) /\ UNCHANGED mem

Next ==
  \/ Begin \/ Scan \/ Reject \/ DivideInCompiler \/ CompileAssignStmt
  \/ Compute \/ SetFlag \/ StoreBytes \/ DivisionByZero \/ Wild \/ Trap \/ EndOfRun
Spec == Init /\ [][Next]_vars /\ WF_vars(Scan)

-----------------------------------------------------------------------------
(* Properties *)

\* The state is of the right kind, the scanner does not pass the end of the
\* text nor the VM the end of the code, and a register holds 8 bytes.
TypeOK ==
  /\ phase \in {"ready", "scan", "compile", "run", "hung", "wild", "died"}
  /\ n \in 1 .. session.length + 1
  /\ lex.at \in 1 .. Len(text) + 1
  /\ lex.line \in 1 .. 2 * Len(text) + 1 /\ lex.start \in 1 .. Len(text) + 1
  /\ \A i \in DOMAIN toks : toks[i].to \in toks[i].from .. Len(text) + 1
  /\ vm.ip \in 1 .. Len(code) + 1 /\ vm.flag \in {0, 1}
  /\ vm.r \in [{"dst", "src"} -> 0 .. Span(8) - 1]
  /\ mem \in [1 .. MemSize -> 0 .. Byte - 1]
  /\ \A v \in {"a", "b"} : Fits(val[v], types[v])

(* What a token is, told from the text alone. *)

Symbols == {<<c>> : c \in Single}
             \cup {<<c, "=">> : c \in {":", "+", "-", "*", "/", "<", ">", "%"}}
             \cup {<<"*", "*">>, <<"<", ">">>, <<"<", "<">>, <<">", ">">>, <<".", ".">>}

AllIn(p, q, S) == \A r \in p .. q - 1 : At(r) \in S
Integral(p, q) ==
  \/ q > p /\ AllIn(p, q, Base(10))
  \/ At(p) = "$" /\ AllIn(p + 1, q, Base(16))
  \/ At(p) = "%" /\ AllIn(p + 1, q, Base(2))
  \/ q >= p + 2 /\ At(p) = "0" /\ At(p + 1) = "x" /\ AllIn(p + 2, q, Base(16))

\* 1. and 1.5 and 1.5e+-2, but 1..5 is a range.
Real(p, q) ==
  \E point \in p + 1 .. q - 1 :
    /\ AllIn(p, point, Base(10)) /\ At(point) = "." /\ At(point + 1) # "."
    /\ \/ AllIn(point + 1, q, Base(10))
       \/ \E e \in point + 1 .. q - 1 :
            /\ AllIn(point + 1, e, Base(10)) /\ At(e) = "e"
            /\ \E d \in e + 1 .. e + 3 :
                 d <= q /\ AllIn(d, q, Base(10))
                        /\ SubSeq(text, e + 1, d - 1) \in {<< >>, <<"+">>, <<"-">>, <<"+", "-">>}

\* 'abc'#10'd'
Quoted(p, q) == /\ q >= p + 2 /\ At(p) = "'" /\ At(q - 1) = "'"
                /\ \A r \in p + 1 .. q - 2 : At(r) # "'"
Coded(p, q) == /\ At(p) = "#"
               /\ \/ AllIn(p + 1, q, Base(10))
                  \/ At(p + 1) = "$" /\ AllIn(p + 2, q, Base(16))
                  \/ At(p + 1) = "%" /\ AllIn(p + 2, q, Base(2))
Literally(p, q) ==
  /\ At(p) \in {"'", "#"} /\ q > p
  /\ \E cuts \in SUBSET (p .. q) :
       /\ {p, q} \subseteq cuts
       /\ \A c, d \in cuts : c < d /\ (\A e \in cuts : e <= c \/ e >= d)
                               => Quoted(c, d) \/ Coded(c, d)

Kinds(p, q) ==
  {k \in {"number", "real", "word", "symbol", "text"} :
     CASE k = "number" -> Integral(p, q)
       [] k = "real"   -> Real(p, q)
       [] k = "word"   -> q > p /\ At(p) \in Alpha /\ AllIn(p, q, AlphaNum)
       [] k = "symbol" -> SubSeq(text, p, q - 1) \in Symbols
       [] k = "text"   -> Literally(p, q)}

Written(tok) == IF tok.type \in {"char", "string"} THEN "text" ELSE tok.type
Ends(p) == {q \in p + 1 .. Len(text) + 1 : Kinds(p, q) # {}}

\* A number followed by a letter is no token, nor a string that ends the text.
Broken(kind, q) ==
  \/ kind \in {"number", "real"} /\ At(q) \in AlphaNum
  \/ kind = "text" /\ q > Len(text)

\* `(' and `*' begin a comment that other characters end, `&' does not end, and
\* a quote may be missing; C's == and != are refused.
Pascal ==
  /\ \A p \in 1 .. Len(text) :
       /\ text[p] # "&"
       /\ text[p] = "(" => At(p + 1) # "*"
       /\ text[p] \in {"=", "!"} => At(p + 1) # "="
  /\ Cardinality(Within(1, Len(text), "'")) % 2 = 0

InComment(p, r) ==
  \E c \in p .. r : \/ At(c) = "{" /\ "}" \notin {At(d) : d \in c .. r - 1}
                    \/ At(c) = "/" /\ At(c + 1) = "/" /\ "nl" \notin {At(d) : d \in c .. r}

\* The end of a // comment is counted twice, that within a string is not; the
\* place of one in { } is off by one.
CountsLines ==
  "'" \notin Range(text) /\ \A r \in 1 .. Len(text) : At(r) # "/" \/ At(r + 1) # "/"

\* The number its digits stand for, in 8 bytes.
Denoted(p, q) ==
  LET base == CASE At(p) = "$" \/ At(p + 1) = "x" -> 16 [] At(p) = "%" -> 2 [] OTHER -> 10
      first == CASE At(p) \in {"$", "%"} -> p + 1 [] At(p + 1) = "x" -> p + 2 [] OTHER -> p
      Worth(r) == CHOOSE d \in 0 .. 15 : Digits[d + 1] = At(r)
  IN  Unsigned(MapThenSumSet(LAMBDA r : Worth(r) * base ^ (q - 1 - r), first .. q - 1), 8)

\* Every token scanned is the longest that begins where it does, of the kind and
\* the value its characters say, and only blanks and comments separate it from
\* the last.  Its line is counted, and its column told, from the text before it.
TokensAsWritten ==
  phase \in {"scan", "compile"} /\ toks # << >> /\ Pascal =>
    LET tok == Last(toks)
        p == tok.from
        ends == Ends(p)
        newlines == Within(1, p - 1, "nl")
        before == IF Len(toks) = 1 THEN 1 ELSE toks[Len(toks) - 1].to
    IN  /\ \A r \in before .. p - 1 : At(r) \in {" ", "nl"} \/ InComment(before, r)
        /\ tok.type = "eof" <=> p > Len(text)
        /\ tok.type \notin {"eof", "error"} =>
             /\ ends # {} /\ tok.to = Max(ends) /\ Written(tok) \in Kinds(p, tok.to)
             /\ ~Broken(Written(tok), tok.to)
        /\ tok.type = "number" => tok.int = Denoted(p, tok.to)
        /\ tok.type = "error" =>
             ends = {} \/ \E k \in Kinds(p, Max(ends)) : Broken(k, Max(ends))
        /\ CountsLines => /\ tok.line = 1 + Cardinality(newlines)
                          /\ "{" \notin Range(text) => tok.col = p - LastOf(newlines)

\* Once a statement is done a variable is what the source makes of it, for the
\* statements of which that is claimed; and none of those ends in the wild.
Exact ==
  /\ phase = "ready" => \A v \in {"a", "b"} : ValueOfVariable(v) = val[v]
  /\ phase \in {"wild", "died"} => ~want.claimed

\* No step changes a byte of another variable than the statement assigns to.
KeepsOthers ==
  [][\A at \in 1 .. MemSize :
       mem'[at] = mem[at] \/ at \in Extent(want.dst, types[want.dst].size)]_vars

\* The scanner comes to the end of a text, unless that has an octal number, of
\* which it does not see the end.
ScanEnds == (phase = "scan" /\ "&" \notin Range(text)) ~> (phase = "compile")
===============================================================================
