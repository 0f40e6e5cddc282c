------------------------------ MODULE GpaProofs ------------------------------
(***************************************************************************)
(* The invariants of Gpa, for every arena, header size, alignment and set  *)
(* of request sizes, as long as the sizes passed to GPAReallocate are even;*)
(* and, below them, that the allocator implements BlockPool.               *)
(***************************************************************************)
EXTENDS Gpa, TLAPS

-----------------------------------------------------------------------------
(* The strengthening *)

\* What the function in progress knows of its own variables.
CallOK ==
  /\ call = "idle" => node = NULL /\ cur = NULL
  /\ call \in {"coalesce", "grow"} => node \in Headers /\ cur # node
  /\ call = "coalesce" => IsFree(node) /\ node \notin DOMAIN owned
  /\ call = "grow" => node \in Sound /\ bytes \in ReallocSizes /\ bytes > owned[node].len
  /\ call = "find" => bytes \in AllocSizes \cup ReallocSizes
  /\ call = "find" /\ node # NULL =>
        node \in Sound /\ bytes \in ReallocSizes /\ GetSize(node) < bytes
  /\ call = "move" => /\ node \in Sound /\ bytes \in ReallocSizes
                      /\ cur \in Headers /\ cur \notin DOMAIN owned
  /\ call = "dead" => cur = NULL

\* The nodes the search has passed over would not have done, and neither has the
\* block that was to grow.
SearchOK ==
  call \in {"find", "dead"} =>
    /\ \A h \in Headers : (cur = NULL \/ h < cur) => Unfit(h)
    /\ node # NULL => /\ GetSize(node) < bytes
                      /\ next[node] # NULL => ~IsFree(next[node])

Structure == TypeOK /\ Tiled
Holding == BusyIsHeld /\ Fits
IInv == Structure /\ Holding /\ CallOK /\ SearchOK

-----------------------------------------------------------------------------
(* Sizes and tags *)

\* The free tag is one bit above an even size.
LEMMA Tags ==
  ASSUME NEW s \in Nat
  PROVE  /\ Untagged(s) \in Nat /\ (Untagged(s) % 2) = 0
         /\ Untagged(s) <= s /\ s <= Untagged(s) + 1
         /\ IsFreeSize(s) => s = Untagged(s) + 1
         /\ ~IsFreeSize(s) => s = Untagged(s)
         /\ ~IsFreeSize(Untagged(s)) /\ Untagged(Untagged(s)) = Untagged(s)
         /\ SetFreeTag(s) \in Nat /\ IsFreeSize(SetFreeTag(s))
         /\ Untagged(SetFreeTag(s)) = Untagged(s)
BY DEF Untagged, IsFreeSize, SetFreeTag

LEMMA EvenSums ==
  ASSUME NEW a \in Int, NEW b \in Int, (b % 2) = 0
  PROVE  /\ ((a + b) % 2) = (a % 2) /\ ((a - b) % 2) = (a % 2)
         /\ IsFreeSize(a + b) <=> IsFreeSize(a)
         /\ Untagged(a + b) = Untagged(a) + b
         /\ Untagged(a - b) = Untagged(a) - b
BY DEF IsFreeSize, Untagged

LEMMA EvenProduct == \A q, k \in Int : ((q * (2 * k)) % 2) = 0
<1>1. TAKE q, k \in Int
<1>2. q * (2 * k) = 2 * (q * k)
  OBVIOUS
<1>3. q * k \in Int
  OBVIOUS
<1>4. \A m \in Int : ((2 * m) % 2) = 0
  OBVIOUS
<1> QED
  BY <1>2, <1>3, <1>4

\* What the search asks for is even, holds what the client asked for, and exceeds it
\* by no more than one alignment.
LEMMA AlignUpRounds ==
  ASSUME NEW n \in Nat
  PROVE  /\ AlignUp(n) \in Nat /\ AlignUp(n) > 0 /\ (AlignUp(n) % 2) = 0
         /\ AlignUp(n) >= n /\ AlignUp(n) <= n + Alignment
<1> DEFINE q == (n + Alignment) \div Alignment
<1>1. Alignment \in Nat /\ Alignment > 0 /\ (Alignment % 2) = 0
  BY ArenaAssumption
<1>2. q \in Nat /\ n + Alignment = q * Alignment + ((n + Alignment) % Alignment)
      /\ (n + Alignment) % Alignment < Alignment /\ (n + Alignment) % Alignment >= 0
  BY <1>1
<1>3. q * Alignment > n /\ q * Alignment <= n + Alignment
  BY <1>1, <1>2
<1>4. \E k \in Int : Alignment = 2 * k
  <2>1. Alignment = 2 * (Alignment \div 2) /\ Alignment \div 2 \in Int
    BY <1>1
  <2> QED
    BY <2>1
<1>5. ((q * Alignment) % 2) = 0
  BY <1>2, <1>4, EvenProduct
<1>6. q * Alignment \in Nat
  BY <1>1, <1>2
<1> QED
  BY <1>1, <1>3, <1>5, <1>6 DEF AlignUp

-----------------------------------------------------------------------------
(* The list *)

LEMMA ConstantsOK ==
  /\ HeaderSize \in Nat /\ HeaderSize > 0 /\ (HeaderSize % 2) = 0
  /\ Alignment \in Nat /\ Alignment > 0
  /\ End \in Nat /\ End > HeaderSize /\ End = HeaderSize + Untagged(InitialCap)
  /\ InitialCap \in Nat /\ Untagged(InitialCap) > 0
  /\ AllocSizes \subseteq Nat /\ ReallocSizes \subseteq Nat
BY ArenaAssumption, SizesAssumption DEF End, Untagged

\* A node and its data lie inside the arena.
LEMMA NodesInside ==
  ASSUME Structure, call # "closed", NEW h \in Headers
  PROVE  /\ size[h] \in Nat /\ h \in Nat /\ GetSize(h) \in Nat
         /\ NodeEnd(h) \in Nat /\ NodeEnd(h) > h + HeaderSize /\ NodeEnd(h) <= End
         /\ NextOf(h) # NULL => NextOf(h) \in Headers /\ NextOf(h) > h
<1>1. size[h] \in Nat /\ h \in Nat /\ GetSize(h) \in Nat
  BY Tags DEF Structure, TypeOK, GetSize
<1>2. NodeEnd(h) \in Nat /\ NodeEnd(h) > h + HeaderSize
  BY <1>1, ConstantsOK DEF Structure, Tiled, NodeEnd, Data
<1>3. NextOf(h) # NULL => NextOf(h) \in Headers /\ NextOf(h) = NodeEnd(h)
  BY DEF Structure, TypeOK, Tiled
<1>4. NodeEnd(h) <= End
  BY <1>2, <1>3, ConstantsOK DEF Structure, TypeOK, Tiled
<1> QED
  BY <1>1, <1>2, <1>3, <1>4, ConstantsOK

\* The nodes after h are the ones from its Next on.
LEMMA NothingBetween ==
  ASSUME Structure, call # "closed", NEW h \in Headers, NEW k \in Headers, k > h
  PROVE  NextOf(h) # NULL /\ k >= NextOf(h)
<1>1. k >= NodeEnd(h)
  BY DEF Structure, Tiled
<1>2. NodeEnd(k) <= End /\ NodeEnd(k) > k /\ k \in Nat
  BY NodesInside, ConstantsOK
<1> QED
  BY <1>1, <1>2, NodesInside, ConstantsOK DEF Structure, Tiled

\* GPASplitNode keeps the tiling, whether or not it splits, frees what it cuts
\* off, and leaves the node with at least the bytes wanted.
LEMMA SplitKeepsTiling ==
  ASSUME Structure, call # "closed", call' \in {"idle", "move"},
         NEW n \in Headers, NEW s \in Nat, Untagged(s) = GetSize(n),
         NEW w \in Nat, w > 0, (w % 2) = 0, w <= GetSize(n),
         SplitNode(n, s, NextOf(n), w),
         \A h \in Headers \ {n} : NextOf(h) = next[h]
  PROVE  /\ Headers \subseteq Headers' /\ Headers' \subseteq 0 .. End
         /\ DOMAIN next' = Headers'
         /\ \A h \in Headers' : size'[h] \in Nat /\ next'[h] \in Headers' \cup {NULL}
         /\ Tiled'
         /\ \A h \in Headers \ {n} : size'[h] = size[h]
         /\ \A h \in Headers' \ Headers : IsFree(h)'
         /\ ~IsFree(n)' /\ size'[n] \in Nat /\ size'[n] >= w /\ GetSize(n)' = size'[n]
         /\ n \in Headers'
<1> DEFINE other == Data(n) + w
           f == [h \in Headers |-> NextOf(h)]
<1>1. n \in Nat /\ GetSize(n) \in Nat /\ NodeEnd(n) <= End /\ NodeEnd(n) = Data(n) + GetSize(n)
  BY NodesInside DEF NodeEnd
<1>2. \A h \in Headers : NextOf(h)' = next'[h]
  BY DEF NextOf
<1>3. CASE ~Divisible(s, w)
  <2>1. /\ size' = [size EXCEPT ![n] = GetSize(n)] /\ next' = [next EXCEPT ![n] = NextOf(n)]
    BY <1>3 DEF SplitNode
  <2>2. Headers' = Headers /\ DOMAIN next' = Headers
    BY <2>1 DEF Headers, Structure, TypeOK
  <2>3. \A h \in Headers : NextOf(h)' = NextOf(h)
    BY <2>1, <1>2 DEF Structure, TypeOK
  <2>4. size'[n] = GetSize(n) /\ ~IsFree(n)' /\ GetSize(n)' = GetSize(n)
    BY <2>1, Tags DEF Structure, TypeOK, Headers, IsFree, GetSize
  <2>5. \A h \in Headers \ {n} : size'[h] = size[h]
    BY <2>1 DEF Headers
  <2>6. \A h \in Headers : GetSize(h)' = GetSize(h) /\ NodeEnd(h)' = NodeEnd(h)
    BY <2>4, <2>5 DEF GetSize, NodeEnd
  <2>7. Tiled'
    BY <2>2, <2>3, <2>6 DEF Structure, Tiled
  <2> QED
    BY <1>1, <1>2, <2>2, <2>3, <2>4, <2>5, <2>7 DEF Structure, TypeOK
<1>4. CASE Divisible(s, w)
  <2>1. /\ size' = [h \in Headers \cup {other} |->
                      IF h = n THEN w ELSE IF h = other THEN Rest(s, w) ELSE size[h]]
        /\ next' = [h \in Headers \cup {other} |->
                      IF h = n THEN other ELSE IF h = other THEN NextOf(n) ELSE next[h]]
    BY <1>4 DEF SplitNode
  <2>2. /\ Untagged(s) - w - HeaderSize \in Nat /\ Untagged(s) - w - HeaderSize > 0
        /\ Untagged(Untagged(s) - w - HeaderSize) = Untagged(s) - w - HeaderSize
    <3>1. /\ Untagged(s) \in Nat /\ s <= Untagged(s) + 1
          /\ Untagged(Untagged(s)) = Untagged(s)
      BY Tags
    <3>2. Untagged(s) - w - HeaderSize > 0
      BY <3>1, <1>4, ConstantsOK DEF Divisible, MinCapacity
    <3>3. Untagged(Untagged(s) - w) = Untagged(s) - w
      BY <3>1, EvenSums
    <3>4. Untagged((Untagged(s) - w) - HeaderSize) = Untagged(Untagged(s) - w) - HeaderSize
      BY <3>1, EvenSums, ConstantsOK
    <3> QED
      BY <3>1, <3>2, <3>3, <3>4, ConstantsOK
  <2>3. /\ Rest(s, w) \in Nat /\ IsFreeSize(Rest(s, w))
        /\ Untagged(Rest(s, w)) = GetSize(n) - w - HeaderSize
    BY <2>2, Tags DEF Rest
  <2>4. other > n /\ other < NodeEnd(n) /\ other \in 0 .. End /\ other \notin Headers
    BY <1>1, <2>2, ConstantsOK DEF Data, Structure, Tiled, TypeOK
  <2>5. Headers' = Headers \cup {other} /\ DOMAIN next' = Headers'
    BY <2>1 DEF Headers
  <2>6. /\ size'[n] = w /\ ~IsFree(n)' /\ GetSize(n)' = w
        /\ next'[n] = other
    BY <2>1, <2>4 DEF IsFree, GetSize, IsFreeSize, Untagged
  <2>7. /\ size'[other] = Rest(s, w) /\ IsFree(other)'
        /\ GetSize(other)' = GetSize(n) - w - HeaderSize
        /\ next'[other] = NextOf(n)
    BY <2>1, <2>3, <2>4 DEF IsFree, GetSize
  <2>8. \A h \in Headers \ {n} : /\ size'[h] = size[h] /\ next'[h] = NextOf(h)
                                 /\ GetSize(h)' = GetSize(h)
                                 /\ NodeEnd(h)' = NodeEnd(h)
    BY <2>1, <2>4 DEF GetSize, NodeEnd
  <2>9. NodeEnd(n)' = other /\ NodeEnd(other)' = NodeEnd(n)
    BY <2>6, <2>7, <1>1, ConstantsOK DEF NodeEnd, Data
  <2>10. \A h \in Headers' : NextOf(h)' = next'[h]
    BY DEF NextOf
  <2>11. \A h \in Headers' : size'[h] \in Nat /\ next'[h] \in Headers' \cup {NULL}
    BY <2>3, <2>5, <2>6, <2>7, <2>8 DEF Structure, TypeOK
  <2>12. Tiled'
    <3>1. Head \in Headers'
      BY <2>5 DEF Structure, Tiled
    <3>2. SUFFICES ASSUME NEW h \in Headers'
                   PROVE  /\ GetSize(h)' > 0
                          /\ next'[h] = NULL => NodeEnd(h)' = End
                          /\ next'[h] # NULL => next'[h] = NodeEnd(h)'
                          /\ \A k \in Headers' : k > h => k >= NodeEnd(h)'
      BY <3>1, <2>10 DEF Tiled
    <3>3. CASE h = n
      <4>1. next'[h] = other /\ NodeEnd(h)' = other /\ other # NULL /\ GetSize(h)' > 0
        BY <3>3, <2>4, <2>6, <2>9 DEF NULL
      <4>2. \A k \in Headers' : k > n => k >= other
        <5>1. \A k \in Headers : k > n => k >= NodeEnd(n)
          BY DEF Structure, Tiled
        <5>2. Headers \subseteq Int /\ NodeEnd(n) \in Int /\ other \in Int
          BY <2>4, NodesInside, <1>1, ConstantsOK
        <5> QED
          BY <5>1, <5>2, <2>4, <2>5
      <4> QED
        BY <3>3, <4>1, <4>2
    <3>4. CASE h = other
      <4>1. GetSize(h)' > 0
        BY <3>4, <2>2, <2>7
      <4>2. \A k \in Headers : k > n => k >= NodeEnd(n)
        BY DEF Structure, Tiled
      <4>3. \A k \in Headers' : k > other => k >= NodeEnd(n)
        BY <4>2, <2>4, <2>5, <1>1
      <4> QED
        BY <3>4, <4>1, <4>3, <2>7, <2>9 DEF Structure, Tiled
    <3>5. CASE h \in Headers /\ h # n
      <4>1. /\ GetSize(h)' > 0
            /\ next'[h] = NULL => NodeEnd(h)' = End
            /\ next'[h] # NULL => next'[h] = NodeEnd(h)'
            /\ \A k \in Headers : k > h => k >= NodeEnd(h)'
        BY <3>5, <2>8 DEF Structure, Tiled
      <4>2. other > h => other >= NodeEnd(h)'
        <5>1. CASE h < n
          BY <5>1, <4>1, <2>4, <1>1, <3>5, NodesInside, <2>8
        <5>2. CASE h > n
          <6>1. h >= NodeEnd(n)
            BY <5>2, <3>5 DEF Structure, Tiled
          <6> QED
            BY <6>1, <2>4, <1>1, <3>5, NodesInside
        <5> QED
          BY <5>1, <5>2, <3>5, <1>1, NodesInside
      <4> QED
        BY <4>1, <4>2, <2>5
    <3> QED
      BY <3>3, <3>4, <3>5, <2>5
  <2> QED
    <3>1. Headers \subseteq Headers' /\ Headers' \subseteq 0 .. End
      BY <2>4, <2>5 DEF Structure, TypeOK
    <3>2. \A h \in Headers' \ Headers : IsFree(h)'
      BY <2>5, <2>7
    <3> QED
      BY <3>1, <3>2, <2>5, <2>6, <2>8, <2>11, <2>12
<1> QED
  BY <1>3, <1>4

-----------------------------------------------------------------------------
(* The steps *)

LEMMA InitOK == Init => IInv
<1> SUFFICES ASSUME Init PROVE IInv
  OBVIOUS
<1>1. /\ Headers = {Head} /\ size[Head] = SetFreeTag(InitialCap)
      /\ next[Head] = NULL /\ DOMAIN next = {Head} /\ DOMAIN owned = {}
      /\ call = "idle" /\ node = NULL /\ cur = NULL /\ bytes = 0
  BY DEF Init, Headers, NoBlocks
<1>2. /\ IsFree(Head) /\ GetSize(Head) = Untagged(InitialCap) /\ size[Head] \in Nat
  BY <1>1, Tags, ConstantsOK DEF IsFree, GetSize
<1>3. TypeOK
  BY <1>1, <1>2, ConstantsOK DEF TypeOK, NextOf, Head, InCall
<1>4. Tiled
  BY <1>1, <1>2, ConstantsOK DEF Tiled, NextOf, NodeEnd, Data, Head
<1>5. Holding
  BY <1>1, <1>2 DEF Holding, BusyIsHeld, Fits, Holders
<1>6. CallOK /\ SearchOK
  BY <1>1 DEF CallOK, SearchOK
<1> QED
  BY <1>3, <1>4, <1>5, <1>6 DEF IInv, Structure

\* What stays true of a list that a step leaves alone.
LEMMA SameList ==
  ASSUME Structure, call # "closed", call' # "closed", UNCHANGED <<size, owned>>,
         DOMAIN next' = DOMAIN next, \A h \in Headers : NextOf(h)' = NextOf(h),
         call' \in {"idle"} \cup InCall \cup Stopped,
         node' \in Headers \cup {NULL}, cur' \in Headers \cup {NULL}, bytes' \in Nat
  PROVE  Structure' /\ Headers' = Headers
<1>1. Headers' = Headers /\ \A h \in Headers : GetSize(h)' = GetSize(h) /\ NodeEnd(h)' = NodeEnd(h)
  BY DEF Headers, GetSize, NodeEnd
<1>2. TypeOK'
  BY <1>1 DEF Structure, TypeOK
<1>3. Tiled'
  BY <1>1 DEF Structure, Tiled
<1> QED
  BY <1>1, <1>2, <1>3 DEF Structure

LEMMA AllocateOK ==
  ASSUME IInv, NEW n \in AllocSizes \cup ReallocSizes, Allocate(n)
  PROVE  IInv'
<1>1. Structure' /\ Headers' = Headers
  BY SameList, ConstantsOK DEF IInv, Structure, Tiled, Allocate, heap, NextOf, Headers, InCall
<1>2. Holding'
  BY <1>1 DEF IInv, Holding, Allocate, heap, BusyIsHeld, Fits, Holders, IsFree, GetSize
<1>3. CallOK'
  BY DEF IInv, CallOK, Allocate
<1>4. SearchOK'
  <2>1. Headers \subseteq Nat /\ cur' = 0 /\ node' = NULL
    BY DEF IInv, Structure, TypeOK, Allocate, Head
  <2> QED
    BY <1>1, <2>1 DEF SearchOK, NULL
<1> QED
  BY <1>1, <1>2, <1>3, <1>4 DEF IInv

LEMMA FindSkipOK ==
  ASSUME IInv, FindSkip
  PROVE  IInv'
<1>1. cur \in Headers /\ cur' = NextOf(cur)
  BY DEF IInv, Structure, TypeOK, FindSkip, Advance, NextOf
<1>2. Structure' /\ Headers' = Headers
  BY <1>1, SameList DEF IInv, Structure, TypeOK, FindSkip, heap, NextOf, Headers
<1>3. Holding'
  <2>1. /\ call = "find" /\ call' = "find" /\ size' = size /\ owned' = owned
    BY DEF FindSkip, heap
  <2>2. Holders' = DOMAIN owned /\ Holders = DOMAIN owned
    BY <2>1 DEF Holders
  <2> QED
    BY <1>2, <2>1, <2>2 DEF IInv, Holding, BusyIsHeld, Fits, IsFree, GetSize
<1>4. CallOK'
  BY <1>2 DEF IInv, CallOK, FindSkip, heap, GetSize, Sound
<1>5. SearchOK'
  <2>1. \A h \in Headers : Unfit(h)' <=> Unfit(h)
    BY DEF FindSkip, heap, Unfit, IsFree
  <2>5. node # NULL => /\ GetSize(node)' < bytes'
                       /\ next'[node] # NULL => ~IsFree(next[node])'
    BY DEF FindSkip, heap, IInv, SearchOK, GetSize, IsFree
  <2>2. SUFFICES ASSUME NEW h \in Headers, cur' = NULL \/ h < cur'
                 PROVE  Unfit(h)
    BY <1>2, <2>1, <2>5 DEF SearchOK, FindSkip, IsFree, GetSize, heap
  <2>3. ~(h > cur)
    BY <1>1, <2>2, NothingBetween, NodesInside DEF IInv, FindSkip, NULL
  <2>4. h < cur \/ h = cur
    BY <1>1, <2>3 DEF IInv, Structure, TypeOK
  <2> QED
    BY <2>4 DEF IInv, SearchOK, FindSkip
<1> QED
  BY <1>2, <1>3, <1>4, <1>5 DEF IInv

\* The node n the search stops at, split: what both callers find.
LEMMA FoundNode ==
  ASSUME IInv, call = "find", NEW n \in Headers, n = cur, ~Unfit(n),
         call' \in {"idle", "move"}, SplitNode(n, size[n], next[n], AlignUp(bytes))
  PROVE  /\ IsFree(n) /\ n \notin DOMAIN owned
         /\ Headers \subseteq Headers' /\ Headers' \subseteq 0 .. End
         /\ DOMAIN next' = Headers'
         /\ \A h \in Headers' : size'[h] \in Nat /\ next'[h] \in Headers' \cup {NULL}
         /\ Tiled'
         /\ \A h \in Headers \ {n} : size'[h] = size[h]
         /\ \A h \in Headers' \ Headers : IsFree(h)'
         /\ ~IsFree(n)' /\ size'[n] \in Nat /\ GetSize(n)' = size'[n]
         /\ size'[n] >= bytes
         /\ n \in Headers'
<1>1. n \in Headers /\ size[n] \in Nat /\ bytes \in Nat
  BY DEF IInv, Structure, TypeOK
<1>2. IsFree(n) /\ size[n] >= AlignUp(bytes)
  BY <1>1, AlignUpRounds DEF Unfit
<1>3. AlignUp(bytes) <= GetSize(n)
  <2>1. Untagged(size[n]) \in Nat /\ (Untagged(size[n]) % 2) = 0 /\ size[n] = Untagged(size[n]) + 1
    BY <1>1, <1>2, Tags DEF IsFree
  <2>2. \A a, b \in Nat : (a % 2) = 0 /\ (b % 2) = 0 /\ a <= b + 1 => a <= b
    OBVIOUS
  <2> QED
    BY <1>1, <1>2, <2>1, <2>2, AlignUpRounds DEF GetSize
<1>4. \A h \in Headers : NextOf(h) = next[h]
  BY DEF NextOf
<1>5. n \notin DOMAIN owned
  BY <1>1, <1>2 DEF IInv, Holding, BusyIsHeld, Holders
<1>6. PICK w \in Nat : w = AlignUp(bytes) /\ w > 0 /\ (w % 2) = 0 /\ w >= bytes
  BY <1>1, AlignUpRounds
<1>7. PICK s \in Nat : s = size[n]
  BY <1>1
<1>8. /\ SplitNode(n, s, NextOf(n), w) /\ Untagged(s) = GetSize(n) /\ w <= GetSize(n)
      /\ Structure /\ call # "closed"
  BY <1>1, <1>3, <1>4, <1>6, <1>7 DEF GetSize, IInv
<1>9. /\ Headers \subseteq Headers' /\ Headers' \subseteq 0 .. End
      /\ DOMAIN next' = Headers'
      /\ \A h \in Headers' : size'[h] \in Nat /\ next'[h] \in Headers' \cup {NULL}
      /\ Tiled'
      /\ \A h \in Headers \ {n} : size'[h] = size[h]
      /\ \A h \in Headers' \ Headers : IsFree(h)'
      /\ ~IsFree(n)' /\ size'[n] \in Nat /\ size'[n] >= w /\ GetSize(n)' = size'[n]
      /\ n \in Headers'
  BY <1>4, <1>6, <1>8, SplitKeepsTiling
<1> QED
  BY <1>1, <1>2, <1>5, <1>6, <1>9

LEMMA FindForAllocateOK ==
  ASSUME IInv, FindForAllocate
  PROVE  IInv'
<1>1. PICK n \in Headers : n = cur
  BY DEF IInv, Structure, TypeOK, FindForAllocate
<1>2. /\ call = "find" /\ call' = "idle" /\ node' = NULL /\ cur' = NULL /\ bytes' = 0
      /\ ~Unfit(n) /\ SplitNode(n, size[n], next[n], AlignUp(bytes))
      /\ DOMAIN owned' = DOMAIN owned \cup {n}
      /\ owned'[n] = Block(Data(n), bytes)
      /\ \A h \in DOMAIN owned \ {n} : owned'[h] = owned[h]
  BY <1>1 DEF FindForAllocate, Give, Return
<1>3. /\ IsFree(n) /\ n \notin DOMAIN owned
      /\ Headers \subseteq Headers' /\ Headers' \subseteq 0 .. End
      /\ DOMAIN next' = Headers'
      /\ \A h \in Headers' : size'[h] \in Nat /\ next'[h] \in Headers' \cup {NULL}
      /\ Tiled'
      /\ \A h \in Headers \ {n} : size'[h] = size[h]
      /\ \A h \in Headers' \ Headers : IsFree(h)'
      /\ ~IsFree(n)' /\ size'[n] \in Nat /\ GetSize(n)' = size'[n]
      /\ size'[n] >= bytes
      /\ n \in Headers'
  BY <1>1, <1>2, FoundNode
<1>4. \A h \in Headers' : NextOf(h)' = next'[h]
  BY <1>2 DEF NextOf
<1>5. TypeOK'
  <2>1. \A h \in DOMAIN owned' : owned'[h] \in [at : {h, Data(h)}, len : Nat]
    BY <1>2 DEF IInv, Structure, TypeOK, Block
  <2>2. DOMAIN owned' \subseteq Headers'
    BY <1>2, <1>3 DEF IInv, Structure, TypeOK
  <2> QED
    BY <1>2, <1>3, <1>4, <2>1, <2>2 DEF TypeOK
<1>6. BusyIsHeld'
  BY <1>2, <1>3 DEF IInv, Structure, TypeOK, Holding, BusyIsHeld, Holders, IsFree
<1>7. Fits'
  <2>1. owned'[n].len <= GetSize(n)'
    BY <1>2, <1>3 DEF Block
  <2>2. ASSUME NEW h \in DOMAIN owned'
        PROVE  owned'[h].len <= GetSize(h)'
    <3>1. CASE h = n
      BY <2>1, <3>1
    <3>2. CASE h # n
      <4>1. h \in DOMAIN owned /\ h \in Headers \ {n} /\ owned'[h] = owned[h]
        BY <1>2, <3>2 DEF IInv, Structure, TypeOK
      <4>2. size'[h] = size[h] /\ owned[h].len <= GetSize(h)
        BY <1>3, <4>1 DEF IInv, Holding, Fits
      <4> QED
        BY <4>1, <4>2 DEF GetSize
    <3> QED
      BY <3>1, <3>2
  <2> QED
    BY <1>2, <2>2 DEF Fits
<1>8. CallOK' /\ SearchOK'
  BY <1>2 DEF CallOK, SearchOK
<1> QED
  BY <1>3, <1>5, <1>6, <1>7, <1>8 DEF IInv, Structure, Holding

LEMMA FindForReallocateOK ==
  ASSUME IInv, FindForReallocate
  PROVE  IInv'
<1>1. PICK n \in Headers : n = cur
  BY DEF IInv, Structure, TypeOK, FindForReallocate
<1>2. /\ call = "find" /\ call' = "move" /\ UNCHANGED <<owned, node, cur, bytes>>
      /\ node # NULL
      /\ ~Unfit(n) /\ SplitNode(n, size[n], next[n], AlignUp(bytes))
  BY <1>1 DEF FindForReallocate
<1>3. /\ IsFree(n) /\ n \notin DOMAIN owned
      /\ Headers \subseteq Headers' /\ Headers' \subseteq 0 .. End
      /\ DOMAIN next' = Headers'
      /\ \A h \in Headers' : size'[h] \in Nat /\ next'[h] \in Headers' \cup {NULL}
      /\ Tiled'
      /\ \A h \in Headers \ {n} : size'[h] = size[h]
      /\ \A h \in Headers' \ Headers : IsFree(h)'
      /\ ~IsFree(n)' /\ size'[n] \in Nat /\ GetSize(n)' = size'[n]
      /\ size'[n] >= bytes
      /\ n \in Headers'
  BY <1>1, <1>2, FoundNode
<1>4. \A h \in Headers' : NextOf(h)' = next'[h]
  BY <1>2 DEF NextOf
<1>5. TypeOK'
  BY <1>2, <1>3, <1>4 DEF IInv, Structure, TypeOK, InCall
<1>6. BusyIsHeld'
  BY <1>1, <1>2, <1>3 DEF IInv, Structure, TypeOK, Holding, BusyIsHeld, Holders, IsFree
<1>7. node \in Sound /\ node \in Headers /\ node # n
  BY <1>2, <1>3 DEF IInv, CallOK, Structure, TypeOK, Sound
<1>8. size'[node] = size[node] /\ size[node] <= bytes
  <2>1. ~IsFree(node)
    BY <1>7 DEF IInv, Holding, BusyIsHeld, Holders, Sound
  <2>2. GetSize(node) < bytes /\ GetSize(node) \in Nat /\ bytes \in Nat
    BY <1>2, <1>7, NodesInside DEF IInv, CallOK, Structure, TypeOK
  <2>3. size[node] = GetSize(node)
    BY <2>1, <1>7, Tags DEF IsFree, GetSize, IInv, Structure, TypeOK
  <2> QED
    BY <1>3, <1>7, <2>2, <2>3
<1>9. Fits'
  <2>1. \A h \in DOMAIN owned' : owned'[h].len <= GetSize(h)'
    BY <1>2, <1>3 DEF IInv, Structure, TypeOK, Holding, Fits, GetSize
  <2>2. size'[node'] = size'[node] /\ GetSize(cur)' = GetSize(n)'
    BY <1>1, <1>2 DEF GetSize
  <2>3. size[node] \in Nat /\ bytes \in Nat
    BY <1>7 DEF IInv, Structure, TypeOK
  <2> QED
    BY <1>2, <1>3, <1>8, <2>1, <2>2, <2>3 DEF Fits
<1>10. CallOK' /\ SearchOK'
  BY <1>1, <1>2, <1>3, <1>7 DEF IInv, CallOK, SearchOK, Sound
<1> QED
  BY <1>3, <1>5, <1>6, <1>9, <1>10 DEF IInv, Structure, Holding

LEMMA OutOfMemoryOK ==
  ASSUME IInv, OutOfMemory
  PROVE  IInv'
<1>1. Structure' /\ Headers' = Headers
  BY SameList DEF IInv, Structure, TypeOK, OutOfMemory, heap, NextOf, Headers, Stopped
<1>2. /\ size' = size /\ owned' = owned /\ call = "find" /\ call' = "dead"
      /\ UNCHANGED <<next, node, cur, bytes>> /\ cur = NULL
  BY DEF OutOfMemory, heap
<1>3. Holding'
  BY <1>1, <1>2 DEF IInv, Holding, BusyIsHeld, Fits, Holders, IsFree, GetSize
<1>4. CallOK' /\ SearchOK'
  BY <1>1, <1>2 DEF IInv, CallOK, SearchOK, Unfit, IsFree, GetSize
<1> QED
  BY <1>1, <1>3, <1>4 DEF IInv

LEMMA UseMisplacedOK ==
  ASSUME IInv, NEW h \in DOMAIN owned, UseMisplaced(h)
  PROVE  IInv'
<1>1. Structure' /\ Headers' = Headers
  BY SameList DEF IInv, Structure, TypeOK, UseMisplaced, heap, NextOf, Headers, Stopped
<1>2. /\ size' = size /\ owned' = owned /\ call = "idle" /\ call' = "undefined"
  BY DEF UseMisplaced, heap
<1>3. Holding'
  BY <1>1, <1>2 DEF IInv, Holding, BusyIsHeld, Fits, Holders, IsFree, GetSize
<1> QED
  BY <1>1, <1>2, <1>3 DEF IInv, CallOK, SearchOK

LEMMA DeinitOK ==
  ASSUME IInv, Deinit
  PROVE  IInv'
<1>1. /\ call' = "closed" /\ Headers' = {} /\ DOMAIN next' = {} /\ DOMAIN owned' = {}
      /\ node' = NULL /\ cur' = NULL /\ bytes' \in Nat
  BY DEF IInv, Structure, TypeOK, CallOK, Deinit, Headers, NoBlocks
<1> QED
  BY <1>1 DEF IInv, Structure, TypeOK, Tiled, Holding, BusyIsHeld, Fits, CallOK, SearchOK, Stopped

-----------------------------------------------------------------------------
(* Giving back and coalescing *)

\* GPADeallocateNode on a busy node keeps the list and frees the node, whoever
\* calls it.
LEMMA DeallocateNodeOK ==
  ASSUME Structure, call \in {"idle", "move"}, NEW n \in Headers, DeallocateNode(n)
  PROVE  /\ Headers' = Headers /\ DOMAIN next' = Headers
         /\ \A h \in Headers : size'[h] \in Nat /\ GetSize(h)' = GetSize(h)
         /\ \A h \in Headers : NextOf(h)' \in Headers \cup {NULL}
         /\ \A h \in Headers \ {n} : size'[h] = size[h]
         /\ IsFree(n)' /\ Tiled'
         /\ call' \in {"idle", "coalesce"}
         /\ call' = "idle" => node' = NULL /\ cur' = NULL
         /\ call' = "coalesce" => node' = n
         /\ node' \in Headers \cup {NULL} /\ cur' \in Headers \cup {NULL} /\ bytes' = 0
         /\ cur' # n
<1>1. /\ size' = [size EXCEPT ![n] = SetFreeTag(@)] /\ next' = next /\ bytes' = 0
      /\ \/ call' = "coalesce" /\ node' = n /\ cur' = next[n]
         \/ call' = "idle" /\ node' = NULL /\ cur' = NULL
  BY DEF DeallocateNode, Return
<1>2. \A h \in Headers : NextOf(h) = next[h]
  BY DEF NextOf
<1>3. \A h \in Headers : NextOf(h)' = next[h]
  BY <1>1 DEF NextOf
<1>4. Headers' = Headers /\ DOMAIN next' = Headers
  BY <1>1 DEF Headers, Structure, TypeOK
<1>5. size[n] \in Nat /\ size'[n] = SetFreeTag(size[n])
  BY <1>1 DEF Structure, TypeOK, Headers
<1>6. size'[n] \in Nat /\ IsFree(n)' /\ GetSize(n)' = GetSize(n)
  BY <1>5, Tags DEF IsFree, GetSize
<1>7. \A h \in Headers \ {n} : size'[h] = size[h] /\ GetSize(h)' = GetSize(h)
  BY <1>1 DEF Headers, GetSize
<1>8. \A h \in Headers : NodeEnd(h)' = NodeEnd(h) /\ GetSize(h)' = GetSize(h)
  BY <1>6, <1>7 DEF NodeEnd
<1>9. Tiled'
  BY <1>1, <1>2, <1>3, <1>4, <1>8 DEF Tiled, Structure
<1>10. next[n] # NULL => next[n] > n /\ next[n] \in Headers
  BY <1>2, NodesInside
<1>11. cur' \in Headers \cup {NULL} /\ cur' # n
  <2>1. n \in Nat /\ n # NULL /\ next[n] \in Headers \cup {NULL} /\ Headers \subseteq Nat
    BY <1>2, ConstantsOK DEF Structure, TypeOK, NULL
  <2>2. next[n] # n
    BY <2>1, <1>10
  <2> QED
    BY <1>1, <2>1, <2>2
<1> QED
  BY <1>1, <1>2, <1>3, <1>4, <1>6, <1>7, <1>8, <1>9, <1>11 DEF Structure, TypeOK

LEMMA DeallocateOK ==
  ASSUME IInv, NEW n \in DOMAIN owned, Deallocate(n)
  PROVE  IInv'
<1>1. /\ call = "idle" /\ n \in Headers /\ DeallocateNode(n)
      /\ DOMAIN owned' = DOMAIN owned \ {n}
      /\ \A h \in DOMAIN owned' : owned'[h] = owned[h]
  BY DEF Deallocate, IInv, Structure, TypeOK
<1>2. /\ Headers' = Headers /\ DOMAIN next' = Headers
      /\ \A h \in Headers : size'[h] \in Nat /\ GetSize(h)' = GetSize(h)
      /\ \A h \in Headers : NextOf(h)' \in Headers \cup {NULL}
      /\ \A h \in Headers \ {n} : size'[h] = size[h]
      /\ IsFree(n)' /\ Tiled'
      /\ call' \in {"idle", "coalesce"}
      /\ call' = "idle" => node' = NULL /\ cur' = NULL
      /\ call' = "coalesce" => node' = n
      /\ node' \in Headers \cup {NULL} /\ cur' \in Headers \cup {NULL} /\ bytes' = 0
      /\ cur' # n
  BY <1>1, DeallocateNodeOK DEF IInv
<1>3. TypeOK'
  BY <1>1, <1>2 DEF IInv, Structure, TypeOK, InCall
<1>4. BusyIsHeld'
  BY <1>1, <1>2 DEF IInv, Holding, BusyIsHeld, Holders, IsFree
<1>5. Fits'
  BY <1>1, <1>2 DEF IInv, Structure, TypeOK, Holding, Fits
<1>6. CallOK' /\ SearchOK'
  <2>1. CASE call' = "idle"
    BY <2>1, <1>2 DEF CallOK, SearchOK
  <2>2. CASE call' = "coalesce"
    <3>1. IsFree(node)'
      BY <2>2, <1>2 DEF IsFree
    <3> QED
      BY <2>2, <3>1, <1>1, <1>2 DEF CallOK, SearchOK
  <2> QED
    BY <2>1, <2>2, <1>2
<1> QED
  BY <1>2, <1>3, <1>4, <1>5, <1>6 DEF IInv, Structure, Holding

LEMMA MoveOK ==
  ASSUME IInv, Move
  PROVE  IInv'
<1>1. /\ call = "move" /\ node \in Sound /\ node \in DOMAIN owned /\ node \in Headers
      /\ cur \in Headers /\ cur \notin DOMAIN owned /\ bytes \in Nat
  BY DEF Move, IInv, CallOK, Structure, TypeOK, Sound
<1>2. PICK n \in Headers : n = node
  BY <1>1
<1>3. PICK c \in Headers : c = cur
  BY <1>1
<1>4. /\ DeallocateNode(n) /\ n \in DOMAIN owned /\ c \notin DOMAIN owned
      /\ DOMAIN owned' = (DOMAIN owned \ {n}) \cup {c}
      /\ owned'[c] = Block(c, bytes)
      /\ \A h \in DOMAIN owned' \ {c} : owned'[h] = owned[h]
  BY <1>1, <1>2, <1>3 DEF Move, Give, NewAddress
<1>5. /\ Headers' = Headers /\ DOMAIN next' = Headers
      /\ \A h \in Headers : size'[h] \in Nat /\ GetSize(h)' = GetSize(h)
      /\ \A h \in Headers : NextOf(h)' \in Headers \cup {NULL}
      /\ \A h \in Headers \ {n} : size'[h] = size[h]
      /\ IsFree(n)' /\ Tiled'
      /\ call' \in {"idle", "coalesce"}
      /\ call' = "idle" => node' = NULL /\ cur' = NULL
      /\ call' = "coalesce" => node' = n
      /\ node' \in Headers \cup {NULL} /\ cur' \in Headers \cup {NULL} /\ bytes' = 0
      /\ cur' # n
  BY <1>1, <1>4, DeallocateNodeOK DEF IInv
<1>6. TypeOK'
  <2>1. \A h \in DOMAIN owned' : owned'[h] \in [at : {h, Data(h)}, len : Nat]
    BY <1>1, <1>4 DEF IInv, Structure, TypeOK, Block
  <2> QED
    BY <1>4, <1>5, <2>1 DEF IInv, Structure, TypeOK, InCall
<1>7. BusyIsHeld'
  BY <1>1, <1>3, <1>4, <1>5 DEF IInv, Holding, BusyIsHeld, Holders, IsFree
<1>8. Fits'
  <2>1. bytes <= GetSize(c)
    BY <1>1, <1>3 DEF IInv, Holding, Fits
  <2>2. \A h \in DOMAIN owned' : owned'[h].len <= GetSize(h)
    BY <1>4, <2>1 DEF IInv, Holding, Fits, Block
  <2> QED
    <3>1. DOMAIN owned' \subseteq Headers
      BY <1>4 DEF IInv, Structure, TypeOK
    <3>2. \A h \in DOMAIN owned' : owned'[h].len <= GetSize(h)'
      BY <2>2, <3>1, <1>5
    <3> QED
      BY <3>2, <1>5 DEF Fits
<1>9. CallOK' /\ SearchOK'
  <2>1. CASE call' = "idle"
    BY <2>1, <1>5 DEF CallOK, SearchOK
  <2>2. CASE call' = "coalesce"
    <3>1. IsFree(node)'
      BY <2>2, <1>5 DEF IsFree
    <3> QED
      BY <2>2, <3>1, <1>4, <1>5 DEF CallOK, SearchOK
  <2> QED
    BY <2>1, <2>2, <1>5
<1> QED
  BY <1>5, <1>6, <1>7, <1>8, <1>9 DEF IInv, Structure, Holding

\* One round of the coalescing loop: the list loses a node and no byte.
LEMMA CoalesceStepOK ==
  ASSUME IInv, CoalesceStep
  PROVE  IInv'
<1>1. /\ call \in {"coalesce", "grow"} /\ cur # NULL /\ IsFree(cur)
      /\ node \in Headers /\ cur \in Headers /\ cur # node
  BY DEF CoalesceStep, IInv, CallOK, Structure, TypeOK
<1>2. PICK n \in Headers : n = node
  BY <1>1
<1>3. PICK c \in Headers : c = cur
  BY <1>1
<1>4. /\ Headers' = Headers \ {c} /\ DOMAIN next' = Headers \ {c}
      /\ size'[n] = Absorb(n, c) /\ n # c /\ IsFree(c)
      /\ \A h \in Headers \ {n, c} : size'[h] = size[h]
      /\ \A h \in Headers \ {c} : next'[h] = next[h]
      /\ cur' = next[c] /\ UNCHANGED <<owned, call, node, bytes>>
  BY <1>1, <1>2, <1>3 DEF CoalesceStep, Headers
<1>5. /\ NextOf(n) = c /\ NextOf(c) = next[c]
      /\ \A h \in Headers \ {n} : NextOf(h) = next[h]
  BY <1>1, <1>2, <1>3, <1>4 DEF NextOf
<1>6. /\ NextOf(n)' = NextOf(c)
      /\ \A h \in Headers \ {n, c} : NextOf(h)' = NextOf(h)
  BY <1>1, <1>2, <1>4, <1>5 DEF NextOf
<1>7. Structure /\ call # "closed" /\ c \notin Holders
  BY <1>1, <1>3 DEF IInv, Holding, BusyIsHeld
<1>8. /\ size[n] \in Nat /\ n \in Nat /\ GetSize(n) \in Nat /\ NodeEnd(n) = c /\ c > n
      /\ GetSize(c) \in Nat /\ c \in Nat /\ NodeEnd(c) <= End /\ NodeEnd(c) > c
      /\ (GetSize(c) % 2) = 0
  <2>1. (GetSize(c) % 2) = 0
    BY Tags DEF IInv, Structure, TypeOK, GetSize
  <2>2. NodeEnd(n) = c
    BY <1>1, <1>3, <1>5, <1>7 DEF Structure, Tiled
  <2> QED
    BY <1>7, <2>1, <2>2, NodesInside, ConstantsOK
<1>9. /\ size'[n] \in Nat /\ GetSize(n)' = GetSize(n) + GetSize(c) + HeaderSize
      /\ IsFree(n)' <=> IsFree(n)
  <2>1. PICK b \in Int : b = GetSize(c) + HeaderSize /\ (b % 2) = 0
    <3>1. ((GetSize(c) + HeaderSize) % 2) = 0
      <4>1. PICK a \in Nat : a = GetSize(c) /\ (a % 2) = 0
        BY <1>8
      <4>2. ((a + HeaderSize) % 2) = 0
        BY <4>1, ConstantsOK
      <4> QED
        BY <4>1, <4>2
    <3> QED
      BY <3>1, <1>8, ConstantsOK
  <2>2. size'[n] = size[n] + b
    BY <1>4, <1>8, <2>1, ConstantsOK DEF Absorb
  <2>3. Untagged(size[n] + b) = Untagged(size[n]) + b
        /\ (IsFreeSize(size[n] + b) <=> IsFreeSize(size[n]))
    <3>1. PICK s \in Nat : s = size[n]
      BY <1>8
    <3>2. Untagged(s + b) = Untagged(s) + b /\ (IsFreeSize(s + b) <=> IsFreeSize(s))
      BY <2>1, <3>1 DEF Untagged, IsFreeSize
    <3> QED
      BY <3>1, <3>2
  <2>4. GetSize(n) + b = GetSize(n) + GetSize(c) + HeaderSize
    BY <1>8, <2>1, ConstantsOK
  <2>5. size[n] + b \in Nat
    BY <1>8, <2>1, ConstantsOK
  <2> QED
    BY <2>2, <2>3, <2>4, <2>5 DEF GetSize, IsFree
<1>10. /\ NodeEnd(n)' = NodeEnd(c)
       /\ \A h \in Headers \ {n, c} : NodeEnd(h)' = NodeEnd(h) /\ GetSize(h)' = GetSize(h)
  BY <1>4, <1>8, <1>9, ConstantsOK DEF NodeEnd, Data, GetSize
<1>11. \A h \in Headers \ {n} : NextOf(h) # c
  <2>1. SUFFICES ASSUME NEW h \in Headers \ {n}, NextOf(h) = c PROVE FALSE
    OBVIOUS
  <2>2. NodeEnd(h) = c /\ h \in Nat /\ NodeEnd(h) > h
    BY <2>1, <1>1, <1>3, <1>7, NodesInside, ConstantsOK DEF Structure, Tiled
  <2>3. CASE h < n
    BY <2>2, <2>3, <1>7, <1>8 DEF Structure, Tiled
  <2>4. CASE h > n
    BY <2>2, <2>4, <1>7, <1>8 DEF Structure, Tiled
  <2> QED
    BY <2>1, <2>2, <2>3, <2>4, <1>8
<1>12. NextOf(c) # c
  BY <1>7, <1>8, NodesInside, ConstantsOK DEF NULL
<1>13. \A h \in Headers' : NextOf(h)' \in Headers' \cup {NULL}
  BY <1>4, <1>6, <1>7, <1>11, <1>12 DEF Structure, TypeOK
<1>14. DOMAIN owned \subseteq Headers'
  BY <1>4, <1>7 DEF Structure, TypeOK, Holders
<1>15. TypeOK'
  <2>1. cur' \in Headers' \cup {NULL}
    BY <1>4, <1>5, <1>7, <1>12 DEF Structure, TypeOK
  <2>2. \A h \in Headers' : size'[h] \in Nat
    BY <1>4, <1>7, <1>9 DEF Structure, TypeOK
  <2> QED
    BY <1>2, <1>4, <1>7, <1>13, <1>14, <2>1, <2>2 DEF Structure, TypeOK
<1>16. Tiled'
  <2>1. SUFFICES ASSUME NEW h \in Headers'
                 PROVE  /\ GetSize(h)' > 0
                        /\ NextOf(h)' = NULL => NodeEnd(h)' = End
                        /\ NextOf(h)' # NULL => NextOf(h)' = NodeEnd(h)'
                        /\ \A k \in Headers' : k > h => k >= NodeEnd(h)'
    BY <1>4, <1>7, <1>8 DEF Structure, Tiled, Head
  <2>2. CASE h = n
    <3>1. GetSize(h)' > 0
      BY <2>2, <1>7, <1>8, <1>9, ConstantsOK DEF Structure, Tiled
    <3>2. \A k \in Headers' : k > n => k >= NodeEnd(c)
      <4>1. SUFFICES ASSUME NEW k \in Headers', k > n PROVE k >= NodeEnd(c)
        OBVIOUS
      <4>2. k >= c /\ k # c /\ k \in Headers
        BY <4>1, <1>4, <1>7, <1>8 DEF Structure, Tiled
      <4>3. k > c
        BY <4>2, <1>7, <1>8 DEF Structure, TypeOK
      <4> QED
        BY <4>2, <4>3, <1>7 DEF Structure, Tiled
    <3> QED
      BY <2>2, <3>1, <3>2, <1>6, <1>7, <1>10 DEF Structure, Tiled
  <2>3. CASE h # n
    BY <2>1, <2>3, <1>4, <1>6, <1>7, <1>10 DEF Structure, Tiled
  <2> QED
    BY <2>2, <2>3
<1>17. BusyIsHeld'
  <2>1. Holders' = Holders
    BY <1>1, <1>4 DEF Holders
  <2>2. \A h \in Headers' : IsFree(h)' <=> IsFree(h)
    BY <1>4, <1>9 DEF IsFree
  <2> QED
    BY <1>4, <2>1, <2>2 DEF IInv, Holding, BusyIsHeld
<1>18. Fits'
  <2>1. SUFFICES ASSUME NEW h \in DOMAIN owned PROVE owned[h].len <= GetSize(h)'
    BY <1>1, <1>4 DEF Fits
  <2>2. owned[h].len <= GetSize(h) /\ owned[h].len \in Nat
    BY DEF IInv, Structure, TypeOK, Holding, Fits
  <2>3. CASE h = n
    BY <2>2, <2>3, <1>8, <1>9, ConstantsOK
  <2>4. CASE h # n
    BY <2>1, <2>2, <2>4, <1>4, <1>10, <1>14
  <2> QED
    BY <2>3, <2>4
<1>19. CallOK' /\ SearchOK'
  <2>1. cur' # node'
    <3>1. NextOf(c) # NULL => NextOf(c) > c
      BY <1>7, NodesInside
    <3> QED
      BY <3>1, <1>2, <1>4, <1>5, <1>8 DEF NULL
  <2>2. call' = "coalesce" => IsFree(node)'
    BY <1>2, <1>4, <1>9 DEF IInv, CallOK, IsFree
  <2> QED
    BY <2>1, <2>2, <1>1, <1>2, <1>4 DEF IInv, CallOK, SearchOK, Sound
<1> QED
  BY <1>15, <1>16, <1>17, <1>18, <1>19 DEF IInv, Structure, Holding

\* The loop ends: what was the cursor becomes the node's Next.
LEMMA LinkKeepsTiling ==
  ASSUME IInv, call \in {"coalesce", "grow"},
         next' = [next EXCEPT ![node] = cur], size' = size,
         call' \in {"idle", "find"}
  PROVE  /\ Headers' = Headers /\ DOMAIN next' = Headers
         /\ \A h \in Headers : NextOf(h)' = NextOf(h) /\ GetSize(h)' = GetSize(h)
         /\ \A h \in Headers : IsFree(h)' <=> IsFree(h)
         /\ Tiled'
<1>1. Headers' = Headers /\ DOMAIN next' = Headers /\ node \in Headers
  BY DEF Headers, IInv, CallOK, Structure, TypeOK
<1>2. \A h \in Headers : NextOf(h)' = NextOf(h)
  BY <1>1 DEF NextOf, IInv, Structure, TypeOK
<1>3. \A h \in Headers : /\ GetSize(h)' = GetSize(h) /\ NodeEnd(h)' = NodeEnd(h)
                         /\ IsFree(h)' <=> IsFree(h)
  BY DEF GetSize, NodeEnd, IsFree
<1>4. Tiled'
  BY <1>1, <1>2, <1>3 DEF IInv, Structure, Tiled
<1> QED
  BY <1>1, <1>2, <1>3, <1>4

LEMMA CoalesceEndOK ==
  ASSUME IInv, CoalesceEnd
  PROVE  IInv'
<1>1. /\ call = "coalesce" /\ next' = [next EXCEPT ![node] = cur] /\ size' = size
      /\ owned' = owned /\ call' = "idle" /\ node' = NULL /\ cur' = NULL /\ bytes' = 0
  BY DEF CoalesceEnd, Return
<1>2. /\ Headers' = Headers /\ DOMAIN next' = Headers
      /\ \A h \in Headers : NextOf(h)' = NextOf(h) /\ GetSize(h)' = GetSize(h)
      /\ \A h \in Headers : IsFree(h)' <=> IsFree(h)
      /\ Tiled'
  BY <1>1, LinkKeepsTiling
<1>3. TypeOK'
  BY <1>1, <1>2 DEF IInv, Structure, TypeOK
<1>4. Holding'
  BY <1>1, <1>2 DEF IInv, Structure, TypeOK, Holding, BusyIsHeld, Fits, Holders
<1> QED
  BY <1>1, <1>2, <1>3, <1>4 DEF IInv, Structure, CallOK, SearchOK

-----------------------------------------------------------------------------
(* Reallocating *)

\* A held node is busy, so its Size is its size.
LEMMA HeldSize ==
  ASSUME IInv, NEW h \in DOMAIN owned
  PROVE  h \in Headers /\ ~IsFree(h) /\ size[h] = GetSize(h) /\ size[h] \in Nat
         /\ owned[h].len \in Nat /\ owned[h].len <= size[h]
<1>1. h \in Headers /\ size[h] \in Nat /\ owned[h].len \in Nat
  BY DEF IInv, Structure, TypeOK
<1>2. ~IsFree(h)
  BY <1>1 DEF IInv, Holding, BusyIsHeld, Holders
<1>3. size[h] = GetSize(h)
  BY <1>1, <1>2, Tags DEF IsFree, GetSize
<1> QED
  BY <1>1, <1>2, <1>3 DEF IInv, Holding, Fits

\* A block that changes only the length its client knows.
LEMMA NewLength ==
  ASSUME IInv, NEW n \in DOMAIN owned, NEW w \in Nat, owned' = [owned EXCEPT ![n].len = w]
  PROVE  /\ DOMAIN owned' = DOMAIN owned
         /\ owned'[n].len = w /\ owned'[n].at = owned[n].at
         /\ \A h \in DOMAIN owned \ {n} : owned'[h] = owned[h]
         /\ \A h \in DOMAIN owned : owned'[h] \in [at : {h, Data(h)}, len : Nat]
<1>1. /\ DOMAIN owned' = DOMAIN owned
      /\ \A h \in DOMAIN owned \ {n} : owned'[h] = owned[h]
      /\ owned'[n] = [owned[n] EXCEPT !.len = w]
  OBVIOUS
<1>2. owned[n] \in [at : {n, Data(n)}, len : Nat]
  BY DEF IInv, Structure, TypeOK
<1>3. owned'[n].len = w /\ owned'[n].at = owned[n].at
  BY <1>1, <1>2
<1> QED
  BY <1>1, <1>3 DEF IInv, Structure, TypeOK

LEMMA ReallocateInPlaceOK ==
  ASSUME IInv, NEW n \in DOMAIN owned, NEW w \in ReallocSizes, ReallocateInPlace(n, w)
  PROVE  IInv'
<1>1. /\ call = "idle" /\ w <= size[n] /\ owned' = [owned EXCEPT ![n].len = w]
      /\ UNCHANGED <<size, next, call, node, cur, bytes>> /\ w \in Nat
  BY ConstantsOK DEF ReallocateInPlace, heap
<1>2. /\ DOMAIN owned' = DOMAIN owned
      /\ owned'[n].len = w /\ owned'[n].at = owned[n].at
      /\ \A h \in DOMAIN owned \ {n} : owned'[h] = owned[h]
      /\ \A h \in DOMAIN owned : owned'[h] \in [at : {h, Data(h)}, len : Nat]
  BY <1>1, NewLength
<1>3. /\ Headers' = Headers
      /\ \A h \in Headers : /\ NextOf(h)' = NextOf(h) /\ GetSize(h)' = GetSize(h)
                            /\ NodeEnd(h)' = NodeEnd(h) /\ IsFree(h)' = IsFree(h)
  BY <1>1 DEF Headers, NextOf, GetSize, NodeEnd, IsFree
<1>4. Structure'
  BY <1>1, <1>2, <1>3 DEF IInv, Structure, TypeOK, Tiled
<1>5. BusyIsHeld'
  BY <1>1, <1>2, <1>3 DEF IInv, Holding, BusyIsHeld, Holders
<1>6. Fits'
  BY <1>1, <1>2, <1>3, HeldSize DEF Fits
<1> QED
  BY <1>1, <1>4, <1>5, <1>6 DEF IInv, Holding, CallOK, SearchOK

LEMMA ReallocateOK ==
  ASSUME IInv, NEW n \in DOMAIN owned, NEW w \in ReallocSizes, Reallocate(n, w)
  PROVE  IInv'
<1>1. /\ call = "idle" /\ n \in Sound /\ w > size[n] /\ UNCHANGED <<size, next, owned>>
      /\ call' = "grow" /\ node' = n /\ cur' = next[n] /\ bytes' = w /\ w \in Nat
  BY ConstantsOK DEF Reallocate, heap
<1>2. \A h \in Headers : NextOf(h) = next[h] /\ NextOf(h)' = next[h]
  BY <1>1 DEF NextOf
<1>3. n \in Headers /\ next[n] \in Headers \cup {NULL}
  BY <1>2, HeldSize DEF IInv, Structure, TypeOK
<1>4. Structure' /\ Headers' = Headers
  BY <1>1, <1>2, <1>3, SameList DEF IInv, Structure, TypeOK, InCall
<1>5. Holding'
  BY <1>1, <1>4 DEF IInv, Holding, BusyIsHeld, Fits, Holders, IsFree, GetSize
<1>6. next[n] # n
  BY <1>1, <1>2, <1>3, NodesInside, ConstantsOK DEF IInv, NULL
<1>7. w > owned[n].len
  BY <1>1, HeldSize
<1>8. CallOK' /\ SearchOK'
  BY <1>1, <1>3, <1>4, <1>6, <1>7 DEF CallOK, SearchOK, Sound
<1> QED
  BY <1>4, <1>5, <1>8 DEF IInv

\* What the three ends of GPAReallocate's coalescing have in common.
LEMMA GrowNode ==
  ASSUME IInv, call = "grow"
  PROVE  \E n \in DOMAIN owned :
           /\ n = node /\ n \in Sound /\ n \in Headers
           /\ bytes \in Nat /\ bytes \in ReallocSizes /\ bytes > 0
           /\ GetSize(n) \in Nat /\ NextOf(n) = cur
           /\ \A h \in Headers \ {n} : NextOf(h) = next[h]
<1>1. node \in DOMAIN owned /\ node \in Sound /\ bytes \in ReallocSizes
  BY DEF IInv, CallOK, Sound
<1>2. node \in Headers /\ GetSize(node) \in Nat
  BY <1>1, NodesInside DEF IInv, Structure, TypeOK
<1>3. bytes \in Nat /\ bytes > 0
  BY <1>1, SizesAssumption
<1> QED
  BY <1>1, <1>2, <1>3 DEF NextOf

LEMMA GrowExactOK ==
  ASSUME IInv, GrowExact
  PROVE  IInv'
<1>1. /\ call = "grow" /\ next' = [next EXCEPT ![node] = cur] /\ size' = size
      /\ call' = "idle" /\ node' = NULL /\ cur' = NULL /\ bytes' = 0
  BY DEF GrowExact, Return
<1>2. PICK n \in DOMAIN owned : n = node /\ n \in Headers /\ bytes \in Nat
  BY <1>1, GrowNode
<1>3. GetSize(n) = bytes /\ owned' = [owned EXCEPT ![n].len = bytes]
  BY <1>2 DEF GrowExact
<1>4. PICK w \in Nat : w = bytes
  BY <1>2
<1>5. /\ DOMAIN owned' = DOMAIN owned
      /\ owned'[n].len = w
      /\ \A h \in DOMAIN owned \ {n} : owned'[h] = owned[h]
      /\ \A h \in DOMAIN owned : owned'[h] \in [at : {h, Data(h)}, len : Nat]
  BY <1>3, <1>4, NewLength
<1>6. /\ Headers' = Headers /\ DOMAIN next' = Headers
      /\ \A h \in Headers : NextOf(h)' = NextOf(h) /\ GetSize(h)' = GetSize(h)
      /\ \A h \in Headers : IsFree(h)' <=> IsFree(h)
      /\ Tiled'
  BY <1>1, LinkKeepsTiling
<1>7. TypeOK'
  BY <1>1, <1>5, <1>6 DEF IInv, Structure, TypeOK
<1>8. BusyIsHeld'
  BY <1>1, <1>5, <1>6 DEF IInv, Holding, BusyIsHeld, Holders
<1>9. Fits'
  <2>1. \A h \in DOMAIN owned \ {n} : h \in Headers /\ owned[h].len <= GetSize(h)
    BY DEF IInv, Structure, TypeOK, Holding, Fits
  <2>2. \A h \in DOMAIN owned' : owned'[h].len <= GetSize(h)'
    BY <1>2, <1>3, <1>4, <1>5, <1>6, <2>1
  <2> QED
    BY <1>1, <2>2 DEF Fits
<1> QED
  BY <1>1, <1>6, <1>7, <1>8, <1>9 DEF IInv, Structure, Holding, CallOK, SearchOK

LEMMA GrowElsewhereOK ==
  ASSUME IInv, GrowElsewhere
  PROVE  IInv'
<1>1. /\ call = "grow" /\ next' = [next EXCEPT ![node] = cur] /\ size' = size
      /\ call' = "find" /\ cur' = Head /\ UNCHANGED <<owned, node, bytes>>
      /\ GetSize(node) < bytes
  BY DEF GrowElsewhere
<1>2. PICK n \in DOMAIN owned : n = node /\ n \in Sound /\ n \in Headers
                                /\ bytes \in ReallocSizes
  BY <1>1, GrowNode
<1>3. /\ Headers' = Headers /\ DOMAIN next' = Headers
      /\ \A h \in Headers : NextOf(h)' = NextOf(h) /\ GetSize(h)' = GetSize(h)
      /\ \A h \in Headers : IsFree(h)' <=> IsFree(h)
      /\ Tiled'
  BY <1>1, LinkKeepsTiling
<1>4. Head \in Headers /\ Headers \subseteq Nat
  BY <1>1 DEF IInv, Structure, TypeOK, Tiled
<1>5. TypeOK'
  BY <1>1, <1>2, <1>3, <1>4 DEF IInv, Structure, TypeOK, InCall
<1>6. Holding'
  BY <1>1, <1>3 DEF IInv, Structure, TypeOK, Holding, BusyIsHeld, Fits, Holders
<1>7. CallOK'
  <2>1. GetSize(node)' = GetSize(n)
    BY <1>1, <1>2 DEF GetSize
  <2> QED
    BY <1>1, <1>2, <2>1 DEF CallOK, Sound
<1>8. SearchOK'
  <2>1. next'[node] = cur /\ (cur # NULL => cur \in Headers /\ ~IsFree(cur))
    BY <1>1, <1>2 DEF GrowElsewhere, CoalesceLoopDone, IInv, Structure, TypeOK
  <2>2. next'[node] # NULL => ~IsFree(next[node])'
    BY <1>1, <2>1 DEF IsFree
  <2> QED
    BY <1>1, <1>2, <1>3, <1>4, <2>2 DEF SearchOK, Head, NULL
<1> QED
  BY <1>3, <1>5, <1>6, <1>7, <1>8 DEF IInv, Structure

\* Here, and only here, the evenness of the sizes is needed: the node is split at
\* NewSize, which becomes its Size as it is.
LEMMA GrowSplitOK ==
  ASSUME EvenReallocs, IInv, GrowSplit
  PROVE  IInv'
<1>1. call = "grow" /\ call' = "idle" /\ node' = NULL /\ cur' = NULL /\ bytes' = 0
  BY DEF GrowSplit, Return
<1>2. PICK n \in DOMAIN owned :
           /\ n = node /\ n \in Headers
           /\ bytes \in Nat /\ bytes \in ReallocSizes /\ bytes > 0
           /\ GetSize(n) \in Nat /\ NextOf(n) = cur
           /\ \A h \in Headers \ {n} : NextOf(h) = next[h]
  BY <1>1, GrowNode
<1>3. PICK w \in Nat : w = bytes /\ w > 0 /\ (w % 2) = 0
  BY <1>2 DEF EvenReallocs
<1>4. PICK s \in Nat : s = SetFreeTag(size[n]) /\ Untagged(s) = GetSize(n)
  BY <1>2, Tags DEF IInv, Structure, TypeOK, GetSize
<1>5. /\ SplitNode(n, s, NextOf(n), w) /\ w <= GetSize(n)
      /\ owned' = [owned EXCEPT ![n].len = w]
  BY <1>2, <1>3, <1>4 DEF GrowSplit
<1>6. /\ Headers \subseteq Headers' /\ Headers' \subseteq 0 .. End
      /\ DOMAIN next' = Headers'
      /\ \A h \in Headers' : size'[h] \in Nat /\ next'[h] \in Headers' \cup {NULL}
      /\ Tiled'
      /\ \A h \in Headers \ {n} : size'[h] = size[h]
      /\ \A h \in Headers' \ Headers : IsFree(h)'
      /\ ~IsFree(n)' /\ size'[n] \in Nat /\ size'[n] >= w /\ GetSize(n)' = size'[n]
      /\ n \in Headers'
  BY <1>1, <1>2, <1>3, <1>4, <1>5, SplitKeepsTiling DEF IInv
<1>7. /\ DOMAIN owned' = DOMAIN owned
      /\ owned'[n].len = w
      /\ \A h \in DOMAIN owned \ {n} : owned'[h] = owned[h]
      /\ \A h \in DOMAIN owned : owned'[h] \in [at : {h, Data(h)}, len : Nat]
  BY <1>5, NewLength
<1>8. \A h \in Headers' : NextOf(h)' = next'[h]
  BY <1>1 DEF NextOf
<1>9. TypeOK'
  BY <1>1, <1>6, <1>7, <1>8 DEF IInv, Structure, TypeOK
<1>10. BusyIsHeld'
  BY <1>1, <1>2, <1>6, <1>7 DEF IInv, Structure, TypeOK, Holding, BusyIsHeld, Holders, IsFree
<1>11. Fits'
  <2>1. \A h \in DOMAIN owned \ {n} : h \in Headers /\ owned[h].len <= GetSize(h)
    BY DEF IInv, Structure, TypeOK, Holding, Fits
  <2>2. \A h \in DOMAIN owned \ {n} : GetSize(h)' = GetSize(h)
    BY <1>6, <2>1 DEF GetSize
  <2>3. \A h \in DOMAIN owned' : owned'[h].len <= GetSize(h)'
    BY <1>3, <1>6, <1>7, <2>1, <2>2
  <2> QED
    BY <1>1, <2>3 DEF Fits
<1> QED
  BY <1>1, <1>6, <1>9, <1>10, <1>11 DEF IInv, Structure, Holding, CallOK, SearchOK

LEMMA StutterOK == IInv /\ UNCHANGED vars => IInv'
BY DEF vars, IInv, Structure, TypeOK, Tiled, Holding, BusyIsHeld, Fits, CallOK, SearchOK,
       Headers, NextOf, NodeEnd, GetSize, IsFree, Holders, Sound, Unfit

-----------------------------------------------------------------------------
(* Theorems *)

\* The strengthened invariant is one: every step of every client and of every
\* function keeps it, provided that no odd size is passed to GPAReallocate.
THEOREM Inductive == EvenReallocs => (Spec => []IInv)
<1>1. EvenReallocs /\ IInv /\ [Next]_vars => IInv'
  <2> SUFFICES ASSUME EvenReallocs, IInv, [Next]_vars PROVE IInv'
    OBVIOUS
  <2>1. CASE Client
    BY <2>1, AllocateOK, DeallocateOK, UseMisplacedOK, ReallocateInPlaceOK, ReallocateOK,
       DeinitOK DEF Client
  <2>2. CASE Running
    BY <2>2, FindSkipOK, FindForAllocateOK, FindForReallocateOK, OutOfMemoryOK,
       CoalesceStepOK, CoalesceEndOK, GrowExactOK, GrowSplitOK, GrowElsewhereOK, MoveOK
       DEF Running
  <2>3. CASE UNCHANGED vars
    BY <2>3, StutterOK
  <2> QED
    BY <2>1, <2>2, <2>3 DEF Next
<1> SUFFICES ASSUME EvenReallocs PROVE Spec => []IInv
  OBVIOUS
<1>2. IInv /\ [Next]_vars => IInv'
  BY <1>1
<1> QED
  BY <1>2, InitOK, PTL DEF Spec

\* The variables keep their types.
THEOREM TypeCorrect == EvenReallocs => (Spec => []TypeOK)
<1>1. IInv => TypeOK
  BY DEF IInv, Structure
<1> QED
  BY <1>1, Inductive, PTL

\* No byte of the arena is lost and no two nodes overlap, in the middle of a
\* coalescing loop as between two calls.
THEOREM NodesTileTheArena == EvenReallocs => (Spec => []Tiled)
<1>1. IInv => Tiled
  BY DEF IInv, Structure
<1> QED
  BY <1>1, Inductive, PTL

\* What a client holds is busy, and what is busy has a holder.
THEOREM NothingHeldIsFree == EvenReallocs => (Spec => []BusyIsHeld)
<1>1. IInv => BusyIsHeld
  BY DEF IInv, Holding
<1> QED
  BY <1>1, Inductive, PTL

\* Every client's bytes fit in its node.
THEOREM BlocksFit == EvenReallocs => (Spec => []Fits)
<1>1. IInv => Fits
  BY DEF IInv, Holding
<1> QED
  BY <1>1, Inductive, PTL

\* A request is refused only if every free node is smaller than it with one
\* alignment added and, where a block was to grow, nothing free is left behind it.
\* The alignment cannot be left out: a free node that holds the request, but not
\* what rounding makes of it, is passed over.
THEOREM RefusalsHaveCause == EvenReallocs => (Spec => []RefusedForCause)
<1>1. IInv => RefusedForCause
  <2>3. ASSUME IInv, call = "dead", node # NULL
        PROVE  GetSize(node) < bytes /\ (next[node] # NULL => ~IsFree(next[node]))
    BY <2>3 DEF IInv, SearchOK
  <2> SUFFICES ASSUME IInv, call = "dead", NEW h \in Headers, IsFree(h)
               PROVE  GetSize(h) < bytes + Alignment
    BY <2>3 DEF RefusedForCause
  <2>1. size[h] < AlignUp(bytes)
    BY DEF IInv, CallOK, SearchOK, Unfit
  <2>2. size[h] \in Nat /\ bytes \in Nat
    BY DEF IInv, Structure, TypeOK
  <2> QED
    <3>1. GetSize(h) \in Nat /\ GetSize(h) <= size[h]
      BY <2>2, Tags DEF GetSize
    <3>2. AlignUp(bytes) \in Nat /\ AlignUp(bytes) <= bytes + Alignment
      BY <2>2, AlignUpRounds
    <3>3. bytes + Alignment \in Nat
      BY <2>2, ConstantsOK
    <3> QED
      BY <2>1, <2>2, <3>1, <3>2, <3>3
<1> QED
  BY <1>1, Inductive, PTL

-----------------------------------------------------------------------------
(* The allocator is a pool of blocks: every step of Gpa hands out, takes back, *)
(* stretches or moves a block where no other is, or does nothing a client can   *)
(* see.                                                                         *)

At(h) == owned[h].at
Len(h) == owned[h].len
Addresses(S) == {At(h) : h \in S}

\* No two clients have the same address.
Apart == \A h, k \in DOMAIN owned : At(h) = At(k) => h = k

\* A block begins after its node does, and lies before its node ends.
LEMMA BlockInNode ==
  ASSUME IInv, call # "closed", NEW h \in DOMAIN owned
  PROVE  /\ h \in Headers /\ h \in Nat /\ At(h) \in {h, Data(h)} /\ At(h) \in Nat
         /\ Len(h) \in Nat /\ At(h) >= h /\ At(h) < NodeEnd(h)
         /\ At(h) + Len(h) <= NodeEnd(h) /\ NodeEnd(h) \in Nat
<1>1. h \in Headers /\ At(h) \in {h, Data(h)} /\ Len(h) \in Nat /\ Len(h) <= GetSize(h)
  BY DEF IInv, Structure, TypeOK, Holding, Fits, At, Len
<1>2. h \in Nat /\ GetSize(h) \in Nat /\ NodeEnd(h) \in Nat
  BY <1>1, NodesInside DEF IInv
<1>3. GetSize(h) > 0
  BY <1>1 DEF IInv, Structure, Tiled
<1> QED
  BY <1>1, <1>2, <1>3, ConstantsOK DEF NodeEnd, Data

\* A block in a node touches no block in another.
LEMMA RoomInNode ==
  ASSUME IInv, call # "closed", NEW n \in Headers, NEW a \in {n, Data(n)},
         NEW w \in Nat, w <= GetSize(n), NEW h \in DOMAIN owned, h # n
  PROVE  At(h) # a /\ (a + w <= At(h) \/ At(h) + Len(h) <= a)
<1>1. /\ h \in Headers /\ h \in Nat /\ At(h) \in Nat /\ Len(h) \in Nat
      /\ At(h) >= h /\ At(h) < NodeEnd(h)
      /\ At(h) + Len(h) <= NodeEnd(h) /\ NodeEnd(h) \in Nat
  BY BlockInNode
<1>2. n \in Nat /\ GetSize(n) \in Nat /\ NodeEnd(n) \in Nat
  BY NodesInside DEF IInv
<1>3. GetSize(n) > 0
  BY DEF IInv, Structure, Tiled
<1>4. a \in Nat /\ a >= n /\ a < NodeEnd(n) /\ a + w <= NodeEnd(n)
  BY <1>2, <1>3, ConstantsOK DEF NodeEnd, Data
<1>5. CASE h > n
  <2>1. h >= NodeEnd(n)
    BY <1>1, <1>5 DEF IInv, Structure, Tiled
  <2> QED
    BY <1>1, <1>2, <1>4, <2>1
<1>6. CASE n > h
  <2>1. n >= NodeEnd(h)
    BY <1>1, <1>6 DEF IInv, Structure, Tiled
  <2> QED
    BY <1>1, <1>2, <1>4, <2>1
<1> QED
  BY <1>1, <1>2, <1>5, <1>6

LEMMA InvApart == IInv /\ call # "closed" => Apart
<1> SUFFICES ASSUME IInv, call # "closed",
                    NEW h \in DOMAIN owned, NEW k \in DOMAIN owned, h # k
             PROVE  At(h) # At(k)
  BY DEF Apart
<1>1. k \in Headers /\ At(k) \in {k, Data(k)} /\ Len(k) \in Nat /\ Len(k) <= GetSize(k)
  BY BlockInNode DEF IInv, Holding, Fits, Len
<1> QED
  BY <1>1, RoomInNode

Open == call # "closed"

LEMMA InvApartNext == IInv' /\ call' # "closed" => Apart'
<1>1. IInv /\ Open => Apart
  BY InvApart DEF Open
<1>2. IInv' /\ Open' => Apart'
  BY <1>1, PTL
<1> QED
  BY <1>2 DEF Open

\* What clients see of a block is its address and its length.
LEMMA BlocksShow ==
  ASSUME Apart
  PROVE  /\ DOMAIN Blocks = Addresses(DOMAIN owned)
         /\ \A h \in DOMAIN owned : Blocks[At(h)] = Len(h)
<1>1. ASSUME NEW h \in DOMAIN owned
      PROVE  (CHOOSE k \in DOMAIN owned : owned[k].at = At(h)) = h
  <2>1. \A k \in DOMAIN owned : owned[k].at = At(h) => k = h
    BY DEF Apart, At
  <2> QED
    BY <2>1 DEF At
<1> QED
  BY <1>1 DEF Blocks, At, Len, Addresses

LEMMA BlocksShowNext ==
  ASSUME Apart'
  PROVE  /\ DOMAIN Blocks' = {owned'[h].at : h \in DOMAIN owned'}
         /\ \A h \in DOMAIN owned' : Blocks'[owned'[h].at] = owned'[h].len
<1>1. ASSUME NEW h \in DOMAIN owned'
      PROVE  (CHOOSE k \in DOMAIN owned' : owned'[k].at = owned'[h].at) = h
  <2>1. \A k \in DOMAIN owned' : owned'[k].at = owned'[h].at => k = h
    BY DEF Apart, At
  <2> QED
    BY <2>1
<1> QED
  BY <1>1 DEF Blocks

\* The room the pool asks for, for w bytes at a in node n.
LEMMA PoolRoom ==
  ASSUME IInv, call # "closed", NEW n \in Headers, NEW a \in {n, Data(n)},
         NEW w \in Nat, w <= GetSize(n),
         NEW S \in SUBSET (DOMAIN owned), n \notin S
  PROVE  a \in 0 .. End /\ Pool!Room(a, w, Addresses(S))
<1>1. n \in Nat /\ GetSize(n) \in Nat /\ NodeEnd(n) \in Nat /\ NodeEnd(n) <= End
  BY NodesInside DEF IInv
<1>2. a \in Nat /\ a + w <= End /\ a \in 0 .. End
  BY <1>1, ConstantsOK DEF NodeEnd, Data
<1>3. \A h \in S : /\ At(h) # a /\ (a + w <= At(h) \/ At(h) + Len(h) <= a)
                   /\ Blocks[At(h)] = Len(h)
  BY RoomInNode, BlocksShow, InvApart
<1> QED
  BY <1>2, <1>3 DEF Pool!Room, Addresses

\* The node a search stops at is nobody's and large enough.
LEMMA FoundFits ==
  ASSUME IInv, call = "find", NEW n \in Headers, ~Unfit(n)
  PROVE  bytes <= GetSize(n) /\ n \notin DOMAIN owned
<1>1. n \in Headers /\ size[n] \in Nat /\ bytes \in Nat
  BY DEF IInv, Structure, TypeOK
<1>2. IsFree(n) /\ size[n] >= AlignUp(bytes)
  BY <1>1, AlignUpRounds DEF Unfit
<1>3. n \notin DOMAIN owned
  BY <1>2 DEF IInv, Holding, BusyIsHeld, Holders
<1>4. Untagged(size[n]) \in Nat /\ (Untagged(size[n]) % 2) = 0 /\ size[n] = Untagged(size[n]) + 1
  BY <1>1, <1>2, Tags DEF IsFree
<1>5. \A a, b \in Nat : (a % 2) = 0 /\ (b % 2) = 0 /\ a <= b + 1 => a <= b
  OBVIOUS
<1> QED
  BY <1>1, <1>2, <1>3, <1>4, <1>5, AlignUpRounds DEF GetSize

-----------------------------------------------------------------------------
(* What the steps do to the blocks *)

\* A block given at a in node n, the ones of S kept.
LEMMA GiveShows ==
  ASSUME Apart, Apart', NEW S \in SUBSET (DOMAIN owned), NEW n, n \notin S, NEW a, NEW w,
         Give(n, a, w, S)
  PROVE  /\ Blocks' = [b \in DOMAIN Blocks' |-> Blocks'[b]]
         /\ DOMAIN Blocks' = Addresses(S) \cup {a}
         /\ Blocks'[a] = w
         /\ \A b \in Addresses(S) : Blocks'[b] = Blocks[b] /\ b # a
<1>1. /\ DOMAIN owned' = S \cup {n}
      /\ owned'[n].at = a /\ owned'[n].len = w
      /\ \A h \in S : owned'[h].at = At(h) /\ owned'[h].len = Len(h)
  BY DEF Give, Block, At, Len
<1>2. DOMAIN Blocks' = Addresses(S) \cup {a}
  <2>1. DOMAIN Blocks' = {owned'[h].at : h \in S \cup {n}}
    BY <1>1, BlocksShowNext
  <2>2. \A b : b \in {owned'[h].at : h \in S \cup {n}} <=> b \in Addresses(S) \cup {a}
    BY <1>1 DEF Addresses
  <2> QED
    BY <2>1, <2>2
<1>3. Blocks'[a] = w
  BY <1>1, BlocksShowNext
<1>4. \A h \in S : Blocks'[At(h)] = Blocks[At(h)] /\ At(h) # a
  <2> SUFFICES ASSUME NEW h \in S PROVE Blocks'[At(h)] = Blocks[At(h)] /\ At(h) # a
    OBVIOUS
  <2>1. Blocks'[At(h)] = Len(h)
    BY <1>1, BlocksShowNext
  <2>2. Blocks[At(h)] = Len(h)
    BY BlocksShow
  <2>3. h # n /\ owned'[h].at # owned'[n].at
    BY <1>1 DEF Apart, At
  <2> QED
    BY <1>1, <2>1, <2>2, <2>3
<1>5. Blocks' = [b \in DOMAIN Blocks' |-> Blocks'[b]]
  BY DEF Blocks
<1>6. \A b \in Addresses(S) : Blocks'[b] = Blocks[b] /\ b # a
  BY <1>4 DEF Addresses
<1> QED
  BY <1>2, <1>3, <1>5, <1>6

\* A block whose length alone changes.
LEMMA StretchShows ==
  ASSUME IInv, Apart, Apart', NEW n \in DOMAIN owned, NEW w \in Nat,
         owned' = [owned EXCEPT ![n].len = w]
  PROVE  Blocks' = [Blocks EXCEPT ![At(n)] = w]
<1>1. /\ DOMAIN owned' = DOMAIN owned
      /\ owned'[n].len = w /\ owned'[n].at = At(n)
      /\ \A h \in DOMAIN owned \ {n} : owned'[h].at = At(h) /\ owned'[h].len = Len(h)
  BY NewLength DEF At, Len
<1>2. DOMAIN Blocks' = DOMAIN Blocks /\ At(n) \in DOMAIN Blocks
  <2>1. DOMAIN Blocks' = {owned'[h].at : h \in DOMAIN owned}
    BY <1>1, BlocksShowNext
  <2>2. \A b : b \in {owned'[h].at : h \in DOMAIN owned} <=> b \in Addresses(DOMAIN owned)
    BY <1>1 DEF Addresses
  <2>3. DOMAIN Blocks = Addresses(DOMAIN owned)
    BY BlocksShow
  <2> QED
    BY <2>1, <2>2, <2>3 DEF Addresses
<1>3. Blocks'[At(n)] = w
  BY <1>1, BlocksShowNext
<1>4. \A h \in DOMAIN owned \ {n} : Blocks'[At(h)] = Blocks[At(h)]
  <2> SUFFICES ASSUME NEW h \in DOMAIN owned \ {n} PROVE Blocks'[At(h)] = Blocks[At(h)]
    OBVIOUS
  <2>1. Blocks'[At(h)] = Len(h)
    BY <1>1, BlocksShowNext
  <2>2. Blocks[At(h)] = Len(h)
    BY BlocksShow
  <2> QED
    BY <2>1, <2>2
<1>5. \A b \in DOMAIN Blocks : b # At(n) => Blocks'[b] = Blocks[b]
  BY <1>4, BlocksShow DEF Addresses
<1>6. /\ Blocks' = [b \in DOMAIN Blocks' |-> Blocks'[b]]
      /\ Blocks = [b \in DOMAIN Blocks |-> Blocks[b]]
  BY DEF Blocks
<1> QED
  BY <1>2, <1>3, <1>5, <1>6

-----------------------------------------------------------------------------
(* Every step is a step of the pool *)

LEMMA PoolInit == Init => Pool!Init
<1> SUFFICES ASSUME Init PROVE Blocks = [a \in {} |-> 0]
  BY DEF Pool!Init
<1>1. DOMAIN owned = {}
  BY DEF Init, NoBlocks
<1> QED
  BY <1>1 DEF Blocks

LEMMA AllocateHands ==
  ASSUME IInv, IInv', FindForAllocate
  PROVE  Pool!Next
<1>1. PICK n \in Headers : n = cur
  BY DEF IInv, Structure, TypeOK, FindForAllocate
<1>2. PICK w \in AllocSizes \cup ReallocSizes : w = bytes
  BY DEF IInv, CallOK, FindForAllocate
<1>3. w \in Nat /\ call = "find" /\ call' = "idle" /\ ~Unfit(n)
  BY <1>1, <1>2, ConstantsOK DEF FindForAllocate, Return
<1>4. w <= GetSize(n) /\ n \notin DOMAIN owned
  BY <1>1, <1>2, <1>3, FoundFits
<1>5. Give(n, Data(n), w, DOMAIN owned)
  BY <1>1, <1>2 DEF FindForAllocate
<1>6. Apart /\ Apart'
  BY <1>3, InvApart, InvApartNext
<1>7. Addresses(DOMAIN owned) = DOMAIN Blocks
  BY <1>6, BlocksShow
<1>8. Data(n) \in 0 .. End /\ Pool!Room(Data(n), w, DOMAIN Blocks)
  BY <1>3, <1>4, <1>7, PoolRoom
<1>9. Blocks' = [b \in DOMAIN Blocks \cup {Data(n)} |-> IF b = Data(n) THEN w ELSE Blocks[b]]
  <2>1. DOMAIN owned \in SUBSET (DOMAIN owned)
    OBVIOUS
  <2>2. /\ Blocks' = [b \in DOMAIN Blocks' |-> Blocks'[b]]
        /\ DOMAIN Blocks' = Addresses(DOMAIN owned) \cup {Data(n)}
        /\ Blocks'[Data(n)] = w
        /\ \A b \in Addresses(DOMAIN owned) : Blocks'[b] = Blocks[b] /\ b # Data(n)
    BY <1>4, <1>5, <1>6, <2>1, GiveShows
  <2> QED
    BY <1>7, <2>2
<1> QED
  BY <1>8, <1>9 DEF Pool!Next, Pool!Hand

LEMMA MoveRelocates ==
  ASSUME IInv, IInv', Move
  PROVE  Pool!Next
<1>1. PICK n \in DOMAIN owned : n = node
  BY DEF IInv, CallOK, Move, Sound
<1>2. PICK c \in Headers : c = cur /\ c \notin DOMAIN owned
  BY DEF IInv, CallOK, Move
<1>3. PICK w \in ReallocSizes : w = bytes
  BY DEF IInv, CallOK, Move
<1>4. w \in Nat /\ call = "move" /\ call' # "closed" /\ w <= GetSize(c)
  BY <1>2, <1>3, ConstantsOK DEF Move, DeallocateNode, Return, IInv, Holding, Fits
<1>5. Give(c, c, w, DOMAIN owned \ {n})
  BY <1>1, <1>2, <1>3 DEF Move, NewAddress
<1>6. Apart /\ Apart'
  BY <1>4, InvApart, InvApartNext
<1>7. /\ Addresses(DOMAIN owned) = DOMAIN Blocks
      /\ Addresses(DOMAIN owned \ {n}) = DOMAIN Blocks \ {At(n)}
      /\ At(n) \in DOMAIN Blocks
  BY <1>6, BlocksShow DEF Apart, Addresses
<1>8. c \in 0 .. End /\ Pool!Room(c, w, DOMAIN Blocks)
  BY <1>2, <1>4, <1>7, PoolRoom
<1>9. Blocks' = [b \in (DOMAIN Blocks \ {At(n)}) \cup {c} |-> IF b = c THEN w ELSE Blocks[b]]
  <2>1. c \notin DOMAIN owned \ {n} /\ DOMAIN owned \ {n} \in SUBSET (DOMAIN owned)
    BY <1>2
  <2>2. /\ Blocks' = [b \in DOMAIN Blocks' |-> Blocks'[b]]
        /\ DOMAIN Blocks' = Addresses(DOMAIN owned \ {n}) \cup {c}
        /\ Blocks'[c] = w
        /\ \A b \in Addresses(DOMAIN owned \ {n}) : Blocks'[b] = Blocks[b] /\ b # c
    BY <1>5, <1>6, <2>1, GiveShows
  <2> QED
    BY <1>7, <2>2
<1> QED
  BY <1>7, <1>8, <1>9 DEF Pool!Next, Pool!Relocate

\* A length that the node has room for.
LEMMA StretchStep ==
  ASSUME IInv, IInv', call # "closed", call' # "closed", NEW n \in DOMAIN owned,
         NEW w \in ReallocSizes, w <= GetSize(n), owned' = [owned EXCEPT ![n].len = w]
  PROVE  Pool!Next
<1>1. n \in Headers /\ At(n) \in {n, Data(n)} /\ w \in Nat
  BY BlockInNode, ConstantsOK
<1>2. Apart /\ Apart'
  BY InvApart, InvApartNext
<1>3. /\ Addresses(DOMAIN owned) = DOMAIN Blocks
      /\ Addresses(DOMAIN owned \ {n}) = DOMAIN Blocks \ {At(n)}
      /\ At(n) \in DOMAIN Blocks
  BY <1>2, BlocksShow DEF Apart, Addresses
<1>4. At(n) \in 0 .. End /\ Pool!Room(At(n), w, DOMAIN Blocks \ {At(n)})
  <2>1. n \notin DOMAIN owned \ {n} /\ DOMAIN owned \ {n} \in SUBSET (DOMAIN owned)
    OBVIOUS
  <2> QED
    BY <1>1, <1>3, <2>1, PoolRoom
<1>5. Blocks' = [Blocks EXCEPT ![At(n)] = w]
  BY <1>1, <1>2, StretchShows
<1> QED
  BY <1>3, <1>4, <1>5 DEF Pool!Next, Pool!Stretch

LEMMA InPlaceStretches ==
  ASSUME IInv, IInv', NEW n \in DOMAIN owned, NEW w \in ReallocSizes, ReallocateInPlace(n, w)
  PROVE  Pool!Next
<1>1. w <= GetSize(n)
  BY HeldSize DEF ReallocateInPlace
<1> QED
  BY <1>1, StretchStep DEF ReallocateInPlace

LEMMA GrowStretches ==
  ASSUME IInv, IInv', GrowExact \/ GrowSplit
  PROVE  Pool!Next
<1>1. call = "grow" /\ call' = "idle"
  BY DEF GrowExact, GrowSplit, Return
<1>2. PICK n \in DOMAIN owned : n = node /\ GetSize(n) \in Nat
  BY <1>1, GrowNode
<1>3. PICK w \in ReallocSizes : w = bytes /\ w \in Nat
  BY <1>1, GrowNode
<1>4. w <= GetSize(n) /\ owned' = [owned EXCEPT ![n].len = w]
  BY <1>2, <1>3 DEF GrowExact, GrowSplit
<1> QED
  BY <1>1, <1>4, StretchStep

LEMMA DeallocateTakesBack ==
  ASSUME IInv, IInv', NEW n \in DOMAIN owned, Deallocate(n)
  PROVE  Pool!Next
<1>1. call = "idle" /\ call' # "closed"
  BY DEF Deallocate, DeallocateNode, Return
<1>2. Apart /\ Apart'
  BY <1>1, InvApart, InvApartNext
<1>3. /\ DOMAIN owned' = DOMAIN owned \ {n}
      /\ \A h \in DOMAIN owned \ {n} : owned'[h].at = At(h) /\ owned'[h].len = Len(h)
  BY DEF Deallocate, At, Len
<1>4. /\ DOMAIN Blocks' = DOMAIN Blocks \ {At(n)} /\ At(n) \in DOMAIN Blocks
  <2>1. DOMAIN Blocks' = {owned'[h].at : h \in DOMAIN owned \ {n}}
    BY <1>2, <1>3, BlocksShowNext
  <2>2. \A b : b \in {owned'[h].at : h \in DOMAIN owned \ {n}}
               <=> b \in Addresses(DOMAIN owned \ {n})
    BY <1>3 DEF Addresses
  <2>3. DOMAIN Blocks = Addresses(DOMAIN owned)
    BY <1>2, BlocksShow
  <2>4. \A b : b \in Addresses(DOMAIN owned \ {n}) <=> b \in Addresses(DOMAIN owned) \ {At(n)}
    BY <1>2 DEF Apart, Addresses
  <2>5. At(n) \in Addresses(DOMAIN owned)
    BY DEF Addresses
  <2> QED
    BY <2>1, <2>2, <2>3, <2>4, <2>5
<1>5. \A h \in DOMAIN owned \ {n} : Blocks'[At(h)] = Blocks[At(h)]
  <2> SUFFICES ASSUME NEW h \in DOMAIN owned \ {n} PROVE Blocks'[At(h)] = Blocks[At(h)]
    OBVIOUS
  <2>1. Blocks'[At(h)] = Len(h)
    BY <1>2, <1>3, BlocksShowNext
  <2>2. Blocks[At(h)] = Len(h)
    BY <1>2, BlocksShow
  <2> QED
    BY <2>1, <2>2
<1>6. \A b \in DOMAIN Blocks' : Blocks'[b] = Blocks[b]
  BY <1>2, <1>4, <1>5, BlocksShow DEF Addresses
<1>7. Blocks' = [b \in DOMAIN Blocks' |-> Blocks'[b]]
  BY DEF Blocks
<1>8. Blocks' = [b \in DOMAIN Blocks \ {At(n)} |-> Blocks[b]]
  BY <1>4, <1>6, <1>7
<1> QED
  BY <1>4, <1>8 DEF Pool!Next, Pool!TakeBack

LEMMA DeinitCloses ==
  ASSUME Deinit
  PROVE  Pool!Next
<1>1. DOMAIN owned' = {}
  BY DEF Deinit, NoBlocks
<1>2. Blocks' = [a \in {} |-> 0]
  BY <1>1 DEF Blocks
<1> QED
  BY <1>2 DEF Pool!Next, Pool!Close

LEMMA Unseen ==
  ASSUME owned' = owned
  PROVE  Blocks' = Blocks
BY DEF Blocks

\* A step of the allocator is a step of the pool, or one no client sees.
LEMMA StepRefines ==
  ASSUME IInv, IInv', [Next]_vars
  PROVE  [Pool!Next]_Blocks
<1>1. CASE Client
  <2>1. CASE \E n \in AllocSizes \cup ReallocSizes : Allocate(n)
    BY <2>1, Unseen DEF Allocate
  <2>2. CASE \E h \in DOMAIN owned : UseMisplaced(h)
    BY <2>2, Unseen DEF UseMisplaced
  <2>3. CASE \E h \in DOMAIN owned, n \in ReallocSizes : Reallocate(h, n)
    BY <2>3, Unseen DEF Reallocate
  <2> QED
    BY <1>1, <2>1, <2>2, <2>3, DeallocateTakesBack, InPlaceStretches, DeinitCloses DEF Client
<1>2. CASE Running
  <2>1. CASE FindSkip \/ FindForReallocate \/ OutOfMemory \/ CoalesceStep \/ CoalesceEnd
             \/ GrowElsewhere
    BY <2>1, Unseen DEF FindSkip, FindForReallocate, OutOfMemory, CoalesceStep, CoalesceEnd,
                        GrowElsewhere
  <2> QED
    BY <1>2, <2>1, AllocateHands, MoveRelocates, GrowStretches DEF Running
<1>3. CASE UNCHANGED vars
  BY <1>3, Unseen DEF vars
<1> QED
  BY <1>1, <1>2, <1>3 DEF Next

-----------------------------------------------------------------------------
(* Theorem *)

\* Clients see a pool of blocks that never overlap and never leave the arena,
\* whatever the allocator searches, splits and coalesces to provide them.
THEOREM PoolRefined == EvenReallocs => (Spec => ImplementsPool)
<1> SUFFICES ASSUME EvenReallocs PROVE Spec => ImplementsPool
  OBVIOUS
<1>1. Spec => []IInv
  BY Inductive
<1>2. IInv /\ IInv' /\ [Next]_vars => [Pool!Next]_Blocks
  BY StepRefines
<1> QED
  BY <1>1, <1>2, PoolInit, PTL DEF Spec, ImplementsPool, Pool!Spec
=============================================================================
