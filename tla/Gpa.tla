--------------------------------- MODULE Gpa ---------------------------------
(***************************************************************************)
(* The general purpose allocator of src/src/Memory.c.  One arena, carved   *)
(* into nodes that follow each other in memory; a node is a header and the *)
(* bytes after it.  The low bit of a header's Size says that the node is   *)
(* free, so it is kept inside the number here too.                         *)
(*                                                                         *)
(* An address is a byte offset from Mem.Raw.  The C functions are cut at   *)
(* their loops: one step per iteration, so that the search and the         *)
(* coalescing loop can be reasoned about without recursion.  `call' says   *)
(* which function is running; nothing else happens until it returns.       *)
(* The Prev links are written by the code but never read, and left out.    *)
(* The definitions named *Down, *IfLarger, *Untagged, *WithoutHeader,      *)
(* *WithHeader, *DataOnly and StayAt are not part of the model: they are   *)
(* wrong versions of their neighbours, which the properties must notice.   *)
(***************************************************************************)
EXTENDS Integers

CONSTANTS
  InitialCap,      \* GPAInit's argument
  HeaderSize,      \* sizeof(GPAHeader): 32 where LargeType is 16 bytes
  Alignment,       \* PASCAL_MEM_ALIGNMENT = sizeof(LargeType)
  AllocSizes,      \* the ByteCounts clients pass to GPAAllocate
  ReallocSizes,    \* the NewSizes clients pass to GPAReallocate
  CoalesceOnFree   \* GPA->CoalesceOnFree (every allocator of the program sets it)

ASSUME ArenaAssumption ==
  /\ InitialCap \in Nat /\ InitialCap > 1
  /\ HeaderSize \in Nat \ {0} /\ (HeaderSize % 2) = 0
  /\ Alignment \in Nat \ {0} /\ (Alignment % 2) = 0

ASSUME SizesAssumption ==
  /\ AllocSizes \subseteq Nat
  /\ ReallocSizes \subseteq Nat \ {0}   \* GPAReallocate asserts 0 != NewSize
  /\ CoalesceOnFree \in BOOLEAN

VARIABLES
  size,    \* header address |-> Size, free tag included; the DOMAIN is the node list
  next,    \* header address |-> Next
  owned,   \* ghost: header of a block a client holds |-> [at, len]: the address
           \* the client was given, and the bytes it asked for
  call,    \* the function in progress
  node,    \* its PtrHeader, or NULL
  cur,     \* its cursor: Node in the search, Next in the coalescing loop
  bytes    \* its ByteCount or NewSize

heap == <<size, next>>
vars == <<size, next, owned, call, node, cur, bytes>>

NULL == -1
Head == 0
MinCapacity == HeaderSize + Alignment                    \* GPA_MIN_CAPACITY
End == HeaderSize + (InitialCap - (InitialCap % 2))

Headers == DOMAIN size
Data(h) == h + HeaderSize       \* Header->Data; GET_HEADER goes back

Block(a, n) == [at |-> a, len |-> n]
NoBlocks == [h \in {} |-> Block(0, 0)]

-----------------------------------------------------------------------------
(* The free tag *)

IsFreeSize(s) == (s % 2) = 1
Untagged(s) == s - (s % 2)
SetFreeTag(s) == Untagged(s) + 1
IsFree(h) == IsFreeSize(size[h])
GetSize(h) == Untagged(size[h])

\* (ByteCount + PASCAL_MEM_ALIGNMENT) & ~(PASCAL_MEM_ALIGNMENT - 1)
AlignDown(n) == (n \div Alignment) * Alignment
AlignUp(n) == ((n + Alignment) \div Alignment) * Alignment

-----------------------------------------------------------------------------
Init ==
  /\ size = [h \in {Head} |-> SetFreeTag(InitialCap)]
  /\ next = [h \in {Head} |-> NULL]
  /\ owned = NoBlocks
  /\ call = "idle" /\ node = NULL /\ cur = NULL /\ bytes = 0

Return == call' = "idle" /\ node' = NULL /\ cur' = NULL /\ bytes' = 0

Give(h, a, n, others) ==
  owned' = [k \in others \cup {h} |-> IF k = h THEN Block(a, n) ELSE owned[k]]

\* GPASplitNode on node n, whose Size is s and whose Next is nx: the first w
\* bytes become the returned node, the rest a free one, if it is worth a node.
DivisibleIfLarger(s, w) == s >= w
Divisible(s, w) == s >= w + HeaderSize + MinCapacity

RestUntagged(s, w) == Untagged(s) - w - HeaderSize
RestWithoutHeader(s, w) == SetFreeTag(Untagged(s) - w)
Rest(s, w) == SetFreeTag(Untagged(s) - w - HeaderSize)

SplitNode(n, s, nx, w) ==
  LET other == Data(n) + w IN
  \/ /\ Divisible(s, w)
     /\ size' = [h \in Headers \cup {other} |->
                   IF h = n THEN w ELSE IF h = other THEN Rest(s, w) ELSE size[h]]
     /\ next' = [h \in Headers \cup {other} |->
                   IF h = n THEN other ELSE IF h = other THEN nx ELSE next[h]]
  \/ /\ ~Divisible(s, w)
     /\ size' = [size EXCEPT ![n] = Untagged(s)]
     /\ next' = [next EXCEPT ![n] = nx]

-----------------------------------------------------------------------------
(* GPAAllocate and the search of GPAFindFreeNode *)

Allocate(n) ==
  /\ call = "idle"
  /\ call' = "find" /\ bytes' = n /\ cur' = Head /\ node' = NULL
  /\ UNCHANGED <<heap, owned>>

UnfitWithHeader(h) == size[h] < AlignUp(bytes) + HeaderSize \/ ~IsFree(h)
Unfit(h) == size[h] < AlignUp(bytes) \/ ~IsFree(h)

StayAt(h) == h
Advance(h) == next[h]

FindSkip ==
  /\ call = "find" /\ cur # NULL /\ Unfit(cur)
  /\ cur' = Advance(cur)
  /\ UNCHANGED <<heap, owned, call, node, bytes>>

\* Found for GPAAllocate, which returns it ...
FindForAllocate ==
  /\ call = "find" /\ cur # NULL /\ ~Unfit(cur) /\ node = NULL
  /\ SplitNode(cur, size[cur], next[cur], AlignUp(bytes))
  /\ Give(cur, Data(cur), bytes, DOMAIN owned)
  /\ Return

\* ... or for GPAReallocate, which copies next.
FindForReallocate ==
  /\ call = "find" /\ cur # NULL /\ ~Unfit(cur) /\ node # NULL
  /\ SplitNode(cur, size[cur], next[cur], AlignUp(bytes))
  /\ call' = "move"
  /\ UNCHANGED <<owned, node, cur, bytes>>

\* PASCAL_UNREACHABLE("Out of memory"): the process dies.
OutOfMemory ==
  /\ call = "find" /\ cur = NULL
  /\ call' = "dead"
  /\ UNCHANGED <<heap, owned, node, cur, bytes>>

-----------------------------------------------------------------------------
(* GPADeallocate, and the GPADeallocateNode both callers share *)

DeallocateNode(h) ==
  /\ size' = [size EXCEPT ![h] = SetFreeTag(@)]
  /\ next' = next
  /\ IF CoalesceOnFree
     THEN call' = "coalesce" /\ node' = h /\ cur' = next[h] /\ bytes' = 0
     ELSE Return

\* Blocks whose address is the one GET_HEADER expects.
Sound == {h \in DOMAIN owned : owned[h].at = Data(h)}

Deallocate(h) ==
  /\ call = "idle" /\ h \in Sound
  /\ DeallocateNode(h)
  /\ owned' = [k \in DOMAIN owned \ {h} |-> owned[k]]

\* memcpy(NewPtr->Data, Ptr, PtrHeader->Size), then the old node goes and the
\* client is given NewPtr: the new node's header, not its Data.
NewAddress(h) == h

Move ==
  /\ call = "move"
  /\ DeallocateNode(node)
  /\ Give(cur, NewAddress(cur), bytes, DOMAIN owned \ {node})

\* One iteration of GPACoalesceNode's loop: the next node is consumed.
AbsorbDataOnly(h, k) == size[h] + GetSize(k)
Absorb(h, k) == size[h] + GetSize(k) + HeaderSize

CoalesceStep ==
  /\ call \in {"coalesce", "grow"} /\ cur # NULL /\ IsFree(cur)
  /\ size' = [h \in Headers \ {cur} |-> IF h = node THEN Absorb(node, cur) ELSE size[h]]
  /\ next' = [h \in Headers \ {cur} |-> next[h]]
  /\ cur' = next[cur]
  /\ UNCHANGED <<owned, call, node, bytes>>

CoalesceLoopDone == cur # NULL => ~IsFree(cur)

CoalesceEnd ==
  /\ call = "coalesce" /\ CoalesceLoopDone
  /\ next' = [next EXCEPT ![node] = cur]
  /\ Return
  /\ UNCHANGED <<size, owned>>

-----------------------------------------------------------------------------
(* GPAReallocate *)

ReallocateInPlace(h, n) ==
  /\ call = "idle" /\ h \in Sound /\ n <= size[h]
  /\ owned' = [owned EXCEPT ![h].len = n]
  /\ UNCHANGED <<heap, call, node, cur, bytes>>

Reallocate(h, n) ==
  /\ call = "idle" /\ h \in Sound /\ n > size[h]
  /\ call' = "grow" /\ node' = h /\ cur' = next[h] /\ bytes' = n
  /\ UNCHANGED <<heap, owned>>

\* The coalesced node has exactly NewSize bytes ...
GrowExact ==
  /\ call = "grow" /\ CoalesceLoopDone /\ GetSize(node) = bytes
  /\ next' = [next EXCEPT ![node] = cur]
  /\ owned' = [owned EXCEPT ![node].len = bytes]
  /\ Return
  /\ UNCHANGED size

\* ... or more: it is tagged free and split at NewSize, which is not aligned ...
GrowSplit ==
  /\ call = "grow" /\ CoalesceLoopDone /\ GetSize(node) > bytes
  /\ SplitNode(node, SetFreeTag(size[node]), cur, bytes)
  /\ owned' = [owned EXCEPT ![node].len = bytes]
  /\ Return

\* ... or still too few: another node is searched for.
GrowElsewhere ==
  /\ call = "grow" /\ CoalesceLoopDone /\ GetSize(node) < bytes
  /\ next' = [next EXCEPT ![node] = cur]
  /\ call' = "find" /\ cur' = Head
  /\ UNCHANGED <<size, owned, node, bytes>>

\* GPADeinit: the arena goes, and every block in it.
Deinit ==
  /\ call = "idle"
  /\ call' = "closed"
  /\ size' = [h \in {} |-> 0] /\ next' = [h \in {} |-> 0] /\ owned' = NoBlocks
  /\ UNCHANGED <<node, cur, bytes>>

\* A client that was given a header's own address fills its block, or passes the
\* address back: the list is overwritten, or GET_HEADER finds no header.  What
\* follows is undefined, and nothing is said of it.
UseMisplaced(h) ==
  /\ call = "idle" /\ h \in DOMAIN owned \ Sound
  /\ call' = "undefined"
  /\ UNCHANGED <<heap, owned, node, cur, bytes>>

-----------------------------------------------------------------------------
\* GPAReallocate of NULL is GPAAllocate.
Client ==
  \/ \E n \in AllocSizes \cup ReallocSizes : Allocate(n)
  \/ \E h \in DOMAIN owned : Deallocate(h)
  \/ \E h \in DOMAIN owned : UseMisplaced(h)
  \/ \E h \in DOMAIN owned, n \in ReallocSizes : ReallocateInPlace(h, n)
  \/ \E h \in DOMAIN owned, n \in ReallocSizes : Reallocate(h, n)
  \/ Deinit

\* The steps of a function that has been called.
Running ==
  \/ FindSkip \/ FindForAllocate \/ FindForReallocate \/ OutOfMemory
  \/ CoalesceStep \/ CoalesceEnd
  \/ GrowExact \/ GrowSplit \/ GrowElsewhere \/ Move

Next == Client \/ Running

Spec == Init /\ [][Next]_vars

\* A called function runs on; whether clients call is up to them.
FairSpec == Spec /\ WF_vars(Running)

-----------------------------------------------------------------------------
(* Properties *)

\* Every realloc size the program asks for is even, with one exception
\* (ChunkWriteGlobalData); the invariants below need it.
EvenReallocs == \A n \in ReallocSizes : (n % 2) = 0

\* While a node swallows its successors, its Next is the loop's cursor: the
\* code stores it when the loop ends.
NextOf(h) == IF call \in {"coalesce", "grow"} /\ h = node THEN cur ELSE next[h]

NodeEnd(h) == Data(h) + GetSize(h)

Holders == DOMAIN owned \cup (IF call = "move" THEN {cur} ELSE {})

InCall == {"find", "coalesce", "grow", "move"}
Stopped == {"closed", "dead", "undefined"}

\* The variables have the types their uses expect: a busy or free node list, the
\* cursor of a running function on a node of that list.
TypeOK ==
  /\ Headers \subseteq 0 .. End /\ DOMAIN next = Headers
  /\ \A h \in Headers : size[h] \in Nat /\ NextOf(h) \in Headers \cup {NULL}
  /\ DOMAIN owned \subseteq Headers
  /\ \A h \in DOMAIN owned : owned[h] \in [at : {h, Data(h)}, len : Nat]
  /\ call \in {"idle"} \cup InCall \cup Stopped
  /\ node \in Headers \cup {NULL} /\ cur \in Headers \cup {NULL} /\ bytes \in Nat

\* The nodes tile the arena: following Next from the head, each node begins where
\* the one before it ends and the last ends with the arena, so that no split or
\* coalescing loses a byte or lets two nodes overlap.
Tiled ==
  call # "closed" =>
    /\ Head \in Headers
    /\ \A h \in Headers :
         /\ GetSize(h) > 0
         /\ NextOf(h) = NULL => NodeEnd(h) = End
         /\ NextOf(h) # NULL => NextOf(h) = NodeEnd(h)
         /\ \A k \in Headers : k > h => k >= NodeEnd(h)

\* A node is busy exactly when a client holds it (or is about to): nothing
\* handed out can be found by a search or swallowed by a neighbour, and nothing
\* given back stays lost.
BusyIsHeld == \A h \in Headers : IsFree(h) <=> h \notin Holders

\* A client may write every byte it asked for without leaving its node, and the
\* copy of a relocation fits in the node it goes to.
Fits ==
  /\ \A h \in DOMAIN owned : owned[h].len <= GetSize(h)
  /\ call = "move" => size[node] <= GetSize(cur) /\ bytes <= GetSize(cur)

\* What a request that kills the process has in its way: no free node would hold it
\* with one alignment more (rounding up asks for at most that), and a block that was
\* to grow has first taken every free node behind it and is still too small.  One
\* alignment cannot be left out: a request that is a multiple of it is rounded up to
\* the next one, and a free node of exactly its bytes is passed over.
RefusedForCause ==
  call = "dead" =>
    /\ \A h \in Headers : IsFree(h) => GetSize(h) < bytes + Alignment
    /\ node # NULL => /\ GetSize(node) < bytes
                      /\ next[node] # NULL => ~IsFree(next[node])

\* Every call returns (or the process dies): the search and the coalescing loop
\* end, whatever the list looks like.
CallsReturn == (call \in InCall) ~> (call \notin InCall)

\* "this function acts like realloc" (Memory.h, of MemReallocate, which calls
\* GPAReallocate): the address given back is where the bytes were copied to.
ActsLikeRealloc == \A h \in DOMAIN owned : owned[h].at = Data(h)

\* "returns a splitted node and set it to be not freed" (Memory.c).
SplitNodeIsNotFreed == \A h \in DOMAIN owned : ~IsFree(h)



\* What clients see of the heap, and the promise it keeps.
Blocks ==
  [a \in {owned[h].at : h \in DOMAIN owned} |->
     LET h == CHOOSE k \in DOMAIN owned : owned[k].at = a IN owned[h].len]

Pool == INSTANCE BlockPool WITH
  Limit <- End, Lengths <- AllocSizes \cup ReallocSizes, blocks <- Blocks

\* Clients see a pool of blocks that never overlap or leave the arena.
ImplementsPool == Pool!Spec

=============================================================================
