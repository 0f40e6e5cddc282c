------------------------------ MODULE BlockPool ------------------------------
(***************************************************************************)
(* What an allocator promises its clients, with no free list, no headers   *)
(* and no search: a set of blocks, each an address and a length, which     *)
(* never overlap and never leave the arena.  Gpa.tla implements it.        *)
(***************************************************************************)
EXTENDS Integers

CONSTANTS
  Limit,      \* one past the last byte of the arena
  Lengths     \* the lengths, in bytes, clients ask for

VARIABLE blocks   \* function: address of a handed-out block |-> its length

Room(a, n, others) ==
  /\ a + n <= Limit
  /\ \A b \in others : b # a /\ (a + n <= b \/ b + blocks[b] <= a)

Init == blocks = [a \in {} |-> 0]

\* A new block, anywhere it touches no other.
Hand(a, n) ==
  /\ Room(a, n, DOMAIN blocks)
  /\ blocks' = [b \in DOMAIN blocks \cup {a} |-> IF b = a THEN n ELSE blocks[b]]

TakeBack(a) ==
  /\ a \in DOMAIN blocks
  /\ blocks' = [b \in DOMAIN blocks \ {a} |-> blocks[b]]

\* The block keeps its place and changes its length ...
Stretch(a, n) ==
  /\ a \in DOMAIN blocks
  /\ Room(a, n, DOMAIN blocks \ {a})
  /\ blocks' = [blocks EXCEPT ![a] = n]

\* ... or moves; the old place stays untouched until the copy is done.
Relocate(a, c, n) ==
  /\ a \in DOMAIN blocks
  /\ Room(c, n, DOMAIN blocks)
  /\ blocks' = [b \in (DOMAIN blocks \ {a}) \cup {c} |->
                   IF b = c THEN n ELSE blocks[b]]

Close == blocks' = [a \in {} |-> 0]

Next ==
  \/ \E a \in 0 .. Limit, n \in Lengths : Hand(a, n) \/ Stretch(a, n)
  \/ \E a \in DOMAIN blocks : TakeBack(a)
  \/ \E a \in DOMAIN blocks, c \in 0 .. Limit, n \in Lengths : Relocate(a, c, n)
  \/ Close

Spec == Init /\ [][Next]_blocks
=============================================================================
