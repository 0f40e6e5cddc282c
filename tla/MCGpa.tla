-------------------------------- MODULE MCGpa --------------------------------
(* Gpa on an arena of a few nodes.  Sizes that are no multiple of the           *)
(* alignment make the rounding and the unaligned split of GPAReallocate visible. *)
EXTENDS Gpa

MCAllocSizes == {1, 40}
MCReallocSizes == {50, 64}
MCOddReallocSizes == {33}
=============================================================================
