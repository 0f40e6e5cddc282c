------------------------------- MODULE MCVartab -------------------------------
(* Vartab with names that collide, that wrap round the end of the table and      *)
(* that differ only in the bits a larger table looks at.                         *)
EXTENDS Vartab, TLC

CONSTANTS a, b, c, d

MCNames == {a, b, c, d}
MCHashOf == a :> 3 @@ b :> 3 @@ c :> 7 @@ d :> 8 @@ Tombstone :> 6
=============================================================================
