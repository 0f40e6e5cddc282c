-------------------------------- MODULE Vartab --------------------------------
(***************************************************************************)
(* The identifier table of src/src/Vartab.c: open addressing with linear   *)
(* probing, tombstones, and a resize at three quarters.                    *)
(*                                                                         *)
(* A name stands for all the spellings that differ in case only: both      *)
(* VartabHashStr and TokenEqualNoCase ignore it.  Its entry (Type, Line,   *)
(* Location) is one abstract value.  Each C function is one step: nothing  *)
(* runs between its lines.                                                 *)
(* EmptyTableOneMore, SlotsButLast, AlwaysCounts and Wiped are not part of *)
(* the model: they are wrong versions of the definition that follows them. *)
(***************************************************************************)
EXTENDS Integers, FiniteSets, FiniteSetsExt

CONSTANTS
  Names,        \* the identifiers
  Entries,      \* what a name can be bound to
  HashOf,       \* VartabHashStr: name (and Tombstone, the empty name) |-> Nat
  InitialCap,   \* VartabInit's argument, a power of two for every caller
  MaxCap,       \* bound: no resize goes beyond it
  Tombstone,    \* the slot of a deleted name: Len is 0, Str is not NULL
  NoName        \* the slot of no name at all: IS_EMPTY

ASSUME TableAssumption ==
  /\ Tombstone \notin Names /\ NoName \notin Names \cup {Tombstone}
  /\ HashOf \in [Names \cup {Tombstone} -> Nat]
  /\ InitialCap \in Nat \ {0} /\ MaxCap \in Nat
  /\ Entries # {}

VARIABLES
  cap, count,   \* Vartab->Cap, Vartab->Count
  table,        \* slot |-> [name, entry]
  defined       \* ghost: what the calls so far have bound each name to

vars == <<cap, count, table, defined>>

Slot(n, e) == [name |-> n, entry |-> e]
AnyEntry == CHOOSE e \in Entries : TRUE
EmptySlot == Slot(NoName, AnyEntry)
EmptyTableOneMore(c) == [i \in 0 .. c |-> EmptySlot]
EmptyTable(c) == [i \in 0 .. c - 1 |-> EmptySlot]
IsLive(s) == s.name \in Names            \* neither IS_EMPTY nor IS_TOMBSTONED

-----------------------------------------------------------------------------
(* VartabFindValidSlot: the slot of the name, or else the first tombstone    *)
(* passed on the way to the first empty slot, or else that slot; NoSlot, and *)
(* the process dies, if a whole lap shows neither name nor empty slot.       *)

NoSlot == -1

Probe(n, c, i) == (HashOf[n] + i) % c

FindValidSlot(t, c, n) ==
  LET seen(i) == t[Probe(n, c, i)].name
      stops == {i \in 0 .. c - 1 : seen(i) \in {n, NoName}}
      last == Min(stops)
      graves == {i \in 0 .. last : seen(i) = Tombstone}
  IN  IF stops = {} THEN NoSlot
      ELSE IF seen(last) = n \/ graves = {} THEN Probe(n, c, last)
      ELSE Probe(n, c, Min(graves))

\* VartabFindWithHash: the entry in an otherwise empty set, or none for NULL.
Lookup(n) ==
  LET i == FindValidSlot(table, cap, n) IN
  IF i # NoSlot /\ IsLive(table[i]) THEN {table[i].entry} ELSE {}

-----------------------------------------------------------------------------
(* VartabSet and VartabResize, on a table as a value *)

Tab(c, k, t) == [cap |-> c, count |-> k, table |-> t]

ExceededMaxLoad(v) == v.count + 1 > (v.cap * 3) \div 4

\* The new table is probed with the old Cap.
ProbeCap(oldCap, newCap) == oldCap

SlotsButLast(v) == v.cap - 1
SlotsToCopy(v) == v.cap

Resize(v) ==
  LET new == 2 * v.cap
      \* the table after the first i slots were copied
      rebuilt[i \in 0 .. v.cap] ==
        IF i = 0 THEN EmptyTable(new)
        ELSE LET t == rebuilt[i - 1]  s == v.table[i - 1] IN
             IF IsLive(s)
             THEN [t EXCEPT ![FindValidSlot(t, ProbeCap(v.cap, new), s.name)] = s]
             ELSE t
  IN  Tab(new, Cardinality({i \in 0 .. v.cap - 1 : IsLive(v.table[i])}), rebuilt[SlotsToCopy(v)])

\* A tombstone taken over was counted when its slot was first used.
AlwaysCounts(s) == TRUE
CountsAsNew(s) == s.name = NoName

Put(v, n, e) ==
  LET w == IF ExceededMaxLoad(v) THEN Resize(v) ELSE v
      i == FindValidSlot(w.table, w.cap, n)
  IN  Tab(w.cap, w.count + (IF CountsAsNew(w.table[i]) THEN 1 ELSE 0),
          [w.table EXCEPT ![i] = Slot(n, e)])

Current == Tab(cap, count, table)

Become(v) == cap' = v.cap /\ count' = v.count /\ table' = v.table

-----------------------------------------------------------------------------
Init ==
  /\ cap = InitialCap /\ count = 0 /\ table = EmptyTable(InitialCap)
  /\ defined = [n \in {} |-> AnyEntry]

WithinBound == ExceededMaxLoad(Current) => 2 * cap <= MaxCap

Set(n, e) ==
  /\ WithinBound
  /\ Become(Put(Current, n, e))
  /\ defined' = [m \in DOMAIN defined \cup {n} |-> IF m = n THEN e ELSE defined[m]]

\* SET_TOMBSTONE clears the length and nothing else.
Wiped(s) == EmptySlot
Grave(s) == Slot(Tombstone, AnyEntry)

\* VartabDelete; a name that is not found changes nothing.
Delete(n) ==
  LET i == FindValidSlot(table, cap, n) IN
  /\ i # NoSlot /\ IsLive(table[i])
  /\ table' = [table EXCEPT ![i] = Grave(table[i])]
  /\ defined' = [m \in DOMAIN defined \ {n} |-> defined[m]]
  /\ UNCHANGED <<cap, count>>

Reset ==
  /\ count' = 0 /\ table' = EmptyTable(cap)
  /\ defined' = [n \in {} |-> AnyEntry]
  /\ UNCHANGED cap

\* VartabClone, by which the compiler takes over its host's names: every slot
\* that is not empty, graves included, is set again in a table of the same Cap.
Clone ==
  LET copied[i \in 0 .. cap] ==
        IF i = 0 THEN Tab(cap, 0, EmptyTable(cap))
        ELSE IF table[i - 1].name = NoName THEN copied[i - 1]
        ELSE Put(copied[i - 1], table[i - 1].name, table[i - 1].entry)
  IN  Become(copied[cap]) /\ UNCHANGED defined

Next ==
  \/ \E n \in Names, e \in Entries : Set(n, e)
  \/ \E n \in Names : Delete(n)
  \/ Reset
  \/ Clone

Spec == Init /\ [][Next]_vars

-----------------------------------------------------------------------------
(* Properties *)

Grown == cap > InitialCap

\* Slots hold names, graves or nothing, and the ghost binds names.
TypeOK ==
  /\ cap \in Nat /\ count \in 0 .. cap
  /\ table \in [0 .. cap - 1 -> [name : Names \cup {Tombstone, NoName}, entry : Entries]]
  /\ DOMAIN defined \subseteq Names
  /\ \A n \in DOMAIN defined : defined[n] \in Entries

UsedSlots == {i \in 0 .. cap - 1 : table[i].name # NoName}

\* Count counts the slots that are not empty (graves included: taking one over
\* does not add to it, digging one does not take from it); a second resize may
\* find a name in two slots and count it twice, but never counts too little. So
\* the load limit leaves an empty slot: no probe goes round for ever or dies of
\* "Table does not contain".
CountIsUsedSlots ==
  /\ Cardinality(UsedSlots) <= count /\ count < cap
  /\ cap <= 2 * InitialCap => count = Cardinality(UsedSlots)

\* Looking a name up gives what it was last set to, or nothing if it never was
\* or was deleted since, whatever was set, deleted and cloned in between: as
\* long as the table has its first size.
LookupsAgree ==
  ~Grown => \A n \in Names :
    Lookup(n) = IF n \in DOMAIN defined THEN {defined[n]} ELSE {}

\* A resize drops no entry: every bound name is in some slot, even where no
\* probe finds it any more.
EntriesSurvive ==
  DOMAIN defined \subseteq {table[i].name : i \in 0 .. cap - 1}

\* "Find the entry that has the given key and hash, returns NULL if no such
\* entry exists" (Vartab.h).
FindReturnsTheEntry == \A n \in DOMAIN defined : Lookup(n) # {}
=============================================================================
