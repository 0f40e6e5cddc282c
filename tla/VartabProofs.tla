----------------------------- MODULE VartabProofs -----------------------------
(***************************************************************************)
(* The identifier table for every instance of Vartab: any first size, any  *)
(* names and hashes, any number of resizes and clones.  Linear probing     *)
(* finds a name as long as nothing on its way is empty (PathOK), and it    *)
(* always comes to an end as long as something is (Good).                  *)
(***************************************************************************)
EXTENDS Vartab, FiniteSetTheorems, WellFoundedInduction, TLAPS

Keys == Names \cup {Tombstone}
Slots == [name : Keys \cup {NoName}, entry : Entries]
Caps == Nat \ {0}
TableOf(c) == [0 .. c - 1 -> Slots]

-----------------------------------------------------------------------------
(* Numbers *)

\* A set of natural numbers that is not empty has a least one, which is its Min.
LEMMA LeastIn ==
  ASSUME NEW S, S \subseteq Nat, S # {}
  PROVE  Min(S) \in S /\ \A i \in S : Min(S) <= i
<1>1. PICK k \in S : \A i \in S : ~ (<<i, k>> \in OpToRel(<, Nat))
  BY WFMin, NatLessThanWellFounded, Zenon
<1>2. \A i \in S : ~ (i < k)
  BY <1>1, Zenon DEF OpToRel
<1>3. \A i \in S : k <= i
  BY <1>2
<1> QED
  BY <1>3 DEF Min

\* What holds at first and from each number to the next holds to the end.
LEMMA UpTo ==
  ASSUME NEW n \in Nat, NEW S, 0 \in S, \A i \in 1 .. n : i - 1 \in S => i \in S
  PROVE  n \in S
<1> DEFINE Bad == {k \in 0 .. n : k \notin S}
<1>1. SUFFICES ASSUME Bad # {} PROVE FALSE
  OBVIOUS
<1>2. Bad \subseteq Nat
  OBVIOUS
<1>3. PICK k \in Bad : \A i \in Bad : k <= i
  <2> HIDE DEF Bad
  <2> QED
    BY <1>1, <1>2, LeastIn
<1>4. k \in 1 .. n /\ k \notin S
  OBVIOUS
<1>5. k - 1 \in 0 .. n /\ ~ (k <= k - 1)
  BY <1>4
<1>6. k - 1 \notin Bad
  BY <1>3, <1>5
<1> QED
  BY <1>4, <1>5, <1>6

\* The remainder is the number itself below c, and a turn of c changes nothing.
LEMMA Remainder ==
  ASSUME NEW c \in Caps, NEW q \in Nat, NEW r \in 0 .. c - 1
  PROVE  (q * c + r) % c = r
BY DEF Caps

LEMMA Quotient ==
  ASSUME NEW c \in Caps, NEW a \in Nat
  PROVE  \E q \in Nat, r \in 0 .. c - 1 : a = q * c + r
<1>1. a \div c \in Nat /\ a % c \in 0 .. c - 1
  BY DEF Caps
<1>2. a = (a \div c) * c + (a % c)
  BY DEF Caps
<1> QED
  BY <1>1, <1>2

LEMMA ProbeIn ==
  ASSUME NEW n \in Keys, NEW c \in Caps, NEW i \in Nat
  PROVE  Probe(n, c, i) \in 0 .. c - 1
<1>1. PICK a \in Nat : a = HashOf[n] + i
  BY TableAssumption DEF Keys
<1>2. a % c \in 0 .. c - 1
  BY DEF Caps
<1> QED
  BY <1>1, <1>2 DEF Probe

\* A lap visits every slot.
LEMMA ProbeHits ==
  ASSUME NEW n \in Keys, NEW c \in Caps, NEW s \in 0 .. c - 1
  PROVE  \E i \in 0 .. c - 1 : Probe(n, c, i) = s
<1>1. PICK h \in Nat : h = HashOf[n]
  BY TableAssumption DEF Keys
<1>2. PICK q \in Nat, r \in 0 .. c - 1 : h = q * c + r
  BY Quotient
<1>3. CASE r <= s
  <2>1. PICK i \in 0 .. c - 1 : i = s - r
    BY <1>3 DEF Caps
  <2>2. h + i = q * c + s
    <3>1. PICK p \in Nat : p = q * c
      BY DEF Caps
    <3> QED
      BY <1>2, <2>1, <3>1 DEF Caps
  <2> QED
    BY <1>1, <2>2, Remainder DEF Probe
<1>4. CASE s < r
  <2>1. PICK i \in 0 .. c - 1 : i = s + c - r
    BY <1>4 DEF Caps
  <2>2. PICK m \in Nat : m = q + 1
    OBVIOUS
  <2>3. h + i = m * c + s
    <3>1. PICK p \in Nat : p = q * c
      BY DEF Caps
    <3>2. m * c = p + c
      BY <2>2, <3>1 DEF Caps
    <3> QED
      BY <1>2, <2>1, <3>1, <3>2 DEF Caps
  <2> QED
    BY <1>1, <2>3, Remainder DEF Probe
<1> QED
  BY <1>3, <1>4 DEF Caps

-----------------------------------------------------------------------------
(* The probe *)

Sees(t, c, n, i) == t[Probe(n, c, i)].name
Clear(t, c, n, k) == \A j \in 0 .. k - 1 : Sees(t, c, n, j) \notin {n, NoName}
Ends(t, c, n) == \E l \in 0 .. c - 1 : Sees(t, c, n, l) = NoName /\ Clear(t, c, n, l)

\* The slot s is on the way of n, before any stop, and has its name or may take it.
Found(t, c, n, s) ==
  \E k \in 0 .. c - 1 :
    /\ s = Probe(n, c, k) /\ Clear(t, c, n, k)
    /\ t[s].name = n \/ (t[s].name \in {Tombstone, NoName} /\ Ends(t, c, n))

\* VartabFindValidSlot comes to an end where there is an empty slot.
LEMMA FindFinds ==
  ASSUME NEW c \in Caps, NEW d \in Caps, c <= d, NEW t \in TableOf(d), NEW n \in Keys,
         NEW e \in 0 .. c - 1, t[e].name = NoName
  PROVE  Found(t, c, n, FindValidSlot(t, c, n))
<1> DEFINE seen(i) == t[Probe(n, c, i)].name
           stops == {i \in 0 .. c - 1 : seen(i) \in {n, NoName}}
           last == Min(stops)
           graves == {i \in 0 .. last : seen(i) = Tombstone}
           s == FindValidSlot(t, c, n)
<1>0. SUFFICES Found(t, c, n, s)
  OBVIOUS
<1>1. stops # {} /\ stops \subseteq Nat
  <2>1. PICK i \in 0 .. c - 1 : Probe(n, c, i) = e
    BY ProbeHits
  <2> QED
    BY <2>1 DEF Caps
<1>2. last \in stops /\ \A i \in stops : last <= i
  <2> HIDE DEF stops
  <2> QED
    BY <1>1, LeastIn
<1>3. last \in 0 .. c - 1 /\ seen(last) \in {n, NoName}
  BY <1>2
<1>4. \A j \in 0 .. last - 1 : j \in 0 .. c - 1 /\ ~ (last <= j)
  <2> HIDE DEF last
  <2> QED
    BY <1>3 DEF Caps
<1>5. Clear(t, c, n, last)
  <2>1. SUFFICES ASSUME NEW j \in 0 .. last - 1 PROVE seen(j) \notin {n, NoName}
    BY DEF Clear, Sees
  <2>2. j \in 0 .. c - 1 /\ j \notin stops
    BY <1>2, <1>4
  <2> QED
    BY <2>2
<1>6. CASE seen(last) = n \/ graves = {}
  <2>1. s = Probe(n, c, last)
    BY <1>1, <1>6 DEF FindValidSlot
  <2>2. t[s].name = seen(last)
    BY <2>1
  <2>3. t[s].name = NoName => Ends(t, c, n)
    BY <1>3, <1>5, <2>2 DEF Ends, Sees
  <2> HIDE DEF s, last
  <2> QED
    BY <1>3, <1>5, <2>1, <2>2, <2>3 DEF Found
<1>7. CASE seen(last) # n /\ graves # {}
  <2>1. s = Probe(n, c, Min(graves))
    BY <1>1, <1>7 DEF FindValidSlot
  <2>2. graves \subseteq Nat
    BY <1>3
  <2>3. PICK k \in graves : k = Min(graves)
    <3> HIDE DEF graves
    <3> QED
      BY <1>7, <2>2, LeastIn
  <2>4. k \in 0 .. last /\ seen(k) = Tombstone
    BY <2>3
  <2>5. k \in 0 .. c - 1 /\ \A j \in 0 .. k - 1 : j \in 0 .. last - 1
    <3> HIDE DEF last
    <3> QED
      BY <1>3, <2>4 DEF Caps
  <2>6. Clear(t, c, n, k)
    BY <1>5, <2>5 DEF Clear
  <2>7. t[s].name = Tombstone /\ s = Probe(n, c, k)
    BY <2>1, <2>3, <2>4
  <2>8. Ends(t, c, n)
    BY <1>3, <1>5, <1>7 DEF Ends, Sees
  <2> HIDE DEF s
  <2> QED
    BY <2>5, <2>6, <2>7, <2>8 DEF Found
<1> QED
  BY <1>6, <1>7

LEMMA FoundIn ==
  ASSUME NEW c \in Caps, NEW t, NEW n \in Keys, NEW s, Found(t, c, n, s)
  PROVE  s \in 0 .. c - 1 /\ t[s].name \in {n, Tombstone, NoName}
<1>1. PICK k \in 0 .. c - 1 : s = Probe(n, c, k) /\ t[s].name \in {n, Tombstone, NoName}
  BY DEF Found
<1>2. k \in Nat
  BY DEF Caps
<1> QED
  BY <1>1, <1>2, ProbeIn

-----------------------------------------------------------------------------
(* Paths *)

\* No probe for a name in the table ends before it has come to its slot.
Reached(t, c, n, s) == \E i \in 0 .. c - 1 : Probe(n, c, i) = s /\ Clear(t, c, n, i)
PathOK(t, c) == \A s \in 0 .. c - 1 : IsLive(t[s]) => Reached(t, c, t[s].name, s)

Has(t, c, n) == \E s \in 0 .. c - 1 : t[s].name = n

LEMMA NotHere ==
  ASSUME NEW c \in Caps, NEW t, PathOK(t, c), NEW n \in Names, Ends(t, c, n)
  PROVE  ~ Has(t, c, n)
<1>1. SUFFICES ASSUME NEW s \in 0 .. c - 1, t[s].name = n PROVE FALSE
  BY DEF Has
<1>2. PICK i \in 0 .. c - 1 : Probe(n, c, i) = s /\ Clear(t, c, n, i)
  BY <1>1 DEF PathOK, Reached, IsLive
<1>3. PICK l \in 0 .. c - 1 : Sees(t, c, n, l) = NoName /\ Clear(t, c, n, l)
  BY DEF Ends
<1>4. Sees(t, c, n, i) = n
  BY <1>1, <1>2 DEF Sees
<1>5. i < l => FALSE
  <2>1. i < l => i \in 0 .. l - 1
    BY DEF Caps
  <2> QED
    BY <1>3, <1>4, <2>1 DEF Clear
<1>6. l < i => FALSE
  <2>1. l < i => l \in 0 .. i - 1
    BY DEF Caps
  <2> QED
    BY <1>2, <1>3, <2>1 DEF Clear
<1>7. i # l
  BY <1>3, <1>4, TableAssumption
<1> QED
  BY <1>5, <1>6, <1>7 DEF Caps

\* A name is in one slot only.
LEMMA OneSlot ==
  ASSUME NEW c \in Caps, NEW t, PathOK(t, c), NEW s \in 0 .. c - 1, NEW r \in 0 .. c - 1,
         IsLive(t[s]), t[r].name = t[s].name
  PROVE  r = s
<1>1. PICK n \in Names : n = t[s].name /\ n = t[r].name
  BY DEF IsLive
<1>2. PICK i \in 0 .. c - 1 : Probe(n, c, i) = s /\ Clear(t, c, n, i)
  BY <1>1 DEF PathOK, Reached, IsLive
<1>3. PICK j \in 0 .. c - 1 : Probe(n, c, j) = r /\ Clear(t, c, n, j)
  BY <1>1 DEF PathOK, Reached, IsLive
<1>4. Sees(t, c, n, i) = n /\ Sees(t, c, n, j) = n
  BY <1>1, <1>2, <1>3 DEF Sees
<1>5. ~ (i < j)
  <2>1. i < j => i \in 0 .. j - 1
    BY DEF Caps
  <2> QED
    BY <1>3, <1>4, <2>1 DEF Clear
<1>6. ~ (j < i)
  <2>1. j < i => j \in 0 .. i - 1
    BY DEF Caps
  <2> QED
    BY <1>2, <1>4, <2>1 DEF Clear
<1>7. i = j
  BY <1>5, <1>6 DEF Caps
<1> QED
  BY <1>2, <1>3, <1>7

\* What the probe finds is the name's slot if it has one.
LEMMA FoundIsTheSlot ==
  ASSUME NEW c \in Caps, NEW t, PathOK(t, c), NEW n \in Names, NEW s, Found(t, c, n, s)
  PROVE  Has(t, c, n) <=> t[s].name = n
<1>1. s \in 0 .. c - 1
  BY FoundIn DEF Keys
<1>2. CASE t[s].name = n
  BY <1>1, <1>2 DEF Has
<1>3. CASE t[s].name # n
  <2>1. Ends(t, c, n)
    BY <1>3 DEF Found
  <2> QED
    BY <1>3, <2>1, NotHere
<1> QED
  BY <1>2, <1>3

\* A slot that gets another name clears nobody's way.
LEMMA StaysClear ==
  ASSUME NEW c \in Caps, NEW d \in Caps, c <= d, NEW t \in TableOf(d), NEW m \in Keys, NEW i \in 0 .. c - 1,
         Clear(t, c, m, i), NEW s \in 0 .. d - 1, NEW u \in TableOf(d),
         u[s].name \notin {m, NoName}, \A r \in 0 .. d - 1 : r # s => u[r] = t[r]
  PROVE  Clear(u, c, m, i)
<1>1. SUFFICES ASSUME NEW j \in 0 .. i - 1 PROVE u[Probe(m, c, j)].name \notin {m, NoName}
  BY DEF Clear, Sees
<1>2. Probe(m, c, j) \in 0 .. d - 1
  <2>1. Probe(m, c, j) \in 0 .. c - 1
    BY ProbeIn
  <2> QED
    BY <2>1 DEF Caps
<1>3. t[Probe(m, c, j)].name \notin {m, NoName}
  BY <1>1 DEF Clear, Sees
<1> QED
  BY <1>2, <1>3

Write(t, s, n, e) == [t EXCEPT ![s] = Slot(n, e)]

\* u is t but for slot s.
Rest(t, u, s, d) == u \in TableOf(d) /\ \A r \in 0 .. d - 1 : r # s => u[r] = t[r]

LEMMA SlotWritten ==
  ASSUME NEW d \in Caps, NEW t \in TableOf(d), NEW s \in 0 .. d - 1, NEW n \in Keys, NEW e \in Entries,
         NEW u, u = Write(t, s, n, e)
  PROVE  Rest(t, u, s, d) /\ u[s] = Slot(n, e)
BY DEF TableOf, Slots, Slot, Rest, Write

\* VartabSet on a slot found keeps all paths.
LEMMA WritePath ==
  ASSUME NEW c \in Caps, NEW t \in TableOf(c), PathOK(t, c), NEW n \in Keys, NEW s, Found(t, c, n, s),
         NEW e \in Entries, NEW u, u = Write(t, s, n, e)
  PROVE  PathOK(u, c)
<1>1. s \in 0 .. c - 1
  BY FoundIn
<1>2. u \in TableOf(c) /\ u[s].name = n /\ \A r \in 0 .. c - 1 : r # s => u[r] = t[r]
  <2>1. Rest(t, u, s, c) /\ u[s] = Slot(n, e)
    BY <1>1, SlotWritten
  <2> QED
    BY <2>1 DEF Rest, Slot
<1>3. SUFFICES ASSUME NEW r \in 0 .. c - 1, IsLive(u[r]) PROVE Reached(u, c, u[r].name, r)
  BY DEF PathOK
<1>4. CASE r = s
  <2> DEFINE hits == {i \in 0 .. c - 1 : Probe(n, c, i) = s}
             first == Min(hits)
  <2>1. PICK k \in hits : Clear(t, c, n, k)
    BY DEF Found
  <2>2. first \in hits /\ \A i \in hits : first <= i
    <3>1. hits \subseteq Nat /\ hits # {}
      BY <2>1 DEF Caps
    <3> HIDE DEF hits
    <3> QED
      BY <3>1, LeastIn
  <2>3. PICK i \in 0 .. c - 1 : i = first /\ Probe(n, c, i) = s /\ i <= k
    BY <2>1, <2>2
  <2>4. SUFFICES ASSUME NEW j \in 0 .. i - 1 PROVE u[Probe(n, c, j)].name \notin {n, NoName}
    BY <1>2, <1>4, <2>3 DEF Reached, Clear, Sees
  <2>5. j \in 0 .. c - 1 /\ j \in 0 .. k - 1 /\ ~ (i <= j)
    BY <2>1, <2>3 DEF Caps
  <2>6. j \notin hits
    <3> HIDE DEF hits
    <3> QED
      BY <2>2, <2>3, <2>5
  <2>7. Probe(n, c, j) # s
    BY <2>5, <2>6
  <2>8. Probe(n, c, j) \in 0 .. c - 1
    BY <2>5, ProbeIn
  <2>9. t[Probe(n, c, j)].name \notin {n, NoName}
    BY <2>1, <2>5 DEF Clear, Sees
  <2> QED
    BY <1>2, <2>7, <2>8, <2>9
<1>5. CASE r # s
  <2>1. PICK m \in Names : m = t[r].name /\ m = u[r].name
    BY <1>2, <1>3, <1>5 DEF IsLive
  <2>2. m # n
    <3>1. SUFFICES ASSUME m = n PROVE FALSE
      OBVIOUS
    <3>2. Has(t, c, n)
      BY <2>1, <3>1 DEF Has
    <3>3. t[s].name = n
      BY <2>1, <3>1, <3>2, FoundIsTheSlot
    <3> QED
      BY <1>1, <1>5, <2>1, <3>1, <3>3, OneSlot DEF IsLive
  <2>3. m \in Keys /\ n # NoName
    BY TableAssumption DEF Keys
  <2>4. PICK i \in 0 .. c - 1 : Probe(m, c, i) = r /\ Clear(t, c, m, i)
    BY <2>1 DEF PathOK, Reached, IsLive
  <2>5. c <= c
    BY DEF Caps
  <2>6. u[s].name \notin {m, NoName}
    BY <1>2, <2>2, <2>3
  <2>7. Clear(u, c, m, i)
    BY <1>1, <1>2, <2>3, <2>4, <2>5, <2>6, StaysClear
  <2> QED
    BY <2>1, <2>4, <2>7 DEF Reached
<1> QED
  BY <1>4, <1>5

\* So does VartabDelete: a grave stops no probe.
LEMMA DigPath ==
  ASSUME NEW c \in Caps, NEW t \in TableOf(c), PathOK(t, c), NEW s \in 0 .. c - 1,
         NEW e \in Entries, NEW u, u = Write(t, s, Tombstone, e)
  PROVE  PathOK(u, c)
<1>1. Tombstone \in Keys /\ Tombstone # NoName /\ Tombstone \notin Names
  BY TableAssumption DEF Keys
<1>2. u \in TableOf(c) /\ u[s].name = Tombstone /\ \A r \in 0 .. c - 1 : r # s => u[r] = t[r]
  <2>1. Rest(t, u, s, c) /\ u[s] = Slot(Tombstone, e)
    BY <1>1, SlotWritten
  <2> QED
    BY <2>1 DEF Rest, Slot
<1>3. SUFFICES ASSUME NEW r \in 0 .. c - 1, IsLive(u[r]) PROVE Reached(u, c, u[r].name, r)
  BY DEF PathOK
<1>4. r # s
  BY <1>1, <1>2, <1>3 DEF IsLive
<1>5. PICK m \in Names : m = t[r].name /\ m = u[r].name
  BY <1>2, <1>3, <1>4 DEF IsLive
<1>6. m \in Keys /\ u[s].name \notin {m, NoName} /\ c <= c
  BY <1>1, <1>2 DEF Keys, Caps
<1>7. PICK i \in 0 .. c - 1 : Probe(m, c, i) = r /\ Clear(t, c, m, i)
  BY <1>5 DEF PathOK, Reached, IsLive
<1>8. Clear(u, c, m, i)
  BY <1>2, <1>6, <1>7, StaysClear
<1> QED
  BY <1>5, <1>7, <1>8 DEF Reached

-----------------------------------------------------------------------------
(* Counting *)

Used(t, c) == {i \in 0 .. c - 1 : t[i].name # NoName}

LEMMA UsedFinite ==
  ASSUME NEW c \in Caps, NEW t
  PROVE  IsFiniteSet(Used(t, c)) /\ Cardinality(Used(t, c)) \in Nat
<1>1. IsFiniteSet(0 .. c - 1)
  BY FS_Interval DEF Caps
<1>2. IsFiniteSet(Used(t, c))
  BY <1>1, FS_Subset DEF Used
<1> QED
  BY <1>2, FS_CardinalityType

\* A table that uses fewer slots than it has has an empty one.
LEMMA HasEmpty ==
  ASSUME NEW c \in Caps, NEW t, Cardinality(Used(t, c)) < c
  PROVE  \E e \in 0 .. c - 1 : t[e].name = NoName
<1>1. SUFFICES ASSUME \A e \in 0 .. c - 1 : t[e].name # NoName PROVE FALSE
  OBVIOUS
<1>2. Used(t, c) = 0 .. c - 1
  BY <1>1 DEF Used
<1>3. Cardinality(0 .. c - 1) = c
  <2>1. 0 \in Int /\ c - 1 \in Int /\ ~ (0 > c - 1) /\ (c - 1) - 0 + 1 = c
    BY DEF Caps
  <2> QED
    BY <2>1, FS_Interval
<1> QED
  BY <1>2, <1>3 DEF Caps

LEMMA UsedMore ==
  ASSUME NEW c \in Caps, NEW t \in TableOf(c), NEW s \in 0 .. c - 1, NEW n \in Keys, NEW e \in Entries,
         NEW u, u = Write(t, s, n, e)
  PROVE  Cardinality(Used(u, c)) = Cardinality(Used(t, c)) + (IF CountsAsNew(t[s]) THEN 1 ELSE 0)
<1>1. u[s].name # NoName /\ \A r \in 0 .. c - 1 : r # s => u[r] = t[r]
  <2>1. Rest(t, u, s, c) /\ u[s] = Slot(n, e)
    BY SlotWritten
  <2> QED
    BY <2>1, TableAssumption DEF Keys, Rest, Slot
<1>2. Used(u, c) = Used(t, c) \cup {s}
  BY <1>1 DEF Used
<1>3. CASE t[s].name = NoName
  <2>1. s \notin Used(t, c)
    BY <1>3 DEF Used
  <2>2. Cardinality(Used(t, c) \cup {s}) = Cardinality(Used(t, c)) + 1
    BY <2>1, UsedFinite, FS_AddElement
  <2> QED
    BY <1>2, <1>3, <2>2 DEF CountsAsNew
<1>4. CASE t[s].name # NoName
  <2>1. Used(u, c) = Used(t, c)
    BY <1>2, <1>4 DEF Used
  <2> QED
    BY <1>4, <2>1, UsedFinite DEF CountsAsNew
<1> QED
  BY <1>3, <1>4

-----------------------------------------------------------------------------
(* VartabResize and VartabClone go from slot to slot *)

\* A recursion over 0 .. n has a solution.
IsStep(step, S, n) == step \in [1 .. n -> [S -> S]]
Solves(g, b, step, k) == g[0] = b /\ \A i \in 1 .. k : g[i] = step[i][g[i - 1]]

LEMMA Solution ==
  ASSUME NEW S, NEW n \in Nat, NEW b \in S, NEW step, IsStep(step, S, n)
  PROVE  \E g \in [0 .. n -> S] : Solves(g, b, step, n)
<1> DEFINE Solved == {k \in 0 .. n : \E g \in [0 .. k -> S] : Solves(g, b, step, k)}
<1>1. 0 \in Solved
  <2>1. [i \in 0 .. 0 |-> b] \in [0 .. 0 -> S] /\ Solves([i \in 0 .. 0 |-> b], b, step, 0)
    BY DEF Solves
  <2> QED
    BY <2>1
<1>2. ASSUME NEW k \in 1 .. n, k - 1 \in Solved PROVE k \in Solved
  <2>1. PICK m \in Nat : m = k - 1 /\ k = m + 1
    OBVIOUS
  <2>2. PICK g \in [0 .. m -> S] : Solves(g, b, step, m)
    BY <1>2, <2>1
  <2>3. PICK x \in S : x = step[k][g[m]]
    BY <2>1, <2>2 DEF IsStep
  <2> DEFINE h == [i \in 0 .. k |-> IF i = k THEN x ELSE g[i]]
  <2>4. h \in [0 .. k -> S]
    BY <2>1, <2>2, <2>3
  <2>5. h[0] = b
    BY <2>1, <2>2 DEF Solves
  <2>6. ASSUME NEW i \in 1 .. k PROVE h[i] = step[i][h[i - 1]]
    <3>1. CASE i = k
      BY <2>1, <2>3, <3>1
    <3>2. CASE i # k
      <4>1. i \in 1 .. m /\ i \in 0 .. k /\ i - 1 \in 0 .. k /\ i - 1 # k
        BY <2>1, <3>2
      <4>2. g[i] = step[i][g[i - 1]]
        BY <2>2, <4>1 DEF Solves
      <4> QED
        BY <3>2, <4>1, <4>2
    <3> QED
      BY <3>1, <3>2
  <2> HIDE DEF h
  <2>7. Solves(h, b, step, k)
    BY <2>5, <2>6 DEF Solves
  <2> QED
    BY <2>4, <2>7
<1>3. n \in Solved
  <2> HIDE DEF Solved
  <2> QED
    BY <1>1, <1>2, UpTo
<1> QED
  BY <1>3

Tabs == {v \in [cap : Caps, count : Nat, table : UNION {TableOf(c) : c \in Caps}] : v.table \in TableOf(v.cap)}

LEMMA TabIn ==
  ASSUME NEW c \in Caps, NEW k \in Nat, NEW t \in TableOf(c)
  PROVE  Tab(c, k, t) \in Tabs /\ Tab(c, k, t).cap = c /\ Tab(c, k, t).count = k /\ Tab(c, k, t).table = t
BY DEF Tabs, Tab

LEMMA TabHas ==
  ASSUME NEW v \in Tabs
  PROVE  v.cap \in Caps /\ v.count \in Nat /\ v.table \in TableOf(v.cap)
BY DEF Tabs

LEMMA EmptyIn ==
  ASSUME NEW c \in Caps
  PROVE  EmptyTable(c) \in TableOf(c)
<1>1. AnyEntry \in Entries
  BY TableAssumption DEF AnyEntry
<1>2. EmptySlot \in Slots
  BY <1>1 DEF EmptySlot, Slot, Slots
<1> QED
  BY <1>2 DEF EmptyTable, TableOf

\* Slot i - 1 of v, copied to t, which is empty of graves.
CopySlot(v, t, i) ==
  LET s == v.table[i - 1] IN
  IF IsLive(s) THEN [t EXCEPT ![FindValidSlot(t, v.cap, s.name)] = s] ELSE t

Rebuilt(v) == CHOOSE f : f = [i \in 0 .. v.cap |-> IF i = 0 THEN EmptyTable(2 * v.cap) ELSE CopySlot(v, f[i - 1], i)]

LiveSlots(v) == {i \in 0 .. v.cap - 1 : IsLive(v.table[i])}

LEMMA ResizeIs ==
  ASSUME NEW v
  PROVE  Resize(v) = Tab(2 * v.cap, Cardinality(LiveSlots(v)), Rebuilt(v)[v.cap])
BY DEF Resize, Rebuilt, LiveSlots, CopySlot, ProbeCap, SlotsToCopy

LEMMA CopyIn ==
  ASSUME NEW v \in Tabs, NEW d \in Caps, NEW t \in TableOf(d), NEW i \in 1 .. v.cap
  PROVE  CopySlot(v, t, i) \in TableOf(d)
<1>1. v.table[i - 1] \in Slots
  <2>1. i - 1 \in 0 .. v.cap - 1
    BY TabHas DEF Caps
  <2> QED
    BY <2>1, TabHas DEF TableOf
<1> QED
  BY <1>1 DEF CopySlot, TableOf

LEMMA RebuiltSteps ==
  ASSUME NEW v \in Tabs
  PROVE  /\ Rebuilt(v)[0] = EmptyTable(2 * v.cap)
         /\ \A i \in 1 .. v.cap : Rebuilt(v)[i] = CopySlot(v, Rebuilt(v)[i - 1], i)
<1> DEFINE n == v.cap
           S == TableOf(2 * n)
           step == [i \in 1 .. n |-> [t \in S |-> CopySlot(v, t, i)]]
           F(f) == [i \in 0 .. n |-> IF i = 0 THEN EmptyTable(2 * n) ELSE CopySlot(v, f[i - 1], i)]
           h == Rebuilt(v)
<1>1. n \in Nat /\ 2 * n \in Caps
  BY TabHas DEF Caps
<1>2. IsStep(step, S, n)
  BY <1>1, CopyIn DEF IsStep
<1>3. PICK b \in S : b = EmptyTable(2 * n)
  BY <1>1, EmptyIn
<1>4. PICK g \in [0 .. n -> S] : Solves(g, b, step, n)
  <2> HIDE DEF S, n, step
  <2> QED
    BY <1>1, <1>2, <1>3, Solution
<1>5. \A i \in 1 .. n : i - 1 \in 0 .. n
  BY <1>1
<1>6. \A i \in 1 .. n : g[i] = CopySlot(v, g[i - 1], i)
  BY <1>4, <1>5 DEF Solves
<1>7. g = F(g)
  <2>1. \A i \in 0 .. n : i = 0 \/ i \in 1 .. n
    BY <1>1
  <2>2. g[0] = EmptyTable(2 * n)
    BY <1>3, <1>4 DEF Solves
  <2> QED
    BY <1>4, <1>6, <2>1, <2>2
<1>8. h = F(h)
  BY <1>7 DEF Rebuilt
<1> HIDE DEF h
<1>9. 0 \in 0 .. n /\ \A i \in 1 .. n : i \in 0 .. n /\ i # 0
  BY <1>1
<1>10. h[0] = EmptyTable(2 * n)
  BY <1>8, <1>9
<1>11. \A i \in 1 .. n : h[i] = CopySlot(v, h[i - 1], i)
  BY <1>8, <1>9
<1> QED
  BY <1>10, <1>11 DEF h

-----------------------------------------------------------------------------
(* What a resize keeps *)

Distinct(v) == \A s, r \in LiveSlots(v) : v.table[s].name = v.table[r].name => s = r

\* The live slots among the first i.
Firsts(v, i) == {j \in 0 .. i - 1 : IsLive(v.table[j])}

\* t has the names of the first i slots and uses no more slots than these.
NoGraves(t, d) == \A s \in 0 .. d - 1 : t[s].name # Tombstone
AllNames(v, t, d, i) == \A j \in Firsts(v, i) : Has(t, d, v.table[j].name)
OnlyThese(v, t, d, i) ==
  /\ \A s \in 0 .. d - 1 : IsLive(t[s]) => \E j \in Firsts(v, i) : v.table[j].name = t[s].name
  /\ Cardinality(Used(t, d)) = Cardinality(Firsts(v, i))
Copied(v, t, d, i) ==
  /\ t \in TableOf(d) /\ NoGraves(t, d) /\ AllNames(v, t, d, i)
  /\ Cardinality(Used(t, d)) <= Cardinality(Firsts(v, i))
  /\ Distinct(v) => OnlyThese(v, t, d, i)

LEMMA FirstsFinite ==
  ASSUME NEW v, NEW i \in Nat
  PROVE  IsFiniteSet(Firsts(v, i)) /\ Cardinality(Firsts(v, i)) \in Nat /\ Cardinality(Firsts(v, i)) <= i
<1>1. IsFiniteSet(0 .. i - 1) /\ Cardinality(0 .. i - 1) = i
  <2>1. 0 \in Int /\ i - 1 \in Int /\ (IF 0 > i - 1 THEN 0 ELSE (i - 1) - 0 + 1) = i
    OBVIOUS
  <2> QED
    BY <2>1, FS_Interval
<1>2. Firsts(v, i) \in SUBSET (0 .. i - 1)
  BY DEF Firsts
<1> QED
  BY <1>1, <1>2, FS_Subset, FS_CardinalityType

LEMMA FirstsMore ==
  ASSUME NEW v, NEW i \in Nat \ {0}
  PROVE  /\ IsLive(v.table[i - 1]) =>
               /\ Firsts(v, i) = Firsts(v, i - 1) \cup {i - 1}
               /\ Cardinality(Firsts(v, i)) = Cardinality(Firsts(v, i - 1)) + 1
         /\ ~ IsLive(v.table[i - 1]) => Firsts(v, i) = Firsts(v, i - 1)
<1>1. PICK k \in Nat : k = i - 1 /\ i = k + 1
  OBVIOUS
<1>2. \A j : j \in 0 .. i - 1 <=> j \in 0 .. k - 1 \/ j = k
  BY <1>1
<1>3. k \notin Firsts(v, k)
  BY DEF Firsts
<1>4. CASE IsLive(v.table[k])
  <2>1. Firsts(v, i) = Firsts(v, k) \cup {k}
    BY <1>2, <1>4 DEF Firsts
  <2>2. Cardinality(Firsts(v, k) \cup {k}) = Cardinality(Firsts(v, k)) + 1
    BY <1>3, FirstsFinite, FS_AddElement
  <2> QED
    BY <1>1, <1>4, <2>1, <2>2
<1>5. CASE ~ IsLive(v.table[k])
  <2>1. Firsts(v, i) = Firsts(v, k)
    BY <1>2, <1>5 DEF Firsts
  <2> QED
    BY <1>1, <1>5, <2>1
<1> QED
  BY <1>4, <1>5

\* Fewer slots are used among the first c than among all.
LEMMA UsedLess ==
  ASSUME NEW c \in Caps, NEW d \in Caps, c <= d, NEW t
  PROVE  Cardinality(Used(t, c)) <= Cardinality(Used(t, d))
<1>1. Used(t, c) \in SUBSET Used(t, d)
  BY DEF Used, Caps
<1> QED
  BY <1>1, UsedFinite, FS_Subset

LEMMA CopyStep ==
  ASSUME NEW v \in Tabs, NEW d \in Caps, d = 2 * v.cap, NEW i \in 1 .. v.cap,
         NEW t, Copied(v, t, d, i - 1), NEW u, u = CopySlot(v, t, i)
  PROVE  Copied(v, u, d, i)
<1>1. PICK c \in Caps : c = v.cap /\ c <= d
  BY TabHas DEF Caps
<1>2. PICK k \in Nat : k = i - 1 /\ k \in 0 .. c - 1 /\ k < c /\ i \in Nat \ {0}
  BY <1>1 DEF Caps
<1>3. Copied(v, t, d, k)
  BY <1>2
<1>4. t \in TableOf(d)
  BY <1>3 DEF Copied
<1>5. CASE ~ IsLive(v.table[k])
  <2>1. u = t
    BY <1>2, <1>5 DEF CopySlot
  <2>2. Firsts(v, i) = Firsts(v, k)
    BY <1>2, <1>5, FirstsMore
  <2> QED
    BY <1>3, <2>1, <2>2 DEF Copied, AllNames, OnlyThese
<1>6. CASE IsLive(v.table[k])
  <2>1. PICK n \in Names, e \in Entries : v.table[k] = Slot(n, e)
    <3>1. v.table[k] \in Slots
      BY <1>1, <1>2, TabHas DEF TableOf
    <3> QED
      BY <1>6, <3>1 DEF IsLive, Slots, Slot
  <2>2. n \in Keys /\ v.table[k].name = n
    BY <2>1 DEF Keys, Slot
  <2>3. PICK s : s = FindValidSlot(t, c, n)
    OBVIOUS
  <2>4. u = Write(t, s, n, e)
    BY <1>1, <1>2, <1>6, <2>1, <2>2, <2>3 DEF CopySlot, Write
  <2>5. Firsts(v, i) = Firsts(v, k) \cup {k} /\ Cardinality(Firsts(v, i)) = Cardinality(Firsts(v, k)) + 1
    BY <1>2, <1>6, FirstsMore
  <2>6. Cardinality(Used(t, c)) < c
    <3>1. Cardinality(Used(t, d)) <= Cardinality(Firsts(v, k))
      BY <1>3 DEF Copied
    <3>2. Cardinality(Used(t, c)) <= Cardinality(Used(t, d))
      BY <1>1, UsedLess
    <3>3. Cardinality(Used(t, c)) \in Nat /\ Cardinality(Used(t, d)) \in Nat
      BY UsedFinite
    <3>4. Cardinality(Firsts(v, k)) \in Nat /\ Cardinality(Firsts(v, k)) <= k
      BY FirstsFinite
    <3> QED
      BY <1>2, <3>1, <3>2, <3>3, <3>4 DEF Caps
  <2>7. Found(t, c, n, s)
    <3>1. PICK x \in 0 .. c - 1 : t[x].name = NoName
      BY <2>6, HasEmpty
    <3> QED
      BY <1>1, <1>4, <2>2, <2>3, <3>1, FindFinds
  <2>8. s \in 0 .. d - 1 /\ t[s].name \in {n, NoName}
    <3>1. s \in 0 .. c - 1 /\ t[s].name \in {n, Tombstone, NoName}
      BY <2>2, <2>7, FoundIn
    <3>2. s \in 0 .. d - 1
      BY <1>1, <3>1 DEF Caps
    <3> QED
      BY <1>3, <3>1, <3>2 DEF Copied, NoGraves
  <2>9. Rest(t, u, s, d) /\ u[s] = Slot(n, e)
    BY <1>4, <2>2, <2>4, <2>8, SlotWritten
  <2>10. Cardinality(Used(u, d)) = Cardinality(Used(t, d)) + (IF CountsAsNew(t[s]) THEN 1 ELSE 0)
    BY <1>4, <2>2, <2>4, <2>8, UsedMore
  <2>11. u[s].name = n /\ n # Tombstone
    BY <2>9, TableAssumption DEF Slot
  <2>12. NoGraves(u, d)
    BY <1>3, <2>9, <2>11 DEF Copied, NoGraves, Rest
  <2>13. AllNames(v, u, d, i)
    <3>1. SUFFICES ASSUME NEW j \in Firsts(v, i) PROVE Has(u, d, v.table[j].name)
      BY DEF AllNames
    <3>2. CASE j = k
      BY <2>2, <2>8, <2>11, <3>2 DEF Has
    <3>3. CASE j # k
      <4>1. j \in Firsts(v, k) /\ v.table[j].name \in Names
        BY <2>5, <3>3 DEF Firsts, IsLive
      <4>2. PICK r \in 0 .. d - 1 : t[r].name = v.table[j].name
        BY <1>3, <4>1 DEF Copied, AllNames, Has
      <4>3. u[r].name = v.table[j].name
        BY <2>8, <2>9, <2>11, <4>1, <4>2, TableAssumption DEF Rest
      <4> QED
        BY <4>3 DEF Has
    <3> QED
      BY <3>2, <3>3
  <2>14. PICK a \in Nat, b \in Nat, f \in Nat :
           a = Cardinality(Used(t, d)) /\ b = Cardinality(Used(u, d)) /\ f = Cardinality(Firsts(v, k))
    BY UsedFinite, FirstsFinite
  <2>15. b <= Cardinality(Firsts(v, i))
    <3>1. a <= f
      BY <1>3, <2>14 DEF Copied
    <3>2. b = a \/ b = a + 1
      BY <2>10, <2>14
    <3> QED
      BY <2>5, <2>14, <3>1, <3>2
  <2>16. ASSUME Distinct(v) PROVE OnlyThese(v, u, d, i)
    <3>1. OnlyThese(v, t, d, k)
      BY <1>3, <2>16 DEF Copied
    <3>2. t[s].name # n
      <4>1. SUFFICES ASSUME t[s].name = n PROVE FALSE
        OBVIOUS
      <4>2. PICK j \in Firsts(v, k) : v.table[j].name = n
        BY <2>8, <3>1, <4>1 DEF OnlyThese, IsLive
      <4>3. j \in LiveSlots(v) /\ k \in LiveSlots(v) /\ j # k
        BY <1>1, <1>2, <1>6 DEF Firsts, LiveSlots, Caps
      <4> QED
        BY <2>2, <2>16, <4>2, <4>3 DEF Distinct
    <3>3. b = a + 1
      BY <2>8, <2>10, <2>14, <3>2 DEF CountsAsNew
    <3>4. a = f
      BY <2>14, <3>1 DEF OnlyThese
    <3>5. b = Cardinality(Firsts(v, i))
      BY <2>5, <2>14, <3>3, <3>4
    <3>6. ASSUME NEW r \in 0 .. d - 1, IsLive(u[r])
          PROVE  \E j \in Firsts(v, i) : v.table[j].name = u[r].name
      <4>1. CASE r = s
        BY <2>2, <2>5, <2>11, <4>1
      <4>2. CASE r # s
        <5>1. u[r] = t[r]
          BY <2>9, <4>2 DEF Rest
        <5>2. PICK j \in Firsts(v, k) : v.table[j].name = t[r].name
          BY <3>1, <3>6, <5>1 DEF OnlyThese
        <5> QED
          BY <2>5, <5>1, <5>2
      <4> QED
        BY <4>1, <4>2
    <3> QED
      BY <2>14, <3>5, <3>6 DEF OnlyThese
  <2> QED
    BY <2>9, <2>12, <2>13, <2>14, <2>15, <2>16 DEF Copied, Rest
<1> QED
  BY <1>5, <1>6

LEMMA RebuiltCopies ==
  ASSUME NEW v \in Tabs, NEW d \in Caps, d = 2 * v.cap
  PROVE  Copied(v, Rebuilt(v)[v.cap], d, v.cap)
<1> DEFINE Done == {i \in 0 .. v.cap : Copied(v, Rebuilt(v)[i], d, i)}
<1>1. v.cap \in Nat
  BY TabHas DEF Caps
<1>2. 0 \in Done
  <2>1. EmptyTable(d) \in TableOf(d) /\ \A s \in 0 .. d - 1 : EmptyTable(d)[s].name = NoName
    BY EmptyIn DEF EmptyTable, EmptySlot, Slot
  <2>2. Firsts(v, 0) = {}
    BY DEF Firsts
  <2>3. Used(EmptyTable(d), d) = {}
    BY <2>1 DEF Used
  <2>4. Cardinality({}) = 0 /\ 0 <= 0
    BY FS_EmptySet
  <2>5. NoName # Tombstone /\ NoName \notin Names
    BY TableAssumption
  <2>6. Copied(v, EmptyTable(d), d, 0)
    BY <2>1, <2>2, <2>3, <2>4, <2>5 DEF Copied, NoGraves, AllNames, OnlyThese, IsLive
  <2> QED
    BY <1>1, <2>6, RebuiltSteps
<1>3. ASSUME NEW i \in 1 .. v.cap, i - 1 \in Done PROVE i \in Done
  <2>1. PICK t : t = Rebuilt(v)[i - 1]
    OBVIOUS
  <2>2. Rebuilt(v)[i] = CopySlot(v, t, i)
    BY <2>1, RebuiltSteps
  <2>3. Copied(v, t, d, i - 1)
    BY <1>3, <2>1
  <2>4. Copied(v, Rebuilt(v)[i], d, i)
    BY <2>2, <2>3, CopyStep
  <2> QED
    BY <1>1, <2>4
<1>4. v.cap \in Done
  <2> HIDE DEF Done
  <2> QED
    BY <1>1, <1>2, <1>3, UpTo
<1> QED
  BY <1>4

\* The load limit holds, and no slot in use goes uncounted.
Good(v) == Cardinality(Used(v.table, v.cap)) <= v.count /\ v.count <= (v.cap * 3) \div 4
Counted(v) == v.count = Cardinality(Used(v.table, v.cap))
Holds(v, n) == Has(v.table, v.cap, n)
Keeps(v, w) == \A n \in Names : Holds(v, n) => Holds(w, n)

LEMMA LiveFewer ==
  ASSUME NEW v \in Tabs
  PROVE  /\ Cardinality(LiveSlots(v)) \in Nat
         /\ Cardinality(LiveSlots(v)) <= Cardinality(Used(v.table, v.cap))
<1>1. LiveSlots(v) \in SUBSET Used(v.table, v.cap)
  BY TableAssumption DEF LiveSlots, Used, IsLive
<1>2. IsFiniteSet(Used(v.table, v.cap))
  BY TabHas, UsedFinite
<1> QED
  BY <1>1, <1>2, FS_Subset, FS_CardinalityType

LEMMA ResizeOK ==
  ASSUME NEW v \in Tabs, Good(v), NEW w, w = Resize(v)
  PROVE  /\ w \in Tabs /\ w.cap = 2 * v.cap /\ Good(w) /\ ~ ExceededMaxLoad(w)
         /\ Keeps(v, w) /\ (Distinct(v) => Counted(w))
<1>1. PICK d \in Caps : d = 2 * v.cap
  BY TabHas DEF Caps
<1>2. PICK t : t = Rebuilt(v)[v.cap]
  OBVIOUS
<1>3. Copied(v, t, d, v.cap)
  BY <1>1, <1>2, RebuiltCopies
<1>4. PICK k \in Nat : k = Cardinality(LiveSlots(v)) /\ k <= Cardinality(Used(v.table, v.cap))
  BY LiveFewer
<1>5. Firsts(v, v.cap) = LiveSlots(v)
  BY DEF Firsts, LiveSlots
<1>6. w = Tab(d, k, t)
  BY <1>1, <1>2, <1>4, ResizeIs
<1>7. t \in TableOf(d)
  BY <1>3 DEF Copied
<1>8. w \in Tabs /\ w.cap = d /\ w.count = k /\ w.table = t
  BY <1>6, <1>7, TabIn
<1>9. Cardinality(Used(w.table, w.cap)) <= w.count
  BY <1>3, <1>4, <1>5, <1>8 DEF Copied
<1>10. k + 1 <= (d * 3) \div 4
  <2>1. PICK c \in Caps, u \in Nat, n \in Nat :
          c = v.cap /\ u = Cardinality(Used(v.table, v.cap)) /\ n = v.count
    BY TabHas, UsedFinite
  <2>2. k <= n /\ n <= (c * 3) \div 4
    BY <1>4, <2>1 DEF Good
  <2>3. (c * 3) \div 4 + 1 <= ((2 * c) * 3) \div 4
    BY DEF Caps
  <2>4. (c * 3) \div 4 \in Int /\ ((2 * c) * 3) \div 4 \in Int
    BY DEF Caps
  <2> QED
    BY <1>1, <2>1, <2>2, <2>3, <2>4
<1>11. Good(w) /\ ~ ExceededMaxLoad(w)
  <2>1. PICK m \in Int : m = (d * 3) \div 4
    BY DEF Caps
  <2>2. k <= m /\ ~ (k + 1 > m)
    BY <1>10, <2>1
  <2> QED
    BY <1>8, <1>9, <2>1, <2>2 DEF Good, ExceededMaxLoad
<1>12. Keeps(v, w)
  <2>1. SUFFICES ASSUME NEW n \in Names, Holds(v, n) PROVE Holds(w, n)
    BY DEF Keeps
  <2>2. PICK s \in 0 .. v.cap - 1 : v.table[s].name = n
    BY <2>1 DEF Holds, Has
  <2>3. s \in Firsts(v, v.cap)
    BY <2>2 DEF Firsts, IsLive
  <2> QED
    BY <1>3, <1>8, <2>2, <2>3 DEF Holds, Copied, AllNames
<1>13. ASSUME Distinct(v) PROVE Counted(w)
  BY <1>3, <1>4, <1>5, <1>8, <1>13 DEF Counted, Copied, OnlyThese
<1> QED
  BY <1>1, <1>8, <1>11, <1>12, <1>13

-----------------------------------------------------------------------------
(* VartabSet *)

\* The name set where the load limit is not exceeded.
Fill(v, n, e) ==
  LET s == FindValidSlot(v.table, v.cap, n)
  IN  Tab(v.cap, v.count + (IF CountsAsNew(v.table[s]) THEN 1 ELSE 0), Write(v.table, s, n, e))

LEMMA PutFills ==
  ASSUME NEW v, NEW n, NEW e
  PROVE  Put(v, n, e) = Fill(IF ExceededMaxLoad(v) THEN Resize(v) ELSE v, n, e)
BY DEF Put, Fill, Write

LEMMA FillOK ==
  ASSUME NEW v \in Tabs, Good(v), ~ ExceededMaxLoad(v), NEW n \in Keys, NEW e \in Entries,
         NEW w, w = Fill(v, n, e)
  PROVE  /\ w \in Tabs /\ w.cap = v.cap /\ Good(w) /\ Keeps(v, w) /\ (n \in Names => Holds(w, n))
         /\ Counted(v) => Counted(w)
         /\ \E s \in 0 .. v.cap - 1 : Found(v.table, v.cap, n, s) /\ w.table = Write(v.table, s, n, e)
<1>18. PICK c \in Caps : c = v.cap
  BY TabHas
<1>19. PICK t \in TableOf(c) : t = v.table
  BY <1>18, TabHas
<1>20. PICK k \in Nat, used \in Nat : k = v.count /\ used = Cardinality(Used(t, c))
  BY TabHas, UsedFinite
<1>1. c = v.cap /\ t = v.table /\ k = v.count /\ used = Cardinality(Used(t, c))
  BY <1>18, <1>19, <1>20
<1>2. PICK max \in Nat : max = (c * 3) \div 4 /\ max < c
  BY DEF Caps
<1>3. used <= k /\ k + 1 <= max
  BY <1>1, <1>2 DEF Good, ExceededMaxLoad
<1>4. PICK s : s = FindValidSlot(t, c, n)
  OBVIOUS
<1>5. Found(t, c, n, s)
  <2>1. Cardinality(Used(t, c)) < c
    BY <1>1, <1>2, <1>3 DEF Caps
  <2>2. PICK x \in 0 .. c - 1 : t[x].name = NoName
    BY <2>1, HasEmpty
  <2>3. c <= c
    BY DEF Caps
  <2> QED
    BY <1>4, <2>2, <2>3, FindFinds
<1>6. s \in 0 .. c - 1 /\ t[s].name \in {n, Tombstone, NoName}
  BY <1>5, FoundIn
<1>7. PICK u : u = Write(t, s, n, e)
  OBVIOUS
<1>8. Rest(t, u, s, c) /\ u[s] = Slot(n, e)
  BY <1>6, <1>7, SlotWritten
<1>9. Cardinality(Used(u, c)) = used + (IF CountsAsNew(t[s]) THEN 1 ELSE 0)
  BY <1>1, <1>6, <1>7, UsedMore
<1>10. PICK one \in {0, 1} : one = IF CountsAsNew(t[s]) THEN 1 ELSE 0
  OBVIOUS
<1>11. w = Tab(c, k + one, u) /\ k + one \in Nat
  BY <1>1, <1>4, <1>7, <1>10 DEF Fill
<1>12. w \in Tabs /\ w.cap = c /\ w.count = k + one /\ w.table = u
  BY <1>8, <1>11, TabIn DEF Rest
<1>13. Good(w)
  <2>1. used + one <= k + one /\ k + one <= max
    BY <1>2, <1>3
  <2>2. Cardinality(Used(u, c)) = used + one
    BY <1>9, <1>10
  <2> QED
    BY <1>2, <1>12, <2>1, <2>2 DEF Good
<1>14. ASSUME Counted(v) PROVE Counted(w)
  BY <1>1, <1>9, <1>10, <1>12, <1>14 DEF Counted
<1>15. Keeps(v, w)
  <2>1. SUFFICES ASSUME NEW m \in Names, Has(t, c, m) PROVE Has(u, c, m)
    BY <1>1, <1>12 DEF Keeps, Holds
  <2>2. PICK r \in 0 .. c - 1 : t[r].name = m
    BY <2>1 DEF Has
  <2>3. u[r].name = m
    BY <1>6, <1>8, <2>2, TableAssumption DEF Rest, Slot
  <2> QED
    BY <2>3 DEF Has
<1>16. n \in Names => Holds(w, n)
  BY <1>6, <1>8, <1>12 DEF Holds, Has, Slot
<1>17. \E r \in 0 .. v.cap - 1 : Found(v.table, v.cap, n, r) /\ w.table = Write(v.table, r, n, e)
  BY <1>1, <1>5, <1>6, <1>7, <1>12
<1> QED
  BY <1>1, <1>12, <1>13, <1>14, <1>15, <1>16, <1>17

LEMMA PutOK ==
  ASSUME NEW v \in Tabs, Good(v), NEW n \in Keys, NEW e \in Entries, NEW w, w = Put(v, n, e)
  PROVE  /\ w \in Tabs /\ w.cap = (IF ExceededMaxLoad(v) THEN 2 * v.cap ELSE v.cap)
         /\ Good(w) /\ Keeps(v, w) /\ (n \in Names => Holds(w, n))
         /\ (IF ExceededMaxLoad(v) THEN Distinct(v) ELSE Counted(v)) => Counted(w)
<1>1. CASE ExceededMaxLoad(v)
  <2>1. PICK x : x = Resize(v)
    OBVIOUS
  <2>2. x \in Tabs /\ x.cap = 2 * v.cap /\ Good(x) /\ ~ ExceededMaxLoad(x) /\ Keeps(v, x) /\ (Distinct(v) => Counted(x))
    BY <2>1, ResizeOK
  <2>3. w = Fill(x, n, e)
    BY <1>1, <2>1, PutFills
  <2>4. w \in Tabs /\ w.cap = x.cap /\ Good(w) /\ Keeps(x, w) /\ (n \in Names => Holds(w, n)) /\ (Counted(x) => Counted(w))
    BY <2>2, <2>3, FillOK
  <2>5. Keeps(v, w)
    BY <2>2, <2>4 DEF Keeps
  <2> QED
    BY <1>1, <2>2, <2>4, <2>5
<1>2. CASE ~ ExceededMaxLoad(v)
  <2>1. w = Fill(v, n, e)
    BY <1>2, PutFills
  <2> QED
    BY <1>2, <2>1, FillOK
<1> QED
  BY <1>1, <1>2

-----------------------------------------------------------------------------
(* VartabClone *)

CloneSlot(t, w, i) ==
  IF t[i - 1].name = NoName THEN w ELSE Put(w, t[i - 1].name, t[i - 1].entry)
Cloned(c, t) ==
  CHOOSE f : f = [i \in 0 .. c |-> IF i = 0 THEN Tab(c, 0, EmptyTable(c)) ELSE CloneSlot(t, f[i - 1], i)]

GoodTabs == {v \in Tabs : Good(v)}

LEMMA CloneIs == Clone <=> Become(Cloned(cap, table)[cap]) /\ UNCHANGED defined
BY DEF Clone, Cloned, CloneSlot

LEMMA FreshOK ==
  ASSUME NEW c \in Caps, NEW v, v = Tab(c, 0, EmptyTable(c))
  PROVE  v \in GoodTabs /\ v.cap = c /\ v.count = 0 /\ v.table = EmptyTable(c) /\ Counted(v) /\ PathOK(v.table, c)
         /\ \A s \in 0 .. c - 1 : v.table[s].name = NoName
<1>1. v \in Tabs /\ v.cap = c /\ v.count = 0 /\ v.table = EmptyTable(c)
  BY EmptyIn, TabIn
<1>2. \A s \in 0 .. c - 1 : v.table[s].name = NoName
  <2>1. \A s \in 0 .. c - 1 : EmptyTable(c)[s] = EmptySlot
    BY DEF EmptyTable
  <2>2. EmptySlot.name = NoName
    BY DEF EmptySlot, Slot
  <2> QED
    BY <1>1, <2>1, <2>2
<1>3. Used(v.table, v.cap) = {}
  BY <1>1, <1>2 DEF Used
<1>4. Counted(v)
  BY <1>1, <1>3, FS_EmptySet DEF Counted
<1>5. Good(v)
  <2>1. 0 <= (c * 3) \div 4 /\ 0 <= 0
    BY DEF Caps
  <2> QED
    BY <1>1, <1>3, <2>1, FS_EmptySet DEF Good
<1>6. PathOK(v.table, c)
  BY <1>2, TableAssumption DEF PathOK, IsLive
<1> QED
  BY <1>1, <1>2, <1>4, <1>5, <1>6 DEF GoodTabs

LEMMA CloneStepIn ==
  ASSUME NEW c \in Caps, NEW t \in TableOf(c), NEW w \in GoodTabs, NEW i \in 1 .. c
  PROVE  CloneSlot(t, w, i) \in GoodTabs
<1>1. t[i - 1] \in Slots
  <2>1. i - 1 \in 0 .. c - 1
    BY DEF Caps
  <2> QED
    BY <2>1 DEF TableOf
<1>2. CASE t[i - 1].name = NoName
  BY <1>2 DEF CloneSlot
<1>3. CASE t[i - 1].name # NoName
  <2>1. PICK n \in Keys, e \in Entries : n = t[i - 1].name /\ e = t[i - 1].entry
    BY <1>1, <1>3 DEF Slots
  <2>2. PICK x : x = Put(w, n, e)
    OBVIOUS
  <2>3. w \in Tabs /\ Good(w)
    BY DEF GoodTabs
  <2>4. x \in Tabs /\ Good(x)
    BY <2>2, <2>3, PutOK
  <2> QED
    BY <1>3, <2>1, <2>2, <2>4 DEF CloneSlot, GoodTabs
<1> QED
  BY <1>2, <1>3

LEMMA ClonedSteps ==
  ASSUME NEW c \in Caps, NEW t \in TableOf(c)
  PROVE  /\ Cloned(c, t)[0] = Tab(c, 0, EmptyTable(c))
         /\ \A i \in 1 .. c : Cloned(c, t)[i] = CloneSlot(t, Cloned(c, t)[i - 1], i)
<1> DEFINE step == [i \in 1 .. c |-> [w \in GoodTabs |-> CloneSlot(t, w, i)]]
           F(f) == [i \in 0 .. c |-> IF i = 0 THEN Tab(c, 0, EmptyTable(c)) ELSE CloneSlot(t, f[i - 1], i)]
           h == Cloned(c, t)
<1>1. c \in Nat
  BY DEF Caps
<1>2. IsStep(step, GoodTabs, c)
  BY CloneStepIn DEF IsStep
<1>3. PICK b \in GoodTabs : b = Tab(c, 0, EmptyTable(c))
  BY FreshOK
<1>4. PICK g \in [0 .. c -> GoodTabs] : Solves(g, b, step, c)
  <2> HIDE DEF step
  <2> QED
    BY <1>1, <1>2, <1>3, Solution
<1>5. \A i \in 1 .. c : i - 1 \in 0 .. c
  BY <1>1
<1>6. \A i \in 1 .. c : g[i] = CloneSlot(t, g[i - 1], i)
  BY <1>4, <1>5 DEF Solves
<1>7. g = F(g)
  <2>1. \A i \in 0 .. c : i = 0 \/ i \in 1 .. c
    BY <1>1
  <2>2. g[0] = Tab(c, 0, EmptyTable(c))
    BY <1>3, <1>4 DEF Solves
  <2> QED
    BY <1>4, <1>6, <2>1, <2>2
<1>8. h = F(h)
  BY <1>7 DEF Cloned
<1> HIDE DEF h
<1>9. 0 \in 0 .. c /\ \A i \in 1 .. c : i \in 0 .. c /\ i # 0
  BY <1>1
<1>10. h[0] = Tab(c, 0, EmptyTable(c))
  BY <1>8, <1>9
<1>11. \A i \in 1 .. c : h[i] = CloneSlot(t, h[i - 1], i)
  BY <1>8, <1>9
<1> QED
  BY <1>10, <1>11 DEF h

\* w is a sound table with the names of the first i slots of t, and their entries.
Clones(c, t, w, i) ==
  /\ w \in GoodTabs /\ w.cap = c /\ Counted(w) /\ PathOK(w.table, c)
  /\ w.count <= Cardinality(Used(t, i))
  /\ \A j \in 0 .. i - 1 : IsLive(t[j]) => Holds(w, t[j].name)
  /\ \A s \in 0 .. c - 1 : IsLive(w.table[s]) => \E j \in 0 .. i - 1 : w.table[s] = t[j]

LEMMA UsedStep ==
  ASSUME NEW t, NEW k \in Nat
  PROVE  /\ IsFiniteSet(Used(t, k)) /\ Cardinality(Used(t, k)) \in Nat
         /\ t[k].name # NoName => Cardinality(Used(t, k + 1)) = Cardinality(Used(t, k)) + 1
         /\ t[k].name = NoName => Used(t, k + 1) = Used(t, k)
<1>1. IsFiniteSet(0 .. k - 1)
  BY FS_Interval
<1>2. IsFiniteSet(Used(t, k))
  BY <1>1, FS_Subset DEF Used
<1>3. k \notin Used(t, k)
  BY DEF Used
<1>4. \A j : j \in 0 .. (k + 1) - 1 <=> j \in 0 .. k - 1 \/ j = k
  OBVIOUS
<1>5. ASSUME t[k].name # NoName PROVE Used(t, k + 1) = Used(t, k) \cup {k}
  BY <1>4, <1>5 DEF Used
<1>6. ASSUME t[k].name = NoName PROVE Used(t, k + 1) = Used(t, k)
  BY <1>4, <1>6 DEF Used
<1>7. Cardinality(Used(t, k) \cup {k}) = Cardinality(Used(t, k)) + 1
  BY <1>2, <1>3, FS_AddElement
<1> QED
  BY <1>2, <1>5, <1>6, <1>7, FS_CardinalityType

\* A clone never exceeds the load limit: it counts no more than the original.
LEMMA CloneStep ==
  ASSUME NEW c \in Caps, NEW t \in TableOf(c), Cardinality(Used(t, c)) <= (c * 3) \div 4,
         NEW i \in 1 .. c, NEW w, Clones(c, t, w, i - 1), NEW u, u = CloneSlot(t, w, i)
  PROVE  Clones(c, t, u, i)
<1>1. PICK k \in Nat : k = i - 1 /\ i = k + 1 /\ k \in 0 .. c - 1
  BY DEF Caps
<1>2. Clones(c, t, w, k)
  BY <1>1
<1>3. t[k] \in Slots
  BY <1>1 DEF TableOf
<1>4. \A j : j \in 0 .. i - 1 <=> j \in 0 .. k - 1 \/ j = k
  BY <1>1
<1>5. CASE t[k].name = NoName
  <2>1. u = w
    BY <1>1, <1>5 DEF CloneSlot
  <2>2. Used(t, i) = Used(t, k)
    BY <1>1, <1>5, UsedStep
  <2>3. ~ IsLive(t[k])
    BY <1>5, TableAssumption DEF IsLive
  <2> QED
    BY <1>2, <1>4, <2>1, <2>2, <2>3 DEF Clones
<1>6. CASE t[k].name # NoName
  <2>1. PICK n \in Keys, e \in Entries : n = t[k].name /\ e = t[k].entry /\ t[k] = Slot(n, e)
    BY <1>3, <1>6 DEF Slots, Slot
  <2>2. u = Put(w, n, e)
    BY <1>1, <1>6, <2>1 DEF CloneSlot
  <2>3. w \in Tabs /\ Good(w) /\ w.cap = c /\ Counted(w) /\ PathOK(w.table, c)
    BY <1>2 DEF Clones, GoodTabs
  <2>4. PICK now \in Nat, before \in Nat, max \in Nat :
          now = w.count /\ before = Cardinality(Used(t, k)) /\ max = (c * 3) \div 4
    <3>1. (c * 3) \div 4 \in Nat
      BY DEF Caps
    <3> QED
      BY <2>3, <3>1, TabHas, UsedStep
  <2>5. now + 1 <= max /\ now + 1 <= Cardinality(Used(t, i))
    <3>1. Cardinality(Used(t, i)) = before + 1
      BY <1>1, <1>6, <2>4, UsedStep
    <3>2. Cardinality(Used(t, i)) <= Cardinality(Used(t, c))
      <4>1. Used(t, i) \in SUBSET Used(t, c)
        BY <1>1 DEF Used, Caps
      <4> QED
        BY <4>1, UsedFinite, FS_Subset
    <3>3. now <= before
      BY <1>2, <2>4 DEF Clones
    <3>4. Cardinality(Used(t, c)) \in Nat
      BY UsedFinite
    <3> QED
      BY <2>4, <3>1, <3>2, <3>3, <3>4
  <2>6. ~ ExceededMaxLoad(w)
    BY <2>3, <2>4, <2>5 DEF ExceededMaxLoad
  <2>7. u = Fill(w, n, e)
    BY <2>2, <2>6, PutFills
  <2>8. /\ u \in Tabs /\ u.cap = c /\ Good(u) /\ Keeps(w, u) /\ (n \in Names => Holds(u, n)) /\ Counted(u)
        /\ \E s \in 0 .. c - 1 : Found(w.table, c, n, s) /\ u.table = Write(w.table, s, n, e)
    BY <2>3, <2>6, <2>7, FillOK
  <2>9. PICK s \in 0 .. c - 1 : Found(w.table, c, n, s) /\ u.table = Write(w.table, s, n, e)
    BY <2>8
  <2>10. PICK old \in TableOf(c), new \in TableOf(c) : old = w.table /\ new = u.table
    BY <2>3, <2>8, TabHas
  <2>11. new = Write(old, s, n, e) /\ Found(old, c, n, s) /\ PathOK(old, c)
    BY <2>3, <2>9, <2>10
  <2>12. PathOK(new, c)
    BY <2>11, WritePath
  <2>13. Rest(old, new, s, c) /\ new[s] = Slot(n, e)
    BY <2>11, SlotWritten
  <2>14. u.count <= Cardinality(Used(t, i))
    <3>1. PICK one \in {0, 1} : u.count = now + one
      <4>1. u.count = now + (IF CountsAsNew(w.table[FindValidSlot(w.table, w.cap, n)]) THEN 1 ELSE 0)
        BY <2>4, <2>7 DEF Fill, Tab
      <4> QED
        BY <4>1
    <3>2. Cardinality(Used(t, i)) \in Nat
      BY <1>1, UsedStep
    <3> QED
      BY <2>4, <2>5, <3>1, <3>2
  <2>15. ASSUME NEW j \in 0 .. i - 1, IsLive(t[j]) PROVE Holds(u, t[j].name)
    <3>1. CASE j = k
      BY <2>1, <2>8, <2>15, <3>1 DEF IsLive
    <3>2. CASE j # k
      <4>1. Holds(w, t[j].name) /\ t[j].name \in Names
        BY <1>2, <1>4, <2>15, <3>2 DEF Clones, IsLive
      <4> QED
        BY <2>8, <4>1 DEF Keeps
    <3> QED
      BY <3>1, <3>2
  <2>16. ASSUME NEW r \in 0 .. c - 1, IsLive(new[r]) PROVE \E j \in 0 .. i - 1 : new[r] = t[j]
    <3>1. CASE r = s
      BY <1>4, <2>1, <2>13, <3>1
    <3>2. CASE r # s
      <4>1. new[r] = old[r]
        BY <2>13, <3>2 DEF Rest
      <4>2. PICK j \in 0 .. k - 1 : old[r] = t[j]
        BY <1>2, <2>10, <2>16, <4>1 DEF Clones
      <4> QED
        BY <1>4, <4>1, <4>2
    <3> QED
      BY <3>1, <3>2
  <2> QED
    BY <2>8, <2>10, <2>12, <2>14, <2>15, <2>16 DEF Clones, GoodTabs
<1> QED
  BY <1>5, <1>6

LEMMA ClonedOK ==
  ASSUME NEW c \in Caps, NEW t \in TableOf(c), Cardinality(Used(t, c)) <= (c * 3) \div 4
  PROVE  Clones(c, t, Cloned(c, t)[c], c)
<1> DEFINE Done == {i \in 0 .. c : Clones(c, t, Cloned(c, t)[i], i)}
<1>1. c \in Nat
  BY DEF Caps
<1>2. 0 \in Done
  <2>1. PICK v : v = Tab(c, 0, EmptyTable(c))
    OBVIOUS
  <2>2. v \in GoodTabs /\ v.cap = c /\ v.count = 0 /\ Counted(v) /\ PathOK(v.table, c)
        /\ \A s \in 0 .. c - 1 : v.table[s].name = NoName
    BY <2>1, FreshOK
  <2>3. Used(t, 0) = {}
    BY DEF Used
  <2>4. 0 <= Cardinality(Used(t, 0))
    <3>1. Cardinality(Used(t, 0)) = 0
      BY <2>3, FS_EmptySet
    <3> QED
      BY <3>1
  <2>5. Clones(c, t, v, 0)
    BY <2>2, <2>4, TableAssumption DEF Clones, IsLive
  <2> QED
    BY <1>1, <2>1, <2>5, ClonedSteps
<1>3. ASSUME NEW i \in 1 .. c, i - 1 \in Done PROVE i \in Done
  <2>1. PICK w : w = Cloned(c, t)[i - 1]
    OBVIOUS
  <2>2. Cloned(c, t)[i] = CloneSlot(t, w, i)
    BY <2>1, ClonedSteps
  <2>3. Clones(c, t, w, i - 1)
    BY <1>3, <2>1
  <2>4. Clones(c, t, Cloned(c, t)[i], i)
    BY <2>2, <2>3, CloneStep
  <2> QED
    BY <1>1, <2>4
<1>4. c \in Done
  <2> HIDE DEF Done
  <2> QED
    BY <1>1, <1>2, <1>3, UpTo
<1> QED
  BY <1>4

-----------------------------------------------------------------------------
(* The inductive invariant *)

\* The table binds what the calls so far have bound, and nothing else.
Agrees(v, def) ==
  /\ \A n \in Names : Holds(v, n) => n \in DOMAIN def
  /\ \A s \in 0 .. v.cap - 1 : IsLive(v.table[s]) => v.table[s].entry = def[v.table[s].name]

Bindings(def) == DOMAIN def \subseteq Names /\ \A n \in DOMAIN def : def[n] \in Entries
Survive(v, def) == \A n \in DOMAIN def : Holds(v, n)
First(v, def) == PathOK(v.table, v.cap) /\ Agrees(v, def)

Valid(v, def) ==
  /\ v \in Tabs /\ Good(v) /\ v.cap >= InitialCap
  /\ Bindings(def) /\ Survive(v, def)
  /\ v.cap <= 2 * InitialCap => Counted(v)
  /\ v.cap = InitialCap => First(v, def)

IInv == Valid(Current, defined)

LEMMA PathDistinct ==
  ASSUME NEW v \in Tabs, PathOK(v.table, v.cap)
  PROVE  Distinct(v)
<1>4. PICK c \in Caps : c = v.cap
  BY TabHas
<1>5. PICK t : t = v.table
  OBVIOUS
<1>1. c = v.cap /\ t = v.table
  BY <1>4, <1>5
<1>2. SUFFICES ASSUME NEW s \in LiveSlots(v), NEW r \in LiveSlots(v), t[s].name = t[r].name PROVE s = r
  BY <1>1 DEF Distinct
<1>3. s \in 0 .. c - 1 /\ r \in 0 .. c - 1 /\ IsLive(t[s]) /\ PathOK(t, c)
  BY <1>1 DEF LiveSlots
<1> QED
  BY <1>2, <1>3, OneSlot

LEMMA FreshValid ==
  ASSUME NEW v, NEW c \in Caps, c >= InitialCap, v = Tab(c, 0, EmptyTable(c)), NEW def, def = [n \in {} |-> AnyEntry]
  PROVE  Valid(v, def)
<1>1. v \in GoodTabs /\ v.cap = c /\ Counted(v) /\ PathOK(v.table, c) /\ \A s \in 0 .. c - 1 : v.table[s].name = NoName
  BY FreshOK
<1>2. Agrees(v, def)
  BY <1>1, TableAssumption DEF Agrees, Holds, Has, IsLive
<1>3. Bindings(def) /\ Survive(v, def)
  BY DEF Bindings, Survive
<1> QED
  BY <1>1, <1>2, <1>3 DEF Valid, First, GoodTabs

LEMMA SetValid ==
  ASSUME NEW v, NEW def, Valid(v, def), NEW n \in Names, NEW e \in Entries, NEW w, w = Put(v, n, e),
         NEW now, now = [m \in DOMAIN def \cup {n} |-> IF m = n THEN e ELSE def[m]]
  PROVE  Valid(w, now)
<1>1. v \in Tabs /\ Good(v) /\ n \in Keys /\ Bindings(def) /\ Survive(v, def)
  BY DEF Valid, Keys
<1>2. PICK c \in Caps : c = v.cap /\ c >= InitialCap /\ InitialCap \in Caps
  BY TabHas, TableAssumption DEF Valid, Caps
<1>3. /\ w \in Tabs /\ w.cap = (IF ExceededMaxLoad(v) THEN 2 * c ELSE c)
      /\ Good(w) /\ Keeps(v, w) /\ Holds(w, n)
      /\ (IF ExceededMaxLoad(v) THEN Distinct(v) ELSE Counted(v)) => Counted(w)
  BY <1>1, <1>2, PutOK
<1>4. DOMAIN now = DOMAIN def \cup {n} /\ now[n] = e /\ \A m \in DOMAIN def : m # n => now[m] = def[m]
  OBVIOUS
<1>5. Bindings(now)
  BY <1>1, <1>4 DEF Bindings
<1>6. Survive(w, now)
  BY <1>1, <1>3, <1>4 DEF Survive, Keeps, Bindings
<1>7. w.cap >= InitialCap
  BY <1>2, <1>3 DEF Caps
<1>8. ASSUME w.cap <= 2 * InitialCap PROVE Counted(w)
  <2>1. CASE ExceededMaxLoad(v)
    <3>1. c = InitialCap
      BY <1>2, <1>3, <1>8, <2>1 DEF Caps
    <3>2. Distinct(v)
      BY <1>1, <1>2, <3>1, PathDistinct DEF Valid, First
    <3> QED
      BY <1>3, <2>1, <3>2
  <2>2. CASE ~ ExceededMaxLoad(v)
    <3>1. Counted(v)
      BY <1>2, <1>3, <1>8, <2>2 DEF Valid
    <3> QED
      BY <1>3, <2>2, <3>1
  <2> QED
    BY <2>1, <2>2
<1>9. ASSUME w.cap = InitialCap PROVE First(w, now)
  <2>1. ~ ExceededMaxLoad(v) /\ c = InitialCap /\ w.cap = c
    BY <1>2, <1>3, <1>9 DEF Caps
  <2>2. PathOK(v.table, c) /\ Agrees(v, def)
    BY <1>2, <2>1 DEF Valid, First
  <2>3. w = Fill(v, n, e)
    BY <2>1, PutFills
  <2>4. PICK s \in 0 .. c - 1 : Found(v.table, c, n, s) /\ w.table = Write(v.table, s, n, e)
    BY <1>1, <1>2, <2>1, <2>3, FillOK
  <2>5. PICK t \in TableOf(c) : t = v.table
    BY <1>1, <1>2, TabHas
  <2>6. PICK u : u = w.table /\ u = Write(t, s, n, e)
    BY <2>4, <2>5
  <2>7. Found(t, c, n, s) /\ PathOK(t, c)
    BY <2>2, <2>4, <2>5
  <2>8. PathOK(u, c)
    BY <1>1, <2>6, <2>7, WritePath
  <2>9. Rest(t, u, s, c) /\ u[s] = Slot(n, e)
    BY <1>1, <2>6, SlotWritten
  <2>10. ASSUME NEW r \in 0 .. c - 1, IsLive(u[r]) PROVE u[r].name \in DOMAIN now /\ u[r].entry = now[u[r].name]
    <3>1. CASE r = s
      BY <1>4, <2>9, <3>1 DEF Slot
    <3>2. CASE r # s
      <4>1. PICK m \in Names : u[r] = t[r] /\ m = t[r].name
        BY <2>9, <2>10, <3>2 DEF Rest, IsLive
      <4>2. Has(t, c, m)
        BY <4>1 DEF Has
      <4>3. m # n
        <5>1. SUFFICES ASSUME m = n PROVE FALSE
          OBVIOUS
        <5>2. t[s].name = m
          BY <1>1, <2>7, <4>2, <5>1, FoundIsTheSlot
        <5> QED
          BY <2>7, <3>2, <4>1, <5>2, OneSlot DEF IsLive
      <4>4. m \in DOMAIN def /\ t[r].entry = def[m]
        BY <1>2, <2>2, <2>5, <4>1, <4>2 DEF Agrees, Holds, IsLive
      <4> QED
        BY <1>4, <4>1, <4>3, <4>4
    <3> QED
      BY <3>1, <3>2
  <2>11. ASSUME NEW m \in Names, Has(u, c, m) PROVE m \in DOMAIN now
    <3>1. PICK r \in 0 .. c - 1 : u[r].name = m
      BY <2>11 DEF Has
    <3> QED
      BY <2>10, <3>1 DEF IsLive
  <2> QED
    BY <2>1, <2>6, <2>8, <2>10, <2>11 DEF First, Agrees, Holds
<1> QED
  BY <1>3, <1>5, <1>6, <1>7, <1>8, <1>9 DEF Valid

\* What VartabDelete finds is the slot of its name.
LEMMA FindGood ==
  ASSUME NEW v \in Tabs, Good(v), NEW n \in Names
  PROVE  Found(v.table, v.cap, n, FindValidSlot(v.table, v.cap, n))
<1>1. PICK c \in Caps : c = v.cap
  BY TabHas
<1>2. PICK t \in TableOf(c) : t = v.table
  BY <1>1, TabHas
<1>3. Cardinality(Used(t, c)) < c
  <2>1. (c * 3) \div 4 < c /\ (c * 3) \div 4 \in Nat
    BY DEF Caps
  <2>2. PICK used \in Nat, k \in Nat, max \in Nat :
          used = Cardinality(Used(t, c)) /\ k = v.count /\ max = (c * 3) \div 4
    BY <2>1, TabHas, UsedFinite
  <2>3. used <= k /\ k <= max
    BY <1>1, <1>2, <2>2 DEF Good
  <2> QED
    BY <2>1, <2>2, <2>3 DEF Caps
<1>4. PICK x \in 0 .. c - 1 : t[x].name = NoName
  BY <1>3, HasEmpty
<1>5. c <= c /\ n \in Keys
  BY DEF Caps, Keys
<1>6. Found(t, c, n, FindValidSlot(t, c, n))
  BY <1>4, <1>5, FindFinds
<1> QED
  BY <1>1, <1>2, <1>6

LEMMA DeleteValid ==
  ASSUME NEW v, NEW def, Valid(v, def), NEW n \in Names, NEW s, s = FindValidSlot(v.table, v.cap, n), IsLive(v.table[s]),
         NEW u, u = Write(v.table, s, Tombstone, AnyEntry), NEW w, w = Tab(v.cap, v.count, u),
         NEW now, now = [m \in DOMAIN def \ {n} |-> def[m]]
  PROVE  Valid(w, now)
<1>1. v \in Tabs /\ Good(v) /\ Bindings(def) /\ Survive(v, def)
  BY DEF Valid
<1>2. PICK c \in Caps, k \in Nat : c = v.cap /\ k = v.count
  BY <1>1, TabHas
<1>3. PICK t \in TableOf(c) : t = v.table
  BY <1>1, <1>2, TabHas
<1>4. Tombstone \in Keys /\ AnyEntry \in Entries /\ n \in Keys /\ Tombstone \notin Names /\ NoName \notin Names
  BY TableAssumption DEF Keys, AnyEntry
<1>5. Found(t, c, n, s)
  BY <1>1, <1>2, <1>3, FindGood
<1>6. s \in 0 .. c - 1 /\ t[s].name = n
  BY <1>3, <1>4, <1>5, FoundIn DEF IsLive
<1>7. u = Write(t, s, Tombstone, AnyEntry)
  BY <1>3
<1>8. Rest(t, u, s, c) /\ u[s] = Slot(Tombstone, AnyEntry)
  BY <1>4, <1>6, <1>7, SlotWritten
<1>9. w \in Tabs /\ w.cap = c /\ w.count = k /\ w.table = u
  BY <1>2, <1>8, TabIn DEF Rest
<1>10. Cardinality(Used(u, c)) = Cardinality(Used(t, c))
  <2>1. ~ CountsAsNew(t[s])
    BY <1>4, <1>6 DEF CountsAsNew
  <2>2. Cardinality(Used(u, c)) = Cardinality(Used(t, c)) + (IF CountsAsNew(t[s]) THEN 1 ELSE 0)
    BY <1>4, <1>6, <1>7, UsedMore
  <2> QED
    BY <2>1, <2>2, UsedFinite
<1>11. Good(w) /\ (Counted(v) => Counted(w))
  BY <1>1, <1>2, <1>3, <1>9, <1>10 DEF Good, Counted
<1>12. DOMAIN now = DOMAIN def \ {n} /\ \A m \in DOMAIN now : now[m] = def[m]
  OBVIOUS
<1>13. Bindings(now)
  BY <1>1, <1>12 DEF Bindings
<1>14. Survive(w, now)
  <2>1. SUFFICES ASSUME NEW m \in DOMAIN def, m # n PROVE Has(u, c, m)
    BY <1>9, <1>12 DEF Survive, Holds
  <2>2. PICK r \in 0 .. c - 1 : t[r].name = m
    BY <1>1, <1>2, <1>3 DEF Survive, Holds, Has
  <2>3. u[r].name = m
    BY <1>6, <1>8, <2>1, <2>2 DEF Rest
  <2> QED
    BY <2>3 DEF Has
<1>15. ASSUME c = InitialCap PROVE First(w, now)
  <2>1. PathOK(t, c) /\ Agrees(v, def)
    BY <1>2, <1>3, <1>15 DEF Valid, First
  <2>2. PathOK(u, c)
    BY <1>4, <1>6, <1>7, <2>1, DigPath
  <2>3. ASSUME NEW r \in 0 .. c - 1, IsLive(u[r]) PROVE u[r].name \in DOMAIN now /\ u[r].entry = now[u[r].name]
    <3>1. r # s
      BY <1>4, <1>8, <2>3 DEF IsLive, Slot
    <3>2. PICK m \in Names : u[r] = t[r] /\ m = t[r].name
      BY <1>8, <2>3, <3>1 DEF Rest, IsLive
    <3>3. m # n
      BY <1>6, <2>1, <3>1, <3>2, OneSlot DEF IsLive
    <3>4. Has(t, c, m)
      BY <3>2 DEF Has
    <3>5. m \in DOMAIN def /\ t[r].entry = def[m]
      BY <1>2, <1>3, <2>1, <3>2, <3>4 DEF Agrees, Holds, IsLive
    <3> QED
      BY <1>12, <3>2, <3>3, <3>5
  <2>4. ASSUME NEW m \in Names, Has(u, c, m) PROVE m \in DOMAIN now
    <3>1. PICK r \in 0 .. c - 1 : u[r].name = m
      BY <2>4 DEF Has
    <3> QED
      BY <2>3, <3>1 DEF IsLive
  <2>5. \A m \in Names : Holds(w, m) => m \in DOMAIN now
    BY <1>9, <2>4 DEF Holds
  <2>6. \A r \in 0 .. w.cap - 1 : IsLive(w.table[r]) => w.table[r].entry = now[w.table[r].name]
    BY <1>9, <2>3
  <2> QED
    BY <1>9, <2>2, <2>5, <2>6 DEF First, Agrees
<1> QED
  BY <1>2, <1>9, <1>11, <1>13, <1>14, <1>15 DEF Valid

LEMMA CloneValid ==
  ASSUME NEW v, NEW def, Valid(v, def), NEW w, w = Cloned(v.cap, v.table)[v.cap]
  PROVE  Valid(w, def)
<1>1. v \in Tabs /\ Good(v) /\ v.cap >= InitialCap /\ Bindings(def) /\ Survive(v, def)
  BY DEF Valid
<1>2. PICK c \in Caps : c = v.cap
  BY <1>1, TabHas
<1>3. PICK t \in TableOf(c) : t = v.table
  BY <1>1, <1>2, TabHas
<1>4. Cardinality(Used(t, c)) <= (c * 3) \div 4
  <2>1. PICK used \in Nat, k \in Nat, max \in Int :
          used = Cardinality(Used(t, c)) /\ k = v.count /\ max = (c * 3) \div 4
    <3>1. (c * 3) \div 4 \in Int
      BY DEF Caps
    <3> QED
      BY <1>1, <3>1, TabHas, UsedFinite
  <2>2. used <= k /\ k <= max
    BY <1>1, <1>2, <1>3, <2>1 DEF Good
  <2> QED
    BY <2>1, <2>2
<1>5. Clones(c, t, w, c)
  BY <1>2, <1>3, <1>4, ClonedOK
<1>6. w \in Tabs /\ Good(w) /\ w.cap = c /\ Counted(w) /\ PathOK(w.table, c)
  BY <1>5 DEF Clones, GoodTabs
<1>7. Survive(w, def)
  <2>1. SUFFICES ASSUME NEW n \in DOMAIN def PROVE Holds(w, n)
    BY DEF Survive
  <2>2. PICK j \in 0 .. c - 1 : t[j].name = n
    BY <1>1, <1>2, <1>3 DEF Survive, Holds, Has
  <2>3. n \in Names
    BY <1>1 DEF Bindings
  <2> QED
    BY <1>5, <2>2, <2>3 DEF Clones, IsLive
<1>8. ASSUME c = InitialCap PROVE Agrees(w, def)
  <2>1. Agrees(v, def)
    BY <1>2, <1>8 DEF Valid, First
  <2>2. ASSUME NEW s \in 0 .. c - 1, IsLive(w.table[s])
        PROVE  w.table[s].name \in DOMAIN def /\ w.table[s].entry = def[w.table[s].name]
    <3>1. PICK j \in 0 .. c - 1 : w.table[s] = t[j]
      BY <1>5, <2>2 DEF Clones
    <3>2. IsLive(t[j]) /\ Has(t, c, t[j].name)
      BY <2>2, <3>1 DEF Has
    <3> QED
      BY <1>2, <1>3, <2>1, <3>1, <3>2 DEF Agrees, Holds, IsLive
  <2>3. ASSUME NEW n \in Names, Holds(w, n) PROVE n \in DOMAIN def
    <3>1. PICK s \in 0 .. c - 1 : w.table[s].name = n
      BY <1>6, <2>3 DEF Holds, Has
    <3> QED
      BY <2>2, <3>1 DEF IsLive
  <2> QED
    BY <1>6, <2>2, <2>3 DEF Agrees
<1> QED
  BY <1>1, <1>2, <1>6, <1>7, <1>8 DEF Valid, First

-----------------------------------------------------------------------------
(* The theorems *)

LEMMA CurrentIs ==
  ASSUME Current \in Tabs
  PROVE  /\ cap \in Caps /\ count \in Nat /\ table \in TableOf(cap)
         /\ Current.cap = cap /\ Current.count = count /\ Current.table = table
BY DEF Current, Tab, Tabs

LEMMA BecomeIs ==
  ASSUME NEW w \in Tabs, Become(w)
  PROVE  Current' = w
BY DEF Become, Current, Tab, Tabs

LEMMA IInvInit == Init => IInv
<1>1. SUFFICES ASSUME Init PROVE IInv
  OBVIOUS
<1>2. PICK c \in Caps : c = InitialCap /\ c >= InitialCap
  BY TableAssumption DEF Caps
<1>3. Current = Tab(c, 0, EmptyTable(c)) /\ defined = [n \in {} |-> AnyEntry]
  BY <1>1, <1>2 DEF Init, Current
<1> QED
  BY <1>2, <1>3, FreshValid DEF IInv

LEMMA IInvSet ==
  ASSUME IInv, NEW n \in Names, NEW e \in Entries, Set(n, e)
  PROVE  IInv'
<1>1. PICK v : v = Current
  OBVIOUS
<1>2. PICK def : def = defined
  OBVIOUS
<1>3. PICK w : w = Put(v, n, e)
  OBVIOUS
<1>4. PICK now : now = [m \in DOMAIN def \cup {n} |-> IF m = n THEN e ELSE def[m]]
  OBVIOUS
<1>5. Valid(v, def)
  BY <1>1, <1>2 DEF IInv
<1>6. Valid(w, now)
  BY <1>3, <1>4, <1>5, SetValid
<1>7. Become(w) /\ defined' = now
  BY <1>1, <1>2, <1>3, <1>4 DEF Set
<1>8. Current' = w
  BY <1>6, <1>7, BecomeIs DEF Valid
<1> QED
  BY <1>6, <1>7, <1>8 DEF IInv

LEMMA IInvDelete ==
  ASSUME IInv, NEW n \in Names, Delete(n)
  PROVE  IInv'
<1>1. PICK v : v = Current
  OBVIOUS
<1>2. PICK def : def = defined
  OBVIOUS
<1>3. v.cap = cap /\ v.count = count /\ v.table = table /\ cap \in Caps /\ count \in Nat
  BY <1>1, CurrentIs DEF IInv, Valid
<1>4. PICK s : s = FindValidSlot(v.table, v.cap, n)
  OBVIOUS
<1>5. PICK u : u = Write(v.table, s, Tombstone, AnyEntry)
  OBVIOUS
<1>6. PICK w : w = Tab(v.cap, v.count, u)
  OBVIOUS
<1>7. PICK now : now = [m \in DOMAIN def \ {n} |-> def[m]]
  OBVIOUS
<1>8. Valid(v, def)
  BY <1>1, <1>2 DEF IInv
<1>9. IsLive(v.table[s]) /\ table' = u /\ cap' = v.cap /\ count' = v.count /\ defined' = now
  BY <1>2, <1>3, <1>4, <1>5, <1>7 DEF Delete, Write, Grave
<1>10. Valid(w, now)
  BY <1>4, <1>5, <1>6, <1>7, <1>8, <1>9, DeleteValid
<1>11. Current' = w
  BY <1>6, <1>9 DEF Current
<1> QED
  BY <1>9, <1>10, <1>11 DEF IInv

LEMMA IInvReset ==
  ASSUME IInv, Reset
  PROVE  IInv'
<1>1. PICK c \in Caps : c = cap /\ c >= InitialCap
  BY CurrentIs DEF IInv, Valid
<1>2. Current' = Tab(c, 0, EmptyTable(c)) /\ defined' = [n \in {} |-> AnyEntry]
  BY <1>1 DEF Reset, Current
<1>3. PICK w : w = Tab(c, 0, EmptyTable(c))
  OBVIOUS
<1>4. PICK now : now = [n \in {} |-> AnyEntry]
  OBVIOUS
<1>5. Valid(w, now)
  BY <1>1, <1>3, <1>4, FreshValid
<1> QED
  BY <1>2, <1>3, <1>4, <1>5 DEF IInv

LEMMA IInvClone ==
  ASSUME IInv, Clone
  PROVE  IInv'
<1>1. PICK v : v = Current
  OBVIOUS
<1>2. v.cap = cap /\ v.table = table
  BY <1>1, CurrentIs DEF IInv, Valid
<1>3. PICK w : w = Cloned(v.cap, v.table)[v.cap]
  OBVIOUS
<1>4. PICK def : def = defined /\ Valid(v, def)
  BY <1>1 DEF IInv
<1>5. Valid(w, def)
  BY <1>3, <1>4, CloneValid
<1>6. Become(w) /\ defined' = def
  BY <1>2, <1>3, <1>4, CloneIs
<1>7. Current' = w
  BY <1>5, <1>6, BecomeIs DEF Valid
<1> QED
  BY <1>5, <1>6, <1>7 DEF IInv

\* The strengthened invariant of the table holds whatever is set, deleted,
\* reset and cloned, through any number of resizes (Vartab.c).
THEOREM Inductive == Spec => []IInv
<1>1. Init => IInv
  BY IInvInit
<1>2. IInv /\ [Next]_vars => IInv'
  <2>1. SUFFICES ASSUME IInv, [Next]_vars PROVE IInv'
    OBVIOUS
  <2>2. CASE UNCHANGED vars
    BY <2>1, <2>2 DEF vars, IInv, Current
  <2>3. ASSUME NEW n \in Names, NEW e \in Entries, Set(n, e) PROVE IInv'
    BY <2>1, <2>3, IInvSet
  <2>4. ASSUME NEW n \in Names, Delete(n) PROVE IInv'
    BY <2>1, <2>4, IInvDelete
  <2>5. CASE Reset
    BY <2>1, <2>5, IInvReset
  <2>6. CASE Clone
    BY <2>1, <2>6, IInvClone
  <2> QED
    BY <2>1, <2>2, <2>3, <2>4, <2>5, <2>6 DEF Next
<1> QED
  BY <1>1, <1>2, PTL DEF Spec

LEMMA LoadBelow ==
  ASSUME NEW v \in Tabs, Good(v)
  PROVE  v.count < v.cap
<1>1. PICK c \in Caps, k \in Nat : c = v.cap /\ k = v.count
  BY TabHas
<1>2. k <= (c * 3) \div 4
  BY <1>1 DEF Good
<1>3. (c * 3) \div 4 < c /\ (c * 3) \div 4 \in Nat
  BY DEF Caps
<1> QED
  BY <1>1, <1>2, <1>3 DEF Caps

\* Slots hold names, graves or nothing, and Count is within the table
\* (Vartab.c: VartabSet, VartabResize).
THEOREM TypeCorrect == Spec => []TypeOK
<1>1. IInv => TypeOK
  <2>1. SUFFICES ASSUME IInv PROVE TypeOK
    OBVIOUS
  <2>2. /\ cap \in Caps /\ count \in Nat /\ table \in TableOf(cap)
        /\ Current.cap = cap /\ Current.count = count
    BY <2>1, CurrentIs DEF IInv, Valid
  <2>3. count < cap
    BY <2>1, <2>2, LoadBelow DEF IInv, Valid
  <2>4. DOMAIN defined \subseteq Names /\ \A n \in DOMAIN defined : defined[n] \in Entries
    BY <2>1 DEF IInv, Valid, Bindings
  <2>5. cap \in Nat /\ count \in 0 .. cap
    BY <2>2, <2>3 DEF Caps
  <2>6. table \in [0 .. cap - 1 -> [name : Names \cup {Tombstone, NoName}, entry : Entries]]
    <3>1. Slots = [name : Names \cup {Tombstone, NoName}, entry : Entries]
      <4>1. Keys \cup {NoName} = Names \cup {Tombstone, NoName}
        BY DEF Keys
      <4> QED
        BY <4>1 DEF Slots
    <3> QED
      BY <2>2, <3>1 DEF TableOf
  <2> QED
    BY <2>4, <2>5, <2>6 DEF TypeOK
<1> QED
  BY <1>1, Inductive, PTL

\* No slot in use goes uncounted, so that an empty one is always left and a
\* probe always ends (Vartab.c: VartabFindValidSlot, "Table does not contain").
THEOREM ProbesEnd == Spec => []CountIsUsedSlots
<1>1. IInv => CountIsUsedSlots
  <2>1. SUFFICES ASSUME IInv PROVE CountIsUsedSlots
    OBVIOUS
  <2>2. Current.cap = cap /\ Current.count = count /\ Current.table = table
    BY <2>1, CurrentIs DEF IInv, Valid
  <2>3. UsedSlots = Used(table, cap)
    BY DEF UsedSlots, Used
  <2>4. count < cap
    BY <2>1, <2>2, LoadBelow DEF IInv, Valid
  <2>5. Cardinality(UsedSlots) <= count
    BY <2>1, <2>2, <2>3 DEF IInv, Valid, Good
  <2>6. cap <= 2 * InitialCap => count = Cardinality(UsedSlots)
    BY <2>1, <2>2, <2>3 DEF IInv, Valid, Counted
  <2> QED
    BY <2>4, <2>5, <2>6 DEF CountIsUsedSlots
<1> QED
  BY <1>1, Inductive, PTL

\* As long as a table has its first size, looking a name up gives what it was
\* last set to, whatever collides, is deleted or cloned (Vartab.c:
\* VartabFindWithHash).
THEOREM LookupsRight == Spec => []LookupsAgree
<1>1. IInv => LookupsAgree
  <2>1. SUFFICES ASSUME IInv, ~ Grown, NEW n \in Names
                 PROVE  Lookup(n) = IF n \in DOMAIN defined THEN {defined[n]} ELSE {}
    BY DEF LookupsAgree
  <2>2. PICK c \in Caps : c = cap /\ Current.cap = c /\ Current.table = table
    BY <2>1, CurrentIs DEF IInv, Valid
  <2>3. PICK t \in TableOf(c) : t = table
    BY <2>1, <2>2, CurrentIs DEF IInv, Valid
  <2>4. c = InitialCap
    BY <2>1, <2>2, TableAssumption DEF IInv, Valid, Grown, Caps
  <2>5. PathOK(t, c) /\ Agrees(Current, defined) /\ Survive(Current, defined)
    BY <2>1, <2>2, <2>3, <2>4 DEF IInv, Valid, First
  <2>6. PICK s : s = FindValidSlot(t, c, n)
    OBVIOUS
  <2>7. Found(t, c, n, s)
    BY <2>1, <2>2, <2>3, <2>6, FindGood DEF IInv, Valid
  <2>8. n \in Keys
    BY DEF Keys
  <2>9. s \in 0 .. c - 1 /\ t[s].name \in {n, Tombstone, NoName} /\ s # NoSlot
    <3>1. s \in 0 .. c - 1 /\ t[s].name \in {n, Tombstone, NoName}
      BY <2>7, <2>8, FoundIn
    <3> QED
      BY <3>1 DEF NoSlot
  <2>10. Has(t, c, n) <=> t[s].name = n
    BY <2>5, <2>7, FoundIsTheSlot
  <2>11. n \in DOMAIN defined <=> Has(t, c, n)
    BY <2>2, <2>3, <2>5 DEF Agrees, Survive, Holds
  <2>12. IsLive(t[s]) <=> t[s].name = n
    BY <2>9, TableAssumption DEF IsLive
  <2>13. Lookup(n) = IF IsLive(t[s]) THEN {t[s].entry} ELSE {}
    BY <2>2, <2>3, <2>6, <2>9 DEF Lookup
  <2>14. IsLive(t[s]) => t[s].entry = defined[n]
    BY <2>2, <2>3, <2>5, <2>9, <2>12 DEF Agrees
  <2> QED
    BY <2>10, <2>11, <2>12, <2>13, <2>14
<1> QED
  BY <1>1, Inductive, PTL

\* No resize or clone drops an entry, however many there are (Vartab.c:
\* VartabResize, VartabClone).
THEOREM NothingLost == Spec => []EntriesSurvive
<1>1. IInv => EntriesSurvive
  <2>1. SUFFICES ASSUME IInv, NEW n \in DOMAIN defined PROVE n \in {table[i].name : i \in 0 .. cap - 1}
    BY DEF EntriesSurvive
  <2>2. Current.cap = cap /\ Current.table = table
    BY <2>1, CurrentIs DEF IInv, Valid
  <2>3. Has(table, cap, n)
    BY <2>1, <2>2 DEF IInv, Valid, Survive, Holds
  <2> QED
    BY <2>3 DEF Has
<1> QED
  BY <1>1, Inductive, PTL

=============================================================================
