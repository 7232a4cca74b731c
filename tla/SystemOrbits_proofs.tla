-------------------------- MODULE SystemOrbits_proofs --------------------------
(***************************************************************************)
(* A star system for any rows and any rolls.  The invariant of generation  *)
(* (OrbitsInv) says, phase by phase, what the orbits hold: nothing that is *)
(* the main world before its step and one thing after it; the rows placed  *)
(* so far; and, of a planet a row placed, no satellites before they are    *)
(* rolled and afterwards as many as were rolled and as rows added.         *)
(* At the end, stars and zones for any rolls (StarsInv).                   *)
(***************************************************************************)
EXTENDS SystemOrbits, FoldTheorems, SequenceTheorems

LEMMA MaxOfTwo ==
  ASSUME NEW m \in Int, NEW n \in Int
  PROVE  Max({m, n}) = IF m >= n THEN m ELSE n
<1>1. PICK x \in {m, n} : \A y \in {m, n} : x >= y
  OBVIOUS
<1>2. Max({m, n}) \in {m, n} /\ \A y \in {m, n} : Max({m, n}) >= y
  BY <1>1 DEF Max
<1> QED BY <1>2

MoonType == [orbit : Nat, ring : BOOLEAN, main : BOOLEAN]
Whats == {"Free", "Blocked", "World", "Giant", "primary", "secondary", "tertiary"}
RowType == {"rolled", "main", "empty", "planet", "belt"} \X Nat
BodyType == [what : Whats, row : RowType, solid : BOOLEAN, moons : Seq(MoonType)]

LEMMA MaxOfSet ==
  ASSUME NEW S, S \subseteq Nat, IsFiniteSet(S), S # {}
  PROVE  Max(S) \in S /\ \A x \in S : x <= Max(S)
<1> DEFINE T == {n \in Nat : \A s \in SUBSET S : Cardinality(s) = n /\ s # {} =>
                              \E m \in s : \A x \in s : m >= x}
<1>1. \A s \in SUBSET S : IsFiniteSet(s) /\ Cardinality(s) \in Nat
  BY FS_Subset, FS_CardinalityType
<1>2. 0 \in T
  BY <1>1, FS_EmptySet
<1>3. ASSUME NEW n \in T \cap Nat PROVE n + 1 \in T
  <2> SUFFICES ASSUME NEW s \in SUBSET S, Cardinality(s) = n + 1
               PROVE  \E m \in s : \A x \in s : m >= x
    OBVIOUS
  <2>1. PICK y \in s : TRUE
    <3>1. n \in Nat
      BY <1>3
    <3>2. IsFiniteSet(s) /\ Cardinality(s) # 0
      BY <1>1, <3>1
    <3> QED BY <3>2, FS_EmptySet
  <2>2. Cardinality(s \ {y}) = n /\ s \ {y} \in SUBSET S
    <3>1. n \in Nat
      BY <1>3
    <3>2. IsFiniteSet(s) /\ y \in s
      BY <1>1, <2>1
    <3>3. Cardinality(s \ {y}) = Cardinality(s) - 1
      BY <3>2, FS_RemoveElement
    <3> QED BY <3>1, <3>3
  <2>3. CASE s \ {y} = {}
    BY <2>1, <2>3
  <2>4. CASE s \ {y} # {}
    <3>1. PICK m \in s \ {y} : \A x \in s \ {y} : m >= x
      BY <1>3, <2>2, <2>4
    <3> QED BY <3>1, <2>1
  <2> QED BY <2>3, <2>4
<1>4. Nat \subseteq T
  <2> HIDE DEF T
  <2> QED BY <1>2, <1>3, SetInduction
<1>5. PICK m \in S : \A x \in S : m >= x
  BY <1>1, <1>4
<1>6. Max(S) \in S /\ \A x \in S : Max(S) >= x
  BY <1>5 DEF Max
<1> QED BY <1>6

LEMMA MinOfSet ==
  ASSUME NEW S, S \subseteq Nat, S # {}
  PROVE  Min(S) \in S /\ \A x \in S : Min(S) <= x
<1>1. PICK m \in S : \A x \in S : m <= x
  BY LeastNatural
<1> QED BY <1>1 DEF Min

LEMMA FreeIsBody == {Free, Blocked} \subseteq BodyType /\ Rolled \in RowType /\ Main \in RowType
<1>1. Rolled \in RowType /\ Main \in RowType
  BY DEF Rolled, Main, RowType
<1>2. <<>> \in Seq(MoonType)
  OBVIOUS
<1>3. "Free" \in Whats /\ "Blocked" \in Whats
  BY DEF Whats
<1>4. \A w \in Whats : Body(w, Rolled, FALSE) \in BodyType
  BY <1>1, <1>2 DEF Body, BodyType
<1> QED BY <1>1, <1>3, <1>4 DEF Free, Blocked

LEMMA NewBody ==
  ASSUME NEW w \in Whats, NEW r \in RowType, NEW b \in BOOLEAN
  PROVE  Body(w, r, b) \in BodyType
<1>1. <<>> \in Seq(MoonType)
  OBVIOUS
<1> QED BY <1>1 DEF Body, BodyType

LEMMA AtBody ==
  ASSUME NEW seq \in Seq(BodyType), NEW o \in Nat
  PROVE  At(seq, o) \in BodyType /\ (At(seq, o) # Free => o < Len(seq))
BY FreeIsBody DEF At

LEMMA UnusedAre ==
  ASSUME NEW seq \in Seq(BodyType)
  PROVE  /\ IsFiniteSet(Unused(seq)) /\ Unused(seq) \subseteq 0 .. Len(seq) - 1
         /\ \A o \in Nat : o \in Unused(seq) <=> o < Len(seq) /\ At(seq, o) = Free
<1>1. IsFiniteSet(0 .. Len(seq) - 1) /\ Unused(seq) \in SUBSET (0 .. Len(seq) - 1)
  BY FS_Interval DEF Unused
<1>2. IsFiniteSet(Unused(seq))
  BY <1>1, FS_Subset
<1> QED BY <1>1, <1>2 DEF Unused

\* set_orbit_slot changes the orbits it is orbitOf and no others.
PutIn(seq, new, os, body) ==
  /\ new \in Seq(BodyType) /\ Len(new) >= Len(seq)
  /\ os \subseteq 0 .. Len(seq) - 1 => Len(new) = Len(seq)
  /\ \A o \in Nat : At(new, o) = IF o \in os THEN body ELSE At(seq, o)
LEMMA PutAt ==
  ASSUME NEW seq \in Seq(BodyType), NEW os, os \subseteq Nat, IsFiniteSet(os), NEW body \in BodyType
  PROVE  PutIn(seq, Put(seq, os, body), os, body)
<1> DEFINE ends == {Len(seq)} \cup {o + 1 : o \in os}
<1>1. ends \subseteq Nat /\ ends # {} /\ Len(seq) \in ends
  OBVIOUS
<1>2. IsFiniteSet(ends)
  <2>1. IsFiniteSet({o + 1 : o \in os})
    <3> DEFINE f == [o \in os |-> o + 1]
    <3>1. f \in Surjection(os, {o + 1 : o \in os})
      BY DEF Surjection
    <3> QED BY <3>1, FS_Surjection
  <2> QED BY <2>1, FS_Singleton, FS_Union
<1>3. PICK n : n = Max(ends)
  OBVIOUS
<1>4. n \in ends /\ \A x \in ends : x <= n
  BY <1>1, <1>2, <1>3, MaxOfSet
<1>5. n \in Nat /\ n >= Len(seq) /\ \A o \in os : o + 1 <= n
  BY <1>1, <1>4
<1>6. PICK new : new = [i \in 1 .. n |-> IF i - 1 \in os THEN body ELSE At(seq, i - 1)]
  OBVIOUS
<1>7. Put(seq, os, body) = new
  BY <1>3, <1>6 DEF Put
<1>8. new \in Seq(BodyType) /\ Len(new) = n
  <2>1. ASSUME NEW i \in 1 .. n PROVE (IF i - 1 \in os THEN body ELSE At(seq, i - 1)) \in BodyType
    BY <1>5, AtBody
  <2> QED BY <1>5, <1>6, <2>1
<1>9. ASSUME NEW o \in Nat PROVE At(new, o) = IF o \in os THEN body ELSE At(seq, o)
  <2>1. CASE o < n
    BY <1>5, <1>6, <1>8, <2>1 DEF At
  <2>2. CASE o >= n
    BY <1>5, <1>8, <2>2 DEF At
  <2> QED BY <1>5, <2>1, <2>2
<1>10. os \subseteq 0 .. Len(seq) - 1 => n = Len(seq)
  BY <1>4, <1>5
<1> QED BY <1>5, <1>7, <1>8, <1>9, <1>10 DEF PutIn

\* New slots are free.
LEMMA SlotsAt ==
  ASSUME NEW n \in Nat
  PROVE  Slots(n) \in Seq(BodyType) /\ \A o \in Nat : At(Slots(n), o) = Free
<1>1. Slots(n) \in Seq(BodyType) /\ Len(Slots(n)) = n + 1 /\ \A i \in 1 .. n + 1 : Slots(n)[i] = Free
  BY FreeIsBody DEF Slots
<1> QED BY <1>1 DEF At
-----------------------------------------------------------------------------
Apart(ms) == \A i, j \in DOMAIN ms : i # j => ms[i].orbit # ms[j].orbit

\* One of the orbits looked at is free, since there is one more than satellites.
LEMMA OrbitLeft ==
  ASSUME NEW ms \in Seq(MoonType), NEW a \in Nat
  PROVE  \E k \in a .. (a + Len(ms)) : /\ \A m \in Range(ms) : m.orbit # k
                                       /\ \A j \in a .. (k - 1) : \E m \in Range(ms) : m.orbit = j
<1> DEFINE S == a .. (a + Len(ms))
           InUse(k) == \E i \in 1 .. Len(ms) : ms[i].orbit = k
           T == {k \in S : ~InUse(k)}
<1>1. Len(ms) \in Nat
  OBVIOUS
<1>2. Range(ms) = {ms[i] : i \in 1 .. Len(ms)}
  BY DEF Range
<1>3. T # {}
  <2> SUFFICES ASSUME \A k \in S : InUse(k) PROVE FALSE
    OBVIOUS
  <2> DEFINE f == [k \in S |-> CHOOSE i \in 1 .. Len(ms) : ms[i].orbit = k]
  <2>1. ASSUME NEW k \in S PROVE f[k] \in 1 .. Len(ms) /\ ms[f[k]].orbit = k
    <3>1. f[k] = CHOOSE i \in 1 .. Len(ms) : ms[i].orbit = k
      OBVIOUS
    <3>2. \E i \in 1 .. Len(ms) : ms[i].orbit = k
      OBVIOUS
    <3>3. f[k] \in 1 .. Len(ms) /\ ms[f[k]].orbit = k
      <4> HIDE DEF f
      <4> QED BY <3>1, <3>2
    <3> QED BY <3>3
  <2>2. f \in [S -> 1 .. Len(ms)]
    BY <2>1
  <2>3. /\ IsFiniteSet(S) /\ Cardinality(S) = Len(ms) + 1
        /\ IsFiniteSet(1 .. Len(ms)) /\ Cardinality(1 .. Len(ms)) = Len(ms)
    <3>1. PICK n \in Nat : n = Len(ms)
      BY <1>1
    <3>2. IsFiniteSet(a .. (a + n)) /\ Cardinality(a .. (a + n)) = n + 1
      BY FS_Interval
    <3>3. IsFiniteSet(1 .. n) /\ Cardinality(1 .. n) = n
      BY FS_Interval
    <3> QED BY <3>1, <3>2, <3>3
  <2>4. Cardinality(1 .. Len(ms)) < Cardinality(S)
    BY <1>1, <2>3
  <2> HIDE DEF f, S
  <2>5. \E x, y \in S : x # y /\ f[x] = f[y]
    BY <2>2, <2>3, <2>4, FS_PigeonHole
  <2> QED BY <2>1, <2>5
<1>4. T \subseteq Nat
  BY <1>1
<1>5. PICK k \in T : \A j \in T : k <= j
  <2> HIDE DEF T
  <2> QED BY <1>3, <1>4, LeastNatural
<1>6. k \in S /\ ~InUse(k)
  BY <1>5
<1>7. ASSUME NEW j \in a .. (k - 1) PROVE InUse(j)
  BY <1>1, <1>5, <1>6
<1> QED BY SMTT(20), <1>2, <1>6, <1>7

\* A satellite is added at the end, on an orbit of its own.
OneMore(ms, more, ring, isMain) ==
  \E m \in MoonType : /\ more = Append(ms, m) /\ m.main = isMain /\ m.ring = ring
                      /\ \A i \in DOMAIN ms : ms[i].orbit # m.orbit

LEMMA MoonAdded ==
  ASSUME NEW ms \in Seq(MoonType), NEW roll \in MoonRolls, NEW isMain \in BOOLEAN
  PROVE  OneMore(ms, AddMoon(ms, roll, isMain), roll.ring, isMain)
<1> DEFINE P(k) == /\ \A m \in Range(ms) : m.orbit # k
                   /\ \A j \in roll.at .. (k - 1) : \E m \in Range(ms) : m.orbit = j
           o == CHOOSE k \in roll.at .. (roll.at + Len(ms)) : P(k)
           m == [orbit |-> o, ring |-> roll.ring, main |-> isMain]
<1>1. roll.at \in Nat /\ roll.ring \in BOOLEAN
  BY OrbitsAssumption
<1>2. \E k \in roll.at .. (roll.at + Len(ms)) : P(k)
  BY <1>1, OrbitLeft
<1>3. o \in roll.at .. (roll.at + Len(ms)) /\ P(o)
  <2> HIDE DEF P
  <2> QED BY <1>2
<1>4. AddMoon(ms, roll, isMain) = Append(ms, m)
  BY DEF AddMoon
<1>5. o \in Nat /\ \A i \in DOMAIN ms : ms[i].orbit # o
  <2>1. \A n \in Range(ms) : n.orbit # o
    BY <1>3
  <2>2. \A i \in DOMAIN ms : ms[i] \in Range(ms)
    BY DEF Range
  <2>3. o \in Nat
    <3>1. PICK n \in Nat : n = Len(ms)
      OBVIOUS
    <3> HIDE DEF o, P
    <3> QED BY <1>1, <1>3, <3>1
  <2> HIDE DEF o
  <2> QED BY <2>1, <2>2, <2>3
<1> HIDE DEF o
<1>6. m \in MoonType
  BY <1>1, <1>5 DEF MoonType
<1>7. m.main = isMain /\ m.ring = roll.ring /\ m.orbit = o
  OBVIOUS
<1> HIDE DEF m
<1> QED BY <1>4, <1>5, <1>6, <1>7 DEF OneMore

\* What satellites rolled one after the other can come to.
AddedTo(m0) ==
  {m \in Seq(MoonType) :
     /\ Apart(m) /\ Len(m) >= Len(m0)
     /\ \A i \in 1 .. Len(m) : IF i <= Len(m0) THEN m[i] = m0[i] ELSE ~m[i].main}

LEMMA AppendApart ==
  ASSUME NEW ms \in Seq(MoonType), Apart(ms), NEW m \in MoonType, \A i \in DOMAIN ms : ms[i].orbit # m.orbit
  PROVE  Append(ms, m) \in Seq(MoonType) /\ Apart(Append(ms, m))
<1>0. PICK n : n = Len(ms)
  OBVIOUS
<1>1a. PICK new : new = Append(ms, m)
  OBVIOUS
<1>1. new = Append(ms, m) /\ n = Len(ms) /\ n \in Nat
  BY <1>0, <1>1a
<1>2. /\ new \in Seq(MoonType) /\ Len(new) = n + 1 /\ new[n + 1] = m
      /\ \A i \in 1 .. n : new[i] = ms[i]
  BY <1>1
<1>3. ASSUME NEW i \in 1 .. n + 1, NEW j \in 1 .. n + 1, i # j PROVE new[i].orbit # new[j].orbit
  <2>1. CASE i \in 1 .. n /\ j \in 1 .. n
    BY <1>1, <1>2, <1>3, <2>1 DEF Apart
  <2>2. CASE i = n + 1 /\ j \in 1 .. n
    BY <1>1, <1>2, <2>2
  <2>3. CASE j = n + 1 /\ i \in 1 .. n
    BY <1>1, <1>2, <2>3
  <2> QED BY <1>1, <1>3, <2>1, <2>2, <2>3
<1>4. DOMAIN new = 1 .. n + 1
  BY <1>2
<1> QED BY <1>1, <1>2, <1>3, <1>4 DEF Apart

LEMMA AddKeeps ==
  ASSUME NEW m0 \in Seq(MoonType), NEW ms \in AddedTo(m0), NEW roll \in MoonRolls
  PROVE  AddMoon(ms, roll, FALSE) \in AddedTo(m0) /\ Len(AddMoon(ms, roll, FALSE)) = Len(ms) + 1
<1>1. ms \in Seq(MoonType) /\ Apart(ms)
  BY DEF AddedTo
<1>2. PICK m \in MoonType :
        /\ AddMoon(ms, roll, FALSE) = Append(ms, m) /\ m.main = FALSE
        /\ \A i \in DOMAIN ms : ms[i].orbit # m.orbit
  <2>1. PICK b \in BOOLEAN : b = FALSE
    OBVIOUS
  <2>2. OneMore(ms, AddMoon(ms, roll, b), roll.ring, b)
    BY <1>1, <2>1, MoonAdded, Zenon
  <2> QED BY <2>1, <2>2 DEF OneMore
<1>3. Append(ms, m) \in Seq(MoonType) /\ Apart(Append(ms, m))
  BY <1>1, <1>2, AppendApart
<1>0. PICK n : n = Len(ms)
  OBVIOUS
<1>9. PICK k : k = Len(m0)
  OBVIOUS
<1>10. PICK new : new = Append(ms, m)
  OBVIOUS
<1>4. new = Append(ms, m) /\ n = Len(ms) /\ k = Len(m0) /\ n \in Nat /\ k \in Nat
  BY <1>0, <1>1, <1>9, <1>10
<1>5. /\ Len(new) = n + 1 /\ new[n + 1] = m /\ \A i \in 1 .. n : new[i] = ms[i]
  BY <1>1, <1>4
<1>6. n >= k /\ \A i \in 1 .. n : IF i <= k THEN ms[i] = m0[i] ELSE ~ms[i].main
  BY <1>4 DEF AddedTo
<1>7. ASSUME NEW i \in 1 .. n + 1 PROVE IF i <= k THEN new[i] = m0[i] ELSE ~new[i].main
  <2>1. CASE i \in 1 .. n
    BY <1>5, <1>6, <2>1
  <2>2. CASE i = n + 1
    <3>1. ~(i <= k)
      BY <1>4, <1>6, <2>2
    <3>2. ~m.main
      BY <1>2
    <3> QED BY <1>5, <2>2, <3>1, <3>2
  <2> QED BY <1>4, <2>1, <2>2
<1>8. new \in AddedTo(m0)
  <2>1. Len(new) >= k
    BY <1>4, <1>5, <1>6
  <2> QED BY <1>3, <1>4, <1>5, <1>7, <2>1 DEF AddedTo
<1> QED BY <1>2, <1>4, <1>5, <1>8

\* Satellites rolled one after the other (WithMoons).
LEMMA MoonsThrown ==
  ASSUME NEW m0 \in Seq(MoonType), Apart(m0), NEW n \in Nat, NEW thrown \in [1 .. n -> MoonRolls]
  PROVE  LET ms == FoldLeft(LAMBDA l, r : AddMoon(l, r, FALSE), m0, thrown)
         IN  ms \in AddedTo(m0) /\ Len(ms) = Len(m0) + n
<1> DEFINE S == 1 .. n
           A == AddedTo(m0)
           c == [s \in SUBSET S |-> Max(s)]
           F == [p \in A \X S |-> AddMoon(p[1], thrown[p[2]], FALSE)]
           Fold(h) == h = [s \in SUBSET DOMAIN thrown |->
                             IF s = {} THEN m0
                             ELSE LET x == Max(s) IN AddMoon(h[s \ {x}], thrown[x], FALSE)]
           iter == CHOOSE h : Fold(h)
<1>1. IsFiniteSet(S) /\ Cardinality(S) = n
  BY FS_Interval
<1>2. DOMAIN thrown = S
  OBVIOUS
<1>3. \A s \in SUBSET S : s # {} => c[s] \in s
  BY LastIndex
<1>4. m0 \in A
  BY DEF AddedTo
<1>5. \A a \in A, x \in S : /\ F[<<a, x>>] \in A /\ F[<<a, x>>] = AddMoon(a, thrown[x], FALSE)
                            /\ Len(AddMoon(a, thrown[x], FALSE)) = Len(a) + 1
  <2> SUFFICES ASSUME NEW a \in A, NEW x \in S
               PROVE  /\ AddMoon(a, thrown[x], FALSE) \in A
                      /\ Len(AddMoon(a, thrown[x], FALSE)) = Len(a) + 1
    OBVIOUS
  <2> QED BY AddKeeps
<1> HIDE DEF F, S, A
<1>6. \E h : Fold(h)
  <2>1. PICK h : Recursive(h, m0, F, c, A, S)
    <3>1. Within(F, A, S) /\ Chooses(c, S)
      BY <1>3, <1>5 DEF Within, Chooses
    <3> HIDE DEF c
    <3> QED BY <1>1, <1>4, <3>1, RecursionExists
  <2>2. ASSUME NEW s \in SUBSET S
        PROVE  h[s] = IF s = {} THEN m0 ELSE AddMoon(h[s \ {Max(s)}], thrown[Max(s)], FALSE)
    <3>1. CASE s = {}
      BY <2>1, <3>1 DEF Recursive, Rec
    <3>2. CASE s # {}
      <4>1. Max(s) \in S /\ c[s] = Max(s)
        BY <1>3, <3>2
      <4>2. h[s \ {Max(s)}] \in A
        BY <2>1 DEF Recursive
      <4>3. h[s] = F[<<h[s \ {Max(s)}], Max(s)>>]
        BY <2>1, <3>2, <4>1 DEF Recursive, Rec
      <4> QED BY <1>5, <3>2, <4>1, <4>2, <4>3
    <3> QED BY <3>1, <3>2
  <2>3. h = [s \in SUBSET S |-> IF s = {} THEN m0 ELSE AddMoon(h[s \ {Max(s)}], thrown[Max(s)], FALSE)]
    BY <2>1, <2>2 DEF Recursive
  <2> QED BY <1>2, <2>3
<1>7. Fold(iter)
  BY <1>6
<1>8. FoldLeft(LAMBDA l, r : AddMoon(l, r, FALSE), m0, thrown) = iter[S]
  BY <1>2 DEF FoldLeft, MapThenFoldSet
<1>9. ASSUME NEW s \in SUBSET S
      PROVE  iter[s] = IF s = {} THEN m0 ELSE AddMoon(iter[s \ {Max(s)}], thrown[Max(s)], FALSE)
  BY <1>2, <1>7
<1> HIDE DEF iter
<1> DEFINE B == {p \in A \X SUBSET S : Len(p[1]) = Len(m0) + Cardinality(p[2])}
           g == [s \in SUBSET S |-> <<iter[s], s>>]
<1>10. g[{}] \in B
  <2>1. iter[{}] = m0
    BY <1>9
  <2>2. Cardinality({}) = 0 /\ Len(m0) \in Nat
    BY FS_EmptySet
  <2>3. <<m0, {}>> \in B
    <3>1. <<m0, {}>> \in A \X SUBSET S /\ Len(m0) = Len(m0) + Cardinality({})
      BY <1>4, <2>2
    <3> QED BY <3>1
  <2> HIDE DEF B
  <2> QED BY <2>1, <2>3
<1>11. ASSUME NEW s \in SUBSET S, s # {}, g[s \ {c[s]}] \in B
       PROVE  g[s] \in B
  <2>1. Max(s) \in S /\ Max(s) \in s /\ c[s] = Max(s)
    BY <1>3, <1>11
  <2>2. PICK r, x : r = s \ {x} /\ x = Max(s)
    OBVIOUS
  <2>3. r \in SUBSET S /\ iter[r] \in A /\ Len(iter[r]) = Len(m0) + Cardinality(r)
    BY <1>11, <2>1, <2>2
  <2>4. iter[s] = AddMoon(iter[r], thrown[x], FALSE)
    BY <1>9, <1>11, <2>2
  <2>5. iter[s] \in A /\ Len(iter[s]) = Len(iter[r]) + 1
    BY <1>5, <2>1, <2>2, <2>3, <2>4
  <2>6. IsFiniteSet(s) /\ Cardinality(s) \in Nat
    BY <1>1, FS_Subset, FS_CardinalityType
  <2>7. Cardinality(r) = Cardinality(s) - 1
    BY <2>1, <2>2, <2>6, FS_RemoveElement
  <2>8. Len(m0) \in Nat
    OBVIOUS
  <2>9. Len(iter[s]) = Len(m0) + Cardinality(s)
    BY <2>3, <2>5, <2>6, <2>7, <2>8
  <2> QED BY <2>5, <2>9
<1>12. \A s \in SUBSET S : g[s] \in B
  <2>1. Chooses(c, S)
    BY <1>3 DEF Chooses
  <2> HIDE DEF c, g, B
  <2> QED BY <1>1, <1>10, <1>11, <2>1, RecursionKeeps
<1>13. iter[S] \in A /\ Len(iter[S]) = Len(m0) + n
  BY <1>1, <1>12
<1> QED BY <1>8, <1>13 DEF A

\* clean_satellites orders the satellites and drops rings alone, but for one.
LEMMA CleanKeeps ==
  ASSUME NEW ms \in Seq(MoonType), Apart(ms)
  PROVE  /\ Clean(ms) \in Seq(MoonType) /\ Apart(Clean(ms))
         /\ \E n \in Nat : \E p \in [1 .. n -> DOMAIN ms] :
              /\ Len(Clean(ms)) = n
              /\ \A k \in 1 .. n : Clean(ms)[k] = ms[p[k]]
              /\ \A k, l \in 1 .. n : p[k] = p[l] => k = l
              /\ \A i \in DOMAIN ms : ~ms[i].ring => \E k \in 1 .. n : p[k] = i
         /\ (\A k \in DOMAIN Clean(ms) : ~Clean(ms)[k].ring) => Len(Clean(ms)) = Len(ms)
<1>0. PICK w : w = Len(ms)
  OBVIOUS
<1> DEFINE kept == {i \in DOMAIN ms : ms[i].ring =>
                      \A j \in DOMAIN ms : ms[j].ring => ms[i].orbit <= ms[j].orbit}
           key == [i \in kept |-> w * ms[i].orbit + i]
           m == Cardinality(kept)
<1>1. w = Len(ms) /\ w \in Nat /\ DOMAIN ms = 1 .. w
  BY <1>0
<1>2. IsFiniteSet(kept) /\ m \in Nat /\ kept \subseteq 1 .. w
  <2>1. IsFiniteSet(1 .. w) /\ kept \in SUBSET (1 .. w)
    BY <1>1, FS_Interval
  <2> HIDE DEF kept
  <2> QED BY <2>1, FS_Subset, FS_CardinalityType
<1>3. \A i \in DOMAIN ms : ms[i].orbit \in Nat /\ ms[i].ring \in BOOLEAN
  <2>1. \A i \in DOMAIN ms : ms[i] \in MoonType
    OBVIOUS
  <2> QED BY <2>1 DEF MoonType
<1>4. \A i \in kept : key[i] \in Int
  <2> SUFFICES ASSUME NEW i \in kept PROVE w * ms[i].orbit + i \in Int
    OBVIOUS
  <2>1. PICK a \in Nat : a = ms[i].orbit
    BY <1>3
  <2>2. w * a \in Nat /\ i \in Nat
    BY <1>1
  <2> QED BY <2>1, <2>2
<1>5. ASSUME NEW i \in kept, NEW j \in kept, key[i] = key[j] PROVE i = j
  <2>1. PICK a \in Nat, b \in Nat : a = ms[i].orbit /\ b = ms[j].orbit
    BY <1>1, <1>3
  <2>2. w * a + i = w * b + j /\ i \in 1 .. w /\ j \in 1 .. w
    BY <1>1, <1>5, <2>1
  <2>3. a = b
    <3>1. PICK x, y : x = w * a /\ y = w * b
      OBVIOUS
    <3>2. x \in Nat /\ y \in Nat /\ (a < b => y >= x + w) /\ (b < a => x >= y + w)
      BY <1>1, <3>1, ProductGap
    <3>3. x + i = y + j
      BY <2>2, <3>1
    <3>4. ~(a < b) /\ ~(b < a)
      BY <1>1, <2>2, <3>2, <3>3
    <3> QED BY <3>4
  <2> QED BY <1>1, <2>1, <2>3 DEF Apart
<1>6. DOMAIN key = kept
  OBVIOUS
<1>7. Clean(ms) = Listed(ms, key)
  BY <1>0 DEF Clean
<1> HIDE DEF key
<1>8. PICK p \in [1 .. m -> kept] :
        /\ \A k, l \in 1 .. m : p[k] = p[l] => k = l
        /\ \A i \in kept : \E k \in 1 .. m : p[k] = i
        /\ Clean(ms) = [k \in 1 .. m |-> ms[p[k]]]
  <2> HIDE DEF kept, m
  <2>1. IsFiniteSet(DOMAIN key) /\ (\A i \in DOMAIN key : key[i] \in Int)
        /\ \A i, j \in DOMAIN key : key[i] = key[j] => i = j
    BY <1>2, <1>4, <1>5, <1>6
  <2>2. PICK q : Lists(Listed(ms, key), ms, DOMAIN key, q)
    BY <2>1, ListedOnce
  <2>3. Lists(Clean(ms), ms, kept, q)
    BY <1>6, <1>7, <2>2
  <2> QED BY <2>3 DEF Lists, m
<1>9. p \in [1 .. m -> DOMAIN ms]
  BY <1>8
<1> HIDE DEF m
<1>10. Clean(ms) \in Seq(MoonType) /\ Len(Clean(ms)) = m /\ \A k \in 1 .. m : Clean(ms)[k] = ms[p[k]]
  BY <1>2, <1>8, <1>9
<1>11. Apart(Clean(ms))
  BY <1>8, <1>9, <1>10 DEF Apart
<1>12. \A i \in DOMAIN ms : ~ms[i].ring => \E k \in 1 .. m : p[k] = i
  BY <1>8
<1>13. ASSUME \A k \in DOMAIN Clean(ms) : ~Clean(ms)[k].ring PROVE Len(Clean(ms)) = Len(ms)
  <2>1. \A i \in kept : ~ms[i].ring
    BY <1>2, <1>8, <1>10, <1>13
  <2>2. \A i \in DOMAIN ms : ~ms[i].ring
    <3> SUFFICES ASSUME NEW i \in DOMAIN ms, ms[i].ring PROVE FALSE
      OBVIOUS
    <3> DEFINE R == {ms[j].orbit : j \in {j \in DOMAIN ms : ms[j].ring}}
    <3>1. R \subseteq Nat /\ R # {}
      BY <1>3
    <3>2. PICK r \in R : \A q \in R : r <= q
      <4> HIDE DEF R
      <4> QED BY <3>1, LeastNatural
    <3>3. PICK j \in DOMAIN ms : ms[j].ring /\ ms[j].orbit = r
      BY <3>2
    <3>4. j \in kept
      BY <3>2, <3>3
    <3> QED BY <2>1, <3>3, <3>4
  <2>3. kept = 1 .. w
    BY <1>1, <2>2
  <2>4. Cardinality(1 .. w) = w
    <3>1. w \in Nat
      BY <1>1
    <3>2. Cardinality(1 .. w) = IF 1 > w THEN 0 ELSE w - 1 + 1
      BY <3>1, FS_Interval
    <3> QED BY <3>1, <3>2
  <2>5. m = w
    BY <2>3, <2>4 DEF m
  <2> QED BY <1>1, <1>10, <2>5
<1> QED BY SMTT(20), <1>2, <1>9, <1>10, <1>8, <1>11, <1>12, <1>13

LEMMA StarsAre == Range(Stars) = {"primary", "secondary", "tertiary"}
<1>1. Stars = [i \in 1 .. 3 |-> IF i = 1 THEN "primary" ELSE IF i = 2 THEN "secondary" ELSE "tertiary"]
  BY DEF Stars
<1>2. DOMAIN Stars = {1, 2, 3}
  BY <1>1
<1>3. Stars[1] = "primary" /\ Stars[2] = "secondary" /\ Stars[3] = "tertiary"
  BY DEF Stars
<1> QED BY <1>2, <1>3 DEF Range

\* The rows of the stars are those asked for, in another order.
LEMMA StarRowsAre ==
  ASSUME NEW r \in Rows
  PROVE  StarRows(r) \in Seq(Number \cup {Close, Far})
<1> DEFINE last(o) == CASE o = Close -> 0 [] o = Open -> Len(r.stars) [] OTHER -> 2 * Len(r.stars)
           key == [i \in DOMAIN r.stars |-> last(r.stars[i]) + i]
           T == Number \cup {Close, Far}
<1>0. PICK n : n = Len(r.stars)
  OBVIOUS
<1>1. r.stars \in Seq(T) /\ n \in Nat /\ DOMAIN r.stars = 1 .. n
  BY <1>0, OrbitsAssumption
<1>2. \A i \in 1 .. n : last(r.stars[i]) \in {0, n, 2 * n}
  BY <1>0
<1>3. DOMAIN key = 1 .. n /\ IsFiniteSet(DOMAIN key)
  BY SMTT(20), <1>1, FS_Interval
<1>4. \A i \in 1 .. n : key[i] = last(r.stars[i]) + i
  BY <1>1
<1> HIDE DEF last, key
<1>5. ASSUME NEW i \in 1 .. n PROVE key[i] \in Int
  <2>1. PICK a : a = last(r.stars[i])
    OBVIOUS
  <2>2. a \in {0, n, 2 * n} /\ key[i] = a + i
    BY <1>2, <1>4, <2>1
  <2> QED BY <1>1, <2>2
<1>6. ASSUME NEW i \in 1 .. n, NEW j \in 1 .. n, key[i] = key[j] PROVE i = j
  <2>1. PICK a, b : a = last(r.stars[i]) /\ b = last(r.stars[j])
    OBVIOUS
  <2>2. a \in {0, n, 2 * n} /\ b \in {0, n, 2 * n} /\ key[i] = a + i /\ key[j] = b + j
    BY <1>2, <1>4, <2>1
  <2>3. n \in Nat
    BY <1>1
  <2>5. a + i = b + j
    BY <1>6, <2>2
  <2>6. CASE a = b
    BY <2>2, <2>3, <2>5, <2>6
  <2>7. CASE a + n <= b
    BY <2>2, <2>3, <2>5, <2>7
  <2>8. CASE b + n <= a
    BY <2>2, <2>3, <2>5, <2>8
  <2> QED BY <2>2, <2>3, <2>6, <2>7, <2>8
<1>7. PICK p : Lists(Listed(r.stars, key), r.stars, DOMAIN key, p)
  BY <1>3, <1>5, <1>6, ListedOnce
<1>8. Listed(r.stars, key) \in Seq(T)
  <2>1. PICK m : m = Cardinality(DOMAIN key)
    OBVIOUS
  <2>2. m \in Nat
    BY <1>3, <2>1, FS_CardinalityType
  <2>3. p \in [1 .. m -> 1 .. n] /\ Listed(r.stars, key) = [k \in 1 .. m |-> r.stars[p[k]]]
    BY <1>3, <1>7, <2>1 DEF Lists
  <2>4. \A k \in 1 .. m : r.stars[p[k]] \in T
    <3> HIDE DEF T
    <3> QED BY <1>1, <2>3
  <2> HIDE DEF T
  <2> QED BY <2>2, <2>3, <2>4
<1>9. <<Open>> \in Seq(T)
  BY DEF Number
<1>10. PICK listed : listed = Listed(r.stars, key)
  OBVIOUS
<1>11. StarRows(r) = IF listed # <<>> /\ listed[1] \notin {Close, Open} THEN <<Open>> \o listed ELSE listed
  BY <1>10 DEF StarRows, key, last
<1> HIDE DEF T
<1>12. StarRows(r) \in Seq(T)
  BY <1>8, <1>9, <1>10, <1>11
<1> QED BY <1>12 DEF T

LEMMA HabitableIs == ASSUME NEW z \in ZoneTables PROVE HabitableOrbit(z) \in Nat
<1>1. z.habitable \in Int /\ z.inner \in Int
  BY OrbitsAssumption
<1>2. PICK m, a : a = z.inner /\ m = Max({a, 0})
  OBVIOUS
<1>3. m \in Nat
  <2>1. a \in Int /\ 0 \in Int
    BY <1>1, <1>2
  <2>2. Max({a, 0}) = IF a >= 0 THEN a ELSE 0
    BY <2>1, MaxOfTwo
  <2> QED BY <1>2, <2>1, <2>2
<1> QED BY <1>1, <1>2, <1>3 DEF HabitableOrbit
-----------------------------------------------------------------------------
StarNames == {"primary", "secondary", "tertiary"}

\* Whether a body is the main world (0), or its i-th satellite is.
IsMain(b, i) == IF i = 0 THEN b.row = Main ELSE i \in DOMAIN b.moons /\ b.moons[i].main
Unmarked(b) == \A i \in Nat : ~IsMain(b, i)
WellMade(b) ==
  /\ b \in BodyType /\ Apart(b.moons)
  /\ b.what = "Giant" => b.row = Rolled
  /\ b.row = Main => b.what = "World"
SlotsMade(sl) ==
  /\ sl \in [StarNames -> Seq(BodyType)]
  /\ \A s \in StarNames : \A o \in Nat : WellMade(At(sl[s], o))

\* Nothing is the main world, and companions have nothing yet; or one thing is,
\* which no later step removes: belts are put over giants of companions alone,
\* and rings are dropped.
NothingYet(sl) ==
  /\ \A o \in Nat : Unmarked(At(sl["primary"], o))
  /\ \A s \in StarNames \ {"primary"} : \A o \in Nat : At(sl[s], o) = Free
MainIs(sl, s, o, i) ==
  /\ s \in StarNames /\ o \in Nat /\ i \in Nat
  /\ LET b == At(sl[s], o) IN
       /\ IsMain(b, i) /\ b.what \in Bodies
       /\ b.what = "Giant" => s = "primary"
       /\ i # 0 => ~b.moons[i].ring
  /\ \A t \in StarNames : \A u, k \in Nat : IsMain(At(sl[t], u), k) => t = s /\ u = o /\ k = i

Early(a) ==
  /\ a.star = "primary"
  /\ a.phase \in {"rejected", "stars", "companions", "blocked", "empties", "planets", "belts", "giants",
                  "placing giants", "planetoids", "panicked", "main world"}
MainInv ==
  IF Early(at) THEN NothingYet(slots) ELSE \E s \in StarNames : \E o, i \in Nat : MainIs(slots, s, o, i)

Unplaced(a) == \/ a.phase \in {"rejected", "stars", "companions", "empties"}
               \/ a.star = "primary" /\ a.phase = "blocked"
RowsInv ==
  /\ placed \subseteq RowType \X Nat
  /\ \A p \in placed : p[1] \notin {Rolled, Main} /\ At(slots["primary"], p[2]).row \in {p[1], Main}
  /\ Unplaced(at) => placed = {}

TypeInv ==
  /\ asked \in Rows /\ zones \in [StarNames -> ZoneTables]
  /\ orbit \in [StarNames -> {n \in Int : n >= Open}]
  /\ SlotsMade(slots)
  /\ \A o \in DOMAIN wanted : wanted[o] \in Nat
  /\ \A o \in DOMAIN giantsWanted : giantsWanted[o] \in Nat
  /\ at.star \in StarNames /\ at.count \in Nat
  /\ at.phase \in {"rejected", "stars", "companions", "empties", "planets", "belts", "main world", "moon rows"}
       => at.star = "primary"
  /\ at.phase = "placing giants" => at.count <= Cardinality(Unused(Mine))

\* Whether the satellites at an orbit of the primary were rolled, and how many
\* rows of satellites were read.
Touched(a, o) == \/ a.star # "primary"
                 \/ a.phase \in {"moon rows", "filled", "done"}
                 \/ a.phase = "moons" /\ a.count > o
Seen(a) == IF a.star # "primary" \/ a.phase \in {"filled", "done"} THEN Len(asked.moons)
           ELSE IF a.phase = "moon rows" THEN a.count ELSE 0
Own(o, n) == Cardinality({i \in 1 .. n : i \in DOMAIN asked.moons /\ asked.moons[i].parent = o})
MoonsOfRow(p) ==
  LET b == At(slots["primary"], p[2])
      n == asked.planets[p[1][2]].moons
  IN  /\ b.what = "World" /\ p[1][2] \in DOMAIN asked.planets
      /\ IF Touched(at, p[2])
         THEN n # Open /\ (\A i \in DOMAIN b.moons : ~b.moons[i].ring)
                => Len(b.moons) = Max({n - Own(p[2], Len(asked.moons)), 0}) + Own(p[2], Seen(at))
         ELSE b.moons = <<>> /\ (n # Open => p[2] \in DOMAIN wanted /\ wanted[p[2]] = n)
MoonsInv ==
  \A p \in placed : p[1][1] = "planet" /\ At(slots["primary"], p[2]).row = p[1] => MoonsOfRow(p)

OrbitsInv == TypeInv /\ MainInv /\ RowsInv /\ MoonsInv

\* new is sl, with body put in orbits os of star s.
Receives(sl, new, s, os, body) ==
  /\ new \in [StarNames -> Seq(BodyType)]
  /\ \A t \in StarNames : \A u \in Nat : At(new[t], u) = IF t = s /\ u \in os THEN body ELSE At(sl[t], u)

LEMMA PutBecomes ==
  ASSUME NEW sl \in [StarNames -> Seq(BodyType)], NEW s \in StarNames,
         NEW os, os \subseteq Nat, IsFiniteSet(os), NEW body \in BodyType
  PROVE  Receives(sl, [sl EXCEPT ![s] = Put(sl[s], os, body)], s, os, body)
<1>1. PICK put : put = Put(sl[s], os, body)
  OBVIOUS
<1>2. put \in Seq(BodyType) /\ \A u \in Nat : At(put, u) = IF u \in os THEN body ELSE At(sl[s], u)
  <2>1. PICK seq : seq = sl[s]
    OBVIOUS
  <2>2. seq \in Seq(BodyType)
    BY <2>1
  <2>3. PutIn(seq, Put(seq, os, body), os, body)
    BY <2>2, PutAt, Zenon
  <2> QED BY <1>1, <2>1, <2>3 DEF PutIn
<1> QED BY <1>1, <1>2 DEF Receives

LEMMA MadeStays ==
  ASSUME NEW sl, SlotsMade(sl), NEW new, NEW s, NEW os, NEW body, Receives(sl, new, s, os, body), WellMade(body)
  PROVE  SlotsMade(new)
BY DEF SlotsMade, Receives

LEMMA FreshBody ==
  ASSUME NEW w \in Whats, NEW r \in RowType, NEW b \in BOOLEAN, w = "Giant" => r = Rolled, r = Main => w = "World"
  PROVE  /\ WellMade(Body(w, r, b)) /\ (r # Main => Unmarked(Body(w, r, b)))
         /\ Body(w, r, b).moons = <<>> /\ Body(w, r, b).row = r /\ Body(w, r, b).what = w
<1>1. Body(w, r, b) \in BodyType
  BY NewBody
<1>2. Body(w, r, b).moons = <<>> /\ Body(w, r, b).row = r /\ Body(w, r, b).what = w
  BY DEF Body
<1>3. DOMAIN <<>> = {}
  OBVIOUS
<1>4. Apart(Body(w, r, b).moons)
  BY <1>2, <1>3 DEF Apart
<1>5. WellMade(Body(w, r, b))
  BY <1>1, <1>2, <1>4 DEF WellMade
<1>6. r # Main => Unmarked(Body(w, r, b))
  BY <1>2, <1>3 DEF Unmarked, IsMain
<1> QED BY <1>2, <1>5, <1>6

LEMMA FreeMade == /\ WellMade(Free) /\ Unmarked(Free) /\ WellMade(Blocked) /\ Unmarked(Blocked)
                  /\ Free.row = Rolled /\ Free.what = "Free" /\ Rolled # Main /\ Blocked.what = "Blocked"
<1>1. Rolled \in RowType /\ Rolled # Main /\ "Free" \in Whats /\ "Blocked" \in Whats /\ FALSE \in BOOLEAN
  BY FreeIsBody DEF Rolled, Main, Whats
<1>2. PICK b \in BOOLEAN : b = FALSE
  OBVIOUS
<1>3. \A w \in {"Free", "Blocked"} : /\ WellMade(Body(w, Rolled, b)) /\ Unmarked(Body(w, Rolled, b))
                                     /\ Body(w, Rolled, b).row = Rolled /\ Body(w, Rolled, b).what = w
  <2> SUFFICES ASSUME NEW w \in {"Free", "Blocked"}
               PROVE  /\ WellMade(Body(w, Rolled, b)) /\ Unmarked(Body(w, Rolled, b))
                      /\ Body(w, Rolled, b).row = Rolled /\ Body(w, Rolled, b).what = w
    OBVIOUS
  <2>1. w \in Whats /\ w # "Giant"
    BY <1>1
  <2>2. PICK r : r = Rolled
    OBVIOUS
  <2>3. r \in RowType /\ r # Main
    BY <1>1, <2>2
  <2>4. (w = "Giant" => r = Rolled) /\ (r = Main => w = "World")
    BY <2>1, <2>2, <2>3
  <2>5. /\ WellMade(Body(w, r, b)) /\ (r # Main => Unmarked(Body(w, r, b)))
        /\ Body(w, r, b).moons = <<>> /\ Body(w, r, b).row = r /\ Body(w, r, b).what = w
    BY <2>1, <2>3, <2>4, FreshBody, ZenonT(30)
  <2> QED BY <2>2, <2>3, <2>5
<1> QED BY <1>1, <1>2, <1>3 DEF Free, Blocked

\* A body put where none is the main world, and that is not, leaves it as it is.
LEMMA PlainPut ==
  ASSUME NEW sl, SlotsMade(sl), NEW new, NEW s, NEW os, NEW body, Receives(sl, new, s, os, body),
         Unmarked(body), s \in StarNames, \A u \in Nat : u \in os => Unmarked(At(sl[s], u))
  PROVE  /\ \A t, o, i : MainIs(sl, t, o, i) => MainIs(new, t, o, i)
         /\ s = "primary" /\ NothingYet(sl) => NothingYet(new)
<1>1. ASSUME NEW t, NEW o, NEW i, MainIs(sl, t, o, i) PROVE MainIs(new, t, o, i)
  <2>1. t \in StarNames /\ o \in Nat /\ i \in Nat /\ IsMain(At(sl[t], o), i)
    BY <1>1 DEF MainIs
  <2>2. ~(t = s /\ o \in os)
    BY <2>1 DEF Unmarked
  <2>3. At(new[t], o) = At(sl[t], o)
    BY <2>1, <2>2 DEF Receives
  <2>4. \A v \in StarNames : \A u, k \in Nat : IsMain(At(new[v], u), k) => IsMain(At(sl[v], u), k)
    BY DEF Receives, Unmarked
  <2> QED BY <1>1, <2>3, <2>4 DEF MainIs
<1>2. ASSUME s = "primary", NothingYet(sl) PROVE NothingYet(new)
  BY <1>2 DEF NothingYet, Receives, StarNames
<1> QED BY <1>1, <1>2

LEMMA PlainKeeps ==
  ASSUME OrbitsInv, NEW s \in StarNames, NEW os, NEW body, Receives(slots, slots', s, os, body),
         WellMade(body), Unmarked(body),
         \A u \in Nat : u \in os => Unmarked(At(slots[s], u)) /\ At(slots[s], u).row = Rolled,
         Early(at) <=> Early(at'), Early(at) => s = "primary"
  PROVE  SlotsMade(slots') /\ MainInv'
         /\ \A p \in placed : At(slots'["primary"], p[2]) = At(slots["primary"], p[2])
<1>1. SlotsMade(slots) /\ MainInv /\ RowsInv
  BY DEF OrbitsInv, TypeInv
<1>2. SlotsMade(slots')
  BY <1>1, MadeStays
<1>3. /\ \A t, o, i : MainIs(slots, t, o, i) => MainIs(slots', t, o, i)
      /\ s = "primary" /\ NothingYet(slots) => NothingYet(slots')
  BY <1>1, PlainPut
<1>4. MainInv'
  BY <1>1, <1>3 DEF MainInv
<1>5. ASSUME NEW p \in placed PROVE At(slots'["primary"], p[2]) = At(slots["primary"], p[2])
  <2>1. p[2] \in Nat /\ p[1] \notin {Rolled, Main} /\ At(slots["primary"], p[2]).row \in {p[1], Main}
    BY <1>1 DEF RowsInv
  <2>2. Rolled # Main
    BY FreeMade
  <2>3. ~(s = "primary" /\ p[2] \in os)
    BY <2>1, <2>2
  <2>4. "primary" \in StarNames
    BY DEF StarNames
  <2> QED BY <2>1, <2>3, <2>4 DEF Receives
<1> QED BY <1>2, <1>4, <1>5

LEMMA RowsStay ==
  ASSUME OrbitsInv, placed' = placed, \A p \in placed : At(slots'["primary"], p[2]) = At(slots["primary"], p[2]),
         Unplaced(at') => Unplaced(at)
  PROVE  RowsInv'
BY DEF RowsInv, OrbitsInv

LEMMA RowMoonsStay ==
  ASSUME OrbitsInv, asked' = asked, NEW p \in placed,
         At(slots'["primary"], p[2]) = At(slots["primary"], p[2]),
         Touched(at', p[2]) <=> Touched(at, p[2]), Seen(at') = Seen(at),
         ~Touched(at, p[2]) /\ At(slots["primary"], p[2]).row = p[1] /\ p[2] \in DOMAIN wanted
            => p[2] \in DOMAIN wanted' /\ wanted'[p[2]] = wanted[p[2]]
  PROVE  p[1][1] = "planet" /\ At(slots'["primary"], p[2]).row = p[1] => MoonsOfRow(p)'
<1> SUFFICES ASSUME p[1][1] = "planet", At(slots'["primary"], p[2]).row = p[1] PROVE MoonsOfRow(p)'
  OBVIOUS
<1>1. MoonsOfRow(p)
  BY DEF OrbitsInv, MoonsInv
<1>2. Seen(at)' = Seen(at)
  BY DEF Seen
<1>3. PICK b, b2 : b = At(slots["primary"], p[2]) /\ b2 = At(slots'["primary"], p[2])
  OBVIOUS
<1>4. b2 = b /\ b.row = p[1]
  BY <1>3
<1>5. \A n : Own(p[2], n)' = Own(p[2], n)
  BY DEF Own
<1> QED BY <1>1, <1>2, <1>3, <1>4, <1>5 DEF MoonsOfRow

LEMMA MoonsStay ==
  ASSUME OrbitsInv, placed' = placed, asked' = asked,
         \A p \in placed : At(slots'["primary"], p[2]) = At(slots["primary"], p[2]),
         \A p \in placed : Touched(at', p[2]) <=> Touched(at, p[2]),
         Seen(at') = Seen(at),
         \A p \in placed : ~Touched(at, p[2]) /\ At(slots["primary"], p[2]).row = p[1] /\ p[2] \in DOMAIN wanted
                           => p[2] \in DOMAIN wanted' /\ wanted'[p[2]] = wanted[p[2]]
  PROVE  MoonsInv'
<1>1. ASSUME NEW p \in placed
      PROVE  p[1][1] = "planet" /\ At(slots'["primary"], p[2]).row = p[1] => MoonsOfRow(p)'
  BY RowMoonsStay
<1> QED BY <1>1 DEF MoonsInv

LEMMA Unmoved ==
  ASSUME OrbitsInv, slots' = slots, placed' = placed, Early(at) <=> Early(at'), Unplaced(at') => Unplaced(at)
  PROVE  /\ SlotsMade(slots') /\ MainInv' /\ RowsInv'
         /\ \A p \in placed : At(slots'["primary"], p[2]) = At(slots["primary"], p[2])
<1>1. SlotsMade(slots') /\ MainInv'
  BY DEF OrbitsInv, TypeInv, MainInv
<1> QED BY <1>1 DEF OrbitsInv, RowsInv

LEMMA NoRowsYet == ASSUME placed' = {} PROVE RowsInv' /\ MoonsInv'
BY DEF RowsInv, MoonsInv

LEMMA OrbitsStart == ASSUME NEW r \in Rows, OrbitsInit(r) PROVE OrbitsInv
<1>1. /\ asked = r /\ zones \in [StarNames -> ZoneTables] /\ orbit = [s \in StarNames |-> Open]
      /\ slots = [s \in StarNames |-> <<>>] /\ wanted = [o \in {} |-> 0] /\ giantsWanted = [o \in {} |-> 0]
      /\ placed = {} /\ at.star = "primary" /\ at.phase \in {"stars", "rejected"} /\ at.count = 0
  BY StarsAre DEF OrbitsInit, StarNames
<1>2. \A s \in StarNames : \A o \in Nat : At(slots[s], o) = Free
  <2>1. <<>> \in Seq(BodyType) /\ Len(<<>>) = 0
    OBVIOUS
  <2>2. \A o \in Nat : At(<<>>, o) = Free
    BY <2>1 DEF At
  <2> QED BY <1>1, <2>2
<1>3. SlotsMade(slots)
  <2>1. <<>> \in Seq(BodyType)
    OBVIOUS
  <2>2. slots \in [StarNames -> Seq(BodyType)]
    BY <1>1, <2>1
  <2> QED BY <1>2, <2>2, FreeMade DEF SlotsMade
<1>4. MainInv
  BY <1>1, <1>2, FreeMade DEF MainInv, Early, NothingYet, StarNames
<1>5. RowsInv /\ MoonsInv
  BY <1>1 DEF RowsInv, MoonsInv
<1>6. TypeInv
  <2>1. orbit \in [StarNames -> {n \in Int : n >= Open}]
    BY <1>1 DEF Open
  <2>2. DOMAIN wanted = {} /\ DOMAIN giantsWanted = {}
    BY <1>1
  <2>5. at.star = "primary" /\ at.phase \in {"stars", "rejected"} /\ at.count = 0
    BY <1>1, Zenon
  <2>6. at.star \in StarNames
    BY <2>5 DEF StarNames
  <2>7. at.count \in Nat
    BY <2>5
  <2>8. at.phase # "placing giants"
    BY <2>5
  <2>3. at.star \in StarNames /\ at.count \in Nat /\ at.phase # "placing giants"
    BY <2>6, <2>7, <2>8
  <2>4. asked \in Rows
    BY <1>1
  <2> QED BY <1>1, <1>3, <2>1, <2>2, <2>3, <2>4 DEF TypeInv
<1> QED BY <1>4, <1>5, <1>6 DEF OrbitsInv

LEMMA GenPrimaryKeeps == ASSUME OrbitsInv, GenPrimary PROVE OrbitsInv'
<1>1. TypeInv /\ MainInv /\ RowsInv
  BY DEF OrbitsInv
<1>2. PICK m \in Nat : slots' = [slots EXCEPT !["primary"] = Slots(m)]
  <2>1. PICK m \in MaxOrbits["primary"] : slots' = [slots EXCEPT !["primary"] = Slots(m)]
    BY DEF GenPrimary
  <2>2. MaxOrbits["primary"] \subseteq Nat
    BY StarsAre, OrbitsAssumption
  <2> QED BY <2>1, <2>2
<1>3. at.star = "primary" /\ at.phase = "stars"
  BY DEF GenPrimary, Here
<1>4. at'.star = "primary" /\ at'.phase = "companions" /\ at'.count \in Nat
  <2>1. PICK n : n \in (IF asked.stars # <<>> THEN {Len(StarRows(asked))} ELSE 1..3)
                 /\ Where("primary", "companions", n)
    BY DEF GenPrimary
  <2>2. Len(StarRows(asked)) \in Nat
    <3>1. PICK listed : listed = StarRows(asked)
      OBVIOUS
    <3>2. listed \in Seq(Number \cup {Close, Far})
      BY <1>1, <3>1, StarRowsAre DEF TypeInv
    <3> QED BY <3>1, <3>2
  <2> QED BY <2>1, <2>2 DEF Where
<1>5. \A o \in Nat : At(slots'["primary"], o) = Free /\ Slots(m) \in Seq(BodyType)
  BY <1>1, <1>2, SlotsAt DEF TypeInv, SlotsMade, StarNames
<1>6. SlotsMade(slots')
  BY <1>1, <1>2, <1>5, FreeMade DEF TypeInv, SlotsMade, StarNames
<1>7. MainInv'
  <2>1. NothingYet(slots)
    BY <1>1, <1>3 DEF MainInv, Early
  <2>2. NothingYet(slots')
    BY <1>1, <1>2, <1>5, <2>1, FreeMade DEF NothingYet, TypeInv, SlotsMade, StarNames
  <2> QED BY <1>4, <2>2 DEF MainInv, Early
<1>8. placed' = {}
  BY <1>1, <1>3 DEF RowsInv, Unplaced, GenPrimary
<1>9. TypeInv'
  BY <1>1, <1>4, <1>6 DEF TypeInv, GenPrimary, Else, StarNames
<1> QED BY <1>7, <1>8, <1>9, NoRowsYet DEF OrbitsInv

LEMMA NearIs == ASSUME NEW o \in Nat PROVE Near(o) \subseteq Nat /\ IsFiniteSet(Near(o))
<1>1. o \div 2 \in Nat
  OBVIOUS
<1>2. PICK a, b : a = o \div 2 + 1 /\ b = o - 1
  OBVIOUS
<1>3. IsFiniteSet(a .. b) /\ a .. b \subseteq Nat
  BY <1>1, <1>2, FS_Interval
<1>4. IsFiniteSet({o + 1}) /\ IsFiniteSet({o + 2})
  BY FS_Singleton
<1>5. IsFiniteSet({o + 1} \cup {o + 2})
  BY <1>4, FS_Union
<1>6. IsFiniteSet((a .. b) \cup ({o + 1} \cup {o + 2}))
  BY <1>3, <1>5, FS_Union
<1>7. Near(o) = (a .. b) \cup ({o + 1} \cup {o + 2})
  BY <1>2 DEF Near
<1> QED BY <1>3, <1>6, <1>7

LEMMA CompanionIs ==
  ASSUME TypeInv, NothingYet(slots), NEW s \in {"secondary", "tertiary"}, NEW i \in Nat, i # 0, Companion(s, i)
  PROVE  orbit' \in [StarNames -> {n \in Int : n >= Open}] /\ SlotsMade(slots') /\ NothingYet(slots')
<1> DEFINE orbitOf == IF i <= Len(StarRows(asked)) THEN StarRows(asked)[i] ELSE Open
<1>1. orbitOf \in Number \cup {Close, Far}
  <2>1. PICK listed : listed = StarRows(asked)
    OBVIOUS
  <2>2. listed \in Seq(Number \cup {Close, Far})
    BY <2>1, StarRowsAre DEF TypeInv
  <2> QED BY <2>1, <2>2 DEF Number
<1>2. PICK o, m : /\ o \in (IF orbitOf # Open THEN {orbitOf} ELSE StarOrbits) /\ m \in MaxOrbits[s]
                  /\ LET where == IF o >= 0 /\ o <= zones["primary"].inside THEN Close ELSE o IN
                     /\ orbit' = [orbit EXCEPT ![s] = where]
                     /\ slots' = [slots EXCEPT
                          ![s] = Slots(m),
                          !["primary"] = IF where >= 0 THEN Put(Put(@, {where}, Star(s)), Near(where), Blocked) ELSE @]
  BY DEF Companion
<1> HIDE DEF orbitOf
<1>3. PICK w : w = IF o >= 0 /\ o <= zones["primary"].inside THEN Close ELSE o
  OBVIOUS
<1>4. o \in Nat \cup {Close, Far} /\ m \in Nat
  <2>1. MaxOrbits[s] \subseteq Nat
    BY StarsAre, OrbitsAssumption
  <2>2. StarOrbits \subseteq Nat \cup {Close, Far}
    BY OrbitsAssumption
  <2> QED BY <1>1, <1>2, <2>1, <2>2 DEF Number, Open
<1>5. w \in Nat \cup {Close, Far} /\ w \in Int /\ w >= Open /\ (w >= 0 => w \in Nat)
  BY <1>3, <1>4 DEF Close, Far, Open
<1>6. orbit' = [orbit EXCEPT ![s] = w]
  BY <1>2, <1>3
<1>7. PICK old : old = slots["primary"]
  OBVIOUS
<1>8. old \in Seq(BodyType) /\ \A u \in Nat : WellMade(At(old, u)) /\ Unmarked(At(old, u))
  BY <1>7 DEF TypeInv, SlotsMade, NothingYet, StarNames
<1>9. PICK new : new = IF w >= 0 THEN Put(Put(old, {w}, Star(s)), Near(w), Blocked) ELSE old
  OBVIOUS
<1>10. slots' = [slots EXCEPT ![s] = Slots(m), !["primary"] = new]
  BY <1>2, <1>3, <1>7, <1>9
<1>11. Star(s) \in BodyType /\ WellMade(Star(s)) /\ Unmarked(Star(s)) /\ Blocked \in BodyType
  <2>1. PICK b \in BOOLEAN : b = FALSE
    OBVIOUS
  <2>2. PICK r : r = Rolled
    OBVIOUS
  <2>3. s \in Whats /\ s # "Giant" /\ r \in RowType /\ r # Main
    BY <2>2, FreeIsBody, FreeMade DEF Whats
  <2>4. (s = "Giant" => r = Rolled) /\ (r = Main => s = "World")
    BY <2>3
  <2>5. /\ WellMade(Body(s, r, b)) /\ (r # Main => Unmarked(Body(s, r, b)))
        /\ Body(s, r, b).moons = <<>> /\ Body(s, r, b).row = r /\ Body(s, r, b).what = s
    BY <2>3, <2>4, FreshBody, ZenonT(30)
  <2>6. Star(s) = Body(s, r, b)
    BY <2>1, <2>2 DEF Star
  <2> QED BY <2>3, <2>5, <2>6, FreeIsBody DEF WellMade
<1>12. new \in Seq(BodyType) /\ \A u \in Nat : WellMade(At(new, u)) /\ Unmarked(At(new, u))
  <2>1. CASE w >= 0
    <3>1. PICK os, body : os = {w} /\ body = Star(s)
      OBVIOUS
    <3>2. os \subseteq Nat /\ IsFiniteSet(os) /\ body \in BodyType
      BY <1>5, <1>11, <2>1, <3>1, FS_Singleton
    <3>3. PICK mid : mid = Put(old, os, body)
      OBVIOUS
    <3>4. PutIn(old, mid, os, body)
      BY <1>8, <3>2, <3>3, PutAt, Zenon
    <3>5. mid \in Seq(BodyType) /\ \A u \in Nat : WellMade(At(mid, u)) /\ Unmarked(At(mid, u))
      BY <1>8, <1>11, <3>1, <3>4 DEF PutIn
    <3>6. w \in Nat
      BY <1>5, <2>1
    <3>7. Near(w) \subseteq Nat /\ IsFiniteSet(Near(w))
      BY <3>6, NearIs
    <3>8. PutIn(mid, Put(mid, Near(w), Blocked), Near(w), Blocked)
      BY <1>11, <3>5, <3>7, PutAt, Zenon
    <3>9. new = Put(mid, Near(w), Blocked)
      BY <1>9, <2>1, <3>1, <3>3
    <3> QED BY <3>5, <3>8, <3>9, FreeMade DEF PutIn
  <2>2. CASE ~(w >= 0)
    BY <1>8, <1>9, <2>2
  <2> QED BY <2>1, <2>2
<1>13. Slots(m) \in Seq(BodyType) /\ \A u \in Nat : At(Slots(m), u) = Free
  BY <1>4, SlotsAt
<1>14. orbit' \in [StarNames -> {n \in Int : n >= Open}]
  BY <1>5, <1>6 DEF TypeInv, StarNames
<1>15. slots \in [StarNames -> Seq(BodyType)]
  BY DEF TypeInv, SlotsMade
<1>16. /\ slots' \in [StarNames -> Seq(BodyType)] /\ slots'["primary"] = new /\ slots'[s] = Slots(m)
       /\ \A t \in StarNames : t # s /\ t # "primary" => slots'[t] = slots[t]
  BY <1>10, <1>12, <1>13, <1>15 DEF StarNames
<1>17. SlotsMade(slots')
  BY <1>12, <1>13, <1>16, FreeMade DEF SlotsMade, TypeInv
<1>18. NothingYet(slots')
  BY <1>12, <1>13, <1>16 DEF NothingYet
<1> QED BY <1>14, <1>17, <1>18

LEMMA GenSecondaryKeeps == ASSUME OrbitsInv, GenSecondary PROVE OrbitsInv'
<1>1. TypeInv /\ MainInv /\ RowsInv
  BY DEF OrbitsInv
<1>2. at.star = "primary" /\ at.phase = "companions"
  BY DEF GenSecondary, Here
<1>3. at'.star = "primary" /\ at'.phase \in {"companions", "blocked"} /\ at'.count = at.count
  BY DEF GenSecondary, Where
<1>4. NothingYet(slots)
  BY <1>1, <1>2 DEF MainInv, Early
<1>5. PICK s \in {"secondary", "tertiary"} : s = "secondary"
  OBVIOUS
<1>6. Companion(s, 2)
  BY <1>5 DEF GenSecondary
<1>7. orbit' \in [StarNames -> {n \in Int : n >= Open}] /\ SlotsMade(slots') /\ NothingYet(slots')
  BY <1>1, <1>4, <1>6, CompanionIs
<1>8. MainInv'
  BY <1>3, <1>7 DEF MainInv, Early
<1>9. placed' = {}
  BY <1>1, <1>2 DEF RowsInv, Unplaced, GenSecondary
<1>10. TypeInv'
  BY <1>1, <1>3, <1>7 DEF TypeInv, GenSecondary, Else, StarNames
<1> QED BY <1>8, <1>9, <1>10, NoRowsYet DEF OrbitsInv

LEMMA GenTertiaryKeeps == ASSUME OrbitsInv, GenTertiary PROVE OrbitsInv'
<1>1. TypeInv /\ MainInv /\ RowsInv
  BY DEF OrbitsInv
<1>2. at.star = "primary" /\ at.phase = "companions"
  BY DEF GenTertiary, Here
<1>3. at'.star = "primary" /\ at'.phase = "blocked" /\ at'.count = 0
  BY DEF GenTertiary, Where
<1>4. NothingYet(slots)
  BY <1>1, <1>2 DEF MainInv, Early
<1>5. PICK s \in {"secondary", "tertiary"} : s = "tertiary"
  OBVIOUS
<1>6. Companion(s, 3)
  BY <1>5 DEF GenTertiary
<1>7. orbit' \in [StarNames -> {n \in Int : n >= Open}] /\ SlotsMade(slots') /\ NothingYet(slots')
  BY <1>1, <1>4, <1>6, CompanionIs
<1>8. MainInv'
  BY <1>3, <1>7 DEF MainInv, Early
<1>9. placed' = {}
  BY <1>1, <1>2 DEF RowsInv, Unplaced, GenTertiary
<1>10. TypeInv'
  <2>1. at'.star \in StarNames
    BY <1>3 DEF StarNames
  <2>2. at'.count \in Nat
    BY <1>3
  <2>3. at'.star = "primary" /\ at'.phase # "placing giants"
    BY <1>3
  <2> QED BY <1>1, <1>7, <2>1, <2>2, <2>3 DEF TypeInv, GenTertiary, Else
<1> QED BY <1>8, <1>9, <1>10, NoRowsYet DEF OrbitsInv

LEMMA AloneKeeps == ASSUME OrbitsInv, Alone PROVE OrbitsInv'
<1>1. TypeInv /\ MainInv /\ RowsInv
  BY DEF OrbitsInv
<1>2. at.star = "primary" /\ at.phase = "companions"
  BY DEF Alone, Here
<1>3. at'.star = "primary" /\ at'.phase = "blocked" /\ at'.count = 0
  BY DEF Alone, Where
<1>4. slots' = slots /\ placed' = {}
  BY <1>1, <1>2 DEF RowsInv, Unplaced, Alone
<1>5. MainInv'
  BY <1>1, <1>2, <1>3, <1>4 DEF MainInv, Early
<1>6. TypeInv'
  <2>1. at'.star \in StarNames
    BY <1>3 DEF StarNames
  <2>2. at'.count \in Nat
    BY <1>3
  <2>3. at'.star = "primary" /\ at'.phase # "placing giants"
    BY <1>3
  <2> QED BY <1>1, <2>1, <2>2, <2>3 DEF TypeInv, Alone, Else
<1> QED BY <1>4, <1>5, <1>6, NoRowsYet DEF OrbitsInv

LEMMA FreeOrbit ==
  ASSUME TypeInv, NEW s \in StarNames, NEW u \in Unused(slots[s])
  PROVE  u \in Nat /\ At(slots[s], u) = Free /\ Unmarked(At(slots[s], u)) /\ At(slots[s], u).row = Rolled
         /\ u \in 0 .. Len(slots[s]) - 1
<1>1. At(slots[s], u) = Free /\ u \in 0 .. Len(slots[s]) - 1
  BY DEF Unused
<1> QED BY <1>1, FreeMade

LEMMA PutOnFree ==
  ASSUME OrbitsInv, NEW os, os \subseteq Unused(Mine), NEW body, WellMade(body), Unmarked(body),
         Only(Put(Mine, os, body)), Early(at) <=> Early(at')
  PROVE  /\ SlotsMade(slots') /\ MainInv'
         /\ \A p \in placed : At(slots'["primary"], p[2]) = At(slots["primary"], p[2])
<1>1. PICK s \in StarNames : s = at.star
  BY DEF OrbitsInv, TypeInv
<1>2. TypeInv /\ slots \in [StarNames -> Seq(BodyType)] /\ Mine = slots[s]
  BY <1>1 DEF OrbitsInv, TypeInv, SlotsMade, Mine
<1>3. \A u \in os : u \in Nat /\ Unmarked(At(slots[s], u)) /\ At(slots[s], u).row = Rolled
  BY <1>2, FreeOrbit
<1>4. IsFiniteSet(os) /\ os \subseteq Nat
  <2>1. PICK seq : seq = slots[s]
    OBVIOUS
  <2>2. IsFiniteSet(Unused(seq)) /\ os \in SUBSET Unused(seq)
    BY <1>2, <2>1, UnusedAre
  <2> QED BY <1>3, <2>2, FS_Subset
<1>5. body \in BodyType
  BY DEF WellMade
<1>6. slots' = [slots EXCEPT ![s] = Put(slots[s], os, body)]
  BY <1>1 DEF Only, Mine
<1>7. Receives(slots, slots', s, os, body)
  BY <1>2, <1>4, <1>5, <1>6, PutBecomes
<1>8. Early(at) => s = "primary"
  BY <1>1 DEF Early
<1> QED BY <1>3, <1>7, <1>8, PlainKeeps

LEMMA BlockOrbitsKeeps == ASSUME OrbitsInv, BlockOrbits PROVE OrbitsInv'
<1>1. TypeInv /\ RowsInv
  BY DEF OrbitsInv
<1>2. PICK os \in SUBSET Unused(Mine) : Only(Put(Mine, os, Blocked))
  BY DEF BlockOrbits
<1>3. /\ at.phase = "blocked" /\ at'.star = at.star /\ at'.count = 0
      /\ at'.phase = IF at.star = "primary" THEN "empties" ELSE "giants"
  BY DEF BlockOrbits, Where
<1>4. Early(at) <=> Early(at')
  BY <1>3 DEF Early
<1>5. /\ SlotsMade(slots') /\ MainInv'
      /\ \A p \in placed : At(slots'["primary"], p[2]) = At(slots["primary"], p[2])
  BY <1>2, <1>4, FreeMade, PutOnFree
<1>6. /\ placed' = placed /\ asked' = asked /\ wanted' = wanted /\ giantsWanted' = giantsWanted
      /\ zones' = zones /\ orbit' = orbit
  BY DEF BlockOrbits, Still, Else
<1>7. RowsInv'
  <2>1. Unplaced(at') => Unplaced(at)
    BY <1>3 DEF Unplaced
  <2> QED BY <1>5, <1>6, <2>1, RowsStay
<1>8. MoonsInv'
  <2>1. \A p \in placed : Touched(at', p[2]) <=> Touched(at, p[2])
    BY <1>3 DEF Touched
  <2>2. Seen(at') = Seen(at)
    BY <1>3 DEF Seen
  <2> QED BY <1>5, <1>6, <2>1, <2>2, MoonsStay
<1>9. TypeInv'
  BY <1>1, <1>3, <1>5, <1>6 DEF TypeInv
<1> QED BY <1>5, <1>7, <1>8, <1>9 DEF OrbitsInv

LEMMA PlaceEmptiesKeeps == ASSUME OrbitsInv, PlaceEmpties PROVE OrbitsInv'
<1>1. TypeInv /\ RowsInv /\ MainInv
  BY DEF OrbitsInv
<1>2. at.phase = "empties" /\ at.star = "primary"
  BY <1>1 DEF PlaceEmpties, TypeInv
<1>3. at'.star = "primary" /\ at'.phase = "planets" /\ at'.count = 0
  BY DEF PlaceEmpties, Where
<1>4. PICK os : os = {o \in Range(asked.empties) : o < Len(Mine)}
  OBVIOUS
<1>5. PICK body, e : e = <<"empty", 0>> /\ body = Body("Blocked", e, FALSE)
  OBVIOUS
<1>6. Only(Put(Mine, os, body)) /\ placed' = {<<e, o>> : o \in os}
  BY <1>4, <1>5 DEF PlaceEmpties
<1>7. e \in RowType /\ e # Rolled /\ e # Main /\ e[1] # "planet"
  BY <1>5 DEF RowType, Rolled, Main
<1>8. WellMade(body) /\ Unmarked(body) /\ body.row = e /\ body \in BodyType
  <2>1. PICK b \in BOOLEAN : b = FALSE
    OBVIOUS
  <2>2. PICK w \in Whats : w = "Blocked"
    BY DEF Whats
  <2>3. (w = "Giant" => e = Rolled) /\ (e = Main => w = "World")
    BY <1>7, <2>2
  <2>4. /\ WellMade(Body(w, e, b)) /\ (e # Main => Unmarked(Body(w, e, b)))
        /\ Body(w, e, b).moons = <<>> /\ Body(w, e, b).row = e /\ Body(w, e, b).what = w
    BY <1>7, <2>1, <2>2, <2>3, FreshBody, ZenonT(30)
  <2>5. body = Body(w, e, b)
    BY <1>5, <2>1, <2>2
  <2> QED BY <1>7, <2>4, <2>5 DEF WellMade
<1>9. PICK s \in StarNames : s = "primary"
  BY DEF StarNames
<1>10. slots \in [StarNames -> Seq(BodyType)] /\ Mine = slots[s]
  BY <1>1, <1>2, <1>9 DEF TypeInv, SlotsMade, Mine
<1>11. os \subseteq Nat /\ IsFiniteSet(os)
  <2>1. PICK n : n = Len(slots[s])
    OBVIOUS
  <2>2. n \in Nat
    BY <1>10, <2>1
  <2>3. asked.empties \in Seq(Nat)
    BY <1>1, OrbitsAssumption DEF TypeInv
  <2>4. Range(asked.empties) \subseteq Nat
    BY <2>3 DEF Range
  <2>5. PICK t : t = 0 .. n
    OBVIOUS
  <2>6. IsFiniteSet(t)
    BY <2>2, <2>5, FS_Interval
  <2>7. n = Len(Mine)
    BY <1>10, <2>1
  <2>8. os \subseteq Nat /\ \A o \in os : o < n
    BY <1>4, <2>4, <2>7
  <2>9. os \in SUBSET t
    BY <2>2, <2>5, <2>8
  <2> QED BY <2>6, <2>8, <2>9, FS_Subset
<1>12. slots' = [slots EXCEPT ![s] = Put(slots[s], os, body)]
  BY <1>2, <1>6, <1>9 DEF Only, Mine
<1>13. Receives(slots, slots', s, os, body)
  BY <1>8, <1>10, <1>11, <1>12, PutBecomes
<1>14. NothingYet(slots) /\ SlotsMade(slots)
  BY <1>1, <1>2 DEF MainInv, Early, TypeInv
<1>15. NothingYet(slots')
  <2>1. \A u \in Nat : u \in os => Unmarked(At(slots[s], u))
    BY <1>9, <1>14 DEF NothingYet
  <2> QED BY <1>8, <1>9, <1>13, <1>14, <2>1, PlainPut
<1>16. SlotsMade(slots')
  BY <1>8, <1>13, <1>14, MadeStays
<1>17. MainInv'
  BY <1>3, <1>15 DEF MainInv, Early
<1>18. RowsInv'
  <2>1. ASSUME NEW p \in placed'
        PROVE  /\ p \in RowType \X Nat /\ p[1] \notin {Rolled, Main}
               /\ At(slots'["primary"], p[2]).row \in {p[1], Main}
    <3>1. PICK o \in os : p = <<e, o>>
      BY <1>6, <2>1
    <3>2. At(slots'["primary"], o) = body
      BY <1>9, <1>11, <1>13, <3>1 DEF Receives
    <3> QED BY <1>7, <1>8, <1>11, <3>1, <3>2
  <2>2. ~Unplaced(at')
    BY <1>3 DEF Unplaced
  <2> QED BY <2>1, <2>2 DEF RowsInv
<1>19. MoonsInv'
  <2>1. \A p \in placed' : p[1][1] # "planet"
    BY <1>6, <1>7
  <2> QED BY <2>1 DEF MoonsInv
<1>20. TypeInv'
  <2>1. at'.star \in StarNames
    BY <1>3 DEF StarNames
  <2>2. at'.count \in Nat
    BY <1>3
  <2>3. at'.star = "primary" /\ at'.phase # "placing giants"
    BY <1>3
  <2> QED BY <1>1, <1>16, <2>1, <2>2, <2>3 DEF TypeInv, PlaceEmpties, Still, Else
<1> QED BY <1>17, <1>18, <1>19, <1>20 DEF OrbitsInv

LEMMA OverrideKeeps ==
  ASSUME NEW f, \A p \in DOMAIN f : f[p] \in Nat, NEW o \in Nat, NEW n \in Number
  PROVE  /\ \A p \in DOMAIN Override(f, o, n) : Override(f, o, n)[p] \in Nat
         /\ n # Open => o \in DOMAIN Override(f, o, n) /\ Override(f, o, n)[o] = n
         /\ \A p \in DOMAIN f : p # o => p \in DOMAIN Override(f, o, n) /\ Override(f, o, n)[p] = f[p]
BY DEF Override, Number

RowTyped(list) == list \in Seq([orbit : Number, moons : Number, solid : BOOLEAN])

\* No row is placed yet where the orbit is free.
LEMMA FreeOfRows ==
  ASSUME OrbitsInv, NEW o, At(slots["primary"], o) = Free, NEW p \in placed PROVE p[2] # o
BY FreeMade DEF OrbitsInv, RowsInv

LEMMA PlaceRowKeeps ==
  ASSUME OrbitsInv, NEW list, RowTyped(list), NEW what \in {"planet", "belt"}, NEW then \in {"belts", "giants"},
         at.phase \in {"planets", "belts"}, what = "planet" => list = asked.planets,
         PlaceRow(list, what, then), Still, giantsWanted' = giantsWanted
  PROVE  OrbitsInv'
<1>1. TypeInv /\ RowsInv
  BY DEF OrbitsInv
<1>2. at.star = "primary" /\ at.count \in Nat
  BY <1>1 DEF TypeInv
<1>3. asked' = asked /\ zones' = zones /\ orbit' = orbit
  BY DEF Still, Else
<1>4. PICK i \in Nat : i = at.count + 1
  BY <1>2
<1>5. at'.star = "primary" /\ at'.phase \in {"planets", "belts", "giants"} /\ at'.count \in Nat
  <2>1. at'.star = "primary" /\ (at'.phase = then \/ at'.phase = at.phase) /\ (at'.count = 0 \/ at'.count = i)
    BY <1>4 DEF PlaceRow, Where
  <2>2. at'.count \in Nat
    BY <1>4, <2>1
  <2> QED BY <2>1, <2>2
<1>6. Early(at) /\ Early(at') /\ ~Unplaced(at')
  BY <1>2, <1>5 DEF Early, Unplaced
<1>7. \A o : ~Touched(at, o) /\ ~Touched(at', o)
  BY <1>2, <1>5 DEF Touched
<1>8. Seen(at') = Seen(at)
  BY <1>2, <1>5 DEF Seen
<1>9. ASSUME SlotsMade(slots'), \A o \in DOMAIN wanted' : wanted'[o] \in Nat PROVE TypeInv'
  <2>1. at'.star \in StarNames /\ at'.star = "primary"
    BY <1>5 DEF StarNames
  <2>2. at'.phase # "placing giants"
    BY <1>5
  <2> QED BY <1>1, <1>3, <1>5, <1>9, <2>1, <2>2 DEF TypeInv
<1>10. CASE slots' = slots /\ wanted' = wanted /\ placed' = placed
  <2>1. /\ SlotsMade(slots') /\ MainInv' /\ RowsInv'
        /\ \A p \in placed : At(slots'["primary"], p[2]) = At(slots["primary"], p[2])
    BY <1>6, <1>10, Unmoved
  <2>2. MoonsInv'
    BY <1>3, <1>7, <1>8, <1>10, <2>1, MoonsStay
  <2>3. TypeInv'
    BY <1>1, <1>9, <1>10, <2>1 DEF TypeInv
  <2> QED BY <2>1, <2>2, <2>3 DEF OrbitsInv
<1>11. ASSUME i \in 1 .. Len(list), NEW o \in Unused(Mine),
              Only(Put(Mine, {o}, Body("World", <<what, i>>, list[i].solid))),
              wanted' = Override(wanted, o, list[i].moons), placed' = placed \cup {<<<<what, i>>, o>>}
       PROVE  OrbitsInv'
  <2>1. PICK r : r = <<what, i>>
    OBVIOUS
  <2>2. r \in RowType /\ r # Rolled /\ r # Main /\ r[1] = what /\ r[2] = i
    BY <2>1 DEF RowType, Rolled, Main
  <2>3. PICK row : row = list[i]
    OBVIOUS
  <2>4. row \in [orbit : Number, moons : Number, solid : BOOLEAN]
    <3> DEFINE T == [orbit : Number, moons : Number, solid : BOOLEAN]
    <3>1. list \in Seq(T)
      BY DEF RowTyped
    <3> HIDE DEF T
    <3>2. row \in T
      BY <1>11, <2>3, <3>1
    <3> QED BY <3>2 DEF T
  <2>5. PICK n \in Number, b \in BOOLEAN : n = row.moons /\ b = row.solid
    BY <2>4
  <2>6. PICK w \in Whats : w = "World"
    BY DEF Whats
  <2>7. PICK body : body = Body(w, r, b)
    OBVIOUS
  <2>8. WellMade(body) /\ Unmarked(body) /\ body.row = r /\ body.moons = <<>> /\ body.what = "World"
    <3>1. (w = "Giant" => r = Rolled) /\ (r = Main => w = "World")
      BY <2>6
    <3>2. /\ WellMade(Body(w, r, b)) /\ (r # Main => Unmarked(Body(w, r, b)))
          /\ Body(w, r, b).moons = <<>> /\ Body(w, r, b).row = r /\ Body(w, r, b).what = w
      <4>1. r \in RowType /\ b \in BOOLEAN /\ w \in Whats
        BY <2>2, <2>5, <2>6
      <4> QED BY <3>1, <4>1, FreshBody, ZenonT(30)
    <3> QED BY <2>2, <2>6, <2>7, <3>2
  <2>9. Only(Put(Mine, {o}, body))
    BY <1>11, <2>1, <2>3, <2>5, <2>6, <2>7
  <2>10. /\ SlotsMade(slots') /\ MainInv'
         /\ \A p \in placed : At(slots'["primary"], p[2]) = At(slots["primary"], p[2])
    <3>1. PICK os : os = {o}
      OBVIOUS
    <3>2. os \subseteq Unused(Mine) /\ Only(Put(Mine, os, body))
      BY <1>11, <2>9, <3>1
    <3>3. Early(at) <=> Early(at')
      BY <1>6
    <3> QED BY <2>8, <3>2, <3>3, PutOnFree
  <2>11. PICK s \in StarNames : s = "primary"
    BY DEF StarNames
  <2>12. o \in Unused(slots[s]) /\ slots \in [StarNames -> Seq(BodyType)]
    BY <1>1, <1>2, <1>11, <2>11 DEF Mine, TypeInv, SlotsMade
  <2>13. o \in Nat /\ At(slots[s], o) = Free
    BY <1>1, <2>12, FreeOrbit
  <2>14. At(slots'["primary"], o) = body
    <3>1. PICK os, seq : os = {o} /\ seq = slots[s]
      OBVIOUS
    <3>2. os \subseteq Nat /\ IsFiniteSet(os) /\ body \in BodyType /\ seq \in Seq(BodyType)
      BY <2>8, <2>12, <2>13, <3>1, FS_Singleton DEF WellMade
    <3>3. PutIn(seq, Put(seq, os, body), os, body)
      BY <3>2, PutAt, Zenon
    <3>4. slots'["primary"] = Put(seq, os, body)
      BY <1>2, <2>9, <2>11, <2>12, <3>1 DEF Only, Mine
    <3> QED BY <2>13, <3>1, <3>3, <3>4 DEF PutIn
  <2>15. wanted' = Override(wanted, o, n) /\ placed' = placed \cup {<<r, o>>}
    BY <1>11, <2>1, <2>3, <2>5
  <2>16. \A p \in DOMAIN wanted : wanted[p] \in Nat
    BY <1>1 DEF TypeInv
  <2>17. /\ \A p \in DOMAIN wanted' : wanted'[p] \in Nat
         /\ n # Open => o \in DOMAIN wanted' /\ wanted'[o] = n
         /\ \A p \in DOMAIN wanted : p # o => p \in DOMAIN wanted' /\ wanted'[p] = wanted[p]
    BY <2>13, <2>15, <2>16, OverrideKeeps
  <2>18. \A p \in placed : p[2] # o
    BY <2>11, <2>13, FreeOfRows
  <2>19. RowsInv'
    <3>1. ASSUME NEW p \in placed'
          PROVE  /\ p \in RowType \X Nat /\ p[1] \notin {Rolled, Main}
                 /\ At(slots'["primary"], p[2]).row \in {p[1], Main}
      <4>1. CASE p \in placed
        BY <1>1, <2>10, <4>1 DEF RowsInv
      <4>2. CASE p = <<r, o>>
        BY <2>2, <2>8, <2>13, <2>14, <4>2
      <4> QED BY <2>15, <3>1, <4>1, <4>2
    <3> QED BY <1>6, <3>1 DEF RowsInv
  <2>20. MoonsInv'
    <3>1. ASSUME NEW p \in placed', p[1][1] = "planet", At(slots'["primary"], p[2]).row = p[1]
          PROVE  MoonsOfRow(p)'
      <4>1. CASE p \in placed
        <5>1. p[2] # o
          BY <2>18, <4>1
        <5>2. p[2] \in DOMAIN wanted => p[2] \in DOMAIN wanted' /\ wanted'[p[2]] = wanted[p[2]]
          BY <2>17, <5>1
        <5> QED BY <1>3, <1>7, <1>8, <2>10, <3>1, <4>1, <5>2, RowMoonsStay
      <4>2. CASE p = <<r, o>>
        <5>1. what = "planet" /\ p[2] = o /\ p[1][2] = i
          BY <2>2, <3>1, <4>2
        <5>2. list = asked'.planets /\ i \in DOMAIN asked'.planets /\ asked'.planets[p[1][2]].moons = n
          BY <1>3, <1>11, <2>3, <2>5, <5>1 DEF RowTyped
        <5>3. ~Touched(at', p[2])
          BY <1>7
        <5>4. ~Touched(at, p[2])'
          BY <5>3 DEF Touched
        <5> QED BY <2>8, <2>14, <2>17, <5>1, <5>2, <5>4 DEF MoonsOfRow
      <4> QED BY <2>15, <3>1, <4>1, <4>2
    <3> QED BY <3>1 DEF MoonsInv
  <2>21. TypeInv'
    BY <1>9, <2>10, <2>17
  <2> QED BY <2>10, <2>19, <2>20, <2>21 DEF OrbitsInv
<1>12. CASE i > Len(list)
  <2>1. slots' = slots /\ wanted' = wanted /\ placed' = placed
    BY <1>4, <1>12 DEF PlaceRow, RowTyped
  <2> QED BY <1>10, <2>1
<1>13. CASE i <= Len(list)
  <2> DEFINE os == IF list[i].orbit = Open THEN Unused(Mine) ELSE Unused(Mine) \cap {list[i].orbit}
  <2>0. ~(i > Len(list))
    BY <1>4, <1>13 DEF RowTyped
  <2>1. IF os = {} THEN UNCHANGED <<slots, wanted, placed>>
        ELSE /\ Only(Put(Mine, {Min(os)}, Body("World", <<what, i>>, list[i].solid)))
             /\ wanted' = Override(wanted, Min(os), list[i].moons)
             /\ placed' = placed \cup {<<<<what, i>>, Min(os)>>}
    BY <1>4, <2>0 DEF PlaceRow
  <2>2. os \subseteq Unused(Mine)
    OBVIOUS
  <2>3. Unused(Mine) \subseteq Nat
    <3>1. PICK s \in StarNames : s = "primary"
      BY DEF StarNames
    <3>2. \A u \in Unused(slots[s]) : u \in Nat
      BY <1>1, FreeOrbit
    <3> QED BY <1>2, <3>1, <3>2 DEF Mine
  <2> HIDE DEF os
  <2>4. CASE os = {}
    <3>1. slots' = slots /\ wanted' = wanted /\ placed' = placed
      BY <2>1, <2>4
    <3> QED BY <1>10, <3>1
  <2>5. CASE os # {}
    <3>1. PICK o : o = Min(os)
      OBVIOUS
    <3>2. o \in Unused(Mine)
      BY <2>2, <2>3, <2>5, <3>1, MinOfSet
    <3>3. i \in 1 .. Len(list)
      BY <1>4, <1>2, <1>13 DEF RowTyped
    <3> QED BY <1>11, <2>1, <2>5, <3>1, <3>2, <3>3
  <2> QED BY <2>4, <2>5
<1>14. Len(list) \in Nat
  BY DEF RowTyped
<1> QED BY <1>12, <1>13, <1>14

LEMMA PlacePlanetsKeeps == ASSUME OrbitsInv, PlacePlanets PROVE OrbitsInv'
<1>1. RowTyped(asked.planets)
  BY OrbitsAssumption DEF RowTyped, OrbitsInv, TypeInv
<1>2. PICK what \in {"planet", "belt"}, then \in {"belts", "giants"} : what = "planet" /\ then = "belts"
  OBVIOUS
<1>4. PICK list : list = asked.planets
  OBVIOUS
<1>3. PlaceRow(list, what, then) /\ Still /\ giantsWanted' = giantsWanted /\ at.phase = "planets"
  BY <1>2, <1>4 DEF PlacePlanets
<1> QED BY <1>1, <1>2, <1>3, <1>4, PlaceRowKeeps

LEMMA PlaceBeltsKeeps == ASSUME OrbitsInv, PlaceBelts PROVE OrbitsInv'
<1>1. RowTyped(asked.belts)
  BY OrbitsAssumption DEF RowTyped, OrbitsInv, TypeInv
<1>2. PICK what \in {"planet", "belt"}, then \in {"belts", "giants"} : what = "belt" /\ then = "giants"
  OBVIOUS
<1>4. PICK list : list = asked.belts
  OBVIOUS
<1>3. PlaceRow(list, what, then) /\ Still /\ giantsWanted' = giantsWanted /\ at.phase = "belts"
  BY <1>2, <1>4 DEF PlaceBelts
<1> QED BY <1>1, <1>2, <1>3, <1>4, PlaceRowKeeps

LEMMA StandStill ==
  ASSUME OrbitsInv, asked' = asked, slots' = slots, placed' = placed, wanted' = wanted,
         Early(at) <=> Early(at'), Unplaced(at') => Unplaced(at),
         \A p \in placed : Touched(at', p[2]) <=> Touched(at, p[2]), Seen(at') = Seen(at)
  PROVE  SlotsMade(slots') /\ MainInv' /\ RowsInv' /\ MoonsInv'
<1>1. /\ SlotsMade(slots') /\ MainInv' /\ RowsInv'
      /\ \A p \in placed : At(slots'["primary"], p[2]) = At(slots["primary"], p[2])
  BY Unmoved
<1> QED BY <1>1, MoonsStay

LEMMA TypesStay ==
  ASSUME TypeInv, asked' = asked, zones' = zones, orbit' = orbit, SlotsMade(slots'),
         \A o \in DOMAIN wanted' : wanted'[o] \in Nat, \A o \in DOMAIN giantsWanted' : giantsWanted'[o] \in Nat,
         at'.star \in StarNames, at'.count \in Nat,
         \/ at'.star = "primary"
         \/ at'.phase \in {"blocked", "giants", "placing giants", "planetoids", "panicked", "filling", "moons",
                           "filled", "done"},
         at'.phase = "placing giants" => at'.count <= Cardinality(Unused(slots'[at'.star]))
  PROVE  TypeInv'
BY DEF TypeInv, Mine

LEMMA CountGiantsKeeps == ASSUME OrbitsInv, CountGiants PROVE OrbitsInv'
<1>1. TypeInv
  BY DEF OrbitsInv
<1>2. PICK n : /\ n \in (IF at.star = "primary" /\ asked.giants # <<>> THEN {Len(asked.giants)} ELSE Giants)
               /\ Where(at.star, "placing giants", Min({n, Cardinality(Unused(Mine))}))
  BY DEF CountGiants
<1>3. PICK c : c = Cardinality(Unused(Mine))
  OBVIOUS
<1>4. n \in Nat
  <2>1. asked.giants \in Seq([orbit : Number, moons : Number])
    BY <1>1, OrbitsAssumption DEF TypeInv
  <2>2. Len(asked.giants) \in Nat
    BY <2>1
  <2>3. Giants \subseteq Nat
    BY OrbitsAssumption
  <2> QED BY <1>2, <2>2, <2>3
<1>5. c \in Nat
  <2>1. PICK s \in StarNames : s = at.star
    BY <1>1 DEF TypeInv
  <2>2. PICK seq : seq = slots[s]
    OBVIOUS
  <2>3. seq \in Seq(BodyType) /\ Mine = seq
    BY <1>1, <2>1, <2>2 DEF TypeInv, SlotsMade, Mine
  <2>4. IsFiniteSet(Unused(seq))
    BY <2>3, UnusedAre
  <2> QED BY <1>3, <2>3, <2>4, FS_CardinalityType
<1>6. PICK k : k = Min({n, c})
  OBVIOUS
<1>7. k \in Nat /\ k <= c
  <2>1. PICK S : S = {n, c}
    OBVIOUS
  <2>2. S \subseteq Nat /\ S # {} /\ c \in S
    BY <1>4, <1>5, <2>1
  <2>3. Min(S) \in S /\ \A x \in S : Min(S) <= x
    BY <2>2, MinOfSet
  <2> QED BY <1>6, <2>1, <2>2, <2>3
<1>8. at.phase = "giants" /\ at'.star = at.star /\ at'.phase = "placing giants" /\ at'.count = k
  BY <1>2, <1>3, <1>6 DEF CountGiants, Where
<1>9. /\ slots' = slots /\ placed' = placed /\ asked' = asked /\ wanted' = wanted /\ giantsWanted' = giantsWanted
      /\ zones' = zones /\ orbit' = orbit
  BY DEF CountGiants, Still, Else
<1>10. SlotsMade(slots') /\ MainInv' /\ RowsInv' /\ MoonsInv'
  <2>1. Early(at) <=> Early(at')
    BY <1>8 DEF Early
  <2>2. Unplaced(at') => Unplaced(at)
    BY <1>8 DEF Unplaced
  <2>3. \A p \in placed : Touched(at', p[2]) <=> Touched(at, p[2])
    BY <1>8 DEF Touched
  <2>4. Seen(at') = Seen(at)
    BY <1>8 DEF Seen
  <2> QED BY <1>9, <2>1, <2>2, <2>3, <2>4, StandStill
<1>11. TypeInv'
  <2>1. Cardinality(Unused(slots'[at'.star])) = c
    BY <1>3, <1>8, <1>9 DEF Mine
  <2> QED BY <1>1, <1>7, <1>8, <1>9, <1>10, <2>1, TypesStay DEF TypeInv
<1> QED BY <1>10, <1>11 DEF OrbitsInv

LEMMA CountBeltsKeeps == ASSUME OrbitsInv, CountBelts PROVE OrbitsInv'
<1>1. TypeInv
  BY DEF OrbitsInv
<1>2. at.phase = "placing giants" /\ at'.star = at.star /\ at'.phase = "planetoids" /\ at'.count \in Nat
  <2>1. PICK n \in Belts : Where(at.star, "planetoids", n)
    BY DEF CountBelts
  <2>2. Belts \subseteq Nat
    BY OrbitsAssumption
  <2>3. n \in Nat /\ at'.count = n /\ at'.star = at.star /\ at'.phase = "planetoids"
    BY <2>1, <2>2 DEF Where
  <2> QED BY <2>3 DEF CountBelts
<1>3. /\ slots' = slots /\ placed' = placed /\ asked' = asked /\ wanted' = wanted /\ giantsWanted' = giantsWanted
      /\ zones' = zones /\ orbit' = orbit
  BY DEF CountBelts, Still, Else
<1>4. SlotsMade(slots') /\ MainInv' /\ RowsInv' /\ MoonsInv'
  <2>1. Early(at) <=> Early(at')
    BY <1>2 DEF Early
  <2>2. Unplaced(at') => Unplaced(at)
    BY <1>2 DEF Unplaced
  <2>3. \A p \in placed : Touched(at', p[2]) <=> Touched(at, p[2])
    BY <1>2 DEF Touched
  <2>4. Seen(at') = Seen(at)
    BY <1>2 DEF Seen
  <2> QED BY <1>3, <2>1, <2>2, <2>3, <2>4, StandStill
<1>5. TypeInv'
  BY <1>1, <1>2, <1>3, <1>4, TypesStay DEF TypeInv
<1> QED BY <1>4, <1>5 DEF OrbitsInv

LEMMA BeltPanicsKeeps == ASSUME OrbitsInv, BeltPanics PROVE OrbitsInv'
<1>1. TypeInv
  BY DEF OrbitsInv
<1>2. at.phase = "planetoids" /\ at'.star = at.star /\ at'.phase = "panicked" /\ at'.count = 0
  BY DEF BeltPanics, Where
<1>3. /\ slots' = slots /\ placed' = placed /\ asked' = asked /\ wanted' = wanted /\ giantsWanted' = giantsWanted
      /\ zones' = zones /\ orbit' = orbit
  BY DEF BeltPanics, Still, Else
<1>4. SlotsMade(slots') /\ MainInv' /\ RowsInv' /\ MoonsInv'
  <2>1. Early(at) <=> Early(at')
    BY <1>2 DEF Early
  <2>2. Unplaced(at') => Unplaced(at)
    BY <1>2 DEF Unplaced
  <2>3. \A p \in placed : Touched(at', p[2]) <=> Touched(at, p[2])
    BY <1>2 DEF Touched
  <2>4. Seen(at') = Seen(at)
    BY <1>2 DEF Seen
  <2> QED BY <1>3, <2>1, <2>2, <2>3, <2>4, StandStill
<1>5. TypeInv'
  BY <1>1, <1>2, <1>3, <1>4, TypesStay DEF TypeInv
<1> QED BY <1>4, <1>5 DEF OrbitsInv

LEMMA EnoughBeltsKeeps == ASSUME OrbitsInv, EnoughBelts PROVE OrbitsInv'
<1>1. TypeInv
  BY DEF OrbitsInv
<1>2. /\ at.phase = "planetoids" /\ at'.star = at.star /\ at'.count = 0
      /\ at'.phase = IF at.star = "primary" THEN "main world" ELSE "filling"
  BY DEF EnoughBelts, Where
<1>3. /\ slots' = slots /\ placed' = placed /\ asked' = asked /\ wanted' = wanted /\ giantsWanted' = giantsWanted
      /\ zones' = zones /\ orbit' = orbit
  BY DEF EnoughBelts, Still, Else
<1>4. SlotsMade(slots') /\ MainInv' /\ RowsInv' /\ MoonsInv'
  <2>1. Early(at) <=> Early(at')
    BY <1>2 DEF Early
  <2>2. Unplaced(at') => Unplaced(at)
    BY <1>2 DEF Unplaced
  <2>3. \A p \in placed : Touched(at', p[2]) <=> Touched(at, p[2])
    BY <1>2 DEF Touched
  <2>4. Seen(at') = Seen(at)
    BY <1>2 DEF Seen
  <2> QED BY <1>3, <2>1, <2>2, <2>3, <2>4, StandStill
<1>5. TypeInv'
  <2>1. at'.star \in StarNames /\ at'.phase # "placing giants"
    BY <1>1, <1>2 DEF TypeInv
  <2>3. at'.count \in Nat
    <3>1. at'.count = 0
      BY <1>2, Zenon
    <3> QED BY <3>1
  <2>2. at'.star = "primary" \/ at'.phase = "filling"
    BY <1>2
  <2> QED BY <1>1, <1>3, <1>4, <2>1, <2>2, <2>3, TypesStay DEF TypeInv
<1> QED BY <1>4, <1>5 DEF OrbitsInv

LEMMA PlaceGiantKeeps == ASSUME OrbitsInv, PlaceGiant PROVE OrbitsInv'
<1>1. TypeInv /\ at.phase = "placing giants" /\ at.count \in Nat /\ at.count > 0
      /\ at.count <= Cardinality(Unused(Mine))
  BY DEF OrbitsInv, TypeInv, PlaceGiant
<1> DEFINE free  == Unused(Mine)
           outer == {o \in free : o > zones[at.star].habitable}
           done  == Cardinality({o \in DOMAIN Mine : Mine[o].what = "Giant"}) + 1
           row   == IF at.star = "primary" /\ done <= Len(asked.giants) THEN asked.giants[done]
                    ELSE [orbit |-> Open, moons |-> Open]
           body  == Body("Giant", Rolled, TRUE)
<1>2. PICK o : /\ o \in (IF row.orbit \in free THEN {row.orbit} ELSE IF outer # {} THEN outer ELSE free)
               /\ Only(Put(Mine, {o}, body))
               /\ giantsWanted' = IF at.star = "primary" THEN Override(giantsWanted, o, row.moons)
                                  ELSE giantsWanted
  BY DEF PlaceGiant
<1>3. o \in Unused(Mine)
  <2> HIDE DEF row, done, body
  <2> QED BY <1>2
<1>4. PICK s \in StarNames : s = at.star
  BY <1>1 DEF TypeInv
<1>5. PICK seq : seq = slots[s]
  OBVIOUS
<1>6. seq \in Seq(BodyType) /\ Mine = seq /\ slots \in [StarNames -> Seq(BodyType)]
  BY <1>1, <1>4, <1>5 DEF TypeInv, SlotsMade, Mine
<1>7. o \in Nat /\ o < Len(seq)
  <2>1. Len(seq) \in Nat
    BY <1>6
  <2>2. o \in Nat /\ o \in 0 .. Len(seq) - 1
    BY <1>1, <1>3, <1>5, <1>6, FreeOrbit
  <2> QED BY <2>1, <2>2
<1>8. row.moons \in Number
  <2>1. IsFiniteSet({u \in DOMAIN seq : seq[u].what = "Giant"})
    <3>1. PICK n \in Nat : n = Len(seq)
      BY <1>6
    <3>2. DOMAIN seq = 1 .. n /\ IsFiniteSet(1 .. n)
      BY <1>6, <3>1, FS_Interval
    <3>3. PICK t, d : t = {u \in DOMAIN seq : seq[u].what = "Giant"} /\ d = DOMAIN seq
      OBVIOUS
    <3>4. t \in SUBSET d /\ IsFiniteSet(d)
      BY <3>2, <3>3
    <3>5. IsFiniteSet(t)
      BY <3>4, FS_Subset
    <3> QED BY <3>3, <3>5
  <2>2. done \in Nat /\ done >= 1
    BY <1>6, <2>1, FS_CardinalityType
  <2> HIDE DEF done
  <2> DEFINE T == [orbit : Number, moons : Number]
  <2>3. asked.giants \in Seq(T)
    BY <1>1, OrbitsAssumption DEF TypeInv
  <2>4. CASE at.star = "primary" /\ done <= Len(asked.giants)
    <3> HIDE DEF T
    <3>1. row = asked.giants[done]
      BY <2>4
    <3>2. row \in T
      <4>1. PICK list : list = asked.giants
        OBVIOUS
      <4>2. done \in 1 .. Len(list) /\ list \in Seq(T)
        BY <2>2, <2>3, <2>4, <4>1
      <4>3. list[done] \in T
        BY <4>2
      <4> QED BY <3>1, <4>1, <4>3
    <3> HIDE DEF row
    <3> QED BY <3>2 DEF T
  <2>5. CASE ~(at.star = "primary" /\ done <= Len(asked.giants))
    BY <2>5 DEF Number
  <2> QED BY <2>4, <2>5
<1> HIDE DEF row, done, outer
<1>9. WellMade(body) /\ Unmarked(body) /\ body \in BodyType /\ body.what = "Giant"
  <2>1. PICK b \in BOOLEAN : b = TRUE
    OBVIOUS
  <2>2. PICK r, w : r = Rolled /\ w = "Giant"
    OBVIOUS
  <2>3. (w = "Giant" => r = Rolled) /\ (r = Main => w = "World") /\ r # Main
    BY <2>2, FreeMade
  <2>4. w \in Whats /\ r \in RowType /\ b \in BOOLEAN
    BY <2>1, <2>2, FreeIsBody DEF Whats
  <2>5. /\ WellMade(Body(w, r, b)) /\ (r # Main => Unmarked(Body(w, r, b)))
        /\ Body(w, r, b).moons = <<>> /\ Body(w, r, b).row = r /\ Body(w, r, b).what = w
    BY <2>3, <2>4, FreshBody, ZenonT(30)
  <2>6. body = Body(w, r, b)
    BY <2>1, <2>2
  <2> HIDE DEF body
  <2> QED BY <2>2, <2>3, <2>5, <2>6 DEF WellMade
<1> HIDE DEF body
<1>10. at'.star = at.star /\ at'.phase = "placing giants" /\ at'.count = at.count - 1
  BY <1>1 DEF PlaceGiant, Where
<1>11. /\ placed' = placed /\ asked' = asked /\ wanted' = wanted /\ zones' = zones /\ orbit' = orbit
  BY DEF PlaceGiant, Still, Else
<1>12. Early(at) <=> Early(at')
  BY <1>1, <1>10 DEF Early
<1>13. PICK os : os = {o}
  OBVIOUS
<1>14. /\ SlotsMade(slots') /\ MainInv'
       /\ \A p \in placed : At(slots'["primary"], p[2]) = At(slots["primary"], p[2])
  <2>1. os \subseteq Unused(Mine) /\ Only(Put(Mine, os, body))
    BY <1>2, <1>3, <1>13
  <2> QED BY <1>9, <1>12, <2>1, PutOnFree
<1>15. RowsInv'
  <2>1. Unplaced(at') => Unplaced(at)
    BY <1>10 DEF Unplaced
  <2> QED BY <1>11, <1>14, <2>1, RowsStay
<1>16. MoonsInv'
  <2>1. \A p \in placed : Touched(at', p[2]) <=> Touched(at, p[2])
    BY <1>1, <1>10 DEF Touched
  <2>2. Seen(at') = Seen(at)
    BY <1>1, <1>10 DEF Seen
  <2> QED BY <1>11, <1>14, <2>1, <2>2, MoonsStay
<1>17. Cardinality(Unused(slots'[at'.star])) = Cardinality(Unused(Mine)) - 1
  <2>1. os \subseteq Nat /\ IsFiniteSet(os)
    BY <1>7, <1>13, FS_Singleton
  <2>2. PICK new : new = Put(seq, os, body)
    OBVIOUS
  <2>3. PutIn(seq, new, os, body)
    BY <1>6, <1>9, <2>1, <2>2, PutAt, Zenon
  <2>4. slots'[at'.star] = new
    BY <1>2, <1>4, <1>5, <1>6, <1>10, <1>13, <2>2 DEF Only
  <2>5. Len(new) = Len(seq) /\ new \in Seq(BodyType) /\ Len(seq) \in Nat
    BY <1>6, <1>7, <1>13, <2>3 DEF PutIn
  <2>6. body # Free
    BY <1>9, FreeMade
  <2>7. PICK l \in Nat : l = Len(seq)
    BY <2>5
  <2>8. \A u \in 0 .. (l - 1) : At(new, u) = IF u = o THEN body ELSE At(seq, u)
    BY <1>13, <2>3, <2>7 DEF PutIn
  <2>9. Unused(new) = Unused(seq) \ {o}
    BY <2>5, <2>6, <2>7, <2>8 DEF Unused
  <2>10. PICK old : old = Unused(seq)
    OBVIOUS
  <2>11. IsFiniteSet(old) /\ o \in old
    BY <1>3, <1>6, <2>10, UnusedAre
  <2>12. Cardinality(old \ {o}) = Cardinality(old) - 1
    BY <2>11, FS_RemoveElement
  <2> QED BY <1>6, <2>4, <2>9, <2>10, <2>12
<1>18. TypeInv'
  <2>1. \A u \in DOMAIN giantsWanted' : giantsWanted'[u] \in Nat
    <3>1. \A u \in DOMAIN giantsWanted : giantsWanted[u] \in Nat
      BY <1>1 DEF TypeInv
    <3>2. PICK n \in Number : n = row.moons
      BY <1>8
    <3>3. \A u \in DOMAIN Override(giantsWanted, o, n) : Override(giantsWanted, o, n)[u] \in Nat
      BY <1>7, <3>1, <3>2, OverrideKeeps
    <3> QED BY <1>2, <3>1, <3>2, <3>3
  <2>2. at'.star \in StarNames
    BY <1>1, <1>10 DEF TypeInv
  <2>3. PICK c : c = Cardinality(Unused(Mine))
    OBVIOUS
  <2>4. c \in Nat
    BY <1>6, <2>3, UnusedAre, FS_CardinalityType
  <2>5. at'.count \in Nat /\ at'.count <= Cardinality(Unused(slots'[at'.star]))
    <3>1. PICK k : k = at.count
      OBVIOUS
    <3>2. k \in Nat /\ k > 0 /\ k <= c /\ at'.count = k - 1
      BY <1>1, <1>10, <2>3, <3>1
    <3>3. Cardinality(Unused(slots'[at'.star])) = c - 1
      BY <1>17, <2>3
    <3>4. k - 1 \in Nat /\ k - 1 <= c - 1
      BY <2>4, <3>2
    <3> QED BY <3>2, <3>3, <3>4
  <2>6. at'.phase = "placing giants"
    BY <1>10
  <2>7. \A u \in DOMAIN wanted' : wanted'[u] \in Nat
    BY <1>1, <1>11 DEF TypeInv
  <2> QED BY <1>1, <1>11, <1>14, <2>1, <2>2, <2>5, <2>6, <2>7, TypesStay
<1> QED BY <1>14, <1>15, <1>16, <1>18 DEF OrbitsInv

LEMMA PlaceBeltKeeps == ASSUME OrbitsInv, PlaceBelt PROVE OrbitsInv'
<1>1. TypeInv /\ MainInv /\ at.phase = "planetoids" /\ at.count \in Nat /\ at.count > 0
  BY DEF OrbitsInv, TypeInv, PlaceBelt
<1>2. PICK body : body = Body("World", Rolled, FALSE)
  OBVIOUS
<1>3. PICK o \in Sites : Only(Put(Mine, {o}, body))
  BY <1>2 DEF PlaceBelt
<1>4. PICK s \in StarNames : s = at.star
  BY <1>1 DEF TypeInv
<1>5. PICK seq : seq = slots[s]
  OBVIOUS
<1>6. seq \in Seq(BodyType) /\ Mine = seq /\ slots \in [StarNames -> Seq(BodyType)] /\ SlotsMade(slots)
  BY <1>1, <1>4, <1>5 DEF TypeInv, SlotsMade, Mine
<1>7. o \in Nat /\ (At(seq, o).what = "Giant" \/ o \in Unused(seq))
  <2>1. Len(seq) \in Nat
    BY <1>6
  <2> QED BY <1>3, <1>6, <2>1 DEF Sites, Unused
<1>8. Unmarked(At(seq, o)) /\ At(seq, o).row = Rolled
  <2>1. CASE o \in Unused(seq)
    BY <1>1, <1>5, <2>1, FreeOrbit
  <2>2. CASE At(seq, o).what = "Giant"
    <3>1. WellMade(At(seq, o))
      BY <1>5, <1>6, <1>7 DEF SlotsMade
    <3>2. CASE s = "primary"
      <4>1. NothingYet(slots)
        BY <1>1, <1>4, <3>2 DEF MainInv, Early
      <4> QED BY <1>5, <1>7, <2>2, <3>1, <3>2, <4>1 DEF NothingYet, WellMade
    <3>3. CASE s # "primary"
      <4>1. PICK t \in StarNames, u \in Nat, i \in Nat : MainIs(slots, t, u, i)
        BY <1>1, <1>4, <3>3 DEF MainInv, Early
      <4>2. \A k \in Nat : ~IsMain(At(seq, o), k)
        BY <1>5, <1>7, <2>2, <3>3, <4>1 DEF MainIs
      <4> QED BY <2>2, <3>1, <4>2 DEF Unmarked, WellMade
    <3> QED BY <3>2, <3>3
  <2> QED BY <1>7, <2>1, <2>2
<1>9. WellMade(body) /\ Unmarked(body) /\ body \in BodyType
  <2>1. PICK b \in BOOLEAN : b = FALSE
    OBVIOUS
  <2>2. PICK r, w : r = Rolled /\ w = "World"
    OBVIOUS
  <2>3. (w = "Giant" => r = Rolled) /\ (r = Main => w = "World") /\ r # Main
    BY <2>2, FreeMade
  <2>4. w \in Whats /\ r \in RowType /\ b \in BOOLEAN
    BY <2>1, <2>2, FreeIsBody DEF Whats
  <2>5. /\ WellMade(Body(w, r, b)) /\ (r # Main => Unmarked(Body(w, r, b)))
        /\ Body(w, r, b).moons = <<>> /\ Body(w, r, b).row = r /\ Body(w, r, b).what = w
    BY <2>3, <2>4, FreshBody, ZenonT(30)
  <2>6. body = Body(w, r, b)
    BY <1>2, <2>1, <2>2
  <2> QED BY <2>3, <2>5, <2>6 DEF WellMade
<1>10. PICK os : os = {o}
  OBVIOUS
<1>11. os \subseteq Nat /\ IsFiniteSet(os)
  BY <1>7, <1>10, FS_Singleton
<1>12. slots' = [slots EXCEPT ![s] = Put(slots[s], os, body)]
  BY <1>3, <1>4, <1>5, <1>6, <1>10 DEF Only
<1>13. Receives(slots, slots', s, os, body)
  BY <1>6, <1>9, <1>11, <1>12, PutBecomes
<1>14. at'.star = at.star /\ at'.phase = "planetoids" /\ at'.count = at.count - 1
  BY <1>1 DEF PlaceBelt, Where
<1>15. /\ placed' = placed /\ asked' = asked /\ wanted' = wanted /\ giantsWanted' = giantsWanted
       /\ zones' = zones /\ orbit' = orbit
  BY DEF PlaceBelt, Still, Else
<1>16. (Early(at) <=> Early(at')) /\ (Early(at) => s = "primary")
  BY <1>1, <1>4, <1>14 DEF Early
<1>17. /\ SlotsMade(slots') /\ MainInv'
       /\ \A p \in placed : At(slots'["primary"], p[2]) = At(slots["primary"], p[2])
  <2>1. \A u \in Nat : u \in os => Unmarked(At(slots[s], u)) /\ At(slots[s], u).row = Rolled
    BY <1>5, <1>8, <1>10
  <2> QED BY <1>9, <1>13, <1>16, <2>1, PlainKeeps
<1>18. RowsInv'
  <2>1. Unplaced(at') => Unplaced(at)
    BY <1>14 DEF Unplaced
  <2> QED BY <1>15, <1>17, <2>1, RowsStay
<1>19. MoonsInv'
  <2>1. \A p \in placed : Touched(at', p[2]) <=> Touched(at, p[2])
    BY <1>1, <1>14 DEF Touched
  <2>2. Seen(at') = Seen(at)
    BY <1>1, <1>14 DEF Seen
  <2> QED BY <1>15, <1>17, <2>1, <2>2, MoonsStay
<1>20. TypeInv'
  <2>1. at'.star \in StarNames /\ at'.phase = "planetoids"
    BY <1>1, <1>14 DEF TypeInv
  <2>2. at'.count \in Nat
    <3>1. PICK k : k = at.count
      OBVIOUS
    <3>2. k \in Nat /\ k > 0 /\ at'.count = k - 1
      BY <1>1, <1>14, <3>1
    <3> QED BY <3>2
  <2> QED BY <1>1, <1>15, <1>17, <2>1, <2>2, TypesStay DEF TypeInv
<1> QED BY <1>17, <1>18, <1>19, <1>20 DEF OrbitsInv

LEMMA Zero == 0 \in Nat
OBVIOUS

\* A giant with the main world for a satellite (AsMoon).
WithMain(body, r) == [body EXCEPT !.moons = AddMoon(@, r, TRUE)]

LEMMA MainMoonAdded ==
  ASSUME NEW body \in BodyType, NEW r \in MoonRolls
  PROVE  \E more : WithMain(body, r) = [body EXCEPT !.moons = more]
                  /\ OneMore(body.moons, more, r.ring, TRUE)
<1>1. PICK b \in BOOLEAN : b = TRUE
  OBVIOUS
<1>2. PICK ms : ms = body.moons
  OBVIOUS
<1>3. ms \in Seq(MoonType)
  BY <1>2 DEF BodyType
<1>4. OneMore(ms, AddMoon(ms, r, b), r.ring, b)
  BY <1>1, <1>3, MoonAdded, Zenon
<1>5. PICK more : more = AddMoon(ms, r, b)
  OBVIOUS
<1>6. OneMore(ms, more, r.ring, b)
  BY <1>4, <1>5, Zenon
<1>7. OneMore(ms, more, r.ring, TRUE)
  BY <1>1, <1>6 DEF OneMore
<1>8. AddMoon(ms, r, TRUE) = more
  BY <1>1, <1>5, Zenon
<1>9. WithMain(body, r) = [body EXCEPT !.moons = more]
  BY <1>2, <1>8, Zenon DEF WithMain
<1> QED BY <1>2, <1>7, <1>9, Zenon

LEMMA MainPutKeeps ==
  ASSUME OrbitsInv, NEW s \in StarNames, NEW o \in Nat, NEW i \in Nat, NEW body,
         Receives(slots, slots', s, {o}, body), WellMade(body), MainIs(slots', s, o, i),
         body.row = Main \/ (body.row = At(slots[s], o).row /\ body.row = Rolled),
         at.phase = "main world", at'.star = "primary", at'.phase = "filling", at'.count = 0, Still,
         UNCHANGED <<wanted, giantsWanted, placed>>
  PROVE  OrbitsInv'
<1>1. TypeInv /\ RowsInv /\ at.star = "primary"
  BY DEF OrbitsInv, TypeInv
<1>2. SlotsMade(slots')
  BY <1>1, MadeStays DEF TypeInv
<1>3. MainInv'
  BY DEF MainInv, Early
<1>4. asked' = asked /\ zones' = zones /\ orbit' = orbit
  BY DEF Still, Else
<1>5. PICK prim \in StarNames : prim = "primary"
  BY DEF StarNames
<1>6. ASSUME NEW p \in placed
      PROVE  At(slots'["primary"], p[2]) = At(slots["primary"], p[2])
             \/ At(slots'["primary"], p[2]).row = Main
  <2>1. p[2] \in Nat /\ p[1] \notin {Rolled, Main} /\ At(slots["primary"], p[2]).row \in {p[1], Main}
    BY <1>1 DEF RowsInv
  <2>2. CASE s = prim /\ p[2] = o
    <3>1. At(slots'["primary"], p[2]) = body
      BY <1>5, <2>1, <2>2 DEF Receives
    <3>2. At(slots["primary"], p[2]).row # Rolled
      BY <2>1, FreeMade
    <3> QED BY <1>5, <2>2, <3>1, <3>2
  <2>3. CASE ~(s = prim /\ p[2] = o)
    BY <1>5, <2>1, <2>3 DEF Receives
  <2> QED BY <2>2, <2>3
<1>7. RowsInv'
  <2>1. ~Unplaced(at')
    BY DEF Unplaced
  <2> QED BY <1>1, <1>6, <2>1 DEF RowsInv
<1>8. MoonsInv'
  <2>1. Seen(at') = Seen(at)
    BY <1>1 DEF Seen
  <2>2. ASSUME NEW p \in placed, p[1][1] = "planet", At(slots'["primary"], p[2]).row = p[1]
        PROVE  MoonsOfRow(p)'
    <3>1. p[1] # Main
      BY <1>1 DEF RowsInv
    <3>2. At(slots'["primary"], p[2]) = At(slots["primary"], p[2])
      BY <1>6, <2>2, <3>1
    <3>3. Touched(at', p[2]) <=> Touched(at, p[2])
      BY <1>1 DEF Touched
    <3> QED BY <1>4, <2>1, <2>2, <3>2, <3>3, RowMoonsStay
  <2> QED BY <2>2 DEF MoonsInv
<1>9. TypeInv'
  <2>1. at'.star \in StarNames
    BY DEF StarNames
  <2>2. at'.count \in Nat
    BY Zero, Zenon
  <2>3. at'.phase # "placing giants"
    OBVIOUS
  <2> QED BY <1>1, <1>2, <1>4, <2>1, <2>2, <2>3, TypesStay DEF TypeInv
<1> QED BY <1>3, <1>7, <1>8, <1>9 DEF OrbitsInv

LEMMA PutMain ==
  ASSUME NEW sl, SlotsMade(sl), NothingYet(sl), NEW s \in StarNames, NEW o \in Nat, NEW body, NEW new,
         WellMade(body), body.row = Main, body.moons = <<>>, Receives(sl, new, s, {o}, body)
  PROVE  MainIs(new, s, o, 0)
<1>1. \A k \in Nat : IsMain(body, k) <=> k = 0
  <2>1. DOMAIN <<>> = {}
    OBVIOUS
  <2> QED BY <2>1 DEF IsMain
<1>2. At(new[s], o) = body
  BY DEF Receives
<1>3. body.what = "World"
  BY DEF WellMade
<1>4. \A t \in StarNames : \A u \in Nat : Unmarked(At(sl[t], u))
  BY FreeMade DEF NothingYet, StarNames
<1>5. \A t \in StarNames : \A u, k \in Nat : IsMain(At(new[t], u), k) => t = s /\ u = o /\ k = 0
  BY <1>1, <1>4 DEF Receives, Unmarked
<1> QED BY <1>1, <1>2, <1>3, <1>5 DEF MainIs, Bodies

\* A giant at the orbit takes the main world as a satellite.
LEMMA PutMoon ==
  ASSUME NEW sl, SlotsMade(sl), NothingYet(sl), NEW s \in StarNames, NEW o \in Nat, NEW new,
         At(sl[s], o).what = "Giant", NEW r \in MoonRolls, ~r.ring,
         NEW body, body = WithMain(At(sl[s], o), r),
         Receives(sl, new, s, {o}, body)
  PROVE  /\ WellMade(body) /\ body.row = At(sl[s], o).row /\ body.row = Rolled
         /\ \E i \in Nat : MainIs(new, s, o, i)
<1>1. PICK old : old = At(sl[s], o)
  OBVIOUS
<1>2. WellMade(old) /\ old.what = "Giant" /\ old \in BodyType /\ old.row = Rolled
  BY <1>1 DEF SlotsMade, WellMade
<1>3. s = "primary" /\ Unmarked(old)
  BY <1>1, <1>2, FreeMade DEF NothingYet
<1>4. PICK ms : ms = old.moons
  OBVIOUS
<1>5. ms \in Seq(MoonType) /\ Apart(ms)
  BY <1>2, <1>4 DEF WellMade, BodyType
<1>6. PICK more : WithMain(old, r) = [old EXCEPT !.moons = more] /\ OneMore(ms, more, r.ring, TRUE)
  BY <1>2, <1>4, MainMoonAdded, Zenon
<1>7. PICK m \in MoonType : /\ more = Append(ms, m) /\ m.main = TRUE /\ m.ring = r.ring
                            /\ \A i \in DOMAIN ms : ms[i].orbit # m.orbit
  BY <1>6 DEF OneMore
<1>8. more \in Seq(MoonType) /\ Apart(more)
  BY <1>5, <1>7, AppendApart
<1>9. PICK n \in Nat : n = Len(ms)
  BY <1>5
<1>10. /\ DOMAIN more = 1 .. n + 1 /\ more[n + 1] = m /\ \A k \in 1 .. n : more[k] = ms[k]
       /\ DOMAIN ms = 1 .. n
  BY <1>5, <1>7, <1>9
<1>11. /\ body.moons = more /\ body.row = old.row /\ body.what = "Giant" /\ body \in BodyType
  <2>1. body = [old EXCEPT !.moons = more]
    BY <1>1, <1>6, Zenon
  <2> QED BY <1>2, <1>8, <2>1 DEF BodyType
<1>20. PICK bm : bm = body.moons
  OBVIOUS
<1>21. DOMAIN bm = 1 .. n + 1 /\ bm[n + 1] = m /\ \A k \in 1 .. n : bm[k] = ms[k]
  BY <1>10, <1>11, <1>20
<1>12. WellMade(body)
  BY <1>2, <1>8, <1>11, FreeMade DEF WellMade
<1>13. \A k \in Nat : IsMain(body, k) <=> k = n + 1
  <2>1. \A k \in 1 .. n : ~ms[k].main
    BY <1>3, <1>4, <1>10 DEF Unmarked, IsMain
  <2>2. body.row # Main
    BY <1>2, <1>11, FreeMade
  <2>3. m.main
    BY <1>7
  <2>4. ASSUME NEW k \in Nat PROVE IsMain(body, k) <=> k = n + 1
    <3>1. CASE k = 0
      BY <1>9, <2>2, <3>1 DEF IsMain
    <3>2. CASE k \in 1 .. n
      <4>1. ~bm[k].main
        BY <1>21, <2>1, <3>2
      <4>2. k # 0 /\ k # n + 1
        BY <1>9, <3>2
      <4> QED BY <1>20, <4>1, <4>2 DEF IsMain
    <3>3. CASE k = n + 1
      <4>1. k # 0 /\ k \in DOMAIN bm /\ bm[k] = m
        BY <1>9, <1>21, <3>3
      <4> QED BY <1>20, <2>3, <3>3, <4>1 DEF IsMain
    <3>4. CASE k > n + 1
      <4>1. k # 0 /\ k # n + 1 /\ k \notin DOMAIN bm
        BY <1>9, <1>21, <3>4
      <4> QED BY <1>20, <4>1 DEF IsMain
    <3> QED BY <1>9, <3>1, <3>2, <3>3, <3>4
  <2> QED BY <2>4
<1>14. PICK i \in Nat : i = n + 1
  BY <1>9
<1>15. At(new[s], o) = body
  BY DEF Receives
<1>16. \A t \in StarNames : \A u \in Nat : Unmarked(At(sl[t], u))
  BY FreeMade DEF NothingYet, StarNames
<1>17. \A t \in StarNames : \A u, k \in Nat : IsMain(At(new[t], u), k) => t = s /\ u = o /\ k = i
  BY <1>13, <1>14, <1>16 DEF Receives, Unmarked
<1>18. IsMain(body, i) /\ ~body.moons[i].ring
  BY <1>7, <1>9, <1>10, <1>11, <1>13, <1>14
<1>19. MainIs(new, s, o, i)
  BY <1>3, <1>11, <1>15, <1>17, <1>18 DEF MainIs, Bodies
<1> QED BY <1>1, <1>2, <1>11, <1>12, <1>19

LEMMA PlaceMainKeeps == ASSUME OrbitsInv, PlaceMain PROVE OrbitsInv'
<1>1. TypeInv /\ MainInv /\ at.phase = "main world" /\ at.star = "primary"
  BY DEF OrbitsInv, TypeInv, PlaceMain
<1>2. NothingYet(slots) /\ SlotsMade(slots) /\ slots \in [StarNames -> Seq(BodyType)]
  BY <1>1 DEF MainInv, Early, TypeInv, SlotsMade
<1>3. /\ at'.star = "primary" /\ at'.phase = "filling" /\ at'.count = 0
      /\ Still /\ UNCHANGED <<wanted, giantsWanted, placed>>
  BY DEF PlaceMain, Where
<1>4. PICK there : there = At(Mine, Habitable("primary")).what
  OBVIOUS
<1>5. PICK s : s = IF RequiresHabitable /\ there \in Range(Stars) THEN there ELSE "primary"
  OBVIOUS
<1>6. s \in StarNames
  BY <1>5, StarsAre DEF StarNames
<1>7. PICK seq : seq = slots[s]
  OBVIOUS
<1>8. PICK new : /\ new \in (IF RequiresHabitable THEN MainHabitable(seq, Habitable(s)) ELSE MainAnywhere(s, seq))
                 /\ slots' = [slots EXCEPT ![s] = new]
  BY <1>4, <1>5, <1>7 DEF PlaceMain
<1>9. seq \in Seq(BodyType) /\ Len(seq) \in Nat
  BY <1>2, <1>6, <1>7
<1>10. PICK h : h = Habitable(s)
  OBVIOUS
<1>11. h \in Nat
  <2>1. PICK z : z = zones[s]
    OBVIOUS
  <2>2. z \in ZoneTables
    BY <1>1, <1>6, <2>1 DEF TypeInv
  <2> QED BY <1>10, <2>1, <2>2, HabitableIs DEF Habitable
<1>12. PICK body : body = MainBody
  OBVIOUS
<1>13. WellMade(body) /\ body.row = Main /\ body.moons = <<>> /\ body \in BodyType
  <2>1. PICK b \in BOOLEAN : b = asked.main.solid
    BY <1>1, OrbitsAssumption DEF TypeInv
  <2>2. PICK r, w : r = Main /\ w = "World"
    OBVIOUS
  <2>3. (w = "Giant" => r = Rolled) /\ (r = Main => w = "World")
    BY <2>2
  <2>4. w \in Whats /\ r \in RowType /\ b \in BOOLEAN
    BY <2>1, <2>2, FreeIsBody DEF Whats
  <2>5. /\ WellMade(Body(w, r, b)) /\ (r # Main => Unmarked(Body(w, r, b)))
        /\ Body(w, r, b).moons = <<>> /\ Body(w, r, b).row = r /\ Body(w, r, b).what = w
    BY <2>3, <2>4, FreshBody, ZenonT(30)
  <2>6. body = Body(w, r, b)
    BY <1>12, <2>1, <2>2 DEF MainBody
  <2> QED BY <2>2, <2>5, <2>6 DEF WellMade
<1>14. ASSUME NEW o \in Nat, new = Put(seq, {o}, body) PROVE OrbitsInv'
  <2>1. PICK os : os = {o}
    OBVIOUS
  <2>2. os \subseteq Nat /\ IsFiniteSet(os)
    BY <2>1, FS_Singleton
  <2>3. slots' = [slots EXCEPT ![s] = Put(slots[s], os, body)]
    BY <1>7, <1>8, <1>14, <2>1
  <2>4. Receives(slots, slots', s, os, body)
    BY <1>2, <1>6, <1>13, <2>2, <2>3, PutBecomes
  <2>5. Receives(slots, slots', s, {o}, body)
    BY <2>1, <2>4
  <2>6. MainIs(slots', s, o, 0)
    BY <1>2, <1>6, <1>13, <2>5, PutMain
  <2>7. PICK i \in Nat : i = 0
    OBVIOUS
  <2> QED BY <1>1, <1>3, <1>6, <1>13, <2>5, <2>6, <2>7, MainPutKeeps
<1>15. ASSUME NEW r \in MoonRolls, ~r.ring, At(seq, h).what = "Giant", NEW moved,
              moved = WithMain(At(seq, h), r), new = Put(seq, {h}, moved)
       PROVE  OrbitsInv'
  <2>1. PICK os : os = {h}
    OBVIOUS
  <2>2. os \subseteq Nat /\ IsFiniteSet(os)
    BY <1>11, <2>1, FS_Singleton
  <2>3. moved \in BodyType
    <3>1. PICK ms : ms = At(seq, h).moons
      OBVIOUS
    <3>2. At(seq, h) \in BodyType
      BY <1>9, <1>11, AtBody
    <3>3. ms \in Seq(MoonType)
      BY <3>1, <3>2 DEF BodyType
    <3>4. PICK old : old = At(seq, h)
      OBVIOUS
    <3>5. PICK more : WithMain(old, r) = [old EXCEPT !.moons = more] /\ OneMore(old.moons, more, r.ring, TRUE)
      BY <3>2, <3>4, MainMoonAdded, Zenon
    <3>6. more \in Seq(MoonType)
      BY <3>1, <3>3, <3>4, <3>5 DEF OneMore
    <3>7. moved = [old EXCEPT !.moons = more]
      BY <1>15, <3>4, <3>5, Zenon
    <3> QED BY <3>2, <3>4, <3>6, <3>7 DEF BodyType
  <2>4. slots' = [slots EXCEPT ![s] = Put(slots[s], os, moved)]
    BY <1>7, <1>8, <1>15, <2>1
  <2>5. Receives(slots, slots', s, os, moved)
    BY <1>2, <1>6, <2>2, <2>3, <2>4, PutBecomes
  <2>6. Receives(slots, slots', s, {h}, moved)
    BY <2>1, <2>5
  <2>7. /\ WellMade(moved) /\ moved.row = At(slots[s], h).row /\ moved.row = Rolled
        /\ \E i \in Nat : MainIs(slots', s, h, i)
    <3>1. moved = WithMain(At(slots[s], h), r) /\ At(slots[s], h).what = "Giant"
      BY <1>7, <1>15, Zenon
    <3> QED BY <1>2, <1>6, <1>11, <1>15, <2>6, <3>1, PutMoon, ZenonT(30)
  <2>8. PICK i \in Nat : MainIs(slots', s, h, i)
    BY <2>7
  <2> QED BY <1>1, <1>3, <1>6, <1>11, <2>6, <2>7, <2>8, MainPutKeeps
<1>16. Unused(seq) \subseteq Nat
  BY <1>9 DEF Unused
<1>17. CASE ~RequiresHabitable
  <2>1. PICK o \in (IF Unused(seq) # {} THEN Unused(seq) ELSE 0..Max({Len(seq) - 1, 0})) : new = Put(seq, {o}, body)
    BY <1>8, <1>12, <1>17 DEF MainAnywhere
  <2>2. o \in Nat
    <3>1. CASE Unused(seq) # {}
      BY <1>16, <2>1, <3>1
    <3>2. CASE Unused(seq) = {}
      BY <2>1, <3>2
    <3> QED BY <3>1, <3>2
  <2> QED BY <1>14, <2>1, <2>2
<1>18. CASE RequiresHabitable
  <2>1. new \in MainHabitable(seq, h)
    BY <1>8, <1>10, <1>18
  <2>2. CASE At(seq, h).what = "Giant"
    <3>1. PICK moved \in AsMoon(At(seq, h)) : new = Put(seq, {h}, moved)
      BY <2>1, <2>2 DEF MainHabitable
    <3>2. PICK r \in MoonRolls : /\ r.ring = ~asked.main.solid
                                 /\ moved = WithMain(At(seq, h), r)
      BY <3>1, Zenon DEF AsMoon, WithMain
    <3>3. ~r.ring
      BY <1>18, <3>2 DEF RequiresHabitable
    <3> QED BY <1>15, <2>2, <3>1, <3>2, <3>3
  <2>3. CASE At(seq, h).what # "Giant" /\ At(seq, h).what = "World" /\ Unused(seq) # {}
    <3>1. PICK o : o = Min(Unused(seq))
      OBVIOUS
    <3>2. new = Put(seq, {o}, body)
      BY <1>12, <2>1, <2>3, <3>1 DEF MainHabitable
    <3>3. o \in Nat
      BY <1>16, <2>3, <3>1, MinOfSet
    <3> QED BY <1>14, <3>2, <3>3
  <2>4. CASE At(seq, h).what # "Giant" /\ ~(At(seq, h).what = "World" /\ Unused(seq) # {})
    <3>1. new = Put(seq, {h}, body)
      BY <1>12, <2>1, <2>4 DEF MainHabitable
    <3> QED BY <1>11, <1>14, <3>1
  <2> QED BY <2>2, <2>3, <2>4
<1> QED BY <1>17, <1>18

OnlyFree(sl, new) ==
  /\ SlotsMade(new) /\ \A t, o, i : MainIs(sl, t, o, i) => MainIs(new, t, o, i)
  /\ \A t \in StarNames : \A u \in Nat : At(sl[t], u) # Free => At(new[t], u) = At(sl[t], u)

LEMMA PutOverFree ==
  ASSUME NEW sl, SlotsMade(sl), NEW s \in StarNames, NEW os, os \subseteq Nat, IsFiniteSet(os),
         \A u \in os : At(sl[s], u) = Free, NEW body, WellMade(body), Unmarked(body),
         NEW new, new = [sl EXCEPT ![s] = Put(sl[s], os, body)]
  PROVE  OnlyFree(sl, new)
<1>1. sl \in [StarNames -> Seq(BodyType)] /\ body \in BodyType
  BY DEF SlotsMade, WellMade
<1>2. Receives(sl, new, s, os, body)
  BY <1>1, PutBecomes
<1>3. SlotsMade(new)
  BY <1>2, MadeStays
<1>4. \A t, o, i : MainIs(sl, t, o, i) => MainIs(new, t, o, i)
  <2>1. \A u \in Nat : u \in os => Unmarked(At(sl[s], u))
    BY FreeMade
  <2> QED BY <1>2, <2>1, PlainPut
<1>5. \A t \in StarNames : \A u \in Nat : At(sl[t], u) # Free => At(new[t], u) = At(sl[t], u)
  BY <1>2 DEF Receives
<1> QED BY <1>3, <1>4, <1>5 DEF OnlyFree

LEMMA FillKeeps == ASSUME OrbitsInv, Fill PROVE OrbitsInv'
<1>1. TypeInv /\ MainInv /\ RowsInv /\ at.phase = "filling"
  BY DEF OrbitsInv, Fill
<1>2. PICK s \in StarNames : s = at.star
  BY <1>1 DEF TypeInv
<1>3. PICK seq : seq = slots[s]
  OBVIOUS
<1>4. SlotsMade(slots) /\ seq \in Seq(BodyType) /\ Mine = seq /\ slots \in [StarNames -> Seq(BodyType)]
  BY <1>1, <1>2, <1>3 DEF TypeInv, SlotsMade, Mine
<1>5. PICK hot : hot = {o \in 0..zones[at.star].hot : At(Mine, o) = Free}
  OBVIOUS
<1>6. PICK cool, body : cool = Put(seq, hot, Blocked) /\ body = Body("World", Rolled, FALSE)
  OBVIOUS
<1>7. PICK full : full = Put(cool, Unused(cool), body)
  OBVIOUS
<1>8. PICK mains : mains = {o \in 0..(Len(full) - 1) : At(full, o).row = Main}
  OBVIOUS
<1>9. /\ slots' = [slots EXCEPT ![s] = full]
      /\ wanted' = IF at.star = "primary" /\ mains # {}
                      THEN Override(wanted, Min(mains), asked.main.moons) ELSE wanted
  BY <1>2, <1>4, <1>5, <1>6, <1>7, <1>8 DEF Fill, Only
<1>10. at'.star = at.star /\ at'.phase = "moons" /\ at'.count = 0
  BY DEF Fill, Where
<1>11. /\ placed' = placed /\ asked' = asked /\ giantsWanted' = giantsWanted
       /\ zones' = zones /\ orbit' = orbit
  BY DEF Fill, Still, Else
<1>12. WellMade(body) /\ Unmarked(body)
  <2>1. PICK b \in BOOLEAN : b = FALSE
    OBVIOUS
  <2>2. PICK r, w : r = Rolled /\ w = "World"
    OBVIOUS
  <2>3. (w = "Giant" => r = Rolled) /\ (r = Main => w = "World") /\ r # Main
    BY <2>2, FreeMade
  <2>4. w \in Whats /\ r \in RowType /\ b \in BOOLEAN
    BY <2>1, <2>2, FreeIsBody DEF Whats
  <2>5. /\ WellMade(Body(w, r, b)) /\ (r # Main => Unmarked(Body(w, r, b)))
        /\ Body(w, r, b).moons = <<>> /\ Body(w, r, b).row = r /\ Body(w, r, b).what = w
    BY <2>3, <2>4, FreshBody, ZenonT(30)
  <2>6. body = Body(w, r, b)
    BY <1>6, <2>1, <2>2
  <2> QED BY <2>3, <2>5, <2>6
<1>13. hot \subseteq Nat /\ IsFiniteSet(hot) /\ \A u \in hot : At(slots[s], u) = Free
  <2>1. PICK z : z = zones[at.star]
    OBVIOUS
  <2>2. z \in ZoneTables
    BY <1>1, <2>1 DEF TypeInv
  <2>3. PICK n \in Int : n = z.hot
    BY <2>2, OrbitsAssumption
  <2>4. PICK all : all = 0 .. n
    OBVIOUS
  <2>5. IsFiniteSet(all) /\ all \subseteq Nat
    BY <2>3, <2>4, FS_Interval
  <2>6. hot \in SUBSET all /\ \A u \in hot : At(slots[s], u) = Free
    BY <1>3, <1>4, <1>5, <2>1, <2>3, <2>4
  <2> QED BY <2>5, <2>6, FS_Subset
<1>14. PICK mid : mid = [slots EXCEPT ![s] = Put(slots[s], hot, Blocked)]
  OBVIOUS
<1>15. /\ SlotsMade(mid) /\ \A t, o, i : MainIs(slots, t, o, i) => MainIs(mid, t, o, i)
       /\ \A t \in StarNames : \A u \in Nat : At(slots[t], u) # Free => At(mid[t], u) = At(slots[t], u)
  <2>1. OnlyFree(slots, mid)
    BY <1>4, <1>13, <1>14, FreeMade, PutOverFree, Zenon
  <2> QED BY <2>1 DEF OnlyFree
<1>16. mid[s] = cool /\ mid \in [StarNames -> Seq(BodyType)] /\ cool \in Seq(BodyType)
  BY <1>3, <1>4, <1>6, <1>14, <1>15 DEF SlotsMade
<1>17. slots' = [mid EXCEPT ![s] = Put(mid[s], Unused(cool), body)]
  BY <1>4, <1>7, <1>9, <1>14, <1>16
<1>18. PICK os : os = Unused(cool)
  OBVIOUS
<1>19. os \subseteq Nat /\ IsFiniteSet(os) /\ \A u \in os : At(mid[s], u) = Free
  BY <1>16, <1>18, UnusedAre DEF Unused
<1>20. slots' = [mid EXCEPT ![s] = Put(mid[s], os, body)]
  BY <1>17, <1>18
<1>21. /\ SlotsMade(slots') /\ \A t, o, i : MainIs(mid, t, o, i) => MainIs(slots', t, o, i)
       /\ \A t \in StarNames : \A u \in Nat : At(mid[t], u) # Free => At(slots'[t], u) = At(mid[t], u)
  <2>1. OnlyFree(mid, slots')
    BY <1>12, <1>15, <1>19, <1>20, PutOverFree, Zenon
  <2> QED BY <2>1 DEF OnlyFree
<1>22. \A t \in StarNames : \A u \in Nat : At(slots[t], u) # Free => At(slots'[t], u) = At(slots[t], u)
  BY <1>15, <1>21
<1>23. \A p \in placed : At(slots'["primary"], p[2]) = At(slots["primary"], p[2])
  <2>1. PICK t \in StarNames : t = "primary"
    BY DEF StarNames
  <2>2. ASSUME NEW p \in placed PROVE At(slots["primary"], p[2]) # Free /\ p[2] \in Nat
    BY <1>1, FreeMade DEF RowsInv
  <2> QED BY <1>22, <2>1, <2>2
<1>24. MainInv'
  <2>1. ~Early(at) /\ ~Early(at')
    BY <1>1, <1>10 DEF Early
  <2>2. PICK t \in StarNames, o \in Nat, i \in Nat : MainIs(slots, t, o, i)
    BY <1>1, <2>1 DEF MainInv
  <2>3. MainIs(slots', t, o, i)
    BY <1>15, <1>21, <2>2
  <2> QED BY <2>1, <2>3 DEF MainInv
<1>25. RowsInv'
  <2>1. Unplaced(at') => Unplaced(at)
    BY <1>10 DEF Unplaced
  <2> QED BY <1>11, <1>23, <2>1, RowsStay
<1>26. full \in Seq(BodyType) /\ Len(full) \in Nat /\ mains \subseteq Nat
  <2>1. full = slots'[s]
    BY <1>4, <1>9
  <2>2. full \in Seq(BodyType)
    BY <1>21, <2>1 DEF SlotsMade
  <2>3. Len(full) \in Nat
    BY <2>2
  <2> QED BY <1>8, <2>2, <2>3
<1>27. PICK n \in Number : n = asked.main.moons
  BY <1>1, OrbitsAssumption DEF TypeInv
<1>28. \A p \in DOMAIN wanted : wanted[p] \in Nat
  BY <1>1 DEF TypeInv
<1>29. /\ \A p \in DOMAIN wanted' : wanted'[p] \in Nat
       /\ \A p \in DOMAIN wanted : \/ p \in DOMAIN wanted' /\ wanted'[p] = wanted[p]
                                   \/ at.star = "primary" /\ p \in mains
  <2>1. CASE at.star = "primary" /\ mains # {}
    <3>1. PICK m : m = Min(mains)
      OBVIOUS
    <3>2. m \in mains /\ m \in Nat
      BY <1>26, <2>1, <3>1, MinOfSet
    <3>3. wanted' = Override(wanted, m, n)
      BY <1>9, <1>27, <2>1, <3>1
    <3>4. /\ \A p \in DOMAIN wanted' : wanted'[p] \in Nat
          /\ \A p \in DOMAIN wanted : p # m => p \in DOMAIN wanted' /\ wanted'[p] = wanted[p]
      BY <1>28, <3>2, <3>3, OverrideKeeps
    <3> QED BY <2>1, <3>2, <3>4
  <2>2. CASE ~(at.star = "primary" /\ mains # {})
    BY <1>9, <1>28, <2>2
  <2> QED BY <2>1, <2>2
<1>30. MoonsInv'
  <2>1. Seen(at') = Seen(at)
    BY <1>1, <1>10 DEF Seen
  <2>2. ASSUME NEW p \in placed, p[1][1] = "planet", At(slots'["primary"], p[2]).row = p[1]
        PROVE  MoonsOfRow(p)'
    <3>1. p[1] # Main /\ p[2] \in Nat
      BY <1>1 DEF RowsInv
    <3>2. Touched(at', p[2]) <=> Touched(at, p[2])
      BY <1>1, <1>10, <3>1 DEF Touched
    <3>3. ~(at.star = "primary" /\ p[2] \in mains)
      <4> SUFFICES ASSUME at.star = "primary", p[2] \in mains PROVE FALSE
        OBVIOUS
      <4>1. slots'["primary"] = full
        BY <1>2, <1>4, <1>9
      <4>2. At(full, p[2]).row = Main
        BY <1>8
      <4> QED BY <2>2, <3>1, <4>1, <4>2
    <3>4. p[2] \in DOMAIN wanted => p[2] \in DOMAIN wanted' /\ wanted'[p[2]] = wanted[p[2]]
      BY <1>29, <3>3
    <3> QED BY <1>11, <1>23, <2>1, <2>2, <3>2, <3>4, RowMoonsStay
  <2> QED BY <1>11, <2>2 DEF MoonsInv
<1>31. TypeInv'
  <2>1. at'.star \in StarNames /\ at'.phase = "moons"
    BY <1>1, <1>10 DEF TypeInv
  <2>2. at'.count \in Nat
    BY <1>10, Zero, Zenon
  <2> QED BY <1>1, <1>11, <1>21, <1>29, <2>1, <2>2, TypesStay DEF TypeInv
<1> QED BY <1>24, <1>25, <1>30, <1>31 DEF OrbitsInv

\* The main world stays among the satellites, or out of them.
SameMain(old, new) ==
  /\ \A k \in DOMAIN old :
       old[k].main /\ ~old[k].ring /\ (\A l \in DOMAIN old : old[l].main => l = k)
         => \E j \in DOMAIN new : new[j].main /\ ~new[j].ring /\ \A l \in DOMAIN new : new[l].main => l = j
  /\ (\A k \in DOMAIN old : ~old[k].main) => \A j \in DOMAIN new : ~new[j].main
Mooned(old, new) ==
  WellMade(new) /\ new.row = old.row /\ new.what = old.what /\ SameMain(old.moons, new.moons)

LEMMA AddedSameMain ==
  ASSUME NEW old \in Seq(MoonType), NEW new \in AddedTo(old) PROVE SameMain(old, new)
<1>1. PICK n, k : n = Len(new) /\ k = Len(old)
  OBVIOUS
<1>2. n \in Nat /\ k \in Nat /\ n >= k /\ DOMAIN new = 1 .. n /\ DOMAIN old = 1 .. k
      /\ \A i \in 1 .. n : IF i <= k THEN new[i] = old[i] ELSE ~new[i].main
  BY <1>1 DEF AddedTo
<1>3. \A i \in DOMAIN new : new[i].main => i \in DOMAIN old /\ new[i] = old[i]
  BY <1>2
<1>4. \A i \in DOMAIN old : i \in DOMAIN new /\ new[i] = old[i]
  BY <1>2
<1> QED BY <1>3, <1>4 DEF SameMain

LEMMA CleanSameMain ==
  ASSUME NEW old \in Seq(MoonType), Apart(old)
  PROVE  SameMain(old, Clean(old))
<1>1. PICK new : new = Clean(old)
  OBVIOUS
<1>0. PICK n \in Nat : \E p \in [1 .. n -> DOMAIN old] :
        /\ Len(new) = n /\ \A k \in 1 .. n : new[k] = old[p[k]]
        /\ \A k, l \in 1 .. n : p[k] = p[l] => k = l
        /\ \A i \in DOMAIN old : ~old[i].ring => \E k \in 1 .. n : p[k] = i
  BY <1>1, CleanKeeps
<1>2. PICK p \in [1 .. n -> DOMAIN old] :
        /\ Len(new) = n /\ \A k \in 1 .. n : new[k] = old[p[k]]
        /\ \A k, l \in 1 .. n : p[k] = p[l] => k = l
        /\ \A i \in DOMAIN old : ~old[i].ring => \E k \in 1 .. n : p[k] = i
  BY <1>0
<1>3. DOMAIN new = 1 .. n
  <2>1. new \in Seq(MoonType)
    BY <1>1, CleanKeeps
  <2> QED BY <1>2, <2>1
<1>4. \A k \in DOMAIN new : p[k] \in DOMAIN old /\ new[k] = old[p[k]]
  BY <1>2, <1>3
<1>5. ASSUME NEW k \in DOMAIN old, old[k].main, ~old[k].ring, \A l \in DOMAIN old : old[l].main => l = k
      PROVE  \E j \in DOMAIN new : new[j].main /\ ~new[j].ring /\ \A l \in DOMAIN new : new[l].main => l = j
  <2>1. PICK j \in DOMAIN new : p[j] = k
    BY <1>2, <1>3, <1>5
  <2>2. new[j].main /\ ~new[j].ring
    BY <1>4, <1>5, <2>1
  <2>3. \A l \in DOMAIN new : new[l].main => p[l] = k
    BY <1>4, <1>5
  <2> QED BY <1>2, <1>3, <2>1, <2>2, <2>3
<1>6. (\A k \in DOMAIN old : ~old[k].main) => \A j \in DOMAIN new : ~new[j].main
  BY <1>4
<1> QED BY <1>1, <1>5, <1>6 DEF SameMain

LEMMA SameMainOn ==
  ASSUME NEW a, NEW b, NEW c, SameMain(a, b), SameMain(b, c) PROVE SameMain(a, c)
BY DEF SameMain

Thrown(m0, thrown) == FoldLeft(LAMBDA ms, r : AddMoon(ms, r, FALSE), m0, thrown)

LEMMA RolledMoons ==
  ASSUME NEW old, WellMade(old), NEW n \in Nat, NEW b \in WithMoons(old, n),
         NEW new, new = [b EXCEPT !.moons = Clean(@)]
  PROVE  /\ Mooned(old, new)
         /\ (\A i \in DOMAIN new.moons : ~new.moons[i].ring) => Len(new.moons) = Len(old.moons) + n
<1>1. PICK thrown \in [1 .. n -> RollsFor(old)] : b = [old EXCEPT !.moons = Thrown(@, thrown)]
  BY Zenon DEF WithMoons, Thrown
<1>2. thrown \in [1 .. n -> MoonRolls]
  BY DEF RollsFor
<1>3. PICK m0 : m0 = old.moons
  OBVIOUS
<1>4. old \in BodyType /\ m0 \in Seq(MoonType) /\ Apart(m0)
  BY <1>3 DEF WellMade, BodyType
<1>5. PICK ms : ms = Thrown(m0, thrown)
  OBVIOUS
<1>6. ms \in AddedTo(m0) /\ Len(ms) = Len(m0) + n
  BY <1>2, <1>4, <1>5, MoonsThrown DEF Thrown
<1>7. ms \in Seq(MoonType) /\ Apart(ms)
  BY <1>6 DEF AddedTo
<1>8. PICK cl : cl = Clean(ms)
  OBVIOUS
<1>9. cl \in Seq(MoonType) /\ Apart(cl) /\ ((\A k \in DOMAIN cl : ~cl[k].ring) => Len(cl) = Len(ms))
  BY <1>7, <1>8, CleanKeeps
<1>10. b = [old EXCEPT !.moons = ms]
  BY <1>1, <1>3, <1>5, Zenon
<1>11. new = [old EXCEPT !.moons = cl]
  BY <1>4, <1>7, <1>8, <1>10 DEF BodyType
<1>12. new \in BodyType /\ new.moons = cl /\ new.row = old.row /\ new.what = old.what
  BY <1>4, <1>9, <1>11 DEF BodyType
<1>13. SameMain(m0, cl)
  BY <1>4, <1>6, <1>7, <1>8, AddedSameMain, CleanSameMain, SameMainOn, Zenon
<1>14. WellMade(new)
  BY <1>9, <1>12 DEF WellMade
<1> QED BY <1>3, <1>6, <1>9, <1>12, <1>13, <1>14 DEF Mooned

LEMMA MoonedKeepsMain ==
  ASSUME NEW sl, SlotsMade(sl), NEW new, NEW s \in StarNames, NEW o \in Nat, NEW body,
         Receives(sl, new, s, {o}, body), Mooned(At(sl[s], o), body),
         NEW t, NEW u, NEW i, MainIs(sl, t, u, i)
  PROVE  \E j \in Nat : MainIs(new, t, u, j)
<1>1. t \in StarNames /\ u \in Nat /\ i \in Nat
  BY DEF MainIs
<1>2. PICK old : old = At(sl[s], o)
  OBVIOUS
<1>3. body.row = old.row /\ body.what = old.what /\ SameMain(old.moons, body.moons) /\ WellMade(body)
  BY <1>2 DEF Mooned
<1>4. /\ At(new[s], o) = body
      /\ \A v \in StarNames : \A w \in Nat : ~(v = s /\ w = o) => At(new[v], w) = At(sl[v], w)
  BY DEF Receives
<1>10. body.moons \in Seq(MoonType)
  BY <1>3 DEF WellMade, BodyType
<1>11. DOMAIN body.moons \subseteq Nat /\ \A k \in DOMAIN body.moons : k # 0
  BY <1>10
<1>5. CASE t = s /\ u = o /\ i = 0
  <2>1. \A v \in StarNames : \A w, k \in Nat : IsMain(At(sl[v], w), k) => v = s /\ w = o /\ k = 0
    BY <1>5 DEF MainIs
  <2>2. old.moons \in Seq(MoonType)
    BY <1>2 DEF SlotsMade, WellMade, BodyType
  <2>3. \A k \in DOMAIN old.moons : ~old.moons[k].main
    <3>1. \A k \in DOMAIN old.moons : k \in Nat /\ k # 0
      BY <2>2
    <3> QED BY <1>2, <2>1, <3>1 DEF IsMain
  <2>4. \A j \in DOMAIN body.moons : ~body.moons[j].main
    BY <1>3, <2>3 DEF SameMain
  <2>5. \A k \in Nat : IsMain(body, k) => k = 0
    BY <2>4 DEF IsMain
  <2>6. \A v \in StarNames : \A w, k \in Nat : IsMain(At(new[v], w), k) => v = s /\ w = o /\ k = 0
    BY <1>4, <2>1, <2>5
  <2>7. IsMain(old, 0) /\ old.what \in Bodies /\ (old.what = "Giant" => s = "primary")
    BY <1>2, <1>5 DEF MainIs
  <2>8. IsMain(body, 0)
    BY <1>3, <2>7 DEF IsMain
  <2>9. MainIs(new, t, u, i)
    BY <1>1, <1>3, <1>4, <1>5, <2>6, <2>7, <2>8 DEF MainIs
  <2> QED BY <1>1, <2>9
<1>6. CASE t = s /\ u = o /\ i # 0
  <2>1. \A v \in StarNames : \A w, k \in Nat : IsMain(At(sl[v], w), k) => v = s /\ w = o /\ k = i
    BY <1>6 DEF MainIs
  <2>2. IsMain(old, i) /\ old.what \in Bodies /\ (old.what = "Giant" => s = "primary") /\ ~old.moons[i].ring
    BY <1>2, <1>6 DEF MainIs
  <2>3. i \in DOMAIN old.moons /\ old.moons[i].main
    BY <1>6, <2>2 DEF IsMain
  <2>4. old.row # Main
    <3>1. ~IsMain(old, 0)
      BY <1>2, <1>6, <2>1, Zero
    <3> QED BY <3>1 DEF IsMain
  <2>5. \A l \in DOMAIN old.moons : old.moons[l].main => l = i
    <3>1. old.moons \in Seq(MoonType)
      BY <1>2 DEF SlotsMade, WellMade, BodyType
    <3>2. \A k \in DOMAIN old.moons : k \in Nat /\ k # 0
      BY <3>1
    <3> QED BY <1>2, <2>1, <3>2 DEF IsMain
  <2>6. PICK j \in DOMAIN body.moons : /\ body.moons[j].main /\ ~body.moons[j].ring
                                       /\ \A l \in DOMAIN body.moons : body.moons[l].main => l = j
    BY <1>3, <2>2, <2>3, <2>5 DEF SameMain
  <2>7. \A k \in Nat : IsMain(body, k) => k = j
    BY <1>3, <2>4, <2>6 DEF IsMain
  <2>8. j \in Nat /\ j # 0 /\ IsMain(body, j)
    BY <1>11, <2>6 DEF IsMain
  <2>9. \A v \in StarNames : \A w, k \in Nat : IsMain(At(new[v], w), k) => v = s /\ w = o /\ k = j
    BY <1>4, <1>6, <2>1, <2>7
  <2>10. MainIs(new, t, u, j)
    BY <1>1, <1>3, <1>4, <1>6, <2>2, <2>6, <2>8, <2>9 DEF MainIs
  <2> QED BY <2>8, <2>10
<1>7. CASE ~(t = s /\ u = o)
  <2>1. \A v \in StarNames : \A w, k \in Nat : IsMain(At(sl[v], w), k) => v = t /\ w = u /\ k = i
    BY DEF MainIs
  <2>2. \A k \in Nat : ~IsMain(old, k)
    BY <1>2, <1>7, <2>1
  <2>3. old.row # Main /\ \A k \in DOMAIN old.moons : ~old.moons[k].main
    <3>1. old.moons \in Seq(MoonType)
      BY <1>2 DEF SlotsMade, WellMade, BodyType
    <3>2. \A k \in DOMAIN old.moons : k \in Nat /\ k # 0
      BY <3>1
    <3> QED BY <2>2, <3>2, Zero DEF IsMain
  <2>4. \A k \in Nat : ~IsMain(body, k)
    BY <1>3, <2>3 DEF IsMain, SameMain
  <2>5. \A v \in StarNames : \A w, k \in Nat : IsMain(At(new[v], w), k) => v = t /\ w = u /\ k = i
    BY <1>4, <2>1, <2>4
  <2>6. MainIs(new, t, u, i)
    BY <1>1, <1>4, <1>7, <2>5 DEF MainIs
  <2> QED BY <1>1, <2>6
<1> QED BY <1>5, <1>6, <1>7

\* A body's satellites alone change.
LEMMA MoonPutKeeps ==
  ASSUME OrbitsInv, NEW s \in StarNames, NEW o \in Nat, NEW body,
         Receives(slots, slots', s, {o}, body), Mooned(At(slots[s], o), body),
         placed' = placed, ~Early(at), ~Early(at'), ~Unplaced(at')
  PROVE  /\ SlotsMade(slots') /\ MainInv' /\ RowsInv'
         /\ \A p \in placed : ~(s = "primary" /\ p[2] = o)
                              => At(slots'["primary"], p[2]) = At(slots["primary"], p[2])
<1>1. SlotsMade(slots) /\ MainInv /\ RowsInv
  BY DEF OrbitsInv, TypeInv
<1>2. WellMade(body) /\ body.row = At(slots[s], o).row
  BY DEF Mooned
<1>3. SlotsMade(slots')
  BY <1>1, <1>2, MadeStays
<1>4. MainInv'
  <2>1. PICK t \in StarNames, u \in Nat, i \in Nat : MainIs(slots, t, u, i)
    BY <1>1 DEF MainInv
  <2>2. \E j \in Nat : MainIs(slots', t, u, j)
    BY <1>1, <2>1, MoonedKeepsMain
  <2> QED BY <2>1, <2>2 DEF MainInv
<1>5. PICK prim \in StarNames : prim = "primary"
  BY DEF StarNames
<1>6. \A p \in placed : ~(s = "primary" /\ p[2] = o)
                        => At(slots'["primary"], p[2]) = At(slots["primary"], p[2])
  <2>1. \A p \in placed : p[2] \in Nat
    BY <1>1 DEF RowsInv
  <2> QED BY <1>5, <2>1 DEF Receives
<1>7. RowsInv'
  <2>1. \A p \in placed : At(slots'["primary"], p[2]).row = At(slots["primary"], p[2]).row
    <3>1. \A p \in placed : s = "primary" /\ p[2] = o => At(slots'["primary"], p[2]) = body
      BY <1>5 DEF Receives
    <3> QED BY <1>2, <1>6, <3>1
  <2> QED BY <1>1, <2>1 DEF RowsInv
<1> QED BY <1>3, <1>4, <1>6, <1>7

LEMMA OwnIs ==
  ASSUME OrbitsInv, NEW o
  PROVE  /\ \A n \in Nat : Own(o, n) \in Nat
         /\ Own(o, 0) = 0
         /\ Len(asked.moons) \in Nat
         /\ Cardinality({i \in DOMAIN asked.moons : asked.moons[i].parent = o}) = Own(o, Len(asked.moons))
<1>1. PICK am : am = asked.moons
  OBVIOUS
<1>2. am \in Seq([parent : Nat, size : Number])
  BY <1>1, OrbitsAssumption DEF OrbitsInv, TypeInv
<1>3. PICK len \in Nat : len = Len(am) /\ DOMAIN am = 1 .. len
  BY <1>2
<1>4. ASSUME NEW n \in Nat PROVE Own(o, n) \in Nat
  <2>1. PICK S : S = {i \in 1 .. n : i \in DOMAIN asked.moons /\ asked.moons[i].parent = o}
    OBVIOUS
  <2>2. IsFiniteSet(1 .. n) /\ S \in SUBSET (1 .. n)
    BY <2>1, FS_Interval
  <2>3. IsFiniteSet(S)
    BY <2>2, FS_Subset
  <2> QED BY <2>1, <2>3, FS_CardinalityType DEF Own
<1>5. Own(o, 0) = 0
  <2>1. {i \in 1 .. 0 : i \in DOMAIN asked.moons /\ asked.moons[i].parent = o} = {}
    OBVIOUS
  <2> QED BY <2>1, FS_EmptySet DEF Own
<1>6. {i \in 1 .. len : i \in DOMAIN am /\ am[i].parent = o} = {i \in DOMAIN am : am[i].parent = o}
  BY <1>3
<1> QED BY <1>1, <1>3, <1>4, <1>5, <1>6 DEF Own

LEMMA RemainingIs ==
  ASSUME OrbitsInv, NEW o, NEW n \in Nat
  PROVE  /\ Remaining(o, n) \in Nat
         /\ at.star = "primary" => Remaining(o, n) = Max({n - Own(o, Len(asked.moons)), 0})
<1>1. PICK own : own = IF at.star = "primary" THEN Own(o, Len(asked.moons)) ELSE 0
  OBVIOUS
<1>2. own \in Nat /\ Remaining(o, n) = Max({n - own, 0})
  BY <1>1, OwnIs DEF Remaining
<1>3. PICK d \in Int : d = n - own
  BY <1>2
<1>4. Max({d, 0}) \in Nat
  BY <1>3, MaxOfTwo
<1> QED BY <1>1, <1>2, <1>3, <1>4

LEMMA RolledIs ==
  ASSUME OrbitsInv, NEW o, NEW body \in BodyType, NEW n \in MoonsRolled(o, body)
  PROVE  n \in Nat /\ (body.what = "World" /\ o \in DOMAIN wanted => n = wanted[o])
<1>1. /\ \A p \in DOMAIN wanted : wanted[p] \in Nat
      /\ \A p \in DOMAIN giantsWanted : giantsWanted[p] \in Nat
  BY DEF OrbitsInv, TypeInv
<1>2. GiantMoons \subseteq Nat /\ WorldMoons \subseteq Nat
  BY OrbitsAssumption
<1>3. CASE body.what = "Giant"
  <2>1. "Giant" # "World"
    OBVIOUS
  <2>2. n \in (IF o \in DOMAIN giantsWanted THEN {giantsWanted[o]} ELSE GiantMoons)
    BY <1>3 DEF MoonsRolled
  <2> QED BY <1>1, <1>2, <1>3, <2>2
<1>4. CASE body.what # "Giant" /\ o \in DOMAIN wanted
  BY <1>1, <1>4 DEF MoonsRolled
<1>5. CASE body.what # "Giant" /\ o \notin DOMAIN wanted
  <2>1. n \in (IF body.solid THEN WorldMoons ELSE {0})
    BY <1>5 DEF MoonsRolled
  <2> QED BY <1>2, <1>5, <2>1, Zero
<1> QED BY <1>3, <1>4, <1>5

LEMMA MoonsOfKeeps == ASSUME OrbitsInv, MoonsOf PROVE OrbitsInv'
<1>1. TypeInv /\ MainInv /\ RowsInv /\ MoonsInv /\ at.phase = "moons"
  BY DEF OrbitsInv, MoonsOf
<1>2. PICK s \in StarNames : s = at.star
  BY <1>1 DEF TypeInv
<1>3. PICK o \in Nat : o = at.count
  BY <1>1 DEF TypeInv
<1>4. at'.star = at.star /\ at'.phase = "moons" /\ at'.count = o + 1
  BY <1>3 DEF MoonsOf, Where
<1>5. /\ placed' = placed /\ asked' = asked /\ wanted' = wanted /\ giantsWanted' = giantsWanted
      /\ zones' = zones /\ orbit' = orbit
  BY DEF MoonsOf, Still, Else
<1>6. PICK old : old = At(slots[s], o)
  OBVIOUS
<1>7. /\ SlotsMade(slots) /\ slots \in [StarNames -> Seq(BodyType)] /\ Mine = slots[s]
      /\ WellMade(old) /\ old \in BodyType
  <2>1. SlotsMade(slots) /\ slots \in [StarNames -> Seq(BodyType)]
    BY <1>1 DEF TypeInv, SlotsMade
  <2>2. WellMade(old)
    BY <1>6, <2>1 DEF SlotsMade
  <2> QED BY <1>2, <2>1, <2>2 DEF Mine, WellMade
<1>8. \/ /\ old.what \in Bodies
         /\ \E n \in MoonsRolled(o, old) : \E b \in WithMoons(old, Remaining(o, n)) :
              Only(Put(Mine, {o}, [b EXCEPT !.moons = Clean(@)]))
      \/ old.what \notin Bodies /\ slots' = slots
  BY <1>2, <1>3, <1>6, <1>7 DEF MoonsOf
<1>9. ~Early(at) /\ ~Early(at') /\ ~Unplaced(at') /\ (Unplaced(at') => Unplaced(at))
  BY <1>1, <1>4 DEF Early, Unplaced
<1>10. Seen(at') = Seen(at) /\ (at.star = "primary" => Seen(at') = 0)
  BY <1>1, <1>4 DEF Seen
<1>11. \A u \in Nat : ~(at.star = "primary" /\ u = o) => (Touched(at', u) <=> Touched(at, u))
  <2> SUFFICES ASSUME NEW u \in Nat, ~(at.star = "primary" /\ u = o)
               PROVE  Touched(at', u) <=> Touched(at, u)
    OBVIOUS
  <2>1. CASE at.star # "primary"
    BY <1>4, <2>1 DEF Touched
  <2>2. CASE at.star = "primary"
    <3>1. u # o
      BY <2>2
    <3>2. at'.count > u <=> at.count > u
      BY <1>3, <1>4, <3>1
    <3> QED BY <1>1, <1>4, <2>2, <3>2 DEF Touched
  <2> QED BY <2>1, <2>2
<1>12. at.star = "primary" => Touched(at', o) /\ ~Touched(at, o)
  <2>1. at'.count > o /\ ~(at.count > o)
    BY <1>3, <1>4
  <2> QED BY <1>1, <1>4, <2>1 DEF Touched
<1>13. \A p \in placed : p[2] \in Nat
  BY <1>1 DEF RowsInv
<1>14. SlotsMade(slots') /\ MainInv' /\ RowsInv' /\ MoonsInv'
  <2>1. CASE old.what \in Bodies
    <3>1. PICK n \in MoonsRolled(o, old) : \E b \in WithMoons(old, Remaining(o, n)) :
              Only(Put(Mine, {o}, [b EXCEPT !.moons = Clean(@)]))
      BY <1>8, <2>1
    <3>2. PICK r : r = Remaining(o, n)
      OBVIOUS
    <3>3. n \in Nat /\ r \in Nat /\ (old.what = "World" /\ o \in DOMAIN wanted => n = wanted[o])
          /\ (at.star = "primary" => r = Max({n - Own(o, Len(asked.moons)), 0}))
      BY <1>7, <3>2, RolledIs, RemainingIs
    <3>4. PICK b \in WithMoons(old, r) : Only(Put(Mine, {o}, [b EXCEPT !.moons = Clean(@)]))
      BY <3>1, <3>2
    <3>5. PICK body : body = [b EXCEPT !.moons = Clean(@)]
      OBVIOUS
    <3>6. /\ Mooned(old, body)
          /\ (\A i \in DOMAIN body.moons : ~body.moons[i].ring) => Len(body.moons) = Len(old.moons) + r
      BY <1>7, <3>3, <3>4, <3>5, RolledMoons
    <3>7. PICK os : os = {o}
      OBVIOUS
    <3>8. os \subseteq Nat /\ IsFiniteSet(os) /\ body \in BodyType
      BY <3>6, <3>7, FS_Singleton DEF Mooned, WellMade
    <3>9. slots' = [slots EXCEPT ![s] = Put(slots[s], os, body)]
      BY <1>2, <1>7, <3>4, <3>5, <3>7 DEF Only
    <3>10. Receives(slots, slots', s, os, body)
      BY <1>7, <3>8, <3>9, PutBecomes
    <3>11. Receives(slots, slots', s, {o}, body)
      BY <3>7, <3>10
    <3>12. /\ SlotsMade(slots') /\ MainInv' /\ RowsInv'
           /\ \A p \in placed : ~(s = "primary" /\ p[2] = o)
                                => At(slots'["primary"], p[2]) = At(slots["primary"], p[2])
      BY <1>5, <1>6, <1>9, <3>6, <3>11, MoonPutKeeps
    <3>13. ASSUME NEW p \in placed, p[1][1] = "planet", At(slots'["primary"], p[2]).row = p[1]
           PROVE  MoonsOfRow(p)'
      <4>1. CASE ~(s = "primary" /\ p[2] = o)
        <5>1. At(slots'["primary"], p[2]) = At(slots["primary"], p[2])
          BY <3>12, <4>1
        <5>2. Touched(at', p[2]) <=> Touched(at, p[2])
          BY <1>2, <1>11, <1>13, <4>1
        <5> QED BY <1>5, <1>10, <3>13, <5>1, <5>2, RowMoonsStay
      <4>2. CASE s = "primary" /\ p[2] = o
        <5>1. At(slots'["primary"], p[2]) = body
          BY <3>11, <4>2 DEF Receives
        <5>2. At(slots["primary"], p[2]) = old /\ old.row = p[1]
          BY <1>6, <3>6, <3>13, <4>2, <5>1 DEF Mooned
        <5>3. MoonsOfRow(p)
          BY <1>1, <3>13, <5>2 DEF MoonsInv
        <5>4. ~Touched(at, p[2]) /\ Touched(at', p[2]) /\ Seen(at') = 0
          BY <1>2, <1>10, <1>12, <4>2
        <5>5. PICK want : want = asked.planets[p[1][2]].moons
          OBVIOUS
        <5>6. /\ old.what = "World" /\ p[1][2] \in DOMAIN asked.planets
              /\ old.moons = <<>> /\ (want # Open => o \in DOMAIN wanted /\ wanted[o] = want)
          BY <4>2, <5>2, <5>3, <5>4, <5>5 DEF MoonsOfRow
        <5>7. body.what = "World"
          BY <3>6, <5>6 DEF Mooned
        <5>8. want # Open => n = want
          BY <3>3, <5>6
        <5>9. ASSUME want # Open, \A i \in DOMAIN body.moons : ~body.moons[i].ring
              PROVE  Len(body.moons) = Max({want - Own(o, Len(asked.moons)), 0}) + Own(o, 0)
          <6>1. Len(body.moons) = Len(old.moons) + r
            BY <3>6, <5>9
          <6>2. Len(old.moons) = 0
            BY <5>6
          <6>3. Own(o, 0) = 0
            BY OwnIs
          <6>4. r = Max({want - Own(o, Len(asked.moons)), 0})
            BY <1>2, <3>3, <4>2, <5>8, <5>9
          <6> QED BY <3>3, <6>1, <6>2, <6>3, <6>4
        <5>10. \A k : Own(p[2], k)' = Own(o, k)
          BY <1>5, <4>2 DEF Own
        <5>11. Seen(at)' = 0
          BY <1>5, <5>4 DEF Seen
        <5>12. Touched(at, p[2])' /\ asked' = asked
          BY <1>5, <5>4 DEF Touched
        <5> QED BY <4>2, <5>1, <5>5, <5>6, <5>7, <5>9, <5>10, <5>11, <5>12 DEF MoonsOfRow
      <4> QED BY <4>1, <4>2
    <3>14. MoonsInv'
      BY <1>5, <3>13 DEF MoonsInv
    <3> QED BY <3>12, <3>14
  <2>2. CASE old.what \notin Bodies
    <3>1. slots' = slots
      BY <1>8, <2>2
    <3>2. /\ SlotsMade(slots') /\ MainInv' /\ RowsInv'
          /\ \A p \in placed : At(slots'["primary"], p[2]) = At(slots["primary"], p[2])
      BY <1>5, <1>9, <3>1, Unmoved
    <3>3. ASSUME NEW p \in placed, p[1][1] = "planet", At(slots'["primary"], p[2]).row = p[1]
          PROVE  MoonsOfRow(p)'
      <4>1. ~(s = "primary" /\ p[2] = o)
        <5> SUFFICES ASSUME s = "primary", p[2] = o PROVE FALSE
          OBVIOUS
        <5>1. At(slots["primary"], p[2]) = old
          BY <1>6
        <5>2. MoonsOfRow(p)
          BY <1>1, <3>1, <3>3 DEF MoonsInv
        <5>3. old.what = "World"
          BY <5>1, <5>2 DEF MoonsOfRow
        <5> QED BY <2>2, <5>3 DEF Bodies
      <4>2. Touched(at', p[2]) <=> Touched(at, p[2])
        BY <1>2, <1>11, <1>13, <4>1
      <4> QED BY <1>5, <1>10, <3>2, <3>3, <4>2, RowMoonsStay
    <3>4. MoonsInv'
      BY <1>5, <3>3 DEF MoonsInv
    <3> QED BY <3>2, <3>4
  <2> QED BY <2>1, <2>2
<1>15. TypeInv'
  <2>1. at'.star \in StarNames /\ at'.phase = "moons" /\ at'.count \in Nat
    BY <1>1, <1>3, <1>4 DEF TypeInv
  <2> QED BY <1>1, <1>5, <1>14, <2>1, TypesStay DEF TypeInv
<1> QED BY <1>14, <1>15 DEF OrbitsInv

LEMMA EnoughMoonsKeeps == ASSUME OrbitsInv, EnoughMoons PROVE OrbitsInv'
<1>1. TypeInv /\ RowsInv
  BY DEF OrbitsInv
<1>2. /\ at.phase = "moons" /\ at'.star = at.star /\ at'.count = 0 /\ at.count = Len(Mine)
      /\ at'.phase = IF at.star = "primary" THEN "moon rows" ELSE "filled"
  BY DEF EnoughMoons, Where
<1>3. /\ slots' = slots /\ placed' = placed /\ asked' = asked /\ wanted' = wanted /\ giantsWanted' = giantsWanted
      /\ zones' = zones /\ orbit' = orbit
  BY DEF EnoughMoons, Still, Else
<1>4. SlotsMade(slots') /\ MainInv' /\ RowsInv' /\ MoonsInv'
  <2>1. Early(at) <=> Early(at')
    BY <1>2 DEF Early
  <2>2. Unplaced(at') => Unplaced(at)
    BY <1>2 DEF Unplaced
  <2>3. ASSUME NEW p \in placed PROVE Touched(at', p[2]) <=> Touched(at, p[2])
    <3>1. CASE at.star # "primary"
      BY <1>2, <3>1 DEF Touched
    <3>2. CASE at.star = "primary"
      <4>1. PICK seq : seq = slots["primary"]
        OBVIOUS
      <4>2. seq \in Seq(BodyType) /\ Mine = seq
        BY <1>1, <3>2, <4>1 DEF TypeInv, SlotsMade, StarNames, Mine
      <4>3. p[2] \in Nat /\ At(seq, p[2]) # Free
        BY <1>1, <4>1, FreeMade DEF RowsInv
      <4>4. p[2] < Len(seq)
        BY <4>2, <4>3, AtBody
      <4>5. at.count > p[2]
        BY <1>2, <4>2, <4>3, <4>4
      <4> QED BY <1>2, <3>2, <4>5 DEF Touched
    <3> QED BY <3>1, <3>2
  <2>4. Seen(at') = Seen(at)
    BY <1>2 DEF Seen
  <2> QED BY <1>3, <2>1, <2>2, <2>3, <2>4, StandStill
<1>5. TypeInv'
  <2>1. at'.star \in StarNames /\ at'.phase # "placing giants"
    BY <1>1, <1>2 DEF TypeInv
  <2>2. at'.count \in Nat
    BY <1>2, Zero, Zenon
  <2>3. at'.star = "primary" \/ at'.phase = "filled"
    BY <1>2
  <2> QED BY <1>1, <1>3, <1>4, <2>1, <2>2, <2>3, TypesStay DEF TypeInv
<1> QED BY <1>4, <1>5 DEF OrbitsInv

LEMMA EnoughMoonRowsKeeps == ASSUME OrbitsInv, EnoughMoonRows PROVE OrbitsInv'
<1>1. TypeInv /\ at.star = "primary"
  BY DEF OrbitsInv, TypeInv, EnoughMoonRows
<1>2. /\ at.phase = "moon rows" /\ at'.star = "primary" /\ at'.count = 0 /\ at.count = Len(asked.moons)
      /\ at'.phase = "filled"
  BY DEF EnoughMoonRows, Where
<1>3. /\ slots' = slots /\ placed' = placed /\ asked' = asked /\ wanted' = wanted /\ giantsWanted' = giantsWanted
      /\ zones' = zones /\ orbit' = orbit
  BY DEF EnoughMoonRows, Still, Else
<1>4. SlotsMade(slots') /\ MainInv' /\ RowsInv' /\ MoonsInv'
  <2>1. Early(at) <=> Early(at')
    BY <1>2 DEF Early
  <2>2. Unplaced(at') => Unplaced(at)
    BY <1>2 DEF Unplaced
  <2>3. \A p \in placed : Touched(at', p[2]) <=> Touched(at, p[2])
    BY <1>2 DEF Touched
  <2>4. Seen(at') = Seen(at)
    BY <1>1, <1>2 DEF Seen
  <2> QED BY <1>3, <2>1, <2>2, <2>3, <2>4, StandStill
<1>5. TypeInv'
  <2>1. at'.star \in StarNames /\ at'.phase # "placing giants"
    BY <1>2 DEF StarNames
  <2>2. at'.count \in Nat
    BY <1>2, Zero, Zenon
  <2> QED BY <1>1, <1>2, <1>3, <1>4, <2>1, <2>2, TypesStay DEF TypeInv
<1> QED BY <1>4, <1>5 DEF OrbitsInv

LEMMA NextStarKeeps == ASSUME OrbitsInv, NextStar PROVE OrbitsInv'
<1>1. TypeInv /\ at.phase = "filled"
  BY DEF OrbitsInv, NextStar
<1>2. /\ slots' = slots /\ placed' = placed /\ asked' = asked /\ zones' = zones /\ orbit' = orbit
      /\ DOMAIN wanted' = {} /\ DOMAIN giantsWanted' = {}
  <2>1. wanted' = [o \in {} |-> 0] /\ giantsWanted' = [o \in {} |-> 0]
    BY DEF NextStar
  <2> QED BY <2>1 DEF NextStar, Still, Else
<1>3. /\ at'.star \in StarNames /\ at'.count = 0 /\ at'.phase \in {"done", "blocked"}
      /\ at'.phase = "blocked" => at'.star # "primary"
  <2> DEFINE coming == CASE at.star = "primary" -> {"secondary", "tertiary"}
                       [] at.star = "secondary" -> {"tertiary"}
                       [] at.star = "tertiary" -> {}
             next == {s \in coming : HasOrbits(s)}
  <2>1. Where(IF "secondary" \in next THEN "secondary" ELSE IF next # {} THEN "tertiary" ELSE at.star,
              IF next = {} THEN "done" ELSE "blocked", 0)
    BY DEF NextStar
  <2>2. at.star \in StarNames
    BY <1>1 DEF TypeInv
  <2> HIDE DEF next
  <2>3. CASE next = {}
    BY <2>1, <2>2, <2>3 DEF Where
  <2>4. CASE next # {} /\ "secondary" \in next
    BY <2>1, <2>4 DEF Where, StarNames
  <2>5. CASE next # {} /\ "secondary" \notin next
    BY <2>1, <2>5 DEF Where, StarNames
  <2> QED BY <2>3, <2>4, <2>5
<1>4. /\ ~Early(at) /\ ~Early(at') /\ ~Unplaced(at') /\ Seen(at') = Seen(at)
      /\ \A o : Touched(at, o) /\ Touched(at', o)
  BY <1>1, <1>3 DEF Early, Unplaced, Seen, Touched
<1>5. /\ SlotsMade(slots') /\ MainInv' /\ RowsInv'
      /\ \A p \in placed : At(slots'["primary"], p[2]) = At(slots["primary"], p[2])
  BY <1>2, <1>4, Unmoved
<1>6. MoonsInv'
  BY <1>2, <1>4, <1>5, MoonsStay
<1>7. TypeInv'
  <2>1. at'.count \in Nat
    BY <1>3, Zero, Zenon
  <2>2. at'.phase # "placing giants"
    BY <1>3
  <2>3. \/ at'.star = "primary"
        \/ at'.phase \in {"blocked", "giants", "placing giants", "planetoids", "panicked", "filling", "moons",
                          "filled", "done"}
    BY <1>3
  <2>4. (\A o \in DOMAIN wanted' : wanted'[o] \in Nat) /\ \A o \in DOMAIN giantsWanted' : giantsWanted'[o] \in Nat
    BY <1>2
  <2> QED BY <1>1, <1>2, <1>3, <1>5, <2>1, <2>2, <2>3, <2>4, TypesStay
<1> QED BY <1>5, <1>6, <1>7 DEF OrbitsInv

RowAdds(old, body) ==
  /\ Mooned(old, body) /\ Len(body.moons) = Len(old.moons) + 1
  /\ (\A i \in DOMAIN body.moons : ~body.moons[i].ring) => \A i \in DOMAIN old.moons : ~old.moons[i].ring

LEMMA RowMoon ==
  ASSUME NEW old, WellMade(old), NEW r \in MoonRolls, NEW body, body = [old EXCEPT !.moons = AddMoon(@, r, FALSE)]
  PROVE  RowAdds(old, body)
<1>1. PICK m0 : m0 = old.moons
  OBVIOUS
<1>2. old \in BodyType /\ m0 \in Seq(MoonType) /\ Apart(m0)
  BY <1>1 DEF WellMade, BodyType
<1>3. m0 \in AddedTo(m0)
  BY <1>2 DEF AddedTo
<1>4. PICK ms : ms = AddMoon(m0, r, FALSE)
  OBVIOUS
<1>5. ms \in AddedTo(m0) /\ Len(ms) = Len(m0) + 1
  BY <1>2, <1>3, <1>4, AddKeeps
<1>6. body = [old EXCEPT !.moons = ms]
  BY <1>1, <1>4, Zenon
<1>7. ms \in Seq(MoonType) /\ Apart(ms) /\ SameMain(m0, ms)
  BY <1>2, <1>5, AddedSameMain DEF AddedTo
<1>8. body \in BodyType /\ body.moons = ms /\ body.row = old.row /\ body.what = old.what
  BY <1>2, <1>6, <1>7 DEF BodyType
<1>9. \A i \in DOMAIN m0 : i \in DOMAIN ms /\ ms[i] = m0[i]
  BY <1>2, <1>5 DEF AddedTo
<1> QED BY <1>1, <1>2, <1>5, <1>7, <1>8, <1>9 DEF RowAdds, Mooned, WellMade

LEMMA OwnNext ==
  ASSUME OrbitsInv, NEW o, NEW c \in Nat, c < Len(asked.moons)
  PROVE  Own(o, c + 1) = Own(o, c) + IF asked.moons[c + 1].parent = o THEN 1 ELSE 0
<1>1. PICK am : am = asked.moons
  OBVIOUS
<1>2. am \in Seq([parent : Nat, size : Number])
  BY <1>1, OrbitsAssumption DEF OrbitsInv, TypeInv
<1>3. PICK d \in Nat : d = c + 1
  OBVIOUS
<1>4. d \in DOMAIN am
  BY <1>1, <1>2, <1>3
<1>5. PICK S, T : /\ S = {i \in 1 .. c : i \in DOMAIN am /\ am[i].parent = o}
                  /\ T = {i \in 1 .. d : i \in DOMAIN am /\ am[i].parent = o}
  OBVIOUS
<1>6. IsFiniteSet(S)
  <2>1. IsFiniteSet(1 .. c) /\ S \in SUBSET (1 .. c)
    BY <1>5, FS_Interval
  <2> QED BY <2>1, FS_Subset
<1>7. Own(o, c) = Cardinality(S) /\ Own(o, d) = Cardinality(T) /\ Cardinality(S) \in Nat
  BY <1>1, <1>5, <1>6, FS_CardinalityType DEF Own
<1>8. CASE am[d].parent = o
  <2>1. T = S \cup {d} /\ d \notin S
    BY <1>3, <1>4, <1>5, <1>8
  <2>2. Cardinality(T) = Cardinality(S) + 1
    BY <1>6, <2>1, FS_AddElement
  <2> QED BY <1>1, <1>3, <1>7, <1>8, <2>2
<1>9. CASE am[d].parent # o
  <2>1. T = S
    BY <1>3, <1>5, <1>9
  <2> QED BY <1>1, <1>3, <1>7, <1>9, <2>1
<1> QED BY <1>8, <1>9

LEMMA ParentIs ==
  ASSUME TypeInv, NEW c \in Nat, c < Len(asked.moons) PROVE asked.moons[c + 1].parent \in Nat
<1> DEFINE T == [parent : Nat, size : Number]
<1>1. asked.moons \in Seq(T)
  BY OrbitsAssumption DEF TypeInv
<1>2. \A x \in T : x.parent \in Nat
  OBVIOUS
<1> HIDE DEF T
<1>3. PICK am : am = asked.moons
  OBVIOUS
<1>4. PICK d \in Nat, n \in Nat : d = c + 1 /\ n = Len(am)
  BY <1>1, <1>3
<1>5. d \in 1 .. n
  BY <1>3, <1>4
<1>6. am[d] \in T
  BY <1>1, <1>3, <1>4, <1>5
<1> QED BY <1>2, <1>3, <1>4, <1>6

LEMMA MoonRowKeeps == ASSUME OrbitsInv, MoonRow PROVE OrbitsInv'
<1>1. /\ TypeInv /\ RowsInv /\ MoonsInv /\ at.star = "primary" /\ at.phase = "moon rows"
      /\ at.count < Len(asked.moons)
  BY DEF OrbitsInv, TypeInv, MoonRow
<1>2. PICK s \in StarNames : s = "primary"
  BY DEF StarNames
<1>3. PICK c \in Nat : c = at.count
  BY <1>1 DEF TypeInv
<1>4. at'.star = "primary" /\ at'.phase = "moon rows" /\ at'.count = c + 1
  BY <1>3 DEF MoonRow, Where
<1>5. /\ placed' = placed /\ asked' = asked /\ wanted' = wanted /\ giantsWanted' = giantsWanted
      /\ zones' = zones /\ orbit' = orbit
  BY DEF MoonRow, Still, Else
<1>6. PICK row : row = asked.moons[c + 1]
  OBVIOUS
<1>7. row.parent \in Nat
  BY <1>1, <1>3, <1>6, ParentIs
<1>8. PICK o \in Nat : o = row.parent
  BY <1>7
<1>9. PICK old : old = At(slots[s], o)
  OBVIOUS
<1>10. /\ SlotsMade(slots) /\ slots \in [StarNames -> Seq(BodyType)] /\ Mine = slots[s]
       /\ WellMade(old) /\ old \in BodyType
  <2>1. SlotsMade(slots) /\ slots \in [StarNames -> Seq(BodyType)]
    BY <1>1 DEF TypeInv, SlotsMade
  <2>2. WellMade(old)
    BY <1>9, <2>1 DEF SlotsMade
  <2> QED BY <1>1, <1>2, <2>1, <2>2 DEF Mine, WellMade
<1>11. PICK could : could = IF row.size = Open THEN RollsFor(old) ELSE {r \in MoonRolls : r.ring = (row.size = 0)}
  OBVIOUS
<1>12. could \subseteq MoonRolls
  BY <1>11 DEF RollsFor
<1>13. \/ /\ old.what \in Bodies
          /\ \E r \in could : Only(Put(Mine, {o}, [old EXCEPT !.moons = AddMoon(@, r, FALSE)]))
       \/ old.what \notin Bodies /\ slots' = slots
  BY <1>3, <1>6, <1>8, <1>9, <1>10, <1>11 DEF MoonRow
<1>14. /\ ~Early(at) /\ ~Early(at') /\ ~Unplaced(at') /\ Seen(at) = c /\ Seen(at') = c + 1
       /\ \A u : Touched(at, u) /\ Touched(at', u)
  BY <1>1, <1>3, <1>4 DEF Early, Unplaced, Seen, Touched
<1>15. \A u : Own(u, c + 1) = Own(u, c) + IF u = o THEN 1 ELSE 0
  BY <1>1, <1>3, <1>6, <1>8, OwnNext
<1>16. Seen(at)' = c + 1 /\ (\A u : Touched(at, u)') /\ \A u, k : Own(u, k)' = Own(u, k)
  BY <1>5, <1>14 DEF Seen, Touched, Own
<1>17. ASSUME NEW p \in placed, p[1][1] = "planet", At(slots["primary"], p[2]).row = p[1],
              NEW b2, b2 = At(slots'["primary"], p[2]), NEW b, b = At(slots["primary"], p[2]),
              b2.what = b.what, p[2] # o => b2.moons = b.moons,
              p[2] = o => /\ Len(b2.moons) = Len(b.moons) + 1
                          /\ (\A i \in DOMAIN b2.moons : ~b2.moons[i].ring) => \A i \in DOMAIN b.moons : ~b.moons[i].ring
       PROVE  MoonsOfRow(p)'
  <2>1. MoonsOfRow(p)
    BY <1>1, <1>17 DEF MoonsInv
  <2>2. PICK n, u : n = asked.planets[p[1][2]].moons /\ u = p[2]
    OBVIOUS
  <2>3. /\ b.what = "World" /\ p[1][2] \in DOMAIN asked.planets
        /\ n # Open /\ (\A i \in DOMAIN b.moons : ~b.moons[i].ring)
             => Len(b.moons) = Max({n - Own(u, Len(asked.moons)), 0}) + Own(u, c)
    BY <1>14, <1>17, <2>1, <2>2 DEF MoonsOfRow
  <2>4. ASSUME n # Open, \A i \in DOMAIN b2.moons : ~b2.moons[i].ring
        PROVE  Len(b2.moons) = Max({n - Own(u, Len(asked.moons)), 0}) + Own(u, c + 1)
    <3>1. \A i \in DOMAIN b.moons : ~b.moons[i].ring
      BY <1>17, <2>2, <2>4
    <3>2. PICK m, own : m = Max({n - Own(u, Len(asked.moons)), 0}) /\ own = Own(u, c)
      OBVIOUS
    <3>3. Len(b.moons) = m + own
      BY <2>3, <2>4, <3>1, <3>2
    <3>4. own \in Nat
      BY <3>2, OwnIs
    <3>5. m \in Int
      <4>1. PICK full \in Nat : full = Own(u, Len(asked.moons))
        BY OwnIs
      <4>2. n \in Nat
        <5>1. asked.planets \in Seq([orbit : Number, moons : Number, solid : BOOLEAN])
          BY <1>1, OrbitsAssumption DEF TypeInv
        <5> DEFINE T == [orbit : Number, moons : Number, solid : BOOLEAN]
        <5>3. \A x \in T : x.moons \in Number
          OBVIOUS
        <5>4. asked.planets \in Seq(T)
          BY <5>1
        <5> HIDE DEF T
        <5>5. asked.planets[p[1][2]] \in T
          BY <2>3, <5>4
        <5>2. n \in Number
          BY <2>2, <5>3, <5>5
        <5> QED BY <2>4, <5>2 DEF Number
      <4>3. PICK d \in Int : d = n - full
        BY <4>2
      <4>4. m = Max({d, 0})
        BY <3>2, <4>1, <4>3
      <4> QED BY <4>4, MaxOfTwo
    <3>6. CASE u = o
      BY <1>15, <1>17, <2>2, <3>2, <3>3, <3>4, <3>5, <3>6
    <3>7. CASE u # o
      BY <1>15, <1>17, <2>2, <3>2, <3>3, <3>4, <3>5, <3>7
    <3> QED BY <3>6, <3>7
  <2> QED BY <1>5, <1>16, <1>17, <2>2, <2>3, <2>4 DEF MoonsOfRow
<1>18. SlotsMade(slots') /\ MainInv' /\ RowsInv' /\ MoonsInv'
  <2>1. CASE old.what \in Bodies
    <3>1. PICK r \in MoonRolls : Only(Put(Mine, {o}, [old EXCEPT !.moons = AddMoon(@, r, FALSE)]))
      BY <1>12, <1>13, <2>1
    <3>2. PICK body : body = [old EXCEPT !.moons = AddMoon(@, r, FALSE)]
      OBVIOUS
    <3>3. /\ Mooned(old, body) /\ Len(body.moons) = Len(old.moons) + 1
          /\ (\A i \in DOMAIN body.moons : ~body.moons[i].ring) => \A i \in DOMAIN old.moons : ~old.moons[i].ring
      <4>1. RowAdds(old, body)
        BY <1>10, <3>2, RowMoon, Zenon
      <4> QED BY <4>1 DEF RowAdds
    <3>4. PICK os : os = {o}
      OBVIOUS
    <3>5. os \subseteq Nat /\ IsFiniteSet(os) /\ body \in BodyType
      BY <3>3, <3>4, FS_Singleton DEF Mooned, WellMade
    <3>6. slots' = [slots EXCEPT ![s] = Put(slots[s], os, body)]
      BY <1>1, <1>2, <1>10, <3>1, <3>2, <3>4 DEF Only
    <3>7. Receives(slots, slots', s, os, body)
      BY <1>10, <3>5, <3>6, PutBecomes
    <3>8. Receives(slots, slots', s, {o}, body)
      BY <3>4, <3>7
    <3>9. /\ SlotsMade(slots') /\ MainInv' /\ RowsInv'
          /\ \A p \in placed : ~(s = "primary" /\ p[2] = o)
                               => At(slots'["primary"], p[2]) = At(slots["primary"], p[2])
      BY <1>5, <1>9, <1>14, <3>3, <3>8, MoonPutKeeps
    <3>10. ASSUME NEW p \in placed, p[1][1] = "planet", At(slots'["primary"], p[2]).row = p[1]
           PROVE  MoonsOfRow(p)'
      <4>1. CASE p[2] = o
        <5>1. At(slots'["primary"], p[2]) = body /\ At(slots["primary"], p[2]) = old
          BY <1>2, <1>9, <3>8, <4>1 DEF Receives
        <5>2. body.row = old.row /\ body.what = old.what
          BY <3>3 DEF Mooned
        <5> QED BY <1>17, <3>3, <3>10, <4>1, <5>1, <5>2
      <4>2. CASE p[2] # o
        BY <1>17, <3>9, <3>10, <4>2
      <4> QED BY <4>1, <4>2
    <3>11. MoonsInv'
      BY <1>5, <3>10 DEF MoonsInv
    <3> QED BY <3>9, <3>11
  <2>2. CASE old.what \notin Bodies
    <3>1. slots' = slots
      BY <1>13, <2>2
    <3>2. SlotsMade(slots') /\ MainInv' /\ RowsInv'
      BY <1>5, <1>14, <3>1, Unmoved
    <3>3. ASSUME NEW p \in placed, p[1][1] = "planet", At(slots'["primary"], p[2]).row = p[1]
          PROVE  MoonsOfRow(p)'
      <4>1. p[2] # o
        <5> SUFFICES ASSUME p[2] = o PROVE FALSE
          OBVIOUS
        <5>1. At(slots["primary"], p[2]) = old
          BY <1>2, <1>9
        <5>2. MoonsOfRow(p)
          BY <1>1, <3>1, <3>3 DEF MoonsInv
        <5>3. old.what = "World"
          BY <5>1, <5>2 DEF MoonsOfRow
        <5> QED BY <2>2, <5>3 DEF Bodies
      <4> QED BY <1>17, <3>1, <3>3, <4>1
    <3>4. MoonsInv'
      BY <1>5, <3>3 DEF MoonsInv
    <3> QED BY <3>2, <3>4
  <2> QED BY <2>1, <2>2
<1>19. TypeInv'
  <2>1. at'.star \in StarNames /\ at'.phase # "placing giants"
    BY <1>4 DEF StarNames
  <2>2. PICK d \in Nat : d = c + 1
    OBVIOUS
  <2>3. at'.count \in Nat
    BY <1>4, <2>2, Zenon
  <2> QED BY <1>1, <1>4, <1>5, <1>18, <2>1, <2>3, TypesStay DEF TypeInv
<1> QED BY <1>18, <1>19 DEF OrbitsInv

-----------------------------------------------------------------------------
\* What a row placed is only ever replaced as RowsStand says.
Kind(b, c) == c.row = b.row /\ c.what = b.what
GiantHeld(b) == b.what = "Giant" \/ (b.what = "World" /\ b.row = Rolled) \/ (b.row = Main /\ crowded)
StandsInv ==
  /\ \A p \in placed : At(slots["primary"], p[2]).row = Main => GivesWay(p)
  /\ \A p \in placed : LET b == At(slots["primary"], p[2]) IN
       b.row = p[1] => p[1][1] = "empty" \/ b.what = "World"
  /\ giantsPlaced \subseteq Nat
  /\ \A o \in giantsPlaced : GiantHeld(At(slots["primary"], o))
  /\ Unplaced(at) => giantsPlaced = {}

\* The primary's orbits after bodies were put about the star at hand.
LEMMA PrimaryAfter ==
  ASSUME TypeInv, NEW os, os \subseteq Nat, IsFiniteSet(os), NEW body \in BodyType, Only(Put(Mine, os, body))
  PROVE  \A u \in Nat : At(slots'["primary"], u) =
           IF at.star = "primary" /\ u \in os THEN body ELSE At(slots["primary"], u)
<1>1. PICK s \in StarNames, t \in StarNames : s = at.star /\ t = "primary"
  BY DEF TypeInv, StarNames
<1>2. slots \in [StarNames -> Seq(BodyType)]
  BY DEF TypeInv, SlotsMade
<1>3. slots' = [slots EXCEPT ![s] = Put(slots[s], os, body)]
  BY <1>1 DEF Only, Mine
<1>4. Receives(slots, slots', s, os, body)
  BY <1>2, <1>3, PutBecomes
<1> QED BY <1>1, <1>4 DEF Receives

LEMMA FreeSite ==
  ASSUME TypeInv, NEW o \in Unused(Mine)
  PROVE  o \in Nat /\ IsFiniteSet({o}) /\ {o} \subseteq Nat /\ At(slots[at.star], o) = Free
<1>1. PICK s \in StarNames : s = at.star
  BY DEF TypeInv
<1>2. o \in Unused(slots[s])
  BY <1>1 DEF Mine
<1>3. o \in Nat /\ At(slots[s], o) = Free
  BY <1>2, FreeOrbit
<1> QED BY <1>1, <1>3, FS_Singleton

\* What rows hold is not free.
LEMMA HeldNotFree ==
  ASSUME RowsInv, StandsInv
  PROVE  /\ \A p \in placed : p[2] \in Nat /\ At(slots["primary"], p[2]) # Free
         /\ \A o \in giantsPlaced : o \in Nat /\ At(slots["primary"], o) # Free
<1>1. ASSUME NEW p \in placed PROVE p[2] \in Nat /\ At(slots["primary"], p[2]) # Free
  BY FreeMade DEF RowsInv
<1>2. ASSUME NEW o \in giantsPlaced PROVE o \in Nat /\ At(slots["primary"], o) # Free
  BY FreeMade DEF StandsInv, GiantHeld
<1> QED BY <1>1, <1>2

LEMMA StandsKept ==
  ASSUME RowsInv, StandsInv, asked' = asked, zones' = zones, placed' = placed, giantsPlaced' = giantsPlaced,
         crowded' = crowded, Unplaced(at') => Unplaced(at),
         \A u \in Nat : At(slots["primary"], u) # Free => Kind(At(slots["primary"], u), At(slots'["primary"], u))
  PROVE  StandsInv'
<1>1. ASSUME NEW p \in placed, NEW b, b = At(slots'["primary"], p[2])
      PROVE  /\ b.row = Main => GivesWay(p)'
             /\ b.row = p[1] => p[1][1] = "empty" \/ b.what = "World"
  <2>1. Kind(At(slots["primary"], p[2]), b)
    BY <1>1, HeldNotFree
  <2>2. GivesWay(p)' <=> GivesWay(p)
    BY DEF GivesWay, RequiresHabitable, Habitable
  <2> QED BY <2>1, <2>2 DEF Kind, StandsInv
<1>2. ASSUME NEW o \in giantsPlaced, NEW b, b = At(slots'["primary"], o) PROVE GiantHeld(b)'
  <2>1. Kind(At(slots["primary"], o), b)
    BY <1>2, HeldNotFree
  <2>2. GiantHeld(At(slots["primary"], o))
    BY DEF StandsInv
  <2> QED BY <1>2, <2>1, <2>2 DEF Kind, GiantHeld
<1>3. \A o \in giantsPlaced : GiantHeld(At(slots["primary"], o))'
  BY <1>2 DEF GiantHeld
<1> QED BY <1>1, <1>3 DEF StandsInv, Unplaced

\* Before the main world is placed nothing has given way to it.
LEMMA EarlyStands ==
  ASSUME OrbitsInv', Early(at'),
         \A p \in placed' : p[1][1] = "empty" \/ At(slots'["primary"], p[2]).what = "World",
         giantsPlaced' \subseteq Nat,
         \A o \in giantsPlaced' : LET b == At(slots'["primary"], o) IN
           b.what = "Giant" \/ (b.what = "World" /\ b.row = Rolled),
         Unplaced(at') => giantsPlaced' = {}
  PROVE  StandsInv'
<1>1. NothingYet(slots')
  BY DEF OrbitsInv, MainInv, Early, NothingYet
<1>2. ASSUME NEW p \in placed' PROVE At(slots'["primary"], p[2]).row # Main
  <2>1. p[2] \in Nat
    BY DEF OrbitsInv, RowsInv
  <2> QED BY <1>1, <2>1, Zero DEF NothingYet, Unmarked, IsMain
<1>3. \A o \in giantsPlaced' : GiantHeld(At(slots["primary"], o))'
  BY DEF GiantHeld
<1> QED BY <1>2, <1>3 DEF StandsInv, Unplaced

\* The steps before the rows.
LEMMA BeforeRows ==
  ASSUME OrbitsInv, StandsInv, OrbitsInv', Unplaced(at), Early(at'), giantsPlaced' = giantsPlaced,
         \A p \in placed' : p[1][1] = "empty" \/ p \in placed
  PROVE  StandsInv'
<1>1. giantsPlaced' = {} /\ placed = {}
  BY DEF StandsInv, OrbitsInv, RowsInv
<1> QED BY <1>1, EarlyStands

LEMMA EarlyRows ==
  ASSUME RowsInv, StandsInv, NothingYet(slots)
  PROVE  /\ \A p \in placed : /\ p[2] \in Nat /\ At(slots["primary"], p[2]) # Free
                              /\ p[1][1] = "empty" \/ At(slots["primary"], p[2]).what = "World"
         /\ \A o \in giantsPlaced : /\ o \in Nat /\ At(slots["primary"], o) # Free
                                    /\ LET b == At(slots["primary"], o) IN
                                         b.what = "Giant" \/ (b.what = "World" /\ b.row = Rolled)
<1>1. ASSUME NEW p \in placed PROVE p[1][1] = "empty" \/ At(slots["primary"], p[2]).what = "World"
  <2>1. p[2] \in Nat /\ At(slots["primary"], p[2]).row \in {p[1], Main}
    BY DEF RowsInv
  <2>2. At(slots["primary"], p[2]).row = p[1]
    BY <2>1, Zero DEF NothingYet, Unmarked, IsMain
  <2> QED BY <2>2 DEF StandsInv
<1>2. ASSUME NEW o \in giantsPlaced
      PROVE  LET b == At(slots["primary"], o) IN b.what = "Giant" \/ (b.what = "World" /\ b.row = Rolled)
  <2>1. o \in Nat
    BY DEF StandsInv
  <2>2. At(slots["primary"], o).row # Main
    BY <2>1, Zero DEF NothingYet, Unmarked, IsMain
  <2> QED BY <2>2 DEF StandsInv, GiantHeld
<1> QED BY <1>1, <1>2, HeldNotFree

LEMMA PlaceEmptiesStands == ASSUME OrbitsInv, StandsInv, OrbitsInv', PlaceEmpties PROVE StandsInv'
<1>1. Unplaced(at) /\ giantsPlaced' = giantsPlaced
  BY DEF PlaceEmpties, Unplaced
<1>2. at'.star = "primary" /\ at'.phase = "planets"
  BY DEF PlaceEmpties, Where
<1>3. Early(at')
  BY <1>2 DEF Early
<1>4. \A p \in placed' : p[1][1] = "empty"
  BY DEF PlaceEmpties
<1> QED BY <1>1, <1>3, <1>4, BeforeRows

LEMMA PlaceRowStands ==
  ASSUME OrbitsInv, StandsInv, OrbitsInv', NEW list, RowTyped(list), NEW what \in {"planet", "belt"},
         NEW then \in {"belts", "giants"}, PlaceRow(list, what, then), at.phase \in {"planets", "belts"}, giantsPlaced' = giantsPlaced
  PROVE  StandsInv'
<1>1. TypeInv /\ MainInv /\ RowsInv /\ at.star = "primary"
  BY DEF OrbitsInv, TypeInv
<1>2. NothingYet(slots)
  BY <1>1 DEF MainInv, Early
<1>3. at'.star = "primary" /\ at'.phase \in {"planets", "belts", "giants"}
  BY DEF PlaceRow, Where
<1>4. Early(at') /\ ~Unplaced(at')
  BY <1>3 DEF Early, Unplaced
<1>5. \A p \in placed : p[1][1] = "empty" \/ At(slots["primary"], p[2]).what = "World"
  BY <1>1, <1>2, EarlyRows
<1>6. \A o \in giantsPlaced : LET b == At(slots["primary"], o) IN
        b.what = "Giant" \/ (b.what = "World" /\ b.row = Rolled)
  BY <1>1, <1>2, EarlyRows
<1>7. giantsPlaced \subseteq Nat
  BY DEF StandsInv
<1>8. CASE slots' = slots /\ placed' = placed
  BY <1>4, <1>5, <1>6, <1>7, <1>8, EarlyStands
<1>9. ASSUME NEW o \in Unused(Mine), NEW body, body.what = "World", body \in BodyType,
             Only(Put(Mine, {o}, body)), placed' \subseteq placed \cup {<<<<what, at.count + 1>>, o>>}
      PROVE  StandsInv'
  <2>1. o \in Nat /\ IsFiniteSet({o}) /\ {o} \subseteq Nat /\ At(slots["primary"], o) = Free
    BY <1>1, FreeSite
  <2>2. \A u \in Nat : At(slots'["primary"], u) = IF u = o THEN body ELSE At(slots["primary"], u)
    BY <1>1, <1>9, <2>1, PrimaryAfter
  <2>3. \A p \in placed' : p[1][1] = "empty" \/ At(slots'["primary"], p[2]).what = "World"
    <3>1. ASSUME NEW p \in placed PROVE p[1][1] = "empty" \/ At(slots'["primary"], p[2]).what = "World"
      <4>1. p[2] \in Nat /\ p[2] # o
        BY <1>1, <2>1, HeldNotFree
      <4> QED BY <1>5, <2>2, <4>1
    <3>2. ASSUME NEW p, p = <<<<what, at.count + 1>>, o>> PROVE At(slots'["primary"], p[2]).what = "World"
      <4>1. p[2] = o
        BY <3>2
      <4> QED BY <1>9, <2>1, <2>2, <4>1
    <3> QED BY <1>9, <3>1, <3>2
  <2>4. \A u \in giantsPlaced' : At(slots'["primary"], u) = At(slots["primary"], u)
    BY <1>1, <2>1, <2>2, HeldNotFree
  <2> QED BY <1>4, <1>6, <1>7, <2>3, <2>4, EarlyStands
<1>10. PICK i, os : /\ i = at.count + 1
                    /\ os = IF list[i].orbit = Open THEN Unused(Mine) ELSE Unused(Mine) \cap {list[i].orbit}
  OBVIOUS
<1>11. \/ slots' = slots /\ placed' = placed
       \/ /\ i <= Len(list) /\ os # {} /\ Only(Put(Mine, {Min(os)}, Body("World", <<what, i>>, list[i].solid)))
          /\ placed' = placed \cup {<<<<what, i>>, Min(os)>>}
  BY <1>10 DEF PlaceRow
<1>12. CASE /\ i <= Len(list) /\ os # {} /\ Only(Put(Mine, {Min(os)}, Body("World", <<what, i>>, list[i].solid)))
            /\ placed' = placed \cup {<<<<what, i>>, Min(os)>>}
  <2>1. PICK o, body : o = Min(os) /\ body = Body("World", <<what, i>>, list[i].solid)
    OBVIOUS
  <2>2. body.what = "World"
    BY <2>1 DEF Body
  <2>3. os \subseteq Unused(Mine) /\ Unused(Mine) \subseteq Nat
    <3>1. \A u \in Unused(Mine) : u \in Nat
      BY <1>1, FreeSite
    <3> QED BY <1>10, <3>1
  <2>4. o \in Unused(Mine)
    BY <1>12, <2>1, <2>3, MinOfSet
  <2>5. body \in BodyType
    <3>1. PICK n \in Nat : n = Len(list)
      BY DEF RowTyped
    <3>8. PICK c \in Nat : c = at.count
      BY <1>1 DEF TypeInv
    <3>9. i = c + 1 /\ i <= n
      BY <1>10, <1>12, <3>1, <3>8
    <3>10. i \in Nat
      BY <3>8, <3>9
    <3>2. i \in 1 .. n
      BY <3>1, <3>8, <3>9
    <3>3. PICK row : row = list[i]
      OBVIOUS
    <3>4. row.solid \in BOOLEAN
      <4> DEFINE T == [orbit : Number, moons : Number, solid : BOOLEAN]
      <4>1. \A x \in T : x.solid \in BOOLEAN
        OBVIOUS
      <4>2. list \in Seq(T)
        BY DEF RowTyped
      <4> HIDE DEF T
      <4>3. row \in T
        BY <3>1, <3>2, <3>3, <4>2
      <4> QED BY <4>1, <4>3
    <3>11. PICK b \in BOOLEAN : b = row.solid
      BY <3>4
    <3>5. PICK r, w : r = <<what, i>> /\ w = "World"
      OBVIOUS
    <3>6. r \in RowType /\ w \in Whats
      <4>1. what \in {"rolled", "main", "empty", "planet", "belt"}
        OBVIOUS
      <4>2. <<what, i>> \in RowType
        BY <3>10, <4>1 DEF RowType
      <4>3. w \in Whats
        BY <3>5 DEF Whats
      <4> QED BY <3>5, <4>2, <4>3
    <3>7. Body(w, r, b) \in BodyType
      BY <3>6, <3>11, NewBody
    <3> QED BY <2>1, <3>3, <3>5, <3>7, <3>11
  <2> QED BY <1>9, <1>10, <1>12, <2>1, <2>2, <2>4, <2>5
<1> QED BY <1>8, <1>11, <1>12

LEMMA PlaceGiantStands == ASSUME OrbitsInv, StandsInv, OrbitsInv', PlaceGiant PROVE StandsInv'
<1>1. TypeInv /\ MainInv /\ RowsInv /\ at.phase = "placing giants"
  BY DEF OrbitsInv, PlaceGiant
<1>2. PICK body : body = Body("Giant", Rolled, TRUE)
  OBVIOUS
<1> DEFINE free  == Unused(Mine)
           outer == {o \in free : o > zones[at.star].habitable}
           done  == Cardinality({o \in DOMAIN Mine : Mine[o].what = "Giant"}) + 1
           row   == IF at.star = "primary" /\ done <= Len(asked.giants) THEN asked.giants[done]
                    ELSE [orbit |-> Open, moons |-> Open]
<1>3. PICK o : /\ o \in (IF row.orbit \in free THEN {row.orbit} ELSE IF outer # {} THEN outer ELSE free)
               /\ Only(Put(Mine, {o}, body))
               /\ giantsPlaced' = IF at.star = "primary" /\ done <= Len(asked.giants) THEN giantsPlaced \cup {o}
                                  ELSE giantsPlaced
  BY <1>2 DEF PlaceGiant
<1>4. o \in Unused(Mine)
  <2> HIDE DEF row, done
  <2> QED BY <1>3
<1> HIDE DEF row, done, outer, free
<1>5. body \in BodyType /\ body.what = "Giant"
  <2>1. PICK b, r, w : b = TRUE /\ r = Rolled /\ w = "Giant"
    OBVIOUS
  <2>2. w \in Whats /\ r \in RowType
    BY <2>1, FreeIsBody DEF Whats
  <2>3. Body(w, r, b) \in BodyType
    BY <2>1, <2>2, NewBody
  <2> QED BY <1>2, <2>1, <2>3 DEF Body
<1>6. o \in Nat /\ IsFiniteSet({o}) /\ {o} \subseteq Nat /\ At(slots[at.star], o) = Free
  BY <1>1, <1>4, FreeSite
<1>7. \A u \in Nat : At(slots'["primary"], u) =
        IF at.star = "primary" /\ u \in {o} THEN body ELSE At(slots["primary"], u)
  BY <1>1, <1>3, <1>5, <1>6, PrimaryAfter
<1>8. /\ placed' = placed /\ asked' = asked /\ zones' = zones /\ crowded' = crowded
      /\ at'.star = at.star /\ at'.phase = "placing giants"
  BY <1>1 DEF PlaceGiant, Still, Else, Where
<1>9. CASE at.star = "primary"
  <2>1. Early(at') /\ NothingYet(slots) /\ ~Unplaced(at')
    BY <1>1, <1>8, <1>9 DEF MainInv, Early, Unplaced
  <2>2. \A p \in placed' : p[1][1] = "empty" \/ At(slots'["primary"], p[2]).what = "World"
    BY <1>1, <1>6, <1>7, <1>8, <1>9, <2>1, EarlyRows
  <2>3. \A u \in giantsPlaced' : u \in Nat /\ LET b == At(slots'["primary"], u) IN
          b.what = "Giant" \/ (b.what = "World" /\ b.row = Rolled)
    <3>1. ASSUME NEW u \in giantsPlaced'
          PROVE  u \in Nat /\ LET b == At(slots'["primary"], u) IN
                   b.what = "Giant" \/ (b.what = "World" /\ b.row = Rolled)
      <4>1. CASE u = o
        BY <1>5, <1>6, <1>7, <1>9, <4>1
      <4>2. CASE u # o
        <5>1. u \in giantsPlaced
          BY <1>3, <4>2
        <5> QED BY <1>1, <1>7, <2>1, <4>2, <5>1, EarlyRows
      <4> QED BY <4>1, <4>2
    <3> QED BY <3>1
  <2> QED BY <2>1, <2>2, <2>3, EarlyStands
<1>10. CASE at.star # "primary"
  <2>1. giantsPlaced' = giantsPlaced /\ \A u \in Nat : At(slots'["primary"], u) = At(slots["primary"], u)
    BY <1>3, <1>7, <1>10
  <2>2. Unplaced(at') => Unplaced(at)
    BY <1>8 DEF Unplaced
  <2> QED BY <1>1, <1>8, <2>1, <2>2, StandsKept DEF Kind
<1> QED BY <1>9, <1>10

LEMMA PlaceBeltStands == ASSUME OrbitsInv, StandsInv, OrbitsInv', PlaceBelt PROVE StandsInv'
<1>1. TypeInv /\ MainInv /\ RowsInv /\ at.phase = "planetoids"
  BY DEF OrbitsInv, PlaceBelt
<1>2. PICK body : body = Body("World", Rolled, FALSE)
  OBVIOUS
<1>3. PICK o \in Sites : Only(Put(Mine, {o}, body))
  BY <1>2 DEF PlaceBelt
<1>4. body \in BodyType /\ body.what = "World" /\ body.row = Rolled
  <2>1. PICK b, r, w : b = FALSE /\ r = Rolled /\ w = "World"
    OBVIOUS
  <2>2. w \in Whats /\ r \in RowType
    BY <2>1, FreeIsBody DEF Whats
  <2>3. Body(w, r, b) \in BodyType
    BY <2>1, <2>2, NewBody
  <2> QED BY <1>2, <2>1, <2>3 DEF Body
<1>5. o \in Nat /\ (At(Mine, o).what = "Giant" \/ At(Mine, o) = Free)
  <2>1. PICK s \in StarNames : s = at.star
    BY <1>1 DEF TypeInv
  <2>2. Mine \in Seq(BodyType)
    BY <1>1, <2>1 DEF TypeInv, SlotsMade, Mine
  <2>3. Len(Mine) \in Nat
    BY <2>2
  <2> QED BY <1>3, <2>3 DEF Sites, Unused
<1>6. IsFiniteSet({o}) /\ {o} \subseteq Nat
  BY <1>5, FS_Singleton
<1>7. \A u \in Nat : At(slots'["primary"], u) =
        IF at.star = "primary" /\ u \in {o} THEN body ELSE At(slots["primary"], u)
  BY <1>1, <1>3, <1>4, <1>6, PrimaryAfter
<1>8. /\ placed' = placed /\ asked' = asked /\ zones' = zones /\ crowded' = crowded
      /\ giantsPlaced' = giantsPlaced /\ at'.star = at.star /\ at'.phase = "planetoids"
  BY <1>1 DEF PlaceBelt, Still, Else, Where
<1>9. CASE at.star = "primary"
  <2>1. Early(at') /\ NothingYet(slots) /\ ~Unplaced(at')
    BY <1>1, <1>8, <1>9 DEF MainInv, Early, Unplaced
  <2>2. \A p \in placed' : p[1][1] = "empty" \/ At(slots'["primary"], p[2]).what = "World"
    <3>1. ASSUME NEW p \in placed PROVE p[1][1] = "empty" \/ At(slots'["primary"], p[2]).what = "World"
      <4>1. p[2] \in Nat /\ (p[1][1] = "empty" \/ At(slots["primary"], p[2]).what = "World")
        BY <1>1, <2>1, EarlyRows
      <4> QED BY <1>4, <1>7, <4>1
    <3> QED BY <1>8, <3>1
  <2>3. \A u \in giantsPlaced' : u \in Nat /\ LET b == At(slots'["primary"], u) IN
          b.what = "Giant" \/ (b.what = "World" /\ b.row = Rolled)
    BY <1>1, <1>4, <1>7, <1>8, <2>1, EarlyRows
  <2> QED BY <2>1, <2>2, <2>3, EarlyStands
<1>10. CASE at.star # "primary"
  <2>1. \A u \in Nat : At(slots'["primary"], u) = At(slots["primary"], u)
    BY <1>7, <1>10
  <2>2. Unplaced(at') => Unplaced(at)
    BY <1>8 DEF Unplaced
  <2> QED BY <1>1, <1>8, <2>1, <2>2, StandsKept DEF Kind
<1> QED BY <1>9, <1>10

\* The main world is put in orbit o of the primary.
LEMMA MainStands ==
  ASSUME OrbitsInv, StandsInv, NothingYet(slots), NEW o \in Nat, NEW body,
         \A u \in Nat : At(slots'["primary"], u) = IF u = o THEN body ELSE At(slots["primary"], u),
         asked' = asked, zones' = zones, placed' = placed, giantsPlaced' = giantsPlaced, ~Unplaced(at'),
         body.row = Main => \/ At(slots["primary"], o) = Free
                            \/ crowded'
                            \/ /\ RequiresHabitable /\ o = Habitable("primary")
                               /\ At(slots["primary"], o).what \notin {"World", "Giant"},
         body.row = Main \/ Kind(At(slots["primary"], o), body)
  PROVE  StandsInv'
<1>1. RowsInv
  BY DEF OrbitsInv
<1>2. /\ \A p \in placed : /\ p[2] \in Nat /\ At(slots["primary"], p[2]) # Free
                           /\ p[1][1] = "empty" \/ At(slots["primary"], p[2]).what = "World"
      /\ \A u \in giantsPlaced : /\ u \in Nat /\ At(slots["primary"], u) # Free
                                 /\ LET b == At(slots["primary"], u) IN
                                      b.what = "Giant" \/ (b.what = "World" /\ b.row = Rolled)
  BY <1>1, EarlyRows
<1>3. ASSUME NEW p \in placed, NEW b, b = At(slots'["primary"], p[2])
      PROVE  /\ b.row = Main => GivesWay(p)'
             /\ b.row = p[1] => p[1][1] = "empty" \/ b.what = "World"
  <2>1. At(slots["primary"], p[2]).row # Main /\ p[1] # Main
    BY <1>1, <1>2, Zero DEF NothingYet, Unmarked, IsMain, RowsInv
  <2>2. CASE p[2] # o
    BY <1>2, <1>3, <2>1, <2>2
  <2>3. CASE p[2] = o
    <3>1. b = body
      BY <1>2, <1>3, <2>3
    <3>2. CASE body.row = Main
      <4>1. \/ crowded'
            \/ RequiresHabitable /\ o = Habitable("primary") /\ p[1][1] = "empty"
        BY <1>2, <2>3, <3>2
      <4>2. GivesWay(p)'
        BY <2>3, <4>1 DEF GivesWay, RequiresHabitable, Habitable
      <4> QED BY <2>1, <3>1, <3>2, <4>2
    <3>3. CASE body.row # Main
      BY <1>2, <2>3, <3>1, <3>3 DEF Kind
    <3> QED BY <3>2, <3>3
  <2> QED BY <2>2, <2>3
<1>4. ASSUME NEW u \in giantsPlaced, NEW b, b = At(slots'["primary"], u)
      PROVE  b.what = "Giant" \/ (b.what = "World" /\ b.row = Rolled) \/ (b.row = Main /\ crowded')
  <2>1. CASE u # o
    BY <1>2, <1>4, <2>1
  <2>2. CASE u = o
    <3>1. b = body
      BY <1>2, <1>4, <2>2
    <3> QED BY <1>2, <2>2, <3>1 DEF Kind
  <2> QED BY <2>1, <2>2
<1>5. \A u \in giantsPlaced' : GiantHeld(At(slots["primary"], u))'
  BY <1>4 DEF GiantHeld
<1>6. giantsPlaced' \subseteq Nat
  BY DEF StandsInv
<1> QED BY <1>3, <1>5, <1>6 DEF StandsInv, Unplaced

LEMMA PlaceMainStands == ASSUME OrbitsInv, StandsInv, PlaceMain PROVE StandsInv'
<1>1. TypeInv /\ MainInv /\ RowsInv /\ at.phase = "main world" /\ at.star = "primary"
  BY DEF OrbitsInv, TypeInv, PlaceMain
<1>2. NothingYet(slots) /\ slots \in [StarNames -> Seq(BodyType)]
  BY <1>1 DEF MainInv, Early, TypeInv, SlotsMade
<1>3. /\ asked' = asked /\ zones' = zones /\ placed' = placed /\ giantsPlaced' = giantsPlaced
      /\ crowded' = (Unused(slots["primary"]) = {})
      /\ at'.star = "primary" /\ at'.phase = "filling"
  BY DEF PlaceMain, Still, Else, Where
<1>4. ~Unplaced(at')
  BY <1>3 DEF Unplaced
<1>5. PICK there : there = At(Mine, Habitable("primary")).what
  OBVIOUS
<1>6. PICK s : s = IF RequiresHabitable /\ there \in Range(Stars) THEN there ELSE "primary"
  OBVIOUS
<1>7. s \in StarNames
  BY <1>6, StarsAre DEF StarNames
<1>8. PICK seq : seq = slots[s]
  OBVIOUS
<1>9. PICK new : /\ new \in (IF RequiresHabitable THEN MainHabitable(seq, Habitable(s)) ELSE MainAnywhere(s, seq))
                 /\ slots' = [slots EXCEPT ![s] = new]
  BY <1>5, <1>6, <1>8 DEF PlaceMain
<1>10. PICK prim \in StarNames : prim = "primary"
  BY DEF StarNames
<1>11. CASE s # "primary"
  <2>1. slots'["primary"] = slots["primary"]
    BY <1>2, <1>7, <1>9, <1>10, <1>11
  <2>0. PICK o \in Nat : o = 0
    BY Zero
  <2>2. PICK body : body = At(slots["primary"], o)
    OBVIOUS
  <2>3. body.row # Main
    BY <1>2, <2>0, <2>2, Zero DEF NothingYet, Unmarked, IsMain
  <2>4. \A u \in Nat : At(slots'["primary"], u) = IF u = o THEN body ELSE At(slots["primary"], u)
    BY <2>1, <2>2
  <2>5. Kind(At(slots["primary"], o), body)
    BY <2>2 DEF Kind
  <2> QED BY <1>2, <1>3, <1>4, <2>3, <2>4, <2>5, MainStands
<1>12. CASE s = "primary"
  <2>1. seq = slots["primary"] /\ seq \in Seq(BodyType) /\ Len(seq) \in Nat /\ slots'["primary"] = new
    BY <1>2, <1>7, <1>8, <1>9, <1>10, <1>12
  <2>2. PICK h : h = Habitable("primary")
    OBVIOUS
  <2>3. h \in Nat
    <3>1. PICK z : z = zones["primary"]
      OBVIOUS
    <3>2. z \in ZoneTables
      BY <1>1, <1>10, <3>1 DEF TypeInv
    <3> QED BY <2>2, <3>1, <3>2, HabitableIs DEF Habitable
  <2>4. PICK body : body = MainBody
    OBVIOUS
  <2>5. body \in BodyType /\ body.row = Main
    <3>1. PICK b \in BOOLEAN : b = asked.main.solid
      BY <1>1, OrbitsAssumption DEF TypeInv
    <3>2. PICK r, w : r = Main /\ w = "World"
      OBVIOUS
    <3>3. w \in Whats /\ r \in RowType
      BY <3>2, FreeIsBody DEF Whats
    <3>4. Body(w, r, b) \in BodyType
      BY <3>3, NewBody
    <3> QED BY <2>4, <3>1, <3>2, <3>4 DEF MainBody, Body
  <2>6. ASSUME NEW o \in Nat, NEW b \in BodyType, new = Put(seq, {o}, b)
        PROVE  \A u \in Nat : At(slots'["primary"], u) = IF u = o THEN b ELSE At(slots["primary"], u)
    <3>1. PICK os : os = {o}
      OBVIOUS
    <3>2. os \subseteq Nat /\ IsFiniteSet(os)
      BY <3>1, FS_Singleton
    <3>3. PutIn(seq, Put(seq, os, b), os, b)
      BY <2>1, <3>2, PutAt, Zenon
    <3> QED BY <2>1, <2>6, <3>1, <3>3 DEF PutIn
  <2>7. \A o \in Unused(seq) : o \in Nat /\ At(slots["primary"], o) = Free
    BY <2>1 DEF Unused
  <2>8. ASSUME NEW o \in Nat, new = Put(seq, {o}, body),
               \/ o \in Unused(seq) \/ Unused(seq) = {}
               \/ /\ RequiresHabitable /\ o = Habitable("primary")
                  /\ At(slots["primary"], o).what \notin {"World", "Giant"}
        PROVE  StandsInv'
    <3>1. \A u \in Nat : At(slots'["primary"], u) = IF u = o THEN body ELSE At(slots["primary"], u)
      BY <2>5, <2>6, <2>8
    <3> QED BY <1>2, <1>3, <1>4, <2>1, <2>5, <2>7, <2>8, <3>1, MainStands
  <2>9. CASE ~RequiresHabitable
    <3>1. PICK o \in (IF Unused(seq) # {} THEN Unused(seq) ELSE 0..Max({Len(seq) - 1, 0})) : new = Put(seq, {o}, body)
      BY <1>9, <2>4, <2>9 DEF MainAnywhere
    <3>2. o \in Nat /\ (o \in Unused(seq) \/ Unused(seq) = {})
      <4>1. CASE Unused(seq) # {}
        BY <2>7, <3>1, <4>1
      <4>2. CASE Unused(seq) = {}
        BY <3>1, <4>2
      <4> QED BY <4>1, <4>2
    <3> QED BY <2>8, <3>1, <3>2
  <2>10. CASE RequiresHabitable
    <3>1. new \in MainHabitable(seq, h)
      BY <1>9, <1>12, <2>2, <2>10
    <3>2. CASE At(seq, h).what = "Giant"
      <4>1. PICK moved \in AsMoon(At(seq, h)) : new = Put(seq, {h}, moved)
        BY <3>1, <3>2 DEF MainHabitable
      <4>2. PICK r \in MoonRolls : moved = WithMain(At(seq, h), r)
        BY <4>1, Zenon DEF AsMoon, WithMain
      <4>3. PICK old : old = At(seq, h)
        OBVIOUS
      <4>4. old \in BodyType
        BY <2>1, <2>3, <4>3, AtBody
      <4>5. PICK more : WithMain(old, r) = [old EXCEPT !.moons = more] /\ OneMore(old.moons, more, r.ring, TRUE)
        BY <4>4, MainMoonAdded, Zenon
      <4>6. more \in Seq(MoonType)
        BY <4>4, <4>5 DEF OneMore, BodyType
      <4>7. moved = [old EXCEPT !.moons = more]
        BY <4>2, <4>3, <4>5, Zenon
      <4>8. moved \in BodyType /\ Kind(old, moved)
        BY <4>4, <4>6, <4>7 DEF BodyType, Kind
      <4>9. \A u \in Nat : At(slots'["primary"], u) = IF u = h THEN moved ELSE At(slots["primary"], u)
        BY <2>3, <2>6, <4>1, <4>8
      <4>10. old.row # Main
        BY <1>2, <2>1, <2>3, <4>3, Zero DEF NothingYet, Unmarked, IsMain
      <4> QED BY <1>2, <1>3, <1>4, <2>1, <2>3, <4>3, <4>8, <4>9, <4>10, MainStands DEF Kind
    <3>3. CASE At(seq, h).what = "World" /\ Unused(seq) # {}
      <4>1. PICK o : o = Min(Unused(seq))
        OBVIOUS
      <4>2. new = Put(seq, {o}, body)
        BY <2>4, <3>1, <3>3, <4>1 DEF MainHabitable
      <4>3. o \in Unused(seq)
        <5>1. Unused(seq) \subseteq Nat
          BY <2>7
        <5> QED BY <3>3, <4>1, <5>1, MinOfSet
      <4> QED BY <2>7, <2>8, <4>2, <4>3
    <3>4. CASE At(seq, h).what # "Giant" /\ ~(At(seq, h).what = "World" /\ Unused(seq) # {})
      <4>1. new = Put(seq, {h}, body)
        BY <2>4, <3>1, <3>4 DEF MainHabitable
      <4> QED BY <2>1, <2>2, <2>3, <2>8, <2>10, <3>4, <4>1
    <3> QED BY <3>2, <3>3, <3>4
  <2> QED BY <2>9, <2>10
<1> QED BY <1>11, <1>12

LEMMA FillStands == ASSUME OrbitsInv, StandsInv, Fill PROVE StandsInv'
<1>1. TypeInv /\ RowsInv /\ at.phase = "filling"
  BY DEF OrbitsInv, Fill
<1>2. PICK s \in StarNames, prim \in StarNames : s = at.star /\ prim = "primary"
  BY <1>1 DEF TypeInv, StarNames
<1>3. PICK seq : seq = slots[s]
  OBVIOUS
<1>4. seq \in Seq(BodyType) /\ Mine = seq /\ slots \in [StarNames -> Seq(BodyType)]
  BY <1>1, <1>2, <1>3 DEF TypeInv, SlotsMade, Mine
<1>5. PICK hot : hot = {o \in 0..zones[at.star].hot : At(Mine, o) = Free}
  OBVIOUS
<1>6. PICK cool, body, os : /\ cool = Put(seq, hot, Blocked) /\ body = Body("World", Rolled, FALSE)
                            /\ os = Unused(cool)
  OBVIOUS
<1>7. PICK full : full = Put(cool, os, body)
  OBVIOUS
<1>8. slots' = [slots EXCEPT ![s] = full]
  BY <1>2, <1>4, <1>5, <1>6, <1>7 DEF Fill, Only
<1>9. hot \subseteq Nat /\ IsFiniteSet(hot) /\ \A u \in hot : At(seq, u) = Free
  <2>1. PICK z : z = zones[at.star]
    OBVIOUS
  <2>2. z \in ZoneTables
    BY <1>1, <2>1 DEF TypeInv
  <2>3. PICK n \in Int : n = z.hot
    BY <2>2, OrbitsAssumption
  <2>4. PICK all : all = 0 .. n
    OBVIOUS
  <2>5. IsFiniteSet(all) /\ all \subseteq Nat
    BY <2>3, <2>4, FS_Interval
  <2>6. hot \in SUBSET all /\ \A u \in hot : At(seq, u) = Free
    BY <1>4, <1>5, <2>1, <2>3, <2>4
  <2> QED BY <2>5, <2>6, FS_Subset
<1>10. Blocked \in BodyType /\ body \in BodyType
  <2>1. PICK b \in BOOLEAN : b = FALSE
    OBVIOUS
  <2>2. PICK r, w : r = Rolled /\ w = "World"
    OBVIOUS
  <2>3. w \in Whats /\ r \in RowType
    BY <2>2, FreeIsBody DEF Whats
  <2>4. Body(w, r, b) \in BodyType
    BY <2>3, NewBody
  <2> QED BY <1>6, <2>1, <2>2, <2>4, FreeIsBody
<1>11. PutIn(seq, cool, hot, Blocked)
  BY <1>4, <1>6, <1>9, <1>10, PutAt, Zenon
<1>12. cool \in Seq(BodyType) /\ \A u \in Nat : At(seq, u) # Free => At(cool, u) = At(seq, u)
  BY <1>9, <1>11 DEF PutIn
<1>13. os \subseteq Nat /\ IsFiniteSet(os) /\ \A u \in os : At(cool, u) = Free
  BY <1>6, <1>12, UnusedAre DEF Unused
<1>14. PutIn(cool, full, os, body)
  BY <1>7, <1>10, <1>12, <1>13, PutAt, Zenon
<1>15. \A u \in Nat : At(cool, u) # Free => At(full, u) = At(cool, u)
  BY <1>13, <1>14 DEF PutIn
<1>16. \A u \in Nat : At(slots["primary"], u) # Free => At(slots'["primary"], u) = At(slots["primary"], u)
  <2>1. CASE s = prim
    BY <1>2, <1>3, <1>4, <1>8, <1>12, <1>15, <2>1
  <2>2. CASE s # prim
    BY <1>2, <1>4, <1>8, <2>2
  <2> QED BY <2>1, <2>2
<1>17. /\ placed' = placed /\ asked' = asked /\ zones' = zones /\ crowded' = crowded
       /\ giantsPlaced' = giantsPlaced /\ at'.phase = "moons"
  BY DEF Fill, Still, Else, Where
<1>18. Unplaced(at') => Unplaced(at)
  BY <1>17 DEF Unplaced
<1> QED BY <1>1, <1>16, <1>17, <1>18, StandsKept DEF Kind

\* Satellites are given to a body that stays what it is.
LEMMA MoonsStand ==
  ASSUME OrbitsInv, StandsInv, NEW o \in Nat, NEW body \in BodyType, Only(Put(Mine, {o}, body)),
         Kind(At(Mine, o), body), asked' = asked, zones' = zones, placed' = placed,
         giantsPlaced' = giantsPlaced, crowded' = crowded, Unplaced(at') => Unplaced(at)
  PROVE  StandsInv'
<1>1. TypeInv /\ RowsInv
  BY DEF OrbitsInv
<1>2. PICK os : os = {o}
  OBVIOUS
<1>3. os \subseteq Nat /\ IsFiniteSet(os) /\ Only(Put(Mine, os, body))
  BY <1>2, FS_Singleton
<1>4. \A u \in Nat : At(slots'["primary"], u) =
        IF at.star = "primary" /\ u \in os THEN body ELSE At(slots["primary"], u)
  BY <1>1, <1>3, PrimaryAfter
<1>5. \A u \in Nat : Kind(At(slots["primary"], u), At(slots'["primary"], u))
  BY <1>2, <1>4 DEF Kind, Mine
<1> QED BY <1>1, <1>5, StandsKept

\* The primary's orbits are left alone.
LEMMA StandsStay ==
  ASSUME OrbitsInv, StandsInv, slots' = slots, asked' = asked, zones' = zones, placed' = placed,
         giantsPlaced' = giantsPlaced, crowded' = crowded, Unplaced(at') => Unplaced(at)
  PROVE  StandsInv'
<1>1. RowsInv /\ \A u \in Nat : Kind(At(slots["primary"], u), At(slots'["primary"], u))
  BY DEF OrbitsInv, Kind
<1> QED BY <1>1, StandsKept

LEMMA MoonsOfStands == ASSUME OrbitsInv, StandsInv, MoonsOf PROVE StandsInv'
<1>1. TypeInv /\ at.phase = "moons"
  BY DEF OrbitsInv, MoonsOf
<1>2. PICK o \in Nat : o = at.count
  BY <1>1 DEF TypeInv
<1>3. /\ placed' = placed /\ asked' = asked /\ zones' = zones /\ crowded' = crowded
      /\ giantsPlaced' = giantsPlaced /\ at'.phase = "moons"
  BY DEF MoonsOf, Still, Else, Where
<1>4. Unplaced(at') => Unplaced(at)
  BY <1>3 DEF Unplaced
<1>5. PICK old : old = At(Mine, o)
  OBVIOUS
<1>6. WellMade(old)
  BY <1>1, <1>5 DEF TypeInv, SlotsMade, Mine
<1>7. CASE slots' = slots
  BY <1>3, <1>4, <1>7, StandsStay
<1>8. CASE /\ old.what \in Bodies
           /\ \E n \in MoonsRolled(o, old) : \E b \in WithMoons(old, Remaining(o, n)) :
                Only(Put(Mine, {o}, [b EXCEPT !.moons = Clean(@)]))
  <2>1. PICK n \in MoonsRolled(o, old) : \E b \in WithMoons(old, Remaining(o, n)) :
                Only(Put(Mine, {o}, [b EXCEPT !.moons = Clean(@)]))
    BY <1>8
  <2>2. PICK r : r = Remaining(o, n)
    OBVIOUS
  <2>3. r \in Nat
    <3>1. old \in BodyType
      BY <1>6 DEF WellMade
    <3>2. n \in Nat
      BY <2>1, <3>1, RolledIs
    <3> QED BY <2>2, <3>2, RemainingIs
  <2>4. PICK b \in WithMoons(old, r) : Only(Put(Mine, {o}, [b EXCEPT !.moons = Clean(@)]))
    BY <2>1, <2>2
  <2>5. PICK new : new = [b EXCEPT !.moons = Clean(@)]
    OBVIOUS
  <2>6. Mooned(old, new)
    BY <1>6, <2>3, <2>4, <2>5, RolledMoons
  <2>7. new \in BodyType /\ Kind(old, new)
    BY <2>6 DEF Mooned, WellMade, Kind
  <2> QED BY <1>3, <1>4, <1>5, <2>4, <2>5, <2>7, MoonsStand
<1> QED BY <1>2, <1>5, <1>7, <1>8 DEF MoonsOf

LEMMA MoonRowStands == ASSUME OrbitsInv, StandsInv, OrbitsInv', MoonRow PROVE StandsInv'
<1>1. TypeInv /\ at.phase = "moon rows" /\ at.star = "primary" /\ at.count < Len(asked.moons)
  BY DEF OrbitsInv, TypeInv, MoonRow
<1>2. PICK c \in Nat : c = at.count
  BY <1>1 DEF TypeInv
<1>3. /\ placed' = placed /\ asked' = asked /\ zones' = zones /\ crowded' = crowded
      /\ giantsPlaced' = giantsPlaced /\ at'.phase = "moon rows"
  BY DEF MoonRow, Still, Else, Where
<1>4. Unplaced(at') => Unplaced(at)
  BY <1>3 DEF Unplaced
<1>5. CASE slots' = slots
  BY <1>3, <1>4, <1>5, StandsStay
<1>6. PICK o \in Nat : o = asked.moons[c + 1].parent
  BY <1>1, <1>2, ParentIs
<1>7. PICK old : old = At(Mine, o)
  OBVIOUS
<1>8. WellMade(old)
  BY <1>1, <1>7 DEF TypeInv, SlotsMade, Mine
<1>9. PICK could : could = IF asked.moons[c + 1].size = Open THEN RollsFor(old)
                          ELSE {r \in MoonRolls : r.ring = (asked.moons[c + 1].size = 0)}
  OBVIOUS
<1>10. could \subseteq MoonRolls
  BY <1>9 DEF RollsFor
<1>11. CASE \E r \in could : Only(Put(Mine, {o}, [old EXCEPT !.moons = AddMoon(@, r, FALSE)]))
  <2>1. PICK r \in MoonRolls : Only(Put(Mine, {o}, [old EXCEPT !.moons = AddMoon(@, r, FALSE)]))
    BY <1>10, <1>11
  <2>2. PICK new : new = [old EXCEPT !.moons = AddMoon(@, r, FALSE)]
    OBVIOUS
  <2>3. RowAdds(old, new)
    BY <1>8, <2>2, RowMoon, Zenon
  <2>4. new \in BodyType /\ Kind(old, new)
    BY <2>3 DEF RowAdds, Mooned, WellMade, Kind
  <2> QED BY <1>3, <1>4, <1>7, <2>1, <2>2, <2>4, MoonsStand
<1>12. slots' = slots \/ \E r \in could : Only(Put(Mine, {o}, [old EXCEPT !.moons = AddMoon(@, r, FALSE)]))
  BY <1>2, <1>6, <1>7, <1>9 DEF MoonRow
<1> QED BY <1>5, <1>11, <1>12

\* The steps that move no body: they only say where the generator is.
LEMMA CountsStand ==
  ASSUME OrbitsInv, StandsInv,
         \/ CountGiants \/ CountBelts \/ BeltPanics \/ EnoughBelts \/ EnoughMoons \/ EnoughMoonRows \/ NextStar
  PROVE  StandsInv'
<1>1. /\ slots' = slots /\ asked' = asked /\ zones' = zones /\ placed' = placed
      /\ giantsPlaced' = giantsPlaced /\ crowded' = crowded
  BY DEF CountGiants, CountBelts, BeltPanics, EnoughBelts, EnoughMoons, EnoughMoonRows, NextStar, Still, Else
<1>2. Unplaced(at') => Unplaced(at)
  <2>1. ASSUME CountGiants \/ CountBelts \/ BeltPanics \/ EnoughBelts \/ EnoughMoons \/ EnoughMoonRows
        PROVE  ~Unplaced(at')
    <3>1. at'.phase \in {"placing giants", "planetoids", "panicked", "main world", "filling", "moon rows", "filled"}
      <4>1. CASE CountGiants
        <5>1. PICK k : Where(at.star, "placing giants", k)
          BY <4>1 DEF CountGiants
        <5> QED BY <5>1 DEF Where
      <4>5. CASE CountBelts
        <5>1. PICK k : Where(at.star, "planetoids", k)
          BY <4>5 DEF CountBelts
        <5> QED BY <5>1 DEF Where
      <4>6. CASE BeltPanics
        <5>1. Where(at.star, "panicked", 0)
          BY <4>6 DEF BeltPanics
        <5> QED BY <5>1 DEF Where
      <4>2. CASE EnoughBelts
        BY <4>2 DEF EnoughBelts, Where
      <4>3. CASE EnoughMoons
        BY <4>3 DEF EnoughMoons, Where
      <4>4. CASE EnoughMoonRows
        BY <4>4 DEF EnoughMoonRows, Where
      <4> QED BY <2>1, <4>1, <4>2, <4>3, <4>4, <4>5, <4>6
    <3> QED BY <3>1 DEF Unplaced
  <2>2. ASSUME NextStar PROVE ~Unplaced(at')
    <3>1. at'.phase = "done" \/ (at'.phase = "blocked" /\ at'.star \in {"secondary", "tertiary"})
      BY <2>2 DEF NextStar, Where
    <3> QED BY <3>1 DEF Unplaced
  <2> QED BY <2>1, <2>2
<1> QED BY <1>1, <1>2, StandsStay

LEMMA StarsStand ==
  ASSUME OrbitsInv, StandsInv, OrbitsInv', GenPrimary \/ GenSecondary \/ GenTertiary \/ Alone
  PROVE  StandsInv'
<1>1. Unplaced(at) /\ giantsPlaced' = giantsPlaced /\ placed' = placed
  BY DEF GenPrimary, GenSecondary, GenTertiary, Alone, Here, Unplaced
<1>2. at'.star = "primary" /\ at'.phase \in {"companions", "blocked"}
  BY DEF GenPrimary, GenSecondary, GenTertiary, Alone, Where
<1>3. Early(at')
  BY <1>2 DEF Early
<1> QED BY <1>1, <1>3, BeforeRows

LEMMA BlockOrbitsStands == ASSUME OrbitsInv, StandsInv, OrbitsInv', BlockOrbits PROVE StandsInv'
<1>1. TypeInv /\ RowsInv /\ at.phase = "blocked"
  BY DEF OrbitsInv, BlockOrbits
<1>2. /\ placed' = placed /\ asked' = asked /\ zones' = zones /\ crowded' = crowded
      /\ giantsPlaced' = giantsPlaced /\ at'.star = at.star
      /\ at'.phase = IF at.star = "primary" THEN "empties" ELSE "giants"
  BY DEF BlockOrbits, Still, Else, Where
<1>3. CASE at.star = "primary"
  <2>1. Unplaced(at) /\ Early(at')
    BY <1>1, <1>2, <1>3 DEF Unplaced, Early
  <2> QED BY <1>2, <2>1, BeforeRows
<1>4. CASE at.star # "primary"
  <2>1. PICK os \in SUBSET Unused(Mine) : Only(Put(Mine, os, Blocked))
    BY DEF BlockOrbits
  <2>2. PICK s \in StarNames : s = at.star
    BY <1>1 DEF TypeInv
  <2>3. PICK prim \in StarNames : prim = "primary"
    BY DEF StarNames
  <2>4. slots'["primary"] = slots["primary"]
    BY <1>1, <1>4, <2>1, <2>2, <2>3 DEF Only, TypeInv, SlotsMade
  <2>5. \A u \in Nat : Kind(At(slots["primary"], u), At(slots'["primary"], u))
    BY <2>4 DEF Kind
  <2>6. Unplaced(at') => Unplaced(at)
    BY <1>2, <1>4 DEF Unplaced
  <2> QED BY <1>1, <1>2, <2>5, <2>6, StandsKept
<1> QED BY <1>3, <1>4

LEMMA RowsOfStand == ASSUME OrbitsInv, StandsInv, OrbitsInv', PlacePlanets \/ PlaceBelts PROVE StandsInv'
<1>1. RowTyped(asked.planets) /\ RowTyped(asked.belts)
  BY OrbitsAssumption DEF RowTyped, OrbitsInv, TypeInv
<1>2. PICK planet \in {"planet", "belt"}, belt \in {"planet", "belt"} : planet = "planet" /\ belt = "belt"
  OBVIOUS
<1>3. PICK belts \in {"belts", "giants"}, giants \in {"belts", "giants"} : belts = "belts" /\ giants = "giants"
  OBVIOUS
<1>4. PICK ps, bs : ps = asked.planets /\ bs = asked.belts
  OBVIOUS
<1>5. /\ giantsPlaced' = giantsPlaced /\ at.phase \in {"planets", "belts"}
      /\ PlaceRow(ps, planet, belts) \/ PlaceRow(bs, belt, giants)
  BY <1>2, <1>3, <1>4 DEF PlacePlanets, PlaceBelts
<1> QED BY <1>1, <1>4, <1>5, PlaceRowStands

-----------------------------------------------------------------------------
LEMMA OrbitsKeeps == ASSUME OrbitsInv, [OrbitsNext]_orbitVars PROVE OrbitsInv'
<1>1. CASE UNCHANGED orbitVars
  <2>1. /\ asked' = asked /\ zones' = zones /\ orbit' = orbit /\ slots' = slots /\ wanted' = wanted
        /\ giantsWanted' = giantsWanted /\ placed' = placed /\ at' = at
    BY <1>1 DEF orbitVars
  <2>2. TypeInv' /\ MainInv' /\ RowsInv'
    BY <2>1 DEF OrbitsInv, TypeInv, MainInv, RowsInv, Mine
  <2>3. MoonsInv'
    BY <2>1, MoonsStay
  <2> QED BY <2>2, <2>3 DEF OrbitsInv
<1>2. CASE OrbitsNext
  BY <1>2, GenPrimaryKeeps, GenSecondaryKeeps, GenTertiaryKeeps, AloneKeeps, BlockOrbitsKeeps, PlaceEmptiesKeeps,
     PlacePlanetsKeeps, PlaceBeltsKeeps, CountGiantsKeeps, PlaceGiantKeeps, CountBeltsKeeps, PlaceBeltKeeps,
     BeltPanicsKeeps, EnoughBeltsKeeps, PlaceMainKeeps, FillKeeps, MoonsOfKeeps, EnoughMoonsKeeps,
     MoonRowKeeps, EnoughMoonRowsKeeps, NextStarKeeps, Zenon DEF OrbitsNext
<1> QED BY <1>1, <1>2

LEMMA StandsStart == ASSUME NEW r \in Rows, OrbitsInit(r) PROVE StandsInv
BY DEF OrbitsInit, StandsInv

LEMMA StandsKeeps == ASSUME OrbitsInv, StandsInv, [OrbitsNext]_orbitVars PROVE StandsInv'
<1>1. OrbitsInv'
  BY OrbitsKeeps
<1>2. CASE UNCHANGED orbitVars
  <2>1. /\ asked' = asked /\ zones' = zones /\ slots' = slots /\ placed' = placed
        /\ giantsPlaced' = giantsPlaced /\ crowded' = crowded /\ at' = at
    BY <1>2 DEF orbitVars
  <2> QED BY <2>1, StandsStay
<1>3. CASE OrbitsNext
  BY <1>1, <1>3, StarsStand, BlockOrbitsStands, PlaceEmptiesStands, RowsOfStand, PlaceGiantStands, PlaceBeltStands,
     CountsStand, PlaceMainStands, FillStands, MoonsOfStands, MoonRowStands, Zenon DEF OrbitsNext
<1> QED BY <1>2, <1>3

LEMMA OrbitsTyped == ASSUME OrbitsInv PROVE OrbitsTypeOK
<1>1. TypeInv /\ Range(Stars) = StarNames
  BY StarsAre DEF OrbitsInv, StarNames
<1>2. ASSUME NEW s \in StarNames, NEW o \in BodiesOf(s)
      PROVE  At(slots[s], o).moons \in Seq([orbit : Nat, ring : BOOLEAN, main : BOOLEAN])
  <2>1. PICK b : b = At(slots[s], o)
    OBVIOUS
  <2>2. o \in Nat
    BY DEF BodiesOf
  <2>3. WellMade(b)
    BY <1>1, <2>1, <2>2 DEF TypeInv, SlotsMade
  <2>4. b.moons \in Seq(MoonType)
    BY <2>3 DEF WellMade, BodyType
  <2> QED BY <2>1, <2>4 DEF MoonType
<1>3. \A s \in StarNames : orbit[s] >= Open
  BY <1>1 DEF TypeInv
<1> QED BY <1>1, <1>2, <1>3 DEF OrbitsTypeOK, TypeInv

LEMMA MainOnce == ASSUME OrbitsInv PROVE MainWorldOnce
<1> SUFFICES ASSUME Done PROVE Cardinality(MainPlaces) = 1
  BY DEF MainWorldOnce
<1>1. TypeInv /\ MainInv /\ Range(Stars) = StarNames
  BY StarsAre DEF OrbitsInv, StarNames
<1>2. PICK s \in StarNames, o \in Nat, i \in Nat : MainIs(slots, s, o, i)
  BY <1>1 DEF MainInv, Early, Done
<1>3. ASSUME NEW x \in MainPlaces PROVE x = <<s, o, i>>
  <2>1. PICK t \in StarNames : x \in UNION {MainAt(t, u) : u \in BodiesOf(t)}
    BY <1>1 DEF MainPlaces
  <2>2. PICK u \in BodiesOf(t) : x \in MainAt(t, u)
    BY <2>1
  <2>3. PICK b : b = At(slots[t], u)
    OBVIOUS
  <2>4. u \in Nat
    BY <2>2 DEF BodiesOf
  <2>5. PICK k \in Nat : IsMain(b, k) /\ x = <<t, u, k>>
    <3>1. CASE b.row = Main /\ x = <<t, u, 0>>
      <4>1. IsMain(b, 0)
        BY <3>1 DEF IsMain
      <4> QED BY <3>1, <4>1, Zero
    <3>2. CASE \E k \in {k \in DOMAIN b.moons : b.moons[k].main} : x = <<t, u, k>>
      <4>1. WellMade(b)
        BY <1>1, <2>3, <2>4 DEF TypeInv, SlotsMade
      <4>2. b.moons \in Seq(MoonType)
        BY <4>1 DEF WellMade, BodyType
      <4>3. \A k \in DOMAIN b.moons : k \in Nat /\ k # 0
        BY <4>2
      <4> QED BY <3>2, <4>3 DEF IsMain
    <3> QED BY <2>2, <2>3, <3>1, <3>2 DEF MainAt
  <2> QED BY <1>2, <2>3, <2>4, <2>5 DEF MainIs
<1>4. <<s, o, i>> \in MainPlaces
  <2>1. PICK b : b = At(slots[s], o)
    OBVIOUS
  <2>2. IsMain(b, i) /\ b.what \in Bodies
    BY <1>2, <2>1 DEF MainIs
  <2>3. o \in BodiesOf(s)
    <3>1. PICK seq : seq = slots[s]
      OBVIOUS
    <3>2. seq \in Seq(BodyType)
      BY <1>1, <3>1 DEF TypeInv, SlotsMade
    <3>3. b # Free
      BY <2>2, FreeMade DEF Bodies
    <3>4. o < Len(seq)
      BY <2>1, <3>1, <3>2, <3>3, AtBody
    <3> QED BY <2>1, <2>2, <3>1, <3>2, <3>4 DEF BodiesOf
  <2>4. <<s, o, i>> \in MainAt(s, o)
    BY <2>1, <2>2 DEF MainAt, IsMain
  <2> QED BY <1>1, <2>3, <2>4 DEF MainPlaces
<1>5. MainPlaces = {<<s, o, i>>}
  BY <1>3, <1>4
<1> QED BY <1>5, FS_Singleton

LEMMA RowsKept == ASSUME OrbitsInv, StandsInv PROVE RowsStand
BY DEF OrbitsInv, RowsInv, StandsInv, GiantHeld, RowsStand

LEMMA MoonsAreRight == ASSUME OrbitsInv PROVE MoonsRight
<1>1. TypeInv /\ RowsInv /\ MoonsInv /\ Range(Stars) = StarNames
  BY StarsAre DEF OrbitsInv, StarNames
<1>2. MoonsApart
  <2>1. ASSUME NEW s \in StarNames, NEW o \in BodiesOf(s) PROVE Apart(At(slots[s], o).moons)
    <3>1. o \in Nat
      BY DEF BodiesOf
    <3> QED BY <1>1, <3>1 DEF TypeInv, SlotsMade, WellMade
  <2> QED BY <1>1, <2>1 DEF MoonsApart, Apart
<1>3. ASSUME Done, NEW p \in placed, NEW b, b = At(slots["primary"], p[2]), b.row = p[1], b.row[1] = "planet",
             NEW n, n = asked.planets[b.row[2]].moons, n # Open, \A m \in Range(b.moons) : ~m.ring
      PROVE  Len(b.moons)
               = Max({n, Cardinality({i \in DOMAIN asked.moons : asked.moons[i].parent = p[2]})})
  <2>1. MoonsOfRow(p)
    BY <1>1, <1>3 DEF MoonsInv
  <2>2. PICK own \in Nat : /\ own = Own(p[2], Len(asked.moons))
                           /\ Cardinality({i \in DOMAIN asked.moons : asked.moons[i].parent = p[2]}) = own
    BY OwnIs
  <2>3. Touched(at, p[2]) /\ Seen(at) = Len(asked.moons)
    BY <1>3 DEF Touched, Seen, Done
  <2>4. \A i \in DOMAIN b.moons : ~b.moons[i].ring
    BY <1>3 DEF Range
  <2>5. Len(b.moons) = Max({n - own, 0}) + own /\ p[1][2] \in DOMAIN asked.planets
    BY <1>3, <2>1, <2>2, <2>3, <2>4 DEF MoonsOfRow
  <2>6. n \in Nat
    <3> DEFINE T == [orbit : Number, moons : Number, solid : BOOLEAN]
    <3>1. \A x \in T : x.moons \in Number
      OBVIOUS
    <3>2. asked.planets \in Seq(T)
      BY <1>1, OrbitsAssumption DEF TypeInv
    <3> HIDE DEF T
    <3>3. asked.planets[p[1][2]] \in T
      BY <2>5, <3>2
    <3>4. n \in Number
      BY <1>3, <3>1, <3>3
    <3> QED BY <1>3, <3>4 DEF Number
  <2>7. PICK d \in Int : d = n - own
    BY <2>6
  <2>8. Max({d, 0}) = (IF d >= 0 THEN d ELSE 0) /\ Max({n, own}) = IF n >= own THEN n ELSE own
    BY <2>6, MaxOfTwo
  <2>9. PICK x, y : x = Max({d, 0}) /\ y = Max({n, own})
    OBVIOUS
  <2>10. x + own = y
    BY <2>2, <2>6, <2>7, <2>8, <2>9
  <2>11. Len(b.moons) = x + own
    BY <2>5, <2>7, <2>9
  <2> QED BY <2>2, <2>9, <2>10, <2>11
<1>4. MoonsAsAsked
  BY <1>3 DEF MoonsAsAsked
<1> QED BY <1>2, <1>4 DEF MoonsRight
-----------------------------------------------------------------------------
(* Stars (Stars): their classes, their zones, and the main world's.          *)

\* Zones follow each other outwards.
Outwards(z) == /\ z \in [inside : Int, hot : Int, inner : Int, habitable : Int, outer : Int]
               /\ z.inside <= z.hot /\ z.hot <= z.inner /\ z.inner <= z.habitable
Absent == Z(0, 0, 0, 0, 0)

LEMMA ZonesAre ==
  ASSUME NEW t \in {Zones_Ia, Zones_Ib, Zones_II, Zones_III, Zones_IV, Zones_V, Zones_VI, Zones_D},
         NEW i \in 1 .. 14
  PROVE  Outwards(t[i])
<1>1. CASE t = Zones_Ia
  BY <1>1 DEF Zones_Ia, Z, Outwards
<1>2. CASE t = Zones_Ib
  BY <1>2 DEF Zones_Ib, Z, Outwards
<1>3. CASE t = Zones_II
  BY <1>3 DEF Zones_II, Z, Outwards
<1>4. CASE t = Zones_III
  BY <1>4 DEF Zones_III, Z, Outwards
<1>5. CASE t = Zones_IV
  BY <1>5 DEF Zones_IV, Z, Outwards
<1>6. CASE t = Zones_V
  BY <1>6 DEF Zones_V, Z, Outwards
<1>7. CASE t = Zones_VI
  BY <1>7 DEF Zones_VI, Z, Outwards
<1>8. CASE t = Zones_D
  BY <1>8 DEF Zones_D, Z, Outwards
<1> QED BY <1>1, <1>2, <1>3, <1>4, <1>5, <1>6, <1>7, <1>8

\* Which rows of the tables stand for stars that there are.
LEMMA ZonesThere ==
  ASSUME NEW i \in 3 .. 14
  PROVE  /\ Zones_Ia[i] # Absent /\ Zones_Ib[i] # Absent /\ Zones_II[i] # Absent /\ Zones_III[i] # Absent
         /\ Zones_V[i] # Absent /\ Zones_D[i] # Absent
         /\ i <= 11 => Zones_IV[i] # Absent
         /\ i >= 8 => Zones_VI[i] # Absent
<1>1. Zones_Ia[i] # Absent /\ Zones_Ib[i] # Absent
  BY DEF Zones_Ia, Zones_Ib, Z, Absent
<1>2. Zones_II[i] # Absent /\ Zones_III[i] # Absent
  BY DEF Zones_II, Zones_III, Z, Absent
<1>3. Zones_V[i] # Absent /\ Zones_D[i] # Absent
  BY DEF Zones_V, Zones_D, Z, Absent
<1>4. (i <= 11 => Zones_IV[i] # Absent) /\ (i >= 8 => Zones_VI[i] # Absent)
  BY DEF Zones_IV, Zones_VI, Z, Absent
<1> QED BY <1>1, <1>2, <1>3, <1>4

LEMMA LettersAre == Letters = {"O", "B", "A", "F", "G", "K", "M"}
BY DEF Letters, Types
LEMMA LuminositiesAre == Luminosities = {"Ia", "Ib", "II", "III", "IV", "V", "VI", "D"}
BY DEF Luminosities, Sizes

LEMMA IndexIs ==
  /\ Index(Types, "O") = 1 /\ Index(Types, "B") = 2 /\ Index(Types, "A") = 3 /\ Index(Types, "F") = 4
  /\ Index(Types, "G") = 5 /\ Index(Types, "K") = 6 /\ Index(Types, "M") = 7
<1> DEFINE names == <<"O", "B", "A", "F", "G", "K", "M">>
<1>1. \A i \in 1 .. 7 : Index(names, names[i]) = i
  <2> SUFFICES ASSUME NEW i \in 1 .. 7 PROVE Index(names, names[i]) = i
    OBVIOUS
  <2>1. \A j \in DOMAIN names : names[j] = names[i] => j = i
    OBVIOUS
  <2>2. i \in DOMAIN names
    OBVIOUS
  <2> HIDE DEF names
  <2> QED BY <2>1, <2>2 DEF Index
<1> QED BY <1>1 DEF Types

StarType == [type : Letters, subtype : 0 .. 9, size : Luminosities]

LEMMA ZoneOf ==
  ASSUME NEW s \in StarType
  PROVE  TableRow(s) \in 1 .. 14 /\ Outwards(get_zone(s))
<1>1. TableRow(s) \in 1 .. 14
  BY LettersAre, IndexIs DEF TableRow, StarType
<1>2. get_zone(s) \in {t[TableRow(s)] : t \in {Zones_Ia, Zones_Ib, Zones_II, Zones_III, Zones_IV, Zones_V,
                                               Zones_VI, Zones_D}}
  BY LuminositiesAre DEF get_zone, StarType
<1> QED BY <1>1, <1>2, ZonesAre

\* A star rolled for a main world is one that the tables know.
LEMMA RolledIsReal ==
  ASSUME NEW r \in Int, NEW k \in Int, NEW n \in 0 .. 9, NEW s,
         LET t == gen_primary_star_type(r)
         IN  s = [type |-> t, subtype |-> n, size |-> gen_primary_star_size(k, t, n)]
  PROVE  s \in StarType /\ Real(s)
<1>1. s.type \in {"B", "A", "F", "G", "K", "M"} /\ s.subtype = n
  BY DEF gen_primary_star_type
<1>2. s.size \in Luminosities
  BY LuminositiesAre DEF gen_primary_star_size, PrimarySize, Sizes
<1>3. s \in StarType
  BY <1>1, <1>2, LettersAre DEF StarType
<1>4. TableRow(s) \in 3 .. 14
  BY <1>1, IndexIs DEF TableRow
<1>5. s.size = "IV" => TableRow(s) <= 11
  BY <1>1, IndexIs DEF TableRow, gen_primary_star_size
<1>6. s.size = "VI" => TableRow(s) >= 8
  BY <1>1, IndexIs DEF TableRow, gen_primary_star_size, Hotter
<1>7. HasLight(s) /\ HasMass(s)
  BY <1>4, <1>5, <1>6 DEF HasLight, HasMass
<1>8. get_zone(s) # Absent
  BY <1>2, <1>4, <1>5, <1>6, LuminositiesAre, ZonesThere DEF get_zone
<1> QED BY <1>3, <1>7, <1>8 DEF Real, Absent

LEMMA HabitableFrom == ASSUME NEW z, Outwards(z) PROVE HabitableOrbit(z) \in Nat
<1>1. Max({z.inner, 0}) \in Nat
  BY MaxOfTwo DEF Outwards
<1> QED BY <1>1 DEF HabitableOrbit, Outwards

\* The generator and astro mean the same orbit.
LEMMA SameOrbit ==
  ASSUME NEW z, Outwards(z), z.habitable > Max({z.inner, -1})
  PROVE  HabitableOrbit(z) = z.habitable /\ z.habitable > z.inner /\ z.habitable >= 0
<1>1. z.habitable > z.inner /\ z.habitable > -1
  BY MaxOfTwo DEF Outwards
<1>2. z.habitable = 0 => Max({z.inner, 0}) = 0
  BY <1>1, MaxOfTwo DEF Outwards
<1> QED BY <1>1, <1>2 DEF HabitableOrbit, Outwards

LEMMA SlotsBounded ==
  ASSUME NEW s \in StarType, NEW r \in 2 .. 12
  PROVE  gen_max_orbits(s, r) \in 0 .. 20
<1>1. \A x \in Int : x <= 20 => Max({0, x}) \in 0 .. 20
  BY MaxOfTwo
<1> QED BY <1>1 DEF gen_max_orbits

LEMMA EndsAre == Ends \subseteq 2 .. 12
<1>1. Rolls # {} /\ Rolls \in SUBSET (2 .. 12)
  BY StarsAssumption
<1>2. IsFiniteSet(Rolls) /\ Rolls \subseteq Nat
  <2>1. IsFiniteSet(2 .. 12)
    <3>1. 2 \in Int /\ 12 \in Int
      OBVIOUS
    <3> QED BY <3>1, FS_Interval, Zenon
  <2>2. IsFiniteSet(Rolls)
    BY <1>1, <2>1, FS_Subset
  <2> QED BY <1>1, <2>2
<1>3. Max(Rolls) \in Rolls /\ Min(Rolls) \in Rolls
  BY <1>1, <1>2, MaxOfSet, MinOfSet
<1> QED BY <1>1, <1>3 DEF Ends

StarsInv ==
  /\ star \in StarType /\ orbits \in 0 .. 21 /\ depth \in 0 .. Depth
  /\ from = "nothing" => seen = Unseen
  /\ from # "companion" => depth = 0
  /\ PrimaryIsReal /\ TemperateMain

LEMMA StarsStart == StarsInit => StarsInv
<1> SUFFICES ASSUME StarsInit PROVE StarsInv
  OBVIOUS
<1>1. star \in StarType
  BY LettersAre, LuminositiesAre DEF StarsInit, NoStar, StarType
<1>2. seen.orbit = -1 /\ HabitableOrbit(get_zone(star)) \in Nat
  BY <1>1, ZoneOf, HabitableFrom DEF StarsInit, Unseen
<1> QED BY <1>1, <1>2, StarsAssumption DEF StarsInit, StarsInv, PrimaryIsReal, TemperateMain

\* Nothing is said of a star before it is looked at.
LEMMA NotSeenYet ==
  ASSUME star' \in StarType, seen' = Unseen
  PROVE  TemperateMain'
<1>1. HabitableOrbit(get_zone(star')) \in Nat
  BY ZoneOf, HabitableFrom
<1> QED BY <1>1 DEF TemperateMain, Unseen

LEMMA PinOf ==
  ASSUME NEW pin \in StarPins \cup {NoPins},
         NEW t \in Letters, NEW n \in 0 .. 9, NEW k \in Luminosities
  PROVE  [type |-> Given(pin.type, t), subtype |-> Given(pin.subtype, n), size |-> Given(pin.size, k)] \in StarType
<1>1. pin.type \in Letters \cup {Unset} /\ pin.subtype \in 0 .. 9 \cup {Unset} /\ pin.size \in Luminosities \cup {Unset}
  BY StarsAssumption DEF NoPins
<1> QED BY <1>1 DEF Given, StarType

LEMMA GenPrimaryStarKeeps == ASSUME StarsInv, GenPrimaryStar PROVE StarsInv'
<1>1. PICK rt \in Rolls, rs \in Rolls, ro \in Ends, mod \in {0, 4}, sub \in Subtypes, pin \in StarPins \cup {NoPins} :
        LET type    == Given(pin.type, gen_primary_star_type(rt + mod))
            subtype == Given(pin.subtype, sub)
        IN  /\ star' = [type |-> type, subtype |-> subtype,
                        size |-> Given(pin.size, gen_primary_star_size(rs, type, subtype))]
            /\ rolls' = <<rt, rs>>
            /\ orbits' = gen_max_orbits(star', ro) + 1
            /\ from' = IF pin = NoPins THEN "rolls" ELSE "row"
  BY DEF GenPrimaryStar
<1> DEFINE type == Given(pin.type, gen_primary_star_type(rt + mod))
           subtype == Given(pin.subtype, sub)
           size == gen_primary_star_size(rs, type, subtype)
<1>2. gen_primary_star_type(rt + mod) \in Letters
  BY LettersAre DEF gen_primary_star_type
<1>3. size \in Luminosities
  BY LuminositiesAre DEF gen_primary_star_size, PrimarySize, Sizes
<1>4. sub \in 0 .. 9 /\ rt \in Int /\ rs \in Int
  BY StarsAssumption
<1>5. star' \in StarType
  <2>1. star' = [type |-> type, subtype |-> subtype, size |-> Given(pin.size, size)]
    BY <1>1
  <2>2. type = Given(pin.type, gen_primary_star_type(rt + mod)) /\ subtype = Given(pin.subtype, sub)
    OBVIOUS
  <2> HIDE DEF size, type, subtype
  <2> QED BY <1>2, <1>3, <1>4, <2>1, <2>2, PinOf
<1>6. orbits' \in 0 .. 21
  <2>1. gen_max_orbits(star', ro) \in 0 .. 20
    BY <1>5, EndsAre, SlotsBounded
  <2> QED BY <2>1, <1>1
<1>7. PrimaryIsReal'
  <2> SUFFICES ASSUME from' = "rolls" PROVE Real(star')
    BY DEF PrimaryIsReal
  <2>1. pin = NoPins
    BY <1>1
  <2>2. type = gen_primary_star_type(rt + mod) /\ subtype = sub /\ Given(pin.size, size) = size
    BY <2>1 DEF NoPins, Given
  <2>3. star' = [type |-> type, subtype |-> subtype, size |-> size]
    BY <1>1, <2>2
  <2> QED BY <1>4, <2>2, <2>3, RolledIsReal
<1>8. seen' = Unseen /\ TemperateMain'
  BY <1>5, NotSeenYet DEF GenPrimaryStar, StarsInv
<1>9. depth' = depth /\ depth = 0 /\ from' # "nothing"
  BY <1>1 DEF GenPrimaryStar, StarsInv
<1> QED BY <1>5, <1>6, <1>7, <1>8, <1>9 DEF StarsInv

LEMMA CompanionsKeep ==
  ASSUME StarsInv, NEW mod, NEW halved \in BOOLEAN, Companions(mod, halved), seen = Unseen, depth < Depth
  PROVE  StarsInv'
<1>1. PICK rt \in Again, rs \in Again, ro \in Ends, r \in Rolls, sub \in Subtypes,
           pin \in IF halved THEN {NoPins} ELSE StarPins \cup {NoPins} :
        \E where \in gen_companion_orbit(r + mod) :
          /\ rolls' = <<rt + rolls[1], rs + rolls[2]>>
          /\ star' = [type    |-> Given(pin.type, gen_companion_star_type(rt + rolls[1])),
                      subtype |-> Given(pin.subtype, sub),
                      size    |-> Given(pin.size, gen_companion_star_size(rs + rolls[2]))]
          /\ away' = IF where \in 0 .. get_zone(star).inside /\ ~halved THEN Close ELSE where
          /\ from' = "companion"
          /\ orbits' = 1 + IF halved /\ where # Far THEN gen_max_orbits(star', ro) \div 2
                           ELSE gen_max_orbits(star', ro)
          /\ depth' = depth + 1
          /\ UNCHANGED seen
  BY DEF Companions
<1>2. gen_companion_star_type(rt + rolls[1]) \in Letters
  BY LettersAre DEF gen_companion_star_type
<1>3. gen_companion_star_size(rs + rolls[2]) \in Luminosities
  BY LuminositiesAre DEF gen_companion_star_size, Sizes
<1>4. star' \in StarType
  BY <1>1, <1>2, <1>3, StarsAssumption, PinOf
<1>5. orbits' \in 0 .. 21
  <2>1. gen_max_orbits(star', ro) \in 0 .. 20
    BY <1>4, EndsAre, SlotsBounded
  <2> QED BY <2>1, <1>1
<1>6. depth' \in 0 .. Depth
  BY <1>1, StarsAssumption DEF StarsInv
<1>7. TemperateMain'
  BY <1>1, <1>4, NotSeenYet
<1> QED BY <1>1, <1>4, <1>5, <1>6, <1>7 DEF StarsInv, PrimaryIsReal

LEMMA DescribeKeeps ==
  ASSUME StarsInv, NEW o \in Int, NEW air, Describe(o, air), from # "nothing", UNCHANGED <<star, from, away, rolls, orbits, depth>>
  PROVE  StarsInv'
<1>1. star' = star /\ star \in StarType /\ Outwards(get_zone(star))
  BY ZoneOf DEF StarsInv
<1>2. TemperateMain'
  <2> DEFINE z == get_zone(star)
  <2> SUFFICES ASSUME seen'.orbit = HabitableOrbit(z), z.habitable > Max({z.inner, -1})
               PROVE  seen'.temperate
    BY <1>1 DEF TemperateMain
  <2>1. HabitableOrbit(z) = z.habitable /\ z.habitable > z.inner /\ z.habitable >= 0
    BY <1>1, SameOrbit
  <2>2. seen' # Panicked
    BY <2>1 DEF Panicked
  <2>3. seen' = [orbit |-> o, temperate |-> o = get_habitable(star)]
    BY <2>2 DEF Describe
  <2>4. get_habitable(star) = z.habitable /\ o = z.habitable
    BY <2>1, <2>3 DEF get_habitable
  <2> QED BY <2>3, <2>4
<1> QED BY <1>1, <1>2 DEF StarsInv, PrimaryIsReal

LEMMA StarsKeep == ASSUME StarsInv, [StarsNext]_starVars PROVE StarsInv'
<1>1. CASE GenPrimaryStar
  BY <1>1, GenPrimaryStarKeeps
<1>2. CASE GenCompanionStar
  <2>1. depth < Depth /\ seen = Unseen
    BY <1>2, StarsAssumption DEF GenCompanionStar, StarsInv
  <2> QED BY <1>2, <2>1, CompanionsKeep DEF GenCompanionStar
<1>3. CASE GenFarCompanion
  BY <1>3, CompanionsKeep DEF GenFarCompanion
<1>4. CASE DescribeMain
  <2>1. HabitableOrbit(get_zone(star)) \in Nat
    BY ZoneOf, HabitableFrom DEF StarsInv
  <2> QED BY <1>4, <2>1, DescribeKeeps DEF DescribeMain
<1>5. CASE DescribeOther
  <2>1. orbits - 1 \in Int
    BY DEF StarsInv
  <2> QED BY <1>5, <2>1, DescribeKeeps DEF DescribeOther
<1>6. CASE UNCHANGED starVars
  <2>1. star' = star /\ from' = from /\ orbits' = orbits /\ depth' = depth /\ seen' = seen
    BY <1>6 DEF starVars
  <2> QED BY <2>1 DEF StarsInv, PrimaryIsReal, TemperateMain
<1> QED BY <1>1, <1>2, <1>3, <1>4, <1>5, <1>6 DEF StarsNext

LEMMA StarsTyped == ASSUME StarsInv PROVE StarsTypeOK
BY ZoneOf DEF StarsInv, StarsTypeOK, StarType, Outwards
=============================================================================
