---------------------------- MODULE FoldTheorems ----------------------------
(***************************************************************************)
(* Sums and left folds, as the community modules define them: each is a    *)
(* recursive function on the subsets of a finite set.  Induction over data *)
(* is induction over the cardinality of those subsets; the sets that       *)
(* SetInduction takes stand for the predicates the provers cannot be given.*)
(***************************************************************************)
EXTENDS Sums, SequencesExt, FiniteSetTheorems, WellFoundedInduction, TLAPS

\* Induction over the naturals, for a set instead of a predicate.
LEMMA LeastNatural ==
  ASSUME NEW T, T \subseteq Nat, T # {}
  PROVE  \E m \in T : \A k \in T : m <= k
<1>1. IsWellFoundedOn(OpToRel(<, Nat), Nat)
  BY NatLessThanWellFounded
<1>2. PICK m \in T : \A k \in T : <<k, m>> \notin OpToRel(<, Nat)
  BY <1>1, WFMin
<1>3. \A k \in T : ~(k < m)
  BY <1>2 DEF OpToRel
<1> QED BY <1>3

LEMMA SetInduction ==
  ASSUME NEW T, 0 \in T, \A n \in T \cap Nat : n + 1 \in T
  PROVE  Nat \subseteq T
<1> SUFFICES ASSUME Nat \ T # {} PROVE FALSE
  OBVIOUS
<1>1. PICK m \in Nat \ T : \A k \in Nat \ T : m <= k
  BY LeastNatural
<1>2. m - 1 \in Nat /\ m - 1 \notin Nat \ T
  BY <1>1
<1> QED BY <1>1, <1>2

\* One unfolding of the fold.
Unfold(f, s, g) ==
  IF s = {} THEN 0 ELSE LET x == CHOOSE x \in s : TRUE IN f[x] + g[s \ {x}]

LEMMA FoldExists ==
  ASSUME NEW S, IsFiniteSet(S), NEW f, \A x \in S : f[x] \in Int
  PROVE  \E g \in [SUBSET S -> Int] : \A s \in SUBSET S : g[s] = Unfold(f, s, g)
<1> DEFINE Good(g, n) == \A s \in SUBSET S : Cardinality(s) <= n => g[s] = Unfold(f, s, g)
           T == {n \in Nat : \E g \in [SUBSET S -> Int] : Good(g, n)}
<1>1. \A s \in SUBSET S : IsFiniteSet(s) /\ Cardinality(s) \in Nat /\ Cardinality(s) <= Cardinality(S)
  BY FS_Subset, FS_CardinalityType
<1>2. 0 \in T
  <2>1. [s \in SUBSET S |-> 0] \in [SUBSET S -> Int]
    OBVIOUS
  <2>2. \A s \in SUBSET S : Cardinality(s) <= 0 => s = {}
    BY <1>1, FS_EmptySet
  <2>3. Good([s \in SUBSET S |-> 0], 0)
    BY <2>2 DEF Unfold
  <2> QED BY <2>1, <2>3
<1>3. ASSUME NEW n \in T \cap Nat PROVE n + 1 \in T
  <2>1. PICK g \in [SUBSET S -> Int] : Good(g, n)
    BY <1>3
  <2> DEFINE h == [s \in SUBSET S |-> Unfold(f, s, g)]
  <2>2. h \in [SUBSET S -> Int]
    <3>1. ASSUME NEW s \in SUBSET S PROVE Unfold(f, s, g) \in Int
      BY <2>1 DEF Unfold
    <3> QED BY <3>1
  <2>3. ASSUME NEW s \in SUBSET S, Cardinality(s) <= n + 1, s # {}
        PROVE  h[s] = Unfold(f, s, h)
    <3> DEFINE x == CHOOSE x \in s : TRUE
    <3>1. x \in s
      BY <2>3
    <3>2. s \ {x} \in SUBSET S /\ Cardinality(s \ {x}) <= n
      <4> HIDE DEF x
      <4>1. Cardinality(s \ {x}) = Cardinality(s) - 1
        BY <1>1, <3>1, FS_RemoveElement
      <4>2. Cardinality(s) \in Nat /\ n \in Nat
        BY <1>1
      <4> QED BY <2>3, <4>1, <4>2
    <3>3. g[s \ {x}] = h[s \ {x}]
      BY <2>1, <3>2
    <3> QED BY <2>3, <3>3 DEF Unfold
  <2>4. Good(h, n + 1)
    BY <2>3 DEF Unfold
  <2> HIDE DEF h, Good
  <2>5. n + 1 \in Nat
    BY <1>3
  <2> QED BY <2>2, <2>4, <2>5
<1>4. Cardinality(S) \in T
  <2> HIDE DEF T
  <2> QED BY <1>1, <1>2, <1>3, SetInduction
<1> QED BY <1>1, <1>4

\* It is unique, over a set and over the subsets of it.
LEMMA FoldUnique ==
  ASSUME NEW S, IsFiniteSet(S), NEW R, R \subseteq S, NEW f, \A x \in S : f[x] \in Int,
         NEW g, \A s \in SUBSET S : g[s] = Unfold(f, s, g),
         NEW h, \A s \in SUBSET R : h[s] = Unfold(f, s, h)
  PROVE  \A s \in SUBSET R : h[s] = g[s] /\ g[s] \in Int
<1> DEFINE T == {n \in Nat : \A s \in SUBSET R : Cardinality(s) = n => h[s] = g[s] /\ g[s] \in Int}
<1>1. \A s \in SUBSET R : IsFiniteSet(s) /\ Cardinality(s) \in Nat
  BY FS_Subset, FS_CardinalityType
<1>2. 0 \in T
  <2>1. \A s \in SUBSET R : Cardinality(s) = 0 => s = {}
    BY <1>1, FS_EmptySet
  <2>2. h[{}] = 0 /\ g[{}] = 0
    BY DEF Unfold
  <2>3. ASSUME NEW s \in SUBSET R, Cardinality(s) = 0
        PROVE  h[s] = g[s] /\ g[s] \in Int
    <3>1. s = {}
      BY <2>1, <2>3
    <3> QED BY <2>2, <3>1
  <2> QED BY <2>3
<1>3. ASSUME NEW n \in T \cap Nat PROVE n + 1 \in T
  <2> SUFFICES ASSUME NEW s \in SUBSET R, Cardinality(s) = n + 1
               PROVE  h[s] = g[s] /\ g[s] \in Int
    OBVIOUS
  <2> DEFINE x == CHOOSE x \in s : TRUE
  <2>1. s # {} /\ x \in s
    <3>1. Cardinality(s) # 0
      BY <1>3
    <3> QED BY <3>1, FS_EmptySet
  <2>2. h[s] = f[x] + h[s \ {x}] /\ g[s] = f[x] + g[s \ {x}]
    BY <2>1 DEF Unfold
  <2> HIDE DEF x
  <2>3. s \ {x} \in SUBSET R /\ Cardinality(s \ {x}) = n
    <3>1. Cardinality(s \ {x}) = Cardinality(s) - 1
      BY <1>1, <2>1, FS_RemoveElement
    <3> QED BY <3>1
  <2>4. h[s \ {x}] = g[s \ {x}] /\ g[s \ {x}] \in Int
    BY <2>3
  <2>5. f[x] \in Int
    BY <2>1
  <2> QED BY <2>2, <2>4, <2>5
<1>4. Nat \subseteq T
  <2> HIDE DEF T
  <2> QED BY <1>2, <1>3, SetInduction
<1> QED BY <1>1, <1>4

\* The fold's recursive function is that one.
LEMMA SumIsFold ==
  ASSUME NEW S, IsFiniteSet(S), NEW f, \A x \in S : f[x] \in Int,
         NEW g, \A s \in SUBSET S : g[s] = Unfold(f, s, g)
  PROVE  SumOver(f, S) = g[S] /\ g[S] \in Int
<1> DEFINE Fold(h) == h = [s \in SUBSET S |->
                             IF s = {} THEN 0 ELSE LET x == CHOOSE x \in s : TRUE IN f[x] + h[s \ {x}]]
           iter == CHOOSE h : Fold(h)
<1>1. \E h : Fold(h)
  <2>1. PICK h \in [SUBSET S -> Int] : \A s \in SUBSET S : h[s] = Unfold(f, s, h)
    BY FoldExists
  <2>2. h = [s \in SUBSET S |-> Unfold(f, s, h)]
    BY <2>1
  <2> QED BY <2>2 DEF Unfold
<1>2. Fold(iter)
  BY <1>1
<1>3. SumOver(f, S) = iter[S]
  BY DEF SumOver, MapThenSumSet, MapThenFoldSet
<1>4. \A s \in SUBSET S : iter[s] = Unfold(f, s, iter)
  BY <1>2 DEF Unfold
<1> HIDE DEF iter
<1> QED BY <1>3, <1>4, FoldUnique

LEMMA SumUnfolds ==
  ASSUME NEW S, IsFiniteSet(S), NEW f, \A x \in S : f[x] \in Int
  PROVE  /\ SumOver(f, S) \in Int
         /\ S = {} => SumOver(f, S) = 0
         /\ S # {} => LET x == CHOOSE x \in S : TRUE IN SumOver(f, S) = f[x] + SumOver(f, S \ {x})
<1>1. PICK g \in [SUBSET S -> Int] : \A s \in SUBSET S : g[s] = Unfold(f, s, g)
  BY FoldExists
<1>2. ASSUME NEW R \in SUBSET S PROVE SumOver(f, R) = g[R] /\ g[R] \in Int
  <2>1. IsFiniteSet(R)
    BY FS_Subset
  <2>2. \A s \in SUBSET R : g[s] = Unfold(f, s, g)
    BY <1>1
  <2> QED BY <2>1, <2>2, SumIsFold
<1>3. g[S] = Unfold(f, S, g)
  BY <1>1
<1> QED BY <1>2, <1>3 DEF Unfold

\* Any element may be taken out first.
LEMMA SumRemove ==
  ASSUME NEW S, IsFiniteSet(S), NEW f, \A x \in S : f[x] \in Int
  PROVE  \A x \in S : SumOver(f, S) = f[x] + SumOver(f, S \ {x})
<1> DEFINE T == {n \in Nat : \A s \in SUBSET S : Cardinality(s) = n =>
                              \A x \in s : SumOver(f, s) = f[x] + SumOver(f, s \ {x})}
<1>1. \A s \in SUBSET S : IsFiniteSet(s) /\ Cardinality(s) \in Nat
  BY FS_Subset, FS_CardinalityType
<1>2. 0 \in T
  <2>1. \A s \in SUBSET S : Cardinality(s) = 0 => s = {}
    BY <1>1, FS_EmptySet
  <2> QED BY <2>1
<1>3. ASSUME NEW n \in T \cap Nat PROVE n + 1 \in T
  <2> SUFFICES ASSUME NEW s \in SUBSET S, Cardinality(s) = n + 1, NEW x \in s
               PROVE  SumOver(f, s) = f[x] + SumOver(f, s \ {x})
    OBVIOUS
  <2> DEFINE c == CHOOSE c \in s : TRUE
  <2>1. c \in s
    OBVIOUS
  <2>2. IsFiniteSet(s) /\ \A y \in s : f[y] \in Int
    BY <1>1
  <2>3. SumOver(f, s) = f[c] + SumOver(f, s \ {c})
    BY <2>1, <2>2, SumUnfolds
  <2> HIDE DEF c
  <2>4. CASE x = c
    BY <2>3, <2>4
  <2>5. CASE x # c
    <3>1. ASSUME NEW y \in s PROVE s \ {y} \in SUBSET S /\ Cardinality(s \ {y}) = n
      <4>1. Cardinality(s \ {y}) = Cardinality(s) - 1
        BY <2>2, FS_RemoveElement
      <4> QED BY <4>1
    <3>2. SumOver(f, s \ {c}) = f[x] + SumOver(f, (s \ {c}) \ {x})
      BY <2>1, <2>5, <3>1
    <3>3. SumOver(f, s \ {x}) = f[c] + SumOver(f, (s \ {x}) \ {c})
      BY <2>1, <2>5, <3>1
    <3>4. (s \ {c}) \ {x} = (s \ {x}) \ {c}
      OBVIOUS
    <3>5. SumOver(f, (s \ {c}) \ {x}) \in Int
      <4>1. IsFiniteSet((s \ {c}) \ {x}) /\ \A y \in (s \ {c}) \ {x} : f[y] \in Int
        BY <2>2, FS_RemoveElement
      <4> QED BY <4>1, SumUnfolds
    <3>6. f[x] \in Int /\ f[c] \in Int
      BY <2>1, <2>2
    <3>7. \A a, b, r \in Int : b + (a + r) = a + (b + r)
      OBVIOUS
    <3>8. f[c] + (f[x] + SumOver(f, (s \ {c}) \ {x})) = f[x] + (f[c] + SumOver(f, (s \ {c}) \ {x}))
      BY ONLY <3>5, <3>6, <3>7
    <3> QED BY ONLY <2>3, <3>2, <3>3, <3>4, <3>8, Zenon
  <2> QED BY <2>4, <2>5
<1>4. Cardinality(S) \in T
  <2> HIDE DEF T
  <2> QED BY <1>1, <1>2, <1>3, SetInduction
<1> QED BY <1>1, <1>4

\* What a sum of integers is an integer of, and what it is over no elements.
LEMMA SumType ==
  ASSUME NEW S, IsFiniteSet(S), NEW f, \A x \in S : f[x] \in Int
  PROVE  SumOver(f, S) \in Int
BY SumUnfolds

LEMMA SumEmpty ==
  ASSUME NEW f PROVE SumOver(f, {}) = 0
<1>1. IsFiniteSet({})
  BY FS_EmptySet
<1> QED BY <1>1, SumUnfolds

\* A sum of sums.
LEMMA SumPlus ==
  ASSUME NEW S, IsFiniteSet(S), NEW f, NEW g, NEW h,
         \A x \in S : f[x] \in Int /\ g[x] \in Int /\ h[x] = f[x] + g[x]
  PROVE  SumOver(h, S) = SumOver(f, S) + SumOver(g, S)
<1> DEFINE T == {n \in Nat : \A s \in SUBSET S : Cardinality(s) = n =>
                              SumOver(h, s) = SumOver(f, s) + SumOver(g, s)}
<1>1. \A s \in SUBSET S : IsFiniteSet(s) /\ Cardinality(s) \in Nat
  BY FS_Subset, FS_CardinalityType
<1>2. 0 \in T
  <2>1. \A s \in SUBSET S : Cardinality(s) = 0 => s = {}
    BY <1>1, FS_EmptySet
  <2>2. SumOver(h, {}) = SumOver(f, {}) + SumOver(g, {})
    BY SumEmpty
  <2>3. ASSUME NEW s \in SUBSET S, Cardinality(s) = 0
        PROVE  SumOver(h, s) = SumOver(f, s) + SumOver(g, s)
    <3>1. s = {}
      BY <2>1, <2>3
    <3> QED BY <2>2, <3>1
  <2> QED BY <2>3
<1>3. ASSUME NEW n \in T \cap Nat PROVE n + 1 \in T
  <2> SUFFICES ASSUME NEW s \in SUBSET S, Cardinality(s) = n + 1
               PROVE  SumOver(h, s) = SumOver(f, s) + SumOver(g, s)
    BY <1>3
  <2>1. PICK x \in s : TRUE
    <3>1. Cardinality(s) # 0
      BY <1>3
    <3> QED BY <3>1, FS_EmptySet
  <2>2. s \ {x} \in SUBSET S /\ Cardinality(s \ {x}) = n
    <3>1. Cardinality(s \ {x}) = Cardinality(s) - 1
      BY <1>1, <2>1, FS_RemoveElement
    <3> QED BY <1>3, <3>1
  <2>3. SumOver(h, s \ {x}) = SumOver(f, s \ {x}) + SumOver(g, s \ {x})
    BY <1>3, <2>2
  <2>4. /\ IsFiniteSet(s) /\ IsFiniteSet(s \ {x})
        /\ \A y \in s : f[y] \in Int /\ g[y] \in Int /\ h[y] \in Int
    BY <1>1, <2>2
  <2>5. SumOver(h, s) = h[x] + SumOver(h, s \ {x})
    BY <2>1, <2>4, SumRemove
  <2>6. SumOver(f, s) = f[x] + SumOver(f, s \ {x})
    BY <2>1, <2>4, SumRemove
  <2>7. SumOver(g, s) = g[x] + SumOver(g, s \ {x})
    BY <2>1, <2>4, SumRemove
  <2>8. SumOver(f, s \ {x}) \in Int /\ SumOver(g, s \ {x}) \in Int
    BY <2>4, SumType
  <2>9. f[x] \in Int /\ g[x] \in Int /\ h[x] = f[x] + g[x]
    BY <2>1
  <2>10. \A a, b, c, d \in Int : (a + b) + (c + d) = (a + c) + (b + d)
    OBVIOUS
  <2>11. (f[x] + g[x]) + (SumOver(f, s \ {x}) + SumOver(g, s \ {x}))
           = (f[x] + SumOver(f, s \ {x})) + (g[x] + SumOver(g, s \ {x}))
    BY ONLY <2>8, <2>9, <2>10
  <2> QED BY ONLY <2>3, <2>5, <2>6, <2>7, <2>9, <2>11, Zenon
<1>4. Cardinality(S) \in T
  <2> HIDE DEF T
  <2> QED BY <1>1, <1>2, <1>3, SetInduction
<1> QED BY <1>1, <1>4

\* Nothing adds up to nothing.
LEMMA SumZero ==
  ASSUME NEW S, IsFiniteSet(S), NEW f, \A x \in S : f[x] = 0
  PROVE  SumOver(f, S) = 0
<1>1. SumOver(f, S) = SumOver(f, S) + SumOver(f, S)
  <2>1. \A x \in S : f[x] \in Int /\ f[x] \in Int /\ f[x] = f[x] + f[x]
    OBVIOUS
  <2> QED BY <2>1, SumPlus
<1>2. SumOver(f, S) \in Int
  BY SumType
<1>3. \A a \in Int : a = a + a => a = 0
  OBVIOUS
<1> QED BY ONLY <1>1, <1>2, <1>3

\* Only the values over the set count.
LEMMA SumEqual ==
  ASSUME NEW S, IsFiniteSet(S), NEW f, NEW g, \A x \in S : f[x] \in Int /\ g[x] = f[x]
  PROVE  SumOver(g, S) = SumOver(f, S)
<1> DEFINE z == [x \in S |-> 0]
<1>1. \A x \in S : f[x] \in Int /\ z[x] \in Int /\ g[x] = f[x] + z[x]
  OBVIOUS
<1>2. SumOver(z, S) = 0
  BY SumZero
<1> HIDE DEF z
<1>3. SumOver(g, S) = SumOver(f, S) + SumOver(z, S)
  BY <1>1, SumPlus
<1>4. SumOver(f, S) \in Int
  BY <1>1, SumType
<1> QED BY <1>2, <1>3, <1>4

\* A set in two parts.
LEMMA SumSplit ==
  ASSUME NEW S, IsFiniteSet(S), NEW R, R \subseteq S, NEW f, \A x \in S : f[x] \in Int
  PROVE  SumOver(f, S) = SumOver(f, R) + SumOver(f, S \ R)
<1> DEFINE T == {n \in Nat : \A s \in SUBSET S : Cardinality(s) = n =>
                              SumOver(f, s) = SumOver(f, s \cap R) + SumOver(f, s \ R)}
<1>1. \A s \in SUBSET S : IsFiniteSet(s) /\ Cardinality(s) \in Nat
  BY FS_Subset, FS_CardinalityType
<1>2. 0 \in T
  <2>1. \A s \in SUBSET S : Cardinality(s) = 0 => s = {}
    BY <1>1, FS_EmptySet
  <2>2. {} \cap R = {} /\ {} \ R = {}
    OBVIOUS
  <2>3. SumOver(f, {}) = 0
    BY SumEmpty
  <2>4. SumOver(f, {}) = SumOver(f, {} \cap R) + SumOver(f, {} \ R)
    BY <2>2, <2>3
  <2>5. ASSUME NEW s \in SUBSET S, Cardinality(s) = 0
        PROVE  SumOver(f, s) = SumOver(f, s \cap R) + SumOver(f, s \ R)
    <3>1. s = {}
      BY <2>1, <2>5
    <3> QED BY <2>4, <3>1
  <2> QED BY <2>5
<1>3. ASSUME NEW n \in T \cap Nat PROVE n + 1 \in T
  <2> SUFFICES ASSUME NEW s \in SUBSET S, Cardinality(s) = n + 1
               PROVE  SumOver(f, s) = SumOver(f, s \cap R) + SumOver(f, s \ R)
    BY <1>3
  <2>1. PICK x \in s : TRUE
    <3>1. Cardinality(s) # 0
      BY <1>3
    <3> QED BY <3>1, FS_EmptySet
  <2> DEFINE q == s \ {x}
  <2>2. q \in SUBSET S /\ Cardinality(q) = n
    <3>1. Cardinality(s \ {x}) = Cardinality(s) - 1
      BY <1>1, <2>1, FS_RemoveElement
    <3> QED BY <1>3, <3>1
  <2>3. SumOver(f, q) = SumOver(f, q \cap R) + SumOver(f, q \ R)
    BY <1>3, <2>2
  <2>4. /\ q \cap R \in SUBSET S /\ q \ R \in SUBSET S /\ s \cap R \in SUBSET S /\ s \ R \in SUBSET S
    OBVIOUS
  <2>5. /\ SumOver(f, q \cap R) \in Int /\ SumOver(f, q \ R) \in Int /\ f[x] \in Int
    BY <1>1, <2>1, <2>4, SumType
  <2>6. SumOver(f, s) = f[x] + SumOver(f, q)
    BY <1>1, <2>1, SumRemove
  <2>7. CASE x \in R
    <3>1. (s \cap R) \ {x} = q \cap R /\ s \ R = q \ R /\ x \in s \cap R
      BY <2>1, <2>7
    <3>2. SumOver(f, s \cap R) = f[x] + SumOver(f, (s \cap R) \ {x})
      BY <1>1, <2>4, <3>1, SumRemove
    <3>3. \A a, b, c \in Int : a + (b + c) = (a + b) + c
      OBVIOUS
    <3> HIDE DEF q
    <3>4. f[x] + (SumOver(f, q \cap R) + SumOver(f, q \ R)) = (f[x] + SumOver(f, q \cap R)) + SumOver(f, q \ R)
      BY ONLY <2>5, <3>3
    <3> QED BY ONLY <2>3, <2>6, <3>1, <3>2, <3>4, Zenon
  <2>8. CASE x \notin R
    <3>1. (s \ R) \ {x} = q \ R /\ s \cap R = q \cap R /\ x \in s \ R
      BY <2>1, <2>8
    <3>2. SumOver(f, s \ R) = f[x] + SumOver(f, (s \ R) \ {x})
      BY <1>1, <2>4, <3>1, SumRemove
    <3>3. \A a, b, c \in Int : a + (b + c) = b + (a + c)
      OBVIOUS
    <3> HIDE DEF q
    <3>4. f[x] + (SumOver(f, q \cap R) + SumOver(f, q \ R)) = SumOver(f, q \cap R) + (f[x] + SumOver(f, q \ R))
      BY ONLY <2>5, <3>3
    <3> QED BY ONLY <2>3, <2>6, <3>1, <3>2, <3>4, Zenon
  <2> QED BY <2>7, <2>8
<1>4. Cardinality(S) \in T
  <2> HIDE DEF T
  <2> QED BY <1>1, <1>2, <1>3, SetInduction
<1>5. S \cap R = R
  OBVIOUS
<1> QED BY <1>1, <1>4, <1>5

\* Natural numbers add up to a natural number.
LEMMA SumNat ==
  ASSUME NEW S, IsFiniteSet(S), NEW f, \A x \in S : f[x] \in Nat
  PROVE  SumOver(f, S) \in Nat
<1> DEFINE T == {n \in Nat : \A s \in SUBSET S : Cardinality(s) = n => SumOver(f, s) \in Nat}
<1>1. \A s \in SUBSET S : IsFiniteSet(s) /\ Cardinality(s) \in Nat
  BY FS_Subset, FS_CardinalityType
<1>2. 0 \in T
  <2>1. \A s \in SUBSET S : Cardinality(s) = 0 => s = {}
    BY <1>1, FS_EmptySet
  <2> QED BY <2>1, SumEmpty
<1>3. ASSUME NEW n \in T \cap Nat PROVE n + 1 \in T
  <2> SUFFICES ASSUME NEW s \in SUBSET S, Cardinality(s) = n + 1 PROVE SumOver(f, s) \in Nat
    BY <1>3
  <2>1. PICK x \in s : TRUE
    <3>1. Cardinality(s) # 0
      BY <1>3
    <3> QED BY <3>1, FS_EmptySet
  <2>2. s \ {x} \in SUBSET S /\ Cardinality(s \ {x}) = n
    <3>1. Cardinality(s \ {x}) = Cardinality(s) - 1
      BY <1>1, <2>1, FS_RemoveElement
    <3> QED BY <1>3, <3>1
  <2>3. SumOver(f, s \ {x}) \in Nat
    BY <1>3, <2>2
  <2>4. SumOver(f, s) = f[x] + SumOver(f, s \ {x})
    BY <1>1, <2>1, SumRemove
  <2> QED BY <2>1, <2>3, <2>4
<1>4. Cardinality(S) \in T
  <2> HIDE DEF T
  <2> QED BY <1>1, <1>2, <1>3, SetInduction
<1> QED BY <1>1, <1>4
-----------------------------------------------------------------------------
\* A recursion over the subsets of a finite set, like that of a left fold: F
\* takes the last element, c[s], into the result for the others.
Rec(base, F, c, s, g) == IF s = {} THEN base ELSE F[<<g[s \ {c[s]}], c[s]>>]
Recursive(g, base, F, c, A, S) ==
  g \in [SUBSET S -> A] /\ \A s \in SUBSET S : g[s] = Rec(base, F, c, s, g)

Chooses(c, S) == \A s \in SUBSET S : s # {} => c[s] \in s
Within(F, A, S) == \A a \in A, x \in S : F[<<a, x>>] \in A

LEMMA RecursionExists ==
  ASSUME NEW S, IsFiniteSet(S), NEW c, Chooses(c, S),
         NEW A, NEW base, base \in A, NEW F, Within(F, A, S)
  PROVE  \E g : Recursive(g, base, F, c, A, S)
<1> USE DEF Chooses, Within
<1> DEFINE Good(g, n) == \A s \in SUBSET S : Cardinality(s) <= n => g[s] = Rec(base, F, c, s, g)
           T == {n \in Nat : \E g \in [SUBSET S -> A] : Good(g, n)}
<1>1. \A s \in SUBSET S : IsFiniteSet(s) /\ Cardinality(s) \in Nat /\ Cardinality(s) <= Cardinality(S)
  BY FS_Subset, FS_CardinalityType
<1>2. 0 \in T
  <2>1. [s \in SUBSET S |-> base] \in [SUBSET S -> A]
    OBVIOUS
  <2>2. \A s \in SUBSET S : Cardinality(s) <= 0 => s = {}
    BY <1>1, FS_EmptySet
  <2>3. Good([s \in SUBSET S |-> base], 0)
    BY <2>2 DEF Rec
  <2> QED BY <2>1, <2>3
<1>3. ASSUME NEW n \in T \cap Nat PROVE n + 1 \in T
  <2>1. PICK g \in [SUBSET S -> A] : Good(g, n)
    BY <1>3
  <2> DEFINE h == [s \in SUBSET S |-> Rec(base, F, c, s, g)]
  <2>2. h \in [SUBSET S -> A]
    <3>1. ASSUME NEW s \in SUBSET S PROVE Rec(base, F, c, s, g) \in A
      <4>1. CASE s = {}
        BY <4>1 DEF Rec
      <4>2. CASE s # {}
        <5>1. c[s] \in S /\ g[s \ {c[s]}] \in A
          BY <2>1, <4>2
        <5> QED BY <4>2, <5>1 DEF Rec
      <4> QED BY <4>1, <4>2
    <3> QED BY <3>1
  <2>3. ASSUME NEW s \in SUBSET S, Cardinality(s) <= n + 1, s # {}
        PROVE  h[s] = Rec(base, F, c, s, h)
    <3>1. c[s] \in s
      BY <2>3
    <3>2. s \ {c[s]} \in SUBSET S /\ Cardinality(s \ {c[s]}) <= n
      <4>1. Cardinality(s \ {c[s]}) = Cardinality(s) - 1
        BY <1>1, <3>1, FS_RemoveElement
      <4>2. Cardinality(s) \in Nat /\ n \in Nat
        BY <1>1, <1>3
      <4> QED BY <2>3, <4>1, <4>2
    <3>3. g[s \ {c[s]}] = h[s \ {c[s]}]
      BY <2>1, <3>2
    <3> QED BY <2>3, <3>3 DEF Rec
  <2>4. Good(h, n + 1)
    BY <2>3 DEF Rec
  <2> HIDE DEF h, Good
  <2>5. n + 1 \in Nat
    BY <1>3
  <2> QED BY <2>2, <2>4, <2>5
<1>4. Cardinality(S) \in T
  <2> HIDE DEF T
  <2> QED BY <1>1, <1>2, <1>3, SetInduction
<1> QED BY <1>1, <1>4 DEF Recursive

\* What the base has and each step keeps, the result has.
LEMMA RecursionKeeps ==
  ASSUME NEW S, IsFiniteSet(S), NEW c, Chooses(c, S),
         NEW A, NEW h, h[{}] \in A,
         \A s \in SUBSET S : s # {} /\ h[s \ {c[s]}] \in A => h[s] \in A
  PROVE  \A s \in SUBSET S : h[s] \in A
<1> DEFINE T == {n \in Nat : \A s \in SUBSET S : Cardinality(s) = n => h[s] \in A}
<1>1. \A s \in SUBSET S : IsFiniteSet(s) /\ Cardinality(s) \in Nat
  BY FS_Subset, FS_CardinalityType
<1>2. 0 \in T
  <2>1. \A s \in SUBSET S : Cardinality(s) = 0 => s = {}
    BY <1>1, FS_EmptySet
  <2> QED BY <2>1
<1>3. ASSUME NEW n \in T \cap Nat PROVE n + 1 \in T
  <2> SUFFICES ASSUME NEW s \in SUBSET S, Cardinality(s) = n + 1 PROVE h[s] \in A
    BY <1>3
  <2>1. s # {}
    <3>1. Cardinality(s) # 0
      BY <1>3
    <3> QED BY <3>1, FS_EmptySet
  <2>2. c[s] \in s
    BY <2>1 DEF Chooses
  <2>3. s \ {c[s]} \in SUBSET S /\ Cardinality(s \ {c[s]}) = n
    <3>1. Cardinality(s \ {c[s]}) = Cardinality(s) - 1
      BY <1>1, <2>2, FS_RemoveElement
    <3> QED BY <1>3, <3>1
  <2>4. h[s \ {c[s]}] \in A
    BY <1>3, <2>3
  <2> QED BY <2>1, <2>4
<1>4. Nat \subseteq T
  <2> HIDE DEF T
  <2> QED BY <1>2, <1>3, SetInduction
<1> QED BY <1>1, <1>4

\* A left fold goes by the last index.
LEMMA LastIndex ==
  ASSUME NEW n \in Nat, NEW s \in SUBSET (1 .. n), s # {}
  PROVE  Max(s) \in s
<1> DEFINE T == {n - x : x \in s}
<1>1. T \subseteq Nat /\ T # {}
  <2>1. \A x \in s : n - x \in Nat
    OBVIOUS
  <2>2. PICK x \in s : TRUE
    OBVIOUS
  <2> QED BY <2>1, <2>2
<1>2. PICK m \in T : \A k \in T : m <= k
  <2> HIDE DEF T
  <2> QED BY <1>1, LeastNatural
<1>3. PICK x \in s : m = n - x
  BY <1>2
<1>4. ASSUME NEW y \in s PROVE x >= y
  <2>1. n - y \in T
    OBVIOUS
  <2>2. n - x <= n - y
    BY <1>2, <1>3, <2>1
  <2>3. x \in Int /\ y \in Int
    OBVIOUS
  <2> QED BY <2>2, <2>3
<1> QED BY <1>4 DEF Max
-----------------------------------------------------------------------------
\* Items listed by their numbers are each listed once.
Lists(l, seq, K, p) ==
  LET n == Cardinality(K)
  IN  /\ p \in [1 .. n -> K]
      /\ \A k, m \in 1 .. n : p[k] = p[m] => k = m
      /\ \A i \in K : \E k \in 1 .. n : p[k] = i
      /\ l = [k \in 1 .. n |-> seq[p[k]]]

LEMMA ListedOnce ==
  ASSUME NEW seq, NEW key, IsFiniteSet(DOMAIN key),
         \A i \in DOMAIN key : key[i] \in Int,
         \A i, j \in DOMAIN key : key[i] = key[j] => i = j
  PROVE  \E p : Lists(Listed(seq, key), seq, DOMAIN key, p)
<1> DEFINE K == DOMAIN key
           n == Cardinality(K)
           Upto(i) == {j \in K : key[j] <= key[i]}
           r == [i \in K |-> Cardinality(Upto(i))]
           p == [k \in 1 .. n |-> CHOOSE i \in K : r[i] = k]
<1>1. n \in Nat /\ \A i \in K : IsFiniteSet(Upto(i)) /\ Cardinality(Upto(i)) \in 1 .. n
  <2>1. n \in Nat
    BY FS_CardinalityType
  <2>2. ASSUME NEW i \in K PROVE IsFiniteSet(Upto(i)) /\ Cardinality(Upto(i)) \in 1 .. n
    <3>1. Upto(i) \in SUBSET K /\ i \in Upto(i)
      OBVIOUS
    <3> HIDE DEF Upto, K, n
    <3>2. IsFiniteSet(K)
      BY DEF K
    <3>3. IsFiniteSet(Upto(i)) /\ Cardinality(Upto(i)) <= n
      BY <3>1, <3>2, FS_Subset DEF n
    <3>4. Cardinality(Upto(i)) \in Nat /\ Cardinality(Upto(i)) # 0
      BY <3>1, <3>3, FS_CardinalityType, FS_EmptySet
    <3> QED BY <2>1, <3>3, <3>4
  <2> QED BY <2>1, <2>2
<1>2. ASSUME NEW i \in K, NEW j \in K, key[i] < key[j] PROVE r[i] # r[j]
  <2>1. Upto(i) \in SUBSET Upto(j) /\ j \in Upto(j) /\ j \notin Upto(i)
    BY <1>2
  <2>2. IsFiniteSet(Upto(j))
    BY <1>1
  <2> HIDE DEF Upto
  <2>3. Cardinality(Upto(i)) # Cardinality(Upto(j))
    BY <2>1, <2>2, FS_Subset
  <2> QED BY <2>3
<1>3. ASSUME NEW i \in K, NEW j \in K, i # j PROVE r[i] # r[j]
  <2>1. key[i] < key[j] \/ key[j] < key[i]
    BY <1>3
  <2> HIDE DEF r
  <2> QED BY <1>2, <2>1
<1>4. r \in [K -> 1 .. n]
  BY <1>1
<1> HIDE DEF r, Upto
<1>5. ASSUME NEW k \in 1 .. n PROVE \E i \in K : r[i] = k
  <2>1. r \in Injection(K, 1 .. n)
    BY <1>3, <1>4 DEF Injection, IsInjective
  <2>2. IsFiniteSet(1 .. n) /\ Cardinality(1 .. n) = n
    <3> HIDE DEF n
    <3> QED BY <1>1, FS_Interval
  <2>3. r \in Surjection(K, 1 .. n)
    <3> HIDE DEF K
    <3> QED BY <2>1, <2>2, FS_Injection
  <2> QED BY <2>3 DEF Surjection
<1>6. ASSUME NEW k \in 1 .. n PROVE p[k] \in K /\ r[p[k]] = k
  <2>1. p[k] = CHOOSE i \in K : r[i] = k
    OBVIOUS
  <2> HIDE DEF p, K, n
  <2> QED BY <1>5, <2>1
<1>7. Listed(seq, key) = [k \in 1 .. n |-> seq[p[k]]]
  <2>1. \A i \in K : Cardinality({j \in K : key[j] <= key[i]}) = r[i]
    BY DEF r, Upto
  <2>2. ASSUME NEW k \in 1 .. n
        PROVE  (CHOOSE i \in K : Cardinality({j \in K : key[j] <= key[i]}) = k) = CHOOSE i \in K : r[i] = k
    BY <2>1
  <2>3. Listed(seq, key) =
          [k \in 1 .. n |-> seq[CHOOSE i \in K : Cardinality({j \in K : key[j] <= key[i]}) = k]]
    BY DEF Listed
  <2> QED BY <2>2, <2>3
<1>8. p \in [1 .. n -> K]
  BY <1>6
<1>9. \A k, l \in 1 .. n : p[k] = p[l] => k = l
  <2> HIDE DEF p, n, K
  <2> QED BY <1>6
<1>10. ASSUME NEW i \in K PROVE \E k \in 1 .. n : p[k] = i
  <2>1. r[i] \in 1 .. n
    BY <1>4
  <2>2. p[r[i]] \in K /\ r[p[r[i]]] = r[i]
    BY <1>6, <2>1
  <2> HIDE DEF p, n, K
  <2> QED BY <1>3, <2>1, <2>2
<1> HIDE DEF p, K
<1>11. Lists(Listed(seq, key), seq, K, p)
  BY <1>7, <1>8, <1>9, <1>10 DEF Lists
<1> QED BY <1>11 DEF K

LEMMA ProductGap ==
  ASSUME NEW w \in Nat, NEW a \in Nat, NEW b \in Nat, a < b
  PROVE  w * a \in Nat /\ w * b \in Nat /\ w * b >= w * a + w
<1>1. PICK c \in Nat : b = a + 1 + c
  <2>1. b - a - 1 \in Nat /\ b = a + 1 + (b - a - 1)
    OBVIOUS
  <2> QED BY <2>1
<1>2. w * b = w * a + w + w * c
  BY <1>1
<1>3. w * c \in Nat /\ w * a \in Nat /\ w * b \in Nat
  OBVIOUS
<1> QED BY <1>2, <1>3
=============================================================================
