-------------------------- MODULE WorldTools_proofs --------------------------
(***************************************************************************)
(* The parts of WorldTools for any worlds, texts, goods and requests: the  *)
(* page shows the world that was picked and marks the rows that are wrong, *)
(* no trade makes or loses goods or is carried out twice, the server sends *)
(* maps of the planet asked for, bodies stay below the main world's tools, *)
(* markets answer from the dice they keep, a system has its main world     *)
(* once, with the planets and the satellites its rows ask for, and a map   *)
(* has its rivers run down to where they end.                              *)
(***************************************************************************)
EXTENDS WorldTools, SystemOrbits_proofs


-----------------------------------------------------------------------------
(* The world search (WorldSearch).                                         *)

LEMMA Removed ==
  ASSUME NEW S, NEW s \in Seq(S), NEW i \in 1 .. Len(s)
  PROVE  /\ RemoveAt(s, i) \in Seq(S) /\ Len(RemoveAt(s, i)) = Len(s) - 1
         /\ \A k \in 1 .. Len(s) - 1 : RemoveAt(s, i)[k] = IF k < i THEN s[k] ELSE s[k + 1]
<1>1. Len(s) \in Nat /\ \A k \in 1 .. Len(s) : s[k] \in S
  OBVIOUS
<1>2. PICK a, b : a = SubSeq(s, 1, i - 1) /\ b = SubSeq(s, i + 1, Len(s))
  OBVIOUS
<1>3. a \in Seq(S) /\ Len(a) = i - 1 /\ \A k \in 1 .. i - 1 : a[k] = s[k]
  <2>1. \A k \in 1 .. i - 1 : s[k] \in S
    OBVIOUS
  <2> QED BY <1>2, <2>1, SubSeqProperties
<1>4. b \in Seq(S) /\ Len(b) = Len(s) - i /\ \A k \in 1 .. Len(s) - i : b[k] = s[k + i]
  <2>1. \A k \in i + 1 .. Len(s) : s[k] \in S
    OBVIOUS
  <2>2. /\ SubSeq(s, i + 1, Len(s)) \in Seq(S)
        /\ Len(SubSeq(s, i + 1, Len(s))) = IF i + 1 <= Len(s) THEN Len(s) - (i + 1) + 1 ELSE 0
        /\ \A k \in 1 .. Len(s) - (i + 1) + 1 : SubSeq(s, i + 1, Len(s))[k] = s[i + 1 + k - 1]
    BY <2>1, <1>1, SubSeqProperties
  <2> QED BY <1>1, <1>2, <2>2
<1>5. RemoveAt(s, i) = a \o b
  BY <1>2 DEF RemoveAt
<1>6. /\ a \o b \in Seq(S) /\ Len(a \o b) = Len(s) - 1
      /\ \A k \in 1 .. Len(s) - 1 : (a \o b)[k] = IF k < i THEN s[k] ELSE s[k + 1]
  <2>1. a \o b \in Seq(S) /\ Len(a \o b) = Len(s) - 1
    <3>1. a \o b \in Seq(S) /\ Len(a \o b) = Len(a) + Len(b)
      BY <1>3, <1>4, ConcatProperties
    <3> QED BY <1>1, <1>3, <1>4, <3>1
  <2>2. ASSUME NEW k \in 1 .. Len(s) - 1
        PROVE  (a \o b)[k] = IF k < i THEN s[k] ELSE s[k + 1]
    <3>1. CASE k < i
      <4>1. k \in 1 .. Len(a)
        BY <1>1, <1>3, <3>1
      <4>2. (a \o b)[k] = a[k]
        BY <1>3, <1>4, <4>1
      <4> QED BY <1>3, <3>1, <4>1, <4>2
    <3>2. CASE ~(k < i)
      <4>1. k - (i - 1) \in 1 .. Len(s) - i /\ k \in Len(a) + 1 .. Len(a) + Len(b)
        BY <1>1, <1>3, <1>4, <3>2
      <4>2. (a \o b)[k] = b[k - Len(a)]
        BY <1>3, <1>4, <4>1
      <4>3. b[k - (i - 1)] = s[(k - (i - 1)) + i]
        BY <1>4, <4>1
      <4>4. (k - (i - 1)) + i = k + 1
        BY <1>1
      <4> QED BY <1>3, <3>2, <4>2, <4>3, <4>4
    <3> QED BY <3>1, <3>2
  <2> QED BY <2>1, <2>2
<1> QED BY <1>5, <1>6

LEMMA TextsOf ==
  /\ \A n \in Names : Bare(n) \in Texts /\ Bare(n).name = n /\ Bare(n).of = NoWorld
  /\ \A w \in Worlds : /\ Option(w) \in Texts /\ Bare(w.name) \in Texts /\ w.name \in Names
                       /\ Option(w).of = w
  /\ \A t \in Texts : t.name \in Names /\ (t.of = NoWorld \/ t.of \in Worlds)
<1>1. \A w \in Worlds : w.name \in Names
  BY SearchAssumption
<1>2. \A n \in Names : Bare(n) \in Texts /\ Bare(n).name = n /\ Bare(n).of = NoWorld
  BY DEF Texts, Bare
<1>3. \A w \in Worlds : Option(w) \in Texts /\ Option(w).of = w
  BY DEF Texts, Option
<1>4. ASSUME NEW t \in Texts PROVE t.name \in Names /\ (t.of = NoWorld \/ t.of \in Worlds)
  BY <1>1 DEF Texts, Bare, Option
<1> QED BY <1>1, <1>2, <1>3, <1>4

\* The first of a sequence with a property has the least index.
LEMMA LeastIndex ==
  ASSUME NEW T, T \subseteq Nat, T # {}
  PROVE  Min(T) \in T
BY LeastNatural DEF Min

\* pick_from: one of the worlds found, of the very name if there is one.
LEMMA PickedFromFound ==
  ASSUME NEW found \in Seq(Worlds), found # <<>>, NEW n
  PROVE  /\ PickFrom(found, n) \in Range(found) /\ PickFrom(found, n) \in Worlds
         /\ (\E w \in Range(found) : w.name = n) => PickFrom(found, n).name = n
<1> DEFINE same == {i \in DOMAIN found : found[i].name = n}
<1>1. DOMAIN found = 1 .. Len(found) /\ Len(found) \in Nat /\ Len(found) > 0
  OBVIOUS
<1>2. PICK k : k = IF same # {} THEN Min(same) ELSE 1
  OBVIOUS
<1>3. same # {} => Min(same) \in same
  <2>1. same \subseteq Nat
    BY <1>1
  <2> HIDE DEF same
  <2> QED BY <2>1, LeastIndex
<1>4. k \in DOMAIN found /\ (same # {} => found[k].name = n)
  BY <1>1, <1>2, <1>3
<1>5. PickFrom(found, n) = found[k]
  BY <1>2 DEF PickFrom
<1>6. (\E w \in Range(found) : w.name = n) => same # {}
  BY DEF Range
<1> HIDE DEF same
<1> QED BY <1>4, <1>5, <1>6 DEF Range

\* The shortest names are kept: those of the text searched for, if there are any.
IsAnswer(r, q) ==
  /\ r \in Seq(Worlds) /\ Len(r) <= Shown
  /\ r # <<>> => /\ q.of = NoWorld /\ Range(r) \subseteq Range(Atlas[q.name])
                 /\ (\E w \in Range(Atlas[q.name]) : w.name = q.name)
                       => \E w \in Range(r) : w.name = q.name

LEMMA AnswerOf ==
  ASSUME NEW q \in Texts, NEW r \in AnswersTo(q)
  PROVE  IsAnswer(r, q)
<1>1. PICK found : found = IF q.of = NoWorld THEN Atlas[q.name] ELSE <<>>
  OBVIOUS
<1>2. found \in Seq(Worlds) /\ q.name \in Names /\ Atlas[q.name] \in Seq(Worlds)
  BY <1>1, TextsOf, SearchAssumption
<1>3. found # <<>> => q.of = NoWorld /\ found = Atlas[q.name]
  BY <1>1
<1>0. r \in Cuts(found)
  <2>1. CASE q.of = NoWorld
    BY <1>1, <1>2, <2>1 DEF AnswersTo, Found
  <2>2. CASE q.of # NoWorld
    <3>1. r = found /\ Len(found) <= Shown
      BY <1>1, <2>2, SearchAssumption DEF AnswersTo
    <3> QED BY <3>1 DEF Cuts
  <2> QED BY <2>1, <2>2
<1>4. CASE Len(found) <= Shown
  <2>1. r = found
    BY <1>0, <1>4 DEF Cuts
  <2> QED BY <1>2, <1>3, <1>4, <2>1 DEF IsAnswer
<1>5. CASE ~(Len(found) <= Shown)
  <2>1. PICK p \in ByLength(found) : r = [k \in 1..Shown |-> found[p[k]]]
    BY <1>0, <1>5 DEF Cuts
  <2>2. Shown \in Nat /\ Shown > 0 /\ Len(found) \in Nat /\ Shown < Len(found)
    BY <1>2, <1>5, SearchAssumption
  <2>3. DOMAIN found = 1 .. Len(found) /\ \A k \in DOMAIN found : found[k] \in Worlds
    BY <1>2
  <2>4. p \in [DOMAIN found -> DOMAIN found] /\ \A t \in DOMAIN found : \E s \in DOMAIN found : p[s] = t
    BY <2>1 DEF ByLength, Bijection, Injection, Surjection
  <2>5. \A k \in 1 .. Shown : p[k] \in DOMAIN found /\ r[k] = found[p[k]] /\ r[k] \in Worlds
    <3> SUFFICES ASSUME NEW k \in 1 .. Shown
                 PROVE  p[k] \in DOMAIN found /\ r[k] = found[p[k]] /\ r[k] \in Worlds
      OBVIOUS
    <3>1. k \in DOMAIN found
      BY <2>2, <2>3
    <3>2. p[k] \in DOMAIN found
      BY <2>4, <3>1
    <3>3. r[k] = found[p[k]]
      BY <2>1
    <3> QED BY <2>3, <3>2, <3>3
  <2>6. r \in Seq(Worlds) /\ Len(r) = Shown /\ DOMAIN r = 1 .. Shown
    BY <2>1, <2>2, <2>5
  <2>7. Range(r) \subseteq Range(found)
    BY <2>5, <2>6 DEF Range
  <2>8. found = Atlas[q.name] /\ q.of = NoWorld
    BY <1>3, <2>2
  <2>9. ASSUME NEW w \in Range(Atlas[q.name]), w.name = q.name
        PROVE  \E v \in Range(r) : v.name = q.name
    <3>1. PICK t \in DOMAIN found : found[t] = w
      BY <2>8 DEF Range
    <3>2. PICK s \in DOMAIN found : p[s] = t
      BY <2>4
    <3>3. 1 \in DOMAIN found /\ p[1] \in DOMAIN found /\ r[1] = found[p[1]] /\ r[1] \in Range(r)
      BY <2>2, <2>3, <2>5, <2>6 DEF Range
    <3>4. CASE s = 1
      BY <2>9, <3>1, <3>2, <3>3, <3>4
    <3>5. CASE s # 1
      <4>1. 1 < s
        BY <2>3, <3>2, <3>5, <2>2
      <4>2. LET v == Length[found[p[1]].name]
                u == Length[found[p[s]].name]
            IN  v < u \/ (v = u /\ p[1] < p[s])
        BY <2>1, <3>2, <3>3, <4>1 DEF ByLength
      <4>3. found[p[s]].name = q.name
        BY <2>9, <3>1, <3>2
      <4>4. Length[r[1].name] <= Length[q.name]
        <5>1. r[1].name \in Names
          BY <2>5, <2>2, SearchAssumption
        <5>2. Length[r[1].name] \in Nat /\ Length[q.name] \in Nat
          BY <5>1, <1>2, SearchAssumption
        <5>3. \/ Length[r[1].name] < Length[q.name]
              \/ Length[r[1].name] = Length[q.name]
          BY <4>2, <4>3, <3>3
        <5> QED BY <5>2, <5>3
      <4>5. r[1] \in Range(Atlas[q.name])
        BY <2>7, <2>8, <3>3
      <4>6. r[1].name = q.name \/ Length[q.name] < Length[r[1].name]
        BY <1>2, <4>5, SearchAssumption
      <4>7. Length[r[1].name] \in Nat /\ Length[q.name] \in Nat
        <5>1. r[1].name \in Names
          BY <2>5, <2>2, SearchAssumption
        <5> QED BY <5>1, <1>2, SearchAssumption
      <4> QED BY <3>3, <4>4, <4>6, <4>7
    <3> QED BY <3>4, <3>5
  <2> QED BY <2>6, <2>7, <2>8, <2>9 DEF IsAnswer
<1> QED BY <1>4, <1>5

Place == Worlds \cup {NoWorld}

\* What a commit and the data of its world write.
FieldPart ==
  /\ name \in Texts /\ pickedFor \in Texts /\ lastCommitted \in Names /\ details \in Seq(Worlds)
  /\ coords \in Place /\ sector \in Place /\ uwp \in Place /\ zone \in Place
  /\ detail \in Place /\ picked \in Place
  /\ overlapped \in BOOLEAN /\ dataFailed \in BOOLEAN
  /\ PickedAsNamed
  /\ picked # NoWorld =>
       /\ name = Bare(picked.name) /\ coords = picked /\ sector = picked
       /\ \/ overlapped
          \/ details = <<picked>>
          \/ details = <<>> /\ dataFailed
          \/ details = <<>> /\ uwp = picked /\ zone = picked

\* What the search of the text in the field writes.
QueryPart ==
  /\ input \in Texts /\ resolved \in Texts /\ searches \in Seq(Texts) /\ loading \in BOOLEAN
  /\ IsAnswer(results, resolved)

SearchInv ==
  /\ FieldPart /\ QueryPart
  /\ lookups \in Seq(Names) /\ effort \in [type : Nat, commit : Nat, table : Nat]

LEMMA SearchInvSays == SearchInv => SearchTypeOK /\ PickedAsNamed /\ PickIsWhole
<1> SUFFICES ASSUME SearchInv PROVE SearchTypeOK /\ PickedAsNamed /\ PickIsWhole
  OBVIOUS
<1>1. SearchTypeOK
  BY DEF SearchInv, FieldPart, QueryPart, Place, IsAnswer, SearchTypeOK
<1>2. PickIsWhole
  <2> SUFFICES ASSUME picked # NoWorld, details = <<>>, ~overlapped, ~dataFailed
               PROVE  /\ name = Bare(picked.name)
                      /\ coords = picked /\ sector = picked /\ uwp = picked /\ zone = picked
    BY DEF PickIsWhole
  <2>1. details # <<picked>>
    OBVIOUS
  <2> QED BY <2>1 DEF SearchInv, FieldPart
<1> QED BY <1>1, <1>2 DEF SearchInv, FieldPart

LEMMA SearchStarts == SearchInit => SearchInv
<1> SUFFICES ASSUME SearchInit PROVE SearchInv
  OBVIOUS
<1> USE DEF SearchInit
<1>1. Empty \in Names
  BY SearchAssumption
<1>2. Bare(Empty) \in Texts
  BY <1>1, TextsOf
<1>3. FieldPart
  <2>1. picked = NoWorld /\ name = Bare(Empty) /\ pickedFor = Bare(Empty) /\ lastCommitted = Empty
    BY Zenon
  <2>2. details \in Seq(Worlds) /\ overlapped \in BOOLEAN /\ dataFailed \in BOOLEAN
    <3>1. details = <<>> /\ overlapped = FALSE /\ dataFailed = FALSE
      BY Zenon
    <3>2. <<>> \in Seq(Worlds)
      OBVIOUS
    <3>3. details \in Seq(Worlds)
      BY ONLY <3>1, <3>2, Zenon
    <3>4. overlapped \in BOOLEAN /\ dataFailed \in BOOLEAN
      BY ONLY <3>1
    <3> QED BY ONLY <3>3, <3>4
  <2>3. coords = NoWorld /\ sector = NoWorld /\ uwp = NoWorld /\ zone = NoWorld /\ detail = NoWorld
    BY Zenon
  <2> QED BY ONLY <1>1, <1>2, <2>1, <2>2, <2>3 DEF FieldPart, Place, PickedAsNamed
<1>4. IsAnswer(results, resolved)
  <2>1. results = <<>>
    BY Zenon
  <2> QED BY <2>1, SearchAssumption DEF IsAnswer
<1>5. QueryPart
  <2>1. input = Bare(Empty) /\ resolved = Bare(Empty) /\ searches = <<>> /\ loading = FALSE
    BY Zenon
  <2>2. <<>> \in Seq(Texts)
    OBVIOUS
  <2> QED BY ONLY <1>2, <1>4, <2>1, <2>2, Zenon DEF QueryPart
<1>6. lookups \in Seq(Names) /\ effort \in [type : Nat, commit : Nat, table : Nat]
  <2>1. effort \in Efforts
    BY Zenon
  <2> QED BY <2>1, SearchAssumption
<1> QED BY <1>3, <1>5, <1>6 DEF SearchInv

\* The world picked for a text is the suggestion's own, or the best found.
Fits(w, t) ==
  IF t.of # NoWorld THEN w = t.of
  ELSE /\ w \in Range(Atlas[t.name])
       /\ (\E v \in Range(Atlas[t.name]) : v.name = t.name) => w.name = t.name

LEMMA PickKeeps ==
  ASSUME FieldPart, NEW w \in Worlds, NEW t \in Texts, Fits(w, t), Pick(w, t)
  PROVE  FieldPart'
<1> USE DEF Pick
<1>1. Bare(w.name) \in Texts /\ w.name \in Names
  BY TextsOf
<1>2. details' \in Seq(Worlds)
  BY DEF FieldPart
<1>3. PickedAsNamed'
  BY DEF PickedAsNamed, Fits
<1>4. overlapped' \/ details' = <<picked'>>
  <2>1. overlapped' = (details # <<>>)
    OBVIOUS
  <2>2. details' = Append(details, w) /\ picked' = w
    OBVIOUS
  <2>3. details = <<>> => Append(details, w) = <<w>>
    OBVIOUS
  <2> QED BY ONLY <2>1, <2>2, <2>3, Zenon
<1>5. /\ name' = Bare(picked'.name) /\ coords' = picked' /\ sector' = picked'
      /\ overlapped' \in BOOLEAN /\ dataFailed' = FALSE /\ picked' = w
  OBVIOUS
<1>6. UNCHANGED <<uwp, zone, detail>> /\ name' \in Texts /\ pickedFor' \in Texts /\ lastCommitted' \in Names
  BY <1>1
<1> QED BY <1>2, <1>3, <1>4, <1>5, <1>6 DEF FieldPart, Place

LEMMA NoPickKeeps == ASSUME FieldPart, NoPick PROVE FieldPart'
BY DEF FieldPart, PickedAsNamed, NoPick, fields

LEMMA UnpickKeeps ==
  ASSUME FieldPart, Unpick, name' \in Texts, coords' \in Place, sector' \in Place, uwp' \in Place,
         zone' \in Place, detail' \in Place
  PROVE  FieldPart'
BY DEF FieldPart, PickedAsNamed, Unpick, Place

LEMMA HoldsKeeps ==
  ASSUME QueryPart, NEW t \in Texts, NEW between \in Texts, FieldHolds(t, between)
  PROVE  QueryPart'
<1> DEFINE queries == Asks(input, between) \o Asks(between, t)
<1>1. Asks(input, between) \in Seq(Texts) /\ Asks(between, t) \in Seq(Texts)
  BY DEF Asks
<1>2. queries \in Seq(Texts)
  BY <1>1
<1>3. input' = t /\ searches' = searches \o queries /\ loading' \in BOOLEAN
  BY DEF FieldHolds
<1>4. searches' \in Seq(Texts)
  <2> HIDE DEF queries
  <2> QED BY <1>2, <1>3 DEF QueryPart
<1>5. IsAnswer(results', resolved') /\ resolved' \in Texts
  <2>1. CASE results' = <<>> /\ resolved' = t
    BY <2>1, SearchAssumption DEF IsAnswer
  <2>2. CASE UNCHANGED <<results, resolved>>
    BY <2>2 DEF QueryPart
  <2> QED BY <2>1, <2>2 DEF FieldHolds
<1>6. IsAnswer(results, resolved)'
  BY <1>5 DEF IsAnswer
<1> QED BY <1>3, <1>4, <1>5, <1>6 DEF QueryPart

LEMMA QueryStays ==
  ASSUME QueryPart, UNCHANGED <<input, results, resolved, loading, searches>> PROVE QueryPart'
BY DEF QueryPart, IsAnswer

\* A step that leaves a lone pick's data neither under way nor void leaves it.
Settles ==
  \/ picked' = NoWorld
  \/ details' # <<>>
  \/ UNCHANGED <<picked, details, overlapped, dataFailed>>

LEMMA PickSettles ==
  ASSUME FieldPart, NEW w \in Worlds, NEW t, Pick(w, t) PROVE Settles
<1>1. details' = Append(details, w) /\ details \in Seq(Worlds)
  BY DEF Pick, FieldPart
<1>2. details' # <<>>
  BY ONLY <1>1
<1> QED BY <1>2 DEF Settles

\* do_commit, by each of its ways.
LEMMA CommitKeeps ==
  ASSUME SearchInv, NEW t \in Texts, DoCommit(t)
  PROVE  FieldPart' /\ QueryPart' /\ lookups' \in Seq(Names) /\ Settles
<1>0. FieldPart /\ QueryPart /\ lookups \in Seq(Names) /\ t.name \in Names
      /\ results \in Seq(Worlds) /\ IsAnswer(results, resolved)
  BY TextsOf DEF SearchInv, QueryPart, IsAnswer
<1>1. CASE /\ t.of # NoWorld /\ t.of \in Range(results)
           /\ Pick(t.of, t) /\ FieldHolds(Bare(t.name), t)
           /\ UNCHANGED lookups
  <2>1. t.of \in Worlds /\ Fits(t.of, t) /\ Bare(t.name) \in Texts
    BY <1>0, <1>1, TextsOf DEF Fits
  <2> QED BY <1>0, <1>1, <2>1, PickKeeps, PickSettles, HoldsKeeps
<1>2. CASE NoPick /\ FieldHolds(t, t) /\ (UNCHANGED lookups \/ lookups' = Append(lookups, t.name))
  <2>1. lookups' \in Seq(Names)
    BY <1>0, <1>2
  <2>2. Settles
    BY <1>2 DEF Settles, NoPick
  <2> QED BY <1>0, <1>2, <2>1, <2>2, NoPickKeeps, HoldsKeeps
<1>3. CASE /\ resolved = Bare(t.name) /\ results # <<>>
           /\ LET w == PickFrom(results, t.name)
              IN  Pick(w, Bare(t.name)) /\ FieldHolds(Bare(w.name), t)
           /\ UNCHANGED lookups
  <2>1. PICK w : w = PickFrom(results, t.name)
    OBVIOUS
  <2>2. w \in Worlds /\ w \in Range(results)
        /\ ((\E v \in Range(results) : v.name = t.name) => w.name = t.name)
    BY <1>0, <1>3, <2>1, PickedFromFound
  <2>3. Bare(t.name) \in Texts /\ Bare(w.name) \in Texts /\ resolved.name = t.name
    BY <1>0, <1>3, <2>2, TextsOf
  <2>4. /\ Range(results) \subseteq Range(Atlas[t.name])
        /\ (\E v \in Range(Atlas[t.name]) : v.name = t.name) => \E v \in Range(results) : v.name = t.name
    BY <1>0, <1>3, <2>3 DEF IsAnswer
  <2>5. Fits(w, Bare(t.name))
    <3>1. Bare(t.name).of = NoWorld /\ Bare(t.name).name = t.name
      BY <1>0, TextsOf
    <3> QED BY <2>2, <2>4, <3>1 DEF Fits
  <2>6. Pick(w, Bare(t.name)) /\ FieldHolds(Bare(w.name), t)
    BY <1>3, <2>1
  <2> QED BY <1>0, <1>3, <2>2, <2>3, <2>5, <2>6, PickKeeps, PickSettles, HoldsKeeps
<1> QED BY <1>1, <1>2, <1>3 DEF DoCommit

EffortType == effort \in [type : Nat, commit : Nat, table : Nat]

LEMMA EffortKeeps ==
  ASSUME EffortType, UserTypes \/ UserCommits \/ TableActs \/ UNCHANGED effort PROVE EffortType'
BY DEF EffortType, UserTypes, UserCommits, TableActs

LEMMA SearchUserKeeps ==
  ASSUME SearchInv, SearchUser PROVE SearchInv' /\ Settles
<1>0. /\ FieldPart /\ QueryPart /\ lookups \in Seq(Names) /\ EffortType /\ input \in Texts
  BY DEF SearchInv, QueryPart, EffortType
<1>1. ASSUME NEW n \in Names, Type(n) PROVE SearchInv' /\ Settles
  <2>1. Bare(n) \in Texts /\ QueryPart'
    BY <1>0, <1>1, TextsOf, HoldsKeeps DEF Type
  <2>2. FieldPart' /\ Settles
    <3>1. CASE n = Empty
      <4>1. /\ Unpick /\ name' = Bare(Empty) /\ coords' = NoWorld /\ zone' = NoWorld /\ sector' = NoWorld
            /\ uwp' = uwp /\ detail' = detail /\ picked' = NoWorld
        BY <1>1, <3>1 DEF Type, Unpick
      <4>2. /\ name' \in Texts /\ coords' \in Place /\ sector' \in Place /\ uwp' \in Place
            /\ zone' \in Place /\ detail' \in Place
        BY ONLY <4>1, <2>1, <3>1, <1>0 DEF Place, FieldPart
      <4> QED BY <1>0, <4>1, <4>2, UnpickKeeps DEF Settles
    <3>2. CASE n # Empty
      <4>1. NoPick
        BY <1>1, <3>2 DEF Type
      <4> QED BY <1>0, <4>1, NoPickKeeps DEF Settles, NoPick
    <3> QED BY <3>1, <3>2
  <2>3. lookups' \in Seq(Names) /\ EffortType'
    BY <1>0, <1>1, EffortKeeps DEF Type
  <2> QED BY <2>1, <2>2, <2>3 DEF SearchInv, EffortType
<1>2. ASSUME NEW t \in Texts, DoCommit(t), UserCommits PROVE SearchInv' /\ Settles
  BY <1>0, <1>2, CommitKeeps, EffortKeeps DEF SearchInv, EffortType
<1>3. ASSUME NEW w \in Worlds, Suggest(w) PROVE SearchInv' /\ Settles
  BY <1>2, <1>3, TextsOf DEF Suggest
<1>4. CASE Blur
  BY <1>0, <1>2, <1>4 DEF Blur
<1>5. CASE Enter
  <2>1. /\ Unpick /\ name' = input /\ UNCHANGED <<coords, sector, uwp, zone, detail>>
        /\ UNCHANGED <<input, results, resolved, loading, searches>> /\ UNCHANGED lookups
        /\ UserCommits /\ picked' = NoWorld
    BY <1>5 DEF Enter, Unpick
  <2>2. /\ name' \in Texts /\ coords' \in Place /\ sector' \in Place /\ uwp' \in Place
        /\ zone' \in Place /\ detail' \in Place
    BY <1>0, <2>1 DEF FieldPart
  <2>3. FieldPart' /\ QueryPart' /\ EffortType' /\ Settles
    BY <1>0, <2>1, <2>2, UnpickKeeps, QueryStays, EffortKeeps DEF Settles
  <2> QED BY <1>0, <2>1, <2>3 DEF SearchInv, EffortType
<1> QED BY <1>1, <1>3, <1>4, <1>5 DEF SearchUser

LEMMA LeavesOut ==
  ASSUME NEW S, NEW s \in Seq(S), NEW i \in 1 .. Len(s)
  PROVE  RemoveAt(s, i) \in Seq(S) /\ s[i] \in S
BY Removed

LEMMA ClearKeeps ==
  ASSUME FieldPart, QueryPart, ClearDownstream PROVE FieldPart' /\ QueryPart' /\ Settles
<1>1. /\ Unpick /\ coords' = NoWorld /\ sector' = NoWorld /\ UNCHANGED <<name, uwp, zone, detail>>
      /\ UNCHANGED <<input, results, resolved, loading, searches>> /\ picked' = NoWorld
  BY DEF ClearDownstream, Unpick
<1>2. /\ name' \in Texts /\ coords' \in Place /\ sector' \in Place /\ uwp' \in Place
      /\ zone' \in Place /\ detail' \in Place
  BY <1>1 DEF FieldPart, Place
<1> QED BY <1>1, <1>2, UnpickKeeps, QueryStays DEF Settles

LEMMA SearchReplyKeeps ==
  ASSUME SearchInv, SearchReply PROVE SearchInv' /\ Settles
<1>0. /\ FieldPart /\ QueryPart /\ lookups \in Seq(Names) /\ EffortType /\ searches \in Seq(Texts)
      /\ input \in Texts /\ resolved \in Texts /\ IsAnswer(results, resolved)
  BY DEF SearchInv, QueryPart, EffortType
<1>1. ASSUME NEW i \in 1..Len(searches), SearchAnswers(i) \/ SearchFails(i)
      PROVE  SearchInv' /\ Settles
  <2>1. searches' \in Seq(Texts) /\ searches[i] \in Texts
    BY <1>0, <1>1, LeavesOut DEF SearchAnswers, SearchFails
  <2>2. /\ UNCHANGED fields
        /\ UNCHANGED <<input, lastCommitted, lookups, details, picked, pickedFor, overlapped,
                       dataFailed, effort>>
        /\ loading' = FALSE
    BY <1>1 DEF SearchAnswers, SearchFails
  <2>3. NoPick
    BY <2>2 DEF NoPick
  <2>4. IsAnswer(results', resolved') /\ resolved' \in Texts
    <3>1. CASE SearchAnswers(i)
      BY <2>1, <3>1, AnswerOf DEF SearchAnswers
    <3>2. CASE SearchFails(i)
      BY <1>0, <3>2 DEF SearchFails
    <3> QED BY <1>1, <3>1, <3>2
  <2>5. IsAnswer(results, resolved)'
    BY <2>4 DEF IsAnswer
  <2>6. QueryPart'
    BY <1>0, <2>1, <2>2, <2>4, <2>5 DEF QueryPart
  <2>7. EffortType'
    BY <1>0, <2>2, EffortKeeps
  <2> QED BY <1>0, <2>2, <2>3, <2>6, <2>7, NoPickKeeps DEF SearchInv, Settles, EffortType
<1>2. ASSUME NEW i \in 1..Len(lookups), LookupAnswers(i) \/ LookupFails(i)
      PROVE  SearchInv' /\ Settles
  <2>1. PICK n : n = lookups[i]
    OBVIOUS
  <2>2. n \in Names /\ lookups' \in Seq(Names) /\ UNCHANGED effort
    BY <1>0, <1>2, <2>1, LeavesOut DEF LookupAnswers, LookupFails
  <2>3. EffortType'
    BY <1>0, <2>2, EffortKeeps
  <2>4. CASE ClearDownstream
    BY <1>0, <2>2, <2>3, <2>4, ClearKeeps DEF SearchInv, EffortType
  <2>5. CASE ~ClearDownstream
    <3>1. PICK w : w = PickFrom(Atlas[n], n)
      OBVIOUS
    <3>2. Atlas[n] # <<>> /\ Pick(w, Bare(n)) /\ FieldHolds(Bare(w.name), Bare(w.name))
      BY <1>2, <2>1, <2>5, <3>1 DEF LookupAnswers, LookupFails
    <3>3. Atlas[n] \in Seq(Worlds)
      BY <2>2, SearchAssumption
    <3>4. w \in Worlds /\ w \in Range(Atlas[n])
          /\ ((\E v \in Range(Atlas[n]) : v.name = n) => w.name = n)
      BY <3>1, <3>2, <3>3, PickedFromFound
    <3>5. /\ Bare(n) \in Texts /\ Bare(n).name = n /\ Bare(n).of = NoWorld /\ Bare(w.name) \in Texts
      BY <2>2, <3>4, TextsOf
    <3>6. Fits(w, Bare(n))
      BY <3>4, <3>5 DEF Fits
    <3>7. FieldPart' /\ QueryPart' /\ Settles
      BY <1>0, <3>2, <3>4, <3>5, <3>6, PickKeeps, HoldsKeeps, PickSettles
    <3> QED BY <2>2, <2>3, <3>7 DEF SearchInv, EffortType
  <2> QED BY <2>4, <2>5
<1> QED BY <1>1, <1>2 DEF SearchReply

\* The data of a world: the last of the pick's, if it was alone.
LEMMA OneLeft == ASSUME NEW S, NEW x \in S PROVE RemoveAt(<<x>>, 1) = <<>>
<1>1. PICK s : s = <<x>>
  OBVIOUS
<1>2. s \in Seq(S) /\ Len(s) = 1
  BY <1>1
<1>3. RemoveAt(s, 1) \in Seq(S) /\ Len(RemoveAt(s, 1)) = Len(s) - 1
  <2>1. 1 \in 1 .. Len(s)
    BY <1>2
  <2> QED BY <1>2, <2>1, Removed
<1>4. RemoveAt(s, 1) = <<>>
  BY <1>2, <1>3
<1> QED BY <1>1, <1>4

LEMMA DataKeeps ==
  ASSUME SearchInv, NEW i \in 1..Len(details), DataArrives(i) \/ DataFails(i)
  PROVE  /\ SearchInv'
         /\ picked' # NoWorld /\ details' = <<>> /\ ~overlapped' /\ ~dataFailed' =>
              DataArrives(i) /\ details[i] = picked' /\ name' = Bare(picked'.name) /\ uwp' = picked'
<1>0. /\ FieldPart /\ QueryPart /\ lookups \in Seq(Names) /\ EffortType /\ details \in Seq(Worlds)
  BY DEF SearchInv, FieldPart, EffortType
<1>1. PICK w : w = details[i]
  OBVIOUS
<1>2. w \in Worlds /\ details' \in Seq(Worlds) /\ details' = RemoveAt(details, i)
  BY <1>0, <1>1, LeavesOut DEF DataArrives, DataFails
<1>3. /\ UNCHANGED <<name, coords, sector, input, results, resolved, loading, lastCommitted,
                     searches, lookups, picked, pickedFor, overlapped, effort>>
      /\ uwp' = w
      /\ \/ zone' = w /\ detail' \in {w, NoWorld} /\ UNCHANGED dataFailed /\ DataArrives(i)
         \/ UNCHANGED <<zone, detail>> /\ dataFailed' = TRUE
  BY <1>1 DEF DataArrives, DataFails, Rest
<1>4. QueryPart'
  BY <1>0, <1>3, QueryStays
<1>5. /\ name' \in Texts /\ pickedFor' \in Texts /\ lastCommitted' \in Names /\ details' \in Seq(Worlds)
      /\ coords' \in Place /\ sector' \in Place /\ uwp' \in Place /\ zone' \in Place
      /\ detail' \in Place /\ picked' \in Place
      /\ overlapped' \in BOOLEAN /\ dataFailed' \in BOOLEAN
  <2>1. /\ name' \in Texts /\ pickedFor' \in Texts /\ lastCommitted' \in Names
        /\ coords' \in Place /\ sector' \in Place /\ picked' \in Place
        /\ overlapped' \in BOOLEAN
    BY ONLY <1>0, <1>3, Zenon DEF FieldPart
  <2>2. uwp' \in Place /\ zone' \in Place /\ detail' \in Place
    BY <1>0, <1>2, <1>3 DEF FieldPart, Place
  <2>3. dataFailed' \in BOOLEAN
    BY ONLY <1>0, <1>3, Zenon DEF FieldPart
  <2> QED BY <1>2, <2>1, <2>2, <2>3
<1>6. PickedAsNamed'
  BY <1>0, <1>3 DEF FieldPart, PickedAsNamed
<1>7. ASSUME picked # NoWorld, ~overlapped PROVE details = <<picked>> /\ i = 1 /\ w = picked /\ details' = <<>>
  <2>1. details # <<>>
    BY <1>0
  <2>2. details = <<picked>>
    BY <1>0, <1>7, <2>1 DEF FieldPart
  <2>3. i = 1 /\ w = picked
    BY <1>1, <2>2
  <2>4. RemoveAt(<<picked>>, 1) = <<>>
    BY <1>2, <2>3, OneLeft
  <2> QED BY ONLY <1>2, <2>2, <2>3, <2>4, Zenon
<1>8. picked' # NoWorld =>
        /\ name' = Bare(picked'.name) /\ coords' = picked' /\ sector' = picked'
        /\ \/ overlapped'
           \/ details' = <<>> /\ dataFailed'
           \/ details' = <<>> /\ uwp' = picked' /\ zone' = picked'
  <2> SUFFICES ASSUME picked' # NoWorld
               PROVE  /\ name' = Bare(picked'.name) /\ coords' = picked' /\ sector' = picked'
                      /\ \/ overlapped'
                         \/ details' = <<>> /\ dataFailed'
                         \/ details' = <<>> /\ uwp' = picked' /\ zone' = picked'
    OBVIOUS
  <2>1. picked' = picked /\ overlapped' = overlapped /\ picked # NoWorld /\ picked' # NoWorld
    BY <1>3
  <2>2. name' = Bare(picked'.name) /\ coords' = picked' /\ sector' = picked'
    BY <1>0, <1>3, <2>1, Zenon DEF FieldPart
  <2>3. CASE overlapped
    BY <2>1, <2>2, <2>3
  <2>4. CASE ~overlapped
    <3>1. w = picked' /\ details' = <<>>
      BY <1>7, <2>1, <2>4
    <3> QED BY ONLY <1>3, <2>2, <3>1
  <2> QED BY <2>3, <2>4
<1>9. FieldPart'
  BY <1>5, <1>6, <1>8 DEF FieldPart
<1>10. SearchInv'
  BY <1>0, <1>3, <1>4, <1>9, EffortKeeps DEF SearchInv, EffortType
<1>11. ASSUME picked' # NoWorld, details' = <<>>, ~overlapped', ~dataFailed'
       PROVE  DataArrives(i) /\ details[i] = picked' /\ name' = Bare(picked'.name) /\ uwp' = picked'
  <2>1. picked' = picked /\ overlapped' = overlapped
    BY <1>3
  <2>2. w = picked'
    BY <1>7, <1>11, <2>1
  <2>3. DataArrives(i)
    BY <1>3, <1>11
  <2> QED BY <1>1, <1>3, <1>8, <1>11, <2>2, <2>3
<1> QED BY <1>10, <1>11

-----------------------------------------------------------------------------
(* The page around it (GeneratorPage).                                     *)

RowSet == [id : Nat, kind : {"MainWorld", "Body", "Planet"}, ok : BOOLEAN]

\* Ids are given out in turn, and a message is under a row that needs it.
Tabled(r, n, e) ==
  /\ r \in Seq(RowSet) /\ n \in Nat /\ e \subseteq Nat
  /\ \A i \in 1 .. Len(r) : r[i].id < n /\ (r[i].id \in e => ~r[i].ok)
  /\ \A i, j \in 1 .. Len(r) : i # j => r[i].id # r[j].id
  /\ \A x \in e : x < n

\* A message is under a row of the table, or was when a rebuild dropped it.
Rooted(r, e, o) == o \subseteq Nat /\ \A x \in e \ o : \E j \in 1 .. Len(r) : r[j].id = x

BuildType(b) == b.name \in Texts /\ b.uwp \in Place /\ b.detail \in Place

PageInv ==
  /\ SearchInv
  /\ Tabled(rows, nextId, rowErrors) /\ Rooted(rows, rowErrors, orphaned)
  /\ globalErrors \in {"none", "rows", "backend"}
  /\ BuildType(built) /\ BuildType(system)
  /\ TableOfThePick

LEMMA PageInvSays == PageInv => RowsTypeOK /\ MarkedRowsAreInvalid
<1> SUFFICES ASSUME PageInv PROVE RowsTypeOK /\ MarkedRowsAreInvalid
  OBVIOUS
<1>1. DOMAIN rows = 1 .. Len(rows)
  BY DEF PageInv, Tabled
<1>2. SearchTypeOK
  BY SearchInvSays DEF PageInv
<1>3. RowsTypeOK
  <2>1. /\ rows \in Seq([id : Nat, kind : {"MainWorld", "Body", "Planet"}, ok : BOOLEAN])
        /\ nextId \in Nat /\ rowErrors \subseteq Nat /\ orphaned \subseteq Nat
    BY Zenon DEF PageInv, Tabled, Rooted, RowSet
  <2>2. \A i, j \in DOMAIN rows : i # j => rows[i].id # rows[j].id
    BY <1>1 DEF PageInv, Tabled
  <2>3. /\ {built.name, system.name} \subseteq Texts
        /\ {built.uwp, built.detail, system.uwp, system.detail} \subseteq Worlds \cup {NoWorld}
    BY DEF PageInv, BuildType, Place
  <2>4. globalErrors \in {"none", "rows", "backend"}
    BY Zenon DEF PageInv
  <2> QED BY ONLY <1>2, <2>1, <2>2, <2>3, <2>4, Zenon DEF RowsTypeOK
<1>4. MarkedRowsAreInvalid
  <2>1. \A r \in Range(rows) : r.id \in rowErrors => ~r.ok
    BY <1>1 DEF PageInv, Tabled, Range
  <2>2. \A x \in rowErrors \ orphaned : \E r \in Range(rows) : r.id = x
    BY <1>1 DEF PageInv, Rooted, Range
  <2> QED BY <2>1, <2>2 DEF MarkedRowsAreInvalid
<1> QED BY <1>3, <1>4

LEMMA RowOf ==
  ASSUME NEW i \in Nat, NEW k \in {"MainWorld", "Body", "Planet"}, NEW good \in BOOLEAN
  PROVE  Row(i, k, good) \in RowSet /\ Row(i, k, good).id = i /\ Row(i, k, good).ok = good
<1>1. Row(i, k, good) = [id |-> i, kind |-> k, ok |-> good]
  BY Zenon DEF Row
<1>2. PICK r : r = [id |-> i, kind |-> k, ok |-> good]
  OBVIOUS
<1>3. r \in RowSet /\ r.id = i /\ r.ok = good
  BY <1>2, Zenon DEF RowSet
<1> QED BY <1>1, <1>2, <1>3, Zenon

LEMMA AppendKeeps ==
  ASSUME NEW r, NEW n, NEW e, Tabled(r, n, e), NEW k \in {"MainWorld", "Body", "Planet"}
  PROVE  Tabled(Append(r, Row(n, k, TRUE)), n + 1, e)
<1>1. PICK row : row = Row(n, k, TRUE)
  OBVIOUS
<1>2. n \in Nat /\ r \in Seq(RowSet) /\ e \subseteq Nat
  BY DEF Tabled
<1>3. row \in RowSet /\ row.id = n
  BY <1>1, <1>2, RowOf
<1>4. PICK s : s = Append(r, row)
  OBVIOUS
<1>5. s \in Seq(RowSet) /\ Len(s) = Len(r) + 1 /\ Len(r) \in Nat
  BY <1>2, <1>3, <1>4
<1>6. \A i \in 1 .. Len(s) : IF i = Len(r) + 1 THEN s[i] = row ELSE i \in 1 .. Len(r) /\ s[i] = r[i]
  BY <1>2, <1>4, <1>5
<1>7. \A i \in 1 .. Len(r) : r[i].id \in Nat /\ r[i].id < n
  <2>1. \A i \in 1 .. Len(r) : r[i] \in RowSet
    BY <1>2
  <2> QED BY <2>1 DEF Tabled, RowSet
<1>8. ASSUME NEW i \in 1 .. Len(s) PROVE s[i].id < n + 1 /\ (s[i].id \in e => ~s[i].ok)
  <2>1. CASE i = Len(r) + 1
    <3>1. s[i].id = n
      BY <1>3, <1>6, <2>1
    <3>2. n \notin e
      BY <1>2 DEF Tabled
    <3> QED BY <1>2, <3>1, <3>2
  <2>2. CASE i # Len(r) + 1
    <3>1. i \in 1 .. Len(r) /\ s[i] = r[i]
      BY <1>6, <2>2
    <3> QED BY <1>2, <1>7, <3>1 DEF Tabled
  <2> QED BY <2>1, <2>2
<1>9. ASSUME NEW i \in 1 .. Len(s), NEW j \in 1 .. Len(s), i # j PROVE s[i].id # s[j].id
  <2>1. CASE i = Len(r) + 1
    <3>1. s[i].id = n /\ s[j] = r[j] /\ j \in 1 .. Len(r)
      BY <1>3, <1>6, <1>9, <2>1
    <3> QED BY <1>2, <1>7, <3>1
  <2>2. CASE j = Len(r) + 1
    <3>1. s[j].id = n /\ s[i] = r[i] /\ i \in 1 .. Len(r)
      BY <1>3, <1>6, <1>9, <2>2
    <3> QED BY <1>2, <1>7, <3>1
  <2>3. CASE i # Len(r) + 1 /\ j # Len(r) + 1
    <3>1. s[j] = r[j] /\ j \in 1 .. Len(r) /\ s[i] = r[i] /\ i \in 1 .. Len(r)
      BY <1>6, <2>3
    <3> QED BY <1>9, <3>1 DEF Tabled
  <2> QED BY <2>1, <2>2, <2>3
<1>10. \A x \in e : x < n + 1
  BY <1>2 DEF Tabled
<1>11. Tabled(s, n + 1, e)
  BY <1>2, <1>5, <1>8, <1>9, <1>10 DEF Tabled
<1> QED BY <1>1, <1>4, <1>11

LEMMA NoRows == ASSUME NEW n \in Nat, NEW e \in SUBSET Nat, \A x \in e : x < n PROVE Tabled(<<>>, n, e)
BY DEF Tabled

LEMMA TwoRows ==
  ASSUME NEW n \in Nat, NEW e \in SUBSET Nat, \A x \in e : x < n
  PROVE  Tabled(<<Row(n, "MainWorld", TRUE), Row(n + 1, "Body", TRUE)>>, n + 2, e)
<1>1. PICK a, b : a = Row(n, "MainWorld", TRUE) /\ b = Row(n + 1, "Body", TRUE)
  OBVIOUS
<1>2. Tabled(Append(<<>>, a), n + 1, e)
  BY <1>1, NoRows, AppendKeeps
<1>3. Tabled(Append(Append(<<>>, a), b), n + 1 + 1, e)
  BY <1>1, <1>2, AppendKeeps
<1>4. n + 1 + 1 = n + 2
  OBVIOUS
<1>5. Append(Append(<<>>, a), b) = <<a, b>>
  <2>1. PICK s : s = Append(Append(<<>>, a), b)
    OBVIOUS
  <2>2. s \in Seq({a, b}) /\ Len(s) = 2 /\ s[1] = a /\ s[2] = b
    BY <2>1
  <2>3. s = <<a, b>>
    BY <2>2
  <2> QED BY <2>1, <2>3
<1> QED BY <1>1, <1>3, <1>4, <1>5

LEMMA RemoveKeeps ==
  ASSUME NEW r, NEW n, NEW e, Tabled(r, n, e), NEW i \in 1 .. Len(r), NEW x
  PROVE  Tabled(RemoveAt(r, i), n, e \ {x})
<1>1. r \in Seq(RowSet) /\ n \in Nat /\ e \subseteq Nat
  BY DEF Tabled
<1>2. /\ RemoveAt(r, i) \in Seq(RowSet) /\ Len(RemoveAt(r, i)) = Len(r) - 1
      /\ \A k \in 1 .. Len(r) - 1 : RemoveAt(r, i)[k] = IF k < i THEN r[k] ELSE r[k + 1]
  BY <1>1, Removed, Zenon
<1>3. PICK s : /\ s = RemoveAt(r, i) /\ s \in Seq(RowSet) /\ Len(s) = Len(r) - 1 /\ Len(r) \in Nat
               /\ \A k \in 1 .. Len(r) - 1 : s[k] = IF k < i THEN r[k] ELSE r[k + 1]
  BY <1>1, <1>2
<1>4. PICK origin : origin = [k \in 1 .. Len(s) |-> IF k < i THEN k ELSE k + 1]
  OBVIOUS
<1>5. ASSUME NEW k \in 1 .. Len(s) PROVE origin[k] \in 1 .. Len(r) /\ s[k] = r[origin[k]]
  <2>1. origin[k] = IF k < i THEN k ELSE k + 1
    BY <1>4
  <2>2. k \in 1 .. Len(r) - 1 /\ s[k] = IF k < i THEN r[k] ELSE r[k + 1]
    BY <1>3
  <2>3. origin[k] \in 1 .. Len(r)
    BY <1>3, <2>1, <2>2
  <2> QED BY <2>1, <2>2, <2>3
<1>6. \A j, k \in 1 .. Len(s) : j # k => origin[j] # origin[k]
  BY <1>3, <1>4
<1>7. \A k \in 1 .. Len(s) : s[k].id < n /\ (s[k].id \in e \ {x} => ~s[k].ok)
  BY <1>5 DEF Tabled
<1>8. ASSUME NEW j \in 1 .. Len(s), NEW k \in 1 .. Len(s), j # k PROVE s[j].id # s[k].id
  <2>1. origin[j] \in 1 .. Len(r) /\ origin[k] \in 1 .. Len(r) /\ origin[j] # origin[k]
    BY <1>5, <1>6, <1>8
  <2>2. r[origin[j]].id # r[origin[k]].id
    BY <2>1 DEF Tabled
  <2> QED BY <1>5, <2>2
<1>9. (\A y \in e \ {x} : y < n) /\ e \ {x} \subseteq Nat
  BY <1>1 DEF Tabled
<1>10. Tabled(s, n, e \ {x})
  BY <1>1, <1>3, <1>7, <1>8, <1>9 DEF Tabled
<1> QED BY <1>3, <1>10

LEMMA EditKeeps ==
  ASSUME NEW r, NEW n, NEW e, Tabled(r, n, e), NEW i \in 1 .. Len(r), NEW good \in BOOLEAN,
         NEW f, f = IF good THEN e \ {r[i].id} ELSE e
  PROVE  Tabled([r EXCEPT ![i].ok = good], n, f)
<1>1. r \in Seq(RowSet) /\ n \in Nat /\ e \subseteq Nat /\ DOMAIN r = 1 .. Len(r)
  BY DEF Tabled
<1>2. PICK row : row = [r[i] EXCEPT !.ok = good]
  OBVIOUS
<1>3. r[i] \in RowSet
  BY <1>1
<1>4. row \in RowSet /\ row.id = r[i].id /\ row.ok = good
  BY <1>2, <1>3 DEF RowSet
<1>5. PICK s : s = [r EXCEPT ![i] = row]
  OBVIOUS
<1>6. [r EXCEPT ![i].ok = good] = s
  BY <1>2, <1>5
<1>7. s \in Seq(RowSet) /\ Len(s) = Len(r)
  BY <1>1, <1>4, <1>5
<1>8. \A k \in 1 .. Len(r) : s[k] = IF k = i THEN row ELSE r[k]
  BY <1>1, <1>5
<1>9. \A k \in 1 .. Len(r) : s[k].id = r[k].id
  BY <1>4, <1>8
<1>10. \A k \in 1 .. Len(r) : k # i => r[k].id # r[i].id
  BY DEF Tabled
<1>11. ASSUME NEW k \in 1 .. Len(r) PROVE s[k].id < n /\ (s[k].id \in f => ~s[k].ok)
  <2>1. CASE k = i
    BY <1>4, <1>8, <2>1 DEF Tabled
  <2>2. CASE k # i
    BY <1>8, <2>2 DEF Tabled
  <2> QED BY <2>1, <2>2
<1>12. \A j, k \in 1 .. Len(r) : j # k => s[j].id # s[k].id
  BY <1>9 DEF Tabled
<1>13. f \subseteq Nat /\ \A y \in f : y < n
  BY <1>1 DEF Tabled
<1>14. Tabled(s, n, f)
  BY <1>1, <1>7, <1>11, <1>12, <1>13 DEF Tabled
<1> QED BY <1>6, <1>14

\* A failed generation leaves a message under the very rows that do not parse.
LEMMA BadKeeps ==
  ASSUME NEW r, NEW n, NEW e, Tabled(r, n, e)
  PROVE  Tabled(r, n, {p.id : p \in {q \in Range(r) : ~q.ok}}) /\ Tabled(r, n, {})
<1>1. r \in Seq(RowSet) /\ n \in Nat /\ DOMAIN r = 1 .. Len(r)
  BY DEF Tabled
<1>2. PICK bad : bad = {p.id : p \in {q \in Range(r) : ~q.ok}}
  OBVIOUS
<1>3. \A y \in bad : \E k \in 1 .. Len(r) : y = r[k].id /\ ~r[k].ok
  BY <1>1, <1>2 DEF Range
<1>4. \A k \in 1 .. Len(r) : r[k].id \in Nat
  <2>1. \A k \in 1 .. Len(r) : r[k] \in RowSet
    BY <1>1
  <2> QED BY <2>1 DEF RowSet
<1>5. bad \subseteq Nat /\ \A y \in bad : y < n
  BY <1>3, <1>4 DEF Tabled
<1>6. ASSUME NEW k \in 1 .. Len(r), r[k].id \in bad PROVE ~r[k].ok
  <2>1. PICK j \in 1 .. Len(r) : r[k].id = r[j].id /\ ~r[j].ok
    BY <1>3, <1>6
  <2>2. j = k
    BY <2>1 DEF Tabled
  <2> QED BY <2>1, <2>2
<1>7. Tabled(r, n, bad)
  BY <1>1, <1>5, <1>6 DEF Tabled
<1>8. Tabled(r, n, {})
  BY <1>1 DEF Tabled
<1> QED BY <1>2, <1>7, <1>8

\* What each of these does to the places of the messages.
LEMMA AppendRoots ==
  ASSUME NEW r \in Seq(RowSet), NEW e, NEW o, Rooted(r, e, o), NEW row \in RowSet
  PROVE  Rooted(Append(r, row), e, o)
<1>1. PICK s : s = Append(r, row)
  OBVIOUS
<1>2. \A j \in 1 .. Len(r) : j \in 1 .. Len(s) /\ s[j] = r[j]
  BY <1>1
<1>3. Rooted(s, e, o)
  BY <1>2 DEF Rooted
<1> QED BY <1>1, <1>3

LEMMA RemoveRoots ==
  ASSUME NEW r \in Seq(RowSet), NEW e, NEW o, Rooted(r, e, o), NEW i \in 1 .. Len(r)
  PROVE  Rooted(RemoveAt(r, i), e \ {r[i].id}, o)
<1>1. PICK s : /\ s = RemoveAt(r, i) /\ Len(s) = Len(r) - 1 /\ Len(r) \in Nat
               /\ \A k \in 1 .. Len(r) - 1 : s[k] = IF k < i THEN r[k] ELSE r[k + 1]
  BY Removed
<1>2. ASSUME NEW x \in (e \ {r[i].id}) \ o PROVE \E k \in 1 .. Len(s) : s[k].id = x
  <2>1. PICK j \in 1 .. Len(r) : r[j].id = x
    BY <1>2 DEF Rooted
  <2>2. j # i
    BY <1>2, <2>1
  <2>3. CASE j < i
    <3>1. j \in 1 .. Len(s) /\ s[j] = r[j]
      BY <1>1, <2>3
    <3> QED BY <2>1, <3>1
  <2>4. CASE j > i
    <3>1. j - 1 \in 1 .. Len(s) /\ s[j - 1] = r[j]
      BY <1>1, <2>4
    <3> QED BY <2>1, <3>1
  <2> QED BY <2>2, <2>3, <2>4
<1> QED BY <1>1, <1>2 DEF Rooted

LEMMA EditRoots ==
  ASSUME NEW r \in Seq(RowSet), NEW e, NEW o, Rooted(r, e, o), NEW i \in 1 .. Len(r),
         NEW good, NEW f, f \subseteq e
  PROVE  Rooted([r EXCEPT ![i].ok = good], f, o)
<1>1. r[i] \in RowSet /\ DOMAIN r = 1 .. Len(r)
  OBVIOUS
<1>2. PICK row : row = [r[i] EXCEPT !.ok = good]
  OBVIOUS
<1>5. row.id = r[i].id
  BY <1>1, <1>2 DEF RowSet
<1>3. PICK s : s = [r EXCEPT ![i] = row] /\ s = [r EXCEPT ![i].ok = good]
  BY <1>2
<1>4. Len(s) = Len(r) /\ \A k \in 1 .. Len(r) : s[k].id = r[k].id
  BY <1>1, <1>3, <1>5
<1> QED BY <1>3, <1>4 DEF Rooted

LEMMA BadRoots ==
  ASSUME NEW r \in Seq(RowSet), NEW o \in SUBSET Nat
  PROVE  /\ Rooted(r, {p.id : p \in {q \in Range(r) : ~q.ok}}, o)
         /\ Rooted(r, {}, o)
<1>1. DOMAIN r = 1 .. Len(r)
  OBVIOUS
<1> QED BY <1>1 DEF Rooted, Range

LEMMA PageStarts == PageInit => PageInv
<1> SUFFICES ASSUME PageInit PROVE PageInv
  OBVIOUS
<1>1. SearchInit /\ RowsInit
  BY DEF PageInit
<1>2. SearchInv /\ picked = NoWorld
  BY <1>1, SearchStarts DEF SearchInit
<1>3. PICK r : r = Row(0, "MainWorld", TRUE)
  OBVIOUS
<1>4. Tabled(Append(<<>>, r), 1, {})
  <2>1. Tabled(<<>>, 0, {})
    BY NoRows
  <2>2. 0 + 1 = 1
    OBVIOUS
  <2> QED BY <1>3, <2>1, <2>2, AppendKeeps
<1>5. Append(<<>>, r) = <<r>>
  OBVIOUS
<1>6. rows = <<Row(0, "MainWorld", TRUE)>> /\ nextId = 1 /\ rowErrors = {}
      /\ globalErrors = "none" /\ built = NoBuild /\ system = NoBuild /\ orphaned = {}
  BY <1>1, Zenon DEF RowsInit
<1>7. Tabled(rows, nextId, rowErrors) /\ Rooted(rows, rowErrors, orphaned)
  <2>1. Tabled(rows, nextId, rowErrors)
    BY <1>3, <1>4, <1>5, <1>6
  <2> QED BY <1>6, <2>1 DEF Rooted
<1>8. BuildType(NoBuild)
  <2>1. Bare(Empty) \in Texts
    BY TextsOf, SearchAssumption
  <2> QED BY <2>1 DEF BuildType, NoBuild, Place
<1>9. TableOfThePick
  BY <1>2 DEF TableOfThePick
<1> QED BY <1>2, <1>6, <1>7, <1>8, <1>9, Zenon DEF PageInv

LEMMA TableStays == ASSUME PageInv, UNCHANGED rowVars
                    PROVE  /\ Tabled(rows', nextId', rowErrors') /\ Rooted(rows', rowErrors', orphaned')
                           /\ globalErrors' \in {"none", "rows", "backend"}
                           /\ BuildType(built') /\ BuildType(system')
BY Zenon DEF PageInv, rowVars

LEMMA PageKept ==
  ASSUME SearchInv', Tabled(rows', nextId', rowErrors'), Rooted(rows', rowErrors', orphaned'),
         globalErrors' \in {"none", "rows", "backend"}, BuildType(built'), BuildType(system'), TableOfThePick'
  PROVE  PageInv'
<1>1. Tabled(rows, nextId, rowErrors)' /\ Rooted(rows, rowErrors, orphaned)'
      /\ BuildType(built)' /\ BuildType(system)'
  BY Zenon DEF Tabled, Rooted, BuildType
<1> QED BY <1>1, Zenon DEF PageInv

LEMMA SettledTable ==
  ASSUME TableOfThePick, Settles, UNCHANGED built PROVE TableOfThePick'
BY DEF TableOfThePick, Settles

\* The table is looked after while the search stands still.
LEMMA TableActsKeep ==
  ASSUME PageInv, TableActs, SearchIdle
  PROVE  SearchInv' /\ Settles
<1>1. /\ UNCHANGED <<name, coords, sector, uwp, zone, detail, input, results, resolved, loading,
                     lastCommitted, searches, lookups, details, picked, pickedFor, overlapped, dataFailed>>
  BY DEF SearchIdle, fields
<1>2. FieldPart /\ QueryPart /\ lookups \in Seq(Names) /\ EffortType
  BY DEF PageInv, SearchInv, EffortType
<1>3. FieldPart' /\ Settles
  BY <1>1, <1>2, NoPickKeeps DEF NoPick, fields, Settles
<1>4. QueryPart' /\ EffortType'
  BY <1>1, <1>2, QueryStays, EffortKeeps
<1> QED BY <1>1, <1>2, <1>3, <1>4 DEF SearchInv, EffortType

LEMMA TableUserKeeps == ASSUME PageInv, TableUser PROVE PageInv'
<1>0. /\ Tabled(rows, nextId, rowErrors) /\ Rooted(rows, rowErrors, orphaned)
      /\ globalErrors \in {"none", "rows", "backend"}
      /\ BuildType(built) /\ BuildType(system) /\ TableOfThePick
      /\ DOMAIN rows = 1 .. Len(rows) /\ rows \in Seq(RowSet) /\ nextId \in Nat
      /\ orphaned \in SUBSET Nat
  <2>1. /\ Tabled(rows, nextId, rowErrors) /\ Rooted(rows, rowErrors, orphaned)
        /\ globalErrors \in {"none", "rows", "backend"}
        /\ BuildType(built) /\ BuildType(system) /\ TableOfThePick
    BY Zenon DEF PageInv
  <2>2. DOMAIN rows = 1 .. Len(rows) /\ rows \in Seq(RowSet) /\ nextId \in Nat
    BY <2>1 DEF Tabled
  <2>3. orphaned \in SUBSET Nat
    BY <2>1 DEF Rooted
  <2> QED BY <2>1, <2>2, <2>3
<1>1. TableActs /\ SearchIdle /\ UNCHANGED built /\ UNCHANGED orphaned
  BY Zenon DEF TableUser, AddRow, Generate, RemoveRow, EditRow
<1>2. SearchInv' /\ TableOfThePick'
  BY <1>0, <1>1, TableActsKeep, SettledTable
<1>3. BuildType(built') /\ BuildType(system')
  <2>1. system' = system \/ system' = built
    BY DEF TableUser, AddRow, Generate, RemoveRow, EditRow
  <2> QED BY <1>0, <1>1, <2>1
<1>4. CASE AddRow
  <2>1. rows' = Append(rows, Row(nextId, "Planet", TRUE)) /\ nextId' = nextId + 1
        /\ UNCHANGED <<rowErrors, globalErrors>>
    BY <1>4, Zenon DEF AddRow
  <2>2. Tabled(Append(rows, Row(nextId, "Planet", TRUE)), nextId + 1, rowErrors)
    BY <1>0, AppendKeeps
  <2>3. Tabled(rows', nextId', rowErrors') /\ globalErrors' \in {"none", "rows", "backend"}
    BY ONLY <1>0, <2>1, <2>2, Zenon
  <2>4. Row(nextId, "Planet", TRUE) \in RowSet
    BY <1>0, RowOf
  <2>5. Rooted(Append(rows, Row(nextId, "Planet", TRUE)), rowErrors, orphaned)
    BY <1>0, <2>4, AppendRoots
  <2>6. Rooted(rows', rowErrors', orphaned')
    BY ONLY <1>1, <2>1, <2>5, Zenon
  <2> QED BY <1>2, <1>3, <2>3, <2>6, PageKept
<1>5. CASE Generate
  <2>1. PICK bad : bad = {r.id : r \in {q \in Range(rows) : ~q.ok}}
    OBVIOUS
  <2>2. /\ rowErrors' = bad \/ rowErrors' = {}
        /\ UNCHANGED <<rows, nextId>>
    BY <1>5, <2>1 DEF Generate
  <2>3. globalErrors' \in {"none", "rows", "backend"}
    BY <1>5 DEF Generate
  <2>4. Tabled(rows, nextId, bad) /\ Tabled(rows, nextId, {})
    BY <1>0, <2>1, BadKeeps
  <2>5. Tabled(rows', nextId', rowErrors')
    BY <2>2, <2>4
  <2>6. Rooted(rows, bad, orphaned) /\ Rooted(rows, {}, orphaned)
    BY <1>0, <2>1, BadRoots
  <2>7. Rooted(rows', rowErrors', orphaned')
    BY <1>1, <2>2, <2>6
  <2> QED BY <1>2, <1>3, <2>3, <2>5, <2>7, PageKept
<1>6. ASSUME NEW i \in DOMAIN rows, RemoveRow(i) PROVE PageInv'
  <2>1. rows' = RemoveAt(rows, i) /\ rowErrors' = rowErrors \ {rows[i].id} /\ UNCHANGED nextId
    BY <1>6 DEF RemoveRow, ClearRowError
  <2>2. globalErrors' \in {"none", "rows", "backend"}
    BY <1>0, <1>6 DEF RemoveRow, ClearRowError
  <2>3. Tabled(RemoveAt(rows, i), nextId, rowErrors \ {rows[i].id})
    BY <1>0, RemoveKeeps
  <2>4. Tabled(rows', nextId', rowErrors')
    BY ONLY <2>1, <2>3, Zenon
  <2>5. Rooted(RemoveAt(rows, i), rowErrors \ {rows[i].id}, orphaned)
    BY <1>0, RemoveRoots
  <2>6. Rooted(rows', rowErrors', orphaned')
    BY ONLY <1>1, <2>1, <2>5, Zenon
  <2> QED BY <1>2, <1>3, <2>2, <2>4, <2>6, PageKept
<1>7. ASSUME NEW i \in DOMAIN rows, NEW good \in BOOLEAN, EditRow(i, good) PROVE PageInv'
  <2>1. /\ rows' = [rows EXCEPT ![i].ok = good] /\ UNCHANGED nextId
        /\ rowErrors' = IF good THEN rowErrors \ {rows[i].id} ELSE rowErrors
    BY <1>7 DEF EditRow, ClearRowError
  <2>2. globalErrors' \in {"none", "rows", "backend"}
    BY <1>0, <1>7 DEF EditRow, ClearRowError
  <2>3. PICK f : f = IF good THEN rowErrors \ {rows[i].id} ELSE rowErrors
    OBVIOUS
  <2>4. Tabled([rows EXCEPT ![i].ok = good], nextId, f)
    BY <1>0, <2>3, EditKeeps
  <2>5. Tabled(rows', nextId', rowErrors')
    BY ONLY <2>1, <2>3, <2>4
  <2>6. f \subseteq rowErrors
    BY <2>3
  <2>7. Rooted([rows EXCEPT ![i].ok = good], f, orphaned)
    BY <1>0, <2>6, EditRoots
  <2>8. Rooted(rows', rowErrors', orphaned')
    BY ONLY <1>1, <2>1, <2>3, <2>7
  <2> QED BY <1>2, <1>3, <2>2, <2>5, <2>8, PageKept
<1> QED BY <1>4, <1>5, <1>6, <1>7 DEF TableUser

LEMMA DataRowKeeps == ASSUME PageInv, DataRow PROVE PageInv'
<1>0. PICK i \in 1..Len(details) : DataRebuilds(i) \/ (DataFails(i) /\ UNCHANGED rowVars)
  BY DEF DataRow
<1>1. /\ SearchInv'
      /\ picked' # NoWorld /\ details' = <<>> /\ ~overlapped' /\ ~dataFailed' =>
           DataArrives(i) /\ details[i] = picked' /\ name' = Bare(picked'.name) /\ uwp' = picked'
  BY <1>0, DataKeeps DEF DataRebuilds, PageInv
<1>2. CASE UNCHANGED rowVars /\ (DataFails(i) \/ detail' = NoWorld)
  <2>1. TableOfThePick'
    <3> SUFFICES ASSUME picked' \notin {NoWorld} \cup Unsurveyed, details' = <<>>,
                        ~overlapped', ~dataFailed'
                 PROVE  FALSE
      BY DEF TableOfThePick
    <3>1. DataArrives(i) /\ details[i] = picked'
      BY <1>1
    <3>2. dataFailed' = dataFailed /\ detail' = picked'
      BY <3>1 DEF DataArrives
    <3>3. CASE DataFails(i)
      <4>1. dataFailed' = TRUE
        BY <3>3 DEF DataFails
      <4> QED BY <4>1
    <3> QED BY <1>2, <3>2, <3>3
  <2> QED BY <1>1, <1>2, <2>1, TableStays, PageKept
<1>3. CASE DataRebuilds(i) /\ detail' # NoWorld
  <2>1. /\ rows' = <<Row(nextId, "MainWorld", TRUE), Row(nextId + 1, "Body", TRUE)>>
        /\ nextId' = nextId + 2 /\ UNCHANGED <<rowErrors, globalErrors, system>>
        /\ built' = [name |-> name', uwp |-> uwp', detail |-> detail']
        /\ orphaned' = orphaned \cup rowErrors
    BY <1>3, Zenon DEF DataRebuilds, Rebuild
  <2>2. Tabled(rows, nextId, rowErrors) /\ globalErrors \in {"none", "rows", "backend"}
        /\ BuildType(system)
    BY Zenon DEF PageInv
  <2>3. nextId \in Nat /\ rowErrors \in SUBSET Nat /\ \A x \in rowErrors : x < nextId
    BY <2>2 DEF Tabled
  <2>4. Tabled(<<Row(nextId, "MainWorld", TRUE), Row(nextId + 1, "Body", TRUE)>>, nextId + 2, rowErrors)
    BY <2>3, TwoRows
  <2>5. Tabled(rows', nextId', rowErrors') /\ globalErrors' \in {"none", "rows", "backend"}
    BY ONLY <2>1, <2>2, <2>4, Zenon
  <2>6. name' \in Texts /\ uwp' \in Place /\ detail' \in Place
    BY <1>1 DEF SearchInv, FieldPart
  <2>7. BuildType(built') /\ BuildType(system')
    BY <2>1, <2>2, <2>6 DEF BuildType
  <2>8. TableOfThePick'
    <3> SUFFICES ASSUME picked' \notin {NoWorld} \cup Unsurveyed, details' = <<>>,
                        ~overlapped', ~dataFailed'
                 PROVE  built' = [name |-> Bare(picked'.name), uwp |-> picked', detail |-> picked']
      BY DEF TableOfThePick
    <3>1. DataArrives(i) /\ details[i] = picked' /\ name' = Bare(picked'.name) /\ uwp' = picked'
      BY <1>1
    <3>2. detail' = picked'
      BY <3>1 DEF DataArrives
    <3> QED BY ONLY <2>1, <3>1, <3>2, Zenon
  <2>9. Rooted(rows', rowErrors', orphaned')
    <3>1. orphaned \subseteq Nat
      BY DEF PageInv, Rooted
    <3> QED BY <2>1, <2>3, <3>1 DEF Rooted
  <2> QED BY <1>1, <2>5, <2>7, <2>8, <2>9, PageKept
<1> QED BY <1>0, <1>2, <1>3 DEF DataRebuilds, Rebuild

LEMMA PageKeeps == PageInv /\ [PageNext]_pageVars => PageInv'
<1> SUFFICES ASSUME PageInv, [PageNext]_pageVars PROVE PageInv'
  OBVIOUS
<1>1. CASE (SearchUser \/ SearchReply) /\ UNCHANGED rowVars
  <2>1. SearchInv /\ TableOfThePick
    BY DEF PageInv
  <2>2. SearchInv' /\ Settles
    BY <1>1, <2>1, SearchUserKeeps, SearchReplyKeeps
  <2>3. TableOfThePick'
    BY <1>1, <2>1, <2>2, SettledTable DEF rowVars
  <2> QED BY <1>1, <2>2, <2>3, TableStays, PageKept
<1>2. CASE DataRow
  BY <1>2, DataRowKeeps
<1>3. CASE TableUser
  BY <1>3, TableUserKeeps
<1>4. CASE UNCHANGED pageVars
  <2>1. UNCHANGED searchVars /\ UNCHANGED rowVars
    BY <1>4, Zenon DEF pageVars
  <2>2. FieldPart /\ QueryPart /\ lookups \in Seq(Names) /\ EffortType /\ TableOfThePick
    BY DEF PageInv, SearchInv, EffortType
  <2>3. NoPick /\ UNCHANGED <<input, results, resolved, loading, searches>>
        /\ UNCHANGED lookups /\ UNCHANGED effort /\ Settles
    BY <2>1 DEF searchVars, NoPick, fields, Settles
  <2>4. FieldPart' /\ QueryPart' /\ EffortType'
    BY <2>2, <2>3, NoPickKeeps, QueryStays, EffortKeeps
  <2>5. SearchInv'
    BY <2>2, <2>3, <2>4 DEF SearchInv, EffortType
  <2>6. TableOfThePick'
    BY <2>1, <2>2, <2>3, SettledTable DEF rowVars
  <2> QED BY <2>1, <2>5, <2>6, TableStays, PageKept
<1> QED BY <1>1, <1>2, <1>3, <1>4 DEF PageNext

-----------------------------------------------------------------------------
(* The tables of the trade page (GoodsTrading).                            *)

\* What the user planned and the server sent, and what trading leaves planned.
TradingInv ==
  /\ TradingTypeOK
  /\ GoodsBalance
  /\ settled => /\ aboard = 0 /\ loaded = {}
                /\ \A g \in DOMAIN market : market[g].transacted = 0
                /\ \A g \in DOMAIN hold : hold[g].transacted = 0

Amount(t, g) == IF g \in DOMAIN t THEN t[g].quantity ELSE 0

LEMMA TradingBounds ==
  /\ IsFiniteSet(Goods) /\ Prices \subseteq Nat /\ Prices \subseteq Int
  /\ Tons \in Nat /\ Fare \in Nat /\ Freight \in Nat /\ Clicks \in Nat
BY TradingAssumption

LEMMA GoodFields ==
  ASSUME NEW good \in Good
  PROVE  /\ good.quantity \in Nat /\ good.quantity > 0 /\ good.transacted \in Nat
         /\ good.buy \in Prices /\ good.sell \in Prices \cup {Unpriced}
BY DEF Good

LEMMA Unplan ==
  ASSUME NEW good \in Good, NEW q
  PROVE  LET n == [good EXCEPT !.quantity = q, !.transacted = 0] IN
         /\ n.quantity = q /\ n.transacted = 0
         /\ q \in Nat \ {0} => n \in Good
BY DEF Good

\* The goods of a table, one by one.
LEMMA TableOf ==
  ASSUME NEW S \in SUBSET Goods, NEW t, t = [g \in S |-> t[g]],
         \A g \in S : t[g] \in Good /\ t[g].transacted <= t[g].quantity
  PROVE  Table(t) /\ DOMAIN t = S
BY DEF Table

\* update_good: the good replaces what there was, unless there is none of it.
LEMMA UpdateGoodKeeps ==
  ASSUME NEW t, Table(t), NEW g \in Goods, NEW good,
         good.quantity \in Nat,
         good.quantity > 0 => good \in Good /\ good.transacted <= good.quantity
  PROVE  /\ Table(UpdateGood(t, g, good))
         /\ \A k \in Goods : Amount(UpdateGood(t, g, good), k) = IF k = g THEN good.quantity ELSE Amount(t, k)
         /\ good.quantity > 0 => g \in DOMAIN UpdateGood(t, g, good) /\ UpdateGood(t, g, good)[g] = good
<1> DEFINE all == [h \in DOMAIN t \cup {g} |-> IF h = g THEN good ELSE t[h]]
           S == {h \in DOMAIN all : all[h].quantity > 0}
           u == [h \in S |-> all[h]]
<1>1. UpdateGood(t, g, good) = u
  BY Zenon DEF UpdateGood, Stocked, Restrict, u, S, all
<1>2. ASSUME NEW h \in DOMAIN t PROVE t[h] \in Good /\ t[h].transacted <= t[h].quantity
  BY DEF Table
<1>3. DOMAIN t \subseteq Goods
  BY DEF Table
<1>4. S \in SUBSET Goods
  BY <1>3
<1>5. ASSUME NEW h \in S PROVE u[h] \in Good /\ u[h].transacted <= u[h].quantity
  BY <1>2
<1>6. Table(u) /\ DOMAIN u = S
  <2> HIDE DEF S
  <2>1. u = [h \in S |-> u[h]]
    OBVIOUS
  <2> HIDE DEF u
  <2> QED BY <1>4, <1>5, <2>1, TableOf
<1>7. \A k \in Goods : Amount(u, k) = IF k = g THEN good.quantity ELSE Amount(t, k)
  <2> SUFFICES ASSUME NEW k \in Goods
               PROVE  Amount(u, k) = IF k = g THEN good.quantity ELSE Amount(t, k)
    OBVIOUS
  <2>1. CASE k = g
    BY <2>1 DEF Amount
  <2>2. CASE k # g /\ k \in DOMAIN t
    <3>1. t[k].quantity > 0
      BY <1>2, <2>2, GoodFields
    <3> QED BY <2>2, <3>1 DEF Amount
  <2>3. CASE k # g /\ k \notin DOMAIN t
    BY <2>3 DEF Amount
  <2> QED BY <2>1, <2>2, <2>3
<1>8. good.quantity > 0 => g \in DOMAIN u /\ u[g] = good
  OBVIOUS
<1> QED BY <1>1, <1>6, <1>7, <1>8

\* process_trades of a table: what was planned goes, and no plan is left.
LEMMA SoldKeeps ==
  ASSUME NEW t, Table(t)
  PROVE  /\ Table(Sold(t))
         /\ \A g \in DOMAIN Sold(t) : Sold(t)[g].transacted = 0
         /\ \A k \in Goods : Amount(Sold(t), k)
                               = Amount(t, k) - IF k \in DOMAIN t THEN t[k].transacted ELSE 0
<1> DEFINE all == [g \in DOMAIN t |-> [t[g] EXCEPT !.quantity = @ - t[g].transacted, !.transacted = 0]]
           S == {h \in DOMAIN all : all[h].quantity > 0}
           u == [h \in S |-> all[h]]
<1>1. Sold(t) = u
  BY Zenon DEF Sold, Stocked, Restrict, u, S, all
<1>2. ASSUME NEW h \in DOMAIN t
      PROVE  /\ all[h].quantity = t[h].quantity - t[h].transacted /\ all[h].quantity \in Nat
             /\ all[h].transacted = 0
             /\ all[h].quantity > 0 => all[h] \in Good
  <2>1. t[h] \in Good /\ t[h].transacted <= t[h].quantity
    BY DEF Table
  <2>2. PICK q : q = t[h].quantity - t[h].transacted
    OBVIOUS
  <2>3. q \in Nat
    BY <2>1, <2>2 DEF Good
  <2>4. all[h] = [t[h] EXCEPT !.quantity = q, !.transacted = 0]
    BY <2>2
  <2> HIDE DEF all
  <2>5. LET n == [t[h] EXCEPT !.quantity = q, !.transacted = 0] IN
        /\ n.quantity = q /\ n.transacted = 0
        /\ q \in Nat \ {0} => n \in Good
    BY ONLY <2>1, Unplan
  <2>6. /\ all[h].quantity = q /\ all[h].transacted = 0
        /\ q \in Nat \ {0} => all[h] \in Good
    BY ONLY <2>4, <2>5, Zenon
  <2> QED BY <2>2, <2>3, <2>6
<1>3. DOMAIN t \subseteq Goods /\ DOMAIN all = DOMAIN t
  BY DEF Table
<1> HIDE DEF all
<1>4. S \in SUBSET Goods
  BY <1>3
<1>5. ASSUME NEW h \in S
      PROVE  u[h] \in Good /\ u[h].transacted = 0 /\ u[h].transacted <= u[h].quantity
  <2>1. u[h] = all[h] /\ h \in DOMAIN t /\ all[h].quantity > 0
    BY <1>3
  <2> QED BY <1>2, <2>1
<1>6. Table(u) /\ DOMAIN u = S
  <2> HIDE DEF S
  <2>1. u = [h \in S |-> u[h]]
    OBVIOUS
  <2> HIDE DEF u
  <2> QED BY <1>4, <1>5, <2>1, TableOf
<1>7. ASSUME NEW k \in Goods
      PROVE  Amount(u, k) = Amount(t, k) - IF k \in DOMAIN t THEN t[k].transacted ELSE 0
  <2>1. CASE k \in S
    BY <1>2, <1>3, <2>1 DEF Amount
  <2>2. CASE k \notin S /\ k \in DOMAIN t
    BY <1>2, <1>3, <2>2 DEF Amount
  <2>3. CASE k \notin DOMAIN t
    BY <1>3, <2>3 DEF Amount
  <2> QED BY <2>1, <2>2, <2>3
<1> HIDE DEF u
<1> QED BY <1>1, <1>5, <1>6, <1>7

\* A trade: what was sold goes and what was bought comes, good by good.
LEMMA TradedKeeps ==
  ASSUME Table(market), Table(hold)
  PROVE  /\ Table(Traded)
         /\ \A g \in DOMAIN Traded : Traded[g].transacted = 0
         /\ \A k \in Goods : Amount(Traded, k)
              = Amount(hold, k) - (IF k \in DOMAIN hold THEN hold[k].transacted ELSE 0)
                  + (IF k \in DOMAIN market THEN market[k].transacted ELSE 0)
<1> DEFINE lot(g) == [market[g] EXCEPT !.quantity = market[g].transacted, !.transacted = 0]
<1>1. PICK kept : kept = Sold(hold)
  OBVIOUS
<1> DEFINE S == DOMAIN kept \cup Bought
           u == [g \in S |-> IF g \in Bought THEN AddGood(kept, g, lot(g))[g] ELSE kept[g]]
<1>2. Traded = u
  BY <1>1, Zenon DEF Traded, u, S, lot
<1>3. /\ Table(kept) /\ \A g \in DOMAIN kept : kept[g].transacted = 0
      /\ \A k \in Goods : Amount(kept, k)
                            = Amount(hold, k) - IF k \in DOMAIN hold THEN hold[k].transacted ELSE 0
  BY <1>1, SoldKeeps
<1>4. Bought \subseteq Goods /\ DOMAIN kept \subseteq Goods
  BY <1>3 DEF Bought, Table
<1>5. ASSUME NEW g \in Bought
      PROVE  LET got == AddGood(kept, g, lot(g))[g] IN
             /\ got \in Good /\ got.transacted = 0 /\ got.quantity = Amount(kept, g) + market[g].transacted
  <2>1. g \in DOMAIN market /\ market[g] \in Good /\ market[g].transacted > 0 /\ g \in Goods
    BY <1>4 DEF Bought, Table
  <2>2. lot(g) \in Good /\ lot(g).transacted = 0 /\ lot(g).quantity = market[g].transacted
    <3>1. market[g].transacted \in Nat \ {0}
      BY <2>1 DEF Good
    <3> QED BY <2>1, <3>1, Unplan
  <2> HIDE DEF lot
  <2>3. PICK good : good = IF g \in DOMAIN kept THEN [kept[g] EXCEPT !.quantity = @ + lot(g).quantity]
                           ELSE lot(g)
    OBVIOUS
  <2>4. /\ good \in Good /\ good.transacted = 0 /\ good.quantity = Amount(kept, g) + market[g].transacted
        /\ good.quantity \in Nat /\ good.quantity > 0 /\ good.transacted <= good.quantity
    <3>1. CASE g \in DOMAIN kept
      <4>1. kept[g] \in Good /\ kept[g].transacted = 0
        BY <1>3, <3>1 DEF Table
      <4>2. good = [kept[g] EXCEPT !.quantity = @ + lot(g).quantity]
        BY <2>3, <3>1
      <4>3. kept[g].quantity \in Nat /\ lot(g).quantity \in Nat /\ lot(g).quantity > 0
        BY <2>1, <2>2, <4>1 DEF Good
      <4>4. good \in Good /\ good.transacted = 0 /\ good.quantity = kept[g].quantity + lot(g).quantity
        BY <4>1, <4>2, <4>3 DEF Good
      <4>5. Amount(kept, g) = kept[g].quantity
        BY <3>1 DEF Amount
      <4> QED BY <2>2, <4>3, <4>4, <4>5
    <3>2. CASE g \notin DOMAIN kept
      <4>1. good = lot(g) /\ Amount(kept, g) = 0
        BY <2>3, <3>2 DEF Amount
      <4>2. market[g].transacted \in Nat
        BY <2>1 DEF Good
      <4> QED BY <2>1, <2>2, <4>1, <4>2
    <3> QED BY <3>1, <3>2
  <2>5. AddGood(kept, g, lot(g)) = UpdateGood(kept, g, good)
    BY <2>3, Zenon DEF AddGood
  <2>6. UpdateGood(kept, g, good)[g] = good
    BY <1>3, <2>1, <2>4, UpdateGoodKeeps
  <2>7. AddGood(kept, g, lot(g))[g] = good
    BY <2>5, <2>6, Zenon
  <2> QED BY <2>4, <2>7
<1> HIDE DEF lot
<1>6. ASSUME NEW g \in S
      PROVE  u[g] \in Good /\ u[g].transacted = 0 /\ u[g].transacted <= u[g].quantity
  <2>1. CASE g \in Bought
    <3>1. u[g] = AddGood(kept, g, lot(g))[g]
      BY <2>1
    <3>2. u[g] \in Good /\ u[g].transacted = 0
      BY <1>5, <2>1, <3>1
    <3> HIDE DEF u
    <3> QED BY <3>2 DEF Good
  <2>2. CASE g \notin Bought
    <3>1. u[g] = kept[g] /\ g \in DOMAIN kept
      BY <2>2
    <3>2. kept[g] \in Good /\ kept[g].transacted = 0 /\ kept[g].transacted <= kept[g].quantity
      BY <1>3, <3>1 DEF Table
    <3> QED BY <3>1, <3>2
  <2> QED BY <2>1, <2>2
<1>7. Table(u) /\ DOMAIN u = S
  <2>1. u = [h \in S |-> u[h]] /\ S \in SUBSET Goods
    BY <1>4
  <2> HIDE DEF u, S
  <2> QED BY <1>6, <2>1, TableOf
<1>8. ASSUME NEW k \in Goods
      PROVE  Amount(u, k) = Amount(kept, k) + (IF k \in DOMAIN market THEN market[k].transacted ELSE 0)
  <2>1. CASE k \in Bought
    <3>1. u[k] = AddGood(kept, k, lot(k))[k] /\ k \in DOMAIN u
      BY <2>1
    <3>2. u[k].quantity = Amount(kept, k) + market[k].transacted
      BY <1>5, <2>1, <3>1
    <3>3. k \in DOMAIN market
      BY <2>1 DEF Bought
    <3> HIDE DEF u
    <3> QED BY <3>1, <3>2, <3>3 DEF Amount
  <2>2. CASE k \notin Bought
    <3>1. k \in DOMAIN market => market[k].transacted = 0
      <4>1. k \in DOMAIN market => market[k] \in Good
        BY DEF Table
      <4> QED BY <2>2, <4>1 DEF Bought, Good
    <3>2. Amount(u, k) = Amount(kept, k)
      BY <2>2 DEF Amount
    <3>3. Amount(kept, k) \in Nat
      BY <1>3 DEF Amount, Table, Good
    <3> HIDE DEF u
    <3> QED BY <3>1, <3>2, <3>3
  <2> QED BY <2>1, <2>2
<1> HIDE DEF u, S
<1> QED BY <1>2, <1>3, <1>6, <1>7, <1>8

LEMMA Reprice ==
  ASSUME NEW good \in Good, NEW p \in Prices
  PROVE  LET n == [good EXCEPT !.sell = p] IN
         /\ n \in Good /\ n.quantity = good.quantity /\ n.transacted = good.transacted
BY DEF Good

LEMMA Replan ==
  ASSUME NEW good \in Good, NEW n \in Nat
  PROVE  LET m == [good EXCEPT !.transacted = n] IN
         /\ m \in Good /\ m.quantity = good.quantity /\ m.transacted = n
BY DEF Good

\* Prices change neither quantities nor plans.
LEMMA PricedKeeps ==
  ASSUME NEW t, Table(t), NEW price \in [Goods -> Prices]
  PROVE  /\ Table(Priced(t, price)) /\ DOMAIN Priced(t, price) = DOMAIN t
         /\ \A g \in DOMAIN t : Priced(t, price)[g].transacted = t[g].transacted
         /\ \A k \in Goods : Amount(Priced(t, price), k) = Amount(t, k)
<1> DEFINE u == [g \in DOMAIN t |-> [t[g] EXCEPT !.sell = price[g]]]
<1>1. Priced(t, price) = u /\ DOMAIN u = DOMAIN t
  BY DEF Priced
<1>2. DOMAIN t \in SUBSET Goods
  BY DEF Table
<1>3. ASSUME NEW g \in DOMAIN t
      PROVE  u[g] \in Good /\ u[g].quantity = t[g].quantity /\ u[g].transacted = t[g].transacted
             /\ u[g].transacted <= u[g].quantity
  <2>1. t[g] \in Good /\ t[g].transacted <= t[g].quantity /\ price[g] \in Prices
    BY <1>2 DEF Table
  <2>2. u[g] = [t[g] EXCEPT !.sell = price[g]]
    OBVIOUS
  <2> HIDE DEF u
  <2>3. LET n == [t[g] EXCEPT !.sell = price[g]] IN
        n \in Good /\ n.quantity = t[g].quantity /\ n.transacted = t[g].transacted
    BY ONLY <2>1, Reprice
  <2>4. u[g] \in Good /\ u[g].quantity = t[g].quantity /\ u[g].transacted = t[g].transacted
    BY ONLY <2>2, <2>3, Zenon
  <2> QED BY <2>1, <2>4
<1>4. u = [g \in DOMAIN t |-> u[g]]
  OBVIOUS
<1> HIDE DEF u
<1>5. Table(u)
  BY <1>2, <1>3, <1>4, TableOf
<1>6. \A k \in Goods : Amount(u, k) = Amount(t, k)
  BY <1>1, <1>3 DEF Amount
<1> QED BY <1>1, <1>3, <1>5, <1>6

LEMMA UnplannedKeeps ==
  ASSUME NEW t, Table(t)
  PROVE  /\ Table(Unplanned(t)) /\ \A g \in DOMAIN Unplanned(t) : Unplanned(t)[g].transacted = 0
<1> DEFINE u == [g \in DOMAIN t |-> [t[g] EXCEPT !.transacted = 0]]
<1>1. Unplanned(t) = u /\ DOMAIN u = DOMAIN t
  BY DEF Unplanned
<1>2. DOMAIN t \in SUBSET Goods
  BY DEF Table
<1>3. ASSUME NEW g \in DOMAIN t
      PROVE  u[g] \in Good /\ u[g].transacted = 0 /\ u[g].transacted <= u[g].quantity
  <2>1. t[g] \in Good
    BY <1>2 DEF Table
  <2>2. u[g] = [t[g] EXCEPT !.transacted = 0]
    OBVIOUS
  <2> HIDE DEF u
  <2>3. LET n == [t[g] EXCEPT !.transacted = 0] IN n \in Good /\ n.transacted = 0
    BY ONLY <2>1, Replan, 0 \in Nat
  <2>4. u[g] \in Good /\ u[g].transacted = 0
    BY ONLY <2>2, <2>3, Zenon
  <2> QED BY <2>4, GoodFields
<1>4. u = [g \in DOMAIN t |-> u[g]]
  OBVIOUS
<1> HIDE DEF u
<1>5. Table(u)
  BY <1>2, <1>3, <1>4, TableOf
<1> QED BY <1>1, <1>3, <1>5

\* No good, no table.
LEMMA EmptyTable ==
  Table([g \in {} |-> 0]) /\ \A k \in Goods : Amount([g \in {} |-> 0], k) = 0
BY DEF Table, Amount

LEMMA TimesInt == \A a, b \in Int : a * b \in Int
OBVIOUS

\* What the trades come to is an amount of credits, and none when nothing is
\* planned, nobody is aboard and nothing is loaded.
LEMMA TotalInt ==
  ASSUME TradingTypeOK
  PROVE  /\ Total \in Int
         /\ aboard = 0 /\ loaded = {} /\ (\A g \in DOMAIN market : market[g].transacted = 0)
              /\ (\A g \in DOMAIN hold : hold[g].transacted = 0) => Total = 0
<1> DEFINE lots == loaded \cap DOMAIN offer.lots
           priced == {g \in DOMAIN hold : hold[g].sell # Unpriced}
           f == [g \in priced |-> hold[g].transacted * hold[g].sell]
           h == [g \in DOMAIN market |-> market[g].transacted * market[g].buy]
<1>1. offer.lots \in Seq(Nat) /\ aboard \in Nat /\ Table(market) /\ Table(hold)
  BY DEF TradingTypeOK
<1>2. LotTons \in Int /\ (loaded = {} => LotTons = 0)
  <2>1. DOMAIN offer.lots = 1 .. Len(offer.lots) /\ Len(offer.lots) \in Nat
    BY <1>1
  <2>2. IsFiniteSet(DOMAIN offer.lots)
    <3>1. PICK n : n = Len(offer.lots)
      OBVIOUS
    <3>2. 1 \in Int /\ n \in Int
      BY ONLY <2>1, <3>1
    <3>3. IsFiniteSet(1 .. n)
      BY ONLY <3>2, FS_Interval
    <3>4. DOMAIN offer.lots = 1 .. n
      BY ONLY <2>1, <3>1
    <3> QED BY ONLY <3>3, <3>4
  <2>3. IsFiniteSet(lots) /\ \A i \in lots : offer.lots[i] \in Int
    BY <1>1, <2>1, <2>2, FS_Subset
  <2>4. LotTons = SumOver(offer.lots, lots)
    BY DEF LotTons
  <2>5. loaded = {} => lots = {}
    OBVIOUS
  <2> HIDE DEF lots
  <2> QED BY <2>3, <2>4, <2>5, SumType, SumEmpty
<1>3. Sales \in Int /\ ((\A g \in DOMAIN hold : hold[g].transacted = 0) => Sales = 0)
  <2>1. IsFiniteSet(priced)
    BY <1>1, TradingBounds, FS_Subset DEF Table
  <2>2. ASSUME NEW g \in priced
        PROVE  /\ hold[g].transacted \in Int /\ hold[g].sell \in Int
               /\ f[g] = hold[g].transacted * hold[g].sell
    <3>1. hold[g] \in Good
      BY <1>1 DEF Table
    <3>2. hold[g].transacted \in Nat /\ hold[g].sell \in Int
      BY ONLY <3>1, GoodFields, TradingBounds DEF Unpriced
    <3> QED BY <3>2
  <2>3. \A g \in priced : f[g] \in Int
    BY <2>2, TimesInt
  <2>4. (\A g \in DOMAIN hold : hold[g].transacted = 0) => \A g \in priced : f[g] = 0
    BY <2>2
  <2>5. Sales = SumOver(f, priced)
    BY Zenon DEF Sales, f, priced
  <2> HIDE DEF f, priced
  <2> QED BY <2>1, <2>3, <2>4, <2>5, SumType, SumZero
<1>4. Purchases \in Int /\ ((\A g \in DOMAIN market : market[g].transacted = 0) => Purchases = 0)
  <2>1. IsFiniteSet(DOMAIN market)
    BY <1>1, TradingBounds, FS_Subset DEF Table
  <2>2. ASSUME NEW g \in DOMAIN market
        PROVE  /\ market[g].transacted \in Int /\ market[g].buy \in Int
               /\ h[g] = market[g].transacted * market[g].buy
    <3>1. market[g] \in Good
      BY <1>1 DEF Table
    <3>2. market[g].transacted \in Nat /\ market[g].buy \in Int
      BY ONLY <3>1, GoodFields, TradingBounds DEF Unpriced
    <3> QED BY <3>2
  <2>3. \A g \in DOMAIN market : h[g] \in Int
    BY <2>2, TimesInt
  <2>4. (\A g \in DOMAIN market : market[g].transacted = 0) => \A g \in DOMAIN market : h[g] = 0
    BY <2>2
  <2>5. Purchases = SumOver(h, DOMAIN market)
    BY Zenon DEF Purchases, h
  <2> HIDE DEF h
  <2> QED BY <2>1, <2>3, <2>4, <2>5, SumType, SumZero
<1>5. aboard * Fare \in Int /\ LotTons * Freight \in Int
  BY <1>1, <1>2, TradingBounds, TimesInt
<1>6. Total = aboard * Fare + LotTons * Freight + Sales - Purchases
  BY DEF Total
<1>7. aboard = 0 => aboard * Fare = 0
  BY TradingBounds
<1>8. LotTons = 0 => LotTons * Freight = 0
  BY TradingBounds
<1> QED BY <1>2, <1>3, <1>4, <1>5, <1>6, <1>7, <1>8

\* With nothing planned a sale takes nothing away.
LEMMA SoldAlone ==
  ASSUME NEW t, Table(t), \A g \in DOMAIN t : t[g].transacted = 0
  PROVE  Sold(t) = t
<1> DEFINE all == [g \in DOMAIN t |-> [t[g] EXCEPT !.quantity = @ - t[g].transacted, !.transacted = 0]]
<1>1. ASSUME NEW g \in DOMAIN t PROVE all[g] = t[g] /\ t[g].quantity > 0
  <2>1. t[g] \in Good /\ t[g].transacted = 0
    BY DEF Table
  <2>2. t[g].quantity \in Nat /\ t[g].quantity > 0
    BY <2>1, GoodFields
  <2>3. t[g].quantity - t[g].transacted = t[g].quantity
    BY <2>1, <2>2
  <2>4. [t[g] EXCEPT !.quantity = t[g].quantity, !.transacted = 0] = t[g]
    BY <2>1 DEF Good
  <2>5. all[g] = [t[g] EXCEPT !.quantity = t[g].quantity - t[g].transacted, !.transacted = 0]
    OBVIOUS
  <2> HIDE DEF all
  <2> QED BY <2>2, <2>3, <2>4, <2>5
<1>2. t = [g \in DOMAIN t |-> t[g]]
  BY DEF Table
<1>3. all = t
  <2>1. all = [g \in DOMAIN t |-> all[g]] /\ DOMAIN all = DOMAIN t
    OBVIOUS
  <2> HIDE DEF all
  <2> QED BY <1>1, <1>2, <2>1
<1>4. {g \in DOMAIN t : t[g].quantity > 0} = DOMAIN t
  BY <1>1
<1>5. Sold(t) = [g \in {k \in DOMAIN all : all[k].quantity > 0} |-> all[g]]
  BY Zenon DEF Sold, Stocked, Restrict, all
<1> HIDE DEF all
<1> QED BY <1>2, <1>3, <1>4, <1>5

LEMMA LeastOf ==
  ASSUME NEW a \in Nat, NEW b \in Nat
  PROVE  Min({a, b}) \in Nat /\ Min({a, b}) <= b
<1>1. \E x \in {a, b} : \A y \in {a, b} : x =< y
  OBVIOUS
<1>2. Min({a, b}) \in {a, b} /\ \A y \in {a, b} : Min({a, b}) =< y
  BY <1>1 DEF Min
<1> QED BY <1>2

LEMMA Balanced == GoodsBalance <=> \A g \in Goods : taken[g] - left[g] = Amount(hold, g)
BY DEF GoodsBalance, Amount

LEMMA TradingStarts == TradingInit => TradingInv
<1> SUFFICES ASSUME TradingInit PROVE TradingInv
  OBVIOUS
<1> USE DEF TradingInit
<1>1. Table(market) /\ Table(hold) /\ \A k \in Goods : Amount(hold, k) = 0
  BY EmptyTable
<1>2. offer \in [passengers : Nat, lots : Seq(Nat)]
  OBVIOUS
<1>3. clicks \in 0..Clicks
  BY TradingBounds
<1>4. taken \in [Goods -> Nat] /\ left \in [Goods -> Nat]
  OBVIOUS
<1>5. aboard \in Nat /\ loaded \subseteq Nat /\ profit \in Int /\ settled = FALSE
  OBVIOUS
<1>6. TradingTypeOK
  BY ONLY <1>1, <1>2, <1>3, <1>4, <1>5 DEF TradingTypeOK
<1>7. GoodsBalance
  <2> SUFFICES ASSUME NEW g \in Goods PROVE taken[g] - left[g] = Amount(hold, g)
    BY Balanced
  <2>1. taken[g] = 0 /\ left[g] = 0
    OBVIOUS
  <2>2. Amount(hold, g) = 0
    BY <1>1
  <2> QED BY ONLY <2>1, <2>2
<1> QED BY <1>5, <1>6, <1>7 DEF TradingInv

\* What an action does to the tables decides whether the invariant survives it.
LEMMA ClickKeeps ==
  ASSUME TradingTypeOK, clicks > 0, clicks' = clicks - 1
  PROVE  clicks' \in 0..Clicks
BY TradingBounds DEF TradingTypeOK

LEMMA TradingKeeps ==
  ASSUME Table(market)', Table(hold)', aboard' \in Nat, loaded' \subseteq Nat, profit' \in Int,
         offer' \in [passengers : Nat, lots : Seq(Nat)],
         taken' \in [Goods -> Nat], left' \in [Goods -> Nat], clicks' \in 0..Clicks,
         \A g \in Goods : taken'[g] - left'[g] = Amount(hold', g),
         settled' = FALSE
  PROVE  TradingInv'
<1>1. TradingTypeOK'
  BY DEF TradingTypeOK
<1>2. GoodsBalance'
  BY DEF GoodsBalance, Amount
<1> QED BY <1>1, <1>2 DEF TradingInv

LEMMA StepsOfTrading ==
  ASSUME TradingInv, TradingNext
  PROVE  TradingInv'
<1> USE DEF Click
<1>0. /\ Table(market) /\ Table(hold) /\ aboard \in Nat /\ loaded \subseteq Nat /\ profit \in Int
      /\ offer \in [passengers : Nat, lots : Seq(Nat)]
      /\ taken \in [Goods -> Nat] /\ left \in [Goods -> Nat]
      /\ TradingTypeOK
      /\ \A g \in Goods : taken[g] - left[g] = Amount(hold, g)
  BY Balanced DEF TradingInv, TradingTypeOK
<1>1. ASSUME NEW g \in Goods, NEW n \in 0..Tons, PlanPurchase(g, n) PROVE TradingInv'
  <2> USE <1>1 DEF PlanPurchase
  <2>1. n \in Nat /\ g \in DOMAIN market /\ market[g] \in Good /\ DOMAIN market \subseteq Goods
    BY <1>0, TradingBounds DEF Table
  <2>2. PICK m : m = Min({n, market[g].quantity})
    OBVIOUS
  <2>3. m \in Nat /\ m <= market[g].quantity
    BY <2>1, <2>2, LeastOf, GoodFields
  <2>4. PICK good : good = [market[g] EXCEPT !.transacted = m]
    OBVIOUS
  <2>5. good \in Good /\ good.transacted <= good.quantity
    BY <2>1, <2>3, <2>4, Replan
  <2>6. market' = [market EXCEPT ![g] = good]
    BY <2>2, <2>4
  <2>7. Table(market')
    BY <1>0, <2>5, <2>6 DEF Table
  <2> QED BY <1>0, <2>7, ClickKeeps, TradingKeeps
<1>2. ASSUME NEW g \in Goods, NEW n \in 0..Tons, PlanSale(g, n) PROVE TradingInv'
  <2> USE <1>2 DEF PlanSale
  <2>1. n \in Nat /\ g \in DOMAIN hold /\ hold[g] \in Good
    BY <1>0, TradingBounds DEF Table
  <2>2. PICK m : m = Min({n, hold[g].quantity})
    OBVIOUS
  <2>3. m \in Nat /\ m <= hold[g].quantity
    BY <2>1, <2>2, LeastOf, GoodFields
  <2>4. PICK good : good = [hold[g] EXCEPT !.transacted = m]
    OBVIOUS
  <2>5. /\ good \in Good /\ good.transacted <= good.quantity
        /\ good.quantity = hold[g].quantity /\ good.quantity \in Nat
    BY <2>1, <2>3, <2>4, Replan, GoodFields
  <2>6. hold' = UpdateGood(hold, g, good)
    BY <2>2, <2>4
  <2>7. /\ Table(UpdateGood(hold, g, good))
        /\ \A k \in Goods : Amount(UpdateGood(hold, g, good), k)
                              = IF k = g THEN good.quantity ELSE Amount(hold, k)
    BY <1>0, <2>5, UpdateGoodKeeps
  <2>8. Amount(hold, g) = good.quantity
    BY <2>1, <2>5 DEF Amount
  <2>9. Table(hold') /\ \A k \in Goods : Amount(hold', k) = Amount(hold, k)
    BY ONLY <2>6, <2>7, <2>8
  <2> QED BY <1>0, <2>9, ClickKeeps, TradingKeeps
<1>3. ASSUME NEW g \in Goods, NEW n \in 0..Tons, NEW p \in Prices, AddManually(g, n, p)
      PROVE  TradingInv'
  <2> USE <1>3 DEF AddManually
  <2>1. n \in Nat
    BY TradingBounds
  <2>2. PICK good : good = [quantity |-> n, transacted |-> 0, buy |-> p, sell |-> Unpriced]
    OBVIOUS
  <2>3. /\ good.quantity = n /\ good.transacted = 0
        /\ n > 0 => good \in Good /\ good.transacted <= good.quantity
    BY <2>1, <2>2 DEF Good
  <2>4. hold' = UpdateGood(hold, g, good)
    BY <2>2
  <2>5. /\ Table(UpdateGood(hold, g, good))
        /\ \A k \in Goods : Amount(UpdateGood(hold, g, good), k)
                              = IF k = g THEN good.quantity ELSE Amount(hold, k)
    BY <1>0, <2>1, <2>3, UpdateGoodKeeps
  <2>6. Table(hold') /\ \A k \in Goods : Amount(hold', k) = IF k = g THEN n ELSE Amount(hold, k)
    BY <2>3, <2>4, <2>5
  <2>7. taken' \in [Goods -> Nat]
    BY <1>0, <2>1
  <2>8. \A k \in Goods : taken'[k] - left'[k] = Amount(hold', k)
    BY <1>0, <2>1, <2>6
  <2> QED BY <1>0, <2>6, <2>7, <2>8, ClickKeeps, TradingKeeps
<1>4. CASE BoardPassenger
  <2>1. aboard' \in Nat
    BY <1>0, <1>4 DEF BoardPassenger
  <2>2. clicks' \in 0..Clicks
    BY <1>0, <1>4, ClickKeeps DEF BoardPassenger
  <2> QED BY <1>0, <1>4, <2>1, <2>2, TradingKeeps DEF BoardPassenger
<1>5. CASE DropPassenger
  <2>1. aboard' \in Nat
    BY <1>0, <1>5 DEF DropPassenger
  <2> QED BY <1>0, <1>5, <2>1, ClickKeeps, TradingKeeps DEF DropPassenger
<1>6. CASE ResetManifest
  <2> USE <1>6 DEF ResetManifest
  <2>1. Table(market')
    BY <1>0, UnplannedKeeps
  <2>2. Table(hold') /\ \A k \in Goods : Amount(hold', k) = 0
    BY ONLY EmptyTable, hold' = [g \in {} |-> 0]
  <2>3. \A k \in Goods : taken'[k] - left'[k] = 0
    BY <1>0
  <2>4. aboard' \in Nat /\ loaded' \subseteq Nat /\ profit' \in Int /\ left' \in [Goods -> Nat]
    BY <1>0
  <2> QED BY <1>0, <2>1, <2>2, <2>3, <2>4, ClickKeeps, TradingKeeps
<1>7. CASE Execute
  <2> USE <1>7 DEF Execute
  <2>1. PICK price \in [Goods -> Prices] : hold' = Priced(Traded, price)
    OBVIOUS
  <2>2. PICK t : t = Traded
    OBVIOUS
  <2>3. /\ Table(t) /\ \A g \in DOMAIN t : t[g].transacted = 0
        /\ \A k \in Goods : Amount(t, k)
             = Amount(hold, k) - (IF k \in DOMAIN hold THEN hold[k].transacted ELSE 0)
                 + (IF k \in DOMAIN market THEN market[k].transacted ELSE 0)
    BY <1>0, <2>2, TradedKeeps
  <2>4. hold' = Priced(t, price)
    BY <2>1, <2>2
  <2>5. /\ Table(hold') /\ \A g \in DOMAIN hold' : hold'[g].transacted = 0
        /\ \A k \in Goods : Amount(hold', k) = Amount(t, k)
    BY <2>3, <2>4, PricedKeeps
  <2>6. Table(market') /\ \A g \in DOMAIN market' : market'[g].transacted = 0
    BY <1>0, UnplannedKeeps
  <2>7. profit' \in Int
    BY <1>0, TotalInt
  <2>8. /\ \A g \in DOMAIN hold : hold[g].transacted \in Nat
        /\ \A g \in DOMAIN market : market[g].transacted \in Nat
    BY <1>0, GoodFields DEF Table
  <2>9. left' \in [Goods -> Nat] /\ taken' \in [Goods -> Nat]
    BY SMTT(20), <1>0, <2>8
  <2>10. \A k \in Goods : Amount(hold, k) \in Int
    BY <1>0, GoodFields DEF Amount, Table
  <2>11. \A k \in Goods : taken'[k] - left'[k] = Amount(hold', k)
    <3> SUFFICES ASSUME NEW k \in Goods PROVE taken'[k] - left'[k] = Amount(hold', k)
      OBVIOUS
    <3>1. PICK out, in : /\ out = IF k \in DOMAIN hold THEN hold[k].transacted ELSE 0
                         /\ in = IF k \in DOMAIN market THEN market[k].transacted ELSE 0
      OBVIOUS
    <3>2. out \in Nat /\ in \in Nat
      BY <2>8, <3>1
    <3>3. Amount(hold', k) = Amount(hold, k) - out + in
      BY <2>3, <2>5, <3>1
    <3>4. left'[k] = left[k] + out /\ taken'[k] = taken[k] + in
      BY <3>1
    <3>5. taken[k] - left[k] = Amount(hold, k) /\ taken[k] \in Nat /\ left[k] \in Nat
      BY <1>0
    <3> QED BY ONLY <2>10, <3>2, <3>3, <3>4, <3>5
  <2>12. clicks' \in 0..Clicks
    BY <1>0, ClickKeeps
  <2>13. TradingTypeOK'
    BY <1>0, <2>5, <2>6, <2>7, <2>9, <2>12 DEF TradingTypeOK
  <2>14. GoodsBalance'
    BY <2>11 DEF GoodsBalance, Amount
  <2> QED BY <2>5, <2>6, <2>13, <2>14 DEF TradingInv
<1>8. ASSUME NEW i \in DOMAIN offer.lots, LoadLot(i) PROVE TradingInv'
  <2> USE <1>8 DEF LoadLot
  <2>1. i \in Nat
    <3>1. offer.lots \in Seq(Nat)
      BY <1>0
    <3> QED BY <3>1
  <2> QED BY <1>0, <2>1, ClickKeeps, TradingKeeps
<1>9. ASSUME NEW o \in Offers, Answered(o) PROVE TradingInv'
  <2> USE <1>9 DEF Answered
  <2>1. /\ o.price \in [Goods -> Prices] /\ Table(o.market) /\ o.passengers \in Nat /\ o.lots \in Seq(Nat)
    BY TradingAssumption
  <2>2. Table(hold') /\ \A k \in Goods : Amount(hold', k) = Amount(hold, k)
    BY <1>0, <2>1, PricedKeeps
  <2>3. Table(market') /\ offer' \in [passengers : Nat, lots : Seq(Nat)]
    BY <2>1
  <2> QED BY <1>0, <2>2, <2>3, ClickKeeps, TradingKeeps
<1> QED BY <1>1, <1>2, <1>3, <1>4, <1>5, <1>6, <1>7, <1>8, <1>9 DEF TradingNext

LEMMA TradingStays == TradingInv /\ UNCHANGED tradingVars => TradingInv'
BY DEF TradingInv, TradingTypeOK, GoodsBalance, tradingVars

LEMMA SettledIsOver == TradingInv => ExecutesOnce
<1> SUFFICES ASSUME TradingInv, settled PROVE Total = 0 /\ Bought = {} /\ Sold(hold) = hold
  BY DEF ExecutesOnce
<1>1. /\ aboard = 0 /\ loaded = {}
      /\ \A g \in DOMAIN market : market[g].transacted = 0
      /\ \A g \in DOMAIN hold : hold[g].transacted = 0
      /\ TradingTypeOK /\ Table(hold)
  BY DEF TradingInv, TradingTypeOK
<1>2. Total = 0
  BY <1>1, TotalInt
<1>3. Bought = {}
  BY <1>1 DEF Bought
<1>4. Sold(hold) = hold
  BY <1>1, SoldAlone
<1> QED BY <1>2, <1>3, <1>4

-----------------------------------------------------------------------------
(* The HTTP server (PlanetServer).                                         *)

\* An image that some request with this key, so far, would have had drawn.
KeptFor(calls, k, img) == \E p \in calls : CacheKey(p) = k /\ img = Drawn(p)
KeptUnder(k, img) == KeptFor(AskedFor, k, img)

Busy == {"get", "MISS", "BYPASS", "DISABLED", "send"}
Phases == Busy \cup {"idle", "http", "/ws/trade", "/ws/simulator", "/ws/captains-log", "closed"}

ConnType == conn \in [Conns -> [call : Calls \cup {NoParams}, phase : Phases]]

\* What is kept and what is about to be kept is under its key; what a request
\* goes on with is under the key of its own parameters.
KeysInv ==
  /\ \A k \in DOMAIN stored : KeptUnder(k, stored[k])
  /\ \A p \in puts : KeptUnder(p.key, p.image)
  /\ ConnType
  /\ DOMAIN image = Conns /\ DOMAIN reply = Conns
  /\ \A c \in Conns : conn[c].phase # "idle" => conn[c].call \in Calls
  /\ \A c \in Conns : conn[c].phase \in Busy => Params(c) \in AskedFor
  /\ \A c \in Conns : conn[c].phase = "send" => KeptUnder(CacheKey(Params(c)), image[c])
  /\ \A c \in Conns : conn[c].phase # "closed" => reply[c] = NoReply

ServerInv == KeysInv /\ SentAlike
-----------------------------------------------------------------------------
LEMMA MinOfTwo ==
  ASSUME NEW a \in Nat, NEW b \in Nat
  PROVE  Min({a, b}) = IF a <= b THEN a ELSE b
<1> DEFINE m == IF a <= b THEN a ELSE b
<1>1. m \in {a, b} /\ \A y \in {a, b} : m <= y
  OBVIOUS
<1>2. \A x \in {a, b} : (\A y \in {a, b} : x <= y) => x = m
  OBVIOUS
<1>3. (CHOOSE x \in {a, b} : \A y \in {a, b} : x <= y) = m
  BY <1>1, <1>2
<1> QED BY <1>3 DEF Min

LEMMA KeptForMore ==
  ASSUME NEW A, NEW B, A \subseteq B, NEW k, NEW img, KeptFor(A, k, img)
  PROVE  KeptFor(B, k, img)
BY DEF KeptFor

\* Requests of one key mean one planet.
LEMMA OneKeyAlike == ASSUME NEW p, NEW q, CacheKey(p) = CacheKey(q) PROVE Alike(p, q)
BY DEF CacheKey, Alike
-----------------------------------------------------------------------------
\* A reply to connection c: what SentAlike says of one.
Right(calls, c, r) ==
  r.code = 200 /\ r.image # NoParams =>
    \E p \in calls : Alike(p, Params(c)) /\ r.image = AtScale(c, Drawn(p))

LEMMA SentIsRight == SentAlike <=> \A c \in Conns : Right(AskedFor, c, reply[c])
  BY DEF SentAlike, SentMap, Right

LEMMA StatusIsRight == ASSUME NEW n, NEW A, NEW c PROVE Right(A, c, Status(n))
  BY DEF Right, Status

\* A connection with no reply stands right.
LEMMA NoReplyIsRight ==
  ASSUME NEW c, reply[c] = NoReply, UNCHANGED reply
  PROVE  Right(AskedFor, c, reply[c])'
<1>1. reply'[c].code = 0
  BY DEF NoReply
<1> QED BY <1>1 DEF Right

\* Goes and Replies move connection c and no other.
LEMMA GoesMoves ==
  ASSUME ConnType, NEW c \in Conns, NEW phase \in Phases, Goes(c, phase)
  PROVE  /\ ConnType' /\ conn'[c].phase = phase /\ conn'[c].call = conn[c].call
         /\ \A d \in Conns \ {c} : conn'[d] = conn[d]
         /\ Params(c)' = Params(c)
<1>1. conn' = [conn EXCEPT ![c] = [conn[c] EXCEPT !.phase = phase]]
  BY DEF Goes
<1>2. conn[c] \in [call : Calls \cup {NoParams}, phase : Phases]
  BY DEF ConnType
<1>3. /\ [conn[c] EXCEPT !.phase = phase] \in [call : Calls \cup {NoParams}, phase : Phases]
      /\ [conn[c] EXCEPT !.phase = phase].phase = phase
      /\ [conn[c] EXCEPT !.phase = phase].call = conn[c].call
  BY <1>2
<1>4. /\ conn'[c] = [conn[c] EXCEPT !.phase = phase]
      /\ \A d \in Conns \ {c} : conn'[d] = conn[d]
      /\ ConnType'
  BY <1>1, <1>3 DEF ConnType
<1> QED BY <1>3, <1>4 DEF Params

\* What the step of connection c leaves of everything else, and brings itself.
Steps(c) ==
  /\ stored' = stored
  /\ \A p \in puts' : p \in puts \/ KeptFor(AskedFor', p.key, p.image)
  /\ ConnType'
  /\ DOMAIN image' = Conns /\ DOMAIN reply' = Conns
  /\ \A d \in Conns \ {c} : conn'[d] = conn[d] /\ image'[d] = image[d] /\ reply'[d] = reply[d]
  /\ conn'[c].call \in Calls
  /\ conn[c].phase # "idle" => conn'[c].phase # "idle" /\ conn'[c].call = conn[c].call
  /\ conn'[c].phase \in Busy => Params(c)' \in AskedFor'
  /\ conn'[c].phase = "send" => KeptFor(AskedFor', CacheKey(Params(c)'), image'[c])
  /\ conn'[c].phase # "closed" => reply'[c] = NoReply
  /\ Right(AskedFor, c, reply[c])'

\* What has been asked stays asked.
LEMMA AskedStays ==
  ASSUME NEW c \in Conns, \A d \in Conns \ {c} : conn'[d] = conn[d],
         conn[c].phase # "idle" => conn'[c].phase # "idle" /\ conn'[c].call = conn[c].call
  PROVE  AskedFor \subseteq AskedFor'
<1>1. \A d \in Conns : conn[d].phase # "idle" => conn'[d].phase # "idle" /\ conn'[d].call = conn[d].call
  OBVIOUS
<1> QED BY <1>1 DEF AskedFor, Serves, Params

LEMMA StepsKeep == ASSUME ServerInv, NEW c \in Conns, Steps(c) PROVE ServerInv'
<1>1. \A d \in Conns \ {c} : Params(d)' = Params(d)
  BY DEF Params, Steps
<1>2. AskedFor \subseteq AskedFor'
  BY AskedStays DEF Steps
<1>3. KeysInv'
  <2>1. \A k \in DOMAIN stored' : KeptFor(AskedFor', k, stored'[k])
    BY <1>2, KeptForMore DEF ServerInv, KeysInv, Steps, KeptUnder
  <2>2. \A p \in puts' : KeptFor(AskedFor', p.key, p.image)
    BY <1>2, KeptForMore DEF ServerInv, KeysInv, Steps, KeptUnder
  <2>3. \A d \in Conns : conn'[d].phase # "idle" => conn'[d].call \in Calls
    BY DEF ServerInv, KeysInv, Steps
  <2>4. \A d \in Conns : conn'[d].phase \in Busy => Params(d)' \in AskedFor'
    BY <1>1, <1>2 DEF ServerInv, KeysInv, Steps
  <2>5. \A d \in Conns : conn'[d].phase = "send" =>
          KeptFor(AskedFor', CacheKey(Params(d)'), image'[d])
    <3> SUFFICES ASSUME NEW d \in Conns, conn'[d].phase = "send"
                 PROVE  KeptFor(AskedFor', CacheKey(Params(d)'), image'[d])
      OBVIOUS
    <3>1. CASE d = c
      BY <3>1 DEF Steps
    <3>2. CASE d # c
      <4>1. conn[d].phase = "send" /\ image'[d] = image[d] /\ Params(d)' = Params(d)
        BY <1>1, <3>2 DEF Steps
      <4>2. KeptFor(AskedFor, CacheKey(Params(d)), image[d])
        BY <4>1 DEF ServerInv, KeysInv, KeptUnder
      <4> QED BY <1>2, <4>1, <4>2, KeptForMore
    <3> QED BY <3>1, <3>2
  <2>6. /\ ConnType' /\ DOMAIN image' = Conns /\ DOMAIN reply' = Conns
        /\ \A d \in Conns : conn'[d].phase # "closed" => reply'[d] = NoReply
    BY DEF ServerInv, KeysInv, Steps
  <2> QED BY <2>1, <2>2, <2>3, <2>4, <2>5, <2>6 DEF KeysInv, KeptUnder
<1>4. \A d \in Conns \ {c} : Right(AskedFor, d, reply[d])'
  <2> SUFFICES ASSUME NEW d \in Conns \ {c} PROVE Right(AskedFor, d, reply[d])'
    OBVIOUS
  <2>1. Right(AskedFor, d, reply[d])
    BY SentIsRight DEF ServerInv
  <2>2. reply'[d] = reply[d] /\ Params(d)' = Params(d)
    BY <1>1 DEF Steps
  <2> QED BY <1>2, <2>1, <2>2 DEF Right, AtScale
<1>5. Right(AskedFor, c, reply[c])'
  BY DEF Steps
<1>6. SentAlike'
  BY <1>4, <1>5 DEF SentAlike, SentMap, Right
<1> QED BY <1>3, <1>6 DEF ServerInv

\* A request that only gets further, with the bucket, its image and its reply
\* as they were, or that is answered with a status.
LEMMA OnwardSteps ==
  ASSUME ServerInv, NEW c \in Conns, conn[c].call \in Calls, reply[c] = NoReply,
         NEW phase \in Phases, phase # "send", Goes(c, phase),
         conn[c].phase # "idle", phase # "idle", phase \in Busy => Params(c) \in AskedFor,
         UNCHANGED <<stored, image, reply, puts>>
  PROVE  Steps(c)
<1>1. /\ ConnType' /\ conn'[c].phase = phase /\ conn'[c].call = conn[c].call
      /\ \A d \in Conns \ {c} : conn'[d] = conn[d]
      /\ Params(c)' = Params(c)
  BY GoesMoves DEF ServerInv, KeysInv
<1>2. AskedFor \subseteq AskedFor'
  BY <1>1, AskedStays
<1>3. Right(AskedFor, c, reply[c])'
  BY NoReplyIsRight
<1> QED BY <1>1, <1>2, <1>3 DEF ServerInv, KeysInv, Steps

LEMMA RepliesSteps ==
  ASSUME ServerInv, NEW c \in Conns, conn[c].call \in Calls, conn[c].phase # "idle", NEW r,
         Replies(c, r), Right(AskedFor, c, r), UNCHANGED <<stored, image, puts>>
  PROVE  Steps(c)
<1>1. /\ ConnType' /\ conn'[c].phase = "closed" /\ conn'[c].call = conn[c].call
      /\ \A d \in Conns \ {c} : conn'[d] = conn[d]
      /\ Params(c)' = Params(c)
  BY GoesMoves DEF ServerInv, KeysInv, Replies, Phases
<1>2. /\ reply'[c] = r /\ DOMAIN reply' = Conns
      /\ \A d \in Conns \ {c} : reply'[d] = reply[d]
  BY DEF ServerInv, KeysInv, Replies
<1>3. AskedFor \subseteq AskedFor'
  BY <1>1, AskedStays
<1>4. Right(AskedFor, c, reply[c])'
  BY <1>1, <1>2, <1>3 DEF Right, AtScale
<1> QED BY <1>1, <1>2, <1>4 DEF ServerInv, KeysInv, Steps, Busy

LEMMA AcceptSteps == ASSUME ServerInv, NEW c \in Conns, NEW call \in Calls, Accept(c, call) PROVE Steps(c)
<1>1. PICK peeked \in IF call.prompt THEN {call.upgrade} ELSE {call.upgrade, FALSE} :
        conn' = [conn EXCEPT ![c] = [call |-> call, phase |->
          IF ~peeked THEN "http"
          ELSE IF call.path \in {"/ws/simulator", "/ws/captains-log"} THEN call.path ELSE "/ws/trade"]]
  BY DEF Accept
<1> DEFINE phase == IF ~peeked THEN "http"
                    ELSE IF call.path \in {"/ws/simulator", "/ws/captains-log"} THEN call.path ELSE "/ws/trade"
<1>2. phase \in {"http", "/ws/simulator", "/ws/captains-log", "/ws/trade"}
  OBVIOUS
<1>3. /\ ConnType' /\ conn'[c].call = call /\ conn'[c].phase = phase
      /\ \A d \in Conns \ {c} : conn'[d] = conn[d]
  <2> HIDE DEF phase
  <2>1. conn' = [conn EXCEPT ![c] = [call |-> call, phase |-> phase]]
    BY <1>1 DEF phase
  <2>2. [call |-> call, phase |-> phase] \in [call : Calls \cup {NoParams}, phase : Phases]
    BY <1>2 DEF Phases
  <2> QED BY <2>1, <2>2 DEF ServerInv, KeysInv, ConnType
<1>4. conn[c].phase = "idle" /\ UNCHANGED <<stored, image, reply, puts>>
  BY DEF Accept
<1>5. reply[c] = NoReply
  BY <1>4 DEF ServerInv, KeysInv
<1>6. Right(AskedFor, c, reply[c])'
  BY <1>4, <1>5, NoReplyIsRight
<1> HIDE DEF phase
<1> QED BY <1>2, <1>3, <1>4, <1>5, <1>6 DEF ServerInv, KeysInv, Steps, Busy

\* Only a request for a map with parameters that serve gets to the bucket.
LEMMA RouteSteps == ASSUME ServerInv, NEW c \in Conns, Route(c) PROVE Steps(c)
<1>1. /\ conn[c].phase = "http" /\ conn[c].call \in Calls
      /\ UNCHANGED <<stored, image, puts>> /\ reply[c] = NoReply
  BY DEF ServerInv, KeysInv, Route
<1>2. CASE Goes(c, "get") /\ UNCHANGED reply /\ Serves(c) /\ conn[c].call.path = "/api/world"
  <2>1. Params(c) \in AskedFor
    BY <1>1, <1>2 DEF AskedFor
  <2> QED BY <1>1, <1>2, <2>1, OnwardSteps DEF Phases, Busy
<1>3. CASE Goes(c, "closed") /\ UNCHANGED reply
  BY <1>1, <1>3, OnwardSteps DEF Phases, Busy
<1>4. ASSUME NEW n, Replies(c, Status(n)) PROVE Steps(c)
  BY <1>1, <1>4, StatusIsRight, RepliesSteps
<1> QED BY <1>2, <1>3, <1>4 DEF Route

LEMMA GetSteps == ASSUME ServerInv, NEW c \in Conns, Get(c) PROVE Steps(c)
<1>1. /\ conn[c].phase = "get" /\ conn[c].call \in Calls /\ Params(c) \in AskedFor
      /\ UNCHANGED <<stored, reply, puts>> /\ reply[c] = NoReply
  BY DEF ServerInv, KeysInv, Get, Busy
<1>2. CASE /\ CacheKey(Params(c)) \in DOMAIN stored
           /\ image' = [image EXCEPT ![c] = stored[CacheKey(Params(c))]] /\ Goes(c, "send")
  <2>1. /\ ConnType' /\ conn'[c].phase = "send" /\ conn'[c].call = conn[c].call
        /\ \A d \in Conns \ {c} : conn'[d] = conn[d]
        /\ Params(c)' = Params(c)
    BY <1>2, GoesMoves DEF ServerInv, KeysInv, Phases, Busy
  <2>2. /\ image'[c] = stored[CacheKey(Params(c))] /\ DOMAIN image' = Conns
        /\ \A d \in Conns \ {c} : image'[d] = image[d]
    BY <1>2 DEF ServerInv, KeysInv
  <2>3. AskedFor \subseteq AskedFor'
    BY <2>1, AskedStays
  <2>4. KeptFor(AskedFor', CacheKey(Params(c)), image'[c])
    BY <1>2, <2>2, <2>3, KeptForMore DEF ServerInv, KeysInv, KeptUnder
  <2>5. Right(AskedFor, c, reply[c])'
    BY <1>1, NoReplyIsRight
  <2> QED BY <1>1, <2>1, <2>2, <2>3, <2>4, <2>5 DEF ServerInv, KeysInv, Steps
<1>3. ASSUME NEW phase \in {"MISS", "BYPASS", "DISABLED"}, Goes(c, phase), UNCHANGED image
      PROVE  Steps(c)
  BY <1>1, <1>3, OnwardSteps DEF Phases, Busy
<1> QED BY <1>2, <1>3 DEF Get

LEMMA DrawSteps == ASSUME ServerInv, NEW c \in Conns, Draw(c) PROVE Steps(c)
<1>1. /\ conn[c].call \in Calls /\ conn[c].phase # "idle" /\ Params(c) \in AskedFor
      /\ UNCHANGED <<stored, reply>> /\ reply[c] = NoReply
  BY DEF ServerInv, KeysInv, Draw, Busy
<1>2. /\ ConnType' /\ conn'[c].phase = "send" /\ conn'[c].call = conn[c].call
      /\ \A d \in Conns \ {c} : conn'[d] = conn[d]
      /\ Params(c)' = Params(c)
  BY GoesMoves DEF ServerInv, KeysInv, Draw, Phases, Busy
<1>6. AskedFor \subseteq AskedFor'
  BY <1>2, AskedStays
<1>3. KeptFor(AskedFor', CacheKey(Params(c)), Drawn(Params(c)))
  BY <1>1, <1>6 DEF KeptFor
<1>4. /\ image'[c] = Drawn(Params(c)) /\ DOMAIN image' = Conns
      /\ \A d \in Conns \ {c} : image'[d] = image[d]
  BY DEF ServerInv, KeysInv, Draw
<1>5. \A p \in puts' : p \in puts \/ KeptFor(AskedFor', p.key, p.image)
  BY <1>3 DEF Draw
<1>7. Right(AskedFor, c, reply[c])'
  BY <1>1, NoReplyIsRight
<1> QED BY <1>1, <1>2, <1>3, <1>4, <1>5, <1>6, <1>7 DEF ServerInv, KeysInv, Steps

LEMMA DrawFailsSteps == ASSUME ServerInv, NEW c \in Conns, DrawFails(c) PROVE Steps(c)
<1>1. conn[c].call \in Calls /\ conn[c].phase # "idle" /\ UNCHANGED <<stored, image, puts>>
  BY DEF ServerInv, KeysInv, DrawFails
<1>2. PICK n : Replies(c, Status(n))
  BY DEF DrawFails
<1> QED BY <1>1, <1>2, StatusIsRight, RepliesSteps

LEMMA SendSteps == ASSUME ServerInv, NEW c \in Conns, Send(c) PROVE Steps(c)
<1> DEFINE r == [code |-> 200, image |-> AtScale(c, image[c])]
<1>1. /\ conn[c].phase = "send" /\ conn[c].call \in Calls
      /\ UNCHANGED <<stored, image, puts>>
  BY DEF ServerInv, KeysInv, Send, Busy
<1>2. PICK p \in AskedFor : CacheKey(p) = CacheKey(Params(c)) /\ image[c] = Drawn(p)
  BY <1>1 DEF ServerInv, KeysInv, KeptUnder, KeptFor
<1>3. Right(AskedFor, c, r)
  BY <1>2, OneKeyAlike DEF Right
<1> HIDE DEF r
<1>4. CASE Replies(c, r)
  BY <1>1, <1>3, <1>4, RepliesSteps
<1>5. CASE Replies(c, Status(500))
  BY <1>1, <1>5, StatusIsRight, RepliesSteps
<1> QED BY <1>4, <1>5 DEF Send, AtScale, r

LEMMA PutKeeps == ASSUME ServerInv, NEW p \in puts, PutEnds(p) PROVE ServerInv'
<1>1. UNCHANGED <<conn, image, reply>> /\ puts' \subseteq puts
  BY DEF PutEnds
<1>2. AskedFor' = AskedFor /\ \A c \in Conns : Params(c)' = Params(c)
  BY <1>1 DEF AskedFor, Serves, Params
<1>3. \A k \in DOMAIN stored' : KeptUnder(k, stored'[k])
  BY DEF ServerInv, KeysInv, PutEnds
<1>4. SentAlike'
  BY <1>1, <1>2 DEF ServerInv, SentAlike, SentMap, AtScale
<1>5. \A q \in puts' : KeptUnder(q.key, q.image)
  BY <1>1 DEF ServerInv, KeysInv
<1>6. /\ ConnType' /\ DOMAIN image' = Conns /\ DOMAIN reply' = Conns
      /\ \A c \in Conns : conn'[c].phase # "idle" => conn'[c].call \in Calls
      /\ \A c \in Conns : conn'[c].phase # "closed" => reply'[c] = NoReply
  BY <1>1 DEF ServerInv, KeysInv, ConnType
<1>7. /\ \A c \in Conns : conn'[c].phase \in Busy => Params(c)' \in AskedFor
      /\ \A c \in Conns : conn'[c].phase = "send" => KeptUnder(CacheKey(Params(c)'), image'[c])
  BY <1>1, <1>2 DEF ServerInv, KeysInv
<1>8. KeysInv'
  BY <1>2, <1>3, <1>5, <1>6, <1>7 DEF KeysInv, KeptUnder
<1> QED BY <1>4, <1>8 DEF ServerInv

LEMMA ServerStarts == PlanetInit(BOOLEAN) => ServerInv
<1> SUFFICES ASSUME PlanetInit(BOOLEAN) PROVE ServerInv
  OBVIOUS
<1>1. \A c \in Conns : conn[c].phase = "idle" /\ reply[c] = NoReply
  BY DEF PlanetInit, NoCall
<1>2. ConnType
  BY DEF PlanetInit, NoCall, ConnType, Phases
<1>3. DOMAIN stored = {} /\ puts = {} /\ DOMAIN image = Conns /\ DOMAIN reply = Conns
  BY DEF PlanetInit
<1>4. KeysInv
  BY <1>1, <1>2, <1>3 DEF KeysInv, Busy
<1>5. SentAlike
  <2>1. \A c \in Conns : reply[c].code = 0
    BY <1>1 DEF NoReply
  <2>2. \A c \in Conns : reply[c].code # 200
    BY <2>1
  <2> QED BY <2>2 DEF SentAlike, SentMap
<1> QED BY <1>4, <1>5 DEF ServerInv

LEMMA ServerKeeps == ASSUME ServerInv, [PlanetNext]_planetVars PROVE ServerInv'
<1>1. CASE UNCHANGED planetVars
  <2>1. UNCHANGED <<stored, conn, image, reply, puts>>
    BY <1>1 DEF planetVars
  <2>2. AskedFor' = AskedFor /\ \A c \in Conns : Params(c)' = Params(c)
    BY <2>1 DEF AskedFor, Serves, Params
  <2>3. KeysInv'
    BY <2>1, <2>2 DEF ServerInv, KeysInv, ConnType, KeptUnder
  <2>4. SentAlike'
    BY <2>1, <2>2 DEF ServerInv, SentAlike, SentMap, AtScale
  <2> QED BY <2>3, <2>4 DEF ServerInv
<1>2. ASSUME NEW c \in Conns, NEW call \in Calls, Accept(c, call) PROVE ServerInv'
  BY <1>2, AcceptSteps, StepsKeep
<1>3. ASSUME NEW c \in Conns, Handle(c) PROVE ServerInv'
  <2>1. Steps(c)
    BY <1>3, RouteSteps, GetSteps, DrawSteps, DrawFailsSteps, SendSteps DEF Handle
  <2> QED BY <2>1, StepsKeep
<1> QED BY <1>1, <1>2, <1>3, PutKeeps DEF PlanetNext
-----------------------------------------------------------------------------
Codes == {0, 200, 204, 400, 404, 405, 422, 500}

\* What ServerInv does not say of the variables.
PlanetTypes ==
  /\ enabled \in BOOLEAN
  /\ \A c \in Conns : reply[c].code \in Codes
  /\ \A p \in puts : p.by \in Conns

LEMMA PlanetTyped == ASSUME ServerInv, PlanetTypes PROVE PlanetTypeOK
<1>1. \A k, i : KeptUnder(k, i) => i.scale = Canonical
  BY DEF KeptUnder, KeptFor, Drawn
<1>2. \A c \in Conns : conn[c].call \in Calls \cup {NoParams} /\ conn[c].phase \in Phases
  BY DEF ServerInv, KeysInv, ConnType
<1>3. \A c \in Conns : conn[c].phase = "send" => image[c].scale = Canonical
  BY <1>1 DEF ServerInv, KeysInv
<1>4. \A p \in puts : p.image.scale = Canonical
  BY <1>1 DEF ServerInv, KeysInv
<1> QED BY <1>2, <1>3, <1>4 DEF PlanetTypes, PlanetTypeOK, Phases, Busy, Codes

LEMMA PlanetTypesStart == PlanetInit(BOOLEAN) => PlanetTypes
BY DEF PlanetInit, PlanetTypes, NoReply, Codes

\* A connection's own answer has one of the codes; the others' stand.
LEMMA AnswersTyped ==
  ASSUME ServerInv, PlanetTypes, NEW c \in Conns, NEW r, Replies(c, r), r.code \in Codes,
         UNCHANGED <<enabled, puts>>
  PROVE  PlanetTypes'
BY DEF ServerInv, KeysInv, PlanetTypes, Replies

LEMMA RouteTyped == ASSUME ServerInv, PlanetTypes, NEW c \in Conns, Route(c) PROVE PlanetTypes'
<1>1. UNCHANGED <<enabled, puts>>
  BY DEF Route
<1>2. CASE UNCHANGED reply
  BY <1>1, <1>2 DEF PlanetTypes
<1>3. ASSUME NEW n \in {200, 204, 400, 404, 405, 422, 500}, Replies(c, Status(n)) PROVE PlanetTypes'
  <2>1. Status(n).code \in Codes
    BY DEF Status, Codes
  <2> QED BY <1>1, <1>3, <2>1, AnswersTyped
<1>4. \/ UNCHANGED reply
      \/ \E n \in {200, 204, 400, 404, 405, 422, 500} : Replies(c, Status(n))
  BY DEF Route
<1> QED BY <1>2, <1>3, <1>4

LEMMA PlanetTypesKeep == ASSUME ServerInv, PlanetTypes, [PlanetNext]_planetVars PROVE PlanetTypes'
<1>1. CASE UNCHANGED planetVars
  BY <1>1 DEF planetVars, PlanetTypes
<1>2. ASSUME NEW c \in Conns, NEW call \in Calls, Accept(c, call) PROVE PlanetTypes'
  BY <1>2 DEF Accept, PlanetTypes
<1>3. ASSUME NEW c \in Conns, Get(c) PROVE PlanetTypes'
  BY <1>3 DEF Get, PlanetTypes
<1>4. ASSUME NEW c \in Conns, Draw(c) PROVE PlanetTypes'
  BY <1>4 DEF Draw, PlanetTypes
<1>5. ASSUME NEW c \in Conns, DrawFails(c) PROVE PlanetTypes'
  <2>1. PICK n \in {422, 500} : Replies(c, Status(n))
    BY <1>5 DEF DrawFails
  <2>2. Status(n).code \in Codes
    BY DEF Status, Codes
  <2> QED BY <1>5, <2>1, <2>2, AnswersTyped DEF DrawFails
<1>6. ASSUME NEW c \in Conns, Send(c) PROVE PlanetTypes'
  <2>1. PICK r : Replies(c, r) /\ r.code \in {200, 500}
    BY <1>6 DEF Send, Status
  <2> QED BY <1>6, <2>1, AnswersTyped DEF Send, Codes
<1>7. ASSUME NEW p \in puts, PutEnds(p) PROVE PlanetTypes'
  BY <1>7 DEF PutEnds, PlanetTypes
<1> QED BY <1>1, <1>2, <1>3, <1>4, <1>5, <1>6, <1>7, RouteTyped DEF PlanetNext, Handle

\* A reply has one of the codes the server sends, and what is kept or about to
\* be sent is at the canonical scale (http_server.rs:380-411).
THEOREM PlanetTypesCorrect == PlanetSpec => []PlanetTypeOK
<1>1. PlanetInit(BOOLEAN) => ServerInv /\ PlanetTypes
  BY ServerStarts, PlanetTypesStart
<1>2. ServerInv /\ PlanetTypes /\ [PlanetNext]_planetVars => (ServerInv /\ PlanetTypes)'
  BY ServerKeeps, PlanetTypesKeep
<1>3. ServerInv /\ PlanetTypes => PlanetTypeOK
  BY PlanetTyped
<1> QED BY <1>1, <1>2, <1>3, PTL DEF PlanetSpec

\* A map sent has the scale asked for and is drawn as some request spelled the
\* planet asked for, whoever drew it and however many did (http_server.rs:380-446).
THEOREM SentAlikeCorrect == PlanetSpec => []SentAlike
<1>1. ServerInv => SentAlike
  BY DEF ServerInv
<1> QED BY <1>1, ServerStarts, ServerKeeps, PTL DEF PlanetSpec

\* Nothing is taken out of the bucket, and an image is written over only by the
\* same one or by one that another spelling of its planet gave
\* (http_server.rs:393-411).
THEOREM KeptImagesStandCorrect == PlanetSpec => KeptImagesStand
<1> DEFINE Stands(k) ==
      /\ k \in DOMAIN stored'
      /\ \/ stored'[k] = stored[k]
         \/ \E p, q \in AskedFor : Alike(p, q) /\ stored[k] = Drawn(p) /\ stored'[k] = Drawn(q)
<1>1. ASSUME ServerInv, [PlanetNext]_planetVars PROVE [\A k \in DOMAIN stored : Stands(k)]_stored
  <2>1. CASE stored' # stored
    <3>1. PICK p \in puts : /\ stored' = [k \in DOMAIN stored \cup {p.key} |->
                                            IF k = p.key THEN p.image ELSE stored[k]]
      BY <1>1, <2>1 DEF PlanetNext, Handle, Accept, Route, Get, Draw, DrawFails, Send, PutEnds, planetVars
    <3>2. \A k \in DOMAIN stored : KeptUnder(k, stored[k]) /\ KeptUnder(p.key, p.image)
      BY <1>1 DEF ServerInv, KeysInv
    <3>3. ASSUME NEW k \in DOMAIN stored PROVE Stands(k)
      <4>1. (KeptUnder(k, stored[k]) /\ KeptUnder(k, stored'[k])) \/ stored'[k] = stored[k]
        BY <3>1, <3>2
      <4>2. k \in DOMAIN stored'
        BY <3>1
      <4>3. CASE KeptUnder(k, stored[k]) /\ KeptUnder(k, stored'[k])
        <5>1. PICK a \in AskedFor : CacheKey(a) = k /\ stored[k] = Drawn(a)
          BY <4>3 DEF KeptUnder, KeptFor
        <5>2. PICK b \in AskedFor : CacheKey(b) = k /\ stored'[k] = Drawn(b)
          BY <4>3 DEF KeptUnder, KeptFor
        <5> QED BY <4>2, <5>1, <5>2, OneKeyAlike
      <4> QED BY <4>1, <4>2, <4>3
    <3> QED BY <3>3
  <2> QED BY <2>1
<1> QED BY <1>1, ServerStarts, ServerKeeps, PTL DEF PlanetSpec, KeptImagesStand
-----------------------------------------------------------------------------
(* The worlds (WorldRolls).                                                *)

\* What a generator reads of the main world.
MainDigits ==
  /\ mainWorld.population \in Ehex /\ mainWorld.government \in Ehex
  /\ mainWorld.law \in Ehex /\ mainWorld.tech \in Ehex

LEMMA MainHasDigits == ASSUME mainWorld \in MainWorlds PROVE MainDigits
<1>1. \A d \in DigitNames : mainWorld[d] \in Ehex
  BY WorldAssumption
<1> QED BY <1>1 DEF MainDigits, DigitNames

\* What the generators promise of one body, for the row it was made from.
Fitting(w, p) ==
  /\ p.population = Wild /\ force_lifeless(w.atmosphere) => w.population = 0
  /\ p.tech = Wild => w.tech <= IF w.population = 0 THEN 0 ELSE mainWorld.tech

\* The digits of a body that facilities depend on or change.
Bodied(w, a, n) ==
  /\ {"atmosphere", "population", "tech", "facilities"} \subseteq DOMAIN w
  /\ w = [d \in DOMAIN w |-> w[d]] /\ w.atmosphere = a /\ w.population = n

LEMMA TechLevel ==
  ASSUME mainWorld.tech \in Nat, NEW n, NEW a
  PROVE  LET t == subordinate_tech_level(n, a)
         IN  t \in Nat /\ (n = 0 => t = 0) /\ t <= mainWorld.tech
<1>1. Max({mainWorld.tech - 1, 0}) \in Nat /\ Max({mainWorld.tech - 1, 0}) <= mainWorld.tech
  <2>1. \E x \in {mainWorld.tech - 1, 0} : \A y \in {mainWorld.tech - 1, 0} : x >= y
    OBVIOUS
  <2>2. Max({mainWorld.tech - 1, 0}) \in {mainWorld.tech - 1, 0}
        /\ \A y \in {mainWorld.tech - 1, 0} : Max({mainWorld.tech - 1, 0}) >= y
    BY <2>1 DEF Max
  <2> QED BY <2>2
<1> QED BY <1>1 DEF subordinate_tech_level

\* A facility changes neither people nor air, and a laboratory brings at most
\* the tools of the main world, and none where there is no one.
LEMMA FacilitiesKeep ==
  ASSUME mainWorld.tech \in Nat, NEW w, NEW a, NEW n, Bodied(w, a, n), NEW nth, NEW place,
         NEW v \in Facilities(w, nth, place)
  PROVE  /\ v.atmosphere = a /\ v.population = n
         /\ v.tech = w.tech \/ (mainWorld.tech > 8 /\ w.tech = mainWorld.tech - 1 /\ v.tech = mainWorld.tech)
<1>1. ASSUME NEW u, Bodied(u, a, n), NEW x, NEW c
      PROVE  Bodied(Has(u, x, c), a, n) /\ Has(u, x, c).tech = u.tech
  BY <1>1 DEF Has, Bodied
<1>2. ASSUME NEW u, Bodied(u, a, n)
      PROVE  /\ Bodied(Lab(u), a, n)
             /\ Lab(u).tech = IF u.tech = mainWorld.tech - 1 THEN mainWorld.tech ELSE u.tech
  BY <1>2 DEF Lab, Bodied
<1>3. PICK u, d, x, c : /\ Bodied(u, a, n) /\ u.tech = w.tech
                        /\ \/ mainWorld.tech > 8 /\ v = Has(Lab(u), x, c)
                           \/ v = Has(u, x, c)
  <2> DEFINE mined == Has(w, "Mining", "In" \in Classes(mainWorld, TRUE) /\ w.population >= 2)
             farmed == Has(mined, "Farming",
                    /\ nth = place.habitable /\ nth > place.inner
                    /\ w.atmosphere \in 4..9 /\ w.hydro \in 4..8 /\ w.population >= 2)
             done == Has(farmed, "Colony", w.government = 6 /\ w.population >= 5)
             lab(d) == /\ mainWorld.population > 0 /\ mainWorld.tech > 8
                       /\ d + (IF mainWorld.tech >= 10 THEN 2 ELSE 0) + Minus(2, w.population = 0) >= 12
             base(d) == /\ "Po" \notin Classes(mainWorld, TRUE) /\ w.population > 0
                        /\ d + (IF mainWorld.population >= 8 THEN 1 ELSE 0)
                             + (IF mainWorld.atmosphere = w.atmosphere THEN 2 ELSE 0) >= 12
  <2>0. PICK d, e \in TwoDice : v = Has(IF lab(d) THEN Lab(done) ELSE done, "Military", base(e))
    <3>1. Facilities(w, nth, place) =
            {Has(IF lab(d) THEN Lab(done) ELSE done, "Military", base(e)) : d, e \in TwoDice}
      BY DEF Facilities
    <3> HIDE DEF lab, base, done
    <3> QED BY <3>1
  <2>1. Bodied(mined, a, n) /\ mined.tech = w.tech
    BY <1>1
  <2> HIDE DEF mined
  <2>2. Bodied(farmed, a, n) /\ farmed.tech = w.tech
    BY <1>1, <2>1
  <2> HIDE DEF farmed
  <2>3. Bodied(done, a, n) /\ done.tech = w.tech
    BY <1>1, <2>2
  <2> HIDE DEF done
  <2>4. CASE lab(d)
    <3>1. mainWorld.tech > 8 /\ v = Has(Lab(done), "Military", base(e))
      BY <2>0, <2>4
    <3> HIDE DEF base
    <3> QED BY <2>3, <3>1
  <2>5. CASE ~lab(d)
    <3>1. v = Has(done, "Military", base(e))
      BY <2>0, <2>5
    <3> HIDE DEF base
    <3> QED BY <2>3, <3>1
  <2> QED BY <2>4, <2>5
<1>4. CASE mainWorld.tech > 8 /\ v = Has(Lab(u), x, c)
  <2>1. Bodied(Lab(u), a, n) /\ Lab(u).tech = IF u.tech = mainWorld.tech - 1 THEN mainWorld.tech ELSE u.tech
    BY <1>2, <1>3
  <2>2. Bodied(v, a, n) /\ v.tech = Lab(u).tech
    BY <1>1, <1>4, <2>1
  <2> QED BY <1>3, <1>4, <2>1, <2>2 DEF Bodied
<1>5. CASE v = Has(u, x, c)
  BY <1>1, <1>3, <1>5 DEF Bodied
<1> QED BY <1>3, <1>4, <1>5

Stat(w, p, g, l) ==
  [w EXCEPT !.government = g, !.law = l,
            !.tech = IF p.tech = Wild THEN subordinate_tech_level(w.population, w.atmosphere) ELSE p.tech]

LEMMA StatsAre ==
  ASSUME NEW w, NEW p
  PROVE  Stats(w, p) = {Stat(w, p, g, l) : g \in OrRolled(p.government, Government(w.population)),
                                           l \in OrRolled(p.law, Law(w.population))}
BY SMT DEF Stats, Stat

\* Where nobody lives there are no tools; elsewhere they are those the row
\* gives, or at most the main world's.
LEMMA FinishFits ==
  ASSUME mainWorld.tech \in Nat, NEW size, NEW a, NEW h, NEW n, NEW p, NEW nth, NEW place,
         NEW w \in Finish(NewWorld(size, a, h, n), p, nth, place),
         p.population = Wild /\ force_lifeless(a) => n = 0
  PROVE  Fitting(w, p)
<1>1. PICK s \in Stats(NewWorld(size, a, h, n), p) : w \in Facilities(s, nth, place)
  BY DEF Finish
<1>2. Bodied(s, a, n) /\ (p.tech = Wild => s.tech = subordinate_tech_level(n, a))
  <2> DEFINE N == NewWorld(size, a, h, n)
  <2>1. Bodied(N, a, n) /\ {"government", "law"} \subseteq DOMAIN N
    BY DEF NewWorld, Bodied
  <2>2. \E g, l : s = [N EXCEPT !.government = g, !.law = l,
                         !.tech = IF p.tech = Wild THEN subordinate_tech_level(N.population, N.atmosphere)
                                  ELSE p.tech]
    <3>1. s \in Stats(N, p)
      BY <1>1
    <3> HIDE DEF N
    <3>2. \E g, l : s = Stat(N, p, g, l)
      BY <3>1, StatsAre
    <3> QED BY <3>2 DEF Stat
  <2> HIDE DEF N
  <2> QED BY <2>1, <2>2 DEF Bodied
<1>3. /\ w.atmosphere = a /\ w.population = n
      /\ w.tech = s.tech \/ (mainWorld.tech > 8 /\ s.tech = mainWorld.tech - 1 /\ w.tech = mainWorld.tech)
  BY <1>1, <1>2, FacilitiesKeep
<1>4. ASSUME p.tech = Wild PROVE w.tech <= IF n = 0 THEN 0 ELSE mainWorld.tech
  <2>1. PICK t : t = subordinate_tech_level(n, a)
    OBVIOUS
  <2>2. t \in Nat /\ (n = 0 => t = 0) /\ t <= mainWorld.tech
    BY <2>1, TechLevel
  <2>3. s.tech = t
    BY <1>2, <1>4, <2>1
  <2> QED BY <1>3, <2>2, <2>3
<1> QED BY <1>3, <1>4 DEF Fitting

\* What a row leaves to the dice comes from them.
LEMMA RolledPeople ==
  ASSUME NEW p, NEW a, NEW others, NEW n \in OrRolled(p.population, IF force_lifeless(a) THEN {0} ELSE others)
  PROVE  p.population = Wild /\ force_lifeless(a) => n = 0
BY DEF OrRolled

LEMMA PlanetsFit ==
  ASSUME mainWorld.tech \in Nat, NEW p, NEW place, NEW w \in Planets(p, place)
  PROVE  Fitting(w, p)
<1> DEFINE people(a) ==
        IF force_lifeless(a) THEN {0}
        ELSE {Clamp(d - 2 + Minus(5, place.orbit <= place.inner) + Minus(5, place.orbit > place.habitable)
                      + Minus(2, a \notin {5, 6, 8}), 0,
                    Max({mainWorld.population - 1, 0})) : d \in TwoDice}
<1> DEFINE o == place.orbit
           Far_(n) == Minus(n, o > place.habitable)
           Near_(n) == Minus(n, o <= place.inner)
           sizes_ == {Min({d - 2 + Minus(5, o = 0) + Minus(4, o = 1) + Minus(2, o = 2) + Minus(2, ~place.cool), 0}) :
                        d \in TwoDice}
           airs(s) == {Clamp(d - 7 + s + Near_(2) + Far_(2), 0, 10) : d \in TwoDice}
                      \cup (IF o > place.habitable + 1 THEN {10} ELSE {})
           hydros(s, a) == IF s <= 0 \/ o <= place.inner THEN {0}
                           ELSE {Clamp(d - 7 + s + Far_(4) + Minus(4, a <= 1 \/ a >= 10), 0, 10) : d \in TwoDice}
<1>1. \E s, a, h : \E n \in OrRolled(p.population, people(a)) :
         w \in Finish(NewWorld(s, a, h, n), p, place.orbit, place)
  <2>1. Planets(p, place) =
          UNION {UNION {UNION {UNION {Finish(NewWorld(s, a, h, n), p, o, place) :
            n \in OrRolled(p.population, people(a))} :
            h \in OrRolled(p.hydro, hydros(s, a))} :
            a \in OrRolled(p.atmosphere, airs(s))} :
            s \in OrRolled(p.size, sizes_)}
    BY DEF Planets
  <2> HIDE DEF people, hydros, airs, sizes_
  <2> QED BY <2>1
<1> HIDE DEF people
<1>2. PICK s, a, h, n : /\ n \in OrRolled(p.population, people(a))
                        /\ w \in Finish(NewWorld(s, a, h, n), p, place.orbit, place)
  BY <1>1
<1>3. p.population = Wild /\ force_lifeless(a) => n = 0
  BY <1>2, RolledPeople DEF people
<1> QED BY <1>2, <1>3, FinishFits

LEMMA MoonsFit ==
  ASSUME mainWorld.tech \in Nat, NEW p, NEW size, NEW o, NEW place, NEW nth,
         NEW w \in Moons(p, size, o, place, nth)
  PROVE  Fitting(w, p)
<1> DEFINE people(a) ==
        IF force_lifeless(a) THEN {0}
        ELSE {Clamp(d - 2 + (IF o <= place.inner THEN -5 ELSE Minus(4, o > place.habitable))
                      + Minus(2, a \notin {5, 6, 8}), 0, 10) : d \in TwoDice}
<1> DEFINE far == o > place.habitable
           airs == {IF d = 12 /\ far THEN 10
                    ELSE IF size <= 1 THEN 0
                    ELSE Clamp(d - 7 + size + Minus(4, far \/ o <= place.inner), 0, 10) : d \in TwoDice}
           hydros(a) == IF size <= 0 \/ o <= place.inner THEN {0}
                        ELSE {Clamp(d - 7 + size + Minus(4, far) + Minus(4, a <= 1 \/ a >= 10), 0, 10) : d \in TwoDice}
<1>1. \E a, h : \E n \in OrRolled(p.population, people(a)) :
         w \in Finish(NewWorld(size, a, h, n), p, nth, place)
  <2>1. Moons(p, size, o, place, nth) =
          UNION {UNION {UNION {Finish(NewWorld(size, a, h, n), p, nth, place) :
            n \in OrRolled(p.population, people(a))} :
            h \in OrRolled(p.hydro, hydros(a))} :
            a \in OrRolled(p.atmosphere, airs)}
    BY DEF Moons
  <2> HIDE DEF people, hydros, airs
  <2> QED BY <2>1
<1> HIDE DEF people
<1>2. PICK a, h, n : /\ n \in OrRolled(p.population, people(a))
                     /\ w \in Finish(NewWorld(size, a, h, n), p, nth, place)
  BY <1>1
<1>3. p.population = Wild /\ force_lifeless(a) => n = 0
  BY <1>2, RolledPeople DEF people
<1> QED BY <1>2, <1>3, FinishFits

\* Nobody lives on a ring but whom a row puts there.
LEMMA RingFits == ASSUME mainWorld.tech \in Nat, NEW p PROVE Fitting(Ring(p), p)
BY DEF Ring, NewWorld, Fitting

LEMMA BeltsFit ==
  ASSUME mainWorld.tech \in Nat, NEW place, NEW n \in BeltPeople(place),
         NEW w \in Finish(NewWorld(0, 0, 0, n), NoRow, place.orbit, place)
  PROVE  Fitting(w, NoRow)
<1>1. force_lifeless(0) => n = 0
  BY DEF BeltPeople
<1> QED BY <1>1, FinishFits

LEMMA MoonFits ==
  ASSUME mainWorld.tech \in Nat, NEW what, NEW p, NEW sizes_, NEW ofGiant, Moon(what, p, sizes_, ofGiant)
  PROVE  \E w : Fitting(w, p) /\ Becomes(what, p, w)
<1>1. PICK place, size, o, nth, w :
        (w = Ring(p) \/ w \in Moons(p, size, o, place, nth)) /\ Becomes(what, p, w)
  <2>1. PICK place \in Places, size \in sizes_ :
          \E o \in MoonOrbits(size, ofGiant) :
            \E w \in IF size = 0 THEN {Ring(p)}
                     ELSE Moons(p, size, o, place, IF ofGiant /\ p = NoRow THEN place.orbit ELSE o) :
              Becomes(what, p, w)
    BY DEF Moon
  <2>2. PICK o \in MoonOrbits(size, ofGiant) :
          \E w \in IF size = 0 THEN {Ring(p)}
                   ELSE Moons(p, size, o, place, IF ofGiant /\ p = NoRow THEN place.orbit ELSE o) :
            Becomes(what, p, w)
    BY <2>1
  <2> QED BY <2>2
<1> QED BY <1>1, RingFits, MoonsFit

LEMMA WorldFits ==
  ASSUME mainWorld.tech \in Nat, Generators
  PROVE  \E what, p, w : Fitting(w, p) /\ Becomes(what, p, w)
<1>1. CASE GeneratePlanet
  BY <1>1, PlanetsFit DEF GeneratePlanet
<1>2. CASE GenerateRow
  BY <1>2, PlanetsFit DEF GenerateRow
<1>3. CASE GenerateBeltRow
  BY <1>3, PlanetsFit DEF GenerateBeltRow
<1>4. CASE GenPlanetoid
  BY <1>4, BeltsFit DEF GenPlanetoid
<1>5. CASE GenSatellite
  BY <1>5, MoonFits DEF GenSatellite
<1>6. CASE GenGiantSatellite
  BY <1>6, MoonFits DEF GenGiantSatellite
<1>7. CASE GenerateMoonRow
  BY <1>7, MoonFits DEF GenerateMoonRow
<1> QED BY <1>1, <1>2, <1>3, <1>4, <1>5, <1>6, <1>7 DEF Generators

BodyInv == mainWorld \in MainWorlds /\ SubordinateToMain

LEMMA BodyStarts == WorldInit => BodyInv
<1> SUFFICES ASSUME WorldInit PROVE BodyInv
  OBVIOUS
<1>1. mainWorld.tech \in Nat
  BY MainHasDigits DEF WorldInit, MainDigits, Ehex
<1>2. made.population = 0 /\ made.tech = 0
  BY DEF WorldInit, NoBody, NewWorld
<1> QED BY <1>1, <1>2 DEF WorldInit, BodyInv, SubordinateToMain

LEMMA BodyKeeps == ASSUME BodyInv, [WorldNext]_worldVars PROVE BodyInv'
<1>1. CASE UNCHANGED worldVars
  BY <1>1 DEF worldVars, BodyInv, SubordinateToMain, has_real_atmosphere
<1>2. CASE WorldNext
  <2>1. mainWorld.tech \in Nat
    BY MainHasDigits DEF BodyInv, MainDigits, Ehex
  <2>2. PICK what, p, w : Fitting(w, p) /\ Becomes(what, p, w)
    BY <1>2, <2>1, WorldFits DEF WorldNext
  <2>3. mainWorld' = mainWorld /\ given' = p /\ made' = w
    BY <2>2 DEF Becomes
  <2> QED BY <2>2, <2>3 DEF BodyInv, SubordinateToMain, Fitting, force_lifeless, has_real_atmosphere
<1> QED BY <1>1, <1>2
-----------------------------------------------------------------------------
\* Every body has the digits of a UWP, whichever generator made it.
Built == {"Mining", "Farming", "Colony", "Lab", "Military"}
SizeRange == -7..33
Laws == 0..36
WorldSet ==
  [size : SizeRange, atmosphere : Ehex, hydro : Ehex, population : Ehex, government : Ehex, law : Laws,
   tech : Ehex, facilities : SUBSET Built]
PartialRows == [DigitNames -> Ehex \cup {Wild}]

LEMMA MinOfInts == ASSUME NEW a \in Int, NEW b \in Int PROVE Min({a, b}) = IF a <= b THEN a ELSE b
<1> DEFINE m == IF a <= b THEN a ELSE b
<1>1. \A x : x \in {a, b} /\ (\A y \in {a, b} : x <= y) <=> x = m
  OBVIOUS
<1>2. (CHOOSE x \in {a, b} : \A y \in {a, b} : x <= y) = m
  <2> HIDE DEF m
  <2> QED BY <1>1
<1> QED BY <1>2 DEF Min

LEMMA ClampIn ==
  ASSUME NEW n \in Int, NEW low \in Int, NEW high \in Int, low <= high
  PROVE  Clamp(n, low, high) \in low .. high
<1>1. PICK m : m = Min({n, high})
  OBVIOUS
<1>2. m \in Int /\ m <= high
  BY <1>1, MinOfInts
<1>3. Max({low, m}) = IF low >= m THEN low ELSE m
  BY <1>2, MaxOfTwo
<1> QED BY <1>1, <1>2, <1>3 DEF Clamp

LEMMA MinusIn == ASSUME NEW n \in Int, NEW c PROVE Minus(n, c) \in {-n, 0}
BY DEF Minus

LEMMA OrRolledIn ==
  ASSUME NEW digit, NEW S, NEW T, digit = Wild \/ digit \in S, T \subseteq S
  PROVE  OrRolled(digit, T) \subseteq S
BY DEF OrRolled

LEMMA RowDigits ==
  ASSUME NEW p \in PartialRows
  PROVE  /\ p.size = Wild \/ p.size \in Ehex
         /\ p.atmosphere = Wild \/ p.atmosphere \in Ehex
         /\ p.hydro = Wild \/ p.hydro \in Ehex
         /\ p.population = Wild \/ p.population \in Ehex
         /\ p.government = Wild \/ p.government \in Ehex
         /\ p.law = Wild \/ p.law \in Ehex
         /\ p.tech = Wild \/ p.tech \in Ehex
<1>1. \A d \in DigitNames : p[d] = Wild \/ p[d] \in Ehex
  BY DEF PartialRows
<1> QED BY <1>1 DEF DigitNames

LEMMA RowsArePartial ==
  /\ WorldRows \subseteq PartialRows /\ NoRow \in PartialRows
  /\ \A p \in PartialRows : BeltRow(p) \in PartialRows
<1>1. NoRow \in PartialRows
  BY DEF NoRow, PartialRows
<1>2. ASSUME NEW p \in PartialRows PROVE BeltRow(p) \in PartialRows
  <2>1. PICK a, h : /\ a = IF p.atmosphere = Wild THEN 0 ELSE p.atmosphere
                    /\ h = IF p.hydro = Wild THEN 0 ELSE p.hydro
    OBVIOUS
  <2>2. 0 \in Ehex /\ a \in Ehex /\ h \in Ehex
    BY <2>1, RowDigits DEF Ehex
  <2>3. BeltRow(p) = [p EXCEPT !.size = 0, !.atmosphere = a, !.hydro = h]
    BY <2>1 DEF BeltRow, PartialRows
  <2> QED BY <2>2, <2>3 DEF PartialRows
<1> QED BY <1>1, <1>2, WorldAssumption DEF PartialRows
-----------------------------------------------------------------------------
LEMMA HasIn == ASSUME NEW w \in WorldSet, NEW x \in Built, NEW c PROVE Has(w, x, c) \in WorldSet
<1>1. PICK f : f = IF c THEN w.facilities \cup {x} ELSE w.facilities
  OBVIOUS
<1>2. f \in SUBSET Built
  BY <1>1 DEF WorldSet
<1>3. Has(w, x, c) = [w EXCEPT !.facilities = f]
  BY <1>1 DEF Has, WorldSet
<1> QED BY <1>2, <1>3 DEF WorldSet

LEMMA LabIn == ASSUME MainDigits, NEW w \in WorldSet PROVE Lab(w) \in WorldSet
<1>1. PICK f, t : /\ f = w.facilities \cup {"Lab"}
                  /\ t = IF w.tech = mainWorld.tech - 1 THEN mainWorld.tech ELSE w.tech
  OBVIOUS
<1>2. f \in SUBSET Built /\ t \in Ehex
  BY <1>1 DEF WorldSet, Built, MainDigits
<1>3. Lab(w) = [w EXCEPT !.facilities = f, !.tech = t]
  BY <1>1 DEF Lab, WorldSet
<1> QED BY <1>2, <1>3 DEF WorldSet

LEMMA FacilitiesIn ==
  ASSUME MainDigits, NEW w \in WorldSet, NEW nth, NEW place, NEW v \in Facilities(w, nth, place)
  PROVE  v \in WorldSet
<1> DEFINE mined == Has(w, "Mining", "In" \in Classes(mainWorld, TRUE) /\ w.population >= 2)
           farmed == Has(mined, "Farming",
                    /\ nth = place.habitable /\ nth > place.inner
                    /\ w.atmosphere \in 4..9 /\ w.hydro \in 4..8 /\ w.population >= 2)
           done == Has(farmed, "Colony", w.government = 6 /\ w.population >= 5)
           lab(d) == /\ mainWorld.population > 0 /\ mainWorld.tech > 8
                     /\ d + (IF mainWorld.tech >= 10 THEN 2 ELSE 0) + Minus(2, w.population = 0) >= 12
           base(d) == /\ "Po" \notin Classes(mainWorld, TRUE) /\ w.population > 0
                      /\ d + (IF mainWorld.population >= 8 THEN 1 ELSE 0)
                           + (IF mainWorld.atmosphere = w.atmosphere THEN 2 ELSE 0) >= 12
<1>0. PICK d, e \in TwoDice : v = Has(IF lab(d) THEN Lab(done) ELSE done, "Military", base(e))
  <2>1. Facilities(w, nth, place) =
          {Has(IF lab(d) THEN Lab(done) ELSE done, "Military", base(e)) : d, e \in TwoDice}
    BY DEF Facilities
  <2> HIDE DEF lab, base, done
  <2> QED BY <2>1
<1>1. {"Mining", "Farming", "Colony", "Military"} \subseteq Built
  BY DEF Built
<1>2. mined \in WorldSet
  BY <1>1, HasIn
<1> HIDE DEF mined
<1>3. farmed \in WorldSet
  BY <1>1, <1>2, HasIn
<1> HIDE DEF farmed
<1>4. done \in WorldSet
  BY <1>1, <1>3, HasIn
<1> HIDE DEF done, lab, base
<1>5. Lab(done) \in WorldSet
  BY <1>4, LabIn
<1>6. PICK u : u = IF lab(d) THEN Lab(done) ELSE done
  OBVIOUS
<1>7. u \in WorldSet /\ v = Has(u, "Military", base(e))
  BY <1>0, <1>4, <1>5, <1>6
<1> QED BY <1>1, <1>7, HasIn

LEMMA TechIn == ASSUME MainDigits, NEW n, NEW a PROVE subordinate_tech_level(n, a) \in Ehex
<1>1. Max({mainWorld.tech - 1, 0}) \in Ehex
  BY MaxOfTwo DEF MainDigits, Ehex
<1> QED BY <1>1 DEF subordinate_tech_level, Ehex

LEMMA GovernmentIn == ASSUME MainDigits, NEW n \in Ehex PROVE Government(n) \subseteq Ehex
<1>1. PICK m : m = IF mainWorld.government = 6 THEN n ELSE IF mainWorld.government >= 7 THEN 1 ELSE 0
  OBVIOUS
<1>2. m \in Nat
  BY <1>1 DEF Ehex
<1>3. Government(n) = IF n <= 0 THEN {0} ELSE {IF d + m <= 4 THEN d + m - 1 ELSE 6 : d \in OneDie}
  BY <1>1 DEF Government
<1>4. ASSUME NEW d \in OneDie PROVE (IF d + m <= 4 THEN d + m - 1 ELSE 6) \in Ehex
  <2>1. d \in 1..6
    BY WorldAssumption
  <2> QED BY <1>2, <2>1 DEF Ehex
<1>5. {0} \subseteq Ehex
  BY DEF Ehex
<1> QED BY <1>3, <1>4, <1>5

LEMMA LawIn == ASSUME MainDigits, NEW n PROVE Law(n) \subseteq Laws
<1>1. ASSUME NEW d \in OneDie PROVE Max({d - 3 + mainWorld.law, 0}) \in Laws
  <2>1. d \in 1..6
    BY WorldAssumption
  <2>2. PICK k : k = d - 3 + mainWorld.law
    OBVIOUS
  <2>3. k \in Int /\ k <= 36
    BY <2>1, <2>2 DEF MainDigits, Ehex
  <2> QED BY <2>2, <2>3, MaxOfTwo DEF Laws
<1>2. {0} \subseteq Laws
  BY DEF Laws
<1> QED BY <1>1, <1>2 DEF Law

LEMMA StatsIn ==
  ASSUME MainDigits, NEW w \in WorldSet, NEW p \in PartialRows, NEW s \in Stats(w, p)
  PROVE  s \in WorldSet
<1>1. PICK g \in OrRolled(p.government, Government(w.population)),
           l \in OrRolled(p.law, Law(w.population)) : s = Stat(w, p, g, l)
  BY StatsAre
<1>2. g \in Ehex
  <2>1. w.population \in Ehex
    BY DEF WorldSet
  <2> QED BY <1>1, <2>1, GovernmentIn, RowDigits, OrRolledIn
<1>3. l \in Laws
  <2>1. p.law = Wild \/ p.law \in Laws
    BY RowDigits DEF Ehex, Laws
  <2> QED BY <1>1, <2>1, LawIn, OrRolledIn
<1>4. PICK t : t = IF p.tech = Wild THEN subordinate_tech_level(w.population, w.atmosphere) ELSE p.tech
  OBVIOUS
<1>5. t \in Ehex
  BY <1>4, TechIn, RowDigits
<1>6. s = [w EXCEPT !.government = g, !.law = l, !.tech = t]
  BY <1>1, <1>4 DEF Stat
<1> QED BY <1>2, <1>3, <1>5, <1>6 DEF WorldSet

LEMMA NewIn ==
  ASSUME NEW s \in SizeRange, NEW a \in Ehex, NEW h \in Ehex, NEW n \in Ehex
  PROVE  NewWorld(s, a, h, n) \in WorldSet
<1>1. 0 \in Ehex /\ 0 \in Laws /\ {} \in SUBSET Built
  BY DEF Ehex, Laws
<1> QED BY <1>1 DEF NewWorld, WorldSet

LEMMA FinishIn ==
  ASSUME MainDigits, NEW s \in SizeRange, NEW a \in Ehex, NEW h \in Ehex, NEW n \in Ehex,
         NEW p \in PartialRows, NEW nth, NEW place, NEW w \in Finish(NewWorld(s, a, h, n), p, nth, place)
  PROVE  w \in WorldSet
<1>1. PICK x \in Stats(NewWorld(s, a, h, n), p) : w \in Facilities(x, nth, place)
  BY DEF Finish
<1>2. x \in WorldSet
  <2>1. NewWorld(s, a, h, n) \in WorldSet
    BY NewIn
  <2> QED BY <1>1, <2>1, StatsIn
<1> QED BY <1>1, <1>2, FacilitiesIn
-----------------------------------------------------------------------------
\* What the dice give between two bounds is a digit.
LEMMA ClampedDigits ==
  ASSUME NEW high \in Ehex, NEW S, NEW f, \A d \in S : f[d] \in Int
  PROVE  {Clamp(f[d], 0, high) : d \in S} \subseteq Ehex
<1>1. ASSUME NEW d \in S PROVE Clamp(f[d], 0, high) \in Ehex
  <2>1. PICK n, low : n = f[d] /\ low = 0
    OBVIOUS
  <2>2. n \in Int /\ low \in Int /\ high \in Int /\ low <= high
    BY <2>1 DEF Ehex
  <2>3. Clamp(n, low, high) \in low .. high
    BY <2>2, ClampIn
  <2> QED BY <2>1, <2>2, <2>3 DEF Ehex
<1> QED BY <1>1

LEMMA DigitBounds == 0 \in Ehex /\ 10 \in Ehex
BY DEF Ehex

LEMMA FewerPeople == ASSUME MainDigits PROVE Max({mainWorld.population - 1, 0}) \in Ehex
BY MaxOfTwo DEF MainDigits, Ehex

LEMMA SizesIn ==
  ASSUME NEW place
  PROVE  {Min({d - 2 + Minus(5, place.orbit = 0) + Minus(4, place.orbit = 1) + Minus(2, place.orbit = 2) + Minus(2, ~place.cool), 0}) :
             d \in TwoDice}
           \subseteq SizeRange
<1>1. ASSUME NEW d \in TwoDice
      PROVE  Min({d - 2 + Minus(5, place.orbit = 0) + Minus(4, place.orbit = 1) + Minus(2, place.orbit = 2) + Minus(2, ~place.cool), 0}) \in SizeRange
  <2>1. PICK x : x = Minus(5, place.orbit = 0) + Minus(4, place.orbit = 1) + Minus(2, place.orbit = 2)
    OBVIOUS
  <2>2. x \in -5..0
    BY <2>1 DEF Minus
  <2>3. PICK y : y = Minus(2, ~place.cool)
    OBVIOUS
  <2>4. y \in {-2, 0} /\ d \in 2..12
    BY <2>3, WorldAssumption DEF Minus
  <2>5. PICK k : k = d - 2 + Minus(5, place.orbit = 0) + Minus(4, place.orbit = 1) + Minus(2, place.orbit = 2) + Minus(2, ~place.cool)
    OBVIOUS
  <2>6. k = d - 2 + x + y
    <3>1. PICK e, f, g : e = Minus(5, place.orbit = 0) /\ f = Minus(4, place.orbit = 1) /\ g = Minus(2, place.orbit = 2)
      OBVIOUS
    <3>2. e \in Int /\ f \in Int /\ g \in Int
      BY <3>1, MinusIn
    <3> QED BY <2>1, <2>3, <2>4, <2>5, <3>1, <3>2
  <2>7. k \in Int /\ k >= -7
    BY <2>2, <2>4, <2>6
  <2>8. Min({k, 0}) \in SizeRange
    BY <2>7, MinOfInts DEF SizeRange
  <2> QED BY <2>5, <2>8
<1> QED BY <1>1

LEMMA PlanetsIn ==
  ASSUME MainDigits, NEW p \in PartialRows, NEW place, NEW w \in Planets(p, place)
  PROVE  w \in WorldSet
<1> DEFINE o == place.orbit
           Far_(n) == Minus(n, o > place.habitable)
           Near_(n) == Minus(n, o <= place.inner)
           sizes_ == {Min({d - 2 + Minus(5, o = 0) + Minus(4, o = 1) + Minus(2, o = 2) + Minus(2, ~place.cool), 0}) :
                        d \in TwoDice}
           airs(s) == {Clamp(d - 7 + s + Near_(2) + Far_(2), 0, 10) : d \in TwoDice}
                      \cup (IF o > place.habitable + 1 THEN {10} ELSE {})
           hydros(s, a) == IF s <= 0 \/ o <= place.inner THEN {0}
                           ELSE {Clamp(d - 7 + s + Far_(4) + Minus(4, a <= 1 \/ a >= 10), 0, 10) : d \in TwoDice}
           people(a) ==
             IF force_lifeless(a) THEN {0}
             ELSE {Clamp(d - 2 + Near_(5) + Far_(5) + Minus(2, a \notin {5, 6, 8}), 0,
                         Max({mainWorld.population - 1, 0})) : d \in TwoDice}
<1>0. \A n \in Int : Far_(n) \in Int /\ Near_(n) \in Int
  BY DEF Minus
<1>1. \A d \in TwoDice : d \in Int
  BY WorldAssumption
<1>2. sizes_ \subseteq SizeRange
  BY SizesIn
<1>3. ASSUME NEW s \in Int PROVE airs(s) \subseteq Ehex
  <2> DEFINE f == [d \in TwoDice |-> d - 7 + s + Near_(2) + Far_(2)]
  <2>1. \A d \in TwoDice : f[d] \in Int
    BY <1>0, <1>1
  <2>2. {Clamp(f[d], 0, 10) : d \in TwoDice} \subseteq Ehex
    <3> HIDE DEF f
    <3> QED BY <2>1, ClampedDigits, DigitBounds
  <2>3. {Clamp(d - 7 + s + Near_(2) + Far_(2), 0, 10) : d \in TwoDice} = {Clamp(f[d], 0, 10) : d \in TwoDice}
    OBVIOUS
  <2> QED BY <2>2, <2>3, DigitBounds
<1>4. ASSUME NEW s \in Int, NEW a PROVE hydros(s, a) \subseteq Ehex
  <2> DEFINE f == [d \in TwoDice |-> d - 7 + s + Far_(4) + Minus(4, a <= 1 \/ a >= 10)]
  <2>1. \A d \in TwoDice : f[d] \in Int
    <3>1. Minus(4, a <= 1 \/ a >= 10) \in Int
      BY MinusIn
    <3> QED BY <1>0, <1>1, <3>1
  <2>2. {Clamp(f[d], 0, 10) : d \in TwoDice} \subseteq Ehex
    <3> HIDE DEF f
    <3> QED BY <2>1, ClampedDigits, DigitBounds
  <2>3. {Clamp(d - 7 + s + Far_(4) + Minus(4, a <= 1 \/ a >= 10), 0, 10) : d \in TwoDice}
          = {Clamp(f[d], 0, 10) : d \in TwoDice}
    OBVIOUS
  <2> QED BY <2>2, <2>3, DigitBounds
<1>5. ASSUME NEW a PROVE people(a) \subseteq Ehex
  <2> DEFINE f == [d \in TwoDice |-> d - 2 + Near_(5) + Far_(5) + Minus(2, a \notin {5, 6, 8})]
  <2>1. \A d \in TwoDice : f[d] \in Int
    <3>1. Minus(2, a \notin {5, 6, 8}) \in Int
      BY MinusIn
    <3> QED BY <1>0, <1>1, <3>1
  <2>2. PICK high : high = Max({mainWorld.population - 1, 0})
    OBVIOUS
  <2>3. {Clamp(f[d], 0, high) : d \in TwoDice} \subseteq Ehex
    <3>1. high \in Ehex
      BY <2>2, FewerPeople
    <3> HIDE DEF f
    <3> QED BY <2>1, <3>1, ClampedDigits
  <2>4. people(a) = IF force_lifeless(a) THEN {0} ELSE {Clamp(f[d], 0, high) : d \in TwoDice}
    BY <2>2
  <2> QED BY <2>3, <2>4, DigitBounds
<1> HIDE DEF sizes_, airs, hydros, people
<1>6. PICK s \in OrRolled(p.size, sizes_) : \E a \in OrRolled(p.atmosphere, airs(s)) :
        \E h \in OrRolled(p.hydro, hydros(s, a)) : \E n \in OrRolled(p.population, people(a)) :
           w \in Finish(NewWorld(s, a, h, n), p, o, place)
  <2>1. Planets(p, place) =
          UNION {UNION {UNION {UNION {Finish(NewWorld(s, a, h, n), p, o, place) :
            n \in OrRolled(p.population, people(a))} :
            h \in OrRolled(p.hydro, hydros(s, a))} :
            a \in OrRolled(p.atmosphere, airs(s))} :
            s \in OrRolled(p.size, sizes_)}
    BY DEF Planets, people, hydros, airs, sizes_
  <2> QED BY <2>1
<1>7. s \in SizeRange
  <2>1. p.size = Wild \/ p.size \in SizeRange
    BY RowDigits DEF Ehex, SizeRange
  <2> QED BY <1>2, <1>6, <2>1, OrRolledIn
<1>8. PICK a \in OrRolled(p.atmosphere, airs(s)) :
        \E h \in OrRolled(p.hydro, hydros(s, a)) : \E n \in OrRolled(p.population, people(a)) :
           w \in Finish(NewWorld(s, a, h, n), p, o, place)
  BY <1>6
<1>9. PICK h \in OrRolled(p.hydro, hydros(s, a)), n \in OrRolled(p.population, people(a)) :
        w \in Finish(NewWorld(s, a, h, n), p, o, place)
  BY <1>8
<1>10. a \in Ehex
  <2>1. airs(s) \subseteq Ehex
    BY <1>3, <1>7 DEF SizeRange
  <2> QED BY <1>8, <2>1, RowDigits, OrRolledIn
<1>11. h \in Ehex
  <2>1. s \in Int
    BY <1>7 DEF SizeRange
  <2>2. hydros(s, a) \subseteq Ehex
    BY <1>4, <2>1
  <2> QED BY <1>9, <2>2, RowDigits, OrRolledIn
<1>12. n \in Ehex
  <2>1. people(a) \subseteq Ehex
    BY <1>5
  <2> QED BY <1>9, <2>1, RowDigits, OrRolledIn
<1> QED BY <1>7, <1>9, <1>10, <1>11, <1>12, FinishIn

LEMMA MoonsIn ==
  ASSUME MainDigits, NEW p \in PartialRows, NEW size \in SizeRange, NEW o, NEW place, NEW nth,
         NEW w \in Moons(p, size, o, place, nth)
  PROVE  w \in WorldSet
<1> DEFINE far == o > place.habitable
           air(d) == d - 7 + size + Minus(4, far \/ o <= place.inner)
           airs == {IF d = 12 /\ far THEN 10 ELSE IF size <= 1 THEN 0 ELSE Clamp(air(d), 0, 10) : d \in TwoDice}
           hydros(a) == IF size <= 0 \/ o <= place.inner THEN {0}
                        ELSE {Clamp(d - 7 + size + Minus(4, far) + Minus(4, a <= 1 \/ a >= 10), 0, 10) : d \in TwoDice}
           people(a) ==
             IF force_lifeless(a) THEN {0}
             ELSE {Clamp(d - 2 + (IF o <= place.inner THEN -5 ELSE Minus(4, far))
                           + Minus(2, a \notin {5, 6, 8}), 0, 10) : d \in TwoDice}
<1>1. size \in Int /\ \A d \in TwoDice : d \in Int
  BY WorldAssumption DEF SizeRange
<1>2. airs \subseteq Ehex
  <2>1. ASSUME NEW d \in TwoDice PROVE Clamp(air(d), 0, 10) \in Ehex
    <3>1. air(d) \in Int
      <4>1. Minus(4, far \/ o <= place.inner) \in Int
        BY MinusIn
      <4> QED BY <1>1, <4>1
    <3>2. PICK n, low, high : n = air(d) /\ low = 0 /\ high = 10
      OBVIOUS
    <3>3. n \in Int /\ low \in Int /\ high \in Int /\ low <= high
      BY <3>1, <3>2
    <3>4. Clamp(n, low, high) \in low .. high
      BY <3>3, ClampIn
    <3>5. Clamp(air(d), 0, 10) = Clamp(n, low, high)
      BY <3>2
    <3> QED BY <3>2, <3>4, <3>5 DEF Ehex
  <2> HIDE DEF air
  <2> QED BY <2>1, DigitBounds
<1>3. ASSUME NEW a PROVE hydros(a) \subseteq Ehex
  <2> DEFINE f == [d \in TwoDice |-> d - 7 + size + Minus(4, far) + Minus(4, a <= 1 \/ a >= 10)]
  <2>1. \A d \in TwoDice : f[d] \in Int
    <3>1. Minus(4, a <= 1 \/ a >= 10) \in Int /\ Minus(4, far) \in Int
      BY MinusIn
    <3> QED BY <1>1, <3>1
  <2>2. {Clamp(f[d], 0, 10) : d \in TwoDice} \subseteq Ehex
    <3> HIDE DEF f
    <3> QED BY <2>1, ClampedDigits, DigitBounds
  <2>3. hydros(a) = IF size <= 0 \/ o <= place.inner THEN {0} ELSE {Clamp(f[d], 0, 10) : d \in TwoDice}
    OBVIOUS
  <2> QED BY <2>2, <2>3, DigitBounds
<1>4. ASSUME NEW a PROVE people(a) \subseteq Ehex
  <2> DEFINE f == [d \in TwoDice |-> d - 2 + (IF o <= place.inner THEN -5 ELSE Minus(4, far))
                                       + Minus(2, a \notin {5, 6, 8})]
  <2>1. \A d \in TwoDice : f[d] \in Int
    <3>1. Minus(2, a \notin {5, 6, 8}) \in Int /\ Minus(4, far) \in Int
      BY MinusIn
    <3> QED BY <1>1, <3>1
  <2>2. {Clamp(f[d], 0, 10) : d \in TwoDice} \subseteq Ehex
    <3> HIDE DEF f
    <3> QED BY <2>1, ClampedDigits, DigitBounds
  <2>3. people(a) = IF force_lifeless(a) THEN {0} ELSE {Clamp(f[d], 0, 10) : d \in TwoDice}
    OBVIOUS
  <2> QED BY <2>2, <2>3, DigitBounds
<1>5. Moons(p, size, o, place, nth) =
        UNION {UNION {UNION {Finish(NewWorld(size, a, h, n), p, nth, place) :
          n \in OrRolled(p.population, people(a))} :
          h \in OrRolled(p.hydro, hydros(a))} :
          a \in OrRolled(p.atmosphere, airs)}
  BY DEF Moons
<1> HIDE DEF airs, hydros, people
<1>6. PICK a \in OrRolled(p.atmosphere, airs) :
        \E h \in OrRolled(p.hydro, hydros(a)), n \in OrRolled(p.population, people(a)) :
           w \in Finish(NewWorld(size, a, h, n), p, nth, place)
  BY <1>5
<1>7. PICK h \in OrRolled(p.hydro, hydros(a)), n \in OrRolled(p.population, people(a)) :
        w \in Finish(NewWorld(size, a, h, n), p, nth, place)
  BY <1>6
<1>8. a \in Ehex
  BY <1>2, <1>6, RowDigits, OrRolledIn
<1>9. h \in Ehex /\ n \in Ehex
  <2>1. hydros(a) \subseteq Ehex /\ people(a) \subseteq Ehex
    BY <1>3, <1>4
  <2> QED BY <1>7, <2>1, RowDigits, OrRolledIn
<1> QED BY <1>7, <1>8, <1>9, FinishIn

LEMMA RingIn == ASSUME NEW p \in PartialRows PROVE Ring(p) \in WorldSet
<1>1. PICK a, h, n : /\ a = IF p.atmosphere = Wild THEN 0 ELSE p.atmosphere
                     /\ h = IF p.hydro = Wild THEN 0 ELSE p.hydro
                     /\ n = IF p.population = Wild THEN 0 ELSE p.population
  OBVIOUS
<1>2. a \in Ehex /\ h \in Ehex /\ n \in Ehex
  BY <1>1, RowDigits, DigitBounds
<1>3. Ring(p) = NewWorld(0, a, h, n)
  BY <1>1 DEF Ring
<1> QED BY <1>2, <1>3, NewIn DEF SizeRange

LEMMA BeltsIn ==
  ASSUME MainDigits, NEW place, mainWorld.population > 0 \/ force_lifeless(0), NEW n \in BeltPeople(place),
         NEW w \in Finish(NewWorld(0, 0, 0, n), NoRow, place.orbit, place)
  PROVE  w \in WorldSet
<1> DEFINE f == [d \in TwoDice |-> d - 2 + Minus(5, place.orbit <= place.inner)
                                     + Minus(5, place.orbit > place.habitable)]
<1>1. \A d \in TwoDice : f[d] \in Int
  <2>1. Minus(5, place.orbit <= place.inner) \in Int /\ Minus(5, place.orbit > place.habitable) \in Int
    BY MinusIn
  <2> QED BY <2>1, WorldAssumption
<1>2. PICK high : high = mainWorld.population - 1
  OBVIOUS
<1>3. BeltPeople(place) = IF force_lifeless(0) THEN {0} ELSE {Clamp(f[d], 0, high) : d \in TwoDice}
  BY <1>2 DEF BeltPeople
<1>4. BeltPeople(place) \subseteq Ehex
  <2> HIDE DEF f
  <2>1. CASE force_lifeless(0)
    BY <1>3, <2>1, DigitBounds
  <2>2. CASE ~force_lifeless(0)
    <3>1. high \in Ehex
      BY <1>2, <2>2 DEF MainDigits, Ehex
    <3>2. {Clamp(f[d], 0, high) : d \in TwoDice} \subseteq Ehex
      BY <1>1, <3>1, ClampedDigits
    <3> QED BY <1>3, <2>2, <3>2
  <2> QED BY <2>1, <2>2
<1>5. n \in Ehex /\ 0 \in SizeRange
  BY <1>4 DEF SizeRange
<1> QED BY <1>5, FinishIn, DigitBounds, RowsArePartial

LEMMA MoonIn ==
  ASSUME MainDigits, NEW what, NEW p \in PartialRows, NEW S, S \subseteq SizeRange, NEW ofGiant,
         Moon(what, p, S, ofGiant)
  PROVE  \E w \in WorldSet : Becomes(what, p, w)
<1>1. PICK place \in Places, size \in S :
        \E o \in MoonOrbits(size, ofGiant) :
          \E w \in IF size = 0 THEN {Ring(p)}
                   ELSE Moons(p, size, o, place, IF ofGiant /\ p = NoRow THEN place.orbit ELSE o) :
            Becomes(what, p, w)
  BY DEF Moon
<1>2. PICK o, nth, w : (w = Ring(p) \/ w \in Moons(p, size, o, place, nth)) /\ Becomes(what, p, w)
  BY <1>1
<1>3. size \in SizeRange
  OBVIOUS
<1> QED BY <1>2, <1>3, RingIn, MoonsIn

LEMMA MoonSizesIn == GiantMoonSizes \subseteq SizeRange /\ \A parent \in Parents : MoonSizes(parent) \subseteq SizeRange
<1>1. ASSUME NEW parent \in Parents, NEW d \in OneDie PROVE Max({parent - d, -1}) \in SizeRange
  <2>1. parent \in -7..33 /\ d \in 1..6
    BY WorldAssumption
  <2>2. PICK k : k = parent - d
    OBVIOUS
  <2> QED BY <2>1, <2>2, MaxOfTwo DEF SizeRange
<1>2. ASSUME NEW d \in TwoDice, NEW m \in {4, 6} PROVE Max({d - m, -1}) \in SizeRange
  <2>1. d \in 2..12
    BY WorldAssumption
  <2>2. PICK k : k = d - m
    OBVIOUS
  <2>3. k \in Int /\ k <= 8
    BY <2>1, <2>2
  <2> QED BY <2>2, <2>3, MaxOfTwo DEF SizeRange
<1>3. ASSUME NEW s \in GiantMoonSizes PROVE s \in SizeRange
  <2>1. PICK d \in TwoDice, m \in {4, 6} : s = Max({d - m, -1})
    BY SMTT(20) DEF GiantMoonSizes
  <2> QED BY <1>2, <2>1
<1>4. \A parent \in Parents : MoonSizes(parent) \subseteq SizeRange
  BY <1>1 DEF MoonSizes
<1> QED BY <1>3, <1>4

\* A body is made of digits, and a row it was made from is consistent.
WorldTypes ==
  /\ mainWorld \in MainWorlds /\ made \in WorldSet
  /\ maker \in {"planet row", "moon row"} => Consistent(given)

\* What one of the generators makes.
Makes ==
  \E what, p : \E w \in WorldSet :
    Becomes(what, p, w) /\ (what \in {"planet row", "moon row"} => Consistent(p))

LEMMA MakesOf ==
  ASSUME NEW what, NEW p, NEW w \in WorldSet, Becomes(what, p, w),
         what \in {"planet", "belt row", "belt", "moon"} \/ Consistent(p)
  PROVE  Makes
<1>1. what \in {"planet row", "moon row"} => Consistent(p)
  OBVIOUS
<1> QED BY <1>1 DEF Makes

LEMMA GeneratorsIn == ASSUME MainDigits, Generators PROVE Makes
<1>1. CASE GeneratePlanet
  <2>1. PICK place, w : w \in Planets(NoRow, place) /\ Becomes("planet", NoRow, w)
    BY <1>1 DEF GeneratePlanet
  <2>2. w \in WorldSet
    BY <2>1, PlanetsIn, RowsArePartial
  <2> QED BY <2>1, <2>2, MakesOf
<1>2. CASE GenerateRow
  <2>1. PICK place \in Places, p \in WorldRows :
          Consistent(p) /\ \E w \in Planets(p, place) : Becomes("planet row", p, w)
    BY <1>2 DEF GenerateRow
  <2>2. PICK w \in Planets(p, place) : Becomes("planet row", p, w)
    BY <2>1
  <2>3. w \in WorldSet
    BY <2>2, PlanetsIn, RowsArePartial
  <2> QED BY <2>1, <2>2, <2>3, MakesOf
<1>3. CASE GenerateBeltRow
  <2>1. PICK place \in Places, p \in WorldRows :
          \E w \in Planets(BeltRow(p), place) : Becomes("belt row", BeltRow(p), w)
    BY <1>3 DEF GenerateBeltRow
  <2>2. PICK r, w : r = BeltRow(p) /\ w \in Planets(r, place) /\ Becomes("belt row", r, w)
    BY <2>1
  <2>3. r \in PartialRows
    BY <2>1, <2>2, RowsArePartial
  <2>4. w \in WorldSet
    BY <2>2, <2>3, PlanetsIn
  <2> QED BY <2>2, <2>4, MakesOf
<1>4. CASE GenPlanetoid
  <2>1. PICK place \in Places :
          /\ mainWorld.population > 0 \/ force_lifeless(0)
          /\ \E n \in BeltPeople(place) : \E w \in Finish(NewWorld(0, 0, 0, n), NoRow, place.orbit, place) :
               Becomes("belt", NoRow, w)
    BY <1>4 DEF GenPlanetoid
  <2>2. PICK n \in BeltPeople(place) :
          \E w \in Finish(NewWorld(0, 0, 0, n), NoRow, place.orbit, place) : Becomes("belt", NoRow, w)
    BY <2>1
  <2>3. PICK w \in Finish(NewWorld(0, 0, 0, n), NoRow, place.orbit, place) : Becomes("belt", NoRow, w)
    BY <2>2
  <2>4. w \in WorldSet
    BY <2>1, <2>2, <2>3, BeltsIn
  <2> QED BY <2>3, <2>4, MakesOf
<1>5. CASE GenSatellite
  <2>1. PICK S, ofGiant : S \subseteq SizeRange /\ Moon("moon", NoRow, S, ofGiant)
    BY <1>5, MoonSizesIn DEF GenSatellite
  <2>2. PICK w \in WorldSet : Becomes("moon", NoRow, w)
    BY <2>1, RowsArePartial, MoonIn
  <2> QED BY <2>2, MakesOf
<1>6. CASE GenGiantSatellite
  <2>1. PICK S, ofGiant : S \subseteq SizeRange /\ Moon("moon", NoRow, S, ofGiant)
    BY <1>6, MoonSizesIn DEF GenGiantSatellite
  <2>2. PICK w \in WorldSet : Becomes("moon", NoRow, w)
    BY <2>1, RowsArePartial, MoonIn
  <2> QED BY <2>2, MakesOf
<1>7. CASE GenerateMoonRow
  <2>1. PICK p \in WorldRows :
          /\ Consistent(p)
          /\ \/ \E parent \in Parents : Moon("moon row", p, OrRolled(p.size, MoonSizes(parent)), FALSE)
             \/ Moon("moon row", p, OrRolled(p.size, GiantMoonSizes), TRUE)
    BY <1>7 DEF GenerateMoonRow
  <2>2. p \in PartialRows
    BY <2>1, RowsArePartial
  <2>3. PICK S, ofGiant : S \subseteq SizeRange /\ Moon("moon row", p, S, ofGiant)
    <3>1. p.size = Wild \/ p.size \in SizeRange
      BY <2>2, RowDigits DEF Ehex, SizeRange
    <3>2. \A T : T \subseteq SizeRange => OrRolled(p.size, T) \subseteq SizeRange
      BY <3>1, OrRolledIn
    <3>3. CASE Moon("moon row", p, OrRolled(p.size, GiantMoonSizes), TRUE)
      BY <3>2, <3>3, MoonSizesIn
    <3>4. ASSUME NEW parent \in Parents, Moon("moon row", p, OrRolled(p.size, MoonSizes(parent)), FALSE)
          PROVE  \E S, ofGiant : S \subseteq SizeRange /\ Moon("moon row", p, S, ofGiant)
      BY <3>2, <3>4, MoonSizesIn
    <3> QED BY <2>1, <3>3, <3>4
  <2>4. PICK w \in WorldSet : Becomes("moon row", p, w)
    BY <2>2, <2>3, MoonIn
  <2> QED BY <2>1, <2>4, MakesOf
<1> QED BY <1>1, <1>2, <1>3, <1>4, <1>5, <1>6, <1>7 DEF Generators

LEMMA WorldTypesStart == WorldInit => WorldTypes
<1>1. NoBody \in WorldSet
  BY NewIn, DigitBounds DEF NoBody, SizeRange
<1> QED BY <1>1 DEF WorldInit, WorldTypes

LEMMA WorldTypesKeep == ASSUME WorldTypes, [WorldNext]_worldVars PROVE WorldTypes'
<1>1. CASE UNCHANGED worldVars
  BY <1>1 DEF worldVars, WorldTypes, Consistent
<1>2. CASE WorldNext
  <2>1. MainDigits
    BY MainHasDigits DEF WorldTypes
  <2>2. PICK what, p : \E w \in WorldSet :
          Becomes(what, p, w) /\ (what \in {"planet row", "moon row"} => Consistent(p))
    BY <1>2, <2>1, GeneratorsIn DEF WorldNext, Makes
  <2>3. /\ mainWorld' = mainWorld /\ made' \in WorldSet /\ maker' = what /\ given' = p
        /\ what \in {"planet row", "moon row"} => Consistent(p)
    BY <2>2 DEF Becomes
  <2> QED BY <2>3 DEF WorldTypes, Consistent
<1> QED BY <1>1, <1>2

LEMMA WorldTyped == WorldTypes => WorldTypeOK
BY DEF WorldTypes, WorldTypeOK, WorldSet, Built, SizeRange, Laws
-----------------------------------------------------------------------------
(* Markets (Market).                                                       *)

\* What is answered as long as the rolls are kept.
Buying(skill) ==
  [i \in DOMAIN table |->
     Price(i, BuyPercent, table[i].buyRoll + skill + Balance(i, uwp_to_trade_classes(home)))]
Selling(w, skill) ==
  [i \in DOMAIN table |->
     Price(i, SellPercent, table[i].sellRoll + skill - Balance(i, uwp_to_trade_classes(w)))]
BuyKept(q, g) ==
  (\A i \in DOMAIN table : table[i].buyRoll # Unrolled) /\ g = Buying(q.skill)
SellKept(q, g) ==
  (\A i \in DOMAIN table : table[i].sellRoll # Unrolled) /\ g = Selling(q.at, q.skill)

\* Travellers, and the lots as long as there are no fewer than none of a class.
Travelling(q) ==
  [c \in Passengers |-> generate_passenger_class(dice[c], c, q.from, q.at, q.parsecs, q.skill[1])]
Wanted(q, c) == NumLots(dice[c], c, q.from, q.at, q.parsecs, q.skill[2])
Taken(q, c) == SubSeq(dice[c].sizes, 1, Wanted(q, c))
Shipped(q) == Offered(Taken(q, "major") \o Taken(q, "minor") \o Taken(q, "incidental"))
DiceThrown ==
  /\ \A c \in Passengers : dice[c].roll # Unrolled /\ dice[c].counts # <<>>
  /\ \A c \in Cargo : dice[c].roll # Unrolled /\ dice[c].check # Unrolled
PassageKept(q, g) ==
  /\ DiceThrown
  /\ g.passengers = Travelling(q)
  /\ g.fewest = Min({Wanted(q, c) : c \in Cargo})
  /\ g.fewest >= 0 => /\ \A c \in Cargo : Wanted(q, c) \in 0 .. Len(dice[c].sizes)
                      /\ g.lots = Shipped(q)

AnswerKept(a) ==
  /\ a.asked.about \in {"buy", "sell", "passage"}
  /\ a.asked.about = "buy" => BuyKept(a.asked, a.given)
  /\ a.asked.about = "sell" => SellKept(a.asked, a.given)
  /\ a.asked.about = "passage" => PassageKept(a.asked, a.given)

TableType == \A i \in DOMAIN table : {"buyRoll", "sellRoll"} \subseteq DOMAIN table[i]
DiceType ==
  /\ \A c \in Passengers : dice[c] \in [roll : Int, counts : Seq(Int)]
  /\ \A c \in Cargo : dice[c] \in [roll : Int, check : Int, sizes : Seq(Int)]
MarketInv == TableType /\ DiceType /\ \A a \in answers : AnswerKept(a)

LEMMA KeptIsRight == (\A a \in answers : AnswerKept(a)) => KeptDice
<1> SUFFICES ASSUME \A a \in answers : AnswerKept(a), NEW a \in answers, NEW b \in answers, a.asked = b.asked
             PROVE  IF a.asked.about = "passage"
                    THEN /\ a.given.passengers = b.given.passengers
                         /\ a.given.fewest >= 0 => a.given.lots = b.given.lots
                    ELSE a.given = b.given
  BY DEF KeptDice
<1>1. PICK q, g, f : q = a.asked /\ q = b.asked /\ g = a.given /\ f = b.given
  OBVIOUS
<1>2. /\ q.about \in {"buy", "sell", "passage"}
      /\ q.about = "buy" => BuyKept(q, g) /\ BuyKept(q, f)
      /\ q.about = "sell" => SellKept(q, g) /\ SellKept(q, f)
      /\ q.about = "passage" => PassageKept(q, g) /\ PassageKept(q, f)
  BY <1>1 DEF AnswerKept
<1>3. CASE q.about = "passage"
  BY <1>1, <1>2, <1>3 DEF PassageKept
<1>4. CASE q.about # "passage"
  BY <1>1, <1>2, <1>4 DEF BuyKept, SellKept
<1> QED BY <1>3, <1>4, <1>1

\* Sizes of lots are added at the end.
LEMMA LongerKeeps ==
  ASSUME NEW s \in Seq(Int), NEW n \in Int, NEW die \in Int
  PROVE  /\ Longer(s, n, die) \in Seq(Int) /\ Len(Longer(s, n, die)) >= n
         /\ Len(Longer(s, n, die)) >= Len(s)
         /\ \A m \in 0 .. Len(s) : SubSeq(Longer(s, n, die), 1, m) = SubSeq(s, 1, m)
<1>1. PICK k : k = Max({n, Len(s)}) - Len(s)
  OBVIOUS
<1>2. k \in Nat /\ k + Len(s) >= n
  BY <1>1, MaxOfTwo
<1>3. PICK e : e = [i \in 1 .. k |-> die]
  OBVIOUS
<1>4. e \in Seq(Int) /\ Len(e) = k
  BY <1>2, <1>3
<1>5. Longer(s, n, die) = s \o e
  BY <1>1, <1>3 DEF Longer
<1>6. s \o e \in Seq(Int) /\ Len(s \o e) = Len(s) + k /\ \A i \in 1 .. Len(s) : (s \o e)[i] = s[i]
  <2>1. s \o e \in Seq(Int) /\ Len(s \o e) = Len(s) + Len(e)
    BY <1>4, ConcatProperties
  <2>2. \A i \in 1 .. Len(s) : (s \o e)[i] = s[i]
    BY <1>4
  <2> QED BY <1>4, <2>1, <2>2
<1>7. ASSUME NEW m \in 0 .. Len(s) PROVE SubSeq(s \o e, 1, m) = SubSeq(s, 1, m)
  <2>1. PICK u : u = s \o e
    OBVIOUS
  <2>2. u \in Seq(Int) /\ m \in Nat /\ m <= Len(u) /\ \A i \in 1 .. m : u[i] = s[i]
    BY <1>2, <1>6, <2>1
  <2>3. SubSeq(u, 1, m) = [i \in 1 .. m |-> u[i]] /\ SubSeq(s, 1, m) = [i \in 1 .. m |-> s[i]]
    BY <2>2
  <2> QED BY <2>1, <2>2, <2>3
<1> QED BY <1>2, <1>5, <1>6, <1>7

LEMMA MarketStarts == MarketInit => MarketInv
<1> SUFFICES ASSUME MarketInit PROVE MarketInv
  OBVIOUS
<1>1. table = [c \in {} |-> 0] /\ answers = {}
  BY DEF MarketInit, None
<1>2. DiceType
  BY DEF MarketInit, DiceType, UnrolledDice, Unrolled, Passengers, Cargo
<1> QED BY <1>1, <1>2 DEF MarketInv, TableType

\* Answers that are kept, when what they rest on is.
LEMMA MarketStays ==
  ASSUME MarketInv, UNCHANGED <<table, dice>>, NEW a \in answers,
         a.asked.about # "passage" => home' = home
  PROVE  AnswerKept(a)'
<1>1. PICK q, g : q = a.asked /\ g = a.given
  OBVIOUS
<1>2. AnswerKept(a)
  BY DEF MarketInv
<1>3. q.about = "passage" /\ PassageKept(q, g) => PassageKept(q, g)'
  BY DEF PassageKept, DiceThrown, Travelling, Shipped, Taken, Wanted
<1>4. home' = home /\ BuyKept(q, g) => BuyKept(q, g)'
  BY DEF BuyKept, Buying
<1>5. SellKept(q, g) => SellKept(q, g)'
  BY DEF SellKept, Selling
<1> QED BY <1>1, <1>2, <1>3, <1>4, <1>5 DEF AnswerKept

LEMMA PassageStays ==
  ASSUME NEW q, NEW g, PassageKept(q, g), UNCHANGED dice
  PROVE  PassageKept(q, g)'
BY DEF PassageKept, DiceThrown, Travelling, Shipped, Taken, Wanted

\* Goods change for the prices alone, and dice for the passages alone.
LEMMA ForWorldKeeps == ASSUME MarketInv, NEW w \in Ports, ForWorld(w) PROVE MarketInv'
<1>1. /\ answers' = {a \in answers : a.asked.about = "passage"} /\ dice' = dice
  BY DEF ForWorld, MarketAnswers
<1>2. TableType'
  BY DEF ForWorld, for_world, TableType
<1>3. ASSUME NEW a \in answers' PROVE AnswerKept(a)'
  <2>1. PICK q, g : q = a.asked /\ g = a.given
    OBVIOUS
  <2>2. q.about = "passage" /\ PassageKept(q, g)
    BY <1>1, <1>3, <2>1 DEF MarketInv, AnswerKept
  <2>3. PassageKept(q, g)'
    BY <1>1, <2>2, PassageStays
  <2> QED BY <2>1, <2>2, <2>3 DEF AnswerKept
<1> QED BY <1>1, <1>2, <1>3 DEF MarketInv, DiceType

LEMMA ResetGoodsKeeps == ASSUME MarketInv, ResetGoods PROVE MarketInv'
<1>1. /\ answers' = {a \in answers : a.asked.about = "passage"} /\ dice' = dice
  BY DEF ResetGoods, MarketAnswers
<1>2. TableType'
  BY DEF ResetGoods, MarketInv, TableType
<1>3. ASSUME NEW a \in answers' PROVE AnswerKept(a)'
  <2>1. PICK q, g : q = a.asked /\ g = a.given
    OBVIOUS
  <2>2. q.about = "passage" /\ PassageKept(q, g)
    BY <1>1, <1>3, <2>1 DEF MarketInv, AnswerKept
  <2>3. PassageKept(q, g)'
    BY <1>1, <2>2, PassageStays
  <2> QED BY <2>1, <2>2, <2>3 DEF AnswerKept
<1> QED BY <1>1, <1>2, <1>3 DEF MarketInv, DiceType

LEMMA Throw3 == \A t \in Throws : t.three # Unrolled /\ t.two # Unrolled /\ t.two \in Int /\ t.three \in Int /\ t.one \in Int
BY MarketAssumption DEF Unrolled

\* A roll once kept stays, and the other one of each good is left alone.
LEMMA PriceToBuyKeeps ==
  ASSUME MarketInv, NEW skill \in Skills, PriceToBuy(skill) PROVE MarketInv'
<1>1. PICK t \in Throws :
        /\ table' = [i \in DOMAIN table |-> [table[i] EXCEPT !.buyRoll = Kept(@, t.three)]]
        /\ answers' = answers \cup
             {[asked |-> [about |-> "buy", at |-> home, skill |-> skill],
               given |-> [i \in DOMAIN table |->
                  Price(i, BuyPercent,
                        [j \in DOMAIN table |-> [table[j] EXCEPT !.buyRoll = Kept(@, t.three)]][i].buyRoll
                          + skill + Balance(i, uwp_to_trade_classes(home)))]]}
        /\ home' = home /\ dice' = dice
  BY DEF PriceToBuy, Answer
<1>2. DOMAIN table' = DOMAIN table
  BY <1>1
<1>3. \A i \in DOMAIN table : /\ {"buyRoll", "sellRoll"} \subseteq DOMAIN table'[i]
                              /\ table'[i].sellRoll = table[i].sellRoll
                              /\ table'[i].buyRoll = Kept(table[i].buyRoll, t.three)
  BY <1>1 DEF MarketInv, TableType
<1>4. TableType' /\ DiceType'
  BY <1>1, <1>2, <1>3 DEF MarketInv, TableType, DiceType
<1>5. \A i \in DOMAIN table : /\ table'[i].buyRoll # Unrolled
                              /\ table[i].buyRoll # Unrolled => table'[i].buyRoll = table[i].buyRoll
  BY <1>3, Throw3 DEF Kept
<1>6. ASSUME NEW a \in answers PROVE AnswerKept(a)'
  <2>1. PICK q, g : q = a.asked /\ g = a.given
    OBVIOUS
  <2>2. AnswerKept(a)
    BY DEF MarketInv
  <2>3. BuyKept(q, g) => BuyKept(q, g)'
    BY <1>1, <1>2, <1>5 DEF BuyKept, Buying
  <2>4. SellKept(q, g) => SellKept(q, g)'
    BY <1>1, <1>2, <1>3 DEF SellKept, Selling
  <2>5. PassageKept(q, g) => PassageKept(q, g)'
    BY <1>1, PassageStays
  <2> QED BY <2>1, <2>2, <2>3, <2>4, <2>5 DEF AnswerKept
<1>7. ASSUME NEW a \in answers' \ answers PROVE AnswerKept(a)'
  <2>1. PICK q, g : q = a.asked /\ g = a.given
    OBVIOUS
  <2>2. /\ q = [about |-> "buy", at |-> home, skill |-> skill]
        /\ g = [i \in DOMAIN table |->
                  Price(i, BuyPercent,
                        [j \in DOMAIN table |-> [table[j] EXCEPT !.buyRoll = Kept(@, t.three)]][i].buyRoll
                          + skill + Balance(i, uwp_to_trade_classes(home)))]
    BY <1>1, <1>7, <2>1
  <2>3. q.about = "buy" /\ q.skill = skill
    BY <2>2
  <2>4. g = [i \in DOMAIN table' |->
               Price(i, BuyPercent, table'[i].buyRoll + skill + Balance(i, uwp_to_trade_classes(home)))]
    BY <1>1, <1>2, <2>2
  <2>5. BuyKept(q, g)'
    BY <1>1, <1>2, <1>5, <2>3, <2>4 DEF BuyKept, Buying
  <2> QED BY <2>1, <2>3, <2>5 DEF AnswerKept
<1> QED BY <1>4, <1>6, <1>7 DEF MarketInv

LEMMA PriceToSellKeeps ==
  ASSUME MarketInv, NEW w \in Ports, NEW skill \in Skills, PriceToSell(w, skill) PROVE MarketInv'
<1>1. PICK t \in Throws :
        /\ table' = [i \in DOMAIN table |-> [table[i] EXCEPT !.sellRoll = Kept(@, t.three)]]
        /\ answers' = answers \cup
             {[asked |-> [about |-> "sell", at |-> w, skill |-> skill],
               given |-> [i \in DOMAIN table |->
                  Price(i, SellPercent,
                        [j \in DOMAIN table |-> [table[j] EXCEPT !.sellRoll = Kept(@, t.three)]][i].sellRoll
                          + skill - Balance(i, uwp_to_trade_classes(w)))]]}
        /\ home' = home /\ dice' = dice
  BY DEF PriceToSell, Answer
<1>2. DOMAIN table' = DOMAIN table
  BY <1>1
<1>3. \A i \in DOMAIN table : /\ {"buyRoll", "sellRoll"} \subseteq DOMAIN table'[i]
                              /\ table'[i].buyRoll = table[i].buyRoll
                              /\ table'[i].sellRoll = Kept(table[i].sellRoll, t.three)
  BY <1>1 DEF MarketInv, TableType
<1>4. TableType' /\ DiceType'
  BY <1>1, <1>2, <1>3 DEF MarketInv, TableType, DiceType
<1>5. \A i \in DOMAIN table : /\ table'[i].sellRoll # Unrolled
                              /\ table[i].sellRoll # Unrolled => table'[i].sellRoll = table[i].sellRoll
  BY <1>3, Throw3 DEF Kept
<1>6. ASSUME NEW a \in answers PROVE AnswerKept(a)'
  <2>1. PICK q, g : q = a.asked /\ g = a.given
    OBVIOUS
  <2>2. AnswerKept(a)
    BY DEF MarketInv
  <2>3. BuyKept(q, g) => BuyKept(q, g)'
    BY <1>1, <1>2, <1>3 DEF BuyKept, Buying
  <2>4. SellKept(q, g) => SellKept(q, g)'
    BY <1>1, <1>2, <1>5 DEF SellKept, Selling
  <2>5. PassageKept(q, g) => PassageKept(q, g)'
    BY <1>1, PassageStays
  <2> QED BY <2>1, <2>2, <2>3, <2>4, <2>5 DEF AnswerKept
<1>7. ASSUME NEW a \in answers' \ answers PROVE AnswerKept(a)'
  <2>1. PICK q, g : q = a.asked /\ g = a.given
    OBVIOUS
  <2>2. /\ q = [about |-> "sell", at |-> w, skill |-> skill]
        /\ g = [i \in DOMAIN table |->
                  Price(i, SellPercent,
                        [j \in DOMAIN table |-> [table[j] EXCEPT !.sellRoll = Kept(@, t.three)]][i].sellRoll
                          + skill - Balance(i, uwp_to_trade_classes(w)))]
    BY <1>1, <1>7, <2>1
  <2>3. q.about = "sell" /\ q.skill = skill /\ q.at = w
    BY <2>2
  <2>4. g = [i \in DOMAIN table' |->
               Price(i, SellPercent, table'[i].sellRoll + skill - Balance(i, uwp_to_trade_classes(w)))]
    BY <1>1, <1>2, <2>2
  <2>5. SellKept(q, g)'
    BY <1>1, <1>2, <1>5, <2>3, <2>4 DEF SellKept, Selling
  <2> QED BY <2>1, <2>3, <2>5 DEF AnswerKept
<1> QED BY <1>4, <1>6, <1>7 DEF MarketInv

LEMMA ResetPassengersKeeps == ASSUME MarketInv, ResetPassengers PROVE MarketInv'
<1>1. answers' = {a \in answers : a.asked.about # "passage"} /\ table' = table /\ home' = home
  BY DEF ResetPassengers
<1>2. DiceType'
  <2>1. \A c \in Passengers : dice'[c] = [roll |-> Unrolled, counts |-> <<>>]
    BY DEF ResetPassengers, UnrolledDice
  <2>2. Passengers \cap Cargo = {}
    BY DEF Passengers, Cargo
  <2>3. \A c \in Cargo : dice'[c] = [roll |-> Unrolled, check |-> Unrolled, sizes |-> dice[c].sizes]
    BY <2>2 DEF ResetPassengers, UnrolledDice
  <2>4. Unrolled \in Int /\ <<>> \in Seq(Int)
    BY DEF Unrolled
  <2>5. \A c \in Cargo : dice[c].sizes \in Seq(Int)
    BY DEF MarketInv, DiceType
  <2>6. ASSUME NEW c \in Passengers PROVE dice'[c] \in [roll : Int, counts : Seq(Int)]
    <3>1. [roll |-> Unrolled, counts |-> <<>>] \in [roll : Int, counts : Seq(Int)]
      BY <2>4
    <3> QED BY <2>1, <3>1
  <2>7. ASSUME NEW c \in Cargo PROVE dice'[c] \in [roll : Int, check : Int, sizes : Seq(Int)]
    <3>1. PICK s : s = dice[c].sizes
      OBVIOUS
    <3>2. [roll |-> Unrolled, check |-> Unrolled, sizes |-> s] \in [roll : Int, check : Int, sizes : Seq(Int)]
      BY <2>4, <2>5, <3>1
    <3> QED BY <2>3, <3>1, <3>2
  <2> QED BY <2>6, <2>7 DEF DiceType
<1>3. ASSUME NEW a \in answers' PROVE AnswerKept(a)'
  <2>1. PICK q, g : q = a.asked /\ g = a.given
    OBVIOUS
  <2>2. q.about # "passage" /\ AnswerKept(a)
    BY <1>1, <1>3, <2>1 DEF MarketInv
  <2>3. /\ BuyKept(q, g) => BuyKept(q, g)'
        /\ SellKept(q, g) => SellKept(q, g)'
    BY <1>1 DEF BuyKept, SellKept, Buying, Selling
  <2> QED BY <2>1, <2>2, <2>3 DEF AnswerKept
<1> QED BY <1>1, <1>2, <1>3 DEF MarketInv, TableType

LEMMA OneOfFour ==
  ASSUME NEW A, NEW B, NEW C, NEW i \in Int, NEW j \in Int, NEW k \in Int, NEW l \in Int
  PROVE  (IF A THEN i ELSE IF B THEN j ELSE IF C THEN k ELSE l) \in Int
<1>1. CASE A
  BY <1>1
<1>2. CASE ~A /\ B
  BY <1>2
<1>3. CASE ~A /\ ~B /\ C
  BY <1>3
<1>4. CASE ~A /\ ~B /\ ~C
  BY <1>4
<1> QED BY <1>1, <1>2, <1>3, <1>4

LEMMA OneOfThree ==
  ASSUME NEW A, NEW B, NEW i \in Int, NEW j \in Int, NEW k \in Int
  PROVE  (IF A THEN i ELSE IF B THEN j ELSE k) \in Int
<1>1. CASE A
  BY <1>1
<1>2. CASE ~A /\ B
  BY <1>2
<1>3. CASE ~A /\ ~B
  BY <1>3
<1> QED BY <1>1, <1>2, <1>3

LEMMA LotsInt ==
  ASSUME NEW k \in [roll : Int, check : Int, sizes : Seq(Int)], NEW c, NEW origin, NEW to,
         NEW parsecs \in Int, NEW skill \in Int
  PROVE  NumLots(k, c, origin, to, parsecs, skill) \in Int
<1>1. \A w : Port(w) \in Int
  BY DEF Port
<1>2. ASSUME NEW w PROVE Shippers(w) \in Int
  <2>0. -4 \in Int /\ 4 \in Int /\ 2 \in Int /\ 0 \in Int /\ -1 \in Int
    OBVIOUS
  <2>1. PICK x : x = CASE w.zone = "Amber" -> -2 [] w.zone = "Red" -> -6 [] OTHER -> 0
    OBVIOUS
  <2>2. PICK y : y = IF w.population <= 1 THEN -4 ELSE IF w.population >= 8 THEN 4 ELSE IF w.population >= 6 THEN 2 ELSE 0
    OBVIOUS
  <2>3. PICK z : z = IF w.tech <= 6 THEN -1 ELSE IF w.tech >= 9 THEN 2 ELSE 0
    OBVIOUS
  <2>4. x \in Int
    BY <2>1
  <2>5. y \in Int
    BY <2>2, <2>0, OneOfFour, Zenon
  <2>6. z \in Int
    BY <2>3, <2>0, OneOfThree, Zenon
  <2>7. Shippers(w) = Port(w) + x + y + z
    BY <2>1, <2>2, <2>3 DEF Shippers
  <2> QED BY <1>1, <2>4, <2>5, <2>6, <2>7
<1>3. Parsecs(parsecs) \in Int
  BY DEF Parsecs
<1>4. PICK m : m = CASE c = "major" -> -4 [] c = "incidental" -> 2 [] OTHER -> 0
  OBVIOUS
<1>5. m \in Int
  BY <1>4
<1>6. PICK a, b, d : a = Shippers(origin) /\ b = Shippers(to) /\ d = Parsecs(parsecs)
  OBVIOUS
<1>7. a \in Int /\ b \in Int /\ d \in Int
  BY <1>2, <1>3, <1>6
<1>8. NumLots(k, c, origin, to, parsecs, skill) = k.roll + k.check + skill - 8 + a + b + d + m
  BY <1>4, <1>6 DEF NumLots
<1> QED BY <1>5, <1>7, <1>8

LEMMA LeastOfCargo ==
  ASSUME NEW n, \A c \in Cargo : n[c] \in Int, Min({n[c] : c \in Cargo}) >= 0
  PROVE  \A c \in Cargo : n[c] >= 0
<1>1. PICK c \in Cargo : \A d \in Cargo : n[c] <= n[d]
  BY DEF Cargo
<1>2. Min({n[d] : d \in Cargo}) \in {n[d] : d \in Cargo} /\ \A y \in {n[d] : d \in Cargo} : Min({n[d] : d \in Cargo}) <= y
  BY <1>1 DEF Min
<1>3. PICK m : m = Min({n[d] : d \in Cargo})
  OBVIOUS
<1>4. m \in Int /\ \A d \in Cargo : m <= n[d]
  BY <1>2, <1>3
<1> QED BY <1>3, <1>4

\* The dice and the answer of GeneratePassage.
Sized(t, n) ==
  [c \in Passengers \cup Cargo |->
     IF c \in Cargo THEN [Rolling(t)[c] EXCEPT !.sizes = Longer(@, n[c], t.one)] ELSE Rolling(t)[c]]
Passage(d, n, origin, w, jump, skill) ==
  [passengers |-> [c \in Passengers |-> generate_passenger_class(d[c], c, origin, w, jump, skill)],
   lots |-> Offered(Lots(d["major"], n["major"]) \o Lots(d["minor"], n["minor"])
                    \o Lots(d["incidental"], n["incidental"])),
   fewest |-> Min({n[c] : c \in Cargo})]
PassageAsked(origin, w, jump, skill) ==
  [about |-> "passage", from |-> origin, at |-> w, parsecs |-> jump, skill |-> <<skill, skill>>]

LEMMA TenItems == \A e \in Seq(Int) : Len(e) = 10 => e # <<>>
<1> SUFFICES ASSUME NEW e \in Seq(Int), e = <<>> PROVE Len(e) # 10
  OBVIOUS
<1> QED OBVIOUS

\* What the dice become, class by class.
LEMMA DiceGrow ==
  ASSUME DiceType, NEW t \in Throws, NEW n, \A c \in Cargo : n[c] \in Int,
         dice' = Sized(t, n)
  PROVE  /\ DiceType' /\ DiceThrown'
         /\ \A c \in Passengers : dice[c].roll # Unrolled /\ dice[c].counts # <<>> => dice'[c] = dice[c]
         /\ \A c \in Cargo : /\ dice'[c].roll = Kept(dice[c].roll, t.two)
                             /\ dice'[c].check = Kept(dice[c].check, t.two)
                             /\ dice'[c].sizes = Longer(dice[c].sizes, n[c], t.one)
<1>0. Passengers \cap Cargo = {}
  BY DEF Passengers, Cargo
<1>1. ASSUME NEW c \in Passengers
      PROVE  dice'[c] = [roll |-> Kept(dice[c].roll, t.two),
                         counts |-> IF dice[c].counts = <<>> THEN [i \in 1 .. 10 |-> t.one] ELSE dice[c].counts]
  BY <1>0 DEF Rolling, Sized
<1>2. ASSUME NEW c \in Cargo
      PROVE  dice'[c] = [roll |-> Kept(dice[c].roll, t.two), check |-> Kept(dice[c].check, t.two),
                         sizes |-> Longer(dice[c].sizes, n[c], t.one)]
  <2>1. Rolling(t)[c] = [dice[c] EXCEPT !.roll = Kept(@, t.two), !.check = Kept(@, t.two)]
    BY <1>0 DEF Rolling
  <2>2. dice[c] \in [roll : Int, check : Int, sizes : Seq(Int)]
    BY DEF DiceType
  <2>3. Rolling(t)[c] = [roll |-> Kept(dice[c].roll, t.two), check |-> Kept(dice[c].check, t.two),
                         sizes |-> dice[c].sizes]
    BY <2>1, <2>2
  <2>4. dice'[c] = [Rolling(t)[c] EXCEPT !.sizes = Longer(@, n[c], t.one)]
    BY <1>0 DEF Sized
  <2> QED BY <2>3, <2>4
<1>3. \A r \in Int : Kept(r, t.two) \in Int /\ Kept(r, t.two) # Unrolled
  BY Throw3 DEF Kept
<1>4. ASSUME NEW c \in Passengers
      PROVE  /\ dice'[c] \in [roll : Int, counts : Seq(Int)]
             /\ dice'[c].roll # Unrolled /\ dice'[c].counts # <<>>
             /\ dice[c].roll # Unrolled /\ dice[c].counts # <<>> => dice'[c] = dice[c]
  <2>1. PICK d : d = dice[c]
    OBVIOUS
  <2>2. d \in [roll : Int, counts : Seq(Int)]
    BY <2>1 DEF DiceType
  <2>3. PICK e : e = [i \in 1 .. 10 |-> t.one]
    OBVIOUS
  <2>4. e \in Seq(Int) /\ Len(e) = 10
    BY <2>3, Throw3
  <2>5. dice'[c] = [roll |-> Kept(d.roll, t.two), counts |-> IF d.counts = <<>> THEN e ELSE d.counts]
    BY <1>1, <2>1, <2>3
  <2>6. PICK f : f = IF d.counts = <<>> THEN e ELSE d.counts
    OBVIOUS
  <2>7. f \in Seq(Int) /\ f # <<>> /\ (d.counts # <<>> => f = d.counts)
    <3>1. CASE d.counts = <<>>
      <4>1. f = e
        BY <2>6, <3>1
      <4>2. e # <<>>
        BY <2>4, TenItems, Zenon
      <4> QED BY <2>4, <3>1, <4>1, <4>2
    <3>2. CASE d.counts # <<>>
      BY <2>2, <2>6, <3>2
    <3> QED BY <3>1, <3>2
  <2>8. PICK r : r = Kept(d.roll, t.two)
    OBVIOUS
  <2>9. r \in Int /\ r # Unrolled /\ (d.roll # Unrolled => r = d.roll)
    BY <2>8, <2>2, <1>3 DEF Kept
  <2>10. dice'[c] = [roll |-> r, counts |-> f]
    BY <2>5, <2>6, <2>8
  <2> QED BY <2>1, <2>2, <2>7, <2>9, <2>10
<1>5. ASSUME NEW c \in Cargo
      PROVE  /\ dice'[c] \in [roll : Int, check : Int, sizes : Seq(Int)]
             /\ dice'[c].roll # Unrolled /\ dice'[c].check # Unrolled
  <2>1. dice[c].roll \in Int /\ dice[c].check \in Int /\ dice[c].sizes \in Seq(Int)
    BY DEF DiceType
  <2>2. Longer(dice[c].sizes, n[c], t.one) \in Seq(Int)
    BY <2>1, LongerKeeps, Throw3
  <2>3. PICK x, y, z : x = Kept(dice[c].roll, t.two) /\ y = Kept(dice[c].check, t.two)
                       /\ z = Longer(dice[c].sizes, n[c], t.one)
    OBVIOUS
  <2>4. x \in Int /\ x # Unrolled /\ y \in Int /\ y # Unrolled /\ z \in Seq(Int)
    BY <1>3, <2>1, <2>2, <2>3
  <2>5. dice'[c] = [roll |-> x, check |-> y, sizes |-> z]
    BY <1>2, <2>3
  <2> QED BY <2>4, <2>5
<1>6. DiceType' /\ DiceThrown'
  BY <1>4, <1>5 DEF DiceType, DiceThrown
<1>7. ASSUME NEW c \in Cargo
      PROVE  /\ dice'[c].roll = Kept(dice[c].roll, t.two)
             /\ dice'[c].check = Kept(dice[c].check, t.two)
             /\ dice'[c].sizes = Longer(dice[c].sizes, n[c], t.one)
  <2>1. PICK x, y, z : x = Kept(dice[c].roll, t.two) /\ y = Kept(dice[c].check, t.two)
                       /\ z = Longer(dice[c].sizes, n[c], t.one)
    OBVIOUS
  <2>2. dice'[c] = [roll |-> x, check |-> y, sizes |-> z]
    BY <1>2, <2>1
  <2> QED BY <2>1, <2>2
<1> QED BY <1>4, <1>6, <1>7

\* A class that had been thrown for keeps what it was answered with: its rolls
\* stand, and the lots taken are the first of a list that only grows.
LEMMA PassageGrows ==
  ASSUME DiceType, NEW t \in Throws, NEW n, \A c \in Cargo : n[c] \in Int,
         dice' = Sized(t, n),
         NEW q, NEW g, PassageKept(q, g)
  PROVE  PassageKept(q, g)'
<1>1. DiceThrown'
  BY DiceGrow
<1>2. \A c \in Passengers : dice'[c] = dice[c]
  BY DiceGrow DEF PassageKept, DiceThrown
<1>3. \A c \in Cargo : /\ dice'[c].roll = dice[c].roll /\ dice'[c].check = dice[c].check
                       /\ dice'[c].sizes = Longer(dice[c].sizes, n[c], t.one)
  BY DiceGrow DEF PassageKept, DiceThrown, Kept
<1>4. Travelling(q)' = Travelling(q)
  BY <1>2 DEF Travelling
<1>5. \A c \in Cargo : Wanted(q, c)' = Wanted(q, c)
  BY <1>3 DEF Wanted, NumLots
<1>6. {Wanted(q, c) : c \in Cargo}' = {Wanted(q, c) : c \in Cargo}
  BY <1>5
<1>7. ASSUME NEW c \in Cargo, Wanted(q, c) \in 0 .. Len(dice[c].sizes)
      PROVE  Wanted(q, c)' \in 0 .. Len(dice'[c].sizes) /\ Taken(q, c)' = Taken(q, c)
  <2>1. PICK s, m : s = dice[c].sizes /\ m = Wanted(q, c)
    OBVIOUS
  <2>2. s \in Seq(Int) /\ m \in 0 .. Len(s)
    BY <1>7, <2>1 DEF DiceType
  <2>3. PICK u : u = Longer(s, n[c], t.one)
    OBVIOUS
  <2>4. u \in Seq(Int) /\ Len(u) >= Len(s) /\ SubSeq(u, 1, m) = SubSeq(s, 1, m)
    BY <2>2, <2>3, LongerKeeps, Throw3
  <2>5. dice'[c].sizes = u /\ Wanted(q, c)' = m
    BY <1>3, <1>5, <2>1, <2>3
  <2>6. m \in 0 .. Len(u)
    BY <2>2, <2>4
  <2> QED BY <2>1, <2>4, <2>5, <2>6 DEF Taken
<1>8. {"major", "minor", "incidental"} = Cargo
  BY DEF Cargo
<1>9. ASSUME g.fewest >= 0
      PROVE  (\A c \in Cargo : Wanted(q, c) \in 0 .. Len(dice[c].sizes))' /\ Shipped(q)' = g.lots
  <2>1. \A c \in Cargo : Wanted(q, c) \in 0 .. Len(dice[c].sizes)
    BY <1>9 DEF PassageKept
  <2>2. g.lots = Shipped(q)
    BY <1>9 DEF PassageKept
  <2>3. Shipped(q)' = Shipped(q)
    BY <1>7, <1>8, <2>1 DEF Shipped
  <2> QED BY <1>7, <2>1, <2>2, <2>3
<1>10. g.passengers = Travelling(q)' /\ g.fewest = Min({Wanted(q, c) : c \in Cargo})'
  BY <1>4, <1>6 DEF PassageKept
<1> QED BY <1>1, <1>9, <1>10 DEF PassageKept

LEMMA GeneratePassageKeeps ==
  ASSUME MarketInv, NEW w \in Ports, NEW jump \in Jumps, NEW skill \in Skills,
         GeneratePassage(w, jump, skill, skill)
  PROVE  MarketInv'
<1>1. PICK t, n :
        /\ t \in Throws
        /\ n = [c \in Cargo |-> NumLots(Rolling(t)[c], c, home, w, jump, skill)]
        /\ dice' = Sized(t, n)
        /\ answers' = answers \cup {[asked |-> PassageAsked(home, w, jump, skill),
                                     given |-> Passage(dice', n, home, w, jump, skill)]}
        /\ home' = home /\ table' = table
  <2>1. PICK t \in Throws :
          LET n == [c \in Cargo |-> NumLots(Rolling(t)[c], c, home, w, jump, skill)]
          IN  /\ dice' = Sized(t, n)
              /\ Answer(PassageAsked(home, w, jump, skill),
                        Passage(Sized(t, n), n, home, w, jump, skill))
              /\ UNCHANGED <<home, table>>
    BY Zenon DEF GeneratePassage, Sized, Passage, PassageAsked
  <2>2. PICK n : n = [c \in Cargo |-> NumLots(Rolling(t)[c], c, home, w, jump, skill)]
    OBVIOUS
  <2> QED BY <2>1, <2>2 DEF Answer
<1>2. DiceType /\ jump \in Int /\ skill \in Int
  BY MarketAssumption DEF MarketInv
<1>3. ASSUME NEW c \in Cargo PROVE n[c] \in Int
  <2>1. dice[c] \in [roll : Int, check : Int, sizes : Seq(Int)]
    BY <1>2 DEF DiceType
  <2>2. Rolling(t)[c] = [dice[c] EXCEPT !.roll = Kept(@, t.two), !.check = Kept(@, t.two)]
    BY DEF Rolling, Passengers, Cargo
  <2>3. Kept(dice[c].roll, t.two) \in Int /\ Kept(dice[c].check, t.two) \in Int
    BY <1>1, <2>1, Throw3 DEF Kept
  <2>4. Rolling(t)[c] \in [roll : Int, check : Int, sizes : Seq(Int)]
    BY <2>1, <2>2, <2>3
  <2>5. NumLots(Rolling(t)[c], c, home, w, jump, skill) \in Int
    BY <1>2, <2>4, LotsInt
  <2> QED BY <1>1, <2>5
<1>4. /\ DiceType' /\ DiceThrown'
      /\ \A c \in Cargo : /\ dice'[c].roll = Kept(dice[c].roll, t.two)
                          /\ dice'[c].check = Kept(dice[c].check, t.two)
                          /\ dice'[c].sizes = Longer(dice[c].sizes, n[c], t.one)
  BY <1>1, <1>2, <1>3, DiceGrow
<1>5. ASSUME NEW a \in answers PROVE AnswerKept(a)'
  <2>1. PICK q, g : q = a.asked /\ g = a.given
    OBVIOUS
  <2>2. AnswerKept(a)
    BY DEF MarketInv
  <2>3. BuyKept(q, g) => BuyKept(q, g)'
    BY <1>1 DEF BuyKept, Buying
  <2>4. SellKept(q, g) => SellKept(q, g)'
    BY <1>1 DEF SellKept, Selling
  <2>5. PassageKept(q, g) => PassageKept(q, g)'
    BY <1>1, <1>2, <1>3, PassageGrows
  <2> QED BY <2>1, <2>2, <2>3, <2>4, <2>5 DEF AnswerKept
<1>6. ASSUME NEW a \in answers' \ answers PROVE AnswerKept(a)'
  <2>1. PICK q, g : q = a.asked /\ g = a.given
    OBVIOUS
  <2>2. PICK h : h = home
    OBVIOUS
  <2>0. q = PassageAsked(h, w, jump, skill) /\ g = Passage(dice', n, h, w, jump, skill)
    BY <1>1, <1>6, <2>1, <2>2
  <2>3. /\ q.about = "passage" /\ q.from = h /\ q.at = w /\ q.parsecs = jump
        /\ q.skill[1] = skill /\ q.skill[2] = skill
        /\ g.passengers = [c \in Passengers |-> generate_passenger_class(dice'[c], c, h, w, jump, skill)]
        /\ g.lots = Offered(Lots(dice'["major"], n["major"]) \o Lots(dice'["minor"], n["minor"])
                            \o Lots(dice'["incidental"], n["incidental"]))
        /\ g.fewest = Min({n[c] : c \in Cargo})
    BY <2>0 DEF PassageAsked, Passage
  <2>4. g.passengers = Travelling(q)'
    BY SMTT(20), <2>3 DEF Travelling
  <2>5. ASSUME NEW c \in Cargo PROVE n[c] = Wanted(q, c)'
    <3>1. Rolling(t)[c] = [dice[c] EXCEPT !.roll = Kept(@, t.two), !.check = Kept(@, t.two)]
      BY DEF Rolling, Passengers, Cargo
    <3>2. dice[c] \in [roll : Int, check : Int, sizes : Seq(Int)]
      BY <1>2 DEF DiceType
    <3>3. Rolling(t)[c].roll = dice'[c].roll /\ Rolling(t)[c].check = dice'[c].check
      BY <1>4, <3>1, <3>2
    <3> QED BY <1>1, <2>2, <2>3, <3>3 DEF Wanted, NumLots
  <2>6. g.fewest = Min({Wanted(q, c) : c \in Cargo})'
    BY <2>3, <2>5
  <2>7. ASSUME g.fewest >= 0
        PROVE  (\A c \in Cargo : Wanted(q, c) \in 0 .. Len(dice[c].sizes))' /\ g.lots = Shipped(q)'
    <3>1. ASSUME NEW c \in Cargo
          PROVE  /\ Wanted(q, c)' \in 0 .. Len(dice'[c].sizes)
                 /\ Lots(dice'[c], n[c]) = Taken(q, c)'
      <4>1. n[c] \in Nat
        BY <1>3, <2>3, <2>7, LeastOfCargo
      <4>2. PICK s : s = dice[c].sizes
        OBVIOUS
      <4>3. s \in Seq(Int) /\ dice'[c].sizes = Longer(s, n[c], t.one)
        BY <1>2, <1>4, <4>2 DEF DiceType
      <4>4. Len(Longer(s, n[c], t.one)) >= n[c] /\ Longer(s, n[c], t.one) \in Seq(Int)
        BY <1>1, <4>1, <4>3, LongerKeeps, Throw3
      <4>5. n[c] \in 0 .. Len(dice'[c].sizes)
        BY <4>1, <4>3, <4>4
      <4>6. Lots(dice'[c], n[c]) = SubSeq(dice'[c].sizes, 1, n[c])
        BY <4>1 DEF Lots
      <4> QED BY <2>5, <4>5, <4>6 DEF Taken
    <3>2. {"major", "minor", "incidental"} = Cargo
      BY DEF Cargo
    <3>3. Shipped(q)' = Offered(Lots(dice'["major"], n["major"]) \o Lots(dice'["minor"], n["minor"])
                                \o Lots(dice'["incidental"], n["incidental"]))
      BY <3>1, <3>2 DEF Shipped
    <3> QED BY <2>3, <3>1, <3>3
  <2>8. PassageKept(q, g)'
    BY <1>4, <2>4, <2>6, <2>7 DEF PassageKept
  <2> QED BY <2>1, <2>3, <2>8 DEF AnswerKept
<1> QED BY <1>1, <1>4, <1>5, <1>6 DEF MarketInv, TableType

LEMMA MarketKeeps == MarketInv /\ [MarketNext]_marketVars => MarketInv'
<1> SUFFICES ASSUME MarketInv, [MarketNext]_marketVars PROVE MarketInv'
  OBVIOUS
<1>1. CASE UNCHANGED marketVars
  <2>1. UNCHANGED <<home, table, dice, answers>>
    BY <1>1 DEF marketVars
  <2>2. ASSUME NEW a \in answers PROVE AnswerKept(a)'
    BY <2>1, <2>2, MarketStays
  <2> QED BY <2>1, <2>2 DEF MarketInv, TableType, DiceType
<1> QED BY <1>1, ForWorldKeeps, ResetGoodsKeeps, PriceToBuyKeeps, PriceToSellKeeps, ResetPassengersKeeps,
           GeneratePassageKeeps DEF MarketNext
-----------------------------------------------------------------------------
\* What the rolls of goods and of passengers may be.
GoodsRolls == {Unrolled} \cup 3..18
PassageRolls == {Unrolled} \cup 2..12
Shelf == [quantity : Nat \ {0}, buyRoll : GoodsRolls, sellRoll : GoodsRolls]
WellRolled(d) ==
  /\ \A c \in Passengers : d[c] \in [roll : PassageRolls, counts : Seq(1..6)]
  /\ \A c \in Cargo : d[c] \in [roll : PassageRolls, check : PassageRolls, sizes : Seq(1..6)]

MarketTypes ==
  /\ home \in Ports /\ DOMAIN table \subseteq DOMAIN TradeTable
  /\ \A i \in DOMAIN table : table[i] \in Shelf
  /\ WellRolled(dice)

LEMMA MarketTyped == MarketTypes => MarketTypeOK
BY DEF MarketTypes, MarketTypeOK, Shelf, GoodsRolls, PassageRolls, WellRolled

LEMMA MarketTypesStart == MarketInit => MarketTypes
<1> SUFFICES ASSUME MarketInit PROVE MarketTypes
  OBVIOUS
<1>1. home \in Ports /\ DOMAIN table = {}
  BY DEF MarketInit, None
<1>2. Unrolled \in PassageRolls /\ <<>> \in Seq(1..6)
  BY DEF PassageRolls
<1>3. ASSUME NEW c \in Passengers PROVE dice[c] \in [roll : PassageRolls, counts : Seq(1..6)]
  <2>1. dice[c] = [roll |-> Unrolled, counts |-> <<>>]
    BY DEF MarketInit, UnrolledDice
  <2> QED BY <1>2, <2>1
<1>4. ASSUME NEW c \in Cargo PROVE dice[c] \in [roll : PassageRolls, check : PassageRolls, sizes : Seq(1..6)]
  <2>1. dice[c] = [roll |-> Unrolled, check |-> Unrolled, sizes |-> <<>>]
    BY DEF MarketInit, UnrolledDice, Passengers, Cargo
  <2> QED BY <1>2, <2>1
<1> QED BY <1>1, <1>3, <1>4 DEF MarketTypes, WellRolled

LEMMA Throws6 ==
  ASSUME NEW t \in Throws
  PROVE  t.three \in GoodsRolls /\ t.two \in PassageRolls /\ t.one \in 1..6
BY MarketAssumption DEF GoodsRolls, PassageRolls

LEMMA KeptIn == ASSUME NEW S, NEW roll \in S, NEW thrown \in S PROVE Kept(roll, thrown) \in S
BY DEF Kept

\* What a good is offered in: its throws, each of which brought something.
LEMMA EntryInt ==
  ASSUME NEW i \in DOMAIN TradeTable, NEW t \in Throws, NEW n
  PROVE  gen_entry_rng(i, t, n) \in Int
<1>1. PICK e, d, k, m : /\ e = TradeTable[i].times /\ d = TradeTable[i].dice /\ k = t.one
                        /\ m = IF n <= 3 THEN -3 ELSE IF n >= 9 THEN 3 ELSE 0
  OBVIOUS
<1>2. e \in Int /\ d \in Int /\ k \in Int
  BY <1>1, TableAssumption, Throws6
<1>3. m \in Int
  <2>1. -3 \in Int /\ 3 \in Int /\ 0 \in Int
    OBVIOUS
  <2> QED BY <1>1, <2>1, OneOfThree, Zenon
<1>4. gen_entry_rng(i, t, n) = e * (d * k + m)
  BY <1>1 DEF gen_entry_rng
<1>5. d * k \in Int
  BY <1>2
<1>6. PICK x : x = d * k + m
  OBVIOUS
<1>7. x \in Int
  BY <1>3, <1>5, <1>6
<1> QED BY <1>2, <1>4, <1>6, <1>7

LEMMA TimesPositive == ASSUME NEW a \in Int, NEW b \in Int, a > 0, b > 0 PROVE a * b \in Nat \ {0}
OBVIOUS

LEMMA OffersTyped ==
  ASSUME NEW w, NEW illegal, NEW t \in Throws, NEW picks \in Draws(w, illegal)
  PROVE  LET goods == for_world(w, illegal, t, picks)
         IN  DOMAIN goods \subseteq DOMAIN TradeTable /\ \A i \in DOMAIN goods : goods[i] \in Shelf
<1> DEFINE classes == uwp_to_trade_classes(w)
           times(i) == (IF Available(i, classes, illegal) THEN 1 ELSE 0) + (IF i \in DOMAIN picks THEN picks[i] ELSE 0)
           brings(i) == gen_entry_rng(i, t, w.population)
           S == {j \in DOMAIN TradeTable : times(j) > 0 /\ brings(j) > 0}
<1>1. for_world(w, illegal, t, picks) =
        [i \in S |-> [quantity |-> times(i) * brings(i), buyRoll |-> Unrolled, sellRoll |-> Unrolled]]
  BY DEF for_world
<1>2. \A i \in DOMAIN picks : picks[i] \in Int
  <2>1. picks \in [{i \in Picks : illegal \/ i < 60} -> 0..w.population]
    BY Zenon DEF Draws
  <2>2. 0..w.population \subseteq Int
    OBVIOUS
  <2> QED BY <2>1, <2>2
<1>3. \A i : times(i) \in Int
  <2>1. ASSUME NEW i PROVE times(i) \in Int
    <3>1. PICK x, y : /\ x = IF Available(i, classes, illegal) THEN 1 ELSE 0
                      /\ y = IF i \in DOMAIN picks THEN picks[i] ELSE 0
      OBVIOUS
    <3>2. x \in Int /\ y \in Int
      BY <1>2, <3>1
    <3> HIDE DEF classes
    <3> QED BY <3>1, <3>2
  <2> QED BY <2>1
<1>4. \A i \in DOMAIN TradeTable : brings(i) \in Int
  BY EntryInt
<1> HIDE DEF times, brings
<1>5. ASSUME NEW i \in S PROVE times(i) * brings(i) \in Nat \ {0}
  <2>1. times(i) \in Int /\ brings(i) \in Int /\ times(i) > 0 /\ brings(i) > 0
    BY <1>3, <1>4
  <2> QED BY <2>1, TimesPositive
<1>6. Unrolled \in GoodsRolls
  BY DEF GoodsRolls
<1>7. S \subseteq DOMAIN TradeTable
  OBVIOUS
<1> HIDE DEF S
<1>8. ASSUME NEW i \in S
      PROVE  [quantity |-> times(i) * brings(i), buyRoll |-> Unrolled, sellRoll |-> Unrolled] \in Shelf
  BY <1>5, <1>6 DEF Shelf
<1> QED BY <1>1, <1>7, <1>8

LEMMA ForWorldTyped == ASSUME MarketTypes, NEW w \in Ports, ForWorld(w) PROVE MarketTypes'
<1>1. PICK illegal \in BOOLEAN, t \in Throws : \E picks \in Draws(w, illegal) : table' = for_world(w, illegal, t, picks)
  BY DEF ForWorld
<1>2. DOMAIN table' \subseteq DOMAIN TradeTable /\ \A i \in DOMAIN table' : table'[i] \in Shelf
  BY <1>1, OffersTyped
<1> QED BY <1>2 DEF ForWorld, MarketTypes

LEMMA PriceToBuyTyped == ASSUME MarketTypes, NEW skill \in Skills, PriceToBuy(skill) PROVE MarketTypes'
<1>1. PICK t \in Throws : table' = [i \in DOMAIN table |-> [table[i] EXCEPT !.buyRoll = Kept(@, t.three)]]
  BY DEF PriceToBuy
<1>2. ASSUME NEW i \in DOMAIN table PROVE table'[i] \in Shelf
  <2>1. PICK g, r : g = table[i] /\ r = Kept(g.buyRoll, t.three)
    OBVIOUS
  <2>2. g \in Shelf /\ r \in GoodsRolls
    <3>1. g \in Shelf
      BY <2>1 DEF MarketTypes
    <3>2. g.buyRoll \in GoodsRolls /\ t.three \in GoodsRolls
      BY <3>1, Throws6 DEF Shelf
    <3> QED BY <2>1, <3>1, <3>2, KeptIn
  <2>3. table'[i] = [g EXCEPT !.buyRoll = r]
    BY <1>1, <2>1, <2>2 DEF Shelf
  <2> QED BY <2>2, <2>3 DEF Shelf
<1>3. DOMAIN table' = DOMAIN table
  BY <1>1
<1> QED BY <1>2, <1>3 DEF PriceToBuy, MarketTypes

LEMMA PriceToSellTyped ==
  ASSUME MarketTypes, NEW w \in Ports, NEW skill \in Skills, PriceToSell(w, skill) PROVE MarketTypes'
<1>1. PICK t \in Throws : table' = [i \in DOMAIN table |-> [table[i] EXCEPT !.sellRoll = Kept(@, t.three)]]
  BY DEF PriceToSell
<1>2. ASSUME NEW i \in DOMAIN table PROVE table'[i] \in Shelf
  <2>1. PICK g, r : g = table[i] /\ r = Kept(g.sellRoll, t.three)
    OBVIOUS
  <2>2. g \in Shelf /\ r \in GoodsRolls
    <3>1. g \in Shelf
      BY <2>1 DEF MarketTypes
    <3>2. g.sellRoll \in GoodsRolls /\ t.three \in GoodsRolls
      BY <3>1, Throws6 DEF Shelf
    <3> QED BY <2>1, <3>1, <3>2, KeptIn
  <2>3. table'[i] = [g EXCEPT !.sellRoll = r]
    BY <1>1, <2>1, <2>2 DEF Shelf
  <2> QED BY <2>2, <2>3 DEF Shelf
<1>3. DOMAIN table' = DOMAIN table
  BY <1>1
<1> QED BY <1>2, <1>3 DEF PriceToSell, MarketTypes

LEMMA ResetGoodsTyped == ASSUME MarketTypes, ResetGoods PROVE MarketTypes'
<1>1. table' = [i \in DOMAIN table |-> [table[i] EXCEPT !.buyRoll = Unrolled, !.sellRoll = Unrolled]]
  BY DEF ResetGoods
<1>2. ASSUME NEW i \in DOMAIN table PROVE table'[i] \in Shelf
  <2>1. PICK g : g = table[i]
    OBVIOUS
  <2>2. g \in Shelf /\ Unrolled \in GoodsRolls
    BY <2>1 DEF MarketTypes, GoodsRolls
  <2>3. table'[i] = [g EXCEPT !.buyRoll = Unrolled, !.sellRoll = Unrolled]
    BY <1>1, <2>1
  <2> QED BY <2>2, <2>3 DEF Shelf
<1>3. DOMAIN table' = DOMAIN table
  BY <1>1
<1> QED BY <1>2, <1>3 DEF ResetGoods, MarketTypes

LEMMA ResetPassengersTyped == ASSUME MarketTypes, ResetPassengers PROVE MarketTypes'
<1>1. Unrolled \in PassageRolls /\ <<>> \in Seq(1..6)
  BY DEF PassageRolls
<1>2. ASSUME NEW c \in Passengers PROVE dice'[c] \in [roll : PassageRolls, counts : Seq(1..6)]
  <2>1. dice'[c] = [roll |-> Unrolled, counts |-> <<>>]
    BY DEF ResetPassengers, UnrolledDice
  <2> QED BY <1>1, <2>1
<1>3. ASSUME NEW c \in Cargo PROVE dice'[c] \in [roll : PassageRolls, check : PassageRolls, sizes : Seq(1..6)]
  <2>1. PICK s : s = dice[c].sizes
    OBVIOUS
  <2>2. s \in Seq(1..6)
    BY <2>1 DEF MarketTypes, WellRolled
  <2>3. c \notin Passengers
    BY DEF Passengers, Cargo
  <2>4. dice'[c] = [roll |-> Unrolled, check |-> Unrolled, sizes |-> s]
    BY <2>1, <2>3 DEF ResetPassengers, UnrolledDice
  <2> QED BY <1>1, <2>2, <2>4
<1> QED BY <1>2, <1>3 DEF ResetPassengers, MarketTypes, WellRolled

\* Lots are added in sizes that a die shows.
LEMMA LongerTyped ==
  ASSUME NEW s \in Seq(1..6), NEW n \in Int, NEW die \in 1..6
  PROVE  Longer(s, n, die) \in Seq(1..6)
<1>1. PICK k : k = Max({n, Len(s)}) - Len(s)
  OBVIOUS
<1>2. k \in Nat
  BY <1>1, MaxOfTwo
<1>3. PICK e : e = [i \in 1 .. k |-> die]
  OBVIOUS
<1>4. e \in Seq(1..6)
  BY <1>2, <1>3
<1>5. Longer(s, n, die) = s \o e
  BY <1>1, <1>3 DEF Longer
<1> QED BY <1>4, <1>5, ConcatProperties

LEMMA GeneratePassageTyped ==
  ASSUME MarketTypes, NEW w \in Ports, NEW jump \in Jumps, NEW skill \in Skills,
         GeneratePassage(w, jump, skill, skill)
  PROVE  MarketTypes'
<1>1. PICK t, n :
        /\ t \in Throws
        /\ n = [c \in Cargo |-> NumLots(Rolling(t)[c], c, home, w, jump, skill)]
        /\ dice' = Sized(t, n)
        /\ home' = home /\ table' = table
  <2>1. PICK t \in Throws :
          LET n == [c \in Cargo |-> NumLots(Rolling(t)[c], c, home, w, jump, skill)]
          IN  /\ dice' = Sized(t, n)
              /\ Answer(PassageAsked(home, w, jump, skill),
                        Passage(Sized(t, n), n, home, w, jump, skill))
              /\ UNCHANGED <<home, table>>
    BY Zenon DEF GeneratePassage, Sized, Passage, PassageAsked
  <2>2. PICK n : n = [c \in Cargo |-> NumLots(Rolling(t)[c], c, home, w, jump, skill)]
    OBVIOUS
  <2> QED BY <2>1, <2>2
<1>2. jump \in Int /\ skill \in Int
  BY MarketAssumption
<1>3. Passengers \cap Cargo = {}
  BY DEF Passengers, Cargo
<1>4. t.two \in PassageRolls /\ t.one \in 1..6
  BY <1>1, Throws6
<1>5. ASSUME NEW c \in Cargo PROVE dice'[c] \in [roll : PassageRolls, check : PassageRolls, sizes : Seq(1..6)]
  <2>1. PICK d : d = dice[c]
    OBVIOUS
  <2>2. d \in [roll : PassageRolls, check : PassageRolls, sizes : Seq(1..6)]
    BY <2>1 DEF MarketTypes, WellRolled
  <2>3. PICK x, y : x = Kept(d.roll, t.two) /\ y = Kept(d.check, t.two)
    OBVIOUS
  <2>4. x \in PassageRolls /\ y \in PassageRolls
    BY <1>4, <2>2, <2>3, KeptIn
  <2>5. Rolling(t)[c] = [roll |-> x, check |-> y, sizes |-> d.sizes]
    <3>1. Rolling(t)[c] = [d EXCEPT !.roll = Kept(@, t.two), !.check = Kept(@, t.two)]
      BY <1>3, <2>1 DEF Rolling
    <3> QED BY <2>2, <2>3, <3>1
  <2>6. n[c] \in Int
    <3>1. PassageRolls \subseteq Int /\ d.sizes \in Seq(Int)
      <4>1. d.sizes \in Seq(1..6)
        BY <2>2
      <4> QED BY <4>1 DEF PassageRolls, Unrolled
    <3>2. Rolling(t)[c] \in [roll : Int, check : Int, sizes : Seq(Int)]
      BY <2>4, <2>5, <3>1
    <3> QED BY <1>1, <1>2, <3>2, LotsInt
  <2>7. PICK z : z = Longer(d.sizes, n[c], t.one)
    OBVIOUS
  <2>8. z \in Seq(1..6)
    BY <1>4, <2>2, <2>6, <2>7, LongerTyped
  <2>9. dice'[c] = [Rolling(t)[c] EXCEPT !.sizes = Longer(@, n[c], t.one)]
    BY <1>1 DEF Sized
  <2>10. dice'[c] = [roll |-> x, check |-> y, sizes |-> z]
    BY <2>5, <2>7, <2>9
  <2> QED BY <2>4, <2>8, <2>10
<1>6. ASSUME NEW c \in Passengers PROVE dice'[c] \in [roll : PassageRolls, counts : Seq(1..6)]
  <2>1. PICK d, e : d = dice[c] /\ e = [i \in 1..10 |-> t.one]
    OBVIOUS
  <2>2. d \in [roll : PassageRolls, counts : Seq(1..6)] /\ e \in Seq(1..6)
    <3>1. e \in Seq(1..6)
      BY <1>4, <2>1
    <3> QED BY <2>1, <3>1 DEF MarketTypes, WellRolled
  <2>3. PICK x, f : x = Kept(d.roll, t.two) /\ f = IF d.counts = <<>> THEN e ELSE d.counts
    OBVIOUS
  <2>4. x \in PassageRolls
    BY <1>4, <2>2, <2>3, KeptIn
  <2>5. f \in Seq(1..6)
    BY <2>2, <2>3
  <2>6. dice'[c] = [roll |-> x, counts |-> f]
    BY <1>1, <1>3, <2>1, <2>3 DEF Sized, Rolling
  <2> QED BY <2>4, <2>5, <2>6
<1> QED BY <1>1, <1>5, <1>6 DEF MarketTypes, WellRolled

LEMMA MarketTypesKeep == ASSUME MarketTypes, [MarketNext]_marketVars PROVE MarketTypes'
<1>1. CASE UNCHANGED marketVars
  BY <1>1 DEF marketVars, MarketTypes
<1> QED BY <1>1, ForWorldTyped, PriceToBuyTyped, PriceToSellTyped, ResetGoodsTyped, ResetPassengersTyped,
           GeneratePassageTyped DEF MarketNext
-----------------------------------------------------------------------------
(* World maps (WorldMap): seas, cities and rivers.                           *)

Flow == [flow_to : Cells \cup {Nowhere}, drainage : Nat]
Tiers == {"Megacity", "Major", "Minor", "Small"}
CityType == [hex : Cells, tier : Tiers, starport : BOOLEAN]
Terrain == DOMAIN city_weight
Undrawn == pass \in {"parse", "TooShort", "BadDigit"}

\* A flow goes down, and the cells that passed theirs on lie no lower than the
\* ones that have yet to.
FlowInv ==
  samples # <<>> =>
    /\ samples \in [Cells -> Flow]
    /\ \A c \in Cells : samples[c].flow_to # Nowhere =>
         grid.elevation[samples[c].flow_to] < grid.elevation[c] /\ Arc(c, samples[c].flow_to) = 1
    /\ \A c \in Cells \ undrained, d \in undrained : grid.elevation[d] <= grid.elevation[c]
    /\ \A c \in Cells \ undrained : samples[c].flow_to # Nowhere =>
         Drainage(c) <= Drainage(samples[c].flow_to)
    /\ \E c \in Cells : IsLand(c)

MapTypes ==
  /\ drawn \in Requests
  /\ pass \in {"parse", "TooShort", "BadDigit", "cities", "drain", "done"}
  /\ sizes \in Seq(Tiers) /\ Len(sizes) <= MaxCities
  /\ cities \in Seq(CityType) /\ Len(cities) <= Len(sizes)
  /\ undrained \subseteq Cells /\ Len(rivers) <= MaxRivers
  /\ Undrawn => cities = <<>>
  /\ Undrawn \/ pass = "cities" => samples = <<>>
  /\ pass = "drain" => samples # <<>>
  /\ pass # "done" => rivers = <<>>
  /\ ~Undrawn => grid.elevation \in [Cells -> Int] /\ grid.biome \in [Cells -> Terrain]

MapInv == MapTypes /\ FlowInv /\ DrainageKept /\ RiversDrain /\ CitiesStand

LEMMA CellsAre == Cells = 1 .. Count /\ IsFiniteSet(Cells) /\ Nowhere \notin Cells /\ Cells # {}
<1>1. (CHOOSE h \in Heights : TRUE) \in Heights
  BY MapAssumption
<1>2. Count \in Nat \ {0} /\ Heights \subseteq [1 .. Count -> Int]
  BY MapAssumption
<1> HIDE DEF Count
<1>3. Cells = 1 .. Count
  BY <1>1, <1>2 DEF Cells
<1>4. IsFiniteSet(1 .. Count)
  <2>1. 1 \in Int /\ Count \in Int
    BY <1>2
  <2> QED BY <2>1, FS_Interval, Zenon
<1> QED BY <1>2, <1>3, <1>4 DEF Nowhere

LEMMA HeightsAre == Heights \subseteq [Cells -> Int]
BY MapAssumption, CellsAre

LEMMA HighestOf ==
  ASSUME NEW S, IsFiniteSet(S), S # {}, NEW f \in [S -> Int]
  PROVE  \E m \in S : \A x \in S : f[x] <= f[m]
<1> DEFINE T == {n \in Nat : \A s \in SUBSET S : Cardinality(s) = n /\ s # {} =>
                              \E m \in s : \A x \in s : f[x] <= f[m]}
<1>1. \A s \in SUBSET S : IsFiniteSet(s) /\ Cardinality(s) \in Nat
  BY FS_Subset, FS_CardinalityType
<1>2. 0 \in T
  BY <1>1, FS_EmptySet
<1>3. ASSUME NEW n \in T \cap Nat PROVE n + 1 \in T
  <2> SUFFICES ASSUME NEW s \in SUBSET S, Cardinality(s) = n + 1
               PROVE  \E m \in s : \A x \in s : f[x] <= f[m]
    OBVIOUS
  <2>1. PICK y \in s : TRUE
    <3>1. n \in Nat
      BY <1>3
    <3>2. IsFiniteSet(s) /\ Cardinality(s) # 0
      BY <1>1, <3>1
    <3> QED BY <3>2, FS_EmptySet
  <2>2. Cardinality(s \ {y}) = n /\ s \ {y} \in SUBSET S
    <3>1. n \in Nat
      BY <1>3
    <3>2. IsFiniteSet(s) /\ y \in s
      BY <1>1, <2>1
    <3>3. Cardinality(s \ {y}) = Cardinality(s) - 1
      BY <3>2, FS_RemoveElement
    <3> QED BY <3>1, <3>3
  <2>3. CASE s \ {y} = {}
    BY <2>1, <2>3
  <2>4. CASE s \ {y} # {}
    <3>1. PICK m \in s \ {y} : \A x \in s \ {y} : f[x] <= f[m]
      BY <1>3, <2>2, <2>4
    <3> QED BY <3>1, <2>1
  <2> QED BY <2>3, <2>4
<1>4. Nat \subseteq T
  <2> HIDE DEF T
  <2> QED BY <1>2, <1>3, SetInduction
<1>5. PICK m \in S : \A x \in S : f[x] <= f[m]
  BY <1>1, <1>4
<1> QED BY <1>5

\* Of some cells one lies highest, one deepest.
LEMMA TopAndBottom ==
  ASSUME NEW C \in SUBSET Cells, C # {}, NEW h \in [Cells -> Int]
  PROVE  /\ \E c \in C : \A d \in C : h[d] <= h[c]
         /\ \E c \in C : \A d \in C : h[c] <= h[d]
<1>1. IsFiniteSet(C)
  BY CellsAre, FS_Subset
<1> DEFINE up == [c \in C |-> h[c]]
           down == [c \in C |-> 0 - h[c]]
<1>2. ASSUME NEW f \in [C -> Int]
      PROVE  \E c \in C : \A d \in C : f[d] <= f[c]
  BY <1>1, HighestOf
<1>3. up \in [C -> Int] /\ down \in [C -> Int]
  OBVIOUS
<1>4. \E c \in C : \A d \in C : up[d] <= up[c]
  BY <1>2, <1>3
<1>5. \E c \in C : \A d \in C : down[d] <= down[c]
  <2> HIDE DEF down
  <2> QED BY <1>2, <1>3
<1>6. \A c, d \in C : h[c] \in Int /\ h[d] \in Int /\ (down[d] <= down[c] => h[c] <= h[d])
  OBVIOUS
<1>7. \A c, d \in C : up[d] <= up[c] => h[d] <= h[c]
  OBVIOUS
<1> HIDE DEF up, down
<1> QED BY <1>4, <1>5, <1>6, <1>7

LEMMA LeastCell ==
  ASSUME NEW C \in SUBSET Cells, C # {}
  PROVE  Min(C) \in C
<1>1. C \subseteq Nat
  BY CellsAre, MapAssumption
<1> QED BY <1>1, MinOfSet

LEMMA FlowIs ==
  ASSUME NEW c \in Cells, grid.elevation \in [Cells -> Int]
  PROVE  /\ FlowTo(c) \in Cells \cup {Nowhere}
         /\ FlowTo(c) # Nowhere => grid.elevation[FlowTo(c)] < grid.elevation[c] /\ Arc(c, FlowTo(c)) = 1
<1> DEFINE lower == {d \in Cells : Arc(c, d) = 1 /\ grid.elevation[d] < grid.elevation[c]}
           deepest == {d \in lower : \A e \in lower : grid.elevation[d] <= grid.elevation[e]}
<1>1. CASE IsLand(c) /\ lower # {}
  <2>1. deepest # {}
    <3>1. lower \in SUBSET Cells
      OBVIOUS
    <3>2. \E d \in lower : \A e \in lower : grid.elevation[d] <= grid.elevation[e]
      <4> HIDE DEF lower
      <4> QED BY <1>1, <3>1, TopAndBottom
    <3> QED BY <3>2
  <2>2. deepest \in SUBSET Cells
    OBVIOUS
  <2>3. Min(deepest) \in deepest
    <3> HIDE DEF deepest
    <3> QED BY <2>1, <2>2, LeastCell
  <2>4. FlowTo(c) = Min(deepest)
    <3> HIDE DEF deepest
    <3>1. deepest = {d \in lower : \A e \in lower : grid.elevation[d] <= grid.elevation[e]}
      BY DEF deepest
    <3> QED BY <1>1, <3>1 DEF FlowTo
  <2> HIDE DEF deepest
  <2>5. Min(deepest) \in lower
    BY <2>3 DEF deepest
  <2> QED BY <2>4, <2>5
<1>2. CASE ~(IsLand(c) /\ lower # {})
  BY <1>2 DEF FlowTo
<1> QED BY <1>1, <1>2

LEMMA NextDownIs ==
  ASSUME NEW pool \in SUBSET Cells, pool # {}, grid.elevation \in [Cells -> Int]
  PROVE  NextDown(pool) \in pool /\ \A d \in pool : grid.elevation[d] <= grid.elevation[NextDown(pool)]
<1> DEFINE highest == {c \in pool : \A d \in pool : grid.elevation[d] <= grid.elevation[c]}
<1>1. highest # {} /\ highest \in SUBSET Cells
  BY TopAndBottom
<1>2. Min(highest) \in highest
  <2> HIDE DEF highest
  <2> QED BY <1>1, LeastCell
<1> QED BY <1>2 DEF NextDown
-----------------------------------------------------------------------------
LEMMA ArcIs == \A c, d \in Cells : Arc(c, d) \in Int
<1>1. Count \in Int /\ \A c \in Cells : c \in Int
  BY CellsAre, MapAssumption
<1> QED BY <1>1 DEF Arc, Gap

\* Only a hex that is eligible has a weight, and only while no city has it.
LEMMA WeightIs ==
  ASSUME cities \in Seq(CityType), NEW c \in Cells, NEW tier \in Tiers
  PROVE  /\ (\E i \in DOMAIN cities : cities[i].hex = c) => Weight(c, tier) = 0
         /\ EligibleHexes[c] = 0 => Weight(c, tier) = 0
         /\ cities = <<>> => Weight(c, tier) = EligibleHexes[c]
<1> DEFINE Repelled(w, city) ==
             IF tier \in Large /\ city.tier \in Large /\ Arc(c, city.hex) < Exclusion
             THEN (w * Arc(c, city.hex) * Arc(c, city.hex)) \div (Exclusion * Exclusion) ELSE w
           e == EligibleHexes[c]
           S == DOMAIN cities
           Fold(h) == h = [s \in SUBSET DOMAIN cities |->
                             IF s = {} THEN e
                             ELSE LET x == Max(s) IN Repelled(h[s \ {x}], cities[x])]
           iter == CHOOSE h : Fold(h)
           folded == FoldLeft(LAMBDA w, city : Repelled(w, city), e, cities)
<1>1. Weight(c, tier) = IF \E i \in DOMAIN cities : cities[i].hex = c THEN 0 ELSE folded
  BY DEF Weight
<1>2. folded = iter[S]
  BY DEF FoldLeft, MapThenFoldSet
<1>3. PICK n \in Nat : S = 1 .. n
  OBVIOUS
<1>4. IsFiniteSet(S)
  <2>1. 1 \in Int /\ n \in Int
    BY <1>3
  <2> QED BY <1>3, <2>1, FS_Interval, Zenon
<1>5. ASSUME e = 0 PROVE folded = 0
  <2> DEFINE z == [s \in SUBSET S |-> 0]
  <2>1. \A x \in S : Repelled(0, cities[x]) = 0
    <3> SUFFICES ASSUME NEW x \in S PROVE Repelled(0, cities[x]) = 0
      OBVIOUS
    <3>1. cities[x].hex \in Cells
      <4>1. cities[x] \in CityType
        BY ElementOfSeq
      <4> QED BY <4>1 DEF CityType
    <3>2. Arc(c, cities[x].hex) \in Int
      BY <3>1, ArcIs
    <3>3. \A a \in Int : (0 * a * a) \div (Exclusion * Exclusion) = 0
      BY DEF Exclusion
    <3> QED BY <3>2, <3>3
  <2> HIDE DEF Repelled
  <2>2. \A s \in SUBSET S : s # {} => Max(s) \in s /\ Max(s) \in S
    <3> HIDE DEF S
    <3> QED BY <1>3, LastIndex
  <2>3. z = [s \in SUBSET DOMAIN cities |->
               IF s = {} THEN e ELSE LET x == Max(s) IN Repelled(z[s \ {x}], cities[x])]
    <3>1. ASSUME NEW s \in SUBSET S
          PROVE  0 = IF s = {} THEN e ELSE LET x == Max(s) IN Repelled(z[s \ {x}], cities[x])
      <4>1. s # {} => z[s \ {Max(s)}] = 0
        OBVIOUS
      <4> QED BY <1>5, <2>1, <2>2, <4>1
    <3> QED BY <3>1
  <2>4. Fold(iter)
    <3>1. Fold(z)
      BY <2>3
    <3> HIDE DEF Fold, z
    <3> QED BY <3>1
  <2> DEFINE A == {0}
             k == [s \in SUBSET S |-> Max(s)]
  <2>5. ASSUME NEW s \in SUBSET S
        PROVE  iter[s] = IF s = {} THEN e ELSE Repelled(iter[s \ {Max(s)}], cities[Max(s)])
    BY <2>4
  <2>6. iter[{}] \in A
    BY <1>5, <2>5
  <2>7. ASSUME NEW s \in SUBSET S, s # {}, iter[s \ {k[s]}] \in A PROVE iter[s] \in A
    BY <2>1, <2>2, <2>5, <2>7
  <2>8. Chooses(k, S)
    BY <2>2 DEF Chooses
  <2>9. \A s \in SUBSET S : iter[s] \in A
    <3> HIDE DEF iter, A, k, S
    <3> QED BY <1>4, <2>6, <2>7, <2>8, RecursionKeeps
  <2> HIDE DEF iter
  <2> QED BY <1>2, <2>9
<1>6. ASSUME cities = <<>> PROVE folded = e
  <2> DEFINE z == [s \in {{}} |-> e]
  <2>1. S = {} /\ SUBSET S = {{}}
    BY <1>6
  <2>2. Fold(z)
    BY <2>1
  <2>3. Fold(iter)
    <3> HIDE DEF Fold, z
    <3> QED BY <2>2
  <2> QED BY <1>2, <2>1, <2>3
<1> HIDE DEF folded
<1>7. cities = <<>> => ~\E i \in DOMAIN cities : cities[i].hex = c
  OBVIOUS
<1> QED BY <1>1, <1>5, <1>6, <1>7

LEMMA EligibleAre ==
  ASSUME grid.biome \in [Cells -> Terrain], NEW c \in Cells, EligibleHexes[c] > 0,
         grid.biome[c] \in {"ShallowOcean", "DeepOcean"}
  PROVE  \A d \in Cells : city_weight[grid.biome[d]] = 0
<1>1. city_weight[grid.biome[c]] = 0
  BY DEF city_weight
<1>2. \A t \in Terrain : city_weight[t] \in Nat
  BY DEF city_weight, Terrain
<1>3. ~ \E d \in Cells : city_weight[grid.biome[d]] > 0
  <2> SUFFICES ASSUME \E d \in Cells : city_weight[grid.biome[d]] > 0 PROVE FALSE
    OBVIOUS
  <2>1. EligibleHexes[c] = city_weight[grid.biome[c]]
    BY DEF EligibleHexes
  <2> QED BY <1>1, <2>1
<1> QED BY <1>2, <1>3

LEMMA EligibleType ==
  ASSUME grid.biome \in [Cells -> Terrain], NEW c \in Cells
  PROVE  EligibleHexes[c] \in Nat
<1>1. \A t \in Terrain : city_weight[t] \in Nat
  BY DEF city_weight, Terrain
<1> QED BY <1>1 DEF EligibleHexes

LEMMA ClassifyIs == \A above, temp, humidity : classify(above, temp, humidity) \in Terrain
BY DEF classify, Terrain, city_weight
-----------------------------------------------------------------------------
LEMMA MapStart ==
  ASSUME NEW r \in Requests, MapInit({r})
  PROVE  MapInv
<1>1. drawn \in Requests /\ pass = "parse" /\ cities = <<>> /\ sizes = <<>> /\ samples = <<>> /\ rivers = <<>>
      /\ undrained = {}
  BY DEF MapInit
<1>2. MapTypes
  BY <1>1, MapAssumption DEF MapTypes, Undrawn
<1> QED BY <1>1, <1>2 DEF MapInv, FlowInv, DrainageKept, RiversDrain, CitiesStand

\* What a step that draws no cities and moves no water keeps.
LEMMA FlowStays ==
  ASSUME MapInv, UNCHANGED <<samples, undrained>>, samples # <<>> => UNCHANGED <<grid, level>>
  PROVE  FlowInv' /\ DrainageKept'
<1>1. FlowInv'
  BY DEF MapInv, FlowInv, IsLand, Drainage
<1>2. DrainageKept'
  BY DEF MapInv, DrainageKept, Drainage
<1> QED BY <1>1, <1>2

LEMMA SizesAre ==
  ASSUME NEW p, NEW u
  PROVE  city_sizes_for_pop(p, u) \in Seq(Tiers) /\ Len(city_sizes_for_pop(p, u)) <= MaxCities
<1> DEFINE S == {1} \cup {m \in 2 .. MaxCities : CitySize(u, m, m) >= 1}
           n == Max(S)
           Tier(size) == CASE size >= 20 -> "Megacity"
                           [] size \in 2 .. 19 -> "Major"
                           [] size = 1 -> "Minor"
                           [] OTHER -> "Small"
           listed == [k \in 1 .. n |-> Tier(CitySize(u, n, k))]
<1>1. MaxCities \in Nat \ {0}
  BY MapAssumption
<1>2. n \in S
  <2>1. S \in SUBSET (1 .. MaxCities) /\ S # {}
    BY <1>1
  <2> HIDE DEF S
  <2> QED BY <1>1, <2>1, LastIndex
<1>3. n \in Nat /\ n <= MaxCities
  BY <1>1, <1>2
<1>4. \A size : Tier(size) \in Tiers
  BY DEF Tiers
<1>5. city_sizes_for_pop(p, u) = IF p = 0 THEN <<>> ELSE listed
  BY DEF city_sizes_for_pop
<1> HIDE DEF n, Tier
<1>6. listed \in Seq(Tiers) /\ Len(listed) = n
  BY <1>3, <1>4
<1> HIDE DEF listed
<1>7. <<>> \in Seq(Tiers) /\ Len(<<>>) = 0 /\ 0 <= MaxCities
  BY <1>1
<1> QED BY <1>3, <1>5, <1>6, <1>7

LEMMA GenerateMapKeeps == ASSUME MapInv, GenerateMap PROVE MapInv'
<1>1. pass = "parse" /\ UNCHANGED <<drawn, cities, samples, undrained, rivers>>
  BY DEF GenerateMap
<1>2. cities = <<>> /\ samples = <<>> /\ undrained \subseteq Cells /\ Len(rivers) <= MaxRivers
  BY <1>1 DEF MapInv, MapTypes, Undrawn
<1>3. MapTypes'
  <2>1. CASE Parsed(drawn) # "Ok"
    <3>1. pass' \in {"TooShort", "BadDigit"} /\ UNCHANGED <<grid, level, sizes>>
      BY <2>1 DEF GenerateMap, Parsed
    <3> QED BY <1>1, <1>2, <3>1 DEF MapInv, MapTypes, Undrawn
  <2>2. CASE Parsed(drawn) = "Ok"
    <3>1. pass' = "cities" /\ \E h \in Heights, air \in Climates :
               \E sea \in compute_sea_level(drawn.hydro, h) :
                 /\ level' = sea
                 /\ grid' = [elevation |-> h, biome |-> Biomes(h, sea, air)]
      BY <2>2 DEF GenerateMap
    <3>2. PICK h \in Heights, air \in Climates : \E sea : grid' = [elevation |-> h, biome |-> Biomes(h, sea, air)]
      BY <3>1
    <3>3. h \in [Cells -> Int]
      BY HeightsAre
    <3>4. \A sea : Biomes(h, sea, air) \in [Cells -> Terrain]
      BY ClassifyIs DEF Biomes
    <3>5. grid'.elevation \in [Cells -> Int] /\ grid'.biome \in [Cells -> Terrain]
      BY <3>2, <3>3, <3>4
    <3>6. PICK u : sizes' = city_sizes_for_pop(drawn.people, u)
      BY <2>2 DEF GenerateMap
    <3>7. sizes' \in Seq(Tiers) /\ Len(sizes') <= MaxCities
      BY <3>6, SizesAre
    <3>8. cities' = <<>> /\ <<>> \in Seq(CityType) /\ Len(cities') <= Len(sizes')
      BY <1>1, <1>2, <3>7
    <3> QED BY <1>1, <1>2, <3>1, <3>5, <3>7, <3>8 DEF MapInv, MapTypes, Undrawn
  <2> QED BY <2>1, <2>2
<1>4. FlowInv' /\ DrainageKept'
  BY <1>1, <1>2, FlowStays
<1>5. CitiesStand' /\ RiversDrain'
  <2>0. rivers' = <<>>
    BY <1>1 DEF MapInv, MapTypes
  <2>1. pass' \notin {"drain", "done"}
    BY DEF GenerateMap, Parsed
  <2> QED BY <1>1, <1>2, <2>0, <2>1 DEF CitiesStand, RiversDrain
<1> QED BY <1>3, <1>4, <1>5 DEF MapInv

LEMMA PlaceCityKeeps == ASSUME MapInv, PlaceCity PROVE MapInv'
<1> DEFINE rank == Len(cities) + 1
<1>1. pass = "cities" /\ rank <= Len(sizes) /\ UNCHANGED <<drawn, pass, grid, level, sizes, samples, undrained, rivers>>
  BY DEF PlaceCity
<1>2. PICK c \in Cells : /\ Weight(c, sizes[rank]) > 0
                         /\ cities' = Append(cities, [hex |-> c, tier |-> sizes[rank],
                                                     starport |-> rank = 1 /\ drawn.port \notin {"X", "Y"}])
  BY DEF PlaceCity
<1>3. cities \in Seq(CityType) /\ sizes \in Seq(Tiers) /\ grid.biome \in [Cells -> Terrain]
  BY <1>1 DEF MapInv, MapTypes, Undrawn
<1>4. rank \in DOMAIN sizes /\ sizes[rank] \in Tiers
  BY <1>1, <1>3
<1>5. PICK city : city = [hex |-> c, tier |-> sizes[rank], starport |-> rank = 1 /\ drawn.port \notin {"X", "Y"}]
  OBVIOUS
<1>6. city \in CityType
  BY <1>4, <1>5 DEF CityType
<1>7. /\ cities' \in Seq(CityType) /\ Len(cities') = rank /\ cities'[rank] = city /\ DOMAIN cities' = 1 .. rank
      /\ \A i \in DOMAIN cities : cities'[i] = cities[i]
      /\ DOMAIN cities = 1 .. rank - 1 /\ rank \in Nat
  BY <1>2, <1>3, <1>5, <1>6
<1> HIDE DEF rank
<1>8. MapTypes'
  BY <1>1, <1>7 DEF MapInv, MapTypes, Undrawn
<1>9. FlowInv' /\ DrainageKept'
  BY <1>1, FlowStays
<1>10. (\A i \in DOMAIN cities : cities[i].hex # c) /\ EligibleHexes[c] > 0
  <2>1. EligibleHexes[c] \in Nat
    BY <1>3, EligibleType
  <2> QED BY <1>2, <1>3, <1>4, <2>1, WeightIs
<1>11. CitiesStand'
  <2> USE DEF MapInv, CitiesStand
  <2>1. \A i, j \in DOMAIN cities' : i # j => cities'[i].hex # cities'[j].hex
    BY <1>5, <1>7, <1>10
  <2>2. ASSUME NEW i \in DOMAIN cities'
        PROVE  cities'[i].starport <=> (i = 1 /\ drawn'.port \notin {"X", "Y"})
    <3>1. CASE i = rank
      <4>1. cities'[i] = city /\ drawn' = drawn
        BY <1>1, <1>7, <3>1
      <4>2. city.starport <=> (rank = 1 /\ drawn.port \notin {"X", "Y"})
        BY <1>5, Zenon
      <4> QED BY <3>1, <4>1, <4>2, Zenon
    <3>2. CASE i # rank
      <4>1. i \in DOMAIN cities /\ cities'[i] = cities[i]
        BY <1>7, <3>2
      <4>2. cities[i].starport <=> (i = 1 /\ drawn.port \notin {"X", "Y"})
        BY <4>1
      <4> QED BY <1>1, <4>1, <4>2
    <3> QED BY <3>1, <3>2
  <2>3. ASSUME NEW i \in DOMAIN cities', grid'.biome[cities'[i].hex] \in {"ShallowOcean", "DeepOcean"}
        PROVE  \A d \in Cells : city_weight[grid'.biome[d]] = 0
    <3>1. grid' = grid
      BY <1>1
    <3>2. CASE i = rank
      BY <1>3, <1>5, <1>7, <1>10, <2>3, <3>1, <3>2, EligibleAre
    <3>3. CASE i # rank
      <4>1. i \in DOMAIN cities /\ cities'[i] = cities[i]
        BY <1>7, <3>3
      <4> QED BY <2>3, <3>1, <4>1
    <3> QED BY <3>2, <3>3
  <2>4. pass' = "cities"
    BY <1>1
  <2> QED BY <2>1, <2>2, <2>3, <2>4
<1>12. RiversDrain'
  BY <1>1 DEF MapInv, MapTypes, RiversDrain
<1> QED BY <1>8, <1>9, <1>11, <1>12 DEF MapInv

LEMMA ShoreStands == ASSUME rivers' = <<>> PROVE RiversDrain'
BY DEF RiversDrain

\* Cities once placed stand; and where no city is placed, none can be.
LEMMA CitiesGoOn ==
  ASSUME MapInv, UNCHANGED <<drawn, grid, cities, sizes>>,
         \/ pass' = pass
         \/ Len(cities) + 1 <= Len(sizes) => \A c \in Cells : Weight(c, sizes[Len(cities) + 1]) = 0,
         ~Undrawn
  PROVE  CitiesStand'
<1>1. cities \in Seq(CityType) /\ sizes \in Seq(Tiers)
  BY DEF MapInv, MapTypes
<1>2. CitiesStand
  BY DEF MapInv
<1>3. ASSUME pass' \in {"drain", "done"}, cities = <<>>, sizes # <<>>
      PROVE  \A c \in Cells : EligibleHexes[c] = 0
  <2>1. CASE pass' = pass
    BY <1>2, <1>3, <2>1 DEF CitiesStand
  <2>2. CASE Len(cities) + 1 <= Len(sizes) => \A c \in Cells : Weight(c, sizes[Len(cities) + 1]) = 0
    <3>1. Len(cities) + 1 = 1 /\ 1 <= Len(sizes) /\ sizes[1] \in Tiers
      BY <1>1, <1>3
    <3>2. \A c \in Cells : Weight(c, sizes[1]) = 0
      BY <2>2, <3>1
    <3> QED BY <1>1, <1>3, <3>1, <3>2, WeightIs
  <2> QED BY <2>1, <2>2
<1>4. EligibleHexes' = EligibleHexes
  BY DEF EligibleHexes
<1> QED BY <1>2, <1>3, <1>4 DEF CitiesStand

LEMMA ComputeFlowKeeps == ASSUME MapInv, ComputeFlow PROVE MapInv'
<1> DEFINE rank == Len(cities) + 1
           land == {c \in Cells : IsLand(c)}
<1>1. pass = "cities" /\ UNCHANGED <<drawn, grid, level, cities, sizes, rivers>>
  BY DEF ComputeFlow
<1>2. rank <= Len(sizes) => \A c \in Cells : Weight(c, sizes[rank]) = 0
  BY DEF ComputeFlow
<1>3. cities \in Seq(CityType) /\ sizes \in Seq(Tiers) /\ samples = <<>> /\ rivers = <<>>
      /\ grid.elevation \in [Cells -> Int] /\ grid.biome \in [Cells -> Terrain]
  BY <1>1 DEF MapInv, MapTypes, Undrawn
<1>0. ~Undrawn
  BY <1>1 DEF Undrawn
<1>4. CASE pass' = "done" /\ UNCHANGED <<samples, undrained>>
  <2>1. MapTypes'
    BY <1>1, <1>3, <1>4 DEF MapInv, MapTypes, Undrawn
  <2>2. FlowInv' /\ DrainageKept'
    BY <1>1, <1>4, FlowStays
  <2> QED BY <1>0, <1>1, <1>2, <1>3, <1>4, <2>1, <2>2, ShoreStands, CitiesGoOn DEF MapInv
<1>5. CASE /\ ~(20 * Cardinality(land) < Count) /\ pass' = "drain" /\ undrained' = Cells
           /\ samples' = [c \in Cells |-> [flow_to |-> FlowTo(c), drainage |-> 0]]
  <2>1. samples' \in [Cells -> Flow]
    BY <1>3, <1>5, FlowIs DEF Flow
  <2>2. samples' # <<>>
    BY <1>5, CellsAre
  <2>3. land # {}
    <3>1. Cardinality({}) = 0
      BY FS_EmptySet
    <3>2. PICK n : n = Count
      OBVIOUS
    <3>3. n \in Nat \ {0} /\ ~(20 * Cardinality(land) < n)
      BY <1>5, <3>2, MapAssumption
    <3> HIDE DEF land
    <3> QED BY <3>1, <3>3
  <2>4. MapTypes'
    BY <1>1, <1>3, <1>5, <2>2 DEF MapInv, MapTypes, Undrawn
  <2>5. FlowInv'
    <3>1. \A c \in Cells : samples'[c].flow_to = FlowTo(c)
      BY <1>5
    <3>2. \E c \in Cells : IsLand(c)'
      BY <1>1, <2>3 DEF IsLand
    <3> QED BY <1>1, <1>3, <1>5, <2>1, <3>1, <3>2, FlowIs DEF FlowInv
  <2>6. DrainageKept'
    <3> DEFINE held == {c \in Cells : c \in undrained' \/ samples'[c].flow_to = Nowhere}
               f == [c \in Cells |-> Drainage(c)']
    <3>1. \A c \in Cells : f[c] = 0
      BY <1>5 DEF Drainage
    <3>2. held = Cells /\ Cells \ undrained' = {}
      BY <1>5
    <3>3. SumOver(f, held) = 0
      <4> HIDE DEF f, held
      <4> QED BY <3>1, <3>2, CellsAre, SumZero
    <3>4. Cardinality(Cells \ undrained') = 0
      BY <3>2, FS_EmptySet
    <3> QED BY <3>3, <3>4 DEF DrainageKept
  <2> QED BY <1>0, <1>1, <1>2, <1>3, <1>5, <2>4, <2>5, <2>6, ShoreStands, CitiesGoOn DEF MapInv
<1> HIDE DEF rank, land
<1>6. \/ pass' = "done" /\ UNCHANGED <<samples, undrained>>
      \/ /\ ~(20 * Cardinality(land) < Count) /\ pass' = "drain" /\ undrained' = Cells
         /\ samples' = [c \in Cells |-> [flow_to |-> FlowTo(c), drainage |-> 0]]
  BY DEF ComputeFlow, land
<1> QED BY <1>4, <1>5, <1>6

LEMMA AccumulateDrainageKeeps == ASSUME MapInv, AccumulateDrainage PROVE MapInv'
<1>1. pass = "drain" /\ undrained # {} /\ UNCHANGED <<drawn, pass, grid, level, cities, sizes, rivers>>
  BY DEF AccumulateDrainage
<1>2. samples # <<>> /\ undrained \in SUBSET Cells /\ grid.elevation \in [Cells -> Int] /\ rivers = <<>>
  BY <1>1 DEF MapInv, MapTypes, Undrawn
<1>3. PICK h : h = grid.elevation
  OBVIOUS
<1>4. h \in [Cells -> Int]
  BY <1>2, <1>3
<1>5. /\ samples \in [Cells -> Flow]
      /\ \A c \in Cells : samples[c].flow_to # Nowhere => h[samples[c].flow_to] < h[c] /\ Arc(c, samples[c].flow_to) = 1
      /\ \A c \in Cells \ undrained, d \in undrained : h[d] <= h[c]
      /\ \A c \in Cells \ undrained : samples[c].flow_to # Nowhere => Drainage(c) <= Drainage(samples[c].flow_to)
      /\ \E c \in Cells : IsLand(c)
  BY <1>2, <1>3 DEF MapInv, FlowInv
<1>6. PICK c : c = NextDown(undrained)
  OBVIOUS
<1>7. c \in undrained /\ c \in Cells /\ \A d \in undrained : h[d] <= h[c]
  BY <1>1, <1>2, <1>3, <1>6, NextDownIs
<1>8. PICK to, own : to = samples[c].flow_to /\ own = samples[c].drainage + 1
  OBVIOUS
<1>9. /\ undrained' = undrained \ {c}
      /\ samples' = [d \in Cells |->
              CASE d = c -> [samples[c] EXCEPT !.drainage = own]
                [] d = to -> [samples[to] EXCEPT !.drainage = @ + own]
                [] OTHER -> samples[d]]
  BY <1>6, <1>8 DEF AccumulateDrainage
<1>10. \A d \in Cells : samples[d] \in Flow /\ samples[d].drainage \in Nat /\ samples[d].flow_to \in Cells \cup {Nowhere}
  BY <1>5 DEF Flow
<1>11. own \in Nat /\ to \in Cells \cup {Nowhere} /\ own = Drainage(c) + 1
  BY <1>7, <1>8, <1>10 DEF Drainage
<1>12. to # Nowhere => to \in Cells /\ to # c /\ h[to] < h[c] /\ to \in undrained
  <2> SUFFICES ASSUME to # Nowhere PROVE to \in Cells /\ to # c /\ h[to] < h[c] /\ to \in undrained
    OBVIOUS
  <2>1. to \in Cells /\ h[to] < h[c]
    BY <1>5, <1>7, <1>8, <1>11
  <2>2. h[to] \in Int /\ h[c] \in Int
    BY <1>4, <1>7, <2>1
  <2> QED BY <1>5, <1>7, <2>1, <2>2
<1>13. ASSUME NEW d \in Cells
       PROVE  /\ samples'[d] \in Flow /\ samples'[d].flow_to = samples[d].flow_to
              /\ Drainage(d)' = IF d = c THEN own ELSE IF d = to THEN Drainage(d) + own ELSE Drainage(d)
              /\ Drainage(d) \in Nat
  <2>1. samples[d] = [flow_to |-> samples[d].flow_to, drainage |-> samples[d].drainage]
    BY <1>10 DEF Flow
  <2>2. samples'[d] = CASE d = c -> [samples[d] EXCEPT !.drainage = own]
                        [] d = to -> [samples[d] EXCEPT !.drainage = samples[d].drainage + own]
                        [] OTHER -> samples[d]
    BY <1>9
  <2>3. CASE d = c
    <3>1. samples'[c] = [samples[c] EXCEPT !.drainage = own]
      <4>1. c # to
        BY <1>7, <1>12, CellsAre
      <4> QED BY <1>7, <1>9, <4>1
    <3>2. samples'[d] = [flow_to |-> samples[d].flow_to, drainage |-> own]
      BY <2>1, <2>3, <3>1
    <3> QED BY <1>10, <1>11, <2>3, <3>2 DEF Flow, Drainage
  <2>4. CASE d # c /\ d = to
    BY <1>10, <1>11, <2>1, <2>2, <2>4 DEF Flow, Drainage
  <2>5. CASE d # c /\ d # to
    BY <1>10, <1>11, <2>1, <2>2, <2>5 DEF Flow, Drainage
  <2> QED BY <2>3, <2>4, <2>5
<1>14. samples' \in [Cells -> Flow] /\ samples' # <<>>
  BY <1>9, <1>13, CellsAre
<1>15. MapTypes'
  BY <1>1, <1>2, <1>9, <1>14 DEF MapInv, MapTypes, Undrawn
<1>16. FlowInv'
  <2>1. \A d \in Cells : samples'[d].flow_to # Nowhere =>
          h[samples'[d].flow_to] < h[d] /\ Arc(d, samples'[d].flow_to) = 1
    BY <1>5, <1>13
  <2>2. ASSUME NEW a \in Cells \ undrained', NEW d \in undrained'
        PROVE  h[d] <= h[a]
    BY <1>5, <1>7, <1>9
  <2>3. ASSUME NEW a \in Cells \ undrained', samples'[a].flow_to # Nowhere
        PROVE  Drainage(a)' <= samples'[samples'[a].flow_to].drainage
    <3>1. PICK b : b = samples[a].flow_to
      OBVIOUS
    <3>2. a \in Cells /\ b \in Cells /\ b = samples'[a].flow_to /\ h[b] < h[a]
      BY <1>5, <1>10, <1>13, <2>3, <3>1
    <3>3. Drainage(a) \in Nat /\ Drainage(b) \in Nat
      BY <1>13, <3>2
    <3> SUFFICES Drainage(a)' <= Drainage(b)'
      BY <3>2 DEF Drainage
    <3>4. CASE a = c
      <4>1. b = to /\ b # c
        BY <1>8, <1>12, <2>3, <3>1, <3>2, <3>4
      <4>2. Drainage(a)' = own /\ Drainage(b)' = Drainage(b) + own
        BY <1>13, <3>2, <3>4, <4>1
      <4> QED BY <1>11, <3>2, <3>3, <4>2
    <3>5. CASE a # c
      <4>1. a \notin undrained
        BY <1>9, <3>5
      <4>2. a # to
        BY <1>11, <1>12, <3>2, <4>1, CellsAre
      <4>3. Drainage(a) <= Drainage(b) /\ Drainage(a)' = Drainage(a)
        BY <1>5, <1>13, <2>3, <3>1, <3>2, <3>5, <4>1, <4>2, CellsAre
      <4>4. Drainage(b)' \in Nat /\ Drainage(b)' >= Drainage(b)
        BY <1>11, <1>13, <3>2, <3>3
      <4> QED BY <3>2, <3>3, <4>3, <4>4
    <3> QED BY <3>4, <3>5
  <2>4. \E d \in Cells : IsLand(d)'
    BY <1>1, <1>5 DEF IsLand
  <2>5. \A a \in Cells \ undrained' : samples'[a].flow_to # Nowhere =>
                Drainage(a)' <= Drainage(samples[a].flow_to)'
    BY <2>3 DEF Drainage
  <2> QED BY <1>1, <1>3, <1>14, <2>1, <2>2, <2>4, <2>5 DEF FlowInv
<1>17. DrainageKept'
  <2> DEFINE f == [d \in Cells |-> Drainage(d)]
             g == [d \in Cells |-> Drainage(d)']
             held == {d \in Cells : d \in undrained \/ samples[d].flow_to = Nowhere}
             heldNext == {d \in Cells : d \in undrained' \/ samples'[d].flow_to = Nowhere}
             rest == IF to = Nowhere THEN held \ {c} ELSE (held \ {c}) \ {to}
  <2>1. SumOver(f, held) = Cardinality(Cells \ undrained)
    BY <1>2 DEF MapInv, DrainageKept
  <2>2. \A d \in Cells : f[d] \in Nat /\ g[d] \in Nat
    BY <1>11, <1>13
  <2>3. IsFiniteSet(held) /\ IsFiniteSet(heldNext) /\ IsFiniteSet(rest) /\ IsFiniteSet(held \ {c})
        /\ IsFiniteSet(Cells \ undrained)
    <3>1. held \in SUBSET Cells /\ heldNext \in SUBSET Cells /\ rest \in SUBSET Cells
          /\ held \ {c} \in SUBSET Cells /\ Cells \ undrained \in SUBSET Cells
      OBVIOUS
    <3> HIDE DEF held, heldNext, rest
    <3> QED BY <3>1, CellsAre, FS_Subset
  <2>4. c \in held /\ rest \subseteq Cells /\ held \subseteq Cells /\ heldNext \subseteq Cells
    BY <1>7
  <2>5. \A d \in rest : g[d] = f[d] /\ d # c /\ d # to
    BY <1>7, <1>13, CellsAre
  <2>6. g[c] = f[c] + 1 /\ (to # Nowhere => g[to] = f[to] + f[c] + 1)
    <3>1. Drainage(c)' = Drainage(c) + 1
      BY <1>7, <1>11, <1>13
    <3>2. to # Nowhere => Drainage(to)' = Drainage(to) + Drainage(c) + 1
      BY <1>7, <1>11, <1>12, <1>13
    <3> QED BY <1>7, <1>12, <3>1, <3>2
  <2>7. to = Nowhere => heldNext = held /\ rest = held \ {c} /\ rest = heldNext \ {c}
    <3> SUFFICES ASSUME to = Nowhere PROVE heldNext = held /\ rest = held \ {c}
      OBVIOUS
    <3>1. \A d \in Cells : samples'[d].flow_to = samples[d].flow_to
      BY <1>13
    <3>2. samples[c].flow_to = Nowhere
      BY <1>8
    <3> QED BY <1>9, <3>1, <3>2
  <2>8. to # Nowhere => /\ heldNext = held \ {c} /\ to \in held \ {c} /\ rest = (held \ {c}) \ {to}
    <3> SUFFICES ASSUME to # Nowhere PROVE heldNext = held \ {c} /\ to \in held \ {c}
      OBVIOUS
    <3>1. \A d \in Cells : samples'[d].flow_to = samples[d].flow_to
      BY <1>13
    <3>2. samples[c].flow_to # Nowhere
      BY <1>8
    <3> QED BY <1>9, <1>12, <3>1, <3>2
  <2> HIDE DEF f, g, held, heldNext, rest
  <2>9. SumOver(g, rest) = SumOver(f, rest) /\ SumOver(f, rest) \in Int
    <3>1. \A d \in rest : f[d] \in Int /\ g[d] = f[d]
      BY <2>2, <2>4, <2>5
    <3> QED BY <2>3, <3>1, SumEqual, SumType
  <2>10. SumOver(f, held) = f[c] + SumOver(f, held \ {c})
    <3>1. \A d \in held : f[d] \in Int
      BY <2>2, <2>4
    <3> QED BY <2>3, <2>4, <3>1, SumRemove
  <2>11. SumOver(g, heldNext) = SumOver(f, held) + 1
    <3>1. CASE to = Nowhere
      <4>1. \A d \in heldNext : g[d] \in Int
        BY <2>2, <2>4
      <4>2. SumOver(g, heldNext) = g[c] + SumOver(g, rest)
        BY <2>3, <2>4, <2>7, <3>1, <4>1, SumRemove
      <4> QED BY <1>7, <2>2, <2>6, <2>7, <2>9, <2>10, <3>1, <4>2
    <3>2. CASE to # Nowhere
      <4>1. \A d \in heldNext : g[d] \in Int
        BY <2>2, <2>4
      <4>2. SumOver(g, heldNext) = g[to] + SumOver(g, rest)
        BY <2>3, <2>8, <3>2, <4>1, SumRemove
      <4>3. \A d \in held \ {c} : f[d] \in Int
        BY <2>2, <2>4
      <4>4. SumOver(f, held \ {c}) = f[to] + SumOver(f, rest)
        BY <2>3, <2>8, <3>2, <4>3, SumRemove
      <4>5. f[to] \in Int /\ f[c] \in Int
        BY <1>7, <1>12, <2>2, <3>2
      <4> QED BY <2>6, <2>9, <2>10, <3>2, <4>2, <4>4, <4>5
    <3> QED BY <3>1, <3>2
  <2>12. Cardinality(Cells \ undrained') = Cardinality(Cells \ undrained) + 1
    <3>1. Cells \ undrained' = (Cells \ undrained) \cup {c} /\ c \notin Cells \ undrained
      BY <1>7, <1>9
    <3> QED BY <2>3, <3>1, FS_AddElement
  <2>13. SumOver(g, heldNext) = Cardinality(Cells \ undrained')
    BY <2>1, <2>11, <2>12
  <2> QED BY <2>13 DEF DrainageKept, g, heldNext
<1>18. RiversDrain' /\ CitiesStand'
  <2>1. ~Undrawn
    BY <1>1 DEF Undrawn
  <2> QED BY <2>1, <1>1, <1>2, ShoreStands, CitiesGoOn
<1> QED BY <1>15, <1>16, <1>17, <1>18 DEF MapInv
-----------------------------------------------------------------------------
\* The water has run off.
Drained ==
  /\ samples \in [Cells -> Flow] /\ grid.elevation \in [Cells -> Int]
  /\ \A c \in Cells : samples[c].flow_to # Nowhere =>
       /\ grid.elevation[samples[c].flow_to] < grid.elevation[c] /\ Arc(c, samples[c].flow_to) = 1
       /\ Drainage(c) <= Drainage(samples[c].flow_to)
  /\ \E c \in Cells : IsLand(c)

LEMMA FlowType ==
  ASSUME Drained, NEW c \in Cells
  PROVE  samples[c].flow_to \in Cells \cup {Nowhere} /\ Drainage(c) \in Nat
BY DEF Drained, Flow, Drainage

LEMMA MouthsThere == ASSUME Drained PROVE Mouths # {} /\ Mouths \in SUBSET Cells /\ IsFiniteSet(Mouths)
<1> DEFINE land == {c \in Cells : IsLand(c)}
<1>1. PICK h : h = grid.elevation
  OBVIOUS
<1>2. land \in SUBSET Cells /\ land # {} /\ h \in [Cells -> Int]
  BY <1>1 DEF Drained
<1>3. PICK c \in land : \A d \in land : h[c] <= h[d]
  <2> HIDE DEF land
  <2> QED BY <1>2, TopAndBottom
<1>4. PICK to : to = samples[c].flow_to
  OBVIOUS
<1>5. to = Nowhere \/ ~IsLand(to)
  <2> SUFFICES ASSUME to # Nowhere, IsLand(to) PROVE FALSE
    OBVIOUS
  <2>1. to \in Cells /\ h[to] < h[c]
    BY <1>1, <1>4, FlowType DEF Drained
  <2>2. h[to] \in Int /\ h[c] \in Int /\ h[c] <= h[to]
    BY <1>2, <1>3, <2>1
  <2> QED BY <2>1, <2>2
<1>6. c \in Mouths
  BY <1>3, <1>4, <1>5 DEF Mouths
<1>7. Mouths \in SUBSET Cells
  BY DEF Mouths
<1> QED BY <1>6, <1>7, CellsAre, FS_Subset

\* A cell's key in an order that goes by a number first: no two cells have one.
LEMMA KeysApart ==
  ASSUME NEW a \in Nat, NEW b \in Nat, NEW c \in Cells, NEW d \in Cells
  PROVE  /\ (Count + 1) * a + c \in Int /\ c - (Count + 1) * a \in Int
         /\ (Count + 1) * a + c = (Count + 1) * b + d => c = d
         /\ c - (Count + 1) * a = d - (Count + 1) * b => c = d
<1>1. PICK w : w = Count + 1
  OBVIOUS
<1>2. w \in Nat /\ c \in 1 .. w - 1 /\ d \in 1 .. w - 1
  <2>1. PICK n : n = Count
    OBVIOUS
  <2>2. n \in Nat /\ c \in 1 .. n /\ d \in 1 .. n /\ w = n + 1
    BY <1>1, <2>1, CellsAre, MapAssumption
  <2> QED BY <2>2
<1>3. w * a \in Nat /\ w * b \in Nat
  BY <1>2
<1>4. (a < b => w * b >= w * a + w) /\ (b < a => w * a >= w * b + w)
  BY <1>2, ProductGap
<1>5. PICK x, y : x = w * a /\ y = w * b
  OBVIOUS
<1>6. x \in Nat /\ y \in Nat /\ (x = y \/ x >= y + w \/ y >= x + w)
  <2>1. CASE a = b
    BY <1>3, <1>5, <2>1
  <2>2. CASE a # b
    BY <1>3, <1>4, <1>5, <2>2
  <2> QED BY <2>1, <2>2
<1>7. /\ x + c \in Int /\ c - x \in Int
      /\ x + c = y + d => c = d
      /\ c - x = d - y => c = d
  BY <1>2, <1>6
<1> QED BY <1>1, <1>5, <1>7

LEMMA ThresholdIs == ASSUME Drained PROVE Threshold \in Nat
<1> DEFINE seq == [c \in Mouths |-> Drainage(c)]
           key == [c \in Mouths |-> (Count + 1) * Drainage(c) + c]
           drains == Listed(seq, key)
<1>1. Mouths # {} /\ Mouths \in SUBSET Cells /\ IsFiniteSet(Mouths)
  BY MouthsThere
<1>2. PICK p : Lists(drains, seq, Mouths, p)
  <2>1. DOMAIN key = Mouths /\ IsFiniteSet(DOMAIN key)
    BY <1>1
  <2>2. \A i \in DOMAIN key : key[i] \in Int
    BY <1>1, FlowType, KeysApart
  <2>3. \A i, j \in DOMAIN key : key[i] = key[j] => i = j
    BY <1>1, FlowType, KeysApart
  <2> HIDE DEF key, seq
  <2> QED BY <2>1, <2>2, <2>3, ListedOnce
<1>3. PICK n : n = Cardinality(Mouths)
  OBVIOUS
<1>4. n \in Nat /\ n >= 1
  BY <1>1, <1>3, FS_CardinalityType, FS_EmptySet
<1>5. /\ p \in [1 .. n -> Mouths]
      /\ drains = [k \in 1 .. n |-> seq[p[k]]]
  BY <1>2, <1>3 DEF Lists
<1>6. \A k \in 1 .. n : drains[k] \in Nat
  BY <1>1, <1>5, FlowType
<1>7. Len(drains) = n
  <2> HIDE DEF seq
  <2> QED BY <1>4, <1>5
<1> HIDE DEF drains
<1>8. Min({(9 * n) \div 10, n - 1}) + 1 \in 1 .. n
  <2>1. (9 * n) \div 10 \in Nat /\ n - 1 \in Nat
    BY <1>4
  <2> QED BY <1>4, <2>1, MinOfTwo
<1>9. Threshold = 3 * drains[Min({(9 * Len(drains)) \div 10, Len(drains) - 1}) + 1]
  BY DEF Threshold, drains
<1> QED BY <1>6, <1>7, <1>8, <1>9
-----------------------------------------------------------------------------
\* How many cells lie below one: the flow goes down in it.
Rank(c) == Cardinality({d \in Cells : grid.elevation[d] < grid.elevation[c]})

LEMMA RankFalls ==
  ASSUME Drained, NEW c \in Cells
  PROVE  /\ Rank(c) \in Nat /\ Rank(c) <= Count
         /\ samples[c].flow_to # Nowhere => Rank(samples[c].flow_to) < Rank(c)
<1>1. PICK h : h = grid.elevation
  OBVIOUS
<1>2. h \in [Cells -> Int]
  BY <1>1 DEF Drained
<1> DEFINE Below(d) == {e \in Cells : h[e] < h[d]}
<1>3. \A d \in Cells : /\ IsFiniteSet(Below(d)) /\ Cardinality(Below(d)) \in Nat
                       /\ Cardinality(Below(d)) <= Count /\ Rank(d) = Cardinality(Below(d))
  <2> SUFFICES ASSUME NEW d \in Cells
               PROVE  /\ IsFiniteSet(Below(d)) /\ Cardinality(Below(d)) \in Nat
                      /\ Cardinality(Below(d)) <= Count /\ Rank(d) = Cardinality(Below(d))
    OBVIOUS
  <2>1. Rank(d) = Cardinality(Below(d))
    BY <1>1 DEF Rank
  <2>2. Below(d) \in SUBSET Cells
    OBVIOUS
  <2> HIDE DEF Below
  <2> QED BY <2>1, <2>2, CellsAre, FS_Subset, FS_CardinalityType DEF Count
<1>4. ASSUME samples[c].flow_to # Nowhere PROVE Rank(samples[c].flow_to) < Rank(c)
  <2>1. PICK to : to = samples[c].flow_to
    OBVIOUS
  <2>2. to \in Cells /\ h[to] < h[c]
    BY <1>1, <1>4, <2>1, FlowType DEF Drained
  <2>3. Below(to) \in SUBSET Below(c) /\ to \in Below(c) /\ to \notin Below(to)
    <3>1. \A e \in Cells : h[e] \in Int
      BY <1>2
    <3> QED BY <2>2, <3>1
  <2> HIDE DEF Below
  <2>4. Cardinality(Below(to)) <= Cardinality(Below(c)) /\ Cardinality(Below(to)) # Cardinality(Below(c))
    BY <1>3, <2>3, FS_Subset
  <2> QED BY <1>3, <2>1, <2>2, <2>4
<1> QED BY <1>3, <1>4

\* The recursion of the walk ends, since no cell flows back up.
LEMMA WalkUnfolds ==
  ASSUME Drained
  PROVE  \E f : /\ f = [c \in Cells |-> Onwards(f, c)]
                /\ \A c \in Cells : Walk(c) = f[c]
<1> DEFINE Walked(g, n) == \A c \in Cells : Rank(c) < n => g[c] = Onwards(g, c)
           T == {n \in Nat : \E g \in [Cells -> Seq(Cells)] : Walked(g, n)}
           Down(f) == f = [c \in Cells |-> Onwards(f, c)]
<1>1. 0 \in T
  <2>1. [c \in Cells |-> <<>>] \in [Cells -> Seq(Cells)]
    OBVIOUS
  <2>2. Walked([c \in Cells |-> <<>>], 0)
    BY RankFalls
  <2> QED BY <2>1, <2>2
<1>2. ASSUME NEW n \in T \cap Nat PROVE n + 1 \in T
  <2>1. PICK g \in [Cells -> Seq(Cells)] : Walked(g, n)
    BY <1>2
  <2> DEFINE h == [c \in Cells |-> Onwards(g, c)]
  <2>2. h \in [Cells -> Seq(Cells)]
    <3> SUFFICES ASSUME NEW c \in Cells PROVE Onwards(g, c) \in Seq(Cells)
      OBVIOUS
    <3>1. <<c>> \in Seq(Cells) /\ <<c, c>> \in Seq(Cells)
      OBVIOUS
    <3>2. samples[c].flow_to # Nowhere => <<c>> \o g[samples[c].flow_to] \in Seq(Cells)
      <4> SUFFICES ASSUME samples[c].flow_to # Nowhere PROVE <<c>> \o g[samples[c].flow_to] \in Seq(Cells)
        OBVIOUS
      <4>1. g[samples[c].flow_to] \in Seq(Cells)
        BY FlowType
      <4> QED BY <3>1, <4>1
    <3> QED BY <3>1, <3>2 DEF Onwards
  <2>3. Walked(h, n + 1)
    <3> SUFFICES ASSUME NEW c \in Cells, Rank(c) < n + 1 PROVE h[c] = Onwards(h, c)
      OBVIOUS
    <3>1. h[c] = Onwards(g, c)
      OBVIOUS
    <3>2. samples[c].flow_to # Nowhere => g[samples[c].flow_to] = h[samples[c].flow_to]
      <4> SUFFICES ASSUME samples[c].flow_to # Nowhere PROVE g[samples[c].flow_to] = h[samples[c].flow_to]
        OBVIOUS
      <4>1. PICK to : to = samples[c].flow_to
        OBVIOUS
      <4>2. to \in Cells /\ Rank(to) < Rank(c) /\ Rank(to) \in Nat /\ Rank(c) \in Nat /\ n \in Nat
        BY <1>2, <4>1, FlowType, RankFalls
      <4>3. g[to] = Onwards(g, to)
        BY <2>1, <4>2
      <4> QED BY <4>1, <4>2, <4>3
    <3> HIDE DEF h
    <3> QED BY <3>1, <3>2 DEF Onwards
  <2> HIDE DEF h, Walked
  <2> QED BY <1>2, <2>2, <2>3
<1>3. \E f : Down(f)
  <2>1. Nat \subseteq T
    <3> HIDE DEF T
    <3> QED BY <1>1, <1>2, SetInduction
  <2>2. PICK n : n = Count
    OBVIOUS
  <2>3. n \in Nat /\ n + 1 \in T
    <3>1. n \in Nat /\ n + 1 \in Nat
      BY <2>2, MapAssumption
    <3> HIDE DEF T
    <3> QED BY <2>1, <3>1
  <2>4. PICK f \in [Cells -> Seq(Cells)] : Walked(f, n + 1)
    BY <2>3
  <2>5. \A c \in Cells : f[c] = Onwards(f, c)
    BY <2>2, <2>3, <2>4, RankFalls
  <2>6. f = [c \in Cells |-> Onwards(f, c)]
    BY <2>5
  <2> QED BY <2>6
<1> DEFINE down == CHOOSE f : Down(f)
<1>4. Down(down)
  <2> HIDE DEF Down
  <2> QED BY <1>3
<1>5. ASSUME NEW head \in Cells PROVE Walk(head) = down[head]
  BY DEF Walk
<1> HIDE DEF down
<1> QED BY <1>4, <1>5

\* A course of water, from c to a mouth.
Course(c, w) ==
  /\ w \in Seq(Cells) /\ Len(w) >= 1 /\ w[1] = c
  /\ \A k \in DOMAIN w : IsLand(w[k]) /\ Drainage(c) <= Drainage(w[k])
  /\ \A k \in DOMAIN w : k > 1 =>
       Drainage(w[k - 1]) <= Drainage(w[k]) /\ (w[k] = w[k - 1] \/ Arc(w[k - 1], w[k]) = 1)
  /\ w[Len(w)] \in Mouths

LEMMA WalksAreCourses ==
  ASSUME Drained, NEW head \in Cells, IsLand(head)
  PROVE  Course(head, Walk(head))
<1>1. PICK f : /\ f = [c \in Cells |-> Onwards(f, c)]
               /\ \A c \in Cells : Walk(c) = f[c]
  BY WalkUnfolds
<1> DEFINE T == {n \in Nat : \A c \in Cells : Rank(c) < n /\ IsLand(c) => Course(c, f[c])}
<1>2. 0 \in T
  BY RankFalls
<1>3. ASSUME NEW n \in T \cap Nat PROVE n + 1 \in T
  <2> SUFFICES ASSUME NEW c \in Cells, Rank(c) < n + 1, IsLand(c) PROVE Course(c, f[c])
    BY <1>3
  <2>1. f[c] = Onwards(f, c)
    BY <1>1
  <2>2. PICK to : to = samples[c].flow_to
    OBVIOUS
  <2>3. Drainage(c) \in Nat /\ to \in Cells \cup {Nowhere}
    BY <2>2, FlowType
  <2>4. CASE (to = Nowhere \/ ~IsLand(to)) /\ f[c] \in {<<c>>, <<c, c>>}
    <3>1. c \in Mouths
      BY <2>2, <2>4 DEF Mouths
    <3>2. CASE f[c] = <<c>>
      BY <2>3, <3>1, <3>2 DEF Course
    <3>3. CASE f[c] = <<c, c>>
      BY <2>3, <3>1, <3>3 DEF Course
    <3> QED BY <2>4, <3>2, <3>3
  <2>5. CASE to # Nowhere /\ IsLand(to) /\ f[c] = <<c>> \o f[to]
    <3>1. to \in Cells /\ Rank(to) < Rank(c) /\ Rank(to) \in Nat /\ Rank(c) \in Nat /\ n \in Nat
      BY <1>3, <2>2, <2>3, <2>5, RankFalls
    <3>2. Course(to, f[to])
      BY <1>3, <2>5, <3>1
    <3>3. PICK w : w = f[to]
      OBVIOUS
    <3>4. PICK v : v = f[c]
      OBVIOUS
    <3>5. w \in Seq(Cells) /\ Len(w) \in Nat /\ Len(w) >= 1 /\ w[1] = to /\ v = <<c>> \o w
      BY <2>5, <3>2, <3>3, <3>4 DEF Course
    <3>6. /\ v \in Seq(Cells) /\ Len(v) = Len(w) + 1 /\ v[1] = c /\ DOMAIN v = 1 .. Len(w) + 1
          /\ \A k \in DOMAIN v : k > 1 => k - 1 \in DOMAIN w /\ v[k] = w[k - 1]
      BY <3>5
    <3>7. Drainage(c) <= Drainage(to) /\ Arc(c, to) = 1
      BY <2>2, <2>5 DEF Drained
    <3>8. ASSUME NEW k \in DOMAIN v
          PROVE  IsLand(v[k]) /\ Drainage(c) <= Drainage(v[k])
      <4>1. CASE k = 1
        BY <2>3, <3>6, <4>1
      <4>2. CASE k # 1
        <5>1. k > 1
          BY <3>5, <3>6, <4>2
        <5>2. k - 1 \in DOMAIN w /\ v[k] = w[k - 1] /\ w[k - 1] \in Cells
          BY <3>5, <3>6, <5>1
        <5>3. IsLand(w[k - 1]) /\ Drainage(to) <= Drainage(w[k - 1])
          BY <3>2, <3>3, <5>2 DEF Course
        <5>4. Drainage(to) \in Nat /\ Drainage(w[k - 1]) \in Nat
          BY <3>1, <5>2, FlowType
        <5> QED BY <2>3, <3>7, <5>2, <5>3, <5>4
      <4> QED BY <4>1, <4>2
    <3>9. ASSUME NEW k \in DOMAIN v, k > 1
          PROVE  Drainage(v[k - 1]) <= Drainage(v[k]) /\ (v[k] = v[k - 1] \/ Arc(v[k - 1], v[k]) = 1)
      <4>1. CASE k = 2
        BY <3>5, <3>6, <3>7, <4>1
      <4>2. CASE k # 2
        <5>1. k - 1 \in DOMAIN v /\ k - 1 > 1 /\ k - 1 \in DOMAIN w /\ v[k] = w[k - 1] /\ v[k - 1] = w[k - 2]
          BY <3>5, <3>6, <3>9, <4>2
        <5>2. /\ Drainage(w[k - 2]) <= Drainage(w[k - 1])
              /\ w[k - 1] = w[k - 2] \/ Arc(w[k - 2], w[k - 1]) = 1
          <6>1. PICK j : j = k - 1
            OBVIOUS
          <6>2. j \in DOMAIN w /\ j > 1 /\ k - 2 = j - 1
            BY <3>5, <3>6, <5>1, <6>1
          <6>3. Drainage(w[j - 1]) <= Drainage(w[j]) /\ (w[j] = w[j - 1] \/ Arc(w[j - 1], w[j]) = 1)
            BY <3>2, <3>3, <6>2 DEF Course
          <6> QED BY <6>1, <6>2, <6>3
        <5> QED BY <5>1, <5>2
      <4> QED BY <4>1, <4>2
    <3>10. v[Len(v)] \in Mouths
      <4>1. w[Len(w)] \in Mouths
        BY <3>2, <3>3 DEF Course
      <4> QED BY <3>5, <3>6, <4>1
    <3>11. Course(c, v)
      BY SMTT(20), <3>5, <3>6, <3>8, <3>9, <3>10 DEF Course
    <3> QED BY <3>4, <3>11
  <2>6. \/ (to = Nowhere \/ ~IsLand(to)) /\ f[c] \in {<<c>>, <<c, c>>}
        \/ to # Nowhere /\ IsLand(to) /\ f[c] = <<c>> \o f[to]
    BY <2>1, <2>2 DEF Onwards
  <2> QED BY <2>4, <2>5, <2>6
<1>4. Nat \subseteq T
  <2> HIDE DEF T
  <2> QED BY <1>2, <1>3, SetInduction
<1>5. Rank(head) \in Nat /\ Rank(head) < Rank(head) + 1
  BY RankFalls
<1> QED BY <1>1, <1>4, <1>5
-----------------------------------------------------------------------------
\* A left fold takes one element at a time: what iter makes of the first k is
\* what F makes of the k-th and of the first k - 1.
Gathers(iter, S, base, F) ==
  \A s \in SUBSET S : iter[s] = IF s = {} THEN base ELSE F[<<iter[s \ {Max(s)}], Max(s)>>]

LEMMA FoldThere ==
  ASSUME NEW n \in Nat, NEW A, NEW base \in A, NEW F, Within(F, A, 1 .. n)
  PROVE  \E g \in [SUBSET (1 .. n) -> A] : Gathers(g, 1 .. n, base, F)
<1> DEFINE S == 1 .. n
           c == [s \in SUBSET S |-> Max(s)]
<1>1. IsFiniteSet(S)
  <2>1. 1 \in Int /\ n \in Int
    OBVIOUS
  <2> QED BY <2>1, FS_Interval, Zenon
<1>2. Chooses(c, S)
  BY LastIndex DEF Chooses
<1>3. PICK g : Recursive(g, base, F, c, A, S)
  <2> HIDE DEF c, S
  <2>1. Within(F, A, S)
    BY DEF S
  <2> QED BY <1>1, <1>2, <2>1, RecursionExists
<1>4. g \in [SUBSET S -> A] /\ \A s \in SUBSET S : g[s] = Rec(base, F, c, s, g)
  BY <1>3 DEF Recursive
<1>5. \A s \in SUBSET S : g[s] = IF s = {} THEN base ELSE F[<<g[s \ {Max(s)}], Max(s)>>]
  BY <1>4 DEF Rec
<1> QED BY <1>4, <1>5 DEF Gathers

LEMMA LastOfFirst ==
  ASSUME NEW n \in Nat, NEW k \in 1 .. n
  PROVE  /\ 1 .. k \in SUBSET (1 .. n) /\ 1 .. k # {}
         /\ Max(1 .. k) = k /\ (1 .. k) \ {k} = 1 .. k - 1
<1>1. 1 .. k \in SUBSET (1 .. n) /\ 1 .. k # {} /\ (1 .. k) \ {k} = 1 .. k - 1
  OBVIOUS
<1>2. k \in 1 .. k /\ \A i \in 1 .. k : i \in Int /\ k >= i
  OBVIOUS
<1>3. Max(1 .. k) \in 1 .. k /\ \A i \in 1 .. k : Max(1 .. k) >= i
  BY <1>2 DEF Max
<1> QED BY <1>1, <1>2, <1>3

Points == 0 .. Count + 1
Smooth(s) == s \in Seq(Points) /\ \A k \in DOMAIN s : k > 1 => Gap(s[k - 1], s[k]) <= 1
EndOf(s) == s[Len(s)]

LEMMA PointsAre ==
  /\ Points \subseteq Nat /\ Cells \subseteq Points /\ West \in Points /\ East \in Points
  /\ \A x, y \in Points : Gap(x, y) \in Nat /\ Gap(x, x) = 0
<1>1. PICK n : n = Count
  OBVIOUS
<1>2. n \in Nat /\ Cells = 1 .. n /\ Points = 0 .. n + 1 /\ West = 0 /\ East = n + 1
  BY <1>1, CellsAre, MapAssumption DEF Points, West, East
<1> QED BY <1>2 DEF Gap

LEMMA SmoothGrows ==
  ASSUME NEW s, Smooth(s), NEW x \in Points, s = <<>> \/ Gap(EndOf(s), x) <= 1
  PROVE  Smooth(Append(s, x)) /\ EndOf(Append(s, x)) = x /\ Append(s, x) # <<>>
<1>1. s \in Seq(Points) /\ Len(s) \in Nat
  BY DEF Smooth
<1>2. PICK t : t = Append(s, x)
  OBVIOUS
<1>3. /\ t \in Seq(Points) /\ Len(t) = Len(s) + 1 /\ t[Len(t)] = x /\ t # <<>>
      /\ DOMAIN t = 1 .. Len(s) + 1 /\ DOMAIN s = 1 .. Len(s)
      /\ \A k \in 1 .. Len(s) : t[k] = s[k]
  BY <1>1, <1>2
<1>4. ASSUME NEW k \in DOMAIN t, k > 1 PROVE Gap(t[k - 1], t[k]) <= 1
  <2>1. CASE k = Len(s) + 1
    <3>1. k - 1 = Len(s) /\ Len(s) \in 1 .. Len(s) /\ s # <<>>
      BY <1>1, <1>4, <2>1
    <3> QED BY <1>3, <2>1, <3>1 DEF EndOf
  <2>2. CASE k # Len(s) + 1
    <3>1. k \in DOMAIN s /\ k - 1 \in DOMAIN s
      BY <1>1, <1>3, <1>4, <2>2
    <3> QED BY <1>3, <1>4, <3>1 DEF Smooth
  <2> QED BY <2>1, <2>2
<1> QED BY <1>2, <1>3, <1>4 DEF Smooth, EndOf
-----------------------------------------------------------------------------
\* Strokes so far, of which the last ends at e.
Sewn(strokes, e) ==
  /\ strokes \in Seq(Seq(Points)) /\ Len(strokes) >= 1
  /\ \A i \in DOMAIN strokes : Smooth(strokes[i])
  /\ EndOf(strokes) # <<>> /\ EndOf(EndOf(strokes)) = e

Drawing == {s \in Seq(Seq(Points)) : Len(s) >= 1}

LEMMA DrawingIs ==
  ASSUME NEW s \in Drawing
  PROVE  Len(s) \in DOMAIN s /\ EndOf(s) \in Seq(Points)
BY DEF Drawing, EndOf

LEMMA DrawingGrows ==
  ASSUME NEW s \in Drawing, NEW t \in Seq(Points)
  PROVE  /\ [s EXCEPT ![Len(s)] = t] \in Drawing
         /\ Len([s EXCEPT ![Len(s)] = t]) = Len(s)
         /\ Append(s, t) \in Drawing /\ s \o <<t>> = Append(s, t)
BY DEF Drawing, EndOf

LEMMA OverSeamType == ASSUME NEW s \in Drawing, NEW x \in Points PROVE OverSeam(s, x) \in Drawing
<1> DEFINE current == s[Len(s)]
<1>1. current \in Seq(Points)
  BY DrawingIs DEF EndOf
<1>2. West \in Points /\ East \in Points
  BY PointsAre
<1>3. /\ Append(current, x) \in Seq(Points) /\ Append(current, West) \in Seq(Points)
      /\ Append(current, East) \in Seq(Points)
      /\ <<West, x>> \in Seq(Points) /\ <<East, x>> \in Seq(Points)
  BY <1>1, <1>2
<1>4. ASSUME NEW t \in Seq(Points), NEW u \in Seq(Points)
      PROVE  /\ [s EXCEPT ![Len(s)] = t] \in Drawing
             /\ [s EXCEPT ![Len(s)] = t] \o <<u>> \in Drawing
  BY DrawingGrows
<1>5. \/ OverSeam(s, x) = [s EXCEPT ![Len(s)] = Append(current, x)]
      \/ OverSeam(s, x) = [s EXCEPT ![Len(s)] = Append(current, West)] \o <<<<East, x>>>>
      \/ OverSeam(s, x) = [s EXCEPT ![Len(s)] = Append(current, East)] \o <<<<West, x>>>>
  BY DEF OverSeam
<1> QED BY <1>3, <1>4, <1>5

\* A step along a course goes to a neighbour, or over the seam to the other edge.
LEMMA OverSeamKeeps ==
  ASSUME NEW s, NEW e \in Cells, Sewn(s, e), NEW x \in Cells, x = e \/ Arc(e, x) = 1
  PROVE  Sewn(OverSeam(s, x), x)
<1> DEFINE current == EndOf(s)
<1>1. /\ s \in Drawing /\ Smooth(current) /\ current # <<>> /\ EndOf(current) = e
      /\ \A i \in DOMAIN s : Smooth(s[i])
  <2>1. s \in Drawing
    BY DEF Sewn, Drawing
  <2>2. Len(s) \in DOMAIN s
    BY <2>1, DrawingIs
  <2> QED BY <2>1, <2>2 DEF Sewn, EndOf
<1>2. PICK n : n = Count
  OBVIOUS
<1>3. /\ n \in Nat \ {0} /\ e \in 1 .. n /\ x \in 1 .. n /\ West = 0 /\ East = n + 1
      /\ e \in Points /\ x \in Points /\ West \in Points /\ East \in Points
  BY <1>2, CellsAre, MapAssumption, PointsAre DEF West, East
<1>4. \/ Gap(e, x) <= 1
      \/ ~(2 * Gap(e, x) <= Count) /\ \/ e = 1 /\ x = n
                                      \/ e = n /\ x = 1
  BY <1>2, <1>3 DEF Arc, Gap
<1>5. ASSUME NEW t, Smooth(t), t # <<>>, EndOf(t) = x
      PROVE  Sewn([s EXCEPT ![Len(s)] = t], x)
  <2>1. PICK r : r = [s EXCEPT ![Len(s)] = t]
    OBVIOUS
  <2>2. r \in Drawing /\ Len(r) = Len(s) /\ Len(s) \in DOMAIN s /\ DOMAIN r = DOMAIN s
    BY <1>1, <1>5, <2>1, DrawingIs, DrawingGrows DEF Smooth
  <2>3. r[Len(s)] = t /\ \A i \in DOMAIN s : Smooth(r[i])
    BY <1>1, <1>5, <2>1, <2>2
  <2>4. EndOf(r) = t
    BY <2>2, <2>3 DEF EndOf
  <2> QED BY <1>5, <2>1, <2>2, <2>3, <2>4 DEF Sewn, Drawing
<1>6. ASSUME NEW t, Smooth(t), NEW y \in Points, Gap(y, x) <= 1
      PROVE  Sewn([s EXCEPT ![Len(s)] = t] \o <<<<y, x>>>>, x)
  <2>1. PICK r : r = [s EXCEPT ![Len(s)] = t]
    OBVIOUS
  <2>2. r \in Drawing /\ Len(r) = Len(s) /\ Len(s) \in DOMAIN s /\ DOMAIN r = DOMAIN s
    BY <1>1, <1>6, <2>1, DrawingIs, DrawingGrows DEF Smooth
  <2>3. \A i \in DOMAIN s : Smooth(r[i])
    BY <1>1, <1>6, <2>1, <2>2
  <2>4. PICK u : u = <<y, x>>
    OBVIOUS
  <2>5. Smooth(u) /\ u \in Seq(Points) /\ EndOf(u) = x /\ u # <<>>
    BY <1>3, <1>6, <2>4 DEF Smooth, EndOf
  <2>6. PICK q : q = r \o <<u>>
    OBVIOUS
  <2>7. q \in Drawing /\ q = Append(r, u)
    BY <2>2, <2>5, <2>6, DrawingGrows
  <2>8. /\ Len(q) = Len(r) + 1 /\ q[Len(q)] = u
        /\ \A i \in DOMAIN q : (i \in DOMAIN s /\ q[i] = r[i]) \/ q[i] = u
    BY <2>2, <2>5, <2>7 DEF Drawing
  <2>9. \A i \in DOMAIN q : Smooth(q[i])
    BY <2>3, <2>5, <2>8
  <2>10. EndOf(q) = u
    BY <2>8 DEF EndOf
  <2> QED BY <2>1, <2>4, <2>5, <2>6, <2>7, <2>9, <2>10 DEF Sewn, Drawing
<1>7. s[Len(s)] = current /\ current[Len(current)] = e
  BY <1>1 DEF EndOf
<1>8. CASE Gap(e, x) <= 1 /\ 2 * Gap(e, x) <= Count
  <2>1. OverSeam(s, x) = [s EXCEPT ![Len(s)] = Append(current, x)]
    BY <1>7, <1>8 DEF OverSeam
  <2>2. Smooth(Append(current, x)) /\ Append(current, x) # <<>> /\ EndOf(Append(current, x)) = x
    BY <1>1, <1>3, <1>8, SmoothGrows
  <2> QED BY <1>5, <2>1, <2>2
<1>9. CASE ~(2 * Gap(e, x) <= Count) /\ e = 1 /\ x = n
  <2>1. x > e
    BY <1>2, <1>3, <1>9 DEF Gap
  <2>2. OverSeam(s, x) = [s EXCEPT ![Len(s)] = Append(current, West)] \o <<<<East, x>>>>
    BY <1>1, <1>7, <1>9, <2>1 DEF OverSeam
  <2>3. Gap(e, West) <= 1 /\ Gap(East, x) <= 1
    BY <1>3, <1>9 DEF Gap
  <2>4. Smooth(Append(current, West))
    BY <1>1, <1>3, <2>3, SmoothGrows
  <2> QED BY <1>3, <1>6, <2>2, <2>3, <2>4
<1>10. CASE ~(2 * Gap(e, x) <= Count) /\ e = n /\ x = 1
  <2>1. ~(x > e)
    BY <1>3, <1>10
  <2>2. OverSeam(s, x) = [s EXCEPT ![Len(s)] = Append(current, East)] \o <<<<West, x>>>>
    BY <1>1, <1>7, <1>10, <2>1 DEF OverSeam
  <2>3. Gap(e, East) <= 1 /\ Gap(West, x) <= 1
    BY <1>3, <1>10 DEF Gap
  <2>4. Smooth(Append(current, East))
    BY <1>1, <1>3, <2>3, SmoothGrows
  <2> QED BY <1>3, <1>6, <2>2, <2>3, <2>4
<1>11. Gap(e, x) <= 1 => 2 * Gap(e, x) <= Count
  BY <1>2, <1>3 DEF Gap
<1> QED BY <1>4, <1>8, <1>9, <1>10, <1>11

LEMMA SplitIs ==
  ASSUME NEW w \in Seq(Cells), Len(w) >= 1,
         \A k \in DOMAIN w : k > 1 => w[k] = w[k - 1] \/ Arc(w[k - 1], w[k]) = 1
  PROVE  Sewn(Split(w), w[Len(w)])
<1> DEFINE base == <<<<>>>>
           Fold(h) == h = [s \in SUBSET DOMAIN w |->
                             IF s = {} THEN base ELSE LET x == Max(s) IN OverSeam(h[s \ {x}], w[x])]
           iter == CHOOSE h : Fold(h)
<1>1. PICK n \in Nat : n = Len(w) /\ DOMAIN w = 1 .. n /\ n >= 1
  OBVIOUS
<1>0. \A k \in 1 .. n : w[k] \in Cells /\ w[k] \in Points
  <2>1. \A k \in 1 .. n : w[k] \in Cells
    BY <1>1
  <2> QED BY <2>1, PointsAre
<1>2. Split(w) = iter[1 .. n]
  BY <1>1 DEF Split, FoldLeft, MapThenFoldSet
<1>3. Fold(iter)
  <2> DEFINE F == [p \in Drawing \X (1 .. n) |-> OverSeam(p[1], w[p[2]])]
  <2>1. base \in Drawing
    BY DEF Drawing
  <2>2. ASSUME NEW a \in Drawing, NEW k \in 1 .. n
        PROVE  F[<<a, k>>] \in Drawing /\ F[<<a, k>>] = OverSeam(a, w[k])
    <3>1. w[k] \in Points
      BY <1>0
    <3>2. OverSeam(a, w[k]) \in Drawing
      BY <3>1, OverSeamType
    <3> QED BY <3>2
  <2> HIDE DEF F, base
  <2>3. PICK g \in [SUBSET (1 .. n) -> Drawing] : Gathers(g, 1 .. n, base, F)
    <3>1. Within(F, Drawing, 1 .. n)
      BY <2>2 DEF Within
    <3> QED BY <2>1, <3>1, FoldThere
  <2>4. ASSUME NEW s \in SUBSET (1 .. n)
        PROVE  g[s] = IF s = {} THEN base ELSE OverSeam(g[s \ {Max(s)}], w[Max(s)])
    <3>1. CASE s = {}
      BY <2>3, <3>1 DEF Gathers
    <3>2. CASE s # {}
      <4>1. Max(s) \in 1 .. n /\ g[s \ {Max(s)}] \in Drawing
        BY <2>3, <3>2, LastIndex
      <4> QED BY <2>2, <2>3, <3>2, <4>1 DEF Gathers
    <3> QED BY <3>1, <3>2
  <2>5. g = [s \in SUBSET (1 .. n) |-> IF s = {} THEN base ELSE OverSeam(g[s \ {Max(s)}], w[Max(s)])]
    BY <2>4
  <2>6. Fold(g)
    BY <1>1, <2>5
  <2> HIDE DEF Fold
  <2> QED BY <2>6
<1>4. iter[{}] = base /\ \A k \in 1 .. n : iter[1 .. k] = OverSeam(iter[1 .. k - 1], w[k])
  <2>1. \A s \in SUBSET (1 .. n) :
          iter[s] = IF s = {} THEN base ELSE OverSeam(iter[s \ {Max(s)}], w[Max(s)])
    BY <1>1, <1>3
  <2> HIDE DEF iter, base
  <2>2. ASSUME NEW k \in 1 .. n PROVE iter[1 .. k] = OverSeam(iter[1 .. k - 1], w[k])
    <3>1. /\ 1 .. k \in SUBSET (1 .. n) /\ 1 .. k # {}
          /\ Max(1 .. k) = k /\ (1 .. k) \ {k} = 1 .. k - 1
      BY LastOfFirst
    <3> QED BY <2>1, <3>1
  <2> QED BY <2>1, <2>2
<1> HIDE DEF iter
<1> DEFINE T == {k \in Nat : k \in 1 .. n => Sewn(iter[1 .. k], w[k])}
<1>5. 0 \in T
  OBVIOUS
<1>6. ASSUME NEW k \in T \cap Nat PROVE k + 1 \in T
  <2> SUFFICES ASSUME k + 1 \in 1 .. n PROVE Sewn(iter[1 .. k + 1], w[k + 1])
    OBVIOUS
  <2>1. k \in Nat /\ w[k + 1] \in Cells /\ w[k + 1] \in Points /\ (k + 1) - 1 = k
    BY <1>0, <1>6
  <2>2. iter[1 .. k + 1] = OverSeam(iter[1 .. k], w[k + 1])
    BY <1>4, <2>1
  <2>3. CASE k = 0
    <3>1. iter[1 .. k] = base
      BY <1>4, <2>3
    <3>2. PICK x : x = w[k + 1]
      OBVIOUS
    <3>3. OverSeam(base, x) = <<<<x>>>>
      BY DEF OverSeam
    <3>4. Sewn(<<<<x>>>>, x)
      <4>1. PICK u : u = <<x>>
        OBVIOUS
      <4>2. u \in Seq(Points) /\ Smooth(u) /\ u # <<>> /\ EndOf(u) = x
        BY <2>1, <3>2, <4>1 DEF Smooth, EndOf
      <4>3. <<u>> \in Seq(Seq(Points)) /\ Len(<<u>>) = 1 /\ <<u>>[1] = u /\ DOMAIN <<u>> = {1}
        BY <4>2
      <4>4. PICK s : s = <<u>>
        OBVIOUS
      <4>5. /\ s \in Seq(Seq(Points)) /\ Len(s) >= 1 /\ EndOf(s) = u
            /\ \A i \in DOMAIN s : s[i] = u
        BY <4>3, <4>4 DEF EndOf
      <4>6. Sewn(s, x)
        BY <4>2, <4>5 DEF Sewn
      <4> QED BY <4>1, <4>4, <4>6
    <3> QED BY <2>2, <3>1, <3>2, <3>3, <3>4
  <2>4. CASE k # 0
    <3>1. k \in 1 .. n /\ w[k] \in Cells /\ k + 1 > 1
      BY <1>1, <2>1, <2>4
    <3>2. Sewn(iter[1 .. k], w[k])
      BY <1>6, <3>1
    <3>3. w[k + 1] = w[k] \/ Arc(w[k], w[k + 1]) = 1
      BY <1>1, <2>1, <3>1
    <3> QED BY <2>1, <2>2, <3>1, <3>2, <3>3, OverSeamKeeps
  <2> QED BY <2>3, <2>4
<1>7. Nat \subseteq T
  <2> HIDE DEF T
  <2> QED BY <1>5, <1>6, SetInduction
<1>8. Sewn(iter[1 .. n], w[n])
  BY <1>1, <1>7
<1> QED BY <1>1, <1>2, <1>8
-----------------------------------------------------------------------------
\* What is kept of a stroke up to x: pieces on the sheet, the last up to x if
\* it is begun.
InView(s) == \A k \in DOMAIN s : s[k] \in OnSheet \cup {West, East}
Clipped(strokes, x) ==
  /\ strokes \in Drawing
  /\ \A i \in DOMAIN strokes : Smooth(strokes[i]) /\ InView(strokes[i])
  /\ EndOf(strokes) = <<>> \/ EndOf(EndOf(strokes)) = x

LEMMA OnFacesType == ASSUME NEW s \in Drawing, NEW x \in Points PROVE OnFaces(s, x) \in Drawing
<1>1. s[Len(s)] \in Seq(Points)
  BY DrawingIs DEF EndOf
<1>2. Append(s[Len(s)], x) \in Seq(Points) /\ <<>> \in Seq(Points)
  BY <1>1
<1> QED BY <1>2, DrawingGrows DEF OnFaces

LEMMA OnFacesKeeps ==
  ASSUME NEW s, NEW e \in Points, Clipped(s, e), NEW x \in Points, EndOf(s) = <<>> \/ Gap(e, x) <= 1
  PROVE  Clipped(OnFaces(s, x), x)
<1> DEFINE current == EndOf(s)
<1>1. /\ s \in Drawing /\ Len(s) \in DOMAIN s /\ s[Len(s)] = current
      /\ Smooth(current) /\ InView(current)
      /\ current = <<>> \/ Gap(EndOf(current), x) <= 1
      /\ \A i \in DOMAIN s : Smooth(s[i]) /\ InView(s[i])
  <2>1. s \in Drawing
    BY DEF Clipped
  <2>2. Len(s) \in DOMAIN s
    BY <2>1, DrawingIs
  <2> QED BY <2>1, <2>2 DEF Clipped, EndOf
<1>2. CASE x \in OnSheet \cup {West, East}
  <2>1. PICK t : t = Append(current, x)
    OBVIOUS
  <2>2. Smooth(t) /\ t \in Seq(Points) /\ EndOf(t) = x
    BY <1>1, <2>1, SmoothGrows DEF Smooth
  <2>3. InView(t)
    <3>1. current \in Seq(Points)
      BY <1>1 DEF Smooth
    <3>2. DOMAIN t = 1 .. Len(current) + 1 /\ t[Len(current) + 1] = x
          /\ \A k \in 1 .. Len(current) : t[k] = current[k]
      BY <2>1, <3>1
    <3>3. DOMAIN current = 1 .. Len(current) /\ Len(current) \in Nat
      BY <3>1
    <3> QED BY <1>1, <1>2, <3>2, <3>3 DEF InView
  <2>4. PICK r : r = [s EXCEPT ![Len(s)] = t]
    OBVIOUS
  <2>5. r = OnFaces(s, x)
    BY <1>1, <1>2, <2>1, <2>4 DEF OnFaces
  <2>6. r \in Drawing /\ Len(r) = Len(s) /\ DOMAIN r = DOMAIN s
    BY <1>1, <2>2, <2>4, DrawingGrows
  <2>7. r[Len(s)] = t /\ \A i \in DOMAIN s : Smooth(r[i]) /\ InView(r[i])
    BY <1>1, <2>2, <2>3, <2>4
  <2>8. EndOf(r) = t
    BY <2>6, <2>7 DEF EndOf
  <2> QED BY <2>2, <2>5, <2>6, <2>7, <2>8 DEF Clipped
<1>3. CASE x \notin OnSheet \cup {West, East}
  <2>1. PICK t : t = <<>>
    OBVIOUS
  <2>2. Smooth(t) /\ InView(t) /\ t \in Seq(Points)
    BY <2>1 DEF Smooth, InView
  <2>3. PICK r : r = Append(s, t)
    OBVIOUS
  <2>4. r = OnFaces(s, x) /\ r \in Drawing
    BY <1>1, <1>3, <2>1, <2>2, <2>3, DrawingGrows DEF OnFaces
  <2>5. /\ Len(r) = Len(s) + 1 /\ r[Len(r)] = t
        /\ \A i \in DOMAIN r : (i \in DOMAIN s /\ r[i] = s[i]) \/ r[i] = t
    BY <1>1, <2>2, <2>3 DEF Drawing
  <2>6. EndOf(r) = <<>>
    BY <2>1, <2>5 DEF EndOf
  <2> QED BY <1>1, <2>2, <2>4, <2>5, <2>6 DEF Clipped
<1> QED BY <1>2, <1>3

LEMMA ClipIs ==
  ASSUME NEW w, Smooth(w)
  PROVE  \A t \in Clip(w) : Smooth(t) /\ InView(t)
<1> DEFINE base == <<<<>>>>
           Fold(h) == h = [s \in SUBSET DOMAIN w |->
                             IF s = {} THEN base ELSE LET x == Max(s) IN OnFaces(h[s \ {x}], w[x])]
           iter == CHOOSE h : Fold(h)
<1>0. w \in Seq(Points)
  BY DEF Smooth
<1>1. PICK n \in Nat : n = Len(w) /\ DOMAIN w = 1 .. n
  BY <1>0
<1>2. FoldLeft(OnFaces, base, w) = iter[1 .. n]
  BY <1>1 DEF FoldLeft, MapThenFoldSet
<1>3. Fold(iter)
  <2> DEFINE F == [p \in Drawing \X (1 .. n) |-> OnFaces(p[1], w[p[2]])]
  <2>1. base \in Drawing
    BY DEF Drawing
  <2>2. ASSUME NEW a \in Drawing, NEW k \in 1 .. n
        PROVE  F[<<a, k>>] \in Drawing /\ F[<<a, k>>] = OnFaces(a, w[k])
    <3>1. w[k] \in Points
      BY <1>0, <1>1
    <3>2. OnFaces(a, w[k]) \in Drawing
      BY <3>1, OnFacesType
    <3> QED BY <3>2
  <2> HIDE DEF F, base
  <2>3. PICK g \in [SUBSET (1 .. n) -> Drawing] : Gathers(g, 1 .. n, base, F)
    <3>1. Within(F, Drawing, 1 .. n)
      BY <2>2 DEF Within
    <3> QED BY <2>1, <3>1, FoldThere
  <2>4. ASSUME NEW s \in SUBSET (1 .. n)
        PROVE  g[s] = IF s = {} THEN base ELSE OnFaces(g[s \ {Max(s)}], w[Max(s)])
    <3>1. CASE s = {}
      BY <2>3, <3>1 DEF Gathers
    <3>2. CASE s # {}
      <4>1. Max(s) \in 1 .. n /\ g[s \ {Max(s)}] \in Drawing
        BY <2>3, <3>2, LastIndex
      <4> QED BY <2>2, <2>3, <3>2, <4>1 DEF Gathers
    <3> QED BY <3>1, <3>2
  <2>5. g = [s \in SUBSET (1 .. n) |-> IF s = {} THEN base ELSE OnFaces(g[s \ {Max(s)}], w[Max(s)])]
    BY <2>4
  <2>6. Fold(g)
    BY <1>1, <2>5
  <2> HIDE DEF Fold
  <2> QED BY <2>6
<1>4. iter[{}] = base /\ \A k \in 1 .. n : iter[1 .. k] = OnFaces(iter[1 .. k - 1], w[k])
  <2>1. \A s \in SUBSET (1 .. n) :
          iter[s] = IF s = {} THEN base ELSE OnFaces(iter[s \ {Max(s)}], w[Max(s)])
    BY <1>1, <1>3
  <2> HIDE DEF iter, base
  <2>2. ASSUME NEW k \in 1 .. n PROVE iter[1 .. k] = OnFaces(iter[1 .. k - 1], w[k])
    <3>1. /\ 1 .. k \in SUBSET (1 .. n) /\ 1 .. k # {}
          /\ Max(1 .. k) = k /\ (1 .. k) \ {k} = 1 .. k - 1
      BY LastOfFirst
    <3> QED BY <2>1, <3>1
  <2> QED BY <2>1, <2>2
<1> HIDE DEF iter
<1>5. ASSUME NEW x PROVE Clipped(base, x) /\ EndOf(base) = <<>>
  <2>1. PICK u : u = <<>>
    OBVIOUS
  <2>2. u \in Seq(Points) /\ Smooth(u) /\ InView(u)
    BY <2>1 DEF Smooth, InView
  <2>3. <<u>> \in Seq(Seq(Points)) /\ Len(<<u>>) = 1 /\ <<u>>[1] = u /\ DOMAIN <<u>> = {1}
    BY <2>2
  <2>4. EndOf(<<u>>) = u
    BY <2>3 DEF EndOf
  <2>5. Clipped(<<u>>, x)
    BY <2>1, <2>2, <2>3, <2>4 DEF Clipped, Drawing
  <2> QED BY <2>1, <2>4, <2>5
<1> DEFINE T == {k \in Nat : k \in 1 .. n => Clipped(iter[1 .. k], w[k])}
<1>6. 0 \in T
  OBVIOUS
<1>7. ASSUME NEW k \in T \cap Nat PROVE k + 1 \in T
  <2> SUFFICES ASSUME k + 1 \in 1 .. n PROVE Clipped(iter[1 .. k + 1], w[k + 1])
    OBVIOUS
  <2>1. k \in Nat /\ w[k + 1] \in Points /\ (k + 1) - 1 = k
    BY <1>0, <1>1, <1>7
  <2>2. iter[1 .. k + 1] = OnFaces(iter[1 .. k], w[k + 1])
    BY <1>4, <2>1
  <2>3. CASE k = 0
    <3>1. iter[1 .. k] = base
      BY <1>4, <2>3
    <3> QED BY <1>5, <2>1, <2>2, <3>1, OnFacesKeeps
  <2>4. CASE k # 0
    <3>1. k \in 1 .. n /\ w[k] \in Points /\ k + 1 \in DOMAIN w /\ k + 1 > 1
      BY <1>0, <1>1, <2>1, <2>4
    <3>2. Clipped(iter[1 .. k], w[k])
      BY <1>7, <3>1
    <3>3. Gap(w[k], w[k + 1]) <= 1
      BY <2>1, <3>1 DEF Smooth
    <3> QED BY <2>1, <2>2, <3>1, <3>2, <3>3, OnFacesKeeps
  <2> QED BY <2>3, <2>4
<1>8. Nat \subseteq T
  <2> HIDE DEF T
  <2> QED BY <1>6, <1>7, SetInduction
<1>9. \E x : Clipped(iter[1 .. n], x)
  <2>1. CASE n = 0
    BY <1>4, <1>5, <2>1
  <2>2. CASE n # 0
    BY <1>8, <2>2
  <2> QED BY <2>1, <2>2
<1>10. \A t \in Clip(w) : \E i \in DOMAIN iter[1 .. n] : t = iter[1 .. n][i]
  BY <1>2 DEF Clip, ToSet
<1> QED BY <1>9, <1>10 DEF Clipped

LEMMA StrokesAre ==
  ASSUME NEW w \in Seq(Cells), Len(w) >= 1,
         \A k \in DOMAIN w : k > 1 => w[k] = w[k - 1] \/ Arc(w[k - 1], w[k]) = 1
  PROVE  \A s \in Strokes(w) : Smooth(s) /\ InView(s)
<1>1. \A t \in ToSet(Split(w)) : Smooth(t)
  BY SplitIs DEF Sewn, ToSet
<1> QED BY <1>1, ClipIs DEF Strokes
-----------------------------------------------------------------------------
\* A river that is traced from c.
RiverOf(c) == [path |-> Walk(c), strokes |-> Strokes(Walk(c)), mouth |-> Drainage(Last(Walk(c)))]

LEMMA RiverIs ==
  ASSUME Drained, NEW c \in RiverHeads
  PROVE  LET r == RiverOf(c)
         IN  /\ r.path[1] = c /\ c \in Cells /\ r.mouth \in Nat
             /\ \A k \in DOMAIN r.path : IsMajor(r.path[k])
             /\ \A k \in DOMAIN r.path : k > 1 => Drainage(r.path[k - 1]) <= Drainage(r.path[k])
             /\ \A s \in r.strokes : /\ \A k \in DOMAIN s : s[k] \in OnSheet \cup {West, East}
                                     /\ \A k \in DOMAIN s : k > 1 => Gap(s[k - 1], s[k]) <= 1
             /\ Last(r.path) \in Mouths /\ r.mouth = Drainage(Last(r.path))
<1>1. PICK w : w = Walk(c)
  OBVIOUS
<1>2. RiverOf(c) = [path |-> w, strokes |-> Strokes(w), mouth |-> Drainage(Last(w))]
  BY <1>1 DEF RiverOf
<1>3. c \in Cells /\ IsMajor(c) /\ IsLand(c)
  BY DEF RiverHeads, IsMajor
<1>4. Course(c, w)
  BY <1>1, <1>3, WalksAreCourses
<1>5. w \in Seq(Cells) /\ Len(w) >= 1 /\ w[1] = c
  BY <1>4 DEF Course
<1>6. ASSUME NEW k \in DOMAIN w PROVE IsMajor(w[k])
  <2>1. IsLand(w[k]) /\ Drainage(c) <= Drainage(w[k])
    BY <1>4 DEF Course
  <2>2. PICK d : d = w[k]
    OBVIOUS
  <2>3. d \in Cells /\ Drainage(d) \in Nat /\ Drainage(c) \in Nat /\ Threshold \in Nat
    BY <1>3, <1>5, <2>2, FlowType, ThresholdIs
  <2>4. 10 * Drainage(c) >= Threshold
    BY <1>3 DEF IsMajor
  <2>5. 10 * Drainage(d) >= Threshold
    BY <2>1, <2>2, <2>3, <2>4
  <2> QED BY <2>1, <2>2, <2>5 DEF IsMajor
<1>7. \A k \in DOMAIN w : k > 1 => Drainage(w[k - 1]) <= Drainage(w[k])
  BY <1>4 DEF Course
<1>8. \A s \in Strokes(w) : Smooth(s) /\ InView(s)
  BY <1>4, <1>5, StrokesAre DEF Course
<1>9. Last(w) \in Mouths
  BY <1>4 DEF Course, Last
<1>10. Drainage(Last(w)) \in Nat
  BY <1>9, MouthsThere, FlowType
<1> QED BY <1>2, <1>3, <1>5, <1>6, <1>7, <1>8, <1>9, <1>10 DEF Smooth, InView

LEMMA TraceRiversKeeps == ASSUME MapInv, TraceRivers PROVE MapInv'
<1> DEFINE traced == {r \in {RiverOf(c) : c \in RiverHeads} : Len(r.path) >= MinPath /\ r.strokes # {}}
           seq == [r \in traced |-> r]
           key == [r \in traced |-> r.path[1] - (Count + 1) * r.mouth]
           largest == Listed(seq, key)
<1>1. /\ pass = "drain" /\ undrained = {} /\ pass' = "done"
      /\ rivers' = SubSeq(largest, 1, Min({MaxRivers, Len(largest)}))
      /\ UNCHANGED <<drawn, grid, level, cities, sizes, samples, undrained>>
  BY DEF TraceRivers, RiverOf
<1>2. Drained
  <2>1. samples # <<>> /\ grid.elevation \in [Cells -> Int]
    BY <1>1 DEF MapInv, MapTypes, Undrawn
  <2> QED BY <1>1, <2>1 DEF MapInv, FlowInv, Drained
<1>3. \A r \in traced : \E c \in RiverHeads : r = RiverOf(c)
  OBVIOUS
<1>4. \A r \in traced : r.path[1] \in Cells /\ r.mouth \in Nat /\ r = RiverOf(r.path[1])
  BY <1>2, <1>3, RiverIs
<1> HIDE DEF traced
<1>5. IsFiniteSet(traced)
  <2> DEFINE f == [r \in traced |-> r.path[1]]
  <2>1. f \in Injection(traced, Cells)
    <3>1. f \in [traced -> Cells] /\ \A r, q \in traced : f[r] = f[q] => r = q
      BY <1>4
    <3> HIDE DEF f
    <3> QED BY <3>1 DEF Injection, IsInjective
  <2> HIDE DEF f
  <2> QED BY <2>1, CellsAre, FS_Injection
<1>6. \A r, q \in traced : key[r] \in Int /\ (key[r] = key[q] => r = q)
  <2> SUFFICES ASSUME NEW r \in traced, NEW q \in traced
               PROVE  key[r] \in Int /\ (key[r] = key[q] => r = q)
    OBVIOUS
  <2>1. PICK c, d, a, b : c = r.path[1] /\ d = q.path[1] /\ a = r.mouth /\ b = q.mouth
    OBVIOUS
  <2>2. c \in Cells /\ d \in Cells /\ a \in Nat /\ b \in Nat /\ (c = d => r = q)
    BY <1>4, <2>1
  <2>3. c - (Count + 1) * a \in Int /\ (c - (Count + 1) * a = d - (Count + 1) * b => c = d)
    BY <2>2, KeysApart
  <2> QED BY <2>1, <2>2, <2>3
<1>7. PICK p : Lists(largest, seq, traced, p)
  <2>1. DOMAIN key = traced
    OBVIOUS
  <2> HIDE DEF key, seq
  <2> QED BY <1>5, <1>6, <2>1, ListedOnce
<1>8. PICK n : n = Cardinality(traced)
  OBVIOUS
<1>9. n \in Nat /\ p \in [1 .. n -> traced] /\ largest = [k \in 1 .. n |-> seq[p[k]]]
  BY <1>5, <1>7, <1>8, FS_CardinalityType DEF Lists
<1>10. largest \in Seq(traced) /\ Len(largest) = n
  <2>1. \A k \in 1 .. n : seq[p[k]] \in traced
    BY <1>9
  <2> HIDE DEF seq
  <2> QED BY <1>9, <2>1
<1> HIDE DEF largest, key, seq
<1>11. PICK m : m = Min({MaxRivers, n})
  OBVIOUS
<1>12. m \in Nat /\ m <= MaxRivers /\ m <= n
  BY <1>9, <1>11, MinOfTwo, MapAssumption
<1>13. rivers' \in Seq(traced) /\ Len(rivers') <= MaxRivers
  <2>1. rivers' = SubSeq(largest, 1, m)
    BY <1>1, <1>10, <1>11
  <2> QED BY <1>10, <1>12, <2>1
<1>14. ASSUME NEW i \in DOMAIN rivers' PROVE \E c \in RiverHeads : rivers'[i] = RiverOf(c)
  <2>1. rivers'[i] \in traced
    BY <1>13
  <2> QED BY <1>3, <2>1 DEF traced
<1>15. /\ Mouths' = Mouths
       /\ \A c : IsLand(c)' = IsLand(c) /\ Drainage(c)' = Drainage(c)
  BY <1>1 DEF Mouths, IsLand, Drainage
<1>16. \A c : IsMajor(c)' = IsMajor(c)
  <2>1. Threshold' = Threshold
    BY <1>1, <1>15 DEF Threshold, Mouths, IsLand, Drainage
  <2> QED BY <1>15, <2>1 DEF IsMajor
<1>17. RiversDrain'
  BY <1>2, <1>14, <1>15, <1>16, RiverIs DEF RiversDrain
<1>18. MapTypes'
  BY <1>1, <1>13 DEF MapInv, MapTypes, Undrawn
<1>19. FlowInv' /\ DrainageKept'
  BY <1>1, FlowStays
<1>20. CitiesStand'
  <2>1. ~Undrawn /\ \A i : pass' = "done"
    BY <1>1 DEF Undrawn
  <2>2. CitiesStand
    BY DEF MapInv
  <2>3. EligibleHexes' = EligibleHexes
    BY <1>1 DEF EligibleHexes
  <2> QED BY <1>1, <2>2, <2>3 DEF CitiesStand
<1> QED BY <1>17, <1>18, <1>19, <1>20 DEF MapInv

LEMMA MapKeeps == ASSUME MapInv, [MapNext]_mapVars PROVE MapInv'
<1>1. CASE GenerateMap
  BY <1>1, GenerateMapKeeps
<1>2. CASE PlaceCity
  BY <1>2, PlaceCityKeeps
<1>3. CASE ComputeFlow
  BY <1>3, ComputeFlowKeeps
<1>4. CASE AccumulateDrainage
  BY <1>4, AccumulateDrainageKeeps
<1>5. CASE TraceRivers
  BY <1>5, TraceRiversKeeps
<1>6. CASE UNCHANGED mapVars
  <2>1. UNCHANGED <<drawn, pass, grid, level, cities, sizes, samples, undrained, rivers>>
    BY <1>6 DEF mapVars
  <2>2. FlowInv' /\ DrainageKept'
    BY <2>1, FlowStays
  <2>3. MapTypes'
    BY <2>1 DEF MapInv, MapTypes, Undrawn
  <2>4. CitiesStand'
    <3>1. EligibleHexes' = EligibleHexes
      BY <2>1 DEF EligibleHexes
    <3> QED BY <2>1, <3>1 DEF MapInv, CitiesStand
  <2>5. RiversDrain'
    <3>1. /\ Mouths' = Mouths
          /\ \A c : IsLand(c)' = IsLand(c) /\ Drainage(c)' = Drainage(c)
      BY <2>1 DEF Mouths, IsLand, Drainage
    <3>2. Threshold' = Threshold
      BY <2>1, <3>1 DEF Threshold, Mouths, IsLand, Drainage
    <3>3. \A c : IsMajor(c)' = IsMajor(c)
      BY <3>1, <3>2 DEF IsMajor
    <3> QED BY <2>1, <3>1, <3>3 DEF MapInv, RiversDrain
  <2> QED BY <2>2, <2>3, <2>4, <2>5 DEF MapInv
<1> QED BY <1>1, <1>2, <1>3, <1>4, <1>5, <1>6 DEF MapNext

LEMMA MapTyped == MapInv => MapTypeOK /\ MapAgrees
BY DEF MapInv, MapTypes, MapTypeOK, MapAgrees
-----------------------------------------------------------------------------
(* WorldTools: each part runs by its own specification.                      *)

\* Whichever part is looked at, each one of them starts and goes on as it does
\* alone.
LEMMA PartsStart ==
  ToolsInit => PageInit /\ TradingInit /\ PlanetInit(BOOLEAN) /\ WorldInit /\ MarketInit /\ StarsInit
               /\ (\E r \in Rows : OrbitsInit(r)) /\ \E r \in Requests : MapInit({r})
<1> SUFFICES ASSUME ToolsInit
             PROVE  PageInit /\ TradingInit /\ PlanetInit(BOOLEAN) /\ WorldInit /\ MarketInit /\ StarsInit
                    /\ (\E r \in Rows : OrbitsInit(r)) /\ \E r \in Requests : MapInit({r})
  OBVIOUS
<1>1. PageInit /\ TradingInit /\ PlanetInit(Some("server", BOOLEAN)) /\ WorldInit /\ MarketInit /\ StarsInit
  BY DEF ToolsInit
<1>2. Some("server", BOOLEAN) \subseteq BOOLEAN
  BY DEF Some, First
<1>3. PlanetInit(BOOLEAN)
  BY <1>1, <1>2 DEF PlanetInit
<1>4. \E r \in Rows : OrbitsInit(r)
  <2>1. Some("generator", Rows) \subseteq Rows
    BY OrbitsAssumption DEF Some, First
  <2>2. \E r \in Some("generator", Rows) : OrbitsInit(r)
    BY DEF ToolsInit
  <2> QED BY <2>1, <2>2
<1>5. \E r \in Requests : MapInit({r})
  <2>1. Some("map", Requests) \subseteq Requests
    BY MapAssumption DEF Some, First
  <2>2. MapInit(Some("map", Requests))
    BY DEF ToolsInit
  <2>3. drawn \in Requests /\ MapInit({drawn})
    BY <2>1, <2>2 DEF MapInit
  <2> QED BY <2>3
<1> QED BY <1>1, <1>3, <1>4, <1>5

LEMMA PartsGoOn ==
  ASSUME [ToolsNext]_toolVars
  PROVE  /\ [PageNext]_pageVars /\ [TradingNext]_tradingVars /\ [PlanetNext]_planetVars
         /\ [WorldNext]_worldVars /\ [MarketNext]_marketVars /\ [OrbitsNext]_orbitVars
         /\ [StarsNext]_starVars /\ [MapNext]_mapVars
BY DEF ToolsNext, WorldPage, TradeTables, HttpServer, Generator, StarRolls, BodyRolls, MarketRolls,
       MapRolls, toolVars

LEMMA PageCorrect == ToolsSpec => []PageInv
<1>1. ToolsInit => PageInv
  BY PartsStart, PageStarts
<1>2. PageInv /\ [ToolsNext]_toolVars => PageInv'
  BY PartsGoOn, PageKeeps
<1> QED BY <1>1, <1>2, PTL DEF ToolsSpec

\* The search and the table keep their types, suggestions never exceed the
\* number shown, and no two rows of the table have one id
\* (system_generator.rs:432-436).
THEOREM PageTypesCorrect == ToolsSpec => []RowsTypeOK
BY PageCorrect, PageInvSays, PTL

\* A world picked by whichever way is the one the text stands for, whatever
\* answers arrive late in between (traveller_map.rs:790-905).
THEOREM PicksAreAsNamed == ToolsSpec => []PickedAsNamed
<1>1. PageInv => PickedAsNamed
  BY SearchInvSays DEF PageInv
<1> QED BY <1>1, PageCorrect, PTL

\* A pick whose data has arrived, alone, leaves all fields on its world
\* (traveller_map.rs:725-768).
THEOREM PicksStayWhole == ToolsSpec => []PickIsWhole
<1>1. PageInv => PickIsWhole
  BY SearchInvSays DEF PageInv
<1> QED BY <1>1, PageCorrect, PTL

\* Over any adding, editing, removing, generating and rebuilding, a message is
\* under a row that does not parse, unless a rebuild dropped its row
\* (system_generator.rs:437-472, 522-527).
THEOREM MarksAreOfInvalidRows == ToolsSpec => []MarkedRowsAreInvalid
BY PageCorrect, PageInvSays, PTL

\* The table a lone pick leaves was built of that pick's name, UWP and stars
\* (system_generator.rs:357-425).
THEOREM TablesAreOfThePick == ToolsSpec => []TableOfThePick
<1>1. PageInv => TableOfThePick
  BY DEF PageInv
<1> QED BY <1>1, PageCorrect, PTL

LEMMA TradingCorrect == ToolsSpec => []TradingInv
<1>1. ToolsInit => TradingInv
  BY PartsStart, TradingStarts
<1>2. TradingInv /\ [ToolsNext]_toolVars => TradingInv'
  BY PartsGoOn, StepsOfTrading, TradingStays
<1> QED BY <1>1, <1>2, PTL DEF ToolsSpec

\* No plan exceeds what there is, in the market or the hold, whatever is typed,
\* executed or answered (trade_computer.rs:1044-1058, 1125-1139).
THEOREM TradingTypesCorrect == ToolsSpec => []TradingTypeOK
<1>1. TradingInv => TradingTypeOK
  BY DEF TradingInv
<1> QED BY <1>1, TradingCorrect, PTL

\* Whatever was bought, sold, added by hand or reset: the hold has what came
\* aboard and did not leave (ship_manifest.rs:313-362).
THEOREM GoodsStayBalanced == ToolsSpec => []GoodsBalance
<1>1. TradingInv => GoodsBalance
  BY DEF TradingInv
<1> QED BY <1>1, TradingCorrect, PTL

\* Trades once executed come to nothing when they are executed again
\* (trade_computer.rs:1968-1986).
THEOREM TradesExecuteOnce == ToolsSpec => []ExecutesOnce
BY TradingCorrect, SettledIsOver, PTL

\* Whatever body a generator or an importer makes: no people where it forces a
\* dead world, and no technology above the main world's, or of nobody
\* (world.rs:1199-1223, system.rs:1046-1052).
THEOREM BodiesStaySubordinate == ToolsSpec => []SubordinateToMain
<1>1. ToolsInit => BodyInv
  BY PartsStart, BodyStarts
<1>2. BodyInv /\ [ToolsNext]_toolVars => BodyInv'
  BY PartsGoOn, BodyKeeps
<1>3. BodyInv => SubordinateToMain
  BY DEF BodyInv
<1> QED BY <1>1, <1>2, <1>3, PTL DEF ToolsSpec

\* Whatever else is asked in between, a question about a market has one answer
\* until its dice are thrown anew (available_goods.rs:84-89,
\* available_passengers.rs:478-480).
THEOREM DiceAreKept == ToolsSpec => []KeptDice
<1>1. ToolsInit => MarketInv
  BY PartsStart, MarketStarts
<1>2. MarketInv /\ [ToolsNext]_toolVars => MarketInv'
  BY PartsGoOn, MarketKeeps
<1>3. MarketInv => KeptDice
  BY KeptIsRight DEF MarketInv
<1> QED BY <1>1, <1>2, <1>3, PTL DEF ToolsSpec

\* Bodies have the digits of a UWP, and the rows that were read are consistent
\* (constraint.rs:306-327).
THEOREM WorldTypesCorrect == ToolsSpec => []WorldTypeOK
<1>1. ToolsInit => WorldTypes
  BY PartsStart, WorldTypesStart
<1>2. WorldTypes /\ [ToolsNext]_toolVars => WorldTypes'
  BY PartsGoOn, WorldTypesKeep
<1> QED BY <1>1, <1>2, WorldTyped, PTL DEF ToolsSpec

\* What is offered is there to buy, and rolls are what dice show
\* (available_goods.rs:200-330, available_passengers.rs:318-341).
THEOREM MarketTypesCorrect == ToolsSpec => []MarketTypeOK
<1>1. ToolsInit => MarketTypes
  BY PartsStart, MarketTypesStart
<1>2. MarketTypes /\ [ToolsNext]_toolVars => MarketTypes'
  BY PartsGoOn, MarketTypesKeep
<1> QED BY <1>1, <1>2, MarketTyped, PTL DEF ToolsSpec

LEMMA OrbitsCorrect == ToolsSpec => []OrbitsInv
<1>1. ToolsInit => OrbitsInv
  BY PartsStart, OrbitsStart
<1>2. OrbitsInv /\ [ToolsNext]_toolVars => OrbitsInv'
  BY PartsGoOn, OrbitsKeeps
<1> QED BY <1>1, <1>2, PTL DEF ToolsSpec

\* Bodies and satellites keep their types, and there is a free orbit for each
\* giant still to be placed (system.rs:608-660).
THEOREM OrbitTypesCorrect == ToolsSpec => []OrbitsTypeOK
BY OrbitsCorrect, OrbitsTyped, PTL

\* The main world stands in the system once: no belt, blocked orbit or roll of
\* satellites puts a second one there or removes it (system.rs:735-991).
THEOREM MainWorldStandsOnce == ToolsSpec => []MainWorldOnce
BY OrbitsCorrect, MainOnce, PTL

LEMMA StandsCorrect == ToolsSpec => [](OrbitsInv /\ StandsInv)
<1>1. ToolsInit => OrbitsInv /\ StandsInv
  BY PartsStart, OrbitsStart, StandsStart
<1>2. OrbitsInv /\ StandsInv /\ [ToolsNext]_toolVars => (OrbitsInv /\ StandsInv)'
  BY PartsGoOn, OrbitsKeeps, StandsKeeps
<1> QED BY <1>1, <1>2, PTL DEF ToolsSpec

\* What a row placed is still there at the end, but for three cases: the main
\* world when no orbit was free, the main world where a row keeps the habitable
\* orbit empty, and a belt in the orbit of a row's giant
\* (system.rs:530-603, 747-780, 930-991).
THEOREM PlacedRowsStand == ToolsSpec => []RowsStand
BY StandsCorrect, RowsKept, PTL

\* A planet has the satellites its row and the rows of satellites ask for, and
\* no two satellites of a body share an orbit (system.rs:805-860,
\* world.rs:979-1009).
THEOREM SatellitesAreRight == ToolsSpec => []MoonsRight
BY OrbitsCorrect, MoonsAreRight, PTL

LEMMA StarsCorrect == ToolsSpec => []StarsInv
<1>1. ToolsInit => StarsInv
  BY PartsStart, StarsStart
<1>2. StarsInv /\ [ToolsNext]_toolVars => StarsInv'
  BY PartsGoOn, StarsKeep
<1> QED BY <1>1, <1>2, PTL DEF ToolsSpec

\* Every star, companions of companions as well, has a class and zones of the
\* tables (system.rs:1255-1402).
THEOREM StarTypesCorrect == ToolsSpec => []StarsTypeOK
BY StarsCorrect, StarsTyped, PTL

\* A main world in a habitable zone is told as temperate, for any rolls and
\* pinned stars (system.rs:1255-1330, 1471-1482).
THEOREM StarTablesAgree == ToolsSpec => []TablesAgree
<1>1. StarsInv => TablesAgree
  BY DEF StarsInv, TablesAgree
<1> QED BY <1>1, StarsCorrect, PTL

LEMMA MapCorrect == ToolsSpec => []MapInv
<1>1. ToolsInit => MapInv
  BY PartsStart, MapStart
<1>2. MapInv /\ [ToolsNext]_toolVars => MapInv'
  BY PartsGoOn, MapKeeps
<1> QED BY <1>1, <1>2, PTL DEF ToolsSpec

\* A map has no more cities and rivers than are asked for (worldmap/mod.rs:133-195).
THEOREM MapTypesCorrect == ToolsSpec => []MapTypeOK
BY MapCorrect, MapTyped, PTL

\* Whatever the heights and the climate: no water is lost on its way down,
\* rivers run over land to a shore or a basin and are drawn without a jump, and
\* cities stand apart and on land where there is any (features.rs:148-215,
\* rivers.rs:192-390, 529-612).
THEOREM MapsAgree == ToolsSpec => []MapAgrees
BY MapCorrect, MapTyped, PTL

\* The composition runs the server by its own specification, so what holds of
\* that holds here.
THEOREM RunsPlanetServer == ToolsSpec => PlanetSpec
BY PartsStart, PartsGoOn, PTL DEF ToolsSpec, PlanetSpec

\* The variables of all parts have their types, and what the code relies on
\* about them holds: unique row ids, plans covered by what there is, one scale of
\* what is kept, an orbit for every giant.
THEOREM ToolsTypesCorrect == ToolsSpec => []ToolsTypeOK
<1>1. RowsTypeOK /\ TradingTypeOK /\ PlanetTypeOK /\ OrbitsTypeOK /\ StarsTypeOK /\ WorldTypeOK
        /\ MarketTypeOK /\ MapTypeOK => ToolsTypeOK
  BY DEF ToolsTypeOK
<1> QED BY <1>1, PageTypesCorrect, TradingTypesCorrect, RunsPlanetServer, PlanetTypesCorrect,
           OrbitTypesCorrect, StarTypesCorrect, WorldTypesCorrect, MarketTypesCorrect, MapTypesCorrect, PTL
=============================================================================
