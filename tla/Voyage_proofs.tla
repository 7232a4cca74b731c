--------------------------- MODULE Voyage_proofs ---------------------------
(***************************************************************************)
(* What is proved of every voyage (simulator/executor.rs).                 *)
(*                                                                         *)
(* The calendar: every day gone by is in a period paid or in the one under *)
(* way.  Its invariant needs of the rest of the state only that the three  *)
(* counters are integers.                                                  *)
(*                                                                         *)
(* The cargo and the means, from one invariant: where in the loop goods    *)
(* may be marked and loaded, and what the bills still to come may be.  The *)
(* amounts are sums and folds, whose laws FoldTheorems proves.             *)
(***************************************************************************)
EXTENDS Voyage, FoldTheorems

\* DaysAccounted, and the types it needs.
CalendarInv ==
  /\ date \in Int /\ since \in Int /\ periods \in Int
  /\ DaysAccounted

Calendar == <<date, since, periods>>

\* Days enter the date and the period under way together (Spend).
LEMMA SpendKeeps ==
  ASSUME CalendarInv, NEW days \in Int, Spend(days), periods' = periods
  PROVE  CalendarInv'
<1>1. PeriodDays \in Int
  BY VoyageAssumption
<1>2. date' = date + days /\ since' = since + days
  BY DEF Spend
<1>3. date \in Int /\ since \in Int /\ periods \in Int /\ date = periods * PeriodDays + since
  BY DEF CalendarInv, DaysAccounted
<1>4. periods * PeriodDays \in Int
  BY <1>1, <1>3
<1>5. date' = periods' * PeriodDays + since'
  BY <1>2, <1>3, <1>4
<1> QED
  BY <1>2, <1>3, <1>5 DEF CalendarInv, DaysAccounted

\* A clamped difference is an integer.
LEMMA ClampedInt ==
  ASSUME NEW n \in Int PROVE AtLeast0(n) \in Int
BY DEF AtLeast0

\* An incident costs a whole number of weeks (run_incident_roll).
LEMMA IncidentKeeps ==
  ASSUME CalendarInv, Incident PROVE CalendarInv'
<1> DEFINE Kept == date' = date /\ since' = since
           Lost == \E weeks \in Int : Spend(weeks * DaysPerWeek)
<1>1. periods' = periods
  BY DEF Incident
<1>2. /\ D6 \subseteq Int /\ D2x6 \subseteq Int /\ DaysPerWeek \in Int
      /\ Leadership \in Int
  BY VoyageAssumption
<1>3. ASSUME NEW credits, NEW weeks \in Int, Mishap(credits, weeks)
      PROVE  Lost
  BY <1>3 DEF Mishap
<1>5. Kept \/ Piracy \/ Scam \/ CrewLoss \/ Accident \/ Government
  BY Zenon DEF Incident
<1>6. ASSUME Piracy PROVE Lost
  <2>1. PICK weeks \in D6 : Spend(weeks * DaysPerWeek)
    BY <1>6, Zenon DEF Piracy
  <2> QED
    BY <1>2, <2>1
<1>7. ASSUME Scam PROVE Lost
  <2>1. PICK r \in D2x6, die \in D6 \cap 1 .. 3 :
          Mishap(AtLeast0(r - Broker) * ScamStep, AtLeast0(die - Leadership))
    BY <1>7 DEF Scam
  <2>2. AtLeast0(die - Leadership) \in Int
    BY <1>2, ClampedInt
  <2> QED
    BY <1>3, <2>1, <2>2
<1>8. ASSUME CrewLoss PROVE Lost
  <2>1. PICK r \in D2x6 : Mishap(0, AtLeast0((r \div 2) - Leadership))
    BY <1>8 DEF CrewLoss
  <2>2. (r \div 2) - Leadership \in Int
    BY <1>2
  <2>3. AtLeast0((r \div 2) - Leadership) \in Int
    BY <2>2, ClampedInt
  <2> QED
    BY <1>3, <2>1, <2>3
<1>9. ASSUME Accident PROVE Lost
  <2>1. PICK die \in D6 : Mishap(die * AccidentStep, 0)
    BY <1>9 DEF Accident
  <2> QED
    BY <1>3, <2>1
<1>10. ASSUME Government PROVE Lost
  <2>1. PICK die \in D6, r \in D2x6 : Mishap(die * FineStep, r)
    BY <1>10 DEF Government
  <2> QED
    BY <1>2, <1>3, <2>1
<1>11. Kept \/ Lost
  BY <1>5, <1>6, <1>7, <1>8, <1>9, <1>10
<1>12. CASE Kept
  BY <1>1, <1>12 DEF CalendarInv, DaysAccounted
<1>13. CASE Lost
  <2>1. PICK weeks \in Int : Spend(weeks * DaysPerWeek)
    BY <1>13
  <2>2. weeks * DaysPerWeek \in Int
    BY <1>2, <2>1
  <2> QED
    BY <1>1, <2>1, <2>2, SpendKeeps
<1> QED
  BY <1>11, <1>12, <1>13

\* A payment moves PeriodDays from the period under way to one more paid.
LEMMA PayPeriodKeeps ==
  ASSUME CalendarInv, PayPeriod PROVE CalendarInv'
<1>1. PeriodDays \in Int
  BY VoyageAssumption
<1>2. date' = date /\ since' = since - PeriodDays /\ periods' = periods + 1
  BY DEF PayPeriod
<1>3. date \in Int /\ since \in Int /\ periods \in Int /\ date = periods * PeriodDays + since
  BY DEF CalendarInv, DaysAccounted
<1>4. periods' * PeriodDays = periods * PeriodDays + PeriodDays
  BY <1>1, <1>2, <1>3
<1>5. periods * PeriodDays \in Int
  BY <1>1, <1>3
<1>6. date' = periods' * PeriodDays + since'
  BY <1>1, <1>2, <1>3, <1>4, <1>5
<1> QED
  BY <1>1, <1>2, <1>3, <1>6 DEF CalendarInv, DaysAccounted

\* Every step of the voyage keeps the calendar.
LEMMA CalendarStep ==
  ASSUME CalendarInv, [VoyageStep]_voyageVars PROVE CalendarInv'
<1>1. ASSUME UNCHANGED Calendar PROVE CalendarInv'
  BY <1>1 DEF Calendar, CalendarInv, DaysAccounted
<1>2. CASE PayPeriod
  BY <1>2, PayPeriodKeeps
<1>3. CASE StayInPort
  <2>1. Spend(DaysInPort) /\ periods' = periods
    BY <1>3 DEF StayInPort
  <2>2. DaysInPort \in Int
    BY VoyageAssumption
  <2> QED
    BY <2>1, <2>2, SpendKeeps
<1>4. CASE Incident
  BY <1>4, IncidentKeeps
<1>5. CASE Arrive
  <2>1. Spend(DaysPerJump) /\ periods' = periods
    BY <1>5 DEF Arrive
  <2>2. DaysPerJump \in Int
    BY VoyageAssumption
  <2> QED
    BY <2>1, <2>2, SpendKeeps
<1>6. CASE GiveUp \/ Sell \/ SettleAtHome
  BY <1>1, <1>6 DEF GiveUp, Sell, SettleAtHome, Calendar
<1>7. CASE Route \/ Load \/ PaySupport \/ Jump
  BY <1>1, <1>7 DEF Route, Load, PaySupport, Jump, Calendar
<1>8. CASE UNCHANGED voyageVars
  BY <1>1, <1>8 DEF voyageVars, Calendar
<1> QED
  BY <1>2, <1>3, <1>4, <1>5, <1>6, <1>7, <1>8 DEF VoyageStep, Computes

\* DaysAccounted holds of every voyage: no week an incident costs, no port stay
\* and no jump escapes the 28-day payments of executor.rs step 1.
THEOREM EveryDayAccounted == VoyageSpec => []DaysAccounted
<1>1. VoyageInit => CalendarInv
  <2>1. PeriodDays \in Int
    BY VoyageAssumption
  <2> QED
    BY <2>1 DEF VoyageInit, CalendarInv, DaysAccounted
<1>2. CalendarInv /\ [VoyageStep]_voyageVars => CalendarInv'
  BY CalendarStep
<1>3. CalendarInv => DaysAccounted
  BY DEF CalendarInv
<1> QED
  BY <1>1, <1>2, <1>3, PTL DEF VoyageSpec

-----------------------------------------------------------------------------
(* The cargo.                                                              *)

\* The goods' tons are natural numbers, and so is what they add up to.
LEMMA TonsNat ==
  ASSUME NEW h \in Stock, NEW goods \in SUBSET Goods
  PROVE  TonsOf(h, goods) \in Nat
<1>1. IsFiniteSet(goods)
  BY VoyageAssumption, FS_Subset
<1>2. \A g \in goods : [k \in goods |-> h[k].tons][g] \in Nat
  BY DEF Stock
<1> QED BY <1>1, <1>2, SumNat DEF TonsOf

\* The tons of goods that are not marked are those of all, less those of the marked.
LEMMA TonsSplit ==
  ASSUME NEW h \in Stock, NEW goods \in SUBSET Goods
  PROVE  TonsOf(h, Goods) = TonsOf(h, goods) + TonsOf(h, Goods \ goods)
<1> DEFINE f == [g \in Goods |-> h[g].tons]
<1>1. IsFiniteSet(Goods)
  BY VoyageAssumption
<1>2. \A g \in Goods : f[g] \in Int
  BY DEF Stock
<1>3. \A s \in SUBSET Goods : SumOver([g \in s |-> h[g].tons], s) = SumOver(f, s)
  <2> SUFFICES ASSUME NEW s \in SUBSET Goods
               PROVE  SumOver([g \in s |-> h[g].tons], s) = SumOver(f, s)
    OBVIOUS
  <2> DEFINE k == [g \in s |-> h[g].tons]
  <2>1. IsFiniteSet(s)
    BY <1>1, FS_Subset
  <2>2. \A g \in s : f[g] \in Int /\ k[g] = f[g]
    BY <1>2
  <2> HIDE DEF f, k
  <2>3. SumOver(k, s) = SumOver(f, s)
    BY <2>1, <2>2, SumEqual
  <2> QED BY <2>3 DEF k
<1> HIDE DEF f
<1>4. SumOver(f, Goods) = SumOver(f, goods) + SumOver(f, Goods \ goods)
  BY <1>1, <1>2, SumSplit
<1>5. /\ TonsOf(h, Goods) = SumOver(f, Goods) /\ TonsOf(h, goods) = SumOver(f, goods)
      /\ TonsOf(h, Goods \ goods) = SumOver(f, Goods \ goods)
  BY <1>3, Zenon DEF TonsOf, f
<1> QED BY <1>4, <1>5, Zenon

\* An empty hold weighs nothing.
LEMMA NoLoadWeighsNothing ==
  NoLoad.buys \in Stock /\ Tons(NoLoad.buys) = 0
<1>1. NoLoad.buys \in Stock /\ DOMAIN NoLoad.buys = Goods
  BY DEF NoLoad, Stock
<1>2. \A g \in Goods : [k \in Goods |-> NoLoad.buys[k].tons][g] = 0
  BY DEF NoLoad
<1>3. TonsOf(NoLoad.buys, Goods) = 0
  BY <1>2, VoyageAssumption, SumZero DEF TonsOf
<1> QED BY <1>1, <1>3 DEF Tons

\* process_trades moves tons and changes none: what was not sold stays, and what
\* was bought joins it.
LEMMA RestockedTons ==
  ASSUME hold \in Stock, sold \subseteq Goods, NEW buys \in Stock
  PROVE  /\ Restocked(buys) \in Stock
         /\ TonsOf(Restocked(buys), Goods) = TonsOf(hold, Goods \ sold) + Tons(buys)
<1> DEFINE left == [g \in Goods |-> IF g \in sold THEN 0 ELSE hold[g].tons]
           bought == [g \in Goods |-> buys[g].tons]
           after == [g \in Goods |-> Restocked(buys)[g].tons]
           rest == Goods \ sold
           kept == [g \in rest |-> hold[g].tons]
<1>1. IsFiniteSet(Goods) /\ IsFiniteSet(rest) /\ IsFiniteSet(sold)
  BY VoyageAssumption, FS_Subset
<1>2. Restocked(buys) \in Stock
  BY DEF Restocked, Stock
<1>3. \A g \in Goods : left[g] \in Int /\ bought[g] \in Int /\ after[g] = left[g] + bought[g]
  BY DEF Restocked, Stock
<1>4. SumOver(left, sold) = 0
  <2>1. \A g \in sold : left[g] = 0
    OBVIOUS
  <2> HIDE DEF left
  <2> QED BY <1>1, <2>1, SumZero
<1>5. SumOver(kept, rest) = SumOver(left, rest)
  <2>1. \A g \in rest : left[g] \in Int /\ kept[g] = left[g]
    BY <1>3
  <2> HIDE DEF left, kept, rest
  <2> QED BY <1>1, <2>1, SumEqual
<1>6. SumOver(after, Goods) = SumOver(left, Goods) + SumOver(bought, Goods)
  <2> HIDE DEF after, left, bought
  <2> QED BY <1>1, <1>3, SumPlus
<1>7. SumOver(left, Goods) = SumOver(left, sold) + SumOver(left, rest)
  <2> HIDE DEF left
  <2> QED BY <1>1, <1>3, SumSplit
<1>8. SumOver(left, rest) \in Int
  <2> HIDE DEF left
  <2> QED BY <1>1, <1>3, SumType
<1>9. TonsOf(Restocked(buys), Goods) = SumOver(after, Goods) /\ TonsOf(hold, rest) = SumOver(kept, rest)
  BY DEF TonsOf
<1>10. Tons(buys) = SumOver(bought, Goods)
  <2>1. DOMAIN buys = Goods
    BY DEF Stock
  <2> QED BY <2>1, Zenon DEF Tons, TonsOf
<1> HIDE DEF after, left, bought, kept
<1> QED BY <1>2, <1>4, <1>5, <1>6, <1>7, <1>8, <1>9, <1>10

LEMMA DivBound ==
  ASSUME NEW m \in Nat, NEW b \in Nat, b > 0
  PROVE  m \div b \in Nat /\ (m \div b) * b <= m
OBVIOUS

LEMMA TimesMono == \A t, q, b \in Nat : t <= q => t * b <= q * b
OBVIOUS

LEMMA NatTimes == \A a, b \in Nat : a * b \in Nat
OBVIOUS

\* What a purchase planner with m credits can have got so far.
Got(m) ==
  {got \in [room : Nat, money : 0 .. m, buys : Stock] :
     m = 0 => \A g \in Goods : got.buys[g].tons = 0}

\* pick_to_buy takes of a good no more than room and money allow.
LEMMA TakeKeeps ==
  ASSUME NEW m \in Nat, NEW got \in Got(m), NEW market \in Markets, NEW g \in Goods,
         market[g].buy > 0
  PROVE  Take(market, got, g) \in Got(m)
<1> DEFINE tons == AtLeast0(Lower(market[g].tons, Lower(got.room, got.money \div market[g].buy)))
           afford == got.money \div market[g].buy
           entry == IF tons > 0 THEN [tons |-> tons, cost |-> market[g].buy] ELSE got.buys[g]
           buys == [got.buys EXCEPT ![g] = entry]
<1>1. market[g].tons \in Nat /\ market[g].buy \in Nat
  BY VoyageAssumption DEF Offer
<1>2. /\ got.room \in Nat /\ got.money \in 0 .. m /\ got.buys \in Stock
      /\ m = 0 => \A k \in Goods : got.buys[k].tons = 0
  BY DEF Got
<1>3. afford \in Nat /\ afford * market[g].buy <= got.money
  <2>1. got.money \in Nat
    BY <1>2
  <2> QED BY <1>1, <2>1, DivBound
<1>4. tons \in Nat /\ tons <= got.room /\ tons <= afford
  <2> HIDE DEF afford
  <2> QED BY <1>1, <1>2, <1>3 DEF AtLeast0, Lower, afford
<1> HIDE DEF tons, afford
<1>5. tons * market[g].buy <= got.money /\ tons * market[g].buy \in Nat
  <2>1. tons * market[g].buy <= afford * market[g].buy
    BY <1>1, <1>3, <1>4, TimesMono
  <2>2. tons * market[g].buy \in Nat /\ afford * market[g].buy \in Nat
    BY <1>1, <1>3, <1>4, NatTimes
  <2> QED BY <1>2, <1>3, <2>1, <2>2
<1>6. m = 0 => tons = 0
  <2> SUFFICES ASSUME m = 0 PROVE tons = 0
    OBVIOUS
  <2>1. afford = 0
    <3>1. \A q, b \in Nat : b > 0 /\ q * b <= 0 => q = 0
      OBVIOUS
    <3>2. afford * market[g].buy <= 0
      BY <1>2, <1>3
    <3> QED BY <1>1, <1>3, <3>1, <3>2
  <2> QED BY <1>4, <2>1
<1>7. buys \in Stock
  <2>1. entry \in [tons : Nat, cost : Nat]
    BY <1>1, <1>2, <1>4 DEF Stock
  <2> HIDE DEF entry
  <2> QED BY <1>2, <2>1 DEF Stock
<1>8. m = 0 => \A k \in Goods : buys[k].tons = 0
  BY <1>2, <1>6 DEF Stock
<1>9. Take(market, got, g) = [room |-> got.room - tons, money |-> got.money - tons * market[g].buy,
                              buys |-> buys]
  BY DEF Take, tons
<1>10. got.room - tons \in Nat /\ got.money - tons * market[g].buy \in 0 .. m
  <2>1. \A r, t \in Nat : t <= r => r - t \in Nat
    OBVIOUS
  <2>2. \A a, b, c \in Nat : a <= c /\ b <= a => a - b \in 0 .. c
    OBVIOUS
  <2>3. got.money \in Nat /\ got.money <= m
    BY <1>2
  <2>4. got.room - tons \in Nat
    BY ONLY <1>2, <1>4, <2>1
  <2>5. got.money - tons * market[g].buy \in 0 .. m
    BY ONLY <1>5, <2>2, <2>3, m \in Nat
  <2> QED BY <2>4, <2>5
<1> HIDE DEF buys
<1> QED BY <1>7, <1>8, <1>9, <1>10 DEF Got

\* And so for the whole list: pick_to_buy spends no more than it was given, and
\* with nothing to spend buys nothing.
LEMMA BuyKeeps ==
  ASSUME NEW market \in Markets, NEW goods \in SUBSET Goods, \A g \in goods : market[g].buy > 0,
         NEW order \in SetToSeqs(goods), NEW room \in Nat, NEW m \in Nat
  PROVE  Buy(market, order, room, m) \in Got(m)
<1> DEFINE n == Cardinality(goods)
           S == 1 .. n
           base == [room |-> room, money |-> m, buys |-> NoLoad.buys]
           c == [s \in SUBSET S |-> Max(s)]
           F == [p \in Got(m) \X S |-> Take(market, p[1], order[p[2]])]
           Fold(h) == h = [s \in SUBSET DOMAIN order |->
                             IF s = {} THEN base
                             ELSE LET x == Max(s) IN Take(market, h[s \ {x}], order[x])]
           iter == CHOOSE h : Fold(h)
<1>1. n \in Nat /\ IsFiniteSet(S)
  <2>1. IsFiniteSet(goods)
    BY VoyageAssumption, FS_Subset
  <2> QED BY <2>1, FS_CardinalityType, FS_Interval
<1>2. order \in [S -> goods] /\ DOMAIN order = S
  BY DEF SetToSeqs
<1>3. \A s \in SUBSET S : s # {} => c[s] \in s
  <2> HIDE DEF n
  <2> QED BY <1>1, LastIndex
<1>4. base \in Got(m)
  BY NoLoadWeighsNothing DEF Got, NoLoad
<1>5. \A a \in Got(m), x \in S : F[<<a, x>>] \in Got(m) /\ F[<<a, x>>] = Take(market, a, order[x])
  <2> SUFFICES ASSUME NEW a \in Got(m), NEW x \in S
               PROVE  Take(market, a, order[x]) \in Got(m)
    OBVIOUS
  <2>1. order[x] \in Goods /\ market[order[x]].buy > 0
    BY <1>2
  <2> HIDE DEF S
  <2> QED BY <2>1, TakeKeeps
<1> HIDE DEF F, base, S
<1>6. \E h : Fold(h)
  <2>1. PICK h : Recursive(h, base, F, c, Got(m), S)
    <3>1. Within(F, Got(m), S) /\ Chooses(c, S)
      BY <1>3, <1>5 DEF Within, Chooses
    <3> HIDE DEF c
    <3> QED BY <1>1, <1>4, <3>1, RecursionExists
  <2>2. ASSUME NEW s \in SUBSET S
        PROVE  h[s] = IF s = {} THEN base ELSE Take(market, h[s \ {Max(s)}], order[Max(s)])
    <3>1. CASE s = {}
      BY <2>1, <3>1 DEF Recursive, Rec
    <3>2. CASE s # {}
      <4>1. Max(s) \in S /\ c[s] = Max(s)
        BY <1>3, <3>2
      <4>2. h[s \ {Max(s)}] \in Got(m)
        BY <2>1 DEF Recursive
      <4>3. h[s] = F[<<h[s \ {Max(s)}], Max(s)>>]
        BY <2>1, <3>2, <4>1 DEF Recursive, Rec
      <4> QED BY <1>5, <3>2, <4>1, <4>2, <4>3
    <3> QED BY <3>1, <3>2
  <2>3. h = [s \in SUBSET S |-> IF s = {} THEN base ELSE Take(market, h[s \ {Max(s)}], order[Max(s)])]
    BY <2>1, <2>2 DEF Recursive
  <2> QED BY <1>2, <2>3
<1>7. Fold(iter)
  BY <1>6
<1>8. Buy(market, order, room, m) = iter[S]
  BY <1>2 DEF Buy, FoldLeft, MapThenFoldSet, base
<1>9. ASSUME NEW s \in SUBSET S
      PROVE  iter[s] = IF s = {} THEN base ELSE Take(market, iter[s \ {Max(s)}], order[Max(s)])
  BY <1>2, <1>7
<1> HIDE DEF iter
<1>10. iter[{}] \in Got(m)
  BY <1>4, <1>9
<1>11. ASSUME NEW s \in SUBSET S, s # {}, iter[s \ {c[s]}] \in Got(m)
       PROVE  iter[s] \in Got(m)
  <2>1. Max(s) \in S /\ c[s] = Max(s)
    BY <1>3, <1>11
  <2> QED BY <1>5, <1>9, <1>11, <2>1
<1>12. \A s \in SUBSET S : iter[s] \in Got(m)
  <2>1. Chooses(c, S)
    BY <1>3 DEF Chooses
  <2> HIDE DEF c
  <2> QED BY <1>1, <1>10, <1>11, <2>1, RecursionKeeps
<1> QED BY <1>8, <1>12

\* pick_freight takes no more than fits.
LEMMA FreightNat ==
  ASSUME NEW lots \in Seq(Nat), NEW order \in SetToSeqs(DOMAIN lots), NEW room \in Nat
  PROVE  FreightTons(lots, order, room) \in Nat
<1> DEFINE n == Cardinality(DOMAIN lots)
           S == 1 .. n
           A == 0 .. room
           Fill(left, i) == IF lots[i] <= left THEN left - lots[i] ELSE left
           c == [s \in SUBSET S |-> Max(s)]
           F == [p \in A \X S |-> Fill(p[1], order[p[2]])]
           Fold(h) == h = [s \in SUBSET DOMAIN order |->
                             IF s = {} THEN room
                             ELSE LET x == Max(s) IN Fill(h[s \ {x}], order[x])]
           iter == CHOOSE h : Fold(h)
<1>1. n \in Nat /\ IsFiniteSet(S)
  <2>1. DOMAIN lots = 1 .. Len(lots) /\ Len(lots) \in Nat
    OBVIOUS
  <2>2. IsFiniteSet(DOMAIN lots)
    BY <2>1, FS_Interval
  <2> QED BY <2>2, FS_CardinalityType, FS_Interval
<1>2. order \in [S -> DOMAIN lots] /\ DOMAIN order = S
  BY DEF SetToSeqs
<1>3. \A s \in SUBSET S : s # {} => c[s] \in s
  <2> HIDE DEF n
  <2> QED BY <1>1, LastIndex
<1>4. room \in A
  OBVIOUS
<1>5. \A a \in A, x \in S : F[<<a, x>>] \in A /\ F[<<a, x>>] = Fill(a, order[x])
  <2> SUFFICES ASSUME NEW a \in A, NEW x \in S PROVE Fill(a, order[x]) \in A
    OBVIOUS
  <2>1. order[x] \in DOMAIN lots
    BY <1>2
  <2>2. lots[order[x]] \in Nat
    BY <2>1
  <2> QED BY <2>2
<1> HIDE DEF F, S, Fill, A
<1>6. \E h : Fold(h)
  <2>1. PICK h : Recursive(h, room, F, c, A, S)
    <3>1. Within(F, A, S) /\ Chooses(c, S)
      BY <1>3, <1>5 DEF Within, Chooses
    <3> HIDE DEF c
    <3> QED BY <1>1, <1>4, <3>1, RecursionExists
  <2>2. ASSUME NEW s \in SUBSET S
        PROVE  h[s] = IF s = {} THEN room ELSE Fill(h[s \ {Max(s)}], order[Max(s)])
    <3>1. CASE s = {}
      BY <2>1, <3>1 DEF Recursive, Rec
    <3>2. CASE s # {}
      <4>1. Max(s) \in S /\ c[s] = Max(s)
        BY <1>3, <3>2
      <4>2. h[s \ {Max(s)}] \in A
        BY <2>1 DEF Recursive
      <4>3. h[s] = F[<<h[s \ {Max(s)}], Max(s)>>]
        BY <2>1, <3>2, <4>1 DEF Recursive, Rec
      <4> QED BY <1>5, <3>2, <4>1, <4>2, <4>3
    <3> QED BY <3>1, <3>2
  <2>3. h = [s \in SUBSET S |-> IF s = {} THEN room ELSE Fill(h[s \ {Max(s)}], order[Max(s)])]
    BY <2>1, <2>2 DEF Recursive
  <2> QED BY <1>2, <2>3
<1>7. Fold(iter)
  BY <1>6
<1>8. FreightTons(lots, order, room) = room - iter[S]
  BY <1>2 DEF FreightTons, FoldLeft, MapThenFoldSet, Fill
<1>9. ASSUME NEW s \in SUBSET S
      PROVE  iter[s] = IF s = {} THEN room ELSE Fill(iter[s \ {Max(s)}], order[Max(s)])
  BY <1>2, <1>7
<1> HIDE DEF iter
<1>10. iter[{}] \in A
  BY <1>4, <1>9
<1>11. ASSUME NEW s \in SUBSET S, s # {}, iter[s \ {c[s]}] \in A
       PROVE  iter[s] \in A
  <2>1. Max(s) \in S /\ c[s] = Max(s)
    BY <1>3, <1>11
  <2> QED BY <1>5, <1>9, <1>11, <2>1
<1>12. \A s \in SUBSET S : iter[s] \in A
  <2>1. Chooses(c, S)
    BY <1>3 DEF Chooses
  <2> HIDE DEF c
  <2> QED BY <1>1, <1>10, <1>11, <2>1, RecursionKeeps
<1>13. iter[S] \in 0 .. room
  BY <1>12 DEF A
<1> QED BY <1>8, <1>13

-----------------------------------------------------------------------------
(* The invariant.  Goods are marked only between the sale and the arrival, *)
(* and something is loaded only between the purchase and the arrival; a    *)
(* ship that has bought has kept what the bills still to come may be.      *)

Owed ==
  CASE pc = "support" -> Distance[at][next] * FuelCost + load.support
    [] pc = "jump" -> Distance[at][next] * FuelCost
    [] OTHER -> 0

VoyageInv ==
  /\ VoyageTypeOK
  /\ pc \in {"costs", "incident", "sell"} => sold = {}
  /\ outcome # "none" => pc = "over"
  /\ pc \in {"support", "jump", "arrive"} \/ outcome = "marooned" \/ load = NoLoad
  /\ CargoConserved
  /\ Tons(load.buys) > 0 => outcome # "marooned" /\ budget >= Owed

LEMMA Numbers ==
  /\ {JumpRating, Capacity, Rooms, Berths, FuelCost} \subseteq Nat
  /\ Leadership \in Int /\ Weapons \in Int /\ Broker \in Int
  /\ Maintenance \in Nat /\ Salary \in Nat /\ Mortgage \in Nat /\ CrewCost \in Nat
  /\ StartBudget \in Int
  /\ DaysInPort \in Nat /\ DaysPerJump \in Nat /\ DaysPerWeek \in Nat /\ PeriodDays \in Nat
  /\ D6 \subseteq Nat /\ D2x6 \subseteq Nat
BY VoyageAssumption

LEMMA ClampedNat ==
  ASSUME NEW n \in Int PROVE AtLeast0(n) \in Nat
BY DEF AtLeast0

\* pick_passengers fills no more staterooms and berths than there are.
LEMMA BoardedFit ==
  ASSUME NEW crowd \in Crowd
  PROVE  LET p == Boarded(crowd) IN
         /\ p \in [high : Nat, medium : Nat, basic : Nat, low : Nat]
         /\ p.high + p.medium <= Rooms /\ p.basic <= 2 * (Rooms - p.high - p.medium) /\ p.low <= Berths
<1> DEFINE high == Lower(crowd.high, Rooms)
           medium == Lower(crowd.medium, Rooms - high)
           basic == Lower(crowd.basic, 2 * (Rooms - high - medium))
           low == Lower(crowd.low, Berths)
<1>1. /\ crowd.high \in Nat /\ crowd.medium \in Nat /\ crowd.basic \in Nat /\ crowd.low \in Nat
      /\ Rooms \in Nat /\ Berths \in Nat
  BY Numbers DEF Crowd
<1>2. high \in Nat /\ high <= Rooms
  BY <1>1 DEF Lower
<1>3. medium \in Nat /\ high + medium <= Rooms
  <2> HIDE DEF high
  <2> QED BY <1>1, <1>2 DEF Lower
<1>4. basic \in Nat /\ basic <= 2 * (Rooms - high - medium)
  <2> HIDE DEF high, medium
  <2> QED BY <1>1, <1>2, <1>3 DEF Lower
<1>5. low \in Nat /\ low <= Berths
  BY <1>1 DEF Lower
<1>6. Boarded(crowd) = [high |-> high, medium |-> medium, basic |-> basic, low |-> low]
  BY Zenon DEF Boarded, high, medium, basic, low
<1> HIDE DEF high, medium, basic, low
<1> QED BY <1>2, <1>3, <1>4, <1>5, <1>6

\* A ship's life support never costs more than pax_reserve_estimate sets aside.
LEMMA SupportWithinReserve ==
  ASSUME NEW crowd \in Crowd
  PROVE  /\ Support(Boarded(crowd)) \in Nat /\ Support(Boarded(crowd)) <= Reserve
         /\ Reserve \in Nat
<1>1. PICK p : p = Boarded(crowd)
  OBVIOUS
<1>2. /\ p \in [high : Nat, medium : Nat, basic : Nat, low : Nat]
      /\ p.high + p.medium <= Rooms /\ p.basic <= 2 * (Rooms - p.high - p.medium) /\ p.low <= Berths
  BY <1>1, BoardedFit, Zenon
<1>3. p.high \in Nat /\ p.medium \in Nat /\ p.basic \in Nat /\ p.low \in Nat
      /\ Rooms \in Nat /\ Berths \in Nat /\ CrewCost \in Nat
  BY <1>2, Numbers
<1>4. Reserve = 3000 * Rooms + 100 * Berths + CrewCost
  BY <1>3 DEF Reserve, Support
<1>5. Support(p) \in Nat /\ Support(p) <= 3000 * Rooms + 100 * Berths + CrewCost
  <2>1. PICK rooms : rooms = (p.basic + 1) \div 2
    OBVIOUS
  <2>2. rooms \in Nat /\ 2 * rooms <= p.basic + 1
    BY <1>3, <2>1
  <2>3. Support(p) = 1000 * (p.high + p.medium + rooms) + 2000 * p.high + 1000 * p.medium
                       + 500 * p.basic + 100 * p.low + CrewCost
    BY <1>3, <2>1 DEF Support
  <2>4. \A h, m, b, l, q, r, n, c \in Nat :
          h + m <= r /\ b <= 2 * (r - h - m) /\ l <= n /\ 2 * q <= b + 1 =>
            /\ 1000 * (h + m + q) + 2000 * h + 1000 * m + 500 * b + 100 * l + c \in Nat
            /\ 1000 * (h + m + q) + 2000 * h + 1000 * m + 500 * b + 100 * l + c
                 <= 3000 * r + 100 * n + c
    OBVIOUS
  <2> QED BY ONLY <1>2, <1>3, <2>2, <2>3, <2>4
<1> QED BY <1>1, <1>3, <1>4, <1>5

LEMMA FaresNat ==
  \A d \in 1 .. 6 : /\ Fare.high[d] \in Nat /\ Fare.medium[d] \in Nat /\ Fare.basic[d] \in Nat
                    /\ Fare.low[d] \in Nat /\ FreightRate[d] \in Nat
BY DEF Fare, FreightRate

\* What travellers and freight pay for the jump, and what they weigh.
LEMMA RevenueNat ==
  ASSUME NEW crowd \in Crowd, NEW d \in Nat, NEW cargo \in Nat
  PROVE  /\ PaxTons(Boarded(crowd)) \in Nat
         /\ PaxRevenue(Boarded(crowd), Parsecs(d)) + FreightRate[Parsecs(d)] * cargo \in Nat
<1>1. PICK p : p = Boarded(crowd)
  OBVIOUS
<1>2. p \in [high : Nat, medium : Nat, basic : Nat, low : Nat]
  BY <1>1, BoardedFit, Zenon
<1>3. p.high \in Nat /\ p.medium \in Nat /\ p.basic \in Nat /\ p.low \in Nat
  BY <1>2
<1>4. PICK e : e = Parsecs(d)
  OBVIOUS
<1>5. e \in 1 .. 6
  BY <1>4 DEF Parsecs, Lower
<1>6. PaxTons(p) \in Nat
  BY <1>3 DEF PaxTons
<1>7. /\ Fare.high[e] * p.high \in Nat /\ Fare.medium[e] * p.medium \in Nat
      /\ Fare.basic[e] * p.basic \in Nat /\ Fare.low[e] * p.low \in Nat
      /\ FreightRate[e] * cargo \in Nat
  BY <1>3, <1>5, FaresNat, NatTimes
<1>8. \A a, b \in Nat : a + b \in Nat
  OBVIOUS
<1>9. PaxRevenue(p, e) \in Nat
  BY ONLY <1>7, <1>8 DEF PaxRevenue
<1>10. PaxRevenue(p, e) + FreightRate[e] * cargo \in Nat
  BY ONLY <1>7, <1>8, <1>9
<1> QED BY <1>1, <1>4, <1>6, <1>10

\* What an incident costs: credits and days; what pirates take leaves the hold.
LEMMA IncidentCosts ==
  ASSUME VoyageTypeOK, Incident
  PROVE  \E credits, days \in Nat, stolen \in Int :
           /\ budget' = budget - credits /\ date' = date + days /\ since' = since + days
           /\ traded' = traded - stolen
           /\ hold' \in Stock /\ Tons(hold') = Tons(hold) - stolen
           /\ negative' \in BOOLEAN
<1> DEFINE Cost(credits, days, stolen) ==
             /\ budget' = budget - credits /\ date' = date + days /\ since' = since + days
             /\ traded' = traded - stolen
             /\ hold' \in Stock /\ Tons(hold') = Tons(hold) - stolen
             /\ negative' \in BOOLEAN
<1>1. /\ hold \in Stock /\ Tons(hold) \in Nat /\ budget \in Int /\ date \in Nat /\ since \in Nat
      /\ traded \in Int /\ negative \in BOOLEAN
  <2>1. DOMAIN hold = Goods /\ hold \in Stock
    BY DEF VoyageTypeOK, Stock
  <2>2. TonsOf(hold, Goods) \in Nat
    BY <2>1, TonsNat
  <2>3. Tons(hold) \in Nat
    BY <2>1, <2>2 DEF Tons
  <2> QED BY <2>3, Zenon DEF VoyageTypeOK
<1>2. ASSUME NEW credits \in Nat, NEW weeks \in Nat, Mishap(credits, weeks), UNCHANGED hold
      PROVE  Cost(credits, weeks * DaysPerWeek, 0) /\ weeks * DaysPerWeek \in Nat
  <2>1. weeks * DaysPerWeek \in Nat
    BY Numbers, NatTimes
  <2>2. budget' = budget - credits /\ traded' = traded - 0
    BY <1>1, <1>2 DEF Mishap, Pay, Account
  <2>3. date' = date + weeks * DaysPerWeek /\ since' = since + weeks * DaysPerWeek
    BY <1>2, Zenon DEF Mishap, Spend
  <2>4. hold' \in Stock /\ Tons(hold') = Tons(hold) - 0
    <3>1. Tons(hold') = Tons(hold)
      BY <1>2, Zenon
    <3> QED BY <1>1, <1>2, <3>1
  <2>5. negative' \in BOOLEAN
    BY <1>2, <1>1, Zenon DEF Mishap, NoteDebt
  <2> QED BY <2>1, <2>2, <2>3, <2>4, <2>5, Zenon
<1>3. ASSUME Piracy PROVE \E credits, days \in Nat, stolen \in Int : Cost(credits, days, stolen)
  <2>1. PICK force \in D2x6, damage \in D2x6, weeks \in D6 :
          LET share  == AtLeast0(Lower(force - Weapons, 10))
              target == (Tons(hold) * share * 10) \div 100
          IN  /\ Account(AtLeast0(damage - Leadership) * Maintenance, -target)
              /\ NoteDebt
              /\ Spend(weeks * DaysPerWeek)
              /\ hold' \in Plundered(hold, target)
    BY <1>3, Zenon DEF Piracy
  <2>2. PICK share : share = AtLeast0(Lower(force - Weapons, 10))
    OBVIOUS
  <2>3. PICK target : target = (Tons(hold) * share * 10) \div 100
    OBVIOUS
  <2>4. PICK credits : credits = AtLeast0(damage - Leadership) * Maintenance
    OBVIOUS
  <2>5. PICK days : days = weeks * DaysPerWeek
    OBVIOUS
  <2>6. share \in Nat
    BY Numbers, <2>2 DEF AtLeast0, Lower
  <2>7. target \in Int
    <3>1. Tons(hold) * share \in Nat
      BY <1>1, <2>6, NatTimes
    <3> QED BY <2>3, <3>1
  <2>8. credits \in Nat
    <3>1. damage - Leadership \in Int
      BY Numbers
    <3>2. AtLeast0(damage - Leadership) \in Nat
      BY <3>1, ClampedNat
    <3> QED BY <2>4, <3>2, Numbers, NatTimes
  <2>9. days \in Nat
    BY <2>5, Numbers, NatTimes
  <2>10. /\ Account(credits, -target) /\ NoteDebt /\ Spend(days) /\ hold' \in Plundered(hold, target)
    BY <2>1, <2>2, <2>3, <2>4, <2>5, Zenon
  <2>11. budget' = budget - credits /\ traded' = traded - target
    BY <1>1, <2>7, <2>10 DEF Account
  <2>12. date' = date + days /\ since' = since + days
    BY <2>10 DEF Spend
  <2>13. negative' \in BOOLEAN
    BY <1>1, <2>10, Zenon DEF NoteDebt
  <2>14. Tons(hold') = Tons(hold) - target
    <3>1. \A k \in Plundered(hold, target) : Tons(k) = Tons(hold) - target
      BY Zenon DEF Plundered
    <3> QED BY <2>10, <3>1, Zenon
  <2>15. hold' \in Stock
    <3>1. PICK k : k = hold'
      OBVIOUS
    <3>2. k \in [Goods -> [tons : 0 .. Tons(hold), cost : {hold[g].cost : g \in Goods}]]
      BY <2>10, <3>1, Zenon DEF Plundered
    <3>3. {hold[g].cost : g \in Goods} \subseteq Nat /\ 0 .. Tons(hold) \subseteq Nat
      BY <1>1 DEF Stock
    <3>4. k \in Stock
      BY <3>2, <3>3 DEF Stock
    <3> QED BY <3>1, <3>4
  <2> QED BY <2>7, <2>8, <2>9, <2>11, <2>12, <2>13, <2>14, <2>15
<1>4. \A a, b \in Nat : a * b \in Nat
  BY NatTimes
<1>5. ASSUME Scam, UNCHANGED hold PROVE \E credits, days \in Nat, stolen \in Int : Cost(credits, days, stolen)
  <2>1. PICK r \in D2x6, die \in D6 \cap 1 .. 3 :
          Mishap(AtLeast0(r - Broker) * ScamStep, AtLeast0(die - Leadership))
    BY <1>5, Zenon DEF Scam
  <2>2. AtLeast0(r - Broker) \in Nat /\ AtLeast0(die - Leadership) \in Nat /\ ScamStep \in Nat
    BY Numbers, ClampedNat DEF ScamStep
  <2>3. AtLeast0(r - Broker) * ScamStep \in Nat
    BY <1>4, <2>2
  <2> HIDE DEF Cost
  <2> QED BY <1>2, <1>5, <2>1, <2>2, <2>3
<1>6. ASSUME CrewLoss, UNCHANGED hold PROVE \E credits, days \in Nat, stolen \in Int : Cost(credits, days, stolen)
  <2>1. PICK r \in D2x6 : Mishap(0, AtLeast0((r \div 2) - Leadership))
    BY <1>6, Zenon DEF CrewLoss
  <2>2. (r \div 2) - Leadership \in Int
    BY Numbers
  <2>3. AtLeast0((r \div 2) - Leadership) \in Nat
    BY <2>2, ClampedNat
  <2> HIDE DEF Cost
  <2> QED BY <1>2, <1>6, <2>1, <2>3
<1>7. ASSUME Accident, UNCHANGED hold PROVE \E credits, days \in Nat, stolen \in Int : Cost(credits, days, stolen)
  <2>1. PICK die \in D6 : Mishap(die * AccidentStep, 0)
    BY <1>7, Zenon DEF Accident
  <2>2. die * AccidentStep \in Nat
    BY Numbers DEF AccidentStep
  <2> HIDE DEF Cost
  <2> QED BY <1>2, <1>7, <2>1, <2>2
<1>8. ASSUME Government, UNCHANGED hold PROVE \E credits, days \in Nat, stolen \in Int : Cost(credits, days, stolen)
  <2>1. PICK die \in D6, r \in D2x6 : Mishap(die * FineStep, r)
    BY <1>8, Zenon DEF Government
  <2>2. die * FineStep \in Nat /\ r \in Nat
    BY Numbers DEF FineStep
  <2> HIDE DEF Cost
  <2> QED BY <1>2, <1>8, <2>1, <2>2
<1>9. ASSUME UNCHANGED <<date, since, budget, negative, hold, traded>> PROVE Cost(0, 0, 0)
  <2>1. Tons(hold') = Tons(hold)
    BY <1>9, Zenon
  <2> QED BY <1>1, <1>9, <2>1
<1>10. \/ UNCHANGED <<date, since, budget, negative, hold, traded>>
       \/ Piracy
       \/ Scam /\ UNCHANGED hold
       \/ CrewLoss /\ UNCHANGED hold
       \/ Accident /\ UNCHANGED hold
       \/ Government /\ UNCHANGED hold
  <2>1. PICK roll \in D2x6, table \in D2x6 :
          LET total == table + TableModifier(at)
          IN  \/ Avoided(roll) /\ UNCHANGED <<date, since, budget, negative, hold, traded>>
              \/ ~Avoided(roll) /\ total <= 4 /\ Piracy
              \/ ~Avoided(roll) /\ total \in 5 .. 6 /\ Scam /\ UNCHANGED hold
              \/ ~Avoided(roll) /\ total = 7 /\ CrewLoss /\ UNCHANGED hold
              \/ ~Avoided(roll) /\ total \in 8 .. 9 /\ Accident /\ UNCHANGED hold
              \/ ~Avoided(roll) /\ total >= 10 /\ Government /\ UNCHANGED hold
    BY Zenon DEF Incident
  <2> QED BY <2>1, Zenon
<1> HIDE DEF Cost
<1>11. \E credits, days \in Nat, stolen \in Int : Cost(credits, days, stolen)
  BY <1>3, <1>5, <1>6, <1>7, <1>8, <1>9, <1>10
<1> QED BY <1>11, Zenon DEF Cost

\* What the hold and the purchases weigh.
LEMMA TonsAre ==
  ASSUME VoyageTypeOK
  PROVE  /\ Tons(hold) = TonsOf(hold, Goods) /\ Tons(load.buys) = TonsOf(load.buys, Goods)
         /\ Tons(hold) \in Nat /\ Tons(load.buys) \in Nat /\ TonsOf(hold, Goods \ sold) \in Nat
<1>1. /\ hold \in Stock /\ load.buys \in Stock
      /\ DOMAIN hold = Goods /\ DOMAIN load.buys = Goods
  BY DEF VoyageTypeOK, Stock
<1>2. /\ TonsOf(hold, Goods) \in Nat /\ TonsOf(load.buys, Goods) \in Nat
      /\ TonsOf(hold, Goods \ sold) \in Nat
  BY <1>1, TonsNat
<1>3. Tons(hold) = TonsOf(hold, Goods) /\ Tons(load.buys) = TonsOf(load.buys, Goods)
  BY <1>1, Zenon DEF Tons
<1> QED BY <1>2, <1>3

LEMMA NoLoadTyped ==
  /\ NoLoad \in [buys : Stock, freight : Nat, pax : Nat, support : Nat, revenue : Nat]
  /\ Tons(NoLoad.buys) = 0
BY NoLoadWeighsNothing DEF NoLoad

\* What is bought is paid for, and leaves what fuel and life support may cost.
LEMMA LoadKeeps ==
  ASSUME VoyageInv, Load PROVE VoyageInv'
<1>1. PICK crowd \in Passengers, market \in Markets :
       LET d    == Distance[at][next]
           pax  == Boarded(crowd)
           room == AtLeast0(Capacity - PaxTons(pax))
       IN  \E best \in BestFirst(market, Worthwhile(market, FreightRate[Parsecs(d)])),
              largest \in LargestFirst(crowd.lots) :
             LET got   == Buy(market, best, room, BuyBudget(d))
                 cargo == FreightTons(crowd.lots, largest, got.room)
             IN  /\ Account(BuyBudget(d) - got.money, Tons(got.buys))
                 /\ load' = [buys |-> got.buys, freight |-> cargo, pax |-> PaxTons(pax),
                             support |-> Support(pax),
                             revenue |-> PaxRevenue(pax, Parsecs(d)) + FreightRate[Parsecs(d)] * cargo]
  BY Zenon DEF Load
<1>2. PICK d : d = Distance[at][next]
  OBVIOUS
<1>3. PICK pax : pax = Boarded(crowd)
  OBVIOUS
<1>4. PICK room : room = AtLeast0(Capacity - PaxTons(pax))
  OBVIOUS
<1>5. PICK m : m = BuyBudget(d)
  OBVIOUS
<1>6. PICK goods : goods = Worthwhile(market, FreightRate[Parsecs(d)])
  OBVIOUS
<1>7. PICK best \in BestFirst(market, goods), largest \in LargestFirst(crowd.lots) :
        LET got   == Buy(market, best, room, m)
            cargo == FreightTons(crowd.lots, largest, got.room)
        IN  /\ Account(m - got.money, Tons(got.buys))
            /\ load' = [buys |-> got.buys, freight |-> cargo, pax |-> PaxTons(pax),
                        support |-> Support(pax),
                        revenue |-> PaxRevenue(pax, Parsecs(d)) + FreightRate[Parsecs(d)] * cargo]
  BY <1>1, <1>2, <1>3, <1>4, <1>5, <1>6, Zenon
<1>8. PICK got : got = Buy(market, best, room, m)
  OBVIOUS
<1>9. PICK cargo : cargo = FreightTons(crowd.lots, largest, got.room)
  OBVIOUS
<1>10. PICK support : support = Support(pax)
  OBVIOUS
<1>11. PICK revenue : revenue = PaxRevenue(pax, Parsecs(d)) + FreightRate[Parsecs(d)] * cargo
  OBVIOUS
<1>12. PICK weight : weight = PaxTons(pax)
  OBVIOUS
<1>13. PICK tons : tons = Tons(got.buys)
  OBVIOUS
<1>14. Account(m - got.money, tons)
  BY <1>7, <1>8, <1>13, Zenon
<1>15. load' = [buys |-> got.buys, freight |-> cargo, pax |-> weight, support |-> support,
                revenue |-> revenue]
  BY <1>7, <1>8, <1>9, <1>10, <1>11, <1>12, Zenon
<1>16. /\ crowd \in Crowd /\ crowd.lots \in Seq(Nat) /\ d \in Nat /\ Capacity \in Nat /\ FuelCost \in Nat
       /\ budget \in Int /\ traded \in Int
  <2>1. at \in Worlds /\ next \in Worlds /\ budget \in Int /\ traded \in Int
    BY DEF VoyageInv, VoyageTypeOK
  <2>2. Distance[at] \in [Worlds -> Nat]
    BY <2>1, VoyageAssumption
  <2>3. Distance[at][next] \in Nat
    BY <2>1, <2>2
  <2>4. crowd \in Crowd
    BY VoyageAssumption
  <2>5. crowd.lots \in Seq(Nat)
    BY <2>4 DEF Crowd
  <2> QED BY <1>2, <2>1, <2>3, <2>4, <2>5, Numbers
<1>17. weight \in Nat
  BY <1>3, <1>12, <1>16, RevenueNat, 0 \in Nat
<1>18. room \in Nat
  <2>1. Capacity - weight \in Int
    BY <1>16, <1>17
  <2> QED BY <1>4, <1>12, <2>1, ClampedNat
<1>19. support \in Nat /\ support <= Reserve /\ Reserve \in Nat
  BY <1>3, <1>10, <1>16, SupportWithinReserve
<1>20. d * FuelCost \in Nat
  BY <1>16, NatTimes
<1>21. m \in Nat /\ (m > 0 => m = budget - d * FuelCost - Reserve)
  BY <1>5, <1>16, <1>19, <1>20 DEF BuyBudget, AtLeast0
<1>22. got \in Got(m)
  <2>1. goods \in SUBSET Goods /\ \A g \in goods : market[g].buy > 0
    BY <1>6 DEF Worthwhile
  <2>2. best \in SetToSeqs(goods)
    BY <1>7 DEF BestFirst
  <2> QED BY <1>8, <1>18, <1>21, <2>1, <2>2, BuyKeeps
<1>23. /\ got.room \in Nat /\ got.money \in 0 .. m /\ got.buys \in Stock
       /\ m = 0 => \A g \in Goods : got.buys[g].tons = 0
  BY <1>22 DEF Got
<1>24. cargo \in Nat
  <2>1. largest \in SetToSeqs(DOMAIN crowd.lots)
    BY <1>7 DEF LargestFirst
  <2> QED BY <1>9, <1>16, <1>23, <2>1, FreightNat
<1>25. revenue \in Nat
  BY <1>3, <1>11, <1>16, <1>24, RevenueNat
<1>26. tons = TonsOf(got.buys, Goods) /\ tons \in Nat
  <2>1. DOMAIN got.buys = Goods
    BY <1>23 DEF Stock
  <2>2. Tons(got.buys) = TonsOf(got.buys, Goods)
    BY <2>1, Zenon DEF Tons
  <2> QED BY <1>13, <1>23, <2>2, TonsNat
<1>27. m = 0 => tons = 0
  <2> SUFFICES ASSUME m = 0 PROVE tons = 0
    OBVIOUS
  <2>1. \A g \in Goods : [k \in Goods |-> got.buys[k].tons][g] = 0
    BY <1>23
  <2>2. TonsOf(got.buys, Goods) = 0
    BY <2>1, VoyageAssumption, SumZero DEF TonsOf
  <2> QED BY <1>26, <2>2
<1>28. load' \in [buys : Stock, freight : Nat, pax : Nat, support : Nat, revenue : Nat]
       /\ load'.buys = got.buys /\ load'.support = support
  BY <1>15, <1>17, <1>19, <1>23, <1>24, <1>25
<1>29. budget' = budget - (m - got.money) /\ traded' = traded + tons
  BY <1>14 DEF Account
<1>30. /\ pc = "load" /\ pc' = "support"
       /\ UNCHANGED <<date, since, periods, negative, hold, sold, at, next, known, jumps, outcome>>
  BY DEF Load
<1>31. VoyageTypeOK'
  <2>1. budget' \in Int /\ traded' \in Int
    BY <1>16, <1>21, <1>23, <1>26, <1>29
  <2>2. pc' \in Steps
    BY <1>30 DEF Steps
  <2> QED BY <1>28, <1>30, <2>1, <2>2, Zenon DEF VoyageInv, VoyageTypeOK
<1>32. load = NoLoad /\ outcome = "none"
  <2>1. outcome \in Outcomes
    BY DEF VoyageInv, VoyageTypeOK
  <2> QED BY <1>30, <2>1 DEF VoyageInv, Outcomes
<1>33. CargoConserved'
  <2>1. traded = TonsOf(hold, Goods \ sold)
    BY <1>32, NoLoadTyped, TonsAre DEF VoyageInv, CargoConserved
  <2>2. TonsOf(hold, Goods \ sold)' = TonsOf(hold, Goods \ sold)
    BY <1>30, Zenon
  <2>3. Tons(load.buys)' = tons
    BY <1>13, <1>28, Zenon
  <2> QED BY <1>29, <2>1, <2>2, <2>3 DEF CargoConserved
<1>34. (Tons(load.buys) > 0 => outcome # "marooned" /\ budget >= Owed)'
  <2>1. Tons(load.buys)' = tons
    BY <1>13, <1>28, Zenon
  <2>2. Owed' = d * FuelCost + support
    BY <1>2, <1>28, <1>30 DEF Owed
  <2>3. tons > 0 => budget' >= d * FuelCost + support
    BY <1>16, <1>19, <1>20, <1>21, <1>23, <1>27, <1>29
  <2> QED BY <1>30, <1>32, <2>1, <2>2, <2>3
<1> QED BY <1>30, <1>31, <1>32, <1>33, <1>34 DEF VoyageInv

\* A step that leaves the cargo, the purchases and what they are owed for alone.
Cargo == <<hold, sold, load, traded>>

LEMMA CargoAlone ==
  ASSUME VoyageTypeOK, CargoConserved, UNCHANGED Cargo
  PROVE  CargoConserved' /\ Tons(load.buys)' = Tons(load.buys)
<1>1. TonsOf(hold, Goods \ sold)' = TonsOf(hold, Goods \ sold) /\ Tons(load.buys)' = Tons(load.buys)
  BY Zenon DEF Cargo
<1> QED BY <1>1 DEF CargoConserved, Cargo

\* Outside the three steps of a departure nothing is loaded.
LEMMA Unladen ==
  ASSUME VoyageInv, pc \notin {"support", "jump", "arrive", "over"}
  PROVE  load = NoLoad /\ outcome = "none" /\ Tons(load.buys) = 0
<1>1. outcome \in Outcomes
  BY DEF VoyageInv, VoyageTypeOK
<1>2. load = NoLoad /\ outcome = "none"
  BY <1>1 DEF VoyageInv, Outcomes
<1> QED BY <1>2, NoLoadTyped

LEMMA PayPeriodVoyage ==
  ASSUME VoyageInv, PayPeriod PROVE VoyageInv'
<1>1. /\ pc = "costs" /\ since >= PeriodDays
      /\ periods' = periods + 1 /\ since' = since - PeriodDays
      /\ budget' = budget - (Maintenance + Salary + Mortgage) /\ traded' = traded + 0
      /\ UNCHANGED <<pc, date, hold, sold, at, next, load, known, jumps, outcome>>
  BY DEF PayPeriod, Pay, Account
<1>2. negative' \in BOOLEAN
  BY Zenon DEF PayPeriod, NoteDebt
<1>3. /\ periods \in Nat /\ since \in Nat /\ budget \in Int /\ traded \in Int
  BY DEF VoyageInv, VoyageTypeOK
<1>4. periods' \in Nat /\ since' \in Nat /\ budget' \in Int /\ traded' = traded
  BY <1>1, <1>3, Numbers
<1>5. VoyageTypeOK'
  BY <1>1, <1>2, <1>4, Zenon DEF VoyageInv, VoyageTypeOK
<1>6. load = NoLoad /\ outcome = "none" /\ Tons(load.buys) = 0
  BY <1>1, Unladen
<1>7. CargoConserved' /\ Tons(load.buys)' = Tons(load.buys)
  BY <1>1, <1>4, CargoAlone DEF VoyageInv, Cargo
<1> QED BY <1>1, <1>5, <1>6, <1>7 DEF VoyageInv

LEMMA GiveUpVoyage ==
  ASSUME VoyageInv, GiveUp PROVE VoyageInv'
<1>1. /\ pc = "costs" /\ pc' = "over" /\ outcome' = "overdue"
      /\ UNCHANGED <<date, since, periods, budget, negative, hold, sold, at, next, load, known,
                     jumps, traded>>
  BY DEF GiveUp, End
<1>2. VoyageTypeOK'
  <2>1. pc' \in Steps /\ outcome' \in Outcomes
    BY <1>1 DEF Steps, Outcomes
  <2> QED BY <1>1, <2>1, Zenon DEF VoyageInv, VoyageTypeOK
<1>3. load = NoLoad /\ Tons(load.buys) = 0
  BY <1>1, Unladen
<1>4. CargoConserved' /\ Tons(load.buys)' = Tons(load.buys)
  BY <1>1, CargoAlone DEF VoyageInv, Cargo
<1> QED BY <1>1, <1>2, <1>3, <1>4 DEF VoyageInv

LEMMA StayInPortVoyage ==
  ASSUME VoyageInv, StayInPort PROVE VoyageInv'
<1>1. /\ pc = "costs" /\ pc' \in {"sell", "incident"}
      /\ date' = date + DaysInPort /\ since' = since + DaysInPort
      /\ UNCHANGED <<periods, budget, negative, hold, sold, at, next, load, known, jumps,
                     outcome, traded>>
  BY DEF StayInPort, Spend
<1>2. VoyageTypeOK'
  <2>1. date \in Nat /\ since \in Nat
    BY DEF VoyageInv, VoyageTypeOK
  <2>2. date' \in Nat /\ since' \in Nat
    BY <1>1, <2>1, Numbers
  <2>3. pc' \in Steps
    BY <1>1 DEF Steps
  <2> QED BY <1>1, <2>2, <2>3, Zenon DEF VoyageInv, VoyageTypeOK
<1>3. load = NoLoad /\ outcome = "none" /\ Tons(load.buys) = 0
  BY <1>1, Unladen
<1>4. CargoConserved' /\ Tons(load.buys)' = Tons(load.buys)
  BY <1>1, CargoAlone DEF VoyageInv, Cargo
<1> QED BY <1>1, <1>2, <1>3, <1>4 DEF VoyageInv

\* Nothing is marked when pirates come, so what they take is all that leaves.
LEMMA IncidentVoyage ==
  ASSUME VoyageInv, Incident PROVE VoyageInv'
<1>1. /\ pc = "incident" /\ pc' = "sell"
      /\ UNCHANGED <<periods, sold, at, next, load, known, jumps, outcome>>
  BY Zenon DEF Incident
<1>2. VoyageTypeOK
  BY DEF VoyageInv
<1>3. PICK credits \in Nat, days \in Nat, stolen \in Int :
        /\ budget' = budget - credits /\ date' = date + days /\ since' = since + days
        /\ traded' = traded - stolen
        /\ hold' \in Stock /\ Tons(hold') = Tons(hold) - stolen
        /\ negative' \in BOOLEAN
  BY <1>2, IncidentCosts, Zenon
<1>4. /\ date \in Nat /\ since \in Nat /\ budget \in Int /\ traded \in Int
  BY <1>2 DEF VoyageTypeOK
<1>5. VoyageTypeOK'
  <2>1. budget' \in Int /\ date' \in Nat /\ since' \in Nat /\ traded' \in Int
    BY <1>3, <1>4
  <2>2. pc' \in Steps
    BY <1>1 DEF Steps
  <2> QED BY <1>1, <1>2, <1>3, <2>1, <2>2, Zenon DEF VoyageTypeOK
<1>6. load = NoLoad /\ outcome = "none" /\ Tons(load.buys) = 0
  BY <1>1, Unladen
<1>7. Tons(load.buys)' = Tons(load.buys)
  BY <1>1, Zenon
<1>8. sold = {}
  BY <1>1 DEF VoyageInv
<1>9. CargoConserved'
  <2>1. Goods \ sold = Goods
    BY <1>8
  <2>2. traded = Tons(hold) /\ Tons(hold) \in Nat
    <3>1. traded = TonsOf(hold, Goods \ sold) + Tons(load.buys) /\ TonsOf(hold, Goods \ sold) = Tons(hold)
      BY <1>2, <2>1, TonsAre, Zenon DEF VoyageInv, CargoConserved
    <3> QED BY <1>2, <1>6, <3>1, TonsAre
  <2>3. TonsOf(hold, Goods \ sold)' = TonsOf(hold', Goods)
    BY <1>1, <2>1, Zenon
  <2>4. Tons(hold') = TonsOf(hold', Goods)
    <3>1. PICK h : h = hold'
      OBVIOUS
    <3>2. DOMAIN h = Goods
      BY <1>3, <3>1 DEF Stock
    <3>3. Tons(h) = TonsOf(h, Goods)
      BY <3>2, Zenon DEF Tons
    <3> QED BY <3>1, <3>3
  <2> QED BY <1>3, <1>6, <1>7, <2>2, <2>3, <2>4 DEF CargoConserved
<1> QED BY <1>1, <1>5, <1>6, <1>7, <1>8, <1>9 DEF VoyageInv

\* The tons that are marked are counted as sold at once.
LEMMA SellVoyage ==
  ASSUME VoyageInv, Sell PROVE VoyageInv'
<1>1. PICK price \in [Aboard -> Prices] :
       LET selling == {g \in Aboard : price[g] >= hold[g].cost}
           proceeds == [g \in selling |-> price[g] * hold[g].tons]
       IN  /\ Account(-SumOver(proceeds, selling), -TonsOf(hold, selling))
           /\ sold' = selling
  BY Zenon DEF Sell
<1>2. PICK selling : selling = {g \in Aboard : price[g] >= hold[g].cost}
  OBVIOUS
<1>3. PICK proceeds : proceeds = [g \in selling |-> price[g] * hold[g].tons]
  OBVIOUS
<1>4. Account(-SumOver(proceeds, selling), -TonsOf(hold, selling)) /\ sold' = selling
  BY <1>1, <1>2, <1>3, Zenon
<1>5. /\ pc = "sell" /\ pc' \in {"home", "route"}
      /\ UNCHANGED <<date, since, periods, negative, hold, at, next, load, known, jumps, outcome>>
  BY DEF Sell
<1>6. /\ hold \in Stock /\ budget \in Int /\ traded \in Int
  BY DEF VoyageInv, VoyageTypeOK
<1>7. selling \subseteq Goods /\ selling \subseteq Aboard
  BY <1>2 DEF Aboard
<1>8. SumOver(proceeds, selling) \in Int
  <2>1. IsFiniteSet(selling)
    BY <1>7, VoyageAssumption, FS_Subset
  <2>2. ASSUME NEW g \in selling PROVE proceeds[g] \in Int
    <3>1. price[g] \in Nat /\ hold[g].tons \in Nat
      BY <1>6, <1>7, VoyageAssumption DEF Stock
    <3> QED BY <1>3, <3>1, NatTimes
  <2> QED BY <2>1, <2>2, SumType
<1>9. TonsOf(hold, selling) \in Nat
  BY <1>6, <1>7, TonsNat
<1>10. budget' \in Int /\ traded' = traded - TonsOf(hold, selling) /\ traded' \in Int
  BY <1>4, <1>6, <1>8, <1>9 DEF Account
<1>11. VoyageTypeOK'
  <2>1. pc' \in Steps
    BY <1>5 DEF Steps
  <2>2. sold' \subseteq Goods
    BY <1>4, <1>7
  <2> QED BY <1>5, <1>10, <2>1, <2>2, Zenon DEF VoyageInv, VoyageTypeOK
<1>12. load = NoLoad /\ outcome = "none" /\ Tons(load.buys) = 0
  BY <1>5, Unladen
<1>13. Tons(load.buys)' = Tons(load.buys)
  BY <1>5, Zenon
<1>14. CargoConserved'
  <2>1. Goods \ sold = Goods
    BY <1>5 DEF VoyageInv
  <2>2. traded = TonsOf(hold, Goods)
    <3>1. traded = TonsOf(hold, Goods) + Tons(load.buys) /\ TonsOf(hold, Goods) \in Nat
      BY <1>6, <2>1, TonsNat, Zenon DEF VoyageInv, CargoConserved
    <3> QED BY <1>12, <3>1
  <2>3. TonsOf(hold, Goods) = TonsOf(hold, selling) + TonsOf(hold, Goods \ selling)
    BY <1>6, <1>7, TonsSplit
  <2>4. TonsOf(hold, Goods \ selling) \in Nat
    BY <1>6, TonsNat
  <2>5. TonsOf(hold, Goods \ sold)' = TonsOf(hold, Goods \ selling)
    BY <1>4, <1>5, Zenon
  <2> QED BY <1>9, <1>10, <1>12, <1>13, <2>2, <2>3, <2>4, <2>5 DEF CargoConserved
<1> QED BY <1>5, <1>11, <1>12, <1>13, <1>14 DEF VoyageInv

\* At home the marked goods go off, and nothing else.
LEMMA SettleVoyage ==
  ASSUME VoyageInv, SettleAtHome PROVE VoyageInv'
<1>1. /\ pc = "home" /\ pc' = "over" /\ outcome' = "home"
      /\ hold' = Restocked(NoLoad.buys) /\ sold' = {}
      /\ UNCHANGED <<date, since, periods, budget, negative, at, next, load, known, jumps, traded>>
  BY DEF SettleAtHome, End
<1>2. hold \in Stock /\ sold \subseteq Goods
  BY DEF VoyageInv, VoyageTypeOK
<1>3. /\ Restocked(NoLoad.buys) \in Stock
      /\ TonsOf(Restocked(NoLoad.buys), Goods) = TonsOf(hold, Goods \ sold) + Tons(NoLoad.buys)
  BY <1>2, NoLoadWeighsNothing, RestockedTons
<1>4. VoyageTypeOK'
  <2>1. pc' \in Steps /\ outcome' \in Outcomes
    BY <1>1 DEF Steps, Outcomes
  <2>2. hold' \in Stock /\ sold' \subseteq Goods
    BY <1>1, <1>3
  <2> QED BY <1>1, <2>1, <2>2, Zenon DEF VoyageInv, VoyageTypeOK
<1>5. load = NoLoad /\ Tons(load.buys) = 0
  BY <1>1, Unladen
<1>6. Tons(load.buys)' = Tons(load.buys)
  BY <1>1, Zenon
<1>7. CargoConserved'
  <2>1. traded = TonsOf(hold, Goods \ sold) + Tons(load.buys)
    BY DEF VoyageInv, CargoConserved
  <2>2. TonsOf(hold, Goods \ sold)' = TonsOf(Restocked(NoLoad.buys), Goods)
    <3>1. Goods \ {} = Goods
      OBVIOUS
    <3>2. (Goods \ sold)' = Goods
      BY <1>1, <3>1
    <3> QED BY <1>1, <3>2, Zenon
  <2>3. TonsOf(hold, Goods \ sold) \in Nat
    BY <1>2, TonsNat
  <2> QED BY <1>1, <1>3, <1>5, <1>6, <2>1, <2>2, <2>3, NoLoadTyped DEF CargoConserved
<1> QED BY <1>1, <1>4, <1>5, <1>6, <1>7 DEF VoyageInv

LEMMA RouteVoyage ==
  ASSUME VoyageInv, Route PROVE VoyageInv'
<1>1. /\ pc = "route" /\ pc' \in {"over", "load"}
      /\ outcome' = (IF pc' = "over" THEN "stranded" ELSE outcome)
      /\ known' \subseteq known \cup Worlds /\ next' \in Worlds
      /\ UNCHANGED <<date, since, periods, budget, negative, hold, sold, at, load, jumps, traded>>
  <2>1. PICK found \in SUBSET (InReach \ known) :
          LET candidates == InReach \cap (known \cup found)
          IN  /\ known' = known \cup found
              /\ IF candidates = {}
                   THEN End("stranded") /\ UNCHANGED next
                   ELSE next' \in Picks(candidates) /\ pc' = "load" /\ UNCHANGED outcome
    BY Zenon DEF Route
  <2>2. PICK candidates : candidates = InReach \cap (known \cup found)
    OBVIOUS
  <2>3. next \in Worlds /\ Home \in Worlds /\ InReach \subseteq Worlds
    BY VoyageAssumption DEF VoyageInv, VoyageTypeOK, InReach
  <2>4. known' = known \cup found /\ found \subseteq Worlds
    BY <2>1, <2>3
  <2>5. CASE candidates = {}
    <3>1. End("stranded") /\ UNCHANGED next
      BY <2>1, <2>2, <2>5, Zenon
    <3> QED BY <2>3, <2>4, <3>1 DEF Route, End
  <2>6. CASE candidates # {}
    <3>1. next' \in Picks(candidates) /\ pc' = "load" /\ UNCHANGED outcome
      BY <2>1, <2>2, <2>6, Zenon
    <3>2. Picks(candidates) \subseteq candidates \cup {Home}
      <4>1. \A w \in Picks(candidates) : w \in candidates \cup {Home}
        BY DEF Picks
      <4> QED BY <4>1
    <3>3. next' \in Worlds
      BY <2>2, <2>3, <3>1, <3>2
    <3> QED BY <2>4, <3>1, <3>3 DEF Route
  <2> QED BY <2>5, <2>6
<1>2. load = NoLoad /\ outcome = "none" /\ Tons(load.buys) = 0
  BY <1>1, Unladen
<1>3. VoyageTypeOK'
  <2>1. pc' \in Steps /\ outcome' \in Outcomes
    BY <1>1, <1>2 DEF Steps, Outcomes
  <2>2. known' \subseteq Worlds
    BY <1>1 DEF VoyageInv, VoyageTypeOK
  <2> QED BY <1>1, <2>1, <2>2, Zenon DEF VoyageInv, VoyageTypeOK
<1>4. CargoConserved' /\ Tons(load.buys)' = Tons(load.buys)
  BY <1>1, CargoAlone DEF VoyageInv, Cargo
<1> QED BY <1>1, <1>2, <1>3, <1>4 DEF VoyageInv

\* A ship that has bought can pay, whatever else it owes.
LEMMA PaySupportVoyage ==
  ASSUME VoyageInv, PaySupport PROVE VoyageInv'
<1>1. /\ pc = "support"
      /\ budget' = budget - load.support /\ traded' = traded + 0
      /\ IF budget' < 0 THEN pc' = "over" /\ outcome' = "marooned" ELSE pc' = "jump" /\ UNCHANGED outcome
      /\ UNCHANGED <<date, since, periods, hold, sold, at, next, load, known, jumps>>
  BY DEF PaySupport, Pay, Account, End
<1>2. negative' \in BOOLEAN
  BY Zenon DEF PaySupport, NoteDebt
<1>3. /\ budget \in Int /\ traded \in Int /\ load.support \in Nat /\ outcome \in Outcomes
      /\ at \in Worlds /\ next \in Worlds
  BY DEF VoyageInv, VoyageTypeOK
<1>4. budget' \in Int /\ traded' = traded
  BY <1>1, <1>3
<1>5. VoyageTypeOK'
  <2>1. pc' \in Steps /\ outcome' \in Outcomes
    BY <1>1, <1>3 DEF Steps, Outcomes
  <2> QED BY <1>1, <1>2, <1>4, <2>1, Zenon DEF VoyageInv, VoyageTypeOK
<1>6. CargoConserved' /\ Tons(load.buys)' = Tons(load.buys)
  BY <1>1, <1>4, CargoAlone DEF VoyageInv, Cargo
<1>7. Distance[at][next] * FuelCost \in Nat
  <2>1. Distance[at] \in [Worlds -> Nat]
    BY <1>3, VoyageAssumption
  <2>2. Distance[at][next] \in Nat
    BY <1>3, <2>1
  <2> QED BY <2>2, Numbers, NatTimes
<1>8. Tons(load.buys) > 0 => budget' >= Distance[at][next] * FuelCost
  <2>1. Tons(load.buys) > 0 => budget >= Distance[at][next] * FuelCost + load.support
    BY <1>1 DEF VoyageInv, Owed
  <2> QED BY <1>1, <1>3, <1>7, <2>1
<1>9. outcome = "none"
  BY <1>1, <1>3 DEF VoyageInv, Outcomes
<1>10. (Tons(load.buys) > 0 => outcome # "marooned" /\ budget >= Owed)'
  <2> SUFFICES ASSUME Tons(load.buys) > 0 PROVE outcome' # "marooned" /\ budget' >= Owed'
    BY <1>6
  <2>1. ~(budget' < 0)
    BY <1>4, <1>7, <1>8
  <2>2. pc' = "jump" /\ outcome' = outcome
    BY <1>1, <2>1
  <2>3. Owed' = Distance[at][next] * FuelCost
    BY <1>1, <2>2 DEF Owed
  <2> QED BY <1>8, <1>9, <2>2, <2>3
<1> QED BY <1>1, <1>5, <1>6, <1>9, <1>10 DEF VoyageInv

LEMMA JumpVoyage ==
  ASSUME VoyageInv, Jump PROVE VoyageInv'
<1>1. /\ pc = "jump" /\ pc' = "arrive"
      /\ budget' = budget - Distance[at][next] * FuelCost /\ traded' = traded + 0
      /\ UNCHANGED <<date, since, periods, negative, hold, sold, at, next, load, known, jumps,
                     outcome>>
  BY DEF Jump, Pay, Account
<1>2. budget \in Int /\ traded \in Int /\ at \in Worlds /\ next \in Worlds
  BY DEF VoyageInv, VoyageTypeOK
<1>3. Distance[at][next] * FuelCost \in Nat
  <2>1. Distance[at] \in [Worlds -> Nat]
    BY <1>2, VoyageAssumption
  <2>2. Distance[at][next] \in Nat
    BY <1>2, <2>1
  <2> QED BY <2>2, Numbers, NatTimes
<1>4. budget' \in Int /\ traded' = traded
  BY <1>1, <1>2, <1>3
<1>5. VoyageTypeOK'
  <2>1. pc' \in Steps
    BY <1>1 DEF Steps
  <2> QED BY <1>1, <1>4, <2>1, Zenon DEF VoyageInv, VoyageTypeOK
<1>6. CargoConserved' /\ Tons(load.buys)' = Tons(load.buys)
  BY <1>1, <1>4, CargoAlone DEF VoyageInv, Cargo
<1>7. Tons(load.buys) > 0 => budget' >= 0 /\ outcome # "marooned"
  <2>1. Tons(load.buys) > 0 => budget >= Distance[at][next] * FuelCost /\ outcome # "marooned"
    BY <1>1 DEF VoyageInv, Owed
  <2> QED BY <1>1, <1>2, <1>3, <2>1
<1>8. Owed' = 0
  BY <1>1 DEF Owed
<1> QED BY <1>1, <1>5, <1>6, <1>7, <1>8 DEF VoyageInv

\* process_trades: what was marked goes, and what was bought joins the hold.
LEMMA ArriveVoyage ==
  ASSUME VoyageInv, Arrive PROVE VoyageInv'
<1>1. /\ pc = "arrive" /\ pc' = "costs"
      /\ budget' = budget - (-load.revenue) /\ traded' = traded + 0
      /\ hold' = Restocked(load.buys) /\ sold' = {}
      /\ date' = date + DaysPerJump /\ since' = since + DaysPerJump
      /\ at' = next /\ jumps' = jumps + 1 /\ load' = NoLoad
      /\ UNCHANGED <<periods, next, known, outcome>>
  BY DEF Arrive, Pay, Account, Spend
<1>2. negative' \in BOOLEAN
  BY Zenon DEF Arrive, NoteDebt
<1>3. /\ hold \in Stock /\ sold \subseteq Goods /\ load.buys \in Stock /\ load.revenue \in Nat
      /\ budget \in Int /\ traded \in Int /\ date \in Nat /\ since \in Nat /\ jumps \in Nat
      /\ outcome \in Outcomes /\ next \in Worlds
  BY DEF VoyageInv, VoyageTypeOK
<1>4. /\ Restocked(load.buys) \in Stock
      /\ TonsOf(Restocked(load.buys), Goods) = TonsOf(hold, Goods \ sold) + Tons(load.buys)
  BY <1>3, RestockedTons
<1>5. VoyageTypeOK'
  <2>1. pc' \in Steps
    BY <1>1 DEF Steps
  <2>2. budget' \in Int /\ traded' \in Int /\ date' \in Nat /\ since' \in Nat /\ jumps' \in Nat
    BY <1>1, <1>3, Numbers
  <2>3. hold' \in Stock /\ sold' \subseteq Goods /\ at' \in Worlds
    BY <1>1, <1>3, <1>4
  <2>4. load' \in [buys : Stock, freight : Nat, pax : Nat, support : Nat, revenue : Nat]
    BY <1>1, NoLoadTyped
  <2> QED BY <1>1, <1>2, <2>1, <2>2, <2>3, <2>4, Zenon DEF VoyageInv, VoyageTypeOK
<1>6. Tons(load.buys)' = 0
  BY <1>1, NoLoadTyped, Zenon
<1>7. CargoConserved'
  <2>1. traded = TonsOf(hold, Goods \ sold) + Tons(load.buys)
    BY DEF VoyageInv, CargoConserved
  <2>2. TonsOf(hold, Goods \ sold)' = TonsOf(Restocked(load.buys), Goods)
    <3>1. Goods \ {} = Goods
      OBVIOUS
    <3>2. (Goods \ sold)' = Goods
      BY <1>1, <3>1
    <3> QED BY <1>1, <3>2, Zenon
  <2>3. traded' = traded
    BY <1>1, <1>3
  <2> QED BY <1>3, <1>4, <1>6, <2>1, <2>2, <2>3 DEF CargoConserved
<1>8. outcome = "none"
  BY <1>1, <1>3 DEF VoyageInv, Outcomes
<1> QED BY <1>1, <1>5, <1>6, <1>7, <1>8 DEF VoyageInv

LEMMA VoyageInitInv == VoyageInit => VoyageInv
<1> SUFFICES ASSUME VoyageInit PROVE VoyageInv
  OBVIOUS
<1>1. VoyageTypeOK
  <2>1. Home \in Worlds /\ StartBudget \in Int
    BY VoyageAssumption
  <2>2. pc \in Steps /\ outcome \in Outcomes
    BY DEF VoyageInit, Steps, Outcomes
  <2>3. /\ date \in Nat /\ since \in Nat /\ periods \in Nat /\ jumps \in Nat /\ traded \in Int
        /\ budget \in Int /\ at \in Worlds /\ next \in Worlds /\ known \subseteq Worlds
        /\ sold \subseteq Goods
    BY <2>1 DEF VoyageInit
  <2>4. negative \in BOOLEAN
    BY Zenon DEF VoyageInit
  <2>5. /\ hold \in Stock
        /\ load \in [buys : Stock, freight : Nat, pax : Nat, support : Nat, revenue : Nat]
    BY NoLoadTyped, NoLoadWeighsNothing DEF VoyageInit
  <2> QED BY <2>2, <2>3, <2>4, <2>5, Zenon DEF VoyageTypeOK
<1>2. CargoConserved
  <2>1. hold = NoLoad.buys /\ load = NoLoad /\ traded = 0 /\ sold = {}
    BY DEF VoyageInit
  <2>2. Goods \ sold = Goods
    BY <2>1
  <2>3. Tons(hold) = TonsOf(hold, Goods)
    BY <1>1, TonsAre
  <2>4. TonsOf(hold, Goods \ sold) = 0 /\ Tons(load.buys) = 0
    BY <2>1, <2>2, <2>3, NoLoadWeighsNothing
  <2> QED BY <2>1, <2>4 DEF CargoConserved
<1>3. load = NoLoad /\ sold = {} /\ outcome = "none" /\ Tons(load.buys) = 0
  BY NoLoadTyped DEF VoyageInit
<1> QED BY <1>1, <1>2, <1>3 DEF VoyageInv

LEMMA VoyageStepInv == VoyageInv /\ [VoyageStep]_voyageVars => VoyageInv'
<1> SUFFICES ASSUME VoyageInv, [VoyageStep]_voyageVars PROVE VoyageInv'
  OBVIOUS
<1>1. CASE PayPeriod \/ GiveUp \/ StayInPort \/ Incident
  BY <1>1, PayPeriodVoyage, GiveUpVoyage, StayInPortVoyage, IncidentVoyage
<1>2. CASE Sell \/ SettleAtHome \/ Route \/ Load
  BY <1>2, SellVoyage, SettleVoyage, RouteVoyage, LoadKeeps
<1>3. CASE PaySupport \/ Jump \/ Arrive
  BY <1>3, PaySupportVoyage, JumpVoyage, ArriveVoyage
<1>4. CASE UNCHANGED voyageVars
  <2>1. UNCHANGED <<pc, date, since, periods, budget, negative, hold, sold, at, next, load, known,
                    jumps, outcome, traded>>
    BY <1>4 DEF voyageVars
  <2>2. VoyageTypeOK'
    BY <2>1, Zenon DEF VoyageInv, VoyageTypeOK
  <2>3. CargoConserved' /\ Tons(load.buys)' = Tons(load.buys)
    BY <2>1, CargoAlone DEF VoyageInv, Cargo
  <2>4. Owed' = Owed
    BY <2>1 DEF Owed
  <2> QED BY <2>1, <2>2, <2>3, <2>4 DEF VoyageInv
<1> QED BY <1>1, <1>2, <1>3, <1>4 DEF VoyageStep, Computes

\* The state of the executor keeps its types: counts stay natural numbers,
\* however long the voyage and whatever it meets.
THEOREM VoyageTypeCorrect == VoyageSpec => []VoyageTypeOK
<1>1. VoyageInv => VoyageTypeOK
  BY DEF VoyageInv
<1> QED BY <1>1, VoyageInitInv, VoyageStepInv, PTL DEF VoyageSpec

\* CargoConserved holds of every voyage, of any goods, markets and prices: no
\* ton is lost or doubled between the four places that mark, buy and take goods
\* and the one that moves them (executor.rs, ship_manifest.rs:313-362).
THEOREM VoyageCargoConserved == VoyageSpec => []CargoConserved
<1>1. VoyageInv => CargoConserved
  BY DEF VoyageInv
<1> QED BY <1>1, VoyageInitInv, VoyageStepInv, PTL DEF VoyageSpec

\* BuysLeaveMeans holds of every voyage: the reserve that is set aside for a
\* fully booked ship covers any passengers it takes, so a ship is never marooned
\* with its purchases, whatever the fuel, the fares and the prices.
THEOREM VoyageBuysLeaveMeans == VoyageSpec => []BuysLeaveMeans
<1>1. VoyageInv => BuysLeaveMeans
  <2> SUFFICES ASSUME VoyageInv, Tons(load.buys) > 0
               PROVE  outcome # "marooned" /\ (pc = "arrive" => budget >= 0)
    BY DEF BuysLeaveMeans
  <2>1. outcome # "marooned" /\ budget >= Owed
    BY DEF VoyageInv
  <2>2. pc = "arrive" => Owed = 0
    BY DEF Owed
  <2> QED BY <2>1, <2>2
<1> QED BY <1>1, VoyageInitInv, VoyageStepInv, PTL DEF VoyageSpec
=============================================================================
