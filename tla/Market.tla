------------------------------- MODULE Market -------------------------------
(* trade/table.rs, available_goods.rs, available_passengers.rs and the trade  *)
(* classes of trade/mod.rs: what a world offers and at which price, and who   *)
(* and what wants to travel to another.  Dice are thrown once and kept, so    *)
(* that a changed skill or destination changes the answer, and the same       *)
(* question has the same answer until the dice are reset.                     *)
EXTENDS Integers, FiniteSets, FiniteSetsExt, SequencesExt

CONSTANTS Ports,   \* worlds: the digits of a UWP, port and zone
          Jumps,   \* bound: distances in parsecs
          Skills,  \* bound: of brokers and stewards, alike on one ship
          Throws,  \* bound: [two, three, one]: what 2d6, 3d6 and each single die show
          Picks,   \* bound: goods drawn at random
          Questions \* bound: different ones in a while

ASSUME MarketAssumption ==
  /\ \A t \in Throws : t.two \in 2..12 /\ t.three \in 3..18 /\ t.one \in 1..6
  /\ Jumps \subseteq Nat /\ Skills \subseteq Int

VARIABLES
  home,     \* the world whose market it is
  table,    \* goods: by index [quantity, buyRoll, sellRoll]
  dice,     \* AvailablePassengers: rolls and sizes kept, by class
  answers   \* history, since the dice were reset: [asked, given]

marketVars == <<home, table, dice, answers>>

Unrolled == -1   \* None

\* uwp_to_trade_classes
uwp_to_trade_classes(w) ==
  {c \in {"Ag", "As", "Ba", "De", "Fl", "Ga", "Hi", "Ht", "Ic", "In", "Lo", "Lt", "Na", "Ni", "Po", "Ri", "Va", "Wa"} :
     CASE c = "Ag" -> w.atmosphere \in 4..9 /\ w.hydro \in 4..8 /\ w.population \in 5..7
       [] c = "As" -> w.size = 0 /\ w.atmosphere = 0 /\ w.hydro = 0
       [] c = "Ba" -> w.population = 0 /\ w.government = 0 /\ w.law = 0
       [] c = "De" -> w.hydro = 0 /\ w.atmosphere > 1
       [] c = "Fl" -> w.hydro >= 1 /\ w.atmosphere >= 10
       [] c = "Ga" -> w.size \in 6..8 /\ w.atmosphere \in {5, 6, 8} /\ w.hydro \in 5..7
       [] c = "Hi" -> w.population >= 9
       [] c = "Ht" -> w.tech >= 12
       [] c = "Ic" -> w.atmosphere <= 1 /\ w.hydro >= 1
       [] c = "In" -> w.atmosphere \in {0, 1, 2, 4, 7, 9, 10, 11, 12} /\ w.population >= 9
       [] c = "Lo" -> w.population \in 1..3
       [] c = "Lt" -> w.population >= 1 /\ w.tech <= 5
       [] c = "Na" -> w.atmosphere \in 0..3 /\ w.hydro \in 0..3 /\ w.population >= 6
       [] c = "Ni" -> w.population \in 4..6
       [] c = "Po" -> w.population > 0 /\ w.atmosphere \in 2..5 /\ w.hydro \in 0..3
       [] c = "Ri" -> w.atmosphere \in {6, 8} /\ w.population \in 6..8 /\ w.government \in 4..9
       [] c = "Va" -> w.atmosphere = 0
       [] c = "Wa" -> (w.atmosphere \in 3..9 \/ w.atmosphere >= 13) /\ w.hydro >= 10}
-----------------------------------------------------------------------------
\* A row of the trade table: who has it (All: every world), how many dice times
\* what, its cost, and the modifiers of classes that buy and that sell it.
All == {"All"}
G(where, dice_, times, cost, purchase, sale) ==
  [where |-> where, dice |-> dice_, times |-> times, cost |-> cost, purchase |-> purchase, sale |-> sale]
None == [c \in {} |-> 0]

CommonGoods ==
  11 :> G(All, 2, 10, 20000, [In |-> 2, Ht |-> 3, Ri |-> 1], [Ni |-> 2, Lt |-> 1, Po |-> 1])
  @@ 12 :> G(All, 2, 10, 10000, [Na |-> 2, In |-> 5], [Ni |-> 3, Hi |-> 2])
  @@ 13 :> G(All, 2, 10, 20000, [Na |-> 2, In |-> 5], [Ni |-> 3, Hi |-> 2])
  @@ 14 :> G(All, 2, 20, 5000, [Ag |-> 3, Ga |-> 2], [In |-> 2, Po |-> 2])
  @@ 15 :> G(All, 2, 20, 500, [Ag |-> 3, Wa |-> 2, Ga |-> 1, As |-> -4], [As |-> 1, Fl |-> 1, Ic |-> 1, Hi |-> 1])
  @@ 16 :> G(All, 2, 20, 1000, [As |-> 4], [In |-> 3, Ni |-> 1])
AdvancedGoods ==
  21 :> G({"Ht", "In"}, 1, 5, 100000, [In |-> 2, Ht |-> 3], [Ri |-> 2, Ni |-> 1, As |-> 3])
  @@ 22 :> G({"Ht", "In"}, 1, 5, 75000, [In |-> 2, Ht |-> 1], [As |-> 2, Ni |-> 1])
  @@ 23 :> G({"Ht", "In"}, 1, 5, 100000, [In |-> 1], [Hi |-> 1, Ri |-> 2])
  @@ 24 :> G({"Ht", "In"}, 1, 5, 150000, [Ht |-> 2], [Po |-> 1, Az |-> 2, Rz |-> 4])
  @@ 25 :> G({"Ht", "In"}, 1, 5, 180000, [Ht |-> 2], [Ri |-> 2, As |-> 2])
  @@ 26 :> G({"Ag", "Wa"}, 1, 5, 50000, [Ag |-> 1, Wa |-> 2], [In |-> 2])
SpecializedGoods ==
  31 :> G({"As", "De", "Ic"}, 1, 5, 20000, [As |-> 2, De |-> 1, Ic |-> 1], [In |-> 3, Ri |-> 2])
  @@ 32 :> G({"Ht"}, 1, 1, 250000, [Ht |-> 1], [As |-> 1, Ic |-> 1, Ri |-> 2])
  @@ 33 :> G({"Ag", "Ga"}, 1, 10, 10000, [Ag |-> 2], [Lo |-> 3])
  @@ 34 :> G({"Ag", "Ga", "Wa"}, 1, 10, 20000, [Ag |-> 2, Wa |-> 1], [Ri |-> 2, Hi |-> 2])
  @@ 35 :> G({"Hi"}, 1, 1, 200000, [Hi |-> 1], [Ri |-> 4])
  @@ 36 :> G({"Ht", "Hi"}, 1, 5, 50000, [Ht |-> 2], [In |-> 2, Po |-> 1, Ri |-> 1])
RawGoods ==
  41 :> G({"De", "Fl", "Ic", "Wa"}, 1, 10, 10000, [De |-> 2], [In |-> 2, Ag |-> 1, Lt |-> 2])
  @@ 42 :> G({"As", "De", "Hi", "Wa"}, 1, 1, 100000, [As |-> 2, Hi |-> 1], [Ri |-> 2, Lt |-> 1])
  @@ 43 :> G({"In"}, 1, 10, 7000, [In |-> 1], [Ri |-> 2, Ni |-> 1])
  @@ 44 :> G({"As", "De", "Ic", "Fl"}, 1, 1, 50000, [As |-> 3, De |-> 1, Ic |-> 2], [In |-> 2, Ri |-> 3, Ht |-> 1])
  @@ 45 :> G({"As", "De", "Lo"}, 1, 1, 1000000, [As |-> 2, Lo |-> 2], [In |-> 3, Ht |-> 1, Ni |-> -2, Ag |-> -3])
  @@ 46 :> G({"In"}, 1, 5, 400000, [In |-> 1], [Ag |-> 2, Ht |-> 1])
BulkGoods ==
  51 :> G({"De", "Ga", "Wa"}, 1, 10, 6000, [De |-> 2], [Hi |-> 2, Ri |-> 3, Po |-> 3])
  @@ 52 :> G({"Ag", "Ni"}, 1, 20, 3000, [Ag |-> 7], [Hi |-> 3, Na |-> 2])
  @@ 53 :> G({"As", "Ic"}, 1, 20, 5000, [As |-> 4], [In |-> 3, Ni |-> 1])
  @@ 54 :> G({"Ag", "De", "Wa"}, 1, 10, 20000, [Ag |-> 2, Wa |-> 1], [In |-> 2, Ht |-> 1])
  @@ 55 :> G({"Ag", "Ga"}, 1, 20, 1000, [Ag |-> 6], [Ri |-> 2, In |-> 1])
  @@ 56 :> G({"In", "Ht"}, 1, 10, 15000, [In |-> 2, Ht |-> 1], [Ni |-> 2, Hi |-> 1])
IllegalGoods ==
  61 :> G({"Ag", "Wa"}, 1, 5, 50000, [Wa |-> 2], [In |-> 6])
  @@ 62 :> G({"Ht"}, 1, 1, 250000, [Ht |-> 1], [As |-> 4, Ic |-> 4, Ri |-> 8, Az |-> 6, Rz |-> 6])
  @@ 63 :> G({"As", "De", "Hi", "Wa"}, 1, 1, 100000, [As |-> 1, De |-> 1, Ga |-> 1, Wa |-> 1], [Ri |-> 6, Hi |-> 6])
  @@ 64 :> G({"Ag", "Ga", "Wa"}, 1, 1, 50000, [Ag |-> 2, Wa |-> 1], [Ri |-> 6, Hi |-> 4])
  @@ 65 :> G({"Ht", "In"}, 1, 5, 150000, [Ht |-> 2], [Po |-> 6, Az |-> 8, Rz |-> 10])
  @@ 66 :> G({}, 1, 1, 1000000, None, None)
STANDARD_TRADE_GOODS ==
  CommonGoods @@ AdvancedGoods @@ SpecializedGoods @@ RawGoods @@ BulkGoods @@ IllegalGoods
TradeTable == STANDARD_TRADE_GOODS

ASSUME TableAssumption == \A i \in DOMAIN TradeTable : {TradeTable[i].times, TradeTable[i].dice} \subseteq Nat

Available(i, classes, illegal) ==
  \/ TradeTable[i].where = All
  \/ TradeTable[i].where \cap classes # {} /\ (illegal \/ i < 60)
-----------------------------------------------------------------------------
\* gen_entry_rng: what one roll of a good brings.
gen_entry_rng(i, t, population) ==
  LET e == TradeTable[i] IN
  e.times * (e.dice * t.one + IF population <= 3 THEN -3 ELSE IF population >= 9 THEN 3 ELSE 0)

\* for_world: a roll of everything the classes have, and of as many goods at
\* random as the world has population; what is not positive is not offered.
for_world(w, illegal, t, drawn) ==
  LET classes == uwp_to_trade_classes(w)
      times(i) == (IF Available(i, classes, illegal) THEN 1 ELSE 0) + (IF i \in DOMAIN drawn THEN drawn[i] ELSE 0)
  IN  [i \in {j \in DOMAIN TradeTable : times(j) > 0 /\ gen_entry_rng(j, t, w.population) > 0} |->
         [quantity |-> times(i) * gen_entry_rng(i, t, w.population), buyRoll |-> Unrolled, sellRoll |-> Unrolled]]
\* Contraband is drawn only if asked for.
Draws(w, illegal) ==
  {d \in [{i \in Picks : illegal \/ i < 60} -> 0..w.population] : FoldFunction(+, 0, d) = w.population}

find_max_dm(dms, classes) ==
  IF DOMAIN dms \cap classes = {} THEN 0 ELSE Max({dms[c] : c \in DOMAIN dms \cap classes})

\* In percent of the cost, from a modified roll of -3 or less to 25 or more.
BuyPercent == <<300, 250, 200, 175, 150, 135, 125, 120, 115, 110, 105, 100, 95, 90, 85, 80, 75, 70,
                65, 60, 55, 50, 45, 40, 35, 30, 25, 20, 15>>
SellPercent == <<10, 20, 30, 40, 45, 50, 55, 60, 65, 70, 75, 80, 85, 90, 100, 105, 110, 115, 120,
                 125, 130, 140, 150, 160, 175, 200, 250, 300, 400>>
Price(i, percent, modified) == (TradeTable[i].cost \div 100) * percent[4 + Max({-3, Min({25, modified})})]
Balance(i, classes) == find_max_dm(TradeTable[i].purchase, classes) - find_max_dm(TradeTable[i].sale, classes)

\* Mutant: the die is thrown whether or not a roll was kept.
Kept_Again(roll, thrown) == thrown
Kept(roll, thrown) == IF roll = Unrolled THEN thrown ELSE roll

Answer(asked, given_) ==
  /\ Cardinality({a.asked : a \in answers} \cup {asked}) <= Questions
  /\ answers' = answers \cup {[asked |-> asked, given |-> given_]}

MarketAnswers == {a \in answers : a.asked.about # "passage"}

\* The market of a world is generated; its goods have not been rolled for.
ForWorld(w) ==
  /\ \E illegal \in BOOLEAN, t \in Throws :
       \E drawn \in Draws(w, illegal) : table' = for_world(w, illegal, t, drawn)
  /\ home' = w
  /\ answers' = answers \ MarketAnswers
  /\ UNCHANGED dice

\* price_goods_to_buy, for the buyer's skill over the supplier's.
PriceToBuy(skill) ==
  \E t \in Throws :
    LET rolled == [i \in DOMAIN table |-> [table[i] EXCEPT !.buyRoll = Kept(@, t.three)]]
        classes == uwp_to_trade_classes(home)
    IN
    /\ table' = rolled
    /\ Answer([about |-> "buy", at |-> home, skill |-> skill],
              [i \in DOMAIN table |->
                 Price(i, BuyPercent, rolled[i].buyRoll + skill + Balance(i, classes))])
    /\ UNCHANGED <<home, dice>>

\* price_goods_to_sell at a world, for the seller's skill over the buyer's.
PriceToSell(w, skill) ==
  \E t \in Throws :
    LET rolled == [i \in DOMAIN table |-> [table[i] EXCEPT !.sellRoll = Kept(@, t.three)]]
        classes == uwp_to_trade_classes(w)
    IN
    /\ table' = rolled
    /\ Answer([about |-> "sell", at |-> w, skill |-> skill],
              [i \in DOMAIN table |->
                 Price(i, SellPercent, rolled[i].sellRoll + skill - Balance(i, classes))])
    /\ UNCHANGED <<home, dice>>

ResetGoods ==
  /\ table' = [i \in DOMAIN table |-> [table[i] EXCEPT !.buyRoll = Unrolled, !.sellRoll = Unrolled]]
  /\ answers' = answers \ MarketAnswers
  /\ UNCHANGED <<home, dice>>
-----------------------------------------------------------------------------
Passengers == {"high", "medium", "basic", "low"}
Cargo == {"major", "minor", "incidental"}
UnrolledDice ==
  [c \in Passengers \cup Cargo |->
     IF c \in Passengers THEN [roll |-> Unrolled, counts |-> <<>>]
     ELSE [roll |-> Unrolled, check |-> Unrolled, sizes |-> <<>>]]

Port(w) == CASE w.port = "A" -> 2 [] w.port = "B" -> 1 [] w.port = "E" -> -1 [] w.port = "X" -> -3 [] OTHER -> 0
Parsecs(n) == IF n > 1 THEN 1 - n ELSE 0

\* What generate_passenger_class adds to the roll, for each of the two worlds.
Travellers(w) ==
  Port(w) + (CASE w.zone = "Amber" -> 1 [] w.zone = "Red" -> -4 [] OTHER -> 0)
  + (IF w.population <= 1 THEN -4 ELSE IF w.population >= 8 THEN 3 ELSE IF w.population >= 6 THEN 1 ELSE 0)
\* And generate_cargo_class.
Shippers(w) ==
  Port(w) + (CASE w.zone = "Amber" -> -2 [] w.zone = "Red" -> -6 [] OTHER -> 0)
  + (IF w.population <= 1 THEN -4 ELSE IF w.population >= 8 THEN 4 ELSE IF w.population >= 6 THEN 2 ELSE 0)
  + (IF w.tech <= 6 THEN -1 ELSE IF w.tech >= 9 THEN 2 ELSE 0)

CountDice(roll) ==
  CASE roll <= 1 -> 0 [] roll \in 2..3 -> 1 [] roll \in 4..6 -> 2 [] roll \in 7..10 -> 3
    [] roll \in 11..13 -> 4 [] roll \in 14..15 -> 5 [] roll \in 16..19 -> roll - 10 [] OTHER -> 10

generate_passenger_class(kept, c, origin, to, parsecs, skill) ==
  LET roll == kept.roll + skill + Travellers(origin) + Travellers(to) + Parsecs(parsecs)
              + CASE c = "high" -> -4 [] c = "low" -> 1 [] OTHER -> 0
  IN  FoldLeft(+, 0, SubSeq(kept.counts, 1, CountDice(roll)))

NumLots(kept, c, origin, to, parsecs, skill) ==
  kept.roll + kept.check + skill - 8 + Shippers(origin) + Shippers(to) + Parsecs(parsecs)
  + CASE c = "major" -> -4 [] c = "incidental" -> 2 [] OTHER -> 0

Longer(sizes, n, die) == sizes \o [i \in 1..(Max({n, Len(sizes)}) - Len(sizes)) |-> die]

\* A number of lots below nothing takes every size rolled so far.
Lots(kept, n) == IF n < 0 THEN kept.sizes ELSE SubSeq(kept.sizes, 1, n)

\* The largest first, in tons.
Offered(lots) == SortSeq([i \in DOMAIN lots |-> 10 * lots[i]], >)

\* All ten dice of a class are rolled with its first roll.
Rolling(t) ==
  [c \in Passengers \cup Cargo |->
     IF c \in Passengers
     THEN [roll |-> Kept(dice[c].roll, t.two),
           counts |-> IF dice[c].counts = <<>> THEN [i \in 1..10 |-> t.one] ELSE dice[c].counts]
     ELSE [dice[c] EXCEPT !.roll = Kept(@, t.two), !.check = Kept(@, t.two)]]

\* AvailablePassengers::generate: sizes of lots are added as more of them are
\* needed.
GeneratePassage(to, parsecs, steward, broker) ==
  \E t \in Throws :
    LET rolled == Rolling(t)
        n == [c \in Cargo |-> NumLots(rolled[c], c, home, to, parsecs, broker)]
        sized == [c \in Passengers \cup Cargo |->
                    IF c \in Cargo THEN [rolled[c] EXCEPT !.sizes = Longer(@, n[c], t.one)] ELSE rolled[c]]
    IN  /\ dice' = sized
        /\ Answer([about |-> "passage", from |-> home, at |-> to, parsecs |-> parsecs,
                   skill |-> <<steward, broker>>],
                  [passengers |-> [c \in Passengers |->
                                     generate_passenger_class(sized[c], c, home, to, parsecs, steward)],
                   lots |-> Offered(Lots(sized["major"], n["major"]) \o Lots(sized["minor"], n["minor"])
                                    \o Lots(sized["incidental"], n["incidental"])),
                   fewest |-> Min({n[c] : c \in Cargo})])
        /\ UNCHANGED <<home, table>>

\* AvailablePassengers::reset_die_rolls leaves the sizes of the lots.
ResetPassengers ==
  /\ dice' = [c \in Passengers \cup Cargo |->
                IF c \in Passengers THEN UnrolledDice[c]
                ELSE [UnrolledDice[c] EXCEPT !.sizes = dice[c].sizes]]
  /\ answers' = {a \in answers : a.asked.about # "passage"}
  /\ UNCHANGED <<home, table>>
-----------------------------------------------------------------------------
MarketInit ==
  /\ home \in Ports /\ table = None /\ dice = UnrolledDice /\ answers = {}
MarketNext ==
  \/ ResetGoods \/ ResetPassengers
  \/ \E w \in Ports : ForWorld(w)
  \/ \E skill \in Skills : PriceToBuy(skill) \/ \E w \in Ports : PriceToSell(w, skill)
  \/ \E w \in Ports \ {home}, n \in Jumps, skill \in Skills : GeneratePassage(w, n, skill, skill)
-----------------------------------------------------------------------------
MarketTypeOK ==
  /\ home \in Ports /\ DOMAIN table \subseteq DOMAIN TradeTable
  /\ \A i \in DOMAIN table : table[i].quantity \in Nat \ {0}
                             /\ {table[i].buyRoll, table[i].sellRoll} \subseteq {Unrolled} \cup 3..18
  /\ \A c \in Passengers : dice[c].roll \in {Unrolled} \cup 2..12 /\ dice[c].counts \in Seq(1..6)
  /\ \A c \in Cargo : {dice[c].roll, dice[c].check} \subseteq {Unrolled} \cup 2..12 /\ dice[c].sizes \in Seq(1..6)

\* Until its dice are reset, a question has one answer, whatever was asked in
\* between: prices at a world for a skill, passengers and lots for a
\* destination (available_goods.rs:84-89, available_passengers.rs:478-480).
\* Lots are left out where a class has fewer than none of them.
KeptDice ==
  \A a, b \in answers :
    a.asked = b.asked =>
      IF a.asked.about = "passage"
      THEN /\ a.given.passengers = b.given.passengers
           /\ a.given.fewest >= 0 => a.given.lots = b.given.lots
      ELSE a.given = b.given
=============================================================================
