------------------------------- MODULE Voyage -------------------------------
(***************************************************************************)
(* The ship simulator's voyage (src/src/simulator/executor.rs): stop after *)
(* stop, a ship pays its periodic costs, lies in port, may meet with an    *)
(* incident, sells, chooses where to go, loads, and jumps, until it is     *)
(* home again, stranded, marooned, or too long overdue.                    *)
(*                                                                         *)
(* run_simulation is one sequential loop; an action here is a stretch of   *)
(* it between two of the steps it reports.  Dice, markets, prices and the  *)
(* answers of the world service are chosen from the sets the constants     *)
(* give; dates are days since the start; money is in credits, the amounts  *)
(* the code's own.                                                         *)
(***************************************************************************)
EXTENDS Sums, Sequences, FiniteSets, SequencesExt

CONSTANTS
  Worlds, Home, Distance,  \* the sector: its worlds and their hex distances
  Site,                    \* per world: port, zone, law, foreign
  JumpRating, Capacity, Rooms, Berths,     \* the ship: tons, staterooms, berths
  Leadership, Weapons, Broker,             \* and its skills
  Maintenance, Salary, Mortgage, CrewCost, \* per period, and per jump
  FuelCost,                \* per parsec
  StartBudget,
  Target,                  \* days from the start to the target date
  DaysInPort, DaysPerJump, DaysPerWeek, PeriodDays, AbortOverflow,
  Goods,                   \* trade goods, by index
  Markets,                 \* bound: markets a port may have, per good an Offer
  Passengers,              \* bound: travellers and freight lots at a port
  Prices,                  \* bound: prices a held good may fetch
  D6, D2x6                 \* bound: the rolls of one die and of two

Offer == [tons : Nat, buy : Nat, sell : Nat]
Crowd == [high : Nat, medium : Nat, basic : Nat, low : Nat, lots : Seq(Nat)]
Place == [port : {"A", "B", "C", "D", "E", "X"}, zone : {"green", "amber", "red"},
          law : Nat, foreign : BOOLEAN]

ASSUME VoyageAssumption ==
  /\ Home \in Worlds
  /\ Distance \in [Worlds -> [Worlds -> Nat]]
  /\ Site \in [Worlds -> Place]
  /\ {JumpRating, Capacity, Rooms, Berths, FuelCost} \subseteq Nat
  /\ {Leadership, Weapons, Broker} \subseteq Int
  /\ {Maintenance, Salary, Mortgage, CrewCost} \subseteq Nat
  /\ StartBudget \in Int /\ Target \in Int
  /\ {DaysInPort, DaysPerJump, DaysPerWeek, PeriodDays, AbortOverflow} \subseteq Nat \ {0}
  /\ IsFiniteSet(Goods)
  /\ Markets \subseteq [Goods -> Offer]
  /\ Passengers \subseteq Crowd
  /\ Prices \subseteq Nat
  /\ D6 \subseteq 1 .. 6 /\ D2x6 \subseteq 2 .. 12

VARIABLES
  pc,        \* where the loop stands
  date,      \* days since the start
  since,     \* days_since_payment
  periods,   \* periods_paid
  budget,
  negative,  \* went_negative
  hold,      \* per good, the tons aboard and the cost they are booked at
  sold,      \* goods marked for sale here (transacted), not yet taken off
  at,        \* the world the ship is at
  next,      \* the world it is about to jump to
  load,      \* what was bought and taken on for the jump
  known,     \* worlds the WorldCache has an answer for
  jumps,
  outcome,   \* how the voyage ended
  \* History, read by properties only:
  traded     \* tons bought less those sold or stolen

voyageVars ==
  <<pc, date, since, periods, budget, negative, hold, sold, at, next, load, known, jumps,
    outcome, traded>>

Steps == {"costs", "incident", "sell", "home", "route", "load", "support", "jump",
          "arrive", "over"}
Outcomes == {"none", "home", "overdue", "stranded", "marooned"}
NoLoad == [buys |-> [g \in Goods |-> [tons |-> 0, cost |-> 0]], freight |-> 0,
           pax |-> 0, support |-> 0, revenue |-> 0]
TonsOf(h, goods) == SumOver([g \in goods |-> h[g].tons], goods)
Tons(h) == TonsOf(h, DOMAIN h)
Stock == [Goods -> [tons : Nat, cost : Nat]]

VoyageTypeOK ==
  /\ pc \in Steps
  /\ date \in Nat /\ since \in Nat /\ periods \in Nat
  /\ budget \in Int /\ negative \in BOOLEAN
  /\ hold \in Stock /\ sold \subseteq Goods
  /\ at \in Worlds /\ next \in Worlds
  /\ load \in [buys : Stock, freight : Nat, pax : Nat, support : Nat, revenue : Nat]
  /\ known \subseteq Worlds
  /\ jumps \in Nat
  /\ outcome \in Outcomes
  /\ traded \in Int

VoyageInit ==
  /\ pc = "costs"
  /\ date = 0 /\ since = 0 /\ periods = 0
  /\ budget = StartBudget /\ negative = FALSE
  /\ hold = NoLoad.buys /\ sold = {}
  /\ at = Home /\ next = Home
  /\ load = NoLoad
  /\ known = {}
  /\ jumps = 0
  /\ outcome = "none"
  /\ traded = 0

-----------------------------------------------------------------------------
(* Accounts, shared by the steps.                                          *)

Lower(a, b) == IF a < b THEN a ELSE b
AtLeast0(n) == IF n < 0 THEN 0 ELSE n

\* Money goes out (or comes in) and `tons` of goods come aboard (or go).
Account(amount, tons) ==
  budget' = budget - amount /\ traded' = traded + tons

Pay(amount) == Account(amount, 0)

\* The checks that set went_negative.
NoteDebt == negative' = (negative \/ budget' < 0)

Spend(days) == date' = date + days /\ since' = since + days

End(how) == pc' = "over" /\ outcome' = how

-----------------------------------------------------------------------------
(* (1) and (2): periodic costs, the overdue check, the port stay.          *)

\* Mutant: the period is taken as over a day early.
PayEarly ==
  /\ pc = "costs" /\ since >= PeriodDays - 1
  /\ Pay(Maintenance + Salary + Mortgage) /\ NoteDebt
  /\ periods' = periods + 1
  /\ since' = since - PeriodDays
  /\ UNCHANGED <<pc, date, hold, sold, at, next, load, known, jumps, outcome>>

PayPeriod ==
  /\ pc = "costs" /\ since >= PeriodDays
  /\ Pay(Maintenance + Salary + Mortgage) /\ NoteDebt
  /\ periods' = periods + 1
  /\ since' = since - PeriodDays
  /\ UNCHANGED <<pc, date, hold, sold, at, next, load, known, jumps, outcome>>

GiveUp ==
  /\ pc = "costs" /\ since < PeriodDays
  /\ Target - date < -AbortOverflow
  /\ End("overdue")
  /\ UNCHANGED <<date, since, periods, budget, negative, hold, sold, at, next, load, known,
                 jumps, traded>>

\* There is no incident before the first jump.
StayInPort ==
  /\ pc = "costs" /\ since < PeriodDays
  /\ Target - date >= -AbortOverflow
  /\ Spend(DaysInPort)
  /\ pc' = IF jumps = 0 THEN "sell" ELSE "incident"
  /\ UNCHANGED <<periods, budget, negative, hold, sold, at, next, load, known, jumps,
                 outcome, traded>>

-----------------------------------------------------------------------------
(* (3): incidents (incidents.rs, run_incident_roll).                       *)

PortModifier(port) ==
  CASE port = "A" -> 4 [] port = "B" -> 2 [] port = "E" -> -2 [] port = "X" -> -4 [] OTHER -> 0

ZoneModifier(zone) == CASE zone = "green" -> 0 [] zone = "amber" -> -2 [] zone = "red" -> -4

\* Port and zone together; X and Red count once.
LocalModifier(w) ==
  PortModifier(Site[w].port) + ZoneModifier(Site[w].zone)
    + (IF Site[w].port = "X" /\ Site[w].zone = "red" THEN 4 ELSE 0)

AvoidanceModifier(w) ==
  LocalModifier(w)
    + (CASE Site[w].law = 0 -> -4 [] Site[w].law \in 1 .. 4 -> -2
         [] Site[w].law \in 5 .. 9 -> 0 [] OTHER -> -2)
    + (IF Site[w].foreign THEN -4 ELSE 0)

TableModifier(w) ==
  LocalModifier(w)
    + (CASE Site[w].law <= 7 -> 0 [] Site[w].law \in 8 .. 9 -> 2 [] OTHER -> 4)
    + (IF Site[w].foreign THEN 4 ELSE 0)

\* A natural 2 is never avoided.
Avoided(roll) == roll # 2 /\ roll + Leadership + AvoidanceModifier(at) >= 8

\* Mutant: the weeks lost delay the ship but do not count towards the period.
UncountedMishap(credits, weeks) ==
  /\ Pay(credits) /\ NoteDebt
  /\ date' = date + weeks * DaysPerWeek /\ UNCHANGED since

\* Credits and weeks lost.
Mishap(credits, weeks) ==
  /\ Pay(credits) /\ NoteDebt
  /\ Spend(weeks * DaysPerWeek)

\* Pirates take a share of the cargo, good by good: one good at most is left
\* with a part of its tons.
Plundered(h, target) ==
  {k \in [Goods -> [tons : 0 .. Tons(h), cost : {h[g].cost : g \in Goods}]] :
     /\ \A g \in Goods : k[g].tons <= h[g].tons /\ k[g].cost = h[g].cost
     /\ Tons(k) = Tons(h) - target
     /\ Cardinality({g \in Goods : 0 < k[g].tons /\ k[g].tons < h[g].tons}) <= 1}

Piracy ==
  \E force, damage \in D2x6, weeks \in D6 :
    LET share  == AtLeast0(Lower(force - Weapons, 10))
        target == (Tons(hold) * share * 10) \div 100
    IN  /\ Account(AtLeast0(damage - Leadership) * Maintenance, -target)
        /\ NoteDebt
        /\ Spend(weeks * DaysPerWeek)
        /\ hold' \in Plundered(hold, target)

ScamStep == 100000      \* TRADE_SCAM_CR_PER_STEP
AccidentStep == 100000  \* ACCIDENT_CR_PER_STEP
FineStep == 100000      \* GOV_FINE_CR_PER_STEP

Scam ==
  \E roll \in D2x6, die \in D6 \cap 1 .. 3 :
    Mishap(AtLeast0(roll - Broker) * ScamStep, AtLeast0(die - Leadership))

CrewLoss == \E roll \in D2x6 : Mishap(0, AtLeast0((roll \div 2) - Leadership))

Accident == \E die \in D6 : Mishap(die * AccidentStep, 0)

Government == \E die \in D6, roll \in D2x6 : Mishap(die * FineStep, roll)

Incident ==
  /\ pc = "incident" /\ pc' = "sell"
  /\ \E roll, table \in D2x6 :
       LET total == table + TableModifier(at)
       IN  \/ Avoided(roll) /\ UNCHANGED <<date, since, budget, negative, hold, traded>>
           \/ ~Avoided(roll) /\ total <= 4 /\ Piracy
           \/ ~Avoided(roll) /\ total \in 5 .. 6 /\ Scam /\ UNCHANGED hold
           \/ ~Avoided(roll) /\ total = 7 /\ CrewLoss /\ UNCHANGED hold
           \/ ~Avoided(roll) /\ total \in 8 .. 9 /\ Accident /\ UNCHANGED hold
           \/ ~Avoided(roll) /\ total >= 10 /\ Government /\ UNCHANGED hold
  /\ UNCHANGED <<periods, sold, at, next, load, known, jumps, outcome>>

-----------------------------------------------------------------------------
(* (4) to (6): what is worth more than it is booked at is sold; at home the *)
(* voyage ends there.                                                      *)

Aboard == {g \in Goods : hold[g].tons > 0}
AtHome == jumps > 0 /\ at = Home

\* Mutant: a good that is bought again replaces the tons held back.
Overwritten(buys) ==
  [g \in Goods |-> IF buys[g].tons > 0 THEN buys[g]
                   ELSE IF g \in sold THEN NoLoad.buys[g] ELSE hold[g]]

\* ShipManifest::process_trades on the goods: what was sold goes off, and
\* what was bought joins the tons already held at THEIR cost (add_good).
Restocked(buys) ==
  [g \in Goods |->
     LET left == IF g \in sold THEN 0 ELSE hold[g].tons
     IN  [tons |-> left + buys[g].tons,
          cost |-> IF left > 0 THEN hold[g].cost ELSE buys[g].cost]]

Sell ==
  /\ pc = "sell"
  /\ \E price \in [Aboard -> Prices] :
       LET selling == {g \in Aboard : price[g] >= hold[g].cost}
           proceeds == [g \in selling |-> price[g] * hold[g].tons]
       IN  /\ Account(-SumOver(proceeds, selling), -TonsOf(hold, selling))
           /\ sold' = selling
  /\ pc' = IF AtHome THEN "home" ELSE "route"
  /\ UNCHANGED <<date, since, periods, negative, hold, at, next, load, known, jumps, outcome>>

SettleAtHome ==
  /\ pc = "home"
  /\ hold' = Restocked(NoLoad.buys) /\ sold' = {}
  /\ End("home")
  /\ UNCHANGED <<date, since, periods, budget, negative, at, next, load, known, jumps, traded>>

-----------------------------------------------------------------------------
(* (6): where to go (route.rs pick_next, WorldCache::candidates_within).   *)

InReach == {w \in Worlds \ {at} : Distance[at][w] <= JumpRating}

\* Progress is 0 when the target is not after the start.
Past(num, den) == Target > 0 /\ den * date >= num * Target

\* The score decides among what the rules leave; it is not modelled.
Picks(candidates) ==
  LET away    == candidates \ {Home}
      nearest == {w \in candidates : \A v \in candidates : Distance[w][Home] <= Distance[v][Home]}
  IN  IF Past(1, 1) /\ Home \in candidates THEN {Home}
      ELSE IF Past(3, 4) THEN nearest
      ELSE IF ~Past(1, 2) /\ away # {} THEN away
      ELSE candidates

\* A world whose request failed is left out this time and asked for again.
Route ==
  /\ pc = "route"
  /\ \E found \in SUBSET (InReach \ known) :
       LET candidates == InReach \cap (known \cup found)
       IN  /\ known' = known \cup found
           /\ IF candidates = {}
                THEN End("stranded") /\ UNCHANGED next
                ELSE next' \in Picks(candidates) /\ pc' = "load" /\ UNCHANGED outcome
  /\ UNCHANGED <<date, since, periods, budget, negative, hold, sold, at, load, jumps, traded>>

-----------------------------------------------------------------------------
(* (7) to (9): passengers first, then goods, then freight in what is left. *)

Fare == \* per class, by parsecs (ship_manifest.rs)
  [high   |-> <<9000, 14000, 21000, 34000, 60000, 210000>>,
   medium |-> <<6500, 10000, 14000, 23000, 40000, 130000>>,
   basic  |-> <<2000, 3000, 5000, 8000, 14000, 55000>>,
   low    |-> <<700, 1300, 2200, 3900, 7200, 27000>>]
FreightRate == <<1000, 1600, 2600, 4400, 8500, 32000>>

Parsecs(d) == IF d < 1 THEN 1 ELSE Lower(d, 6)

\* pick_passengers
Boarded(crowd) ==
  LET high   == Lower(crowd.high, Rooms)
      medium == Lower(crowd.medium, Rooms - high)
      basic  == Lower(crowd.basic, 2 * (Rooms - high - medium))
  IN  [high |-> high, medium |-> medium, basic |-> basic, low |-> Lower(crowd.low, Berths)]

PaxRevenue(p, d) ==
  Fare.high[d] * p.high + Fare.medium[d] * p.medium + Fare.basic[d] * p.basic + Fare.low[d] * p.low

\* passenger_cargo_tons, rounded up: 1, 0.1 and 0.01 tons each.
PaxTons(p) == (100 * p.high + 10 * p.medium + p.basic + 99) \div 100

\* passenger_costs, with the crew's: staterooms at 1000 (basics share), life
\* support at 2000, 1000 and 500, low berths at 100.
Support(p) ==
  1000 * (p.high + p.medium + (p.basic + 1) \div 2)
    + 2000 * p.high + 1000 * p.medium + 500 * p.basic + 100 * p.low + CrewCost

Reserve == Support([high |-> Rooms, medium |-> 0, basic |-> 0, low |-> Berths])

\* pick_to_buy: the goods that earn more per ton than freight, best first,
\* each as far as room, money and the market go.
Worthwhile(market, floor) ==
  {g \in Goods : /\ market[g].tons > 0 /\ market[g].buy > 0
                 /\ market[g].sell - market[g].buy > floor}

\* Which of two equally good ones comes first depends on the market's order.
BestFirst(market, goods) ==
  {order \in SetToSeqs(goods) :
     \A i, j \in DOMAIN order : i < j =>
       market[order[i]].sell - market[order[i]].buy >= market[order[j]].sell - market[order[j]].buy}

Take(market, got, g) ==
  LET tons == AtLeast0(Lower(market[g].tons, Lower(got.room, got.money \div market[g].buy)))
  IN  [room |-> got.room - tons, money |-> got.money - tons * market[g].buy,
       buys |-> [got.buys EXCEPT ![g] =
                   IF tons > 0 THEN [tons |-> tons, cost |-> market[g].buy] ELSE @]]

Buy(market, order, room, money) ==
  FoldLeft(LAMBDA got, g : Take(market, got, g),
           [room |-> room, money |-> money, buys |-> NoLoad.buys], order)

\* pick_freight: the largest lots that still fit.
LargestFirst(lots) ==
  {order \in SetToSeqs(DOMAIN lots) :
     \A i, j \in DOMAIN order : i < j => lots[order[i]] >= lots[order[j]]}

FreightTons(lots, order, room) ==
  room - FoldLeft(LAMBDA left, i : IF lots[i] <= left THEN left - lots[i] ELSE left, room, order)

\* Mutant: what the purchases may cost leaves nothing for life support.
Spendable(d) == AtLeast0(budget - d * FuelCost)

BuyBudget(d) == AtLeast0(budget - d * FuelCost - Reserve)

Load ==
  /\ pc = "load" /\ pc' = "support"
  /\ \E crowd \in Passengers, market \in Markets :
       LET d    == Distance[at][next]
           pax  == Boarded(crowd)
           room == AtLeast0(Capacity - PaxTons(pax))
       IN  \E best \in BestFirst(market, Worthwhile(market, FreightRate[Parsecs(d)])),
              largest \in LargestFirst(crowd.lots) :
             LET got   == Buy(market, best, room, BuyBudget(d))
                 cargo == FreightTons(crowd.lots, largest, got.room)
             IN  /\ Account(BuyBudget(d) - got.money, Tons(got.buys))
                 /\ load' = [buys |-> got.buys, freight |-> cargo, pax |-> PaxTons(pax),
                             support |-> Support(pax),
                             revenue |-> PaxRevenue(pax, Parsecs(d)) + FreightRate[Parsecs(d)] * cargo]
  /\ UNCHANGED <<date, since, periods, negative, hold, sold, at, next, known, jumps, outcome>>

-----------------------------------------------------------------------------
(* (10) to (14): life support, marooned or away, and the arrival.          *)

\* Mutant: a ship that cannot pay waits until it can.
PayWhenAble ==
  /\ pc = "support" /\ budget >= load.support
  /\ Pay(load.support) /\ NoteDebt
  /\ pc' = "jump"
  /\ UNCHANGED <<date, since, periods, hold, sold, at, next, load, known, jumps, outcome>>

PaySupport ==
  /\ pc = "support"
  /\ Pay(load.support) /\ NoteDebt
  /\ IF budget' < 0 THEN End("marooned") ELSE pc' = "jump" /\ UNCHANGED outcome
  /\ UNCHANGED <<date, since, periods, hold, sold, at, next, load, known, jumps>>

\* No check follows the payment of the fuel.
Jump ==
  /\ pc = "jump" /\ pc' = "arrive"
  /\ Pay(Distance[at][next] * FuelCost)
  /\ UNCHANGED <<date, since, periods, negative, hold, sold, at, next, load, known, jumps,
                 outcome>>

Arrive ==
  /\ pc = "arrive" /\ pc' = "costs"
  /\ Pay(-load.revenue) /\ NoteDebt
  /\ hold' = Restocked(load.buys) /\ sold' = {}
  /\ Spend(DaysPerJump)
  /\ at' = next /\ jumps' = jumps + 1 /\ load' = NoLoad
  /\ UNCHANGED <<periods, next, known, outcome>>

-----------------------------------------------------------------------------
Computes ==
  \/ PayPeriod \/ GiveUp \/ StayInPort \/ Incident \/ Sell \/ SettleAtHome
  \/ Load \/ PaySupport \/ Jump \/ Arrive

VoyageStep == Computes \/ Route

VoyageSpec == VoyageInit /\ [][VoyageStep]_voyageVars

\* Between two awaits the loop computes and goes on.  Its one await, Route's for
\* the world service, has no time limit (WorldCache::new sets none): no fairness.
FairVoyageSpec == VoyageSpec /\ WF_voyageVars(Computes)
-----------------------------------------------------------------------------
(* Properties.                                                             *)

\* Every day of the voyage counts once towards the periodic payments: the days
\* of the periods paid and of the one under way are the days gone by, however
\* many weeks an incident costs and however many periods they span
\* (executor.rs, the while loop of step 1 and the three places days pass).
DaysAccounted == date = periods * PeriodDays + since

\* The cargo in the hold is what was bought less what was sold or stolen: goods
\* held back at one port, bought again at the next, or taken by pirates in
\* between are neither lost nor doubled (the executor marks, buys and takes
\* goods at four places, process_trades moves them at one).
CargoConserved ==
  traded = TonsOf(hold, Goods \ sold) + Tons(load.buys)

\* Buying goods never costs the ship its departure: what it spends on them is
\* bounded by what fuel and a fully booked ship's life support leave, so a ship
\* that has bought pays for both and is never marooned with its purchases
\* (pax_reserve_estimate and the marooning check, steps 8 to 11).
BuysLeaveMeans ==
  Tons(load.buys) > 0 => outcome # "marooned" /\ (pc = "arrive" => budget >= 0)

\* Every voyage ends: home, overdue, stranded or marooned, whatever the dice do
\* and whichever requests the world service fails, because every stop takes days
\* (executor.rs steps 2, 2b); only a request that is never answered at all can
\* keep it, and then it is that request it waits for (world_fetch.rs:173-186).
VoyageEnds == <>(pc = "over") \/ <>[](pc = "route")

\* What the comments of step 7 and 8 promise: passengers' effects, goods and
\* freight fit the hold ("we'd rather under-fill than overload").
HoldFits ==
  pc \in {"support", "jump", "arrive"} =>
    TonsOf(hold, Goods \ sold) + Tons(load.buys) + load.freight + load.pax <= Capacity
=============================================================================
