---------------------------- MODULE GoodsTrading ----------------------------
(* The buying and selling of components/trade_computer.rs: plans are edited  *)
(* in the market's and the manifest's tables and carried out together by     *)
(* ShipManifest::process_trades; the server answers with a new market, new   *)
(* prices and other passengers (backend/server.rs).  The four classes of     *)
(* passengers, which are handled alike, stand as one.                        *)
EXTENDS Sums, Functions, FiniteSets, SequencesExt

CONSTANTS Goods,   \* source_index
          Tons,    \* bound: the largest quantity
          Prices,  \* bound: prices per ton
          Offers,  \* bound: the server's answers: [market, price, passengers, lots]
          Fare,    \* revenue of a passenger, and Freight of a ton, at the distance
          Freight,
          Clicks   \* bound: events of the user and the server

Unpriced == -1   \* sell_price is None

\* A table holds goods there are some of; no more is planned than there is.
Good == [quantity : Nat \ {0}, transacted : Nat, buy : Prices, sell : Prices \cup {Unpriced}]
Table(t) ==
  /\ DOMAIN t \subseteq Goods /\ t \in [DOMAIN t -> Good]
  /\ \A g \in DOMAIN t : t[g].transacted <= t[g].quantity

ASSUME TradingAssumption ==
  /\ IsFiniteSet(Goods) /\ Prices \subseteq Nat
  /\ {Tons, Fare, Freight, Clicks} \subseteq Nat
  /\ \A o \in Offers : /\ o.price \in [Goods -> Prices] /\ Table(o.market)
                       /\ o.passengers \in Nat /\ o.lots \in Seq(Nat)

VARIABLES
  market,      \* available_goods: [quantity, transacted, buy, sell], by good
  hold,        \* ship_manifest.trade_goods, alike
  aboard,      \* passengers of the manifest
  loaded,      \* freight_lot_indices
  offer,       \* available_passengers: number of passengers, sizes of lots
  profit,      \* ship_manifest.profit
  taken, left, \* history: tons of each good that came aboard, and that left
  settled,     \* history: nothing happened since trades were executed
  clicks       \* events left

tradingVars == <<market, hold, aboard, loaded, offer, profit, taken, left, settled, clicks>>

TradingInit ==
  /\ market = [g \in {} |-> 0] /\ hold = [g \in {} |-> 0]
  /\ aboard = 0 /\ loaded = {} /\ offer = [passengers |-> 0, lots |-> <<>>]
  /\ profit = 0
  /\ taken = [g \in Goods |-> 0] /\ left = [g \in Goods |-> 0]
  /\ settled = FALSE /\ clicks = Clicks

Click == clicks > 0 /\ clicks' = clicks - 1 /\ settled' = FALSE

Stocked(table) == Restrict(table, {g \in DOMAIN table : table[g].quantity > 0})
UpdateGood(table, g, good) ==
  Stocked([h \in DOMAIN table \cup {g} |-> IF h = g THEN good ELSE table[h]])
\* Mutant: a good already held is replaced.
AddGood_Replaces(table, g, good) == UpdateGood(table, g, good)
\* A lot merged into one already held goes by the price paid for that one.
AddGood(table, g, good) ==
  UpdateGood(table, g, IF g \in DOMAIN table
                       THEN [table[g] EXCEPT !.quantity = @ + good.quantity] ELSE good)

PlanPurchase(g, n) ==
  /\ Click /\ g \in DOMAIN market
  /\ market' = [market EXCEPT ![g].transacted = Min({n, market[g].quantity})]
  /\ UNCHANGED <<hold, aboard, loaded, offer, profit, taken, left>>

\* Mutant: what is typed is not clamped.
PlanSale_Unclamped(g, n) ==
  /\ Click /\ g \in DOMAIN hold
  /\ hold' = UpdateGood(hold, g, [hold[g] EXCEPT !.transacted = n])
  /\ UNCHANGED <<market, aboard, loaded, offer, profit, taken, left>>
PlanSale(g, n) ==
  /\ Click /\ g \in DOMAIN hold
  /\ hold' = UpdateGood(hold, g, [hold[g] EXCEPT !.transacted = Min({n, hold[g].quantity})])
  /\ UNCHANGED <<market, aboard, loaded, offer, profit, taken, left>>

BoardPassenger ==
  /\ Click /\ aboard < offer.passengers
  /\ aboard' = aboard + 1
  /\ UNCHANGED <<market, hold, loaded, offer, profit, taken, left>>

DropPassenger ==
  /\ Click /\ aboard > 0
  /\ aboard' = aboard - 1
  /\ UNCHANGED <<market, hold, loaded, offer, profit, taken, left>>

\* Only the lots not yet loaded have a button.
LoadLot(i) ==
  /\ Click /\ i \in DOMAIN offer.lots \ loaded
  /\ loaded' = loaded \cup {i}
  /\ UNCHANGED <<market, hold, aboard, offer, profit, taken, left>>

Unplanned(table) == [g \in DOMAIN table |-> [table[g] EXCEPT !.transacted = 0]]

ResetManifest ==
  /\ Click
  /\ hold' = [g \in {} |-> 0] /\ aboard' = 0 /\ loaded' = {} /\ profit' = 0
  /\ left' = taken
  /\ market' = Unplanned(market)
  /\ UNCHANGED <<offer, taken>>

\* The dialogue's "Done": a quantity that is not positive is complained of, and
\* goes into the manifest all the same.
AddManually(g, n, price) ==
  /\ Click
  /\ hold' = UpdateGood(hold, g, [quantity |-> n, transacted |-> 0, buy |-> price, sell |-> Unpriced])
  /\ taken' = [taken EXCEPT ![g] = left[g] + n]
  /\ UNCHANGED <<market, aboard, loaded, offer, profit, left>>

\* A lot that is no longer on offer weighs nothing.
LotTons == SumOver(offer.lots, loaded \cap DOMAIN offer.lots)
Sales ==
  LET priced == {g \in DOMAIN hold : hold[g].sell # Unpriced}
  IN  SumOver([g \in priced |-> hold[g].transacted * hold[g].sell], priced)
Purchases == SumOver([g \in DOMAIN market |-> market[g].transacted * market[g].buy], DOMAIN market)
Total == aboard * Fare + LotTons * Freight + Sales - Purchases

\* process_trades, up to the passengers and the profit.
Sold(table) == Stocked([g \in DOMAIN table |->
  [table[g] EXCEPT !.quantity = @ - table[g].transacted, !.transacted = 0]])
Bought == {g \in DOMAIN market : market[g].transacted > 0}
Traded ==
  LET kept    == Sold(hold)
      lot(g)  == [market[g] EXCEPT !.quantity = market[g].transacted, !.transacted = 0]
  IN  [g \in DOMAIN kept \cup Bought |-> IF g \in Bought THEN AddGood(kept, g, lot(g))[g] ELSE kept[g]]

Priced(table, price) == [g \in DOMAIN table |-> [table[g] EXCEPT !.sell = price[g]]]

\* Mutant: the purchases stay planned.
Execute_KeepsPlan ==
  /\ clicks > 0 /\ clicks' = clicks - 1 /\ settled' = TRUE
  /\ profit' = profit + Total
  /\ \E price \in [Goods -> Prices] : hold' = Priced(Traded, price)
  /\ left' = [g \in Goods |-> left[g] + IF g \in DOMAIN hold THEN hold[g].transacted ELSE 0]
  /\ taken' = [g \in Goods |-> taken[g] + IF g \in DOMAIN market THEN market[g].transacted ELSE 0]
  /\ aboard' = 0 /\ loaded' = {}
  /\ UNCHANGED <<market, offer>>
\* "Execute Trades": what is held is then priced for the world the ship leaves.
Execute ==
  /\ clicks > 0 /\ clicks' = clicks - 1 /\ settled' = TRUE
  /\ profit' = profit + Total
  /\ \E price \in [Goods -> Prices] : hold' = Priced(Traded, price)
  /\ left' = [g \in Goods |-> left[g] + IF g \in DOMAIN hold THEN hold[g].transacted ELSE 0]
  /\ taken' = [g \in Goods |-> taken[g] + IF g \in DOMAIN market THEN market[g].transacted ELSE 0]
  /\ aboard' = 0 /\ loaded' = {}
  /\ market' = Unplanned(market)
  /\ UNCHANGED offer

\* What the server sends back after a change of worlds or skills: the manifest
\* is only priced anew, whatever has become of the passengers and lots.
Answered(o) ==
  /\ Click
  /\ market' = o.market /\ offer' = [passengers |-> o.passengers, lots |-> o.lots]
  /\ hold' = Priced(hold, o.price)
  /\ UNCHANGED <<aboard, loaded, profit, taken, left>>

TradingNext ==
  \/ \E g \in Goods, n \in 0..Tons :
       PlanPurchase(g, n) \/ PlanSale(g, n) \/ \E p \in Prices : AddManually(g, n, p)
  \/ BoardPassenger \/ DropPassenger \/ ResetManifest \/ Execute
  \/ \E i \in DOMAIN offer.lots : LoadLot(i)
  \/ \E o \in Offers : Answered(o)
-----------------------------------------------------------------------------
\* A sale, like a purchase, is never planned for more than there is
\* (trade_computer.rs:1044-1058, 1125-1139).
TradingTypeOK ==
  /\ Table(market) /\ Table(hold)
  /\ aboard \in Nat /\ loaded \subseteq Nat /\ profit \in Int
  /\ offer \in [passengers : Nat, lots : Seq(Nat)]
  /\ taken \in [Goods -> Nat] /\ left \in [Goods -> Nat]
  /\ settled \in BOOLEAN /\ clicks \in 0..Clicks

\* Over any sequence of purchases, sales and manual entries, what came aboard of
\* a good and did not leave is held (ship_manifest.rs:313-362).
GoodsBalance ==
  \A g \in Goods : taken[g] - left[g] = IF g \in DOMAIN hold THEN hold[g].quantity ELSE 0

\* A second click of "Execute Trades" neither pays, nor buys, nor sells again
\* (ship_manifest.rs:313-362, trade_computer.rs:1968-1986).
ExecutesOnce == settled => Total = 0 /\ Bought = {} /\ Sold(hold) = hold
=============================================================================
