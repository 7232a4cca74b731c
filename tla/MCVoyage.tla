------------------------------ MODULE MCVoyage ------------------------------
(* A sector of three worlds in a line, home - near - far, and a ship of     *)
(* jump 1 whose trip is planned for a few (short) stops.                    *)
EXTENDS Voyage

Line == [home |-> 0, near |-> 1, far |-> 2]
MCWorlds == DOMAIN Line
MCDistance ==
  [v \in MCWorlds |-> [w \in MCWorlds |-> LET d == Line[v] - Line[w] IN IF d < 0 THEN -d ELSE d]]

\* near is dangerous: every roll but a 12 brings an incident there.
MCSite ==
  [home |-> [port |-> "A", zone |-> "green", law |-> 5, foreign |-> FALSE],
   near |-> [port |-> "C", zone |-> "amber", law |-> 5, foreign |-> FALSE],
   far  |-> [port |-> "B", zone |-> "green", law |-> 10, foreign |-> FALSE]]

MCGoods == {"ore", "wine"}
NoOffer == [tons |-> 0, buy |-> 0, sell |-> 0]
MCMarkets ==
  {[ore |-> NoOffer, wine |-> NoOffer],
   [ore |-> [tons |-> 3, buy |-> 10000, sell |-> 15000],
    wine |-> [tons |-> 2, buy |-> 20000, sell |-> 30000]]}

MCPassengers ==
  {[high |-> 0, medium |-> 0, basic |-> 0, low |-> 0, lots |-> <<>>],
   [high |-> 1, medium |-> 1, basic |-> 4, low |-> 1, lots |-> <<1, 2, 5>>]}

MCPrices == {5000, 20000}
=============================================================================
