--------------------------- MODULE MCTradeServer ---------------------------
(* TradeServer on two connections and two ships.                           *)
EXTENDS TradeServer, TLC

CONSTANTS w1, k1

\* A session an earlier process left in Firestore, with the tables of w1.
MCStored == {Regenerated([DefaultState EXCEPT !.origin = w1])}

\* What clients send: w1 picked as the origin over tables drawn for no
\* world, and a skill edited over a table drawn at w1.
MCPayloads ==
  { [DefaultState EXCEPT !.origin = w1],
    [DefaultState EXCEPT !.skill = k1, !.goods = w1] }

Symmetry == Permutations(Conns) \cup Permutations(Ships)
=============================================================================
