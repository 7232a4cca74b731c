--------------------------- MODULE MCShipSimulator ---------------------------
(* One page, one further client of the simulator (7) and two of the          *)
(* captain's log (8 and 9), in five scenarios: two runs of which a           *)
(* connection breaks; a run and two generations; a run and a generation of   *)
(* which a connection breaks; two log clients at once, of which one breaks   *)
(* or stalls; another simulator client, which may stall, break, or both.     *)
EXTENDS ShipSimulator

MCSims == 1..MaxRuns \cup {7}
MCLogs == 1..MaxGenerations \cup {8, 9}

Case(r, g, o, f) == [runs |-> r, generations |-> g, others |-> o, faults |-> f]
MCScenarios ==
  {Case(2, 0, {}, 1), Case(1, 2, {}, 0), Case(1, 1, {}, 1), Case(0, 0, {8, 9}, 1), Case(0, 0, {7}, 2)}
=============================================================================
