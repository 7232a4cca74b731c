---------------------------- MODULE MCWorldTools ---------------------------
(* WorldTools on small worlds: two of one name, markets of two goods, three  *)
(* spellings of two planets, and rows that compete for four orbits.          *)
EXTENDS WorldTools

Wd(n, s) == [name |-> n, sector |-> s]
MCWorlds == {Wd("Noricum", "A"), Wd("Noricum", "B"), Wd("Nor", "A")}
MCNames == {"", "Nor", "Noricum"}
MCAtlas == "" :> <<>>
           @@ "Nor" :> <<Wd("Noricum", "A"), Wd("Noricum", "B"), Wd("Nor", "A")>>
           @@ "Noricum" :> <<Wd("Noricum", "A"), Wd("Noricum", "B")>>
MCLength == "" :> 0 @@ "Nor" :> 3 @@ "Noricum" :> 7
MCUnsurveyed == {Wd("Nor", "A")}
Effort(t, c, r) == [type |-> t, commit |-> c, table |-> r]
MCEfforts == {Effort(2, 1, 0), Effort(1, 2, 0), Effort(1, 1, 2), Effort(0, 0, 3)}

Lot(q, b, s) == [quantity |-> q, transacted |-> 0, buy |-> b, sell |-> s]
MCOffers ==
  {[market |-> 1 :> Lot(2, 1, 2), price |-> 1 :> 2 @@ 2 :> 1, passengers |-> 1, lots |-> <<1>>],
   [market |-> 1 :> Lot(1, 2, 1) @@ 2 :> Lot(1, 1, 1), price |-> 1 :> 1 @@ 2 :> 2,
    passengers |-> 0, lots |-> <<>>]}

Query(s, n, o, sc) == [sector |-> s, hex |-> "1910", orbit |-> o, name |-> n,
                       uwp |-> "A788899-A", scale |-> sc, drawable |-> TRUE]
MCPlain == "Core" :> "core" @@ "core" :> "core" @@ "Regina" :> "regina" @@ "REGINA" :> "regina"
           @@ "A788899-A" :> "A788899-A" @@ " A788899-A" :> "A788899-A" @@ "A7" :> "A7"
\* A blank before the port counts as one of the eight characters.
MCUwpRead == "A788899-A" :> "A788899A" @@ " A788899-A" :> " A788899" @@ "A7" :> "none"
World(p) == [method |-> "GET", path |-> "/api/world", upgrade |-> FALSE, prompt |-> TRUE, params |-> p]
Other(m, path, up, prompt) ==
  [method |-> m, path |-> path, upgrade |-> up, prompt |-> prompt, params |-> NoParams]
MCCalls ==
  {World(Query("Core", "Regina", 3, 2)), World([Query("core", "REGINA", 3, 1) EXCEPT !.uwp = " A788899-A"]),
   World(Query("Core", "Regina", 4, 3)), World(Query("Core", "Regina", 3, 0)),
   World([Query("Core", "Regina", 3, 2) EXCEPT !.uwp = "A7", !.drawable = FALSE]),
   [World(Query("Core", "Regina", 3, 2)) EXCEPT !.path = "/api/system"],
   Other("OPTIONS", "/api/world", FALSE, TRUE), Other("POST", "/api/world", FALSE, TRUE),
   Other("GET", "/", TRUE, FALSE), Other("GET", "/ws/simulator", TRUE, TRUE)}

Planet(o, m, b) == [orbit |-> o, moons |-> m, solid |-> b]
Giant(o, m)     == [orbit |-> o, moons |-> m]
MainRow(air, solid, pop, m) ==
  [orbit |-> Open, airy |-> air, solid |-> solid, pop |-> pop, tech |-> 8, moons |-> m]
System(st, pl, be, gi, em, mo, main) ==
  [stars |-> st, planets |-> pl, belts |-> be, giants |-> gi, empties |-> em, moons |-> mo, main |-> main]
MCRows ==
  {System(<<Close>>, <<Planet(1, 2, TRUE)>>, <<Planet(Open, Open, FALSE)>>, <<Giant(3, 2)>>, <<0>>,
          <<[parent |-> 1, size |-> Open], [parent |-> 2, size |-> 0]>>, MainRow(TRUE, TRUE, 5, 1)),
   System(<<2, Close, Close>>, <<>>, <<>>, <<Giant(2, Open)>>, <<3>>, <<>>, MainRow(TRUE, FALSE, 5, Open)),
   System(<<Close>>, <<>>, <<>>, <<Giant(2, Open)>>, <<3>>, <<>>, MainRow(TRUE, FALSE, 5, Open)),
   System(<<Close>>, <<Planet(1, 2, TRUE)>>, <<>>, <<Giant(1, 2)>>, <<>>, <<>>, MainRow(TRUE, TRUE, 5, Open)),
   System(<<Close>>, <<>>, <<>>, <<>>, <<>>, <<>>, MainRow(FALSE, TRUE, 0, Open))}
MCZones == {[inside |-> -1, hot |-> 0, inner |-> 1, habitable |-> 2]}
MCMaxOrbits == [s \in Range(Stars) |-> IF s = "primary" THEN {3} ELSE {0}]
MCStarOrbits == {Far, 2}
MCMoonRolls == {[ring |-> TRUE, at |-> 1], [ring |-> TRUE, at |-> 2], [ring |-> FALSE, at |-> 5]}

Pin(t, s, z) == [type |-> t, subtype |-> s, size |-> z]
MCStarPins == {Pin(Unset, 2, Unset), Pin("O", 7, "IV")}

\* Main worlds that can, and cannot, reach where there is no air; of 0 people too.
MCMainWorlds ==
  {[NewWorld(8, a, 5, n) EXCEPT !.government = 6, !.law = 3, !.tech = t] :
     a \in {4, 6}, n \in {0, 9}, t \in {6, 7, 10}}
MCWorldRows ==
  {[NoRow EXCEPT !.size = 10], [NoRow EXCEPT !.atmosphere = 0, !.population = 5],
   [NoRow EXCEPT !.tech = 9, !.size = 0]}
Place(o, inner, habitable, cool) == [orbit |-> o, inner |-> inner, habitable |-> habitable, cool |-> cool]
MCPlaces == {Place(4, 1, 4, TRUE), Place(5, 2, 3, FALSE)}

Harbour(size, air, hydro, people, tech, port, advice) ==
  [size |-> size, atmosphere |-> air, hydro |-> hydro, population |-> people, government |-> 4,
   law |-> 3, tech |-> tech, port |-> port, zone |-> advice]
MCPorts == {Harbour(8, 6, 6, 2, 12, "A", "Green"), Harbour(0, 0, 0, 0, 5, "X", "Red")}
Throw(two, three, one) == [two |-> two, three |-> three, one |-> one]
MCThrows == {Throw(7, 10, 3), Throw(11, 14, 6)}

Asked(chars, bad, hydro, people, port) ==
  [chars |-> chars, bad |-> bad, hydro |-> hydro, people |-> people, port |-> port]
MCRequests ==
  {Asked(7, FALSE, 0, 0, "A"), Asked(8, TRUE, 0, 0, "A"), Asked(8, FALSE, 1, 6, "X"),
   Asked(8, FALSE, 2, 6, "Y"), Asked(8, FALSE, 3, 0, "A"), Asked(8, FALSE, 4, 8, "A"),
   Asked(8, FALSE, 10, 6, "B")}
MCUrban == 0 :> {0} @@ 6 :> {0, 4} @@ 8 :> {40}
\* Rivers across the seam, to the sea, to a basin too far from it and to one not.
MCHeights ==
  {<<30, 10, 5, 20, 50, 45, 35, 32, 34, 31>>, <<1, 2, 60, 55, 50, 45, 30, 40, 50, 0>>,
   <<1, 2, 60, 55, 50, 45, 40, 30, 50, 0>>, <<33, 32, 31, 30, 20, 29, 30, 40, 40, 36>>}
MCClimates == {[temp |-> 50, humidity |-> 50], [temp |-> 12, humidity |-> 50]}
=============================================================================
