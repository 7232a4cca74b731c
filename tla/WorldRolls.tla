----------------------------- MODULE WorldRolls -----------------------------
(* systems/world.rs, and the generators of system.rs and gas_giant.rs that    *)
(* build a World: its digits are taken from a row or rolled, one after the    *)
(* other.  All but the main world are subordinate to it: what lives there,    *)
(* and with what tools, depends on the main world.  Names, astronomy and      *)
(* starport codes are left out.                                               *)
EXTENDS Integers, FiniteSets, FiniteSetsExt, Sequences, SequencesExt

CONSTANTS MainWorlds,  \* [digits : Ehex, ...] as from_uwp reads them
          WorldRows,   \* partial UWPs: a digit, or Wild
          Wild,
          Places,      \* [orbit, inner, habitable, cool]: an orbit, its zones, the star not of type M
          Parents,     \* sizes of worlds that get moons
          TwoDice,     \* bound: of 2..12
          OneDie       \* bound: of 1..6

DigitNames == {"size", "atmosphere", "hydro", "population", "government", "law", "tech"}
\* ehex_to_value
Ehex == 0..33

ASSUME WorldAssumption ==
  /\ \A w \in MainWorlds, d \in DigitNames : w[d] \in Ehex
  /\ WorldRows \subseteq [DigitNames -> Ehex \cup {Wild}]
  /\ Parents \subseteq -7..33 /\ TwoDice \subseteq 2..12 /\ OneDie \subseteq 1..6

VARIABLES
  mainWorld,  \* the main world
  given,   \* the row the body was made from; NoRow
  made,  \* the body; NoBody before
  maker   \* which generator made it

worldVars == <<mainWorld, given, made, maker>>

NoRow == [d \in DigitNames |-> Wild]
NewWorld(size, air, hydro, population) ==
  [size |-> size, atmosphere |-> air, hydro |-> hydro, population |-> population,
   government |-> 0, law |-> 0, tech |-> 0, facilities |-> {}]
NoBody == NewWorld(0, 0, 0, 0)

\* check_uwp_consistency
Consistent(p) ==
  ~ \/ p.size = 0 /\ p.hydro # Wild /\ p.hydro > 0
    \/ p.atmosphere # Wild /\ p.hydro # Wild /\ p.hydro >= 10 /\ (p.atmosphere <= 1 \/ p.atmosphere >= 10)

Clamp(n, low, high) == Max({low, Min({n, high})})
\* A digit the row gives, or what is rolled for it.
OrRolled(digit, rolled) == IF digit = Wild THEN rolled ELSE {digit}
Minus(n, condition) == IF condition THEN -n ELSE 0

has_real_atmosphere(air) == air \in 2..8
force_lifeless(air) == ~has_real_atmosphere(air) /\ mainWorld.tech < 7

\* Mutant: tools do not depend on whether there is anyone.
subordinate_tech_level_Anywhere(population, air) ==
  IF ~has_real_atmosphere(air) /\ mainWorld.tech = 7 THEN 7 ELSE Max({mainWorld.tech - 1, 0})
subordinate_tech_level(population, air) ==
  IF population <= 0 THEN 0
  ELSE IF ~has_real_atmosphere(air) /\ mainWorld.tech = 7 THEN 7 ELSE Max({mainWorld.tech - 1, 0})

\* gen_trade_classes
Classes(w, isMain) ==
  {c \in {"Ag", "Na", "As", "Ba", "Fl", "Ga", "Hi", "Ht", "In", "Ni", "Lt", "Ri", "Po", "Wa", "De", "Ic", "Va"} :
     CASE c = "Ag" -> w.atmosphere \in 4..9 /\ w.hydro \in 4..8 /\ w.population \in 5..7
       [] c = "Na" -> w.atmosphere <= 3 /\ w.hydro <= 3 /\ w.population >= 6
       [] c = "As" -> w.size = 0 /\ w.atmosphere = 0 /\ w.hydro = 0 /\ isMain
       [] c = "Ba" -> w.population = 0 /\ w.government = 0 /\ w.law = 0
       [] c = "Fl" -> w.atmosphere >= 10 /\ w.hydro >= 1
       [] c = "Ga" -> w.size \in 6..8 /\ w.atmosphere \in {5, 6, 8} /\ w.hydro \in 5..7
       [] c = "Hi" -> w.population >= 9
       [] c = "Ht" -> w.tech >= 12
       [] c = "In" -> w.atmosphere \in {0, 1, 2, 4, 7, 9} /\ w.population >= 9
       [] c = "Ni" -> w.population \in 1..6
       [] c = "Lt" -> w.population >= 1 /\ w.tech <= 5
       [] c = "Ri" -> w.atmosphere \in {6, 8} /\ w.population \in 6..8 /\ w.government \in 4..9
       [] c = "Po" -> w.population > 0 /\ w.atmosphere \in 2..5 /\ w.hydro <= 3
       [] c = "Wa" -> w.hydro >= 10
       [] c = "De" -> w.hydro <= 0 /\ w.atmosphere > 1
       [] c = "Ic" -> w.atmosphere <= 1 /\ w.hydro >= 10
       [] c = "Va" -> w.atmosphere <= 0 /\ w.population > 1}
-----------------------------------------------------------------------------
\* gen_subordinate_stats, and with the digits of a row.
Government(population) ==
  LET mod == IF mainWorld.government = 6 THEN population ELSE IF mainWorld.government >= 7 THEN 1 ELSE 0
  IN  IF population <= 0 THEN {0}
      ELSE {IF d + mod <= 4 THEN d + mod - 1 ELSE 6 : d \in OneDie}
Law(population) ==
  IF population <= 0 THEN {0} ELSE {Max({d - 3 + mainWorld.law, 0}) : d \in OneDie}
Stats(w, p) ==
  {[w EXCEPT !.government = g, !.law = l,
             !.tech = IF p.tech = Wild THEN subordinate_tech_level(w.population, w.atmosphere) ELSE p.tech] :
     g \in OrRolled(p.government, Government(w.population)), l \in OrRolled(p.law, Law(w.population))}

\* Mutant: a laboratory brings the tools of the main world wherever it is.
Lab_Anywhere(w) == [w EXCEPT !.facilities = @ \cup {"Lab"}, !.tech = mainWorld.tech]
Lab(w) == [w EXCEPT !.facilities = @ \cup {"Lab"},
                    !.tech = IF @ = mainWorld.tech - 1 THEN mainWorld.tech ELSE @]
Has(w, facility, condition) ==
  [w EXCEPT !.facilities = IF condition THEN @ \cup {facility} ELSE @]

\* gen_subordinate_facilities, on the dice for a laboratory and a base; no
\* main world has a naval or a scout base when this is called.
Facilities(w, orbit, place) ==
  LET mined  == Has(w, "Mining", "In" \in Classes(mainWorld, TRUE) /\ w.population >= 2)
      farmed == Has(mined, "Farming",
                    /\ orbit = place.habitable /\ orbit > place.inner
                    /\ w.atmosphere \in 4..9 /\ w.hydro \in 4..8 /\ w.population >= 2)
      settled == Has(farmed, "Colony", w.government = 6 /\ w.population >= 5)
      lab(d) == /\ mainWorld.population > 0 /\ mainWorld.tech > 8
                /\ d + (IF mainWorld.tech >= 10 THEN 2 ELSE 0) + Minus(2, w.population = 0) >= 12
      base(d) == /\ "Po" \notin Classes(mainWorld, TRUE) /\ w.population > 0
                 /\ d + (IF mainWorld.population >= 8 THEN 1 ELSE 0)
                      + (IF mainWorld.atmosphere = w.atmosphere THEN 2 ELSE 0) >= 12
  IN  {Has(IF lab(d) THEN Lab(settled) ELSE settled, "Military", base(e)) : d, e \in TwoDice}

Finish(w, p, orbit, place) == UNION {Facilities(s, orbit, place) : s \in Stats(w, p)}

Becomes(what, p, w) == maker' = what /\ given' = p /\ made' = w /\ UNCHANGED mainWorld
-----------------------------------------------------------------------------
\* generate_with_partial.  No rolled size is above 0: the bound is taken the
\* wrong way round.
Planets(p, place) ==
  LET o == place.orbit
      Far(n) == Minus(n, o > place.habitable)
      Near(n) == Minus(n, o <= place.inner)
      sizes == {Min({d - 2 + Minus(5, o = 0) + Minus(4, o = 1) + Minus(2, o = 2) + Minus(2, ~place.cool), 0}) :
                  d \in TwoDice}
      airs(s) == {Clamp(d - 7 + s + Near(2) + Far(2), 0, 10) : d \in TwoDice}
                 \cup (IF o > place.habitable + 1 THEN {10} ELSE {})
      hydros(s, a) == IF s <= 0 \/ o <= place.inner THEN {0}
                      ELSE {Clamp(d - 7 + s + Far(4) + Minus(4, a <= 1 \/ a >= 10), 0, 10) : d \in TwoDice}
      people(a) == IF force_lifeless(a) THEN {0}
                   ELSE {Clamp(d - 2 + Near(5) + Far(5) + Minus(2, a \notin {5, 6, 8}), 0,
                               Max({mainWorld.population - 1, 0})) : d \in TwoDice}
  IN  UNION {UNION {UNION {UNION {Finish(NewWorld(s, a, h, n), p, o, place) :
        n \in OrRolled(p.population, people(a))} :
        h \in OrRolled(p.hydro, hydros(s, a))} :
        a \in OrRolled(p.atmosphere, airs(s))} :
        s \in OrRolled(p.size, sizes)}

GeneratePlanet ==
  \E place \in Places : \E w \in Planets(NoRow, place) : Becomes("planet", NoRow, w)
GenerateRow ==
  \E place \in Places, p \in {q \in WorldRows : Consistent(q)} : \E w \in Planets(p, place) : Becomes("planet row", p, w)

\* place_belt_constraints: a belt has no size, air or water of its own.
BeltRow(p) ==
  [p EXCEPT !.size = 0, !.atmosphere = IF @ = Wild THEN 0 ELSE @, !.hydro = IF @ = Wild THEN 0 ELSE @]
GenerateBeltRow ==
  \E place \in Places, p \in {q \in WorldRows : Consistent(q)} :
    \E w \in Planets(BeltRow(p), place) : Becomes("belt row", BeltRow(p), w)

\* Mutant: a belt is settled whatever the main world can do.
BeltPeople_Always(place) ==
  {Clamp(d - 2 + Minus(5, place.orbit <= place.inner) + Minus(5, place.orbit > place.habitable), 0,
         mainWorld.population - 1) : d \in TwoDice}
BeltPeople(place) ==
  IF force_lifeless(0) THEN {0}
  ELSE {Clamp(d - 2 + Minus(5, place.orbit <= place.inner) + Minus(5, place.orbit > place.habitable), 0,
              mainWorld.population - 1) : d \in TwoDice}
\* gen_planetoids; with no one to settle it, the bounds cross and it panics
\* (SystemOrbits).
GenPlanetoid ==
  \E place \in Places :
    /\ mainWorld.population > 0 \/ force_lifeless(0)
    /\ \E n \in BeltPeople(place) : \E w \in Finish(NewWorld(0, 0, 0, n), NoRow, place.orbit, place) :
         Becomes("belt", NoRow, w)

\* gen_satellite of World and of GasGiant, and build_partial_satellite: what is
\* compared with the zones is the moon's orbit about its parent.
Moons(p, size, o, place, facilityOrbit) ==
  LET far == o > place.habitable
      airs == {IF d = 12 /\ far THEN 10
               ELSE IF size <= 1 THEN 0
               ELSE Clamp(d - 7 + size + Minus(4, far \/ o <= place.inner), 0, 10) : d \in TwoDice}
      hydros(a) == IF size <= 0 \/ o <= place.inner THEN {0}
                   ELSE {Clamp(d - 7 + size + Minus(4, far) + Minus(4, a <= 1 \/ a >= 10), 0, 10) : d \in TwoDice}
      people(a) == IF force_lifeless(a) THEN {0}
                   ELSE {Clamp(d - 2 + (IF o <= place.inner THEN -5 ELSE Minus(4, far))
                                 + Minus(2, a \notin {5, 6, 8}), 0, 10) : d \in TwoDice}
  IN  UNION {UNION {UNION {Finish(NewWorld(size, a, h, n), p, facilityOrbit, place) :
        n \in OrRolled(p.population, people(a))} :
        h \in OrRolled(p.hydro, hydros(a))} :
        a \in OrRolled(p.atmosphere, airs)}

\* A ring has nothing but what its row gives it, and no tools.
Ring(p) == NewWorld(0, IF p.atmosphere = Wild THEN 0 ELSE p.atmosphere,
                 IF p.hydro = Wild THEN 0 ELSE p.hydro, IF p.population = Wild THEN 0 ELSE p.population)

\* gen_satellite_orbit
MoonOrbits(size, ofGiant) ==
  IF size = 0 THEN 1..3
  ELSE {(d + 3) * f : d \in TwoDice, f \in IF ofGiant THEN {1, 5, 25} ELSE {1, 5}}
MoonSizes(parent) == {Max({parent - d, -1}) : d \in OneDie}
GiantMoonSizes == {Max({d - m, -1}) : d \in TwoDice, m \in {4, 6}}

Moon(what, p, sizes, ofGiant) ==
  \E place \in Places, size \in sizes : \E o \in MoonOrbits(size, ofGiant) :
    \E w \in IF size = 0 THEN {Ring(p)}
             ELSE Moons(p, size, o, place, IF ofGiant /\ p = NoRow THEN place.orbit ELSE o) :
      Becomes(what, p, w)

GenSatellite == \E parent \in Parents : Moon("moon", NoRow, MoonSizes(parent), FALSE)
GenGiantSatellite == Moon("moon", NoRow, GiantMoonSizes, TRUE)
\* apply_moon_constraints, for a row with a UWP.
GenerateMoonRow ==
  \E p \in {q \in WorldRows : Consistent(q)} :
    \/ \E parent \in Parents : Moon("moon row", p, OrRolled(p.size, MoonSizes(parent)), FALSE)
    \/ Moon("moon row", p, OrRolled(p.size, GiantMoonSizes), TRUE)

WorldInit == mainWorld \in MainWorlds /\ given = NoRow /\ made = NoBody /\ maker = "none"
Generators == GeneratePlanet \/ GenerateRow \/ GenerateBeltRow \/ GenPlanetoid \/ GenSatellite
              \/ GenGiantSatellite \/ GenerateMoonRow
WorldNext == maker = "none" /\ Generators
-----------------------------------------------------------------------------
WorldTypeOK ==
  /\ mainWorld \in MainWorlds /\ maker \in {"planet row", "moon row"} => Consistent(given)
  /\ made.size \in -7..33 /\ {made.atmosphere, made.hydro, made.population, made.government, made.tech} \subseteq Ehex
  /\ made.law \in 0..36
  /\ made.facilities \subseteq {"Mining", "Farming", "Colony", "Lab", "Military"}

\* Whichever of the generators made it: unless a row says so, nobody lives
\* without real air when the main world's tools do not reach that far
\* (world.rs:761-768), and where nobody lives there are no tools; elsewhere they
\* are at most those of the main world.
SubordinateToMain ==
  /\ given.population = Wild /\ mainWorld.tech < 7 /\ ~has_real_atmosphere(made.atmosphere) => made.population = 0
  /\ given.tech = Wild => made.tech <= IF made.population = 0 THEN 0 ELSE mainWorld.tech
=============================================================================
