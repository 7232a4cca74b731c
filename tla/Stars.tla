------------------------------- MODULE Stars --------------------------------
(* systems/system.rs, system_tables.rs, astro.rs: stars are rolled, or given  *)
(* by rows, and everything about their orbits is looked up in tables by size, *)
(* type, and whether the subtype is early (0-4) or late.  A companion is      *)
(* rolled with the rolls of the star it goes around; a behaviour follows one  *)
(* line of companions.  Figures that only feed floating-point results are     *)
(* left out; which entries the tables have is kept.                           *)
EXTENDS Integers, Sequences, FiniteSetsExt

CONSTANTS Rolls,     \* bound: what two dice show
          Again,     \* bound: and for a companion
          Subtypes,  \* bound: of 0..9
          StarPins,  \* rows of stars: [type, subtype, size], each possibly Unset
          Depth,     \* bound: companions of companions
          Airs,      \* atmosphere codes of bodies in orbit
          Unset        \* what a row leaves open

\* A companion's orbit: within the primary, far away, or an orbit's number.
Close == -1
Far   == -2
Types == <<"O", "B", "A", "F", "G", "K", "M">>
Sizes == <<"Ia", "Ib", "II", "III", "IV", "V", "VI", "D">>
Letters == {Types[i] : i \in DOMAIN Types}
Luminosities == {Sizes[i] : i \in DOMAIN Sizes}

ASSUME StarsAssumption ==
  /\ Rolls # {} /\ Rolls \subseteq 2..12 /\ Subtypes \subseteq 0..9 /\ Depth \in Nat \ {0}
  /\ StarPins \subseteq [type : Letters \cup {Unset}, subtype : 0..9 \cup {Unset}, size : Luminosities \cup {Unset}]

Index(seq, x) == CHOOSE i \in DOMAIN seq : seq[i] = x
Hotter(a, b) == Index(Types, a) < Index(Types, b)
Brighter(a, b) == Index(Sizes, a) <= Index(Sizes, b)

VARIABLES
  star,    \* [type, subtype, size]
  from,    \* where it comes from: "nothing", "rolls", "row" (a primary), "companion"
  away,    \* its orbit about the primary
  rolls,   \* the rolls for type and size a companion adds to
  orbits,  \* get_max_orbits: how many slots
  depth,
  seen     \* the body astro last described: [orbit, temperate]; Unseen

starVars == <<star, from, away, rolls, orbits, depth, seen>>

NoStar == [type |-> "G", subtype |-> 0, size |-> "V"]   \* System::default
Unseen == [orbit |-> -1, temperate |-> FALSE]
Panicked == [orbit |-> -2, temperate |-> FALSE]

\* The row of a table for a type and an early or late subtype (round_subtype).
TableRow(s) == 2 * Index(Types, s.type) - (IF s.subtype <= 4 THEN 1 ELSE 0)
Z(inside, hot, inner, habitable, outer) ==
  [inside |-> inside, hot |-> hot, inner |-> inner, habitable |-> habitable, outer |-> outer]
Zones_Ia ==
  <<Z(0, 0, 0, 0, 0), Z(0, 0, 0, 0, 0), Z(0, 7, 12, 13, 14), Z(0, 7, 12, 13, 14),
    Z(1, 6, 11, 12, 14), Z(1, 6, 11, 12, 14), Z(2, 5, 11, 12, 14), Z(2, 5, 10, 11, 14),
    Z(3, 6, 11, 12, 14), Z(4, 6, 11, 12, 14), Z(5, 6, 11, 12, 14), Z(5, 6, 11, 12, 14),
    Z(6, 6, 11, 12, 14), Z(0, 6, 11, 12, 14)>>
Zones_Ib ==
  <<Z(0, 0, 0, 0, 0), Z(0, 0, 0, 0, 0), Z(0, 7, 12, 13, 14), Z(0, 5, 10, 11, 14),
    Z(0, 4, 10, 11, 14), Z(0, 4, 9, 10, 14), Z(0, 4, 9, 10, 14), Z(0, 3, 9, 10, 14),
    Z(0, 3, 9, 10, 14), Z(1, 4, 9, 10, 14), Z(2, 4, 9, 10, 14), Z(2, 4, 9, 10, 14),
    Z(3, 4, 9, 10, 14), Z(3, 4, 9, 10, 14)>>
Zones_II ==
  <<Z(0, 0, 0, 0, 0), Z(0, 0, 0, 0, 0), Z(0, 6, 11, 12, 13), Z(0, 4, 10, 11, 13),
    Z(0, 2, 8, 9, 13), Z(0, 1, 7, 8, 13), Z(0, 1, 7, 8, 13), Z(0, 1, 7, 8, 13),
    Z(0, 1, 7, 8, 13), Z(0, 1, 7, 8, 13), Z(0, 1, 8, 9, 13), Z(1, 2, 8, 9, 13),
    Z(3, 3, 9, 10, 13), Z(5, 5, 10, 11, 13)>>
Zones_III ==
  <<Z(0, 0, 0, 0, 0), Z(0, 0, 0, 0, 0), Z(0, 6, 11, 12, 13), Z(0, 4, 9, 10, 13),
    Z(0, 0, 7, 8, 13), Z(0, 0, 6, 7, 13), Z(0, 0, 5, 6, 13), Z(0, 0, 5, 6, 13),
    Z(0, 0, 5, 6, 13), Z(0, 0, 6, 7, 13), Z(0, 0, 6, 7, 13), Z(0, 0, 7, 8, 13),
    Z(0, 1, 7, 8, 13), Z(3, 3, 8, 9, 13)>>
Zones_IV ==
  <<Z(0, 0, 0, 0, 0), Z(0, 0, 0, 0, 0), Z(0, 6, 11, 12, 13), Z(0, 2, 8, 9, 13),
    Z(0, 0, 6, 7, 13), Z(-1, -1, 5, 6, 13), Z(-1, -1, 4, 5, 13), Z(-1, -1, 4, 5, 13),
    Z(-1, -1, 4, 5, 13), Z(-1, -1, 4, 5, 13), Z(-1, -1, 3, 4, 13), Z(0, 0, 0, 0, 0),
    Z(0, 0, 0, 0, 0), Z(0, 0, 0, 0, 0)>>
Zones_V ==
  <<Z(0, 0, 0, 0, 0), Z(0, 0, 0, 0, 0), Z(0, 5, 11, 12, 14), Z(0, 2, 8, 9, 14),
    Z(-1, -1, 6, 7, 14), Z(-1, -1, 5, 6, 14), Z(-1, -1, 4, 5, 14), Z(-1, -1, 3, 4, 14),
    Z(-1, -1, 2, 3, 14), Z(-1, -1, 2, 3, 14), Z(-1, -1, 1, 2, 14), Z(-1, -1, -1, 0, 14),
    Z(-1, -1, -1, 0, 14), Z(-1, -1, -1, -1, 14)>>
Zones_VI ==
  <<Z(0, 0, 0, 0, 0), Z(0, 0, 0, 0, 0), Z(0, 0, 0, 0, 0), Z(0, 0, 0, 0, 0),
    Z(0, 0, 0, 0, 0), Z(0, 0, 0, 0, 0), Z(0, 0, 0, 0, 0), Z(-1, -1, 2, 3, 4),
    Z(-1, -1, 1, 2, 4), Z(-1, -1, 0, 1, 4), Z(-1, -1, 0, 0, 4), Z(-1, -1, 0, 0, 4),
    Z(-1, -1, 0, 0, 4), Z(-1, -1, 0, 0, 4)>>
Zones_D ==
  <<Z(0, 0, 0, 0, 0), Z(0, 0, 0, 0, 0), Z(-1, -1, -1, 0, 4), Z(-1, -1, -1, 0, 4),
    Z(-1, -1, -1, -1, 4), Z(-1, -1, -1, -1, 4), Z(-1, -1, -1, -1, 4), Z(-1, -1, -1, -1, 4),
    Z(-1, -1, -1, -1, 4), Z(-1, -1, -1, -1, 4), Z(-1, -1, -1, -1, 4), Z(-1, -1, -1, -1, 4),
    Z(-1, -1, -1, -1, 4), Z(-1, -1, -1, -1, 4)>>

get_zone(s) ==
  CASE s.size = "Ia" -> Zones_Ia[TableRow(s)]   [] s.size = "Ib" -> Zones_Ib[TableRow(s)]
    [] s.size = "II" -> Zones_II[TableRow(s)]   [] s.size = "III" -> Zones_III[TableRow(s)]
    [] s.size = "IV" -> Zones_IV[TableRow(s)]   [] s.size = "V" -> Zones_V[TableRow(s)]
    [] s.size = "VI" -> Zones_VI[TableRow(s)]   [] s.size = "D" -> Zones_D[TableRow(s)]

\* The rows of LUMINOSITY_TABLE, and of MASS_TABLE, whose figure is not 0.
HasLight(s) == TableRow(s) \in CASE s.size = "IV" -> 3..11 [] s.size = "VI" -> 8..14 [] OTHER -> 3..14
HasMass(s)  == TableRow(s) \in CASE s.size = "IV" -> 3..11 [] s.size = "VI" -> 8..14 [] OTHER -> 3..14
Real(s) == HasLight(s) /\ HasMass(s) /\ get_zone(s) # Z(0, 0, 0, 0, 0)

\* Mutant: the orbit given is that of the inner zone.
get_habitable_Inner(s) ==
  IF get_zone(s).habitable > get_zone(s).inner THEN get_zone(s).inner ELSE -1
get_habitable(s) ==
  IF get_zone(s).habitable > get_zone(s).inner THEN get_zone(s).habitable ELSE -1
\* place_main_world: where a world that needs air goes.
HabitableOrbit(z) ==
  IF z.habitable <= 0 \/ z.habitable = z.inner THEN Max({z.inner, 0}) ELSE z.habitable

\* The indexes ORBITAL_DISTANCE, CLOUDINESS and GREENHOUSE have.
ORBITAL_DISTANCE == 0..19
CLOUDINESS == 0..10
GREENHOUSE == 0..15
-----------------------------------------------------------------------------
gen_primary_star_type(r) ==
  CASE r <= 1 -> "B" [] r = 2 -> "A" [] r \in 3..7 -> "M" [] r = 8 -> "K"
    [] r \in {10, 11} -> "F" [] OTHER -> "G"

PrimarySize(r) ==
  CASE r \in 1..4 -> Sizes[r] [] r = 11 -> "VI" [] r = 12 -> "D" [] OTHER -> "V"
\* Mutant: a hot subdwarf is let through.
gen_primary_star_size_Hot(r, type, subtype) ==
  IF PrimarySize(r) = "IV" /\ type \in {"K", "M"} THEN "V" ELSE PrimarySize(r)
gen_primary_star_size(r, type, subtype) ==
  LET size == PrimarySize(r) IN
  IF \/ size = "IV" /\ (type = "M" \/ (type = "K" /\ subtype >= 5))
     \/ size = "VI" /\ (Hotter(type, "F") \/ (type = "F" /\ subtype <= 4))
  THEN "V" ELSE size

gen_companion_star_type(r) ==
  CASE r <= 1 -> "B" [] r = 2 -> "A" [] r \in {3, 4} -> "F" [] r \in {5, 6} -> "G"
    [] r \in {7, 8} -> "K" [] OTHER -> "M"
gen_companion_star_size(r) ==
  CASE r \in 1..4 -> Sizes[r] [] r \in {7, 8} -> "V" [] r = 9 -> "VI" [] OTHER -> "D"

\* Outcomes; 7 to 11 add a die.
gen_companion_orbit(r) ==
  CASE r \in 1..3 -> {Close} [] r \in 4..6 -> {r - 3} [] r \in 7..11 -> (r - 2)..(r + 3)
    [] OTHER -> {Far}

gen_max_orbits(s, r) ==
  Max({0, r + (IF Brighter(s.size, "II") THEN 8 ELSE IF s.size = "III" THEN 4 ELSE 0)
            - (IF s.type = "M" THEN 4 ELSE IF s.type = "K" THEN 2 ELSE 0)})

Ends == {Min(Rolls), Max(Rolls)}  \* bound: of the rolls for slots
Given(pin, rolled) == IF pin = Unset THEN rolled ELSE pin
NoPins == [type |-> Unset, subtype |-> Unset, size |-> Unset]
-----------------------------------------------------------------------------
StarsInit == /\ star = NoStar /\ from = "nothing" /\ away = Close /\ rolls = <<0, 0>> /\ orbits = 0
             /\ depth = 0 /\ seen = Unseen

\* gen_stars: the type is rolled higher about a main world one can live on.
GenPrimaryStar ==
  /\ from = "nothing"
  /\ \E rt, rs \in Rolls, ro \in Ends, mod \in {0, 4}, sub \in Subtypes, pin \in StarPins \cup {NoPins} :
       LET type    == Given(pin.type, gen_primary_star_type(rt + mod))
           subtype == Given(pin.subtype, sub)
       IN  /\ star' = [type |-> type, subtype |-> subtype,
                       size |-> Given(pin.size, gen_primary_star_size(rs, type, subtype))]
           /\ rolls' = <<rt, rs>>
           /\ orbits' = gen_max_orbits(star', ro) + 1
           /\ from' = IF pin = NoPins THEN "rolls" ELSE "row"
  /\ UNCHANGED <<away, depth, seen>>

\* generate_companion for the secondary, or the tertiary (4 higher), or for
\* the companion of a far companion (4 lower, and fewer orbits unless far too).
Companions(mod, halved) ==
  \E rt, rs \in Again, ro \in Ends, r \in Rolls, sub \in Subtypes, pin \in IF halved THEN {NoPins} ELSE StarPins \cup {NoPins} :
    \E where \in gen_companion_orbit(r + mod) :
      /\ rolls' = <<rt + rolls[1], rs + rolls[2]>>
      /\ star' = [type    |-> Given(pin.type, gen_companion_star_type(rt + rolls[1])),
                  subtype |-> Given(pin.subtype, sub),
                  size    |-> Given(pin.size, gen_companion_star_size(rs + rolls[2]))]
      /\ away' = IF where \in 0..get_zone(star).inside /\ ~halved THEN Close ELSE where
      /\ from' = "companion"
      /\ orbits' = 1 + IF halved /\ where # Far THEN gen_max_orbits(star', ro) \div 2
                       ELSE gen_max_orbits(star', ro)
      /\ depth' = depth + 1
      /\ UNCHANGED seen

GenCompanionStar ==
  /\ from \in {"rolls", "row"} /\ seen = Unseen /\ \E mod \in {0, 4} : Companions(mod, FALSE)
GenFarCompanion ==
  /\ away = Far /\ depth < Depth /\ seen = Unseen /\ Companions(-4, TRUE)

\* AstroData::compute looks a body's orbit and air up; an index beyond a table
\* panics.
Describe(o, air) ==
  seen' = IF o \in ORBITAL_DISTANCE /\ air \in CLOUDINESS \cap GREENHOUSE
          THEN [orbit |-> o, temperate |-> o = get_habitable(star)] ELSE Panicked
DescribeMain ==
  /\ from # "nothing" /\ seen = Unseen
  /\ \E air \in Airs \cap 2..9 : Describe(HabitableOrbit(get_zone(star)), air)
  /\ UNCHANGED <<star, from, away, rolls, orbits, depth>>
DescribeOther ==
  /\ from # "nothing" /\ seen = Unseen
  /\ \E o \in {0, orbits - 1}, air \in Airs : Describe(o, air)
  /\ UNCHANGED <<star, from, away, rolls, orbits, depth>>

StarsNext == GenPrimaryStar \/ GenCompanionStar \/ GenFarCompanion \/ DescribeMain \/ DescribeOther
-----------------------------------------------------------------------------
StarsTypeOK ==
  /\ star.type \in Letters /\ star.size \in Luminosities
  /\ star.subtype \in 0..9 /\ orbits \in 0..21 /\ depth \in 0..Depth
  /\ LET z == get_zone(star) IN z.inside <= z.hot /\ z.hot <= z.inner /\ z.inner <= z.habitable

\* A star that is rolled for a main world has a row in every table: its zones,
\* its light and its mass are not the zeros of "that case just shouldn't occur"
\* (system_tables.rs:1597, system.rs:1442-1466).
PrimaryIsReal == from = "rolls" => Real(star)

\* A main world that needs air is placed where its temperature is then taken
\* from the table for temperate worlds, if its star has such an orbit: the
\* generator and astro agree on where that is (system.rs:891-903, astro.rs:235).
TemperateMain ==
  LET z == get_zone(star) IN
  seen.orbit = HabitableOrbit(z) /\ z.habitable > Max({z.inner, -1}) => seen.temperate

\* What one table says of a star, the others bear out.
TablesAgree == PrimaryIsReal /\ TemperateMain
=============================================================================
