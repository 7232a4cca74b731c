---------------------------- MODULE SystemOrbits ----------------------------
(* systems/system.rs: a star system is built from the rows of a constraint   *)
(* set and from rolls.  What is rolled about a body is left out but for its  *)
(* place, its kind, whether its size is above 0, and its satellites.  A      *)
(* roll is a choice among its outcomes; the bounds cut them.  Bound of the   *)
(* model: a far companion has no companion of its own.                       *)
EXTENDS Stars, Sums, SequencesExt, TLC

CONSTANTS Rows,         \* constraint sets
          ZoneTables,   \* get_zone: [inside, hot, inner, habitable |-> Int]
          MaxOrbits,    \* what gen_max_orbits rolls, by star
          StarOrbits,   \* what gen_companion_orbit rolls
          RandomBlocks, \* bound: orbits gen_blocked_orbits blocks
          Giants,       \* bound: numbers of giants rolled
          Belts,        \* bound: numbers of belts rolled
          MoonRolls,    \* gen_satellite_orbit's rolls: [ring : BOOLEAN, at : Nat]
          GiantMoons,   \* bound: satellites a giant's roll gives
          WorldMoons    \* bound: satellites a world's roll gives

Open  == -3    \* a row gives no number
Stars == <<"primary", "secondary", "tertiary">>

Number == Nat \cup {Open}
ASSUME OrbitsAssumption ==
  /\ Rows # {}
  /\ \A r \in Rows :
       /\ r.stars \in Seq(Number \cup {Close, Far})
       /\ {r.planets, r.belts} \subseteq Seq([orbit : Number, moons : Number, solid : BOOLEAN])
       /\ r.giants \in Seq([orbit : Number, moons : Number]) /\ r.empties \in Seq(Nat)
       /\ r.moons \in Seq([parent : Nat, size : Number])
       /\ r.main.moons \in Number /\ r.main.solid \in BOOLEAN /\ r.main.airy \in BOOLEAN
  /\ ZoneTables \subseteq [inside : Int, hot : Int, inner : Int, habitable : Int]
  /\ \A s \in Range(Stars) : MaxOrbits[s] \subseteq Nat
  /\ StarOrbits \subseteq Nat \cup {Close, Far}
  /\ Giants \cup Belts \cup GiantMoons \cup WorldMoons \subseteq Nat
  /\ MoonRolls \subseteq [ring : BOOLEAN, at : Nat]

VARIABLES
  asked,    \* the constraints
  zones,    \* get_zone of each star
  orbit,   \* orbit of each companion; Open when there is none
  slots,   \* orbit_slots of each star
  wanted,  \* planet_moon_overrides, by orbit
  giantsWanted, \* gg_moon_overrides
  placed,  \* history: rows placed, with their orbits
  giantsPlaced, \* history: orbits where the rows of giants were put
  crowded, \* history: no orbit was free for the main world
  at       \* where the generator is: star, phase, count

orbitVars == <<asked, zones, orbit, slots, wanted, giantsWanted, placed, giantsPlaced, crowded, at>>

Body(what, row, solid) == [what |-> what, row |-> row, solid |-> solid, moons |-> <<>>]
Rolled == <<"rolled", 0>>
Main   == <<"main", 0>>
Free      == Body("Free", Rolled, FALSE)
Blocked   == Body("Blocked", Rolled, FALSE)
Star(s)   == Body(s, Rolled, FALSE)
Bodies    == {"World", "Giant"}   \* a belt is a world of size 0

At(seq, o) == IF o < Len(seq) THEN seq[o + 1] ELSE Free  \* is_slot_empty beyond the end
Unused(seq) == {o \in 0..(Len(seq) - 1) : At(seq, o) = Free}
\* set_orbit_slot: the slots are extended as far as needed.
Put(seq, os, body) ==
  [i \in 1..Max({Len(seq)} \cup {o + 1 : o \in os}) |->
     IF i - 1 \in os THEN body ELSE At(seq, i - 1)]
Slots(n) == [i \in 1..(n + 1) |-> Free]

\* validate: one orbit is given to no two rows.
Pinned(r) == [i \in DOMAIN r.planets |-> r.planets[i].orbit]
             \o [i \in DOMAIN r.belts |-> r.belts[i].orbit]
             \o [i \in DOMAIN r.giants |-> r.giants[i].orbit] \o r.empties \o <<r.main.orbit>>
Valid(r) == LET p == SelectSeq(Pinned(r), LAMBDA o : o # Open) IN IsInjective(p)

\* collect_overrides: the primary's rows, then those that leave open whose they
\* are, then companions'; the row of a companion is not taken for the primary's.
StarRows(r) ==
  LET last(o) == CASE o = Close -> 0 [] o = Open -> Len(r.stars) [] OTHER -> 2 * Len(r.stars)
      rows == Listed(r.stars, [i \in DOMAIN r.stars |-> last(r.stars[i]) + i])
  IN  IF rows # <<>> /\ rows[1] \notin {Close, Open} THEN <<Open>> \o rows ELSE rows

Where(s, phase, n) == at' = [star |-> s, phase |-> phase, count |-> n]
Here(s, phase) == at.star = s /\ at.phase = phase
Mine == slots[at.star]
Only(body) == slots' = [slots EXCEPT ![at.star] = body]

OrbitsInit(r) ==
  /\ asked = r
  /\ zones \in [Range(Stars) -> ZoneTables]
  /\ orbit = [s \in Range(Stars) |-> Open]
  /\ slots = [s \in Range(Stars) |-> <<>>]
  /\ wanted = [o \in {} |-> 0] /\ giantsWanted = [o \in {} |-> 0]
  /\ placed = {} /\ giantsPlaced = {} /\ crowded = FALSE
  /\ at = [star |-> "primary", phase |-> IF Valid(r) THEN "stars" ELSE "rejected", count |-> 0]

Else == UNCHANGED <<asked, zones>>
-----------------------------------------------------------------------------
\* gen_stars: the number of stars is that of the rows, or rolled.
GenPrimary ==
  /\ Here("primary", "stars") /\ at.count = 0
  /\ \E m \in MaxOrbits["primary"] : slots' = [slots EXCEPT !["primary"] = Slots(m)]
  /\ \E n \in IF asked.stars # <<>> THEN {Len(StarRows(asked))} ELSE 1..3 : Where("primary", "companions", n)
  /\ Else /\ UNCHANGED <<orbit, wanted, giantsWanted, placed, giantsPlaced, crowded>>

\* empty_orbits_near_companion
Near(o) == ((o \div 2 + 1)..(o - 1)) \cup {o + 1, o + 2}

\* A companion within the primary takes no slot.
Companion(s, i) ==
  LET given == IF i <= Len(StarRows(asked)) THEN StarRows(asked)[i] ELSE Open IN
  \E o \in IF given # Open THEN {given} ELSE StarOrbits, m \in MaxOrbits[s] :
    LET where == IF o >= 0 /\ o <= zones["primary"].inside THEN Close ELSE o IN
    /\ orbit' = [orbit EXCEPT ![s] = where]
    /\ slots' = [slots EXCEPT
         ![s] = Slots(m),
         !["primary"] = IF where >= 0 THEN Put(Put(@, {where}, Star(s)), Near(where), Blocked) ELSE @]

GenSecondary ==
  /\ Here("primary", "companions") /\ at.count >= 2 /\ orbit["secondary"] = Open
  /\ Companion("secondary", 2)
  /\ Where("primary", IF at.count = 3 THEN "companions" ELSE "blocked", at.count)
  /\ Else /\ UNCHANGED <<wanted, giantsWanted, placed, giantsPlaced, crowded>>

GenTertiary ==
  /\ Here("primary", "companions") /\ at.count = 3 /\ orbit["secondary"] # Open
  /\ Companion("tertiary", 3)
  /\ Where("primary", "blocked", 0)
  /\ Else /\ UNCHANGED <<wanted, giantsWanted, placed, giantsPlaced, crowded>>

Alone ==
  /\ Here("primary", "companions") /\ at.count < 2
  /\ Where("primary", "blocked", 0)
  /\ Else /\ UNCHANGED <<orbit, slots, wanted, giantsWanted, placed, giantsPlaced, crowded>>
-----------------------------------------------------------------------------
Still == Else /\ UNCHANGED orbit

\* fill_system_with starts with gen_blocked_orbits; the rows are the primary's.
BlockOrbits ==
  /\ at.phase = "blocked"
  /\ \E os \in SUBSET Unused(Mine) : Cardinality(os) \in RandomBlocks /\ Only(Put(Mine, os, Blocked))
  /\ Where(at.star, IF at.star = "primary" THEN "empties" ELSE "giants", 0)
  /\ Still /\ UNCHANGED <<wanted, giantsWanted, placed, giantsPlaced, crowded>>

\* apply_empty_constraints
PlaceEmpties ==
  /\ at.phase = "empties"
  /\ LET os == {o \in Range(asked.empties) : o < Len(Mine)} IN
     /\ Only(Put(Mine, os, Body("Blocked", <<"empty", 0>>, FALSE)))
     /\ placed' = {<<<<"empty", 0>>, o>> : o \in os}
  /\ Where("primary", "planets", 0)
  /\ Still /\ UNCHANGED <<wanted, giantsWanted, giantsPlaced, crowded>>

Override(f, o, n) ==
  IF n = Open THEN f ELSE [p \in DOMAIN f \cup {o} |-> IF p = o THEN n ELSE f[p]]

\* place_planet_constraints and place_belt_constraints, row by row: at its
\* orbit, or at the first free one, or not at all.
PlaceRow(list, what, then) ==
  LET i == at.count + 1 IN
  \/ /\ i > Len(list)
     /\ Where("primary", then, 0)
     /\ UNCHANGED <<slots, wanted, placed>>
  \/ /\ i <= Len(list)
     /\ LET pinned == list[i].orbit
            os == IF pinned = Open THEN Unused(Mine) ELSE Unused(Mine) \cap {pinned}
            row == <<what, i>>
        IN  IF os = {} THEN UNCHANGED <<slots, wanted, placed>>
            ELSE /\ Only(Put(Mine, {Min(os)}, Body("World", row, list[i].solid)))
                 /\ wanted' = Override(wanted, Min(os), list[i].moons)
                 /\ placed' = placed \cup {<<row, Min(os)>>}
     /\ Where("primary", at.phase, i)

PlacePlanets ==
  /\ at.phase = "planets" /\ PlaceRow(asked.planets, "planet", "belts")
  /\ Still /\ UNCHANGED <<giantsWanted, giantsPlaced, crowded>>
PlaceBelts ==
  /\ at.phase = "belts" /\ PlaceRow(asked.belts, "belt", "giants")
  /\ Still /\ UNCHANGED <<giantsWanted, giantsPlaced, crowded>>

\* gen_gas_giants: how many, no more than there are free orbits; then each at
\* its row's orbit if that is free, or at random, the outer orbits first.
CountGiants ==
  /\ at.phase = "giants"
  /\ \E n \in IF at.star = "primary" /\ asked.giants # <<>> THEN {Len(asked.giants)} ELSE Giants :
       Where(at.star, "placing giants", Min({n, Cardinality(Unused(Mine))}))
  /\ Still /\ UNCHANGED <<slots, wanted, giantsWanted, placed, giantsPlaced, crowded>>

PlaceGiant ==
  /\ at.phase = "placing giants" /\ at.count > 0
  /\ LET free  == Unused(Mine)
         outer == {o \in free : o > zones[at.star].habitable}
         done  == Cardinality({o \in DOMAIN Mine : Mine[o].what = "Giant"}) + 1
         row   == IF at.star = "primary" /\ done <= Len(asked.giants) THEN asked.giants[done]
                  ELSE [orbit |-> Open, moons |-> Open]
     IN  \E o \in IF row.orbit \in free THEN {row.orbit}
                  ELSE IF outer # {} THEN outer ELSE free :
           /\ Only(Put(Mine, {o}, Body("Giant", Rolled, TRUE)))
           /\ giantsWanted' = IF at.star = "primary" THEN Override(giantsWanted, o, row.moons)
                              ELSE giantsWanted
           /\ giantsPlaced' = IF at.star = "primary" /\ done <= Len(asked.giants) THEN giantsPlaced \cup {o}
                              ELSE giantsPlaced
  /\ Where(at.star, at.phase, at.count - 1)
  /\ Still /\ UNCHANGED <<wanted, placed, crowded>>

CountBelts ==
  /\ at.phase = "placing giants" /\ at.count = 0
  /\ \E n \in Belts : Where(at.star, "planetoids", n)
  /\ Still /\ UNCHANGED <<slots, wanted, giantsWanted, placed, giantsPlaced, crowded>>

\* gen_planetoids: an orbit that holds a giant is preferred to a free one.
Sites == LET giants == {o \in 0..(Len(Mine) - 1) : At(Mine, o).what = "Giant"}
         IN  IF giants # {} THEN giants ELSE Unused(Mine)

\* Mutant: the index of a random choice is taken for the orbit, as in the
\* defect the comment there recalls.
PlaceBelt_ByIndex ==
  /\ at.phase = "planetoids" /\ at.count > 0 /\ Sites # {}
  /\ ~(asked.main.tech >= 7 /\ asked.main.pop = 0)
  /\ \E i \in 1..Cardinality(Sites) : Only(Put(Mine, {i - 1}, Body("World", Rolled, FALSE)))
  /\ Where(at.star, at.phase, at.count - 1)
  /\ Still /\ UNCHANGED <<wanted, giantsWanted, placed, giantsPlaced, crowded>>
PlaceBelt ==
  /\ at.phase = "planetoids" /\ at.count > 0 /\ Sites # {}
  /\ ~(asked.main.tech >= 7 /\ asked.main.pop = 0)
  /\ \E o \in Sites : Only(Put(Mine, {o}, Body("World", Rolled, FALSE)))
  /\ Where(at.star, at.phase, at.count - 1)
  /\ Still /\ UNCHANGED <<wanted, giantsWanted, placed, giantsPlaced, crowded>>

\* A belt's population is rolled between 0 and one below the main world's,
\* unless a backward main world leaves it without life: there is no such number.
BeltPanics ==
  /\ at.phase = "planetoids" /\ at.count > 0 /\ Sites # {}
  /\ asked.main.tech >= 7 /\ asked.main.pop = 0
  /\ Where(at.star, "panicked", 0)
  /\ Still /\ UNCHANGED <<slots, wanted, giantsWanted, placed, giantsPlaced, crowded>>

EnoughBelts ==
  /\ at.phase = "planetoids" /\ (at.count = 0 \/ Sites = {})
  /\ Where(at.star, IF at.star = "primary" THEN "main world" ELSE "filling", 0)
  /\ Still /\ UNCHANGED <<slots, wanted, giantsWanted, placed, giantsPlaced, crowded>>
-----------------------------------------------------------------------------
MainBody == Body("World", Main, asked.main.solid)

\* Mutant: an orbit already taken is not passed over.
AddMoon_Anywhere(moons, roll, isMain) ==
  Append(moons, [orbit |-> roll.at, ring |-> roll.ring, main |-> isMain])
\* gen_satellite_orbit, and a satellite added there.
AddMoon(moons, roll, isMain) ==
  LET o == CHOOSE k \in roll.at..(roll.at + Len(moons)) :
             /\ \A m \in Range(moons) : m.orbit # k
             /\ \A j \in roll.at..(k - 1) : \E m \in Range(moons) : m.orbit = j
  IN  Append(moons, [orbit |-> o, ring |-> roll.ring, main |-> isMain])
AsMoon(body) ==
  {[body EXCEPT !.moons = AddMoon(@, r, TRUE)] : r \in {q \in MoonRolls : q.ring = ~asked.main.solid}}

\* Mutant: size is not rows about.
RequiresHabitable_AnySize == asked.main.airy
RequiresHabitable == asked.main.airy /\ asked.main.solid
Habitable(s) == HabitableOrbit(zones[s])

\* place_main_world: any free orbit will do for a world without air, or any at
\* all; the others go where it is habitable, whatever is there.
MainAnywhere(s, seq) ==
  {Put(seq, {o}, MainBody) :
     o \in IF Unused(seq) # {} THEN Unused(seq) ELSE 0..Max({Len(seq) - 1, 0})}
MainHabitable(seq, h) ==
  LET there == At(seq, h) IN
  IF there.what = "Giant" THEN {Put(seq, {h}, b) : b \in AsMoon(there)}
  ELSE IF there.what = "World" /\ Unused(seq) # {}
       THEN {Put(seq, {Min(Unused(seq))}, MainBody)}
       ELSE {Put(seq, {h}, MainBody)}

PlaceMain ==
  /\ at.phase = "main world"
  /\ LET there == At(Mine, Habitable("primary")).what
         host  == IF RequiresHabitable /\ there \in Range(Stars) THEN there ELSE "primary"
     IN  \E new \in IF RequiresHabitable THEN MainHabitable(slots[host], Habitable(host))
                    ELSE MainAnywhere(host, slots[host]) :
           slots' = [slots EXCEPT ![host] = new]
  /\ Where("primary", "filling", 0)
  /\ crowded' = (Unused(slots["primary"]) = {})
  /\ Still /\ UNCHANGED <<wanted, giantsWanted, placed, giantsPlaced>>

\* Free orbits too hot are blocked, the others get a world; all that are rolled
\* have size 0 or less.
Fill ==
  /\ at.phase = "filling"
  /\ LET cool == Put(Mine, {o \in 0..zones[at.star].hot : At(Mine, o) = Free}, Blocked)
         full == Put(cool, Unused(cool), Body("World", Rolled, FALSE))
         mains == {o \in 0..(Len(full) - 1) : At(full, o).row = Main}
     IN  /\ Only(full)
         /\ wanted' = IF at.star = "primary" /\ mains # {}
                      THEN Override(wanted, Min(mains), asked.main.moons) ELSE wanted
  /\ Where(at.star, "moons", 0)
  /\ Still /\ UNCHANGED <<giantsWanted, placed, giantsPlaced, crowded>>
-----------------------------------------------------------------------------
\* clean_satellites: in order, and no ring but the first.
Clean(moons) ==
  LET kept == {i \in DOMAIN moons : moons[i].ring =>
                 \A j \in DOMAIN moons : moons[j].ring => moons[i].orbit <= moons[j].orbit}
  IN  Listed(moons, [i \in kept |-> Len(moons) * moons[i].orbit + i])

\* Satellites are rolled one after the other; a world of size 0 or less has no
\* ring but one a row gives it.
RollsFor(body) == {r \in MoonRolls : body.solid \/ ~r.ring}
WithMoons(body, n) ==
  {[body EXCEPT !.moons = FoldLeft(LAMBDA ms, r : AddMoon(ms, r, FALSE), @, thrown)] :
     thrown \in [1..n -> RollsFor(body)]}

\* Mutant: satellites that rows add are not taken off the number.
Remaining_All(o, n) == n
Remaining(o, n) ==
  Max({n - (IF at.star = "primary" THEN Cardinality({i \in DOMAIN asked.moons : asked.moons[i].parent = o}) ELSE 0), 0})
MoonsRolled(o, body) ==
  IF body.what = "Giant" THEN IF o \in DOMAIN giantsWanted THEN {giantsWanted[o]} ELSE GiantMoons
  ELSE IF o \in DOMAIN wanted THEN {wanted[o]} ELSE IF body.solid THEN WorldMoons ELSE {0}

MoonsOf ==
  /\ at.phase = "moons" /\ at.count < Len(Mine)
  /\ LET o == at.count IN
     \/ At(Mine, o).what \in Bodies
        /\ \E n \in MoonsRolled(o, At(Mine, o)) : \E b \in WithMoons(At(Mine, o), Remaining(o, n)) :
             Only(Put(Mine, {o}, [b EXCEPT !.moons = Clean(@)]))
     \/ At(Mine, o).what \notin Bodies /\ UNCHANGED slots
  /\ Where(at.star, at.phase, at.count + 1)
  /\ Still /\ UNCHANGED <<wanted, giantsWanted, placed, giantsPlaced, crowded>>

EnoughMoons ==
  /\ at.phase = "moons" /\ at.count = Len(Mine)
  /\ Where(at.star, IF at.star = "primary" THEN "moon rows" ELSE "filled", 0)
  /\ Still /\ UNCHANGED <<slots, wanted, giantsWanted, placed, giantsPlaced, crowded>>

\* apply_moon_constraints: a row whose parent is no body is passed over.
MoonRow ==
  /\ at.phase = "moon rows" /\ at.count < Len(asked.moons)
  /\ LET row == asked.moons[at.count + 1]
         parent == At(Mine, row.parent)
         could == IF row.size = Open THEN RollsFor(parent)
                  ELSE {r \in MoonRolls : r.ring = (row.size = 0)}
     IN  \/ /\ parent.what \in Bodies
            /\ \E r \in could : Only(Put(Mine, {row.parent}, [parent EXCEPT !.moons = AddMoon(@, r, FALSE)]))
         \/ parent.what \notin Bodies /\ UNCHANGED slots
  /\ Where("primary", at.phase, at.count + 1)
  /\ Still /\ UNCHANGED <<wanted, giantsWanted, placed, giantsPlaced, crowded>>

EnoughMoonRows ==
  /\ at.phase = "moon rows" /\ at.count = Len(asked.moons)
  /\ Where("primary", "filled", 0)
  /\ Still /\ UNCHANGED <<slots, wanted, giantsWanted, placed, giantsPlaced, crowded>>

\* The companions that are not within the primary are filled in turn, and
\* without rows.
HasOrbits(s) == orbit[s] \notin {Open, Close}
NextStar ==
  /\ at.phase = "filled"
  /\ LET left == CASE at.star = "primary" -> {"secondary", "tertiary"}
                   [] at.star = "secondary" -> {"tertiary"}
                   [] at.star = "tertiary" -> {}
         next == {s \in left : HasOrbits(s)}
     IN  Where(IF "secondary" \in next THEN "secondary" ELSE IF next # {} THEN "tertiary" ELSE at.star,
               IF next = {} THEN "done" ELSE "blocked", 0)
  /\ wanted' = [o \in {} |-> 0] /\ giantsWanted' = [o \in {} |-> 0]
  /\ Still /\ UNCHANGED <<slots, placed, giantsPlaced, crowded>>

OrbitsNext ==
  \/ GenPrimary \/ GenSecondary \/ GenTertiary \/ Alone
  \/ BlockOrbits \/ PlaceEmpties \/ PlacePlanets \/ PlaceBelts
  \/ CountGiants \/ PlaceGiant \/ CountBelts \/ PlaceBelt \/ BeltPanics \/ EnoughBelts
  \/ PlaceMain \/ Fill \/ MoonsOf \/ EnoughMoons \/ MoonRow \/ EnoughMoonRows \/ NextStar
-----------------------------------------------------------------------------
Done == at.phase = "done"
BodiesOf(s) == {o \in 0..(Len(slots[s]) - 1) : At(slots[s], o).what \in Bodies}

\* Giants still to be placed have free orbits to go to.
OrbitsTypeOK ==
  /\ asked \in Rows /\ zones \in [Range(Stars) -> ZoneTables]
  /\ \A s \in Range(Stars) :
       /\ orbit[s] >= Open
       /\ \A o \in BodiesOf(s) : At(slots[s], o).moons \in Seq([orbit : Nat, ring : BOOLEAN, main : BOOLEAN])
  /\ at.star \in Range(Stars) /\ at.count \in Nat
  /\ at.phase = "placing giants" => at.count <= Cardinality(Unused(Mine))

\* Where the main world is: a star, an orbit, and 0 or the satellite it is.
MainAt(s, o) ==
  LET body == At(slots[s], o) IN
  (IF body.row = Main THEN {<<s, o, 0>>} ELSE {})
  \cup {<<s, o, i>> : i \in {k \in DOMAIN body.moons : body.moons[k].main}}
MainPlaces == UNION {UNION {MainAt(s, o) : o \in BodiesOf(s)} : s \in Range(Stars)}
\* However the stars, the giants, the belts and the rows fell out, the main
\* world is in the system once: in a slot, about a companion, or as a giant's
\* satellite that no later step removes (system.rs:735-991).
MainWorldOnce == Done => Cardinality(MainPlaces) = 1

\* What takes the orbit of a row after it was placed: the main world, when no
\* orbit was free, or when it has to be habitable and a row keeps the habitable
\* orbit empty.
GivesWay(p) ==
  crowded \/ (p[1][1] = "empty" /\ RequiresHabitable /\ p[2] = Habitable("primary"))
\* A row's planet, belt or empty orbit, once placed, is still there at the end
\* but for GivesWay; so is a row's giant, but for a belt put in its place, or
\* the main world when no orbit was free (system.rs:530-603, 747-780, 930-991).
RowsStand ==
  Done =>
    /\ \A p \in placed : LET b == At(slots["primary"], p[2]) IN
         b.row = p[1] \/ (b.row = Main /\ GivesWay(p))
    /\ \A o \in giantsPlaced : LET b == At(slots["primary"], o) IN
         b.what = "Giant" \/ (b.what = "World" /\ b.row = Rolled) \/ (b.row = Main /\ crowded)

\* A row's number of satellites is met: those that other rows put there count
\* (system.rs:805-860); only rings can be fewer.
MoonsAsAsked ==
  Done => \A p \in placed : LET b == At(slots["primary"], p[2]) IN
    b.row = p[1] /\ b.row[1] = "planet" =>
      LET n == asked.planets[b.row[2]].moons
          own == Cardinality({i \in DOMAIN asked.moons : asked.moons[i].parent = p[2]})
      IN  n # Open /\ (\A m \in Range(b.moons) : ~m.ring) => Len(b.moons) = Max({n, own})

\* No two satellites of a body share an orbit (world.rs:979-1009).
MoonsApart ==
  \A s \in Range(Stars) : \A o \in BodiesOf(s) :
    LET ms == At(slots[s], o).moons IN \A i, j \in DOMAIN ms : i # j => ms[i].orbit # ms[j].orbit

\* A body has the satellites its row asked for, on orbits of their own.
MoonsRight == MoonsAsAsked /\ MoonsApart

\* The regression test of a main world without population: generation ends
\* without a panic, which would take down the whole process (system.rs:1846-1860).
NeverPanics == at.phase # "panicked"
=============================================================================
