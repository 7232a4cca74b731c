------------------------------ MODULE WorldMap ------------------------------
(* worldmap/mod.rs generate with biome.rs, features.rs and rivers.rs: from a *)
(* UWP to a sea level, biomes, cities and rivers.  The sphere is a ring of   *)
(* cells, each of them a hex and a river sample, with the seam of the sheet  *)
(* between the last and the first.  Noise is data: heights and climates are  *)
(* given, in hundredths; the meander between two points is not modelled.     *)
EXTENDS Sums, Sequences, FiniteSets, SequencesExt

CONSTANTS Requests,  \* UWPs asked for: [chars, bad, hydro, people, port]
          Urban,     \* by population digit: people in cities, in units of 500000
          Heights,   \* bound: the elevation fields, functions of the cells
          Climates,  \* bound: [temp, humidity] that a whole map has
          OnSheet,   \* cells whose points lie within the unfolded triangles
          MaxCities, \* bound: 32 in the code; at most 6, for Harmonic
          MinPath,   \* MIN_PATH_LEN, 4 in the code
          MaxRivers, \* bound: 30 in the code
          Nearby     \* the cap of nearest_ocean, in cells

VARIABLES
  drawn,   \* the UWP a map is made of
  pass,    \* the pass of generate that comes next, or how it ended
  grid,    \* [elevation, biome]: by cell
  level,   \* sea_level
  cities,  \* features in the order of their placing: [hex, tier, starport]
  sizes,   \* the tiers of the cities to place
  samples, \* by cell [flow_to, drainage]
  undrained, \* cells that have not passed their drainage on
  rivers   \* [path, strokes, mouth]; a stroke is a polyline

mapVars == <<drawn, pass, grid, level, cities, sizes, samples, undrained, rivers>>

Nowhere == 0   \* None
Cells == DOMAIN (CHOOSE h \in Heights : TRUE)
Count == Cardinality(Cells)

ASSUME MapAssumption ==
  /\ Requests # {} /\ MaxCities \in Nat \ {0} /\ MaxRivers \in Nat
  /\ Heights # {} /\ Count \in Nat \ {0} /\ Heights \subseteq [1..Count -> Int]

Gap(i, j) == IF i < j THEN j - i ELSE i - j
Arc(i, j) == IF 2 * Gap(i, j) <= Count THEN Gap(i, j) ELSE Count - Gap(i, j)
Ascending(seq) == SortSeq(seq, <)
-----------------------------------------------------------------------------
\* compute_sea_level: the ranks a band of hydrographics may end at, 0-based.
Share(k) == (2 * Count * k + 20) \div 40       \* round(Count * k / 20)
ShareBelow(k) == (2 * Count * k + 19) \div 40  \* the same for less than k
SeaRanks(hydro) ==
  CASE hydro = 0   -> Share(0)..ShareBelow(1)
    [] hydro >= 10 -> Share(19)..ShareBelow(20)
    [] OTHER       -> Share(2 * hydro - 1)..ShareBelow(2 * hydro + 1)
compute_sea_level(hydro, heights) ==
  LET values == Ascending(heights)
  IN  {values[Min({r, Count - 1}) + 1] : r \in SeaRanks(hydro)}
      \cup (IF hydro = 0 THEN {values[1] - 100} ELSE {})         \* no water at all
      \cup (IF hydro >= 10 THEN {values[Count] + 100} ELSE {})   \* all water

classify(above, temp, humidity) ==
  CASE above < 0 /\ temp < 15 -> "IceCap"
    [] above < 0 /\ temp >= 15 -> IF above > -5 THEN "ShallowOcean" ELSE "DeepOcean"
    [] above > 40 -> "Mountain"
    [] above \in 21..40 -> "Highland"
    [] OTHER ->
       CASE temp < 10 -> "IceCap"
         [] temp \in 10..29 -> "Tundra"
         [] temp \in 30..44 -> IF humidity > 55 THEN "Taiga" ELSE "Tundra"
         [] temp \in 45..64 ->
              CASE humidity > 70 -> "TemperateForest"
                [] humidity \in 46..70 -> "Grassland"
                [] humidity \in 21..45 -> "Steppe"
                [] OTHER -> "Desert"
         [] OTHER -> CASE humidity > 65 -> "Jungle"
                       [] humidity \in 41..65 -> "SavannaScrub"
                       [] OTHER -> "Desert"

Biomes(heights, sea, climate) ==
  [c \in Cells |-> classify(heights[c] - sea, climate.temp, climate.humidity)]

\* Uwp::parse: the dash does not count, and an X stands for 0 but as a port.
Parsed(request) ==
  IF request.chars < 8 THEN "TooShort" ELSE IF request.bad THEN "BadDigit" ELSE "Ok"

MapInit(Asked) ==
  /\ drawn \in Asked
  /\ pass = "parse"
  /\ grid = [elevation |-> <<>>, biome |-> <<>>]
  /\ level = 0
  /\ cities = <<>> /\ sizes = <<>>
  /\ samples = <<>> /\ undrained = {}
  /\ rivers = <<>>

\* The largest N whose last city has 500000 people, but at least one city:
\* the k-th of N has a share of 1/k, with alpha taken for 1.
Harmonic(n) == SumSet({60 \div k : k \in 1..n})
CitySize(urban, n, k) == (60 * urban) \div (Harmonic(n) * k)
city_sizes_for_pop(people, urban) ==
  LET n == Max({1} \cup {m \in 2..MaxCities : CitySize(urban, m, m) >= 1})
      Tier(size) == CASE size >= 20 -> "Megacity"
                      [] size \in 2..19 -> "Major"
                      [] size = 1 -> "Minor"
                      [] OTHER -> "Small"
  IN  IF people = 0 THEN <<>> ELSE [k \in 1..n |-> Tier(CitySize(urban, n, k))]

\* generate, up to the features: each pass reads what the ones before it left.
GenerateMap ==
  /\ pass = "parse"
  /\ IF Parsed(drawn) # "Ok"
     THEN pass' = Parsed(drawn) /\ UNCHANGED <<grid, level, sizes>>
     ELSE /\ pass' = "cities"
          /\ \E h \in Heights, air \in Climates :
               \E sea \in compute_sea_level(drawn.hydro, h) :
                 /\ level' = sea
                 /\ grid' = [elevation |-> h, biome |-> Biomes(h, sea, air)]
          /\ \E u \in Urban[drawn.people] : sizes' = city_sizes_for_pop(drawn.people, u)
  /\ UNCHANGED <<drawn, cities, samples, undrained, rivers>>
-----------------------------------------------------------------------------
city_weight ==
  [Grassland |-> 10, TemperateForest |-> 8, Steppe |-> 7, SavannaScrub |-> 6, Taiga |-> 4,
   Jungle |-> 4, Desert |-> 2, Tundra |-> 2, Highland |-> 3, Mountain |-> 0, IceCap |-> 0,
   DeepOcean |-> 0, ShallowOcean |-> 0]

\* The weights of the hexes that can have a city: on water only without land.
EligibleHexes ==
  LET weight == [c \in Cells |-> city_weight[grid.biome[c]]]
      Afloat(b) == CASE b = "ShallowOcean" -> 4 [] b = "DeepOcean" -> 1 [] OTHER -> 0
  IN  IF \E c \in Cells : weight[c] > 0 THEN weight
      ELSE [c \in Cells |-> Afloat(grid.biome[c])]

Large == {"Megacity", "Major"}
Exclusion == 2   \* hexes, as the comment on EXCLUSION has it
\* Large cities keep off each other, the more the nearer; a weight can get to 0.
Weight(c, tier) ==
  LET Repelled(w, city) ==
        IF tier \in Large /\ city.tier \in Large /\ Arc(c, city.hex) < Exclusion
        THEN (w * Arc(c, city.hex) * Arc(c, city.hex)) \div (Exclusion * Exclusion) ELSE w
  IN  IF \E i \in DOMAIN cities : cities[i].hex = c THEN 0
      ELSE FoldLeft(Repelled, EligibleHexes[c], cities)

PlaceCity ==
  LET rank == Len(cities) + 1
  IN  /\ pass = "cities" /\ rank <= Len(sizes)
      /\ \E c \in Cells :
           /\ Weight(c, sizes[rank]) > 0
           /\ cities' = Append(cities, [hex |-> c, tier |-> sizes[rank],
                                       starport |-> rank = 1 /\ drawn.port \notin {"X", "Y"}])
      /\ UNCHANGED <<drawn, pass, grid, level, sizes, samples, undrained, rivers>>
-----------------------------------------------------------------------------
IsLand(c) == grid.elevation[c] > level

\* The neighbour that lies deepest below, the first of them; none of a sea.
FlowTo(c) ==
  LET lower == {d \in Cells : Arc(c, d) = 1 /\ grid.elevation[d] < grid.elevation[c]}
      deepest == {d \in lower : \A e \in lower : grid.elevation[d] <= grid.elevation[e]}
  IN  IF IsLand(c) /\ lower # {} THEN Min(deepest) ELSE Nowhere

\* No further city, and on to the rivers: none of a desert, none without land.
ComputeFlow ==
  LET rank == Len(cities) + 1
      land == {c \in Cells : IsLand(c)}
  IN  /\ pass = "cities"
      /\ rank <= Len(sizes) => \A c \in Cells : Weight(c, sizes[rank]) = 0
      /\ IF drawn.hydro < 2 \/ 20 * Cardinality(land) < Count
         THEN pass' = "done" /\ UNCHANGED <<samples, undrained>>
         ELSE /\ pass' = "drain" /\ undrained' = Cells
              /\ samples' = [c \in Cells |-> [flow_to |-> FlowTo(c), drainage |-> 0]]
      /\ UNCHANGED <<drawn, grid, level, cities, sizes, rivers>>

NextDown_Up(left) ==
  Min({c \in left : \A d \in left : grid.elevation[c] <= grid.elevation[d]})
\* The highest of those left, of equals the first.
NextDown(left) ==
  LET highest == {c \in left : \A d \in left : grid.elevation[d] <= grid.elevation[c]}
  IN  Min(highest)

AccumulateDrainage ==
  /\ pass = "drain" /\ undrained # {}
  /\ LET c == NextDown(undrained)
         own == samples[c].drainage + 1
         to == samples[c].flow_to
     IN  /\ undrained' = undrained \ {c}
         /\ samples' = [d \in Cells |->
              CASE d = c -> [samples[c] EXCEPT !.drainage = own]
                [] d = to -> [samples[to] EXCEPT !.drainage = @ + own]
                [] OTHER -> samples[d]]
  /\ UNCHANGED <<drawn, pass, grid, level, cities, sizes, rivers>>
-----------------------------------------------------------------------------
Drainage(c) == samples[c].drainage
Mouths == {c \in Cells : IsLand(c) /\ (samples[c].flow_to = Nowhere \/ ~IsLand(samples[c].flow_to))}

\* 0.30 of the drainage of the mouth nine tenths up; here in tenths.
Threshold ==
  LET drains == Listed([c \in Mouths |-> Drainage(c)], [c \in Mouths |-> (Count + 1) * Drainage(c) + c])
  IN  3 * drains[Min({(9 * Len(drains)) \div 10, Len(drains) - 1}) + 1]
IsMajor(c) == IsLand(c) /\ 10 * Drainage(c) >= Threshold
RiverHeads == {c \in Cells : IsMajor(c) /\ \A d \in Cells : IsMajor(d) => samples[d].flow_to # c}

\* Down to the last land, and from there to the shore: of the sea it flows to,
\* or of the nearest sea when it flows nowhere and one is near enough.
nearest_ocean(c) == {d \in Cells : ~IsLand(d) /\ Arc(c, d) < Nearby}
Onwards(down, c) ==
  CASE samples[c].flow_to = Nowhere ->
         IF nearest_ocean(c) = {} THEN <<c>> ELSE <<c, c>>
    [] samples[c].flow_to # Nowhere ->
         IF IsLand(samples[c].flow_to) THEN <<c>> \o down[samples[c].flow_to] ELSE <<c, c>>
Walk(head) == LET down[c \in Cells] == Onwards(down, c) IN down[head]

\* Polylines on the sheet: cut where two points lie on opposite sides of the
\* seam, with a point of each side's edge, and then where they leave the faces.
West == 0
East == Count + 1
OverSeam(strokes, x) ==
  LET current == strokes[Len(strokes)]
      before == current[Len(current)]
      ends == IF x > before THEN <<West, East>> ELSE <<East, West>>
  IN  IF current = <<>> \/ 2 * Gap(before, x) <= Count
      THEN [strokes EXCEPT ![Len(strokes)] = Append(@, x)]
      ELSE [strokes EXCEPT ![Len(strokes)] = Append(@, ends[1])] \o <<<<ends[2], x>>>>
Split(path) == FoldLeft(OverSeam, <<<<>>>>, path)

OnFaces(strokes, x) ==
  IF x \in OnSheet \cup {West, East}
  THEN [strokes EXCEPT ![Len(strokes)] = Append(@, x)] ELSE Append(strokes, <<>>)
Clip_Bridges(stroke) == {s \in {SelectSeq(stroke, LAMBDA x : x \in OnSheet \cup {West, East})} : Len(s) >= 2}
Clip(stroke) == {s \in ToSet(FoldLeft(OnFaces, <<<<>>>>, stroke)) : Len(s) >= 2}
Strokes(path) == UNION {Clip(s) : s \in ToSet(Split(path))}

TraceRivers ==
  LET River(c) == [path |-> Walk(c), strokes |-> Strokes(Walk(c)), mouth |-> Drainage(Last(Walk(c)))]
      traced == {r \in {River(c) : c \in RiverHeads} : Len(r.path) >= MinPath /\ r.strokes # {}}
      largest == Listed([r \in traced |-> r], [r \in traced |-> r.path[1] - (Count + 1) * r.mouth])
  IN  /\ pass = "drain" /\ undrained = {}
      /\ pass' = "done"
      /\ rivers' = SubSeq(largest, 1, Min({MaxRivers, Len(largest)}))
      /\ UNCHANGED <<drawn, grid, level, cities, sizes, samples, undrained>>
-----------------------------------------------------------------------------
MapNext == GenerateMap \/ PlaceCity \/ ComputeFlow \/ AccumulateDrainage \/ TraceRivers
MapSpec == MapInit(Requests) /\ [][MapNext]_mapVars

MapTypeOK ==
  /\ drawn \in Requests
  /\ pass \in {"parse", "TooShort", "BadDigit", "cities", "drain", "done"}
  /\ Len(cities) <= Len(sizes) /\ Len(sizes) <= MaxCities
  /\ undrained \subseteq Cells /\ Len(rivers) <= MaxRivers
-----------------------------------------------------------------------------
\* No water is lost on the way down: what has been counted is where the flow
\* ends or has yet to be passed on.  It takes the order of heights
\* (rivers.rs:192-212).
DrainageKept ==
  samples # <<>> =>
    LET held == {c \in Cells : c \in undrained \/ samples[c].flow_to = Nowhere}
    IN  SumOver([c \in Cells |-> Drainage(c)], held) = Cardinality(Cells \ undrained)

\* A river runs over land, never gets smaller on the way and stops at a shore
\* or in a basin far from every sea; what is drawn of it lies on the sheet and
\* crosses neither the seam nor a gap between faces (rivers.rs:247-390, 529-612).
RiversDrain ==
  \A i \in DOMAIN rivers :
    LET r == rivers[i]
    IN  /\ \A k \in DOMAIN r.path : IsMajor(r.path[k])
        /\ \A k \in DOMAIN r.path : k > 1 =>
             Drainage(r.path[k - 1]) <= Drainage(r.path[k])
        /\ \A s \in r.strokes :
             /\ \A k \in DOMAIN s : s[k] \in OnSheet \cup {West, East}
             /\ \A k \in DOMAIN s : k > 1 => Gap(s[k - 1], s[k]) <= 1
        /\ Last(r.path) \in Mouths /\ r.mouth = Drainage(Last(r.path))

\* Cities have hexes of their own, are afloat only where there is no land, and
\* the first alone has the starport, if the world has one (features.rs:148-215).
CitiesStand ==
  /\ \A i, j \in DOMAIN cities : i # j => cities[i].hex # cities[j].hex
  /\ \A i \in DOMAIN cities : cities[i].starport <=> (i = 1 /\ drawn.port \notin {"X", "Y"})
  /\ \A i \in DOMAIN cities :
       grid.biome[cities[i].hex] \in {"ShallowOcean", "DeepOcean"} =>
         \A c \in Cells : city_weight[grid.biome[c]] = 0
  /\ pass \in {"drain", "done"} /\ cities = <<>> =>
       sizes = <<>> \/ \A c \in Cells : EligibleHexes[c] = 0

\* What a map shows hangs together, whatever the noise under it.
MapAgrees == DrainageKept /\ RiversDrain /\ CitiesStand
=============================================================================
