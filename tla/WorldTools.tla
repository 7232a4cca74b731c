---------------------------- MODULE WorldTools -----------------------------
(* What bin/main.rs shows by path, and what answers behind it: the world     *)
(* page, the tables of the trade page, the HTTP server, the generator that   *)
(* the page and the server both call, its stars and its worlds, and the      *)
(* markets and maps of worlds.  They share no state, so each behaviour is    *)
(* one of them and the others stand still.                                   *)
EXTENDS GeneratorPage, GoodsTrading, PlanetServer, SystemOrbits, WorldRolls, Market, WorldMap

CONSTANT Tools  \* bound: those looked at, of "world", "trade", "server",
                \* "generator", "stars", "worlds", "market", "map"

VARIABLE tool

toolVars == <<tool, pageVars, tradingVars, planetVars, orbitVars, starVars, worldVars, marketVars, mapVars>>

First(S) == CHOOSE x \in S : TRUE
\* The parts not looked at start in any one of their states.
Some(part, S) == IF tool = part THEN S ELSE {First(S)}

ToolsInit ==
  /\ tool \in Tools
  /\ PageInit /\ effort \in Some("world", Efforts)
  /\ TradingInit
  /\ PlanetInit(Some("server", BOOLEAN))
  /\ \E r \in Some("generator", Rows) : OrbitsInit(r)
  /\ tool # "generator" => \A s \in Range(Stars) : zones[s] = First(ZoneTables)
  /\ StarsInit
  /\ WorldInit /\ mainWorld \in Some("worlds", MainWorlds)
  /\ MarketInit /\ home \in Some("market", Ports)
  /\ MapInit(Some("map", Requests))

WorldPage == tool = "world" /\ PageNext
             /\ UNCHANGED <<tool, tradingVars, planetVars, orbitVars, starVars, worldVars, marketVars, mapVars>>
TradeTables == tool = "trade" /\ TradingNext
               /\ UNCHANGED <<tool, pageVars, planetVars, orbitVars, starVars, worldVars, marketVars, mapVars>>
HttpServer == tool = "server" /\ PlanetNext
              /\ UNCHANGED <<tool, pageVars, tradingVars, orbitVars, starVars, worldVars, marketVars, mapVars>>
Generator == tool = "generator" /\ OrbitsNext
             /\ UNCHANGED <<tool, pageVars, tradingVars, planetVars, starVars, worldVars, marketVars, mapVars>>
StarRolls == tool = "stars" /\ StarsNext
             /\ UNCHANGED <<tool, pageVars, tradingVars, planetVars, orbitVars, worldVars, marketVars, mapVars>>
BodyRolls == tool = "worlds" /\ WorldNext
             /\ UNCHANGED <<tool, pageVars, tradingVars, planetVars, orbitVars, starVars, marketVars, mapVars>>
MarketRolls == tool = "market" /\ MarketNext
               /\ UNCHANGED <<tool, pageVars, tradingVars, planetVars, orbitVars, starVars, worldVars, mapVars>>
MapRolls == tool = "map" /\ MapNext
            /\ UNCHANGED <<tool, pageVars, tradingVars, planetVars, orbitVars, starVars, worldVars, marketVars>>

ToolsNext == WorldPage \/ TradeTables \/ HttpServer \/ Generator \/ StarRolls \/ BodyRolls \/ MarketRolls
             \/ MapRolls
ToolsSpec == ToolsInit /\ [][ToolsNext]_toolVars /\ PageFairness
-----------------------------------------------------------------------------
\* Each part's variables have their types, and what the code relies on about
\* them: row ids are unique (system_generator.rs:432-436), plans are covered by
\* what there is (trade_computer.rs:1044-1058), maps are kept at one scale
\* (http_server.rs:380-411), giants have orbits to go to (system.rs:608-660).
ToolsTypeOK ==
  RowsTypeOK /\ TradingTypeOK /\ PlanetTypeOK /\ OrbitsTypeOK
  /\ StarsTypeOK /\ WorldTypeOK /\ MarketTypeOK
  /\ MapTypeOK
=============================================================================
