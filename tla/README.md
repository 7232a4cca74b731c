# A verification of worldgen

worldgen is a Traveller toolkit: a Rust server process (WebSocket and HTTP endpoints), browser pages
compiled to WebAssembly, and libraries that generate star systems, world maps, trade markets and whole
trading voyages. This directory models its servers, its pages and its generators. It holds TLA+ modules,
TLC configurations, and proofs checked by TLAPS. Paths below are relative to `src/src/`.

Contents: [1 Inventory](#1-inventory) · [2 Modules](#2-modules-and-the-code-they-model) ·
[3 Runs](#3-what-the-runs-check) · [4 Fairness](#4-fairness) · [5 Proofs](#5-what-is-proved) ·
[6 Findings](#6-where-code-and-comments-disagree) · [7 Not modelled](#7-not-modelled) · [8 Plan](#8-plan)

## 1. Inventory

| Component | State it keeps | Operations | Talks to | What makes it correct |
|---|---|---|---|---|
| **Trade server** `backend/server.rs`, `comms/` | registry `clients` (ship and sender per client), `states` (a TradeState per ship), one task per connection | accept, select ship, state update, regenerate, apply monthly expenses, disconnect | Firestore (await), clients (unbounded channel per client) | a session is isolated per ship; cache, document and pages agree; tables belong to the worlds and skills; no accepted command is lost |
| **Session store** `backend/firestore.rs` | one document per ship name | get (saves a default for a missing one), save | Firestore | a session survives a restart; a legacy document is replaced |
| **Trade client and page** `comms/client.rs`, `components/trade_computer.rs` | signals (the TradeState shown), `pending_ship`, `received_initial_state`, `last_received_state`, localStorage | open, set ship, edit, send commands, handle a message, the sync effect, plan and execute trades | trade server | what the page shows is the server's; edits are sent once and to the right session; no echo loop; a trade is executed once |
| **Captain's log** `backend/captains_log_server.rs`, `vertex_client.rs` | the limiter's stamp per client, one stream per request | validate, limit, relay deltas, terminal frame, close | Vertex AI, one WebSocket | exactly one terminal frame, after every delta; the limiter counts accepted requests; the event splitter loses nothing |
| **Simulator server** `backend/simulator_server.rs` | a run and a frame pump over one channel | request, steps, result or error, map, close | voyage simulator, TravellerMap | every step precedes the terminal frame; one terminal frame on every path |
| **Simulator page** `components/ship_simulator.rs` | run state, steps, the client held; the log panel's text and client | run, generate, read frames | both servers above | a result is shown with all its steps; a log's text is of the last click; the page comes to rest |
| **Voyage simulator** `simulator/` | date, days since the last payment, budget, manifest, place, history, WorldCache | periodic costs, port stay, incident, sale, route, load, life support, fuel, jump | world service (through the cache) | days, cargo and money balance over many stops; purchases never strand the ship; every voyage ends |
| **Trade goods and manifest** `trade/` | lots, prices, passengers, freight lots, manifest | generate, price, add, process trades | trade server, voyage, page | quantities conserved; indices of chosen freight stay valid |
| **Planet maps** `backend/http_server.rs`, `gcs.rs` | objects in a bucket by cache key | look up, render, store | bucket, renderer | a key stands for one image; a failed store does not fail a request |
| **Dispatch** `bin/server.rs` | none per connection | peek, choose HTTP or a WebSocket handler | all endpoints | every connection reaches the right handler |
| **World search** `components/traveller_map.rs` | the query, results, the picked world | type, suggest, commit, fetch | TravellerMap | the world is the one named; its parts are of one world |
| **World page** `components/system_generator.rs` | rows of constraints, errors by row | rebuild from a pick, edit, validate, generate | world search, system generation | a mark belongs to what its row holds |
| **System generation** `systems/` | orbit slots of up to three stars, the digits of each world | place stars, pinned bodies, giants, belts, main world, fill, satellites; roll a world | – | a body placed is not overwritten by a later one; the main world is there once; nobody outdoes it; no panic |
| **World maps** `worldmap/`, `sysmap/` | grids | plates, climate, cities, rivers, drawing | – | water is passed on once and reaches the sea; cities stand on land |

**Interaction.** The pages and the trade server exchange frames over a WebSocket per page; the server keeps
a ship's TradeState in a shared map and writes it through to Firestore. A page sends its whole state after
an edit; the server recalculates what the edit invalidates and broadcasts the result to every page of the
ship, the sender included. The simulator and captain's log endpoints serve one request per connection and
share nothing with the trade sessions; the simulator page opens the second beside the result of the first.
The world page and `/api/system` both call the system generator; `/api/world` keeps what it has drawn in a
bucket.

**What is hard here.** The server gives up the processor at every lock and every Firestore call, so
handlers of different connections interleave inside what reads as one function: SelectShip copies a state
and installs it later; commands *remove* the entry and put it back after a save; updates are recalculated
against a copy. The page decides whether to send from flags that callbacks set, and messages of a ship it
has left may still arrive. Firestore may fail (also after having written), peers vanish, the process may
die. The one-shot servers join several tasks by channels and close a socket its peer may have left. The
world page commits a pick while answers for earlier ones are still to come. The simulator and the
generators are sequential but long: what they keep in several places must agree after many steps, and each
step finds what the earlier ones left. PROJECT.json lists each of these hazards at its line.

## 2. Modules and the code they model

```
ShipSessions           the promise: isolated sessions                     (abstract)
     ^ implements
TradeData -> TradeServer -> TradeSync                     Voyage
 (state)      (server)      (plus pages)                  (the voyage itself)

OneShot                the promise: items, one terminal frame, the close  (abstract)
     ^ implement
SimulatorSession   CaptainsLog  -> ShipSimulator (both servers with the page)

WorldSearch -> GeneratorPage     \
GoodsTrading   PlanetServer       \
Stars -> SystemOrbits              >  WorldTools (side by side, sharing nothing)
WorldRolls                        /
Market   WorldMap                /
```

An arrow is EXTENDS. `X_proofs` holds the theorems about `X` and what it extends; those of WorldTools are about
its parts as well, those of OneShot about the two servers that implement it. `Sums` (sums over sets, used by Voyage,
GoodsTrading and WorldMap; sets as sequences, used by SystemOrbits and WorldMap) and `FoldTheorems` belong to no part. The `MC...` modules give the constants of a run.

**TradeData** is the `TradeState` (`comms/state.rs`) and the pure functions of the handlers:
`recalculate_trade_state`, the body of Regenerate, the monthly deduction. A table (goods, prices,
passengers) is represented by the inputs it was computed for, so "the table is out of date" can be said;
rolls and credits are not kept. `quote.sell` records the world whose codes price the sell side, because
recalculation and regeneration differ in it.

**TradeServer** has one action per stretch of a handler between two awaits. `job[c]` holds the locals of
the handler that connection `c` runs and where it stands:

| at | next action | code |
|---|---|---|
| `lookup` | `LookupCache` | `handle_select_ship`, cache read |
| `load`, `default`, `reset` | `LoadState`, `LoadError`, `SaveDefault`, `ResetLegacy` | `get_trade_state` and its schema error |
| `install`, `reply` | `InstallSelected`, `ReplySelected` | insert, answer the client |
| `previous`, `install`, `save`, `broadcast` | `RecalculateUpdate`, `InstallUpdate`, `SaveJob`, `Broadcast` | `handle_trade_state_update` |
| `take`, `save`, `install`, `broadcast` | `TakeEntry`, `SaveJob`, `ReturnEntry`, `Broadcast` | regenerate and monthly expenses |

A connection handles one frame at a time, so `Disconnect` needs an idle handler; the send task may end at
any time (`PeerLost`). A save that reports an error may have been applied. `Crash` keeps only the
documents; `Stored` are the states an earlier process may have left in them. `installed`, `overlapped`,
`saveFailed`, `loadFailed` and `ranAhead` are history variables: no action's guard reads them.

**TradeSync** EXTENDS TradeServer with one page per connection: socket, signals (`screen`), `pending_ship`
(`ship`, which is also the name in localStorage), the two flags (`got`, `last`), and the frames on their way
up. `SyncEffect` is the Leptos effect that runs after every change of a signal, so it is part of the action
that changed it. `visited` are the pages that are opened at all, chosen at the start. `Forward` and
`HandleMessage` are one step: WebSocket frames keep their order, and a frame
in transit is told apart from a queued one by nothing in the code.

**ShipSessions** is the contract of the trade server without caches, stores or handlers: who sits in which
session, which states each session has had, what is on its way to each client.

**Voyage** models `run_simulation` (`simulator/executor.rs`), one action per numbered step of its loop,
with `incidents.rs`, the rules (not the scores) of `route.rs`, `pick_passengers`, `pick_to_buy`,
`pick_freight`, life support and the manifest's `process_trades`. Dice, markets, prices and the world
service's answers are chosen from sets the constants give. The day and money constants of `economy.rs` are
CONSTANTS, so that a run can scale them down and the theorem covers the real ones. `traded` is a history
variable.

**OneShot** is what both one-shot protocols promise (`simulator/protocol.rs`, `comms/captains_log.rs`): to
each request any number of items, one terminal frame, then the close; only a client that left is owed less.

**SimulatorSession** (`backend/simulator_server.rs`) has the handler and the executor task of each
connection. The executor puts steps into an unbounded channel; the handler pumps them out (`PumpStep`),
takes the result when the channel has closed (`TakeResult`), sends the answer and drains. The executor may
succeed, fail or panic; the client may close or vanish at any point, and the executor does not notice; or it
may stop reading (`SimStall`), and then every send of the handler waits (`SendReturns`).

**CaptainsLog** (`backend/captains_log_server.rs`) has the limiter's stamp, shared by all connections and
compared with a clock, and per connection a handler that bridges Vertex AI's stream to a send task
(`bridge`). `Admit` is the limiter with its stamp and the size check after it, `EndStream` every way the
upstream ends, `SenderStops` and `LogReturn` the close, which waits for the send task.

**ShipSimulator** (`components/ship_simulator.rs`) EXTENDS both with one page. A click replaces the client
held but closes nothing, so the frames of an abandoned connection still arrive. The k-th run of the page is
connection k of `Sims`, the k-th generation connection k of `Logs`; the other connections are other
clients. `scenario` bounds the clicks, the other clients and the faults of a behaviour.

**WorldSearch** (`components/traveller_map.rs`) has the typed text, the suggestions, the commit of a pick in
two parts (its coordinates, then the data of its world), and the requests under way, answered in any order.
**GeneratorPage** (`components/system_generator.rs`) EXTENDS it with the table of constraints, which a pick
rebuilds, edits change and validate, and Generate reads. `orphaned` is history: ids whose rows a rebuild
dropped while they had a message.

**GoodsTrading** (`trade/ship_manifest.rs`, `available_goods.rs`, `components/trade_computer.rs`): the plan
columns of both tables, manual entries, Execute Trades and the server's answer with a new market.

**PlanetServer** (`backend/http_server.rs`, `gcs.rs`, `bin/server.rs`): `Accept` tells HTTP from a
WebSocket by what has arrived, `Route` reads the parameters, `Get` asks the bucket, `Draw` renders at the
canonical scale, `Send` answers, and the put ends on its own (`PutEnds`), before or after the reply, or not.
The key is of the plain text of name and UWP (`Plain`: trimmed, one case), the image (`Drawn`) of the name as
sent and of what `Uwp::parse` reads in the UWP as sent (`UwpRead`): the two are told apart.

**Stars** (`systems/system_tables.rs`, `astro.rs`, the stars of `system.rs`) rolls a star and looks up the
tables about it. **SystemOrbits** (`systems/system.rs`) EXTENDS it with the order in which rows, giants,
belts, the main world and the rest claim orbits; `at.phase` is the next step of `generate_system`.
`giantsPlaced` and `crowded` are history: where the rows' giants were put, and that the main world found no
orbit free.
**WorldRolls** (`systems/world.rs`, `gas_giant.rs`) has the digits of every kind of body, each from its row
or from the dice, below the main world's.

**Market** (`trade/table.rs`, `available_goods.rs`, `available_passengers.rs`, `trade/mod.rs`): trade
classes, the goods a world offers, prices for a skill, passengers and freight for a destination, over dice
that are thrown once and kept.

**WorldMap** (`worldmap/`): sea level from the digit of hydrographics, biomes, the number and the sizes of
cities and where they go (`PlaceCity`), where each sample drains (`ComputeFlow`), the sweep that adds the
water up (`AccumulateDrainage`) and the rivers (`TraceRivers`). Heights and climates are given. The sphere is
a ring whose cells are hexes and samples at once, cut by the seam of the sheet.

**WorldTools** puts the eight last parts side by side, as `bin/main.rs` does by path: `tool` says which one a
behaviour is about; the others stand still in one of their initial states.

Operators called "Mutant" in the comments are wrong variants of the definition that follows them. Nothing
refers to them; putting one in the place of its neighbour must break a property (PROJECT.json "mutants").

## 3. What the runs check

| Run | Checks | Bounds |
|---|---|---|
| `server` | `TypeOK`, `HandlerSeated`, `CacheMatchesStore`, `SessionsIsolated` | 2 connections, 2 ships, 1 world and the empty one, 2 skills, 3 handlers, 1 fault, with and without Firestore |
| `sync` | `SyncTypeOK`, `PagesConverge`, `TablesCurrent` | 2 pages, 1 ship, 2 worlds and the empty one, 2 skills, origin, destination and skill edited, 2 user acts, 1 reload, both deployments, a stored session |
| `live` | `ShipsAnswered`, `TrafficStops` | 1 page, 2 ships, 2 acts, 1 reload, both deployments; or 2 pages, 1 ship, 2 acts; no commands |
| `voyage` | `VoyageTypeOK`, `DaysAccounted`, `CargoConserved`, `BuysLeaveMeans`, `VoyageEnds` | 3 worlds in a line, jump 1, 2 goods, 3 results of 2d6, 5 days planned |
| `relays` | `PageTypeOK`, `KeepsSimProtocol`, `KeepsLogProtocol`, `UpstreamSpaced`, `ResultHasAllSteps`, `TextIsOfThisGeneration`, `ResultStays`, `PageSettles`, `HandlersReturn` | 5 scenarios of at most 2 runs, 2 generations, 2 other clients and 2 faults; 1 step, 1 delta, gap 1, time up to 1 |
| `tools` | `ToolsTypeOK` and: *page* `PickedAsNamed`, `PickIsWhole`, `TableOfThePick`, `MarkedRowsAreInvalid`, `LoadingEnds`; *trade* `GoodsBalance`, `ExecutesOnce`; *server* `SentAlike`, `KeptImagesStand`; *generator* `MainWorldOnce`, `RowsStand`, `MoonsRight`; *stars* `TablesAgree`; *worlds* `SubordinateToMain`; *market* `KeptDice`; *map* `MapAgrees` | below, by part |
| `dropped`, `own_ship`, `stale_tables`, `hold`, `panic`, `spelling` | one comment's or test's promise each, violated | the smallest that shows it |

**The properties.**
- `HandlerSeated`: a running handler's connection is registered and seated on the ship the handler works
  for, so replies and broadcasts go to the session they were computed for across every await.
- `CacheMatchesStore`: at rest, with Firestore, the document is what is cached, unless a write failed or
  two handlers of the ship overlapped. Both exceptions are real: each of them alone lets the two differ, so
  this says nothing of the races and failures themselves (see the notes of those hazards in PROJECT.json).
- `TablesCurrent`: the incremental recalculation is right as long as updates carry the tables the server
  last had, also when two pages' updates race, over new sessions and stored ones. `stale_tables` shows that
  the condition cannot be dropped.
- `SessionsIsolated`: TradeServer implements ShipSessions; a client hears only from the session it has
  chosen, and only states that session has had.
- `PagesConverge`: when nothing is under way, each page that shows a ship shows what is cached, unless two
  handlers of that ship overlapped.
- `ShipsAnswered`, `TrafficStops`: a page that sets a ship gets its state unless it moves on or the load
  fails; pages do not answer each other for ever.
- `DaysAccounted`, `CargoConserved`: no day escapes the periodic payments, and no ton is lost or doubled by
  holding back, buying again, selling or piracy. `BuysLeaveMeans`: what is spent on goods leaves fuel and
  life support. `VoyageEnds`: every voyage ends, or waits for a world request that is never answered, which
  has no time limit (`world_fetch.rs:100`).
- `KeepsSimProtocol`, `KeepsLogProtocol`: each server implements OneShot, whatever its tasks, its upstream
  and its peer do.
- `UpstreamSpaced`: two generations are let through to Vertex AI at least the gap apart, whoever asked. The
  request itself goes out later, once its access token is there.
- `ResultHasAllSteps`: steps and result reach the handler by two channels, yet no result is shown without
  every step before it. `TextIsOfThisGeneration`: no text of an earlier connection, which may still be
  open, is mixed into this one's. `ResultStays`: only a click takes a result away. `PageSettles`,
  `HandlersReturn`: page and handlers come to rest, but for the waits the code sets no limit to. Those are named
  in the properties: a voyage for a world request, a generation for its access token, and a handler's send to
  a client that stopped reading on a connection that holds.
- `PickedAsNamed`: whatever came late, the world is the suggestion's own or one found for the text, of that
  very name if there is one. `PickIsWhole`, `TableOfThePick`: what is shown and built of a pick is of one
  world, if no other's data was under way beside it. `MarkedRowsAreInvalid`: a message is under a row that does
  not parse, so that mending it gives Generate back, but for the messages of rows that a rebuild dropped, which
  keep it disabled (section 6). `LoadingEnds`.
- `GoodsBalance`: over purchases, sales and manual entries what came aboard and did not leave is held;
  `ExecutesOnce`: a second Execute Trades does nothing.
- `SentAlike`: a map sent has the scale asked for and is, exactly, what some request that means the same planet
  draws; if all spell it one way, it is the map asked for. `KeptImagesStand`: a kept image is never lost, and
  replaced by another only if two requests spelled the planet differently. `SentAsAsked`, without regard to
  spelling, is violated (run `spelling`).
- `MainWorldOnce`, `RowsStand`, `MoonsRight`: after all the steps of generation the main world is in the
  system exactly once. A row's planet, belt or empty orbit is still where it was put, unless the main world
  found no orbit free, or had to be habitable where the row wants nothing (`GivesWay`); a row's giant is a giant
  still, unless a rolled belt took its place, which prefers giants' orbits, or the main world found no orbit
  free. A row's planet has as many satellites as asked (of belts, giants and the main world the number is not
  checked), and satellites are on orbits of their own. `NeverPanics` (run `panic`) is violated.
- `TablesAgree`: what one table says of a star, the others bear out: a rolled primary is a real star, and
  a main world that needs air is placed where `astro.rs` then takes its temperature as temperate.
- `SubordinateToMain`: nobody lives without air when the main world's tools do not reach that far, no tools
  without people, and nowhere better ones than the main world's, whichever generator made the body.
- `KeptDice`: until the dice are reset a question has one answer, whatever was asked in between.
- `MapAgrees`: the water that falls is all passed on, once; a river runs down to the sea or to the basin it
  ends in; cities stand on land, apart, each of its tier.

**Why the bounds are enough.** The races of the server are between two handlers of one ship, while a third
frame changes what one of them assumed: three handlers, on two connections. A second ship is needed to
leave a session, and one world next to the empty one tells a table's origin. The two payloads of `server` are
an origin picked over empty tables, and a skill edited over drawn ones; the run does not check the tables.
`sync` does: its pages send what users make of what the pages show, so that origin, destination and skill
change one by one, over current tables, on two pages at once, from a missing, a legacy or a stored document
with drawn tables. Two acts are two edits that race, or two in a row on one page: passengers are listed once
origin and destination are known, and an edit of the skill alone asks for new prices only. In `sync`
and `own_ship` the bound on handlers (20) is never reached: user acts bound them. In `live` it is 4, and the
state graph is the same (32 153 states) for 4 and 5, so it stops nothing; a page that answered echoes would reach
any bound with frames unread. `sync` uses a VIEW that
leaves out history variables its properties do not read. Where skills are not what a run is about, they are a
single value.

In `voyage` the calendar is short (1 day in port, 1 per jump, 1 per week lost, periods of 3 days, given up
more than 1 day late), so that a trip crosses several periods, meets the half-way, three-quarter and target
rules of the route, and can come home in time, come too late, strand or be marooned: each of the four ends
is reached. The dice results 2, 9 and 12 at the ports chosen reach all five kinds of incident and the
avoided one. CHECK_DEADLOCK is FALSE where users may have done all they may do or the voyage is over.

In `relays` each scenario is one story the code has to survive: two runs, a connection of which breaks; a
run and two generations, the second of which abandons the first; a run and a generation, one connection of
which breaks; two log clients at once, one of which breaks or stalls, which is what the limiter and the
close are for; a second simulator client that stalls, breaks, or first one and then the other. Two clicks
suffice to abandon a connection, two
connections to race for the limiter, one step and one delta to be overtaken by a terminal frame; theorems
(section 5) lift the protocols and the spacing to any number.

`tools` has 267 456 states in eight parts:
- *page*: three worlds, two of one name in two sectors, one without survey data; the texts of no, a part of
  a name and a name; four efforts that weigh typing, picks and edits against each other.
- *trade*: two goods, two tons, six clicks: buy, sell and execute twice, with two answers of the server.
- *server*: two connections, ten calls: spellings of one planet, some of which parse alike, another orbit, scales
  below, at and above
  the canonical one and 0, and each route that is refused.
- *generator*: five sets of rows over four orbits that compete for them: a body pinned where a giant is, two
  companions, a main world that needs air, one that only a giant's satellite can be, and rows that fail.
- *stars*, *worlds*, *market*: dice values on both sides of each table's steps; main worlds whose technology
  does and does not reach airless bodies, with and without people; a rich and an empty port.
- *map*: a ring of ten cells (nine on the sheet) with four height fields: rivers that cross the seam, are cut
  at the sheet's gap, join, and reach the sea, a basin far from it and one near enough to be led there. Paths
  of 3 samples for the code's 4, 4 cities for 32, 2 rivers for 30; tiers use a Zipf exponent of 1. Requests
  include texts too short or malformed, dry worlds and water worlds, on which not every city finds a place.

CHECK_DEADLOCK is FALSE in `relays`, `tools`, `panic` and `spelling` because users stop clicking and generation ends.

## 4. Fairness

`FairSyncSpec` assumes weak fairness of `Open`, `Serve`, `Work` and `HandleMessage`, per connection: sockets
connect, the server's tokio tasks read their sockets and are polled again once a lock or a Firestore call
is ready, and the browser runs its callbacks. The outcome of a Firestore call (an error included) is not
constrained, nor is any user act, reload or crash. Weak fairness suffices: each of these stays enabled until
it is taken or the page is reloaded. `LiveSpec`, which the run `live` checks, has the same fairness and picks
one of two scenarios at the start: one page that moves between two ships, with faults; or two pages of one
ship without faults, for `TrafficStops`. It leaves out commands: on one page they cannot race with anything,
and a page takes the state they broadcast as it takes an update's.

`FairVoyageSpec` assumes weak fairness of every step of the loop that only computes (`Computes`). `Route` has
none: it awaits requests of a client without a time limit, and `VoyageEnds` says what follows.

`FairSpec` (ShipSimulator) assumes weak fairness of each simulator handler, of the captain's log handler but
for its wait for the access token (`LogProceeds`), of each send task, and of the page's opening and reading:
tokio polls a task whose channel, socket or timer is ready, the drain has a timeout of two seconds, a
generation that has begun ends within REQUEST_TIMEOUT, and the browser runs its callbacks. Neither the end of
a run (`FinishRun`) nor Vertex AI's first answer (`UpstreamAnswers`) has fairness: nothing limits the time of
the first one's world requests and of the second one's token. A handler's send is enabled only for a client
that reads or is gone (`SendReturns`). Clicks, other clients, broken and stalled connections, and outcomes are
not constrained; a browser does learn of a connection that has broken. `PageFairness` assumes that search and
data requests are answered, with or without a world.

## 5. What is proved

All theorems hold for every value of the constants that satisfies the named assumptions
(`DataAssumption`, `NoStateAssumption`, `ServerAssumption`, `GoneAssumption`, `VoyageAssumption`,
`SyncAssumption`, `SimAssumption`, `LogAssumption`, `PageAssumption`, `SearchAssumption`,
`TradingAssumption`, `PlanetAssumption`, `OrbitsAssumption`, `StarsAssumption`, `WorldAssumption`,
`MarketAssumption`, `MapAssumption`), which only give them their types (digits are those `ehex_to_value` can
return, dice show what dice show), keep the special values apart and say that the sets summed over are
finite. `TableAssumption` is of another kind: it says of the literal table of goods that its multipliers and
dice are natural numbers. The prover cannot read a function written with `:>` and `@@`; TLC evaluates the
assumption on the table itself in the run `tools`.

**FoldTheorems** is the library: that a set is counted, an induction over finite sets, what a recursive
function and a fold compute one step at a time, and from them the laws of the sums in `Sums` (a sum over a
set less one element, of a function changed at one place, of two functions that agree, of natural numbers)
on which the books of goods and cargo rest.

*The trade server* (TradeServer_proofs)
- `TypeCorrect`: `Spec => []TypeOK`. One lemma per group of actions (`ServedType`, `HandlerStepType`,
  `ConnectionType`, `CrashType`). `TypeOK` splits jobs in those that have no state yet (`AskingJob`) and
  those that carry one (`CarryingJob`); without the split it would not be inductive, because
  `InstallUpdate` puts what a job carries into the cache.
- `HandlersStaySeated`: `Spec => []HandlerSeated`, inductive together with `TypeOK`: a connection's ship
  changes only by `SelectShip` and its registration ends only by `Disconnect`, both of which need an idle
  handler.
- `CachedTablesCurrent`: `Spec => []TablesCurrent`. `TablesCurrent` speaks of the cache alone and is not
  inductive: a state enters the cache from a job, and a job's from a document. `TablesInv` says the same of
  the cache, of the documents, and of the jobs that carry a state past recalculation. The step rests on
  `RecalculateCurrent`, about the recalculation alone: given the previous state's tables, all of them
  current, it makes every table current, whichever inputs changed.
- `CacheStaysStored`: `Spec => []CacheMatchesStore`. The inductive `StoreInv` says where a ship stands that
  has had no failed write and no overlap: at rest its document is what is cached; with its one job between
  install and save, or between take, save and return, which of the two runs ahead, by which state.
- `SessionsStayIsolated`: `Spec => SessionsIsolated`, the refinement of ShipSessions. `SpokenInv` says that
  what a handler about to answer or to broadcast carries has been installed in the session of its ship,
  because a command saves before it installs and an update after; each action then maps to one step of the
  contract or a stutter.

*The pages and the trade server* (TradeSync_proofs)
- `SyncTypeCorrect`: `SyncSpec => []SyncTypeOK`, for any number of pages, ships, edits, reloads and crashes.
- `PagesAlwaysConverge`: `SyncSpec => []PagesConverge`. `PagesConverge` speaks only of pages at rest and says
  nothing of the states under way to them, so `PagesInv` follows them: a page's ship is the one it will be
  seated on once all it sent is read (`Bound`), what it sent is in order and remembered until read
  (`Ordered`, `Remembered`), a state bears a ship's name only after that ship had a session (`Named`), what
  the only handler of a ship has read or written still holds (`Alone`), and a settled page, once it has read
  what was sent to it, shows what is cached (`Shown`). A handler's steps are grouped by what they do to the
  cache into five moves (`Advances`, `GivesUp`, `TakesOut`, `Installs`, `Answers`), and each part is shown
  for each move. TLC checked `PagesInv` on two ships and two pages before it was proved.

*The one-shot servers and their page*
- `SimTypeCorrect`, `SimProtocolCorrect` (OneShot_proofs): `SimSpec => KeepsSimProtocol`, the
  implementation of OneShot for any connections and any length of a voyage. `SimInv` says how far an answer
  has got for a client that is still there: steps alone; the terminal frame and the Close still to be sent;
  the Close alone, after a terminal frame; nothing. Without it a terminal frame could follow another, or a
  handler return unanswered. Each step then maps to `Item` (`PumpStep`), `End` or `Close` (`SendAnswer`),
  `Leave` (the client), `Close` or a stutter (a handler's return), or a stutter.
- `LogTypeCorrect`, `LogProtocolCorrect` (OneShot_proofs): the same for the captain's log, where
  `ProtocolInv` speaks of two places at once: what was sent and what is queued between the handler and its
  send task make one answer.
- `SpacingCorrect`: `LogSpec => []UpstreamSpaced`. `SpacingInv` adds that the limiter's stamp is the latest
  acceptance or later and not in the future, `NotYet` that a connection is accepted at most once.
- `SimOrderCorrect`, `SimFramesInOrder`, `LogFramesInOrder`: the items of an answer are numbered without a
  gap, a Done stands right after the last one of a stream that is over, nothing but the Close follows a
  terminal frame. They are what each server offers its page.
- `RunsSimulator`, `RunsCaptainsLog`, `WholeKeepsProtocols` (ShipSimulator_proofs): the whole is a behaviour
  of either server's own specification, so that everything proved of the servers alone holds in it.
- `PageTypeCorrect`, `RunReadCorrect`, `ResultsAreWhole`, `ResultsStay`, `TextsAreOfTheirGeneration`: the
  page's four properties. `RunRead` and its counterpart for texts say what the page has read of the one
  connection it listens to, as a prefix of what that connection was sent; with the order of the frames it
  follows that a Done is read after every step, and that a text is a beginning of one generation.

*The voyage* (Voyage_proofs)
- `VoyageTypeCorrect`, and `EveryDayAccounted`: `VoyageSpec => []DaysAccounted`. Each step that passes days
  does so through `Spend`, which adds them to the date and to the period under way alike.
- `VoyageCargoConserved`: what is in the hold and about to be loaded is what was bought less what was sold
  or stolen. `VoyageInv` splits the books by phase, because goods held back are, between two actions,
  neither in the hold nor sold.
- `VoyageBuysLeaveMeans`: a ship that has bought is not marooned on its way. `Owed` names what the rest of
  the way will cost at each phase; a purchase leaves at least that, and no later step before the jump costs
  more.

*World search, page, trading, generators, maps over HTTP* (SystemOrbits_proofs for the orbits' lemmas,
WorldTools_proofs for the theorems of the composed `ToolsSpec`)
- `PageTypesCorrect`, `PicksAreAsNamed`, `PicksStayWhole`, `TablesAreOfThePick`, `MarksAreOfInvalidRows`:
  one inductive invariant, `PageInv`. Its part for the search ties each query under way to the text it was
  made for and each field to a pick; its part for the table says which pick the rows were built of and
  that no two rows share an id, and that each message's row is there or went with a rebuild (`Rooted`).
- `TradingTypesCorrect`, `GoodsStayBalanced`, `TradesExecuteOnce`: `TradingInv` bounds each plan by what the
  market or the hold has, which is why executing never makes a quantity negative; after it all plans are 0.
- `SentAlikeCorrect`, `KeptImagesStandCorrect`: `KeysInv` says that what is kept, what is being put and
  what a request is about to send is, under its key, the drawing of a call that was made, as that call spelled
  it; two calls of one key mean one planet. They hold for any calls, and any number of requests over
  a bucket whose gets and puts fail at will.
- `BodiesStaySubordinate`: every generator and every importer ends in `Finish`, or in a ring or a moon built on
  it; `FinishFits` says once what that promises (`Fitting`), and each generator is led back to it.
- `DiceAreKept`: `MarketInv` says of each answer given since the last reset that asking again would give it
  from the dice as they lie (`BuyKept`, `SellKept`, `PassageKept`): a roll once thrown is never thrown again,
  and sizes of lots are only added at the end, where an earlier question does not look (`LongerKeeps`). It holds of
  freight only where no class has fewer than none of its lots, which is what the code then gets wrong (section 6).
- `OrbitTypesCorrect`, `MainWorldStandsOnce`, `PlacedRowsStand`, `SatellitesAreRight`: a star system for any
  rows and any rolls. None of the last three is inductive: `MainWorldOnce` says nothing until generation is
  over, and `MoonsRight` only compares the outcome with what was asked. `OrbitsInv` says what holds phase by
  phase: before `PlaceMain` nothing that is the main world lies anywhere, afterwards exactly one body or
  satellite (`MainInv`); a row that was placed stands in its orbit (`RowsInv`); the planet of such a row has
  no satellites until they are rolled, then as many as it still lacked, and one more for each satellite row
  read since (`MoonsInv`). Three lemmas carry it: a free orbit is always found, because fewer are taken than
  the search looks at (`OrbitLeft`); cleaning a body's satellites drops rings alone (`CleanKeeps`); throwing
  for n satellites gives n, whatever is thrown (`MoonsThrown`, by induction on the fold). TLC checked
  `OrbitsInv` on the states of the generator before it was proved. `StandsInv` adds for `PlacedRowsStand` what a
  row's orbit may hold besides its own body, and at which steps it comes to hold it.
- `StarTypesCorrect`, `StarTablesAgree`: `StarsInv` says of every star, a companion's companion too, that its
  class, subtype and size are ones a table has, and of the primary that is rolled that the tables know it;
  the rest is a comparison of two tables, zones and light, class by class.
- `MapTypesCorrect`, `MapsAgree`: `MapInv` follows a map through its passes. While drainage is counted, a cell
  that has passed its water on is not lower than one that has not, and water flows to lower cells only; so
  what the cells that still hold water hold is what has been counted (the sum changes at two places). From
  that and the order of heights it follows that the walk downhill ends, and that a river never gets smaller
  on it. Strokes are led back to a prefix of the path, of which no cell lies across the seam or a gap from
  the one before; cities to a list without repetition of the hexes that have a weight.
- `PlanetTypesCorrect`, `WorldTypesCorrect`, `MarketTypesCorrect`, and with those above `ToolsTypesCorrect`:
  `ToolsTypeOK` whole. Of a body's digits it is again `Finish` that matters, which clamps what the rolls bring
  (`FinishIn`, `ClampedDigits`); of a market, that a good is offered only if its roll
  brings more than nothing.
- `RunsPlanetServer`: the composition runs the map server by its own specification.

**Only model-checked.** Liveness (`ShipsAnswered`, `TrafficStops`, `VoyageEnds`, `PageSettles`,
`HandlersReturn`, `LoadingEnds`) is, with ENABLED, beyond this prover. Every invariant and every
safety property of the passing runs is stated by a theorem. Recursion is written with folds and
recursive functions; no module uses RECURSIVE operators.

## 6. Where code and comments disagree

Six runs end in a violation; each refutes a comment or a test of the code.
- `dropped`: a command that arrives while another command of the same ship has the entry out of the cache
  is dropped, although the comment allows that only before the ship's first state.
- `own_ship`: a broadcast of the ship a page has just left re-arms the effect, and the next edit sends the
  old ship's state into the new session.
- `stale_tables`: one page that edits twice before the first answer leaves a session whose tables are those
  of another world.
- `hold`: goods held back are not subtracted from the room for purchases and freight.
- `panic`: a belt in the system of a main world without population but with technology level 7 or more makes
  `gen_planetoids` compute `clamp(0, -1)` (`systems/system.rs:584`), which panics; a test of the sibling
  expression in `world.rs` says why that must not be.
- `spelling`: the cache key trims the UWP and the name and folds their case (`http_server.rs:475`), the renderer
  takes both as sent; so a request can be sent the map of another text, and which one depends on who asked
  first. The key's doc says that it is of "the inputs that determine the canonical-scale PNG bytes".

Further divergences were met while the code was translated; PROJECT.json quotes each with its comment:
- *Voyage*: a debt that fuel makes and revenue pays back is not reported (`executor.rs:503`); a late arrival
  at home is not one (`:140`); the forced return fails without a later target date (`route.rs:214`); a world
  request without an answer leaves the client without Done or Error (`world_fetch.rs:100`).
- *Trade*: a negative count of lots takes every size rolled so far (`available_passengers.rs:331`); amber and
  red zones are never yielded (`trade/mod.rs:242`); the total modifier is the largest one
  (`available_goods.rs:889`); quantities add before they multiply (`:345`); freight pays by the ton
  (`ship_manifest.rs:177`).
- *Systems*: rolled planets are never larger than 0 (`world.rs:571`); sizes of 10 and more are printed in
  decimal (`:202`); slots exceed the orbit table (`system.rs:1504`); a pinned giant whose orbit is taken goes
  elsewhere (`:674`), and a rolled belt takes its place (`:603`); the main world is put over an orbit kept empty
  (`:988`) or over a row's planet (`:958`) when no orbit is free; small giants get
  the extreme orbit (`gas_giant.rs:234`); cloudiness is asked of
  atmospheres its table lacks (`astro.rs:199`).
- *Maps, pages, servers*: the coast found need not be the first (`rivers.rs:476`); the first world found is
  taken for the main world (`system_generator.rs:589`), and messages of rows that a rebuild dropped keep Generate
  disabled (`:527`); a character over two chunks ends the stream
  (`vertex_client.rs:248`); the limiter is stamped before the size check (`captains_log_server.rs:148`).

## 7. Not modelled

- The legacy accept loop `TradeServer::run`, counters, logging, and malformed frames (they are logged and
  change nothing).
- The numeric contents of a TradeState: TradeServer and TradeSync keep what its tables were computed for,
  GoodsTrading and Market their contents, each by itself.
- Fields in floating point: noise, tectonics, climate, meanders (`worldmap/noise.rs`, `tectonics.rs`,
  `climate.rs`), temperatures and luminosities of `astro.rs`, the scores that rank destinations. Where a
  decision hangs on such a number, the number is an input of the model.
- Rendering (`worldmap/render/`, `colormap.rs`, `raster.rs`, `sysmap/`, `simulator/map_render.rs`), markup
  (`world_list.rs`, `system_view.rs`, dialogs), name tables, prompts and wording.
- The bytes of requests, images and server-sent events. A chunk that is no UTF-8 by itself ends the upstream
  like any other error.
- Firestore, the bucket, TravellerMap and Vertex AI themselves: only their outcomes.

## 8. Plan

Done, in this order: TradeData, TradeServer, ShipSessions, TradeSync; Voyage; OneShot, SimulatorSession,
CaptainsLog, ShipSimulator; WorldSearch, GeneratorPage, GoodsTrading, PlanetServer; Stars, SystemOrbits,
WorldRolls, Market, WorldMap, WorldTools; the proofs of section 5.

Next:
1. **Freight in TradeState**: the chosen freight lots are indices into a list that the server rolls again;
   extend TradeData with the list's generation and check that an index means the lot it was chosen for.
2. **VertexStream**: the event splitter over chunks, as a refinement of the captain's log's upstream.
3. A larger grid in WorldMap, with neighbours of its own for hexes and for samples.
