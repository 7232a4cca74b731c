SPECIFICATION ToolsSpec
CONSTANTS
  Tools = {"world", "trade", "server", "generator", "stars", "worlds", "market", "map"}
  Worlds <- MCWorlds
  Names <- MCNames
  Brief = {""}
  Empty = ""
  NoWorld = NoWorld
  Atlas <- MCAtlas
  Length <- MCLength
  Shown = 2
  Unsurveyed <- MCUnsurveyed
  Efforts <- MCEfforts
  Goods = {1, 2}
  Tons = 2
  Prices = {1, 2}
  Offers <- MCOffers
  Fare = 3
  Freight = 2
  Clicks = 6
  Conns = {c1, c2}
  NoParams = NoParams
  Calls <- MCCalls
  Plain <- MCPlain
  UwpRead <- MCUwpRead
  Canonical = 2
  Rows <- MCRows
  ZoneTables <- MCZones
  MaxOrbits <- MCMaxOrbits
  StarOrbits <- MCStarOrbits
  RandomBlocks = {0, 1}
  Giants = {0, 2}
  Belts = {0, 1}
  MoonRolls <- MCMoonRolls
  GiantMoons = {0, 1}
  WorldMoons = {0, 1}
  Rolls = {2, 4, 8, 11, 12}
  Again = {2, 7}
  Subtypes = {4, 5}
  StarPins <- MCStarPins
  Depth = 1
  Airs = {0, 6, 11}
  Unset = Unset
  MainWorlds <- MCMainWorlds
  WorldRows <- MCWorldRows
  Wild = Wild
  Places <- MCPlaces
  Parents = {0, 9}
  TwoDice = {2, 7, 12}
  OneDie = {1, 6}
  Ports <- MCPorts
  Jumps = {2}
  Skills = {0, 2}
  Throws <- MCThrows
  Picks = {11, 61}
  Questions = 2
  Requests <- MCRequests
  Urban <- MCUrban
  Heights <- MCHeights
  Climates <- MCClimates
  OnSheet = {1, 2, 3, 4, 5, 7, 8, 9, 10}
  MaxCities = 4
  MinPath = 3
  MaxRivers = 2
  Nearby = 3
INVARIANTS ToolsTypeOK
INVARIANTS PickedAsNamed PickIsWhole MarkedRowsAreInvalid TableOfThePick
INVARIANTS GoodsBalance ExecutesOnce
INVARIANTS SentAlike
INVARIANTS MainWorldOnce RowsStand MoonsRight
INVARIANTS TablesAgree SubordinateToMain
INVARIANTS KeptDice MapAgrees
PROPERTIES LoadingEnds KeptImagesStand
CHECK_DEADLOCK FALSE
