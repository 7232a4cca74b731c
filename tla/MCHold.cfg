SPECIFICATION VoyageSpec
CONSTANTS
  Worlds <- MCWorlds
  Home = "home"
  Distance <- MCDistance
  Site <- MCSite
  JumpRating = 1
  Capacity = 6
  Rooms = 2
  Berths = 1
  Leadership = 0
  Weapons = 2
  Broker = 1
  Maintenance = 10000
  Salary = 5000
  Mortgage = 5000
  CrewCost = 3000
  FuelCost = 1000
  StartBudget = 120000
  Target = 5
  DaysInPort = 1
  DaysPerJump = 1
  DaysPerWeek = 1
  PeriodDays = 3
  AbortOverflow = 1
  Goods <- MCGoods
  Markets <- MCMarkets
  Passengers <- MCPassengers
  Prices <- MCPrices
  D6 = {1}
  D2x6 = {2, 9, 12}
INVARIANT HoldFits
CHECK_DEADLOCK FALSE
