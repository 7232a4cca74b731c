SPECIFICATION LiveSpec
CONSTANTS
  Conns = {c1, c2}
  Ships = {s1, s2}
  Worlds = {w1}
  w1 = w1
  c1 = c1
  s2 = s2
  Skills = {k0}
  DefaultSkill = k0
  NoShip = NoShip
  NoWorld = NoWorld
  NoState = NoState
  Legacy = Legacy
  Stored = {}
  Deployments = {TRUE, FALSE}
  Payloads <- MCPayloads
  MaxFrames = 4
  MaxFaults = 1
  MaxActs = 2
  Editable = {"origin"}
PROPERTY ShipsAnswered TrafficStops
CHECK_DEADLOCK FALSE
