SPECIFICATION SyncSpec
CONSTANTS
  Conns = {c1, c2}
  Ships = {s1, s2}
  Worlds = {w1}
  w1 = w1
  c1 = c1
  s2 = s2
  Skills = {k0}
  DefaultSkill = k0
  NoShip = NoShip
  NoWorld = NoWorld
  NoState = NoState
  Legacy = Legacy
  Stored = {}
  Deployments = {FALSE}
  Payloads <- MCPayloads
  MaxFrames = 20
  MaxFaults = 0
  MaxActs = 3
  Editable = {"origin"}
PROPERTY SendsOwnShip
CHECK_DEADLOCK FALSE
