SPECIFICATION SyncSpec
CONSTANTS
  Conns = {c1}
  Ships = {s1}
  Worlds = {w1}
  w1 = w1
  c1 = c1
  s2 = s2
  Skills = {k0, k1}
  DefaultSkill = k0
  NoShip = NoShip
  NoWorld = NoWorld
  NoState = NoState
  Legacy = Legacy
  Stored = {}
  Deployments = {FALSE}
  Payloads <- MCPayloads
  MaxFrames = 20
  MaxFaults = 0
  MaxActs = 3
  Editable = {"origin", "skill"}
INVARIANT TablesAuthoritative
CHECK_DEADLOCK FALSE
