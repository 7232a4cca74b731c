SPECIFICATION Spec
CONSTANTS
  Conns = {c1, c2}
  Ships = {s1, s2}
  Worlds = {w1}
  w1 = w1
  Skills = {k0, k1}
  k1 = k1
  DefaultSkill = k0
  NoShip = NoShip
  NoWorld = NoWorld
  NoState = NoState
  Legacy = Legacy
  Stored <- MCStored
  Deployments = {TRUE, FALSE}
  Payloads <- MCPayloads
  MaxFrames = 3
  MaxFaults = 1
SYMMETRY Symmetry
INVARIANTS TypeOK HandlerSeated CacheMatchesStore
PROPERTY SessionsIsolated
