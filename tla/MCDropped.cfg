SPECIFICATION Spec
CONSTANTS
  Conns = {c1, c2}
  Ships = {s1}
  Worlds = {w1}
  w1 = w1
  Skills = {k0, k1}
  k1 = k1
  DefaultSkill = k0
  NoShip = NoShip
  NoWorld = NoWorld
  NoState = NoState
  Legacy = Legacy
  Stored <- MCStored
  Deployments = {TRUE, FALSE}
  Payloads <- MCPayloads
  MaxFrames = 4
  MaxFaults = 0
PROPERTY CommandsApplied
