SPECIFICATION SyncSpec
CONSTANTS
  Conns = {c1, c2}
  Ships = {s1}
  Worlds = {w1, w2}
  w1 = w1
  c1 = c1
  s2 = s2
  Skills = {k0, k1}
  DefaultSkill = k0
  NoShip = NoShip
  NoWorld = NoWorld
  NoState = NoState
  Legacy = Legacy
  Stored <- MCStored
  Deployments = {TRUE, FALSE}
  Payloads <- MCPayloads
  MaxFrames = 20
  MaxFaults = 1
  MaxActs = 2
  Editable = {"origin", "dest", "skill"}
VIEW SafetyView
SYMMETRY Symmetry
INVARIANTS SyncTypeOK PagesConverge TablesCurrent
CHECK_DEADLOCK FALSE
