SPECIFICATION Spec
CONSTANTS
  r1 = r1
  r2 = r2
  p1 = p1
  p2 = p2
  p3 = p3
  Absent = Absent
  Replica = {r1}
  PR = {p1}
  Target = {p1}
  Sources = {"dashboard", "other"}
  Tiers = {1}
  AgingInterval = 1
  AgingMinTier = 1
  Limits = {1}
  DefaultLimit = 2
  Env = {"delete"}
  MaxClock = 0
  MaxCreates = 2
  MaxLag = 2
INVARIANTS HeldStaysHeld
