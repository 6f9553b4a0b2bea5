SPECIFICATION Spec
CONSTANTS
  r1 = r1
  r2 = r2
  p1 = p1
  p2 = p2
  p3 = p3
  Absent = Absent
  Replica = {r1}
  PR <- TwoRuns
  Target <- TwoRuns
  Sources = {"dashboard"}
  Tiers = {1}
  AgingInterval = 1
  AgingMinTier = 1
  Limits = {1}
  DefaultLimit = 2
  Env = {"lost_reply"}
  MaxClock = 0
  MaxCreates = 1
  MaxLag = 2
INVARIANTS LimitHeld
