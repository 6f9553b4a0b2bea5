SPECIFICATION Spec
CONSTANTS
  r1 = r1
  r2 = r2
  p1 = p1
  p2 = p2
  p3 = p3
  Absent = Absent
  Replica = {r1}
  PR <- ThreeRuns
  Target <- TwoRuns
  Sources = {"dashboard"}
  Tiers = {1}
  AgingInterval = 1
  AgingMinTier = 1
  Limits = {0, 1}
  DefaultLimit = 2
  Env = {"lag", "api_error", "restart", "delete", "set_limit"}
  MaxClock = 0
  MaxCreates = 1
  MaxLag = 3
SYMMETRY RunSymmetry
PROPERTIES AdmitWithinLimit NoRedundantStart
