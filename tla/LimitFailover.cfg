SPECIFICATION Spec
CONSTANTS
  r1 = r1
  r2 = r2
  p1 = p1
  p2 = p2
  p3 = p3
  Absent = Absent
  Replica <- TwoReplicas
  PR <- TwoRuns
  Target <- TwoRuns
  Sources = {"dashboard"}
  Tiers = {1}
  AgingInterval = 1
  AgingMinTier = 1
  Limits = {1}
  DefaultLimit = 2
  Env = {"api_error", "expire", "restart", "touch", "cancel"}
  MaxClock = 0
  MaxCreates = 1
  MaxLag = 1
SYMMETRY FullSymmetry
INVARIANTS LimitInv OnceInv
PROPERTIES Gated NoRedundantStart
