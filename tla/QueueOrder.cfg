SPECIFICATION PSpec
CONSTANTS
  r1 = r1
  p1 = p1
  p2 = p2
  Absent = Absent
  Replica = {r1}
  PR <- TwoRuns
  Target <- TwoRuns
  Sources = {"dashboard", "other"}
  Tiers = {0, 2}
  AgingInterval = 1
  AgingMinTier = 0
  Limits = {1}
  DefaultLimit = 2
  Env <- OrderEnv
  MaxClock = 2
  MaxCreates = 1
  MaxLag = 1
SYMMETRY RunSymmetry
INVARIANTS HeldStaysHeld OrderInv
PROPERTIES NoOvertaking PromotionsChain
