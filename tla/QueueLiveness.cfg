SPECIFICATION FairSpec
CONSTANTS
  r1 = r1
  r2 = r2
  p1 = p1
  p2 = p2
  p3 = p3
  Absent = Absent
  Replica = {r1}
  PR <- TwoRuns
  Target <- TwoRuns
  Sources = {"dashboard"}
  Tiers = {1, 2}
  AgingInterval = 1
  AgingMinTier = 1
  Limits = {1}
  DefaultLimit = 2
  Env = {"lag", "api_error", "expire", "delete"}
  MaxClock = 1
  MaxCreates = 1
  MaxLag = 1
PROPERTIES QueueDrains
