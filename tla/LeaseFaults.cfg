SPECIFICATION FairSpec
CONSTANTS
  r1 = r1
  r2 = r2
  r3 = r3
  NoLease = NoLease
  Replica <- TwoReplicas
  LeaseDuration = 1
  Skews = {0}
  Patience = 1
  Env = {"slow", "api_error", "delete", "crash"}
  MaxClock = 2
PROPERTIES NoTheft SplitEnds Failover
