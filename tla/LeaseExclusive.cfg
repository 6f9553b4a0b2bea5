SPECIFICATION Spec
CONSTANTS
  r1 = r1
  r2 = r2
  r3 = r3
  NoLease = NoLease
  Replica <- ThreeReplicas
  LeaseDuration = 2
  Skews = {0, 1}
  Patience = 1
  Env = {"api_error", "crash"}
  MaxClock = 6
SYMMETRY ThreeSymmetry
INVARIANTS LeaseInv
PROPERTIES Exclusive
