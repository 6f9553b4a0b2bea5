SPECIFICATION AdmissionSpec
CONSTANTS
  Pod = {r1, r2}
  Specs <- FewSpecs
  Default <- Defaults
  DefaultTier = 3
  Requests = {}
  Unset = Unset
  Malformed = Malformed
PROPERTIES EveryReplicaLearns
CHECK_DEADLOCK FALSE
