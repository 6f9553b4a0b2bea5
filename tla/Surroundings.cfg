SPECIFICATION Spec
CONSTANTS
  Pod = {r1}
  Specs <- TestSpecs
  Default <- Defaults
  DefaultTier = 3
  Requests <- TestRequests
  Unset = Unset
  Malformed = Malformed
  Request = {"prod", "dev"}
  Plans <- SeedPlans
  Crews <- OneOrTwo
  Retries = 2
  Faults <- AllFaults
  Stream <- Streams
  Grain = 4
  Dist <- Shares
  Gap <- GapOf
  Conds <- TwoConds
  Rounds = 2
  Horizon = 4
  NoFile = NoFile
  Unclean = {4}
  Fragile = {4}
  Asides <- FewAsides
  Laters <- OneLater
  MaxChunks = 2
  None <- Below0
  Times = {0, 1, 2}
  Window = 2
  Lead = 2
  Waits <- WaitsOfTiers
  NoQueue = 5
  Numbers = {0, 1, 2, 3}
  Gaps = {0, 1, 2, 3}
  RoundGap = 2
  TierSet = {1, 2, 3}
  AgingStep = 3
  MaxRecords <- SheetSize
  n1 = n1
  n2 = n2
  Nodes = {n1, n2}
  Readings <- SamplesOf
  NaN <- Below0
  Unsampled = Unsampled
  Refused = Refused
  Width = 3
  FirstRun = 2
  Step = 1
  MaxMoments <- Moments
  MaxSeries <- Queries
  Polls = 2
  NewRuns = 1
  Loads <- TrialLoads
  Outcomes <- TrialOutcomes
  MaxFiles = 4
  NoShot = NoShot
INVARIANTS ConfigIsWhole QueuedByRule ForeignIsHeld
  CampaignTyped LoadAccounted CsvIsWholeLoad FilesOfOneAttempt MissingIsReported
  AuditedPairsMatch CountIsExact CommonWindowFair PeaksAreOwn InversionIsReal TestsFloor
  FigureFits AuditSeesGaps NotReadyIsShown MemoryIsSustained CurveIsCommon
  ReportIsWhatWasSeen VerdictFollowsRounds
PROPERTIES LeaderLearns
CHECK_DEADLOCK FALSE
