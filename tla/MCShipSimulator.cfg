SPECIFICATION FairSpec
CONSTANTS
  Sims <- MCSims
  Logs <- MCLogs
  MaxRuns = 2
  MaxGenerations = 2
  MaxSteps = 1
  MaxDeltas = 1
  RateGap = 1
  MaxTime = 1
  Scenarios <- MCScenarios
INVARIANTS PageTypeOK ResultHasAllSteps TextIsOfThisGeneration UpstreamSpaced
PROPERTIES ResultStays PageSettles HandlersReturn KeepsSimProtocol KeepsLogProtocol
CHECK_DEADLOCK FALSE
