\* Ten minutes of two or three nodes, for seeds with usual, rare and no requests
SPECIFICATION Spec
CONSTANTS
  Configs <- MCConfigs
  Seeds <- MCSeeds
  Network = "as1"
  PerMinute = 2
  HistoryWindows = 8
  MinimumSamples = 100
  MinimumHistory = 5
  ErrorThreshold = 20
  LatencyMultiple = 2
  RobustZThreshold = 3
CHECK_DEADLOCK FALSE
INVARIANTS TypeOK BaselineFrozen ShiftFlagged AccusedOnEvidence RuleMinority LabelsTrue WindowsWitnessed
