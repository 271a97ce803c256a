CONSTANTS
  c1 = c1  c2 = c2
  Configs <- MCConfigs
  NoConfig = NoConfig
  Gone = Gone
  Faults <- MCNoFaults
  Flaws <- MCFlaws
  UserActs <- MCUserActs
  MaxTrouble = 2
SPECIFICATION FairSpec
INVARIANTS TypeOK EffectRecorded NoHiddenDifference
           CleanAfterApply NotForgotten
PROPERTIES Converges
CHECK_DEADLOCK FALSE
