CONSTANTS
  c1 = c1  c2 = c2
  Configs <- MCConfigs
  NoConfig = NoConfig
  Gone = Gone
  Faults <- MCNoFaults
  Flaws <- MCKnownFlaws
  UserActs <- MCUserActs
  MaxTrouble = 2
SPECIFICATION Spec
INVARIANT ProtectionRecorded
CHECK_DEADLOCK FALSE
