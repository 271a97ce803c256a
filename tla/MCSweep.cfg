CONSTANTS
  n1 = n1  n2 = n2
  d1 = d1  d2 = d2
  c1 = c1
  Names <- MCNames
  DiskNames <- MCDiskNames
  AttachedTo <- MCAttachedTo
  NoName = NoName
  Configs <- MCConfigs
  NoConfig = NoConfig
  Faults <- MCFaults
  MaxTrouble = 2
SPECIFICATION Spec
INVARIANTS Accounted RefusalsExplained
PROPERTIES DefaultHomeKept
CHECK_DEADLOCK FALSE
