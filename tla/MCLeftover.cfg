CONSTANTS
  p1 = p1  p2 = p2
  n1 = n1  home = home
  c1 = c1  c2 = c2
  Procs <- MCProcs
  Names <- MCNames
  Keys <- MCKeys
  Home = home
  Configs <- MCConfigs
  NoConfig = NoConfig
  NoProc = NoProc
  NoCall = NoCall
  Calls <- MCCalls
  Faults <- MCFaults
  UserActs <- MCUserActs
  Deadlines = TRUE
SPECIFICATION Spec
SYMMETRY MCSymmetry
INVARIANT EveryLeftoverReported
