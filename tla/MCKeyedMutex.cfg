CONSTANTS
  p1 = p1  p2 = p2  p3 = p3
  k1 = k1  k2 = k2
  e1 = e1  e2 = e2  e3 = e3
  Procs <- MCProcs
  Keys <- MCKeys
  Entries <- MCEntries
  NoProc = NoProc
  NoEntry = NoEntry
SPECIFICATION FairSpec
INVARIANTS TypeOK MutualExclusion LiveEntry TokenConserved NoLeak
PROPERTIES ImplementsKeyedLock WaiterServed
