CONSTANTS
  Kilo = 4
  MantissaBits = 4
  IntBits = 12
  Overflow <- MCOverflow
  Wishes <- MCWishes
  Templates <- MCTemplates
  Parsed <- MCParsed
  Default <- MCDefault
  Observable <- MCObservable
  Keys <- MCKeys
  Entries <- MCEntries
  Null = Null
  Gone = Gone
  MaxActs = 2
SPECIFICATION FairSpec
INVARIANTS TypeOK RefreshShowsDrift
PROPERTIES LastLayerWins OnlyExactEdits Converges
CHECK_DEADLOCK FALSE
