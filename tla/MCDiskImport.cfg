CONSTANTS
  r1 = r1  r2 = r2
  raw = raw
  data = data
  Procs <- MCProcs
  Keys <- MCKeys
  Disk = data
  MaxSize = 2
  Formats <- MCFormats
  NoFormat = NoFormat
  NoProc = NoProc
  MaxTrouble = 2
SPECIFICATION Spec
INVARIANTS ImportedPlansClean
CHECK_DEADLOCK FALSE
