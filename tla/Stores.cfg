SPECIFICATION StoresSpec
CONSTANTS
  Writers = {w1, w2}
  Accounts = {a, b, c}
  NewAccount = n
  Locks = {run, cache}
  MaxForeign = 1
  Commanders = {p1, p2}
  Workspaces = {wa, wb}
  MaxCommands = 3
  Recorders = {r1, r2}
  Processes = {q1, q2}
  AccountKeys = {k}
  MaxSamples = 3
  HourTicks = 3
  ResetTolerance = 2
  MaxTick = 3
  MaxRecords = 2
INVARIANTS
  StoresAgree
PROPERTIES
  UpdatesBuildOnTheFile
  ActiveAccountStays
  WritersEnd
  OnlyRemovalRemoves
  RecordKeepsHistory
  PeaksAreKept
CHECK_DEADLOCK FALSE
