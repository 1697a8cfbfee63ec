SPECIFICATION MergeSpec
CONSTANTS
  Namespaces = {default}
  Branches = {main, side}
  Keys = {name}
  Values = {a}
  IdemKeys = {}
  Labels = {}
  Schemas = {}
  Policies = {"last_write_wins", "first_write_wins"}
  DefaultNs = default
  Main = main
  None = None
  TicksPerMs = 2
  Requests = {r1}
  Times <- MCTimes
  MaxJump = 1
  MaxBulk = 0
  MaxCalls = 3
  Intervals <- MCIntervals
  Cutoffs = {}
  TxIds = {}
  Plain = a
  Email = name
  Early = 1
  Late = 3
  Mergers = {m1}
  MaxMerges = 1
PROPERTY LastWriteWins
CHECK_DEADLOCK FALSE
