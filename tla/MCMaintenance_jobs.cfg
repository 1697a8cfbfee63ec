SPECIFICATION MaintenanceSpec
CONSTANTS
  Namespaces = {default, copy}
  Branches = {main}
  Keys = {name}
  Values = {a, b}
  IdemKeys <- MCIdemKeys
  Labels = {}
  Schemas = {}
  Policies = {"last_write_wins"}
  DefaultNs = default
  Main = main
  None = None
  TicksPerMs = 2
  Requests = {r1, r2}
  Times <- MCTimes
  MaxJump = 1
  MaxBulk = 2
  MaxCalls = 5
  Intervals <- MCIntervals
  Cutoffs = {2, 15}
  TxIds = {}
  EntityOf <- MCEntityOf
  Retentions <- MCRetentions
  Walls = {3}
  Word = 16
  MaxJobs = 3
  Worker = r1
  Copy = copy
CONSTRAINT WhoDoesWhat
SYMMETRY Symmetry
INVARIANTS RetentionBounds RetentionSparesLatest RestoredOnce
PROPERTY AgeSpares
CHECK_DEADLOCK FALSE
