SPECIFICATION MaintenanceSpec
CONSTANTS
  Namespaces = {default, copy}
  Branches = {main}
  Keys = {name}
  Values = {a, b}
  IdemKeys <- MCIdemKeys
  Labels = {}
  Schemas = {}
  Policies = {"last_write_wins"}
  DefaultNs = default
  Main = main
  None = None
  TicksPerMs = 3
  Requests = {r1}
  Times <- MCTimes
  MaxJump = 1
  MaxBulk = 1
  MaxCalls = 4
  Intervals <- MCIntervals
  Cutoffs = {2}
  TxIds = {}
  EntityOf <- MCEntityOf
  Retentions = {}
  Walls = {}
  Word = 16
  MaxJobs = 2
  Worker = r1
  Copy = copy
CONSTRAINT WhoDoesWhat
INVARIANT RestoreAnswers
CHECK_DEADLOCK FALSE
