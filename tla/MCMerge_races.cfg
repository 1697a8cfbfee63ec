SPECIFICATION MergeSpec
CONSTANTS
  Namespaces = {default, other}
  Branches = {main, side}
  Keys = {name, email}
  Values = {a, b}
  IdemKeys = {}
  Labels = {}
  Schemas = {}
  Policies = {"last_write_wins", "first_write_wins", "error_on_conflict"}
  DefaultNs = default
  Main = main
  None = None
  TicksPerMs = 2
  Requests = {r1}
  Times <- MCTimes
  MaxJump = 1
  MaxBulk = 2
  MaxCalls = 3
  Intervals <- MCIntervals
  Cutoffs = {}
  TxIds = {}
  Plain = a
  Email = email
  Early = 1
  Late = 3
  Mergers = {m1}
  MaxMerges = 1
CONSTRAINTS InOther SideIntoMain
INVARIANTS TxRecorded HeadOnBranch TargetKept MergeCarriesNewest DiffMissesNothing
CHECK_DEADLOCK FALSE
