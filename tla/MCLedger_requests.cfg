SPECIFICATION Spec
CONSTANTS
  Namespaces = {default, other}
  Branches = {main, side}
  Keys = {name}
  Values = {str}
  Value = str
  IdemKeys = {i1}
  Labels = {release}
  Policies = {"last_write_wins"}
  DefaultNs = default
  Main = main
  None = None
  TicksPerMs = 2
  Requests = {r1, r2}
  Times <- MCTimes
  MaxJump = 1
  MaxBulk = 2
  MaxCalls = 4
  Schemas = {}
  Intervals <- MCIntervals
  Cutoffs = {1, 2}
  TxIds = {1}
CONSTRAINT OneBranchOrNoBulks
INVARIANTS TxRecorded CountCovers RetrySafe HeadOnBranch
PROPERTIES FactsPermanent PastAnswers GcSparesYoung
SYMMETRY Sym
CHECK_DEADLOCK FALSE
