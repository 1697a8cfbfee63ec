SPECIFICATION Spec
CONSTANTS
  Namespaces = {default, other}
  Branches = {main}
  Keys = {name}
  Values = {str, int}
  Value = str
  IdemKeys = {}
  Labels = {}
  Policies = {"last_write_wins"}
  DefaultNs = default
  Main = main
  None = None
  TicksPerMs = 2
  Requests = {r1, r2}
  Times <- MCTimes
  MaxJump = 1
  MaxBulk = 2
  MaxCalls = 2
  Schemas <- MCTyped
  Intervals <- MCIntervals
  Cutoffs = {2}
  TxIds = {}
INVARIANT SchemaEnforced
CHECK_DEADLOCK FALSE
