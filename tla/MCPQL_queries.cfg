SPECIFICATION Spec
CONSTANTS
  Namespaces = {default}
  Branches = {main}
  Keys <- MCKeys
  Values = {"str", "null"}
  IdemKeys = {}
  Labels = {}
  Schemas = {}
  Policies = {"last_write_wins"}
  DefaultNs = default
  Main = main
  None = None
  TicksPerMs = 2
  Requests = {r1}
  Times <- MCTimes
  MaxJump = 1
  MaxBulk = 2
  MaxCalls = 3
  Intervals <- MCIntervals
  Cutoffs = {}
  TxIds = {}
  Exprs <- MCExprs
  Height <- MCHeight
  Queries <- MCQueries
  Letters = {"a", "b"}
  Spelling <- MCSpelling
  Patterns <- MCPatterns
CONSTRAINT WhoDoesWhat
INVARIANTS NothingPushedAway RowsAsAsked AsofAgrees LikeIsWildcard ListedIsFound
CHECK_DEADLOCK FALSE
