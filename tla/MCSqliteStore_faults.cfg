SPECIFICATION Spec
CONSTANTS
  Namespaces = {default, other}
  Branches = {main, side}
  Keys <- MCKeys
  Values = {str}
  Value = str
  IdemKeys = {i1}
  Idem = i1
  Labels = {release}
  Schemas = {}
  Policies = {"last_write_wins"}
  DefaultNs = default
  Main = main
  None = None
  TicksPerMs = 2
  Writes <- MCWrites
  Retractions <- MCRetractions
  Forks = {4}
  Cutoffs = {3}
  TxIds = {1}
  Word = 16
  MaxCalls = 4
  MaxFaults = 2
  Scans <- MCScans
  MaxDate = 6
INVARIANTS AnswersHold DamageBounded RetriesBounded DefaultSeeded ScanAgrees ListsAgree
PROPERTY ImplementsAtomic
CHECK_DEADLOCK FALSE
