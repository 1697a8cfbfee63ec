SPECIFICATION FairSpec
CONSTANTS
  Clients = {c1}
  Capacity = 2
  Wire = 1
  Ns = ns
  Attr = attr
  Here = here
  There = there
  Fields <- MCFields
  Names = {here, there}
  Events <- MCEvents
  Filters <- MCFilters
  None = None
  MaxEvents = 4
  MaxMessages = 1
INVARIANTS InOrder OnlyLagLoses
PROPERTIES EventsArrive HandlerReturns SenderEnds
CHECK_DEADLOCK FALSE
