SPECIFICATION FairSpec
CONSTANTS
  Jobs = {j1, j2}
  Clients = {c1, c2}
  None = None
  MaxPlan = 2
  MaxCommands = 2
  HistoryCap = 1
INVARIANTS
  OnePlace
  PlanOrder
  TrueOutcome
  OneChild
PROPERTIES
  ArchivedIsFinal
  KilledStaysCancelled
  EveryJobSettles
  ImplementsQueue
