SPECIFICATION MCSpec
CONSTANTS
  Parsers = {"p1", "p2"}
  Natives = {"n1", "n2"}
  Limit = 3
  Parse = 1
  More = 1
  Reservation = 3
  Machines = {"runtime", "alerts", "issues", "deliveries", "access", "catalog", "queries", "aggregates", "live", "cache", "queues", "turns"}
INVARIANTS
  TypesOK BudgetIsExact NoSleeperForgotten ChildrenAreOwned GateInv
  AlertsAreExact IssuesAreExact SendsAreBounded IdentitiesAreKept SnapshotsAreWhole CatalogIsHeld
  QueriesAreExact QueryTasksAreKept AggregatesAreExact StreamIsWhole CacheIsAccounted BatcherIsAccounted
PROPERTIES EndedStaysEnded
CHECK_DEADLOCK FALSE
