SPECIFICATION ProgressSpec
CONSTANTS
  Parsers = {"p1", "p2"}
  Natives = {"n1", "n2"}
  Limit = 3
  Parse = 1
  More = 1
  Reservation = 3
  Machines = {"runtime", "alerts", "issues", "deliveries", "access", "catalog", "queries", "live", "cache", "batcher"}
PROPERTIES ProcessesSettle AlertingSettles JobsSettle ReadersSettle
CHECK_DEADLOCK FALSE
