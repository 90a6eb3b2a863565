SPECIFICATION MCSpec
CONSTANTS
  Parsers = {"p1", "p2"}
  Natives = {"n1", "n2"}
  Limit = 3
  Parse = 1
  More = 1
  Reservation = 3
  Machines = {"catalog"}
INVARIANTS OccurrencesOutliveSnapshots
CHECK_DEADLOCK FALSE
