SPECIFICATION RestoreSpec
CONSTANTS
  Parsers = {"p1", "p2"}
  Natives = {"n1", "n2"}
  Limit = 3
  Parse = 1
  More = 1
  Reservation = 3
  Machines = {"catalog"}
PROPERTIES ExpiredRowsArePurged
CHECK_DEADLOCK FALSE
