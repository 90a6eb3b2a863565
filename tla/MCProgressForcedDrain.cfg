SPECIFICATION PairSpec
CONSTANTS
  Parsers = {"p1", "p2"}
  Natives = {"n1", "n2"}
  Limit = 3
  Parse = 1
  More = 1
  Reservation = 3
  Machines = {}
PROPERTIES WaitersAnswered
CHECK_DEADLOCK FALSE
