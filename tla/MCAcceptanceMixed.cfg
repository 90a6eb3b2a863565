SPECIFICATION Spec
CONSTANTS
  Requests = {"a", "b", "c", "d"}
  LaneOf <- MCLaneOf
  ProjectOf <- MCProjectOf
  Content <- MCContent
  Lanes = {"l1", "l2"}
  Projects = {"p"}
  Events = {1, 2}
  NoEvent = 0
  Workflows = {f1, f2}
  MaxUploadAttempts = 2
  MaxRevision = 2
  MaxGeneration = 2
  MaxLapses = 1
CONSTRAINT Cases
PROPERTIES RejectedWereStale
CHECK_DEADLOCK FALSE
