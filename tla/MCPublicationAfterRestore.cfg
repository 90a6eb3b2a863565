SPECIFICATION FairSpec
CONSTANTS
  Lanes = {l1}
  Workers = {w1}
  MaxSeq = 1
  MaxFence = 5
  MaxGeneration = 2
  MaxParts = 1
  PartCounts = {1}
  MaxFaults = 0
  GCVerified = TRUE
PROPERTIES AcceptedIsPublished
CHECK_DEADLOCK FALSE
