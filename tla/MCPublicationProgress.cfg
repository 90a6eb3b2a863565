SPECIFICATION FairSpec
CONSTANTS
  Lanes = {l1}
  Workers = {w1, w2}
  MaxSeq = 1
  MaxFence = 4
  MaxGeneration = 1
  MaxParts = 1
  PartCounts = {1}
  MaxFaults = 2
  GCVerified = TRUE
PROPERTIES AcceptedIsPublished OrphansAreCollected
CHECK_DEADLOCK FALSE
