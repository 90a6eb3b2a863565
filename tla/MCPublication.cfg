SPECIFICATION Spec
CONSTANTS
  Lanes = {l1}
  Workers = {w1, w2}
  MaxSeq = 2
  MaxFence = 4
  MaxGeneration = 2
  MaxParts = 2
  PartCounts = {0, 1, 2}
  MaxFaults = 2
  GCVerified = TRUE
SYMMETRY Symmetry
CONSTRAINT Cases
INVARIANTS Inductive TypeOK CatalogReadable PreparedIsDurable
PROPERTIES TombstonesStay OutputIsStable ImplementsLog
CHECK_DEADLOCK FALSE
