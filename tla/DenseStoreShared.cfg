SPECIFICATION DenseSpec
CONSTANTS
  Readers = {r1, r2}
  NumBlocks = 4
  BlockBytes <- MCBlockBytes
  CapacityBytes = 5
  Overlap = TRUE
  MaxRequests = 4
INVARIANTS WithinBudget NothingUncounted
PROPERTY CloseStopsWorker
CHECK_DEADLOCK FALSE
