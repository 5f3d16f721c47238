CONSTANTS
  InferRows = 2
  Inputs <- MCInputs
SPECIFICATION ReaderSpec
CHECK_DEADLOCK FALSE
INVARIANTS RowsIndependentOfChunks InferredHolds
