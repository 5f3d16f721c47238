CONSTANTS
  InferRows = 2
  Inputs <- MCTables
SPECIFICATION ReaderSpec
CHECK_DEADLOCK FALSE
INVARIANT BoolsOnly
