CONSTANTS
  p1 = p1
  p2 = p2
  p3 = p3
  p4 = p4
  p5 = p5
  v1 = v1
  v2 = v2
  Ptrs <- MCPtrs
  Null = Null
  Kinds = {"f64"}
  Values <- MCValues
  MaxGrows = 2
  MaxParts = 2
  MayFail = FALSE
SPECIFICATION ViewsSpec
SYMMETRY Symmetry
INVARIANTS AccessorInv ColumnsReadBack BuffersOwned
