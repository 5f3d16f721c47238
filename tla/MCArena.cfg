CONSTANTS
  Clients = {c1, c2, c3}
  Requests = {0, 2, 3}
  Base = 1
  PageUnits = 4
  InitPages = 1
  MaxPages = 3
  AddrSpace = 12
  NoClient = NoClient
SPECIFICATION Spec
INVARIANTS
  IInv
  BlocksAccountedFor
  Coalesced
  FullyReclaimed
  ContentsPreserved
PROPERTIES
  GrowthAnnounced
  ImplementsContract
  CallsReturn
