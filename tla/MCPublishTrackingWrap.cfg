SPECIFICATION Spec
CONSTANTS
  Calls = {c1, c2, c3}
  NoCall = NoCall
  IdSpace = 3
  OfflineBuffering = TRUE
  Requests <- MCRequests
  States <- MCStates
SYMMETRY CallSymmetry
INVARIANTS
  TableMatchesWaiters
  AckedWasReceived
  PacketIdNonZero
PROPERTY KeepsContract
