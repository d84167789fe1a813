SPECIFICATION Spec
CONSTANTS
  Calls = {c1, c2}
  NoCall = NoCall
  IdSpace = 3
  OfflineBuffering = FALSE
  Requests <- MCAllRequests
  States <- MCStates
INVARIANT FailureReachesCallback
