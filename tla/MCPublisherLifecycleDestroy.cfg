SPECIFICATION FairSpec
CONSTANTS
  Apps = {a1}
  Rc = Rc
  Recvs = {r1, r2}
  Keeps = {k1, k2}
  NoThread = NoThread
  Sockets = {s1, s2}
  NoSocket = NoSocket
  Ops = {"connect", "destroy"}
  ReconnectEnabled = TRUE
  MaxRetries = 0
  InitialDelay = 5
  MaxDelay = 5
  Multiplier = 200
  Jitter = FALSE
  MaxCalls = 2
  MaxLosses = 1
PROPERTY DestructorReturns
CHECK_DEADLOCK FALSE
