SPECIFICATION Spec
CONSTANTS
  Apps = {a1}
  Rc = Rc
  Recvs = {r1, r2}
  Keeps = {k1, k2}
  NoThread = NoThread
  Sockets = {s1, s2}
  NoSocket = NoSocket
  Ops = {"connect", "disconnect", "reconnect", "destroy"}
  ReconnectEnabled = TRUE
  MaxRetries = 1
  InitialDelay = 2
  MaxDelay = 5
  Multiplier = 200
  Jitter = FALSE
  MaxCalls = 2
  MaxLosses = 2
SYMMETRY Interchange
INVARIANTS
  TypeOK
  ConnectedIsWatched
  RecoveryUnderway
  
CHECK_DEADLOCK FALSE
