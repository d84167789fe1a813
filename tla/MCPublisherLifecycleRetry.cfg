SPECIFICATION Spec
CONSTANTS
  Apps = {a1}
  Rc = Rc
  Recvs = {r1, r2}
  Keeps = {k1, k2}
  NoThread = NoThread
  Sockets = {s1, s2, s3}
  NoSocket = NoSocket
  Ops = {"connect"}
  ReconnectEnabled = TRUE
  MaxRetries = 0
  InitialDelay = 2
  MaxDelay = 5
  Multiplier = 200
  Jitter = FALSE
  MaxCalls = 1
  MaxLosses = 2
SYMMETRY Interchange
INVARIANT AlwaysRecovering
CHECK_DEADLOCK FALSE
