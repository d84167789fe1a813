SPECIFICATION FairSpec
CONSTANTS
  Apps = {a1}
  Rc = Rc
  Recvs = {r1, r2}
  Keeps = {k1, k2}
  NoThread = NoThread
  Sockets = {s1, s2, s3}
  NoSocket = NoSocket
  Ops = {"connect"}
  ReconnectEnabled = TRUE
  MaxRetries = 0
  InitialDelay = 2
  MaxDelay = 5
  Multiplier = 200
  Jitter = TRUE
  MaxCalls = 1
  MaxLosses = 1
INVARIANT BackoffBounded
PROPERTIES
  LossNoticed
  LossRecovered
CHECK_DEADLOCK FALSE
