SPECIFICATION Spec
CONSTANTS
  Calls = {c1, c2}
  NoCall = NoCall
  t1 = t1
  t2 = t2
  Topics = {t1, t2}
  NoTopic = NoTopic
  Matches <- MCMatches
  Requests <- MCRequests
  IdSpace = 3
SYMMETRY CallSymmetry
INVARIANTS
  TypeOK
  AcksMatchWaiters
  SubscriptionsHold
  
CHECK_DEADLOCK FALSE
