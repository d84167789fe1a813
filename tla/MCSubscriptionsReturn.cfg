SPECIFICATION FairSpec
CONSTANTS
  Calls = {c1, c2}
  NoCall = NoCall
  t1 = t1
  t2 = t2
  Topics = {t1}
  NoTopic = NoTopic
  Matches <- MCExact
  Requests <- MCSubscribe
  IdSpace = 3
PROPERTY CallsReturn
CHECK_DEADLOCK FALSE
