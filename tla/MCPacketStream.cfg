SPECIFICATION Spec
CONSTANTS
  t1 = t1
  t2 = t2
  Threads = {t1, t2}
  NoThread = NoThread
  None = None
  Half = 2
  MaxDigits = 5
  Cap = 2
  MaxReopen = 1
  Messages <- MCMessages
INVARIANTS
  TypeOK
  ReadsWhatWasSent
  FieldsSurvive
  MalformedMeansTooLong
PROPERTIES
  StopEndsReading
  SentIsRead
  SendEnds
CHECK_DEADLOCK FALSE
