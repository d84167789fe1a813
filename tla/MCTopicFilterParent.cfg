SPECIFICATION Spec
CONSTANTS
  Letters <- MCLetters
  MaxTopic = 5
  MaxFilter = 5
INVARIANTS
  MatchesMqtt
CHECK_DEADLOCK FALSE
