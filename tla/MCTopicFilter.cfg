SPECIFICATION Spec
CONSTANTS
  Letters <- MCLetters
  MaxTopic = 5
  MaxFilter = 5
INVARIANTS
  NeverTooMuch
  MissesTwoCases
CHECK_DEADLOCK FALSE
