SPECIFICATION FairSpec
CONSTANTS
  NsPerUsec = 2
  MaxNs = 4
  MaxSignals = 3
  MaxEdits = 2
  QueueMax = 2
CHECK_DEADLOCK FALSE
INVARIANTS
  TypeOK
  AnswerIsFresh
PROPERTIES
  ReloadEnds
