SPECIFICATION FairSpec
CONSTANTS
  main = main
  child = child
  Procs <- MCProcs
  Main = main
  UsecPerMs = 2
  Intervals <- MCIntervals
  Asked <- MCAsked
  None = None
  Divisors <- MCDivisors
  Late = 1
  ManagerLate = 1
CHECK_DEADLOCK FALSE
INVARIANTS
  TypeOK
  ResetComes
  LateSlotTolerated
  NoFlood
  OwnSocketClosed
PROPERTIES
  FailureNoticed
