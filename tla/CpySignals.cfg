SPECIFICATION FairSpec
CONSTANTS
  hup = hup
  usr = usr
  term = term
  reload = reload
  shutdown = shutdown
  t1 = t1
  t2 = t2
  Signals <- MCSignals
  Fatal <- MCFatal
  Watchers <- MCWatchers
  Tasks <- MCTasks
  None = None
  Named <- MCApart
  MaxKills = 2
CHECK_DEADLOCK FALSE
INVARIANTS
  TypeOK
  NobodySleepsOnASignal
  OnceAndInOrder
PROPERTIES
  NoDeathWhileWatched
  SignalsReported
