SPECIFICATION Spec
CONSTANTS
  hup = hup
  term = term
  chld = chld
  reload = reload
  shutdown = shutdown
  children = children
  Signals <- MCSignals
  Fatal <- MCFatal
  Watchers <- MCWatchers
  Named <- MCNamed
  Base <- MCBase
  NoMask = NoMask
  Nested = FALSE
  MaxLost = 1
CHECK_DEADLOCK FALSE
PROPERTIES
  NoDeathWhileWatched
