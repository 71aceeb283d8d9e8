SPECIFICATION StoreSpec
CONSTANTS
  pipe1 = pipe1
  pipe2 = pipe2
  listener = listener
  http = http
  state = state
  nothing = nothing
  unknown = unknown
  stored = stored
  bell = bell
  Files <- MCFiles
  Sockets <- MCSockets
  Start = 3
  Words <- MCWords
  Empty = nothing
  Unnamed = unknown
  Improper = {bell}
  FdNames <- MCFdNames
  ManagerNames <- MCManagerNames
  Polls = {Absent, FALSE}
  Stored = stored
  Absent = Absent
  MaxFdsPerMessage = 2
  QueueMax = 2
  MaxRequests = 3
  MaxLives = 3
SYMMETRY FileSymmetry
CHECK_DEADLOCK FALSE
INVARIANTS
  StoreTypeOK
PROPERTIES
  KeptUntilRemoved
