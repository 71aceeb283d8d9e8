SPECIFICATION Spec
CONSTANTS
  http = http
  control = control
  nothing = nothing
  unknown = unknown
  Fds <- MCFds
  Start = 3
  MaxGiven = 2
  Words <- MCWords
  Empty = nothing
  Unnamed = unknown
  FdNames <- MCFdNames
  Absent = Absent
INVARIANTS
  TypeOK
  InstallKeepsFiles
  NamesLineUp
