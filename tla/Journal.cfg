SPECIFICATION FairSpec
CONSTANTS
  h1 = h1
  h2 = h2
  w1 = w1
  w2 = w2
  w3 = w3
  None = None
  Handlers <- MCHandlers
  Writers <- MCWriters
  Own <- MCOwn
  Fds <- MCFds
  Sizes <- MCSizes
  DatagramMax = 2
  QueueMax = 2
INVARIANTS
  TypeOK
  DescriptorsOwned
  EntriesWhole
PROPERTIES
  CallReturns
