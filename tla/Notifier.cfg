SPECIFICATION FairSpec
CONSTANTS
  c1 = c1
  c2 = c2
  Callers <- MCCallers
  ModuleCallers <- MCModuleCallers
  Fds <- MCFds
  QueueMax = 2
  MaxOps = 3
INVARIANTS
  DescriptorsOwned
  NothingOutlivesItsCall
  BarrierMeansProcessed
  QueueInOrder
PROPERTIES
  KeepsPromise
  PipesDrain
  BarrierReturns
