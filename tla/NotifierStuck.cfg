SPECIFICATION SpecCallers
CONSTANTS
  c1 = c1
  c2 = c2
  Callers <- MCCallers
  ModuleCallers <- MCModuleCallers
  Fds <- MCFds
  QueueMax = 1
  MaxOps = 2
PROPERTIES
  BarrierReturns
