CONSTANTS
  Objects = {a, b}
  POOL_BOUNDARY = B
  COUNT = 2
  Environments = {{}, {"MissingPools"}, {"PoolAllocation"}, {"MissingPools", "PoolAllocation"}}
  MaxCalls = 7
  MaxNesting = 2
SPECIFICATION Spec
INVARIANTS
  PopRestores
  NoLostRelease
  PageLifetime
  WhileCanBeIf
CHECK_DEADLOCK FALSE
