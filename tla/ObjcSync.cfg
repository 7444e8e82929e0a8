CONSTANTS
  Threads = {t1, t2, t3}
  Objects = {o1, o2}
  o1 = o1
  o2 = o2
  Blocks = {b1, b2}
  Lists = {1}
  listOf <- OneList
  order <- FixedOrder
  UnbalancedExits = TRUE
  NoThread = NoThread
  NoBlock = NoBlock
  NoObject = NoObject
  MaxDepth = 2
  MaxEnters = 3
SPECIFICATION FairSpec
INVARIANTS
  BlocksSound
PROPERTIES
  CallsReturn
  ImplementsLocks
CHECK_DEADLOCK FALSE
