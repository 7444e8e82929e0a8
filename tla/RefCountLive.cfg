CONSTANTS
  Threads = {t1, t2}
  Refs = {r1, r2, r3}
  Classes = {NP, Raw}
  RawClasses = {Raw}
  NoThread = NoThread
  NoRef = NoRef
  RC_HALF = 1
  RC_PINNED = 8
  LLSC = FALSE
  MaxOps = 4
SPECIFICATION FairSpec
PROPERTIES
  IsaMonotone
  Progress
  ImplementsLifetime
CHECK_DEADLOCK FALSE
