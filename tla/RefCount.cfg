CONSTANTS
  Threads = {t1, t2, t3}
  Refs = {r1, r2, r3, r4}
  Classes = {NP, Raw}
  RawClasses = {Raw}
  NoThread = NoThread
  NoRef = NoRef
  RC_HALF = 1
  RC_PINNED = 8
  LLSC = TRUE
  MaxOps = 6
SPECIFICATION Spec
SYMMETRY Symmetry
INVARIANTS
  TypeOK
  DeallocAtLastRelease
  NoUseAfterFree
  RetainCountExact
  SideTableAsserts
CHECK_DEADLOCK FALSE
