CONSTANTS
  Threads = {t1, t2}
  Classes = {Root, A, B, C}
  Root = Root
  A = A
  B = B
  C = C
  superclass <- ChainSuper
  Messages <- FamilyMessages
  Trivial = {Root}
  MayFork = TRUE
  Nil = Nil
  NoThread = NoThread
  MaxMessages = 5
SPECIFICATION FairSpec
INVARIANTS
  HierarchyOrder
  OneInitializer
  NoFatal
PROPERTIES
  Progress
CHECK_DEADLOCK FALSE
