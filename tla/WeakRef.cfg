CONSTANTS
  Threads = {t1, t2}
  o1 = o1
  o2 = o2
  Objects = {o1, o2}
  A = A
  B = B
  Classes = {A, B}
  Shared = {l1}
  Private = {l2}
  Nil = Nil
  NoThread = NoThread
  tableOf <- TwoTables
  CustomRR = {B}
  classOf <- TwoClasses
  MaxCalls = 4
  MaxStack = 3
SPECIFICATION Spec
SYMMETRY Symmetry
INVARIANTS
  RegistrationExact
  DeadStaysDead
  WeakIsInitialized
  NoDeadlock
CHECK_DEADLOCK FALSE
