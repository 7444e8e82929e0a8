CONSTANTS
  t1 = t1
  t2 = t2
  a = a
  b = b
  c = c
  P = P
  L = L
  Q = Q
  M1 = M1
  M2 = M2
  Threads = {t1, t2}
  Objects = {a, b, c}
  Hosts = {a}
  Keys = {"key"}
  owners <- Owners
  Used <- SomePolicies
  Filled <- Places
  mainThread = t1
  Cells = {P, L, Q, M1, M2}
  CppObjects = {Q, M1, M2}
  local <- Local
  stripe <- Stripe
  Nil = Nil
  NoThread = NoThread
  MaxCalls = 3
SPECIFICATION FairSpec
INVARIANTS
  RefsExact
  NoUseAfterFree
  NothingLeftBehind
  NoTornStruct
PROPERTIES
  CallsReturn
CHECK_DEADLOCK FALSE
