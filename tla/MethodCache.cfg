CONSTANTS
  Threads = {t1, t2}
  s1 = s1
  s2 = s2
  s3 = s3
  s4 = s4
  Sels = {s1, s2, s3, s4}
  hash <- Colliding
  NoThread = NoThread
  NoSel = NoSel
  NoImp = NoImp
  INIT_CACHE_SIZE = 4
  garbage_threshold = 5
  MaxSends = 5
  MaxEdits = 1
  MaxFlushes = 1
SPECIFICATION Spec
SYMMETRY Symmetry
INVARIANTS
  NoWildRead
  DispatchIsCurrent
  ArraysSound
CHECK_DEADLOCK FALSE
