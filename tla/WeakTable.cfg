CONSTANTS
  o1 = o1
  l1 = l1
  o2 = o2
  l2 = l2
  o3 = o3
  l3 = l3
  l4 = l4
  l5 = l5
  Objects = {o1, o2, o3}
  Locations = {l1, l2, l3, l4, l5}
  Nil = Nil
  holds <- SomeShared
  hash <- Clustered
  WEAK_INLINE_COUNT = 2
  MIN_BUCKETS = 16
  MIN_REFERRERS = 4
  COMPACT_SIZE = 16
SPECIFICATION Spec
INVARIANTS
  ListsEveryLocation
  TableSound
CHECK_DEADLOCK FALSE
