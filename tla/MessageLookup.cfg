CONSTANTS
  Threads = {t1, t2}
  Root = Root
  Sub = Sub
  K1 = K1
  K2 = K2
  Classes = {Root, Sub}
  superclass <- SuperOf
  chain <- ChainOf
  Categories = {K1, K2}
  classOf <- Extended
  Bases = {{}, {Root}}
  Resolvers = {Sub}
  Nil = Nil
  NoThread = NoThread
  MaxSends = 3
  MaxEdits = 1
  MaxDepth = 4
SPECIFICATION Spec
SYMMETRY Symmetry
INVARIANTS
  CacheCoherent
  LoadOrderWins
  NoEarlyMessage
  ResolverWins
CHECK_DEADLOCK FALSE
