SPECIFICATION FairSpec
CONSTANTS
  a1 = a1
  a2 = a2
  a3 = a3
  name = name
  c2 = c2
  d1 = d1
  d2 = d2
  Actors = {a1, a2}
  Users = {u1}
  Closers = {c1, c2}
  Dispatchers = {d1, d2}
  Capacity = 2
  Generations = 16
  AliasOf <- NoneNamed
  NoAlias = NoAlias
  CalledOn <- OneInside
  Environment = {"post", "pending", "panic"}
  Homes <- OnTwo
  Nobody = Nobody
PROPERTIES ShutdownCompletes
CHECK_DEADLOCK FALSE
