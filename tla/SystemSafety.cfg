SPECIFICATION Spec
CONSTANTS
  a1 = a1
  a2 = a2
  a3 = a3
  name = name
  c2 = c2
  d1 = d1
  d2 = d2
  Actors = {a1, a2, a3}
  Users = {u1}
  Closers = {c1, c2}
  Dispatchers = {d1}
  Capacity = 2
  Generations = 16
  AliasOf <- TwoNamed
  NoAlias = NoAlias
  CalledOn <- Outside
  Environment = {"on_kill"}
  Homes <- OnOne
  Nobody = Nobody
INVARIANTS SlotsAccounted HandlesUnique HandleReachesOwnActor AliasFindsActor ShutdownFinalizesActors
CHECK_DEADLOCK FALSE
SYMMETRY Symmetry
