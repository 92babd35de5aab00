SPECIFICATION Spec
CONSTANTS
  Items = {1, 2}
  NoItem = NoItem
  Capacity = 2
  Posters = {p1}
  Killers = {k1}
  Wakers = {w1, w2}
  w1 = w1
  d1 = d1
  d2 = d2
  Dispatchers = {d1, d2}
  Owner = d1
  NoDispatcher = NoDispatcher
  Home <- HomeBoth
CHECK_DEADLOCK FALSE
INVARIANTS OneActorCall
