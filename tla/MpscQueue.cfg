SPECIFICATION FairSpec
CONSTANTS
  Producers = {p1, p2}
  Items = {i1, i2, i3, i4}
  Uninit = Uninit
  Capacity = 2
INVARIANTS RingInv
PROPERTIES RefusedOnlyWhenFull ClaimedIsDelivered ImplementsMailbox
CHECK_DEADLOCK FALSE
