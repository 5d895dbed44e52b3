CONSTANTS
  p1 = p1
  r1 = r1
  r2 = r2
  default = default
  Position <- OnePosition
  FlashReserve <- OneReserve
  DefaultReserve = default
  RevertLimit = 2
  Capacity = 1
  FeedSlot = {0, 2}
  MaxSlot = 3
SPECIFICATION Spec
INVARIANT LockedOutRouteIsNotSubmitted
CHECK_DEADLOCK FALSE
