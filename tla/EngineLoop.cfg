CONSTANTS
  p1 = p1
  r1 = r1
  r2 = r2
  default = default
  Position <- OnePosition
  FlashReserve <- TwoReserves
  DefaultReserve = default
  RevertLimit = 2
  Capacity = 1
  FeedSlot = {0, 3}
  MaxSlot = 4
SPECIFICATION FairSpec
INVARIANT TypeOK
INVARIANT BreakerCountsStreak
INVARIANT LockoutFollowsReverts
INVARIANT AttemptsAccountedFor
INVARIANT HaltNeverSubmits
PROPERTY SubmissionResolves
CHECK_DEADLOCK FALSE
