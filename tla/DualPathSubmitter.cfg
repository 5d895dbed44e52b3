CONSTANTS
  none = none
  NoSchedule = none
  Schedule <- MCSchedule
  Slot = {0, 3}
  LeadersAhead = 2
  Timeouts <- MCTimeouts
SPECIFICATION FairSpec
INVARIANT WaitBoundedByStakedLeg
INVARIANT LandingLostOnlyToOtherLeg
PROPERTY SubmitReturns
PROPERTY ImplementsSubmitter
