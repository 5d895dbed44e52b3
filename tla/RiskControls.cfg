CONSTANTS
  kamino = kamino
  p1 = p1
  r1 = r1
  r2 = r2
  Protocol <- MCProtocol
  Position <- MCPosition
  Reserve <- MCReserve
  RevertLimit = 2
  MaxReverts = 3
  Net <- MCNet
  Window = 2
  MaxSlot = 4
  MaxEntries = 3
  MaxDrawdown = 2
  MinBalance = 1
  Balance <- MCBalance
SPECIFICATION RiskSpec
SYMMETRY MCSymmetry
INVARIANT SumUnaffectedByPruning
PROPERTY TripIsScopedToRoute
PROPERTY DrawdownTripsOnLoss
