CONSTANTS
  r1 = r1
  r2 = r2
  r3 = r3
  o1 = o1
  debt = debt
  coll = coll
  m1 = m1
  None = none
  Absent = absent
  Obligation <- MCObligation
  KaminoReserve <- MCKaminoReserve
  Market <- MCMarket
  ReserveData <- MCReserveData
  MarketData <- MCMarketData
  ObligationData <- MCObligationData
  MaxTip = 2
  Reserve <- ThreeReserves
  Mint = {"usdc", "sol"}
  Depth = {20, 30}
  RawFee = {0, 4, 600, 1844674}
  U64Max = 1844674
  MaxRepay = {0, 10, 20, 40}
  FlashDepth = 30
  TipPct = 40
  MinTip = 0
  MaxTipTx = 100000
  MinProfit = 50000
  SimMinProfit = 85000
  Amount <- MCAmount
  Cu = {1400, 1401}
  Bytes = {1232, 1233}
  MaxTxCu = 1400
  MaxTxBytes = 1232
  FlashReserve <- ThreeReserves
  Net = {5, 8, 9}
  Tip = {2, 3, 4, 6}
  Balance = {0, 1}
  MaxWindow = 3
  MinProfitUsd = 5
  MaxTipPerTx = 5
  MaxTipPerSlot = 6
  MinBalance = 1
SPECIFICATION StrategySpec
INVARIANT HealthyHasNoCloseFactor
INVARIANT CandidateMatchesBook
INVARIANT RepayWithinLimits
INVARIANT RoutedNetsMost
INVARIANT RefusedIsUnprofitable
INVARIANT LargestFittingSize
INVARIANT BindingExplainsSize
INVARIANT OneFirePerReserve
INVARIANT ConflictLosesToBetter
INVARIANT SpendWithinCaps
INVARIANT CommittedIsFiredTips
INVARIANT BudgetDeferralStands
PROPERTY SizingReturns
