SPECIFICATION Spec
CONSTANTS
    Variant <- MCVariant
    Collaterals <- MCCollaterals
    Holdings <- MCHoldings
    MaxEdits = 0
INVARIANT HostFeeReceiverAsDocumented
CHECK_DEADLOCK FALSE
