SPECIFICATION Spec
CONSTANTS
    Variant <- MCVariant
    Collaterals <- MCCollaterals
    Holdings <- MCHoldings
    MaxEdits = 0
INVARIANT FlashCallDecodes
CHECK_DEADLOCK FALSE
