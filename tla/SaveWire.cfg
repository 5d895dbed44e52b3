SPECIFICATION Spec
CONSTANTS
    Variant <- MCVariant
    Collaterals <- MCCollaterals
    Holdings <- MCHoldings
    MaxEdits = 3
INVARIANTS
    DecodedIsBuilt
    CallReachesItsOperation
    AccountReadsBack
CHECK_DEADLOCK FALSE
