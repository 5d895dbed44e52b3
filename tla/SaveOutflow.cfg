SPECIFICATION Spec
CONSTANTS
    Wad = 100
    U64Max = 60
    SlotsPerYear = 1
    MintUnit = 1
    WindowDuration = 2
    MaxOutflow = 4
    FirstSlot = 1
    MaxSlot = 3
    MaxInstructions = 3
    MaxObligationReserves = 2
    MaxLiquidatableValue = 2
    Reserve <- MCReserve
    Owner <- MCOwner
    Configs <- MCConfigs
    Quotes <- MCQuotes
    Amounts <- MCAmounts
    Tokens <- MCTokens
    Supplied <- MCSupplied
    Pledged <- MCPledged
INVARIANT OutflowBelowTwiceLimit
