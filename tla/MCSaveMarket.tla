---------------------------- MODULE MCSaveMarket ----------------------------
EXTENDS SaveMarket

\* sol is collateral, usd is lent; the second configuration of sol is invalid and refused.
SolConfig ==
    [optUtil |-> 50, maxUtil |-> 80, ltv |-> 50, bonus |-> 5, maxBonus |-> 20,
     threshold |-> 60, maxThreshold |-> 80, minRate |-> 0, optRate |-> 10, maxRate |-> 50,
     superMaxRate |-> 100, borrowFee |-> 0, flashFee |-> 0, hostPct |-> 0,
     depositLimit |-> 20, borrowLimit |-> 0, protocolLiqFee |-> 10, takeRate |-> 50,
     isolated |-> FALSE, addedWeightBps |-> 0, priceOffsetBps |-> 0,
     attributedOpen |-> 0, attributedClose |-> 0]
UsdConfig ==
    [SolConfig EXCEPT !.borrowFee = 10, !.flashFee = 10, !.hostPct = 50,
                      !.borrowLimit = 20, !.addedWeightBps = 1000, !.isolated = TRUE,
                      !.ltv = 0, !.threshold = 0]

MCReserve == {"sol", "usd"}
MCOwner == {"alice"}
MCConfigs == [r \in MCReserve |-> IF r = "sol" THEN {SolConfig, [SolConfig EXCEPT !.ltv = 70]}
                                  ELSE {UsdConfig}]
Answer(p, s, e) == [price |-> p, smoothed |-> s, extra |-> e]
MCQuotes == [r \in MCReserve |-> IF r = "sol" THEN {Answer(200, 150, {180}), Answer(15, 30, {})}
                                 ELSE {Answer(40, 40, {})}]
MCAmounts == {3, U64Max}
MCTokens == [r \in MCReserve |-> 4]
MCSupplied == [r \in MCReserve |-> IF r = "sol" THEN 11 ELSE 10]
MCPledged == <<[NewCollateral("sol") EXCEPT !.amount = 8]>>
============================================================================
