--------------------------- MODULE MCRiskControls ---------------------------
(* Two routes that share a position; up to three outcomes over more slots    *)
(* than the window holds.                                                  *)
EXTENDS RiskControls, TLC

CONSTANTS kamino, p1, r1, r2

MCProtocol == {kamino}
MCPosition == {p1}
MCReserve  == {r1, r2}
MCNet      == {-2, 1}
MCBalance  == {0, 1}

\* No operator tells reserves apart.
MCSymmetry == Permutations(MCReserve)
=============================================================================
