---------------------------- MODULE MCEngineLoop ----------------------------
(* One position routed through either of two reserves; up to MaxSlot       *)
(* updates whose slots come in any order; a log channel of one record.     *)
EXTENDS EngineLoop

CONSTANTS p1, r1, r2, default

OnePosition == {p1}
OneReserve  == {r1}
TwoReserves == {r1, r2}
=============================================================================
