----------------------------- MODULE MCLogStore -----------------------------
(* Four records through a channel of two, three more through the reopened   *)
(* log, with every fault between any two of their steps.                   *)
EXTENDS LogStore

MCRecord == 1 .. 7
MCWriterRecord == 1 .. 4
=============================================================================
