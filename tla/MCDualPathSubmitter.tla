------------------------ MODULE MCDualPathSubmitter -------------------------
(* Two sets of timeouts, in ticks of 100 ms: the daemon's (800, 1500 and   *)
(* 1500 ms), where a client decides, and clients slower than the call,     *)
(* where its own timer does.  No schedule, as in main.rs, and schedules    *)
(* with and without a Jito leader in the window of slot 0 or slot 3.       *)
EXTENDS DualPathSubmitter

CONSTANT none

MCTimeouts == {[staked |-> 8, jito |-> 15, submit |-> 15],
               [staked |-> 4, jito |-> 4, submit |-> 3]}

MCSchedule == {none, {}, {2}, {3}}
=============================================================================
