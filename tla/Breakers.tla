------------------------------ MODULE Breakers ------------------------------
(***************************************************************************)
(* The four circuit breakers of gyrfalcon-strategy: one BreakerState value *)
(* that every submission decision consults and that submission outcomes,   *)
(* balance checks and lag checks update (crates/strategy/src/breakers.rs). *)
(*                                                                         *)
(* A HashMap whose missing entry reads as a default is a total function    *)
(* here: a route with no counter has count 0, a protocol with no flag is   *)
(* not halted, and a route is out of rotation iff it is in the set.        *)
(***************************************************************************)
EXTENDS Integers

CONSTANTS
  Protocol,     \* the lending protocols
  Position,     \* position (obligation) ids
  Reserve,      \* flash-loan reserves a route may borrow from
  RevertLimit,  \* risk.consecutive_revert_limit, passed to every record_revert
  MaxReverts    \* bound on a route's counter (u32 in the code)

\* Config::validate rejects a limit of zero.
ASSUME RevertLimitAssumption == RevertLimit \in Nat \ {0}
ASSUME MaxRevertsAssumption  == MaxReverts \in Nat /\ RevertLimit <= MaxReverts

VARIABLES
  drawdownTripped,     \* whole engine, cleared by rearm_drawdown only
  treasuryBelowFloor,  \* whole engine, set from a balance check
  syncLagHalted,       \* per protocol, set from a lag check
  consecutiveReverts,  \* reverts of a route since it last landed or was re-armed
  outOfRotation        \* routes_taken_out_of_rotation

flags == <<drawdownTripped, treasuryBelowFloor, syncLagHalted>>
vars  == <<drawdownTripped, treasuryBelowFloor, syncLagHalted,
           consecutiveReverts, outOfRotation>>

\* A route is (protocol, position, flash reserve).
RouteKey == [protocol : Protocol, position : Position, reserve : Reserve]

TypeOK ==
  /\ drawdownTripped \in BOOLEAN
  /\ treasuryBelowFloor \in BOOLEAN
  /\ syncLagHalted \in [Protocol -> BOOLEAN]
  /\ consecutiveReverts \in [RouteKey -> 0 .. MaxReverts]
  /\ outOfRotation \in SUBSET RouteKey

Init ==
  /\ drawdownTripped = FALSE
  /\ treasuryBelowFloor = FALSE
  /\ syncLagHalted = [p \in Protocol |-> FALSE]
  /\ consecutiveReverts = [r \in RouteKey |-> 0]
  /\ outOfRotation = {}

-----------------------------------------------------------------------------
(* Outcomes of submissions.                                                *)

\* Plausible bug: the limit is tested with > instead of >=.
RecordRevertLate(route, limit) ==
  /\ consecutiveReverts[route] < MaxReverts
  /\ consecutiveReverts' = [consecutiveReverts EXCEPT ![route] = @ + 1]
  /\ outOfRotation' = IF consecutiveReverts'[route] > limit
                      THEN outOfRotation \cup {route} ELSE outOfRotation
  /\ UNCHANGED flags

\* Plausible bug: reverts are counted by position, not by the whole route.
RecordRevertByPosition(route, limit) ==
  LET same == {r \in RouteKey : r.position = route.position}
  IN  /\ \A r \in same : consecutiveReverts[r] < MaxReverts
      /\ consecutiveReverts' = [r \in RouteKey |->
            consecutiveReverts[r] + IF r \in same THEN 1 ELSE 0]
      /\ outOfRotation' = outOfRotation \cup
            {r \in same : consecutiveReverts'[r] >= limit}
      /\ UNCHANGED flags

RecordRevert(route, limit) ==
  /\ consecutiveReverts[route] < MaxReverts
  /\ consecutiveReverts' = [consecutiveReverts EXCEPT ![route] = @ + 1]
  /\ outOfRotation' = IF consecutiveReverts'[route] >= limit
                      THEN outOfRotation \cup {route} ELSE outOfRotation
  /\ UNCHANGED flags

\* Plausible bug: a landing takes one revert off the streak instead of ending it.
RecordSuccessDecrement(route) ==
  /\ consecutiveReverts' = [consecutiveReverts EXCEPT ![route] = @ - 1]
  /\ outOfRotation' = outOfRotation \ {route}
  /\ UNCHANGED flags

RecordSuccess(route) ==
  /\ consecutiveReverts' = [consecutiveReverts EXCEPT ![route] = 0]
  /\ outOfRotation' = outOfRotation \ {route}
  /\ UNCHANGED flags

-----------------------------------------------------------------------------
(* Operator commands and caller-updated flags.                             *)

RearmRoute(route) ==
  /\ consecutiveReverts' = [consecutiveReverts EXCEPT ![route] = 0]
  /\ outOfRotation' = outOfRotation \ {route}
  /\ UNCHANGED flags

RearmAllRoutes ==
  /\ consecutiveReverts' = [r \in RouteKey |-> 0]
  /\ outOfRotation' = {}
  /\ UNCHANGED flags

SetTreasuryBelowFloor(below) ==
  /\ treasuryBelowFloor' = below
  /\ UNCHANGED <<drawdownTripped, syncLagHalted, consecutiveReverts, outOfRotation>>

SetDrawdownTripped ==
  /\ drawdownTripped' = TRUE
  /\ UNCHANGED <<treasuryBelowFloor, syncLagHalted, consecutiveReverts, outOfRotation>>

RearmDrawdown ==
  /\ drawdownTripped' = FALSE
  /\ UNCHANGED <<treasuryBelowFloor, syncLagHalted, consecutiveReverts, outOfRotation>>

SetProtocolSyncLagHalted(protocol, halted) ==
  /\ syncLagHalted' = [syncLagHalted EXCEPT ![protocol] = halted]
  /\ UNCHANGED <<drawdownTripped, treasuryBelowFloor, consecutiveReverts, outOfRotation>>

\* Nothing is persisted: a new process starts from BreakerState::new().
Restart ==
  /\ drawdownTripped' = FALSE
  /\ treasuryBelowFloor' = FALSE
  /\ syncLagHalted' = [p \in Protocol |-> FALSE]
  /\ consecutiveReverts' = [r \in RouteKey |-> 0]
  /\ outOfRotation' = {}

-----------------------------------------------------------------------------
(* The decision: the first breaker that halts, in this order.              *)

Allows(protocol, route) ==
  CASE drawdownTripped -> "Drawdown"
    [] ~drawdownTripped /\ treasuryBelowFloor -> "TreasuryFloor"
    [] ~drawdownTripped /\ ~treasuryBelowFloor /\ syncLagHalted[protocol] -> "SyncLag"
    [] ~drawdownTripped /\ ~treasuryBelowFloor /\ ~syncLagHalted[protocol]
         /\ route \in outOfRotation -> "ConsecutiveRevert"
    [] OTHER -> "Allowed"

-----------------------------------------------------------------------------
Next ==
  \/ \E r \in RouteKey : RecordRevert(r, RevertLimit)
  \/ \E r \in RouteKey : RecordSuccess(r)
  \/ \E r \in RouteKey : RearmRoute(r)
  \/ RearmAllRoutes
  \/ \E b \in BOOLEAN : SetTreasuryBelowFloor(b)
  \/ SetDrawdownTripped
  \/ RearmDrawdown
  \/ \E p \in Protocol, b \in BOOLEAN : SetProtocolSyncLagHalted(p, b)
  \/ Restart

Spec == Init /\ [][Next]_vars

-----------------------------------------------------------------------------
(* A revert is the business of one route: no step takes two routes out of  *)
(* rotation, and the step that takes one out brings that route's counter   *)
(* to the limit and leaves every other alone (record_revert is scoped to   *)
(* "that route only").                                                     *)
TripIsScopedToRoute ==
  [][\A r \in outOfRotation' \ outOfRotation :
        /\ outOfRotation' = outOfRotation \cup {r}
        /\ consecutiveReverts'[r] >= RevertLimit
        /\ \A q \in RouteKey \ {r} : consecutiveReverts'[q] = consecutiveReverts[q]]_vars
=============================================================================
