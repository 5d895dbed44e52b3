--------------------------- MODULE SizingStepDown ---------------------------
(***************************************************************************)
(* size_position_with_feasibility (crates/strategy/src/sizing.rs): start   *)
(* from the smaller of close factor and flash depth and, while the         *)
(* transaction for that size does not fit, step the size down by a tenth   *)
(* of where it started (at least 1).                                       *)
(*                                                                         *)
(* A route is any RouteFeasibilityProvider: the compute units and the      *)
(* transaction lengths it gives for one size say nothing of the next, so   *)
(* each check draws its own.                                               *)
(***************************************************************************)
EXTENDS Integers

CONSTANTS
  Amount,      \* close factors and flash depths
  Cu,          \* compute unit estimates of a route
  Bytes,       \* lengths of a serialized transaction
  MaxTxCu,     \* MAX_TX_CU
  MaxTxBytes   \* MAX_TX_BYTES

ASSUME SizeAssumption == Amount \subseteq Nat
ASSUME LimitAssumption ==
  Cu \subseteq Nat /\ Bytes \subseteq Nat /\ MaxTxCu \in Nat /\ MaxTxBytes \in Nat

VARIABLES
  pc,                  \* "idle", "checking" in the loop, or "returned"
  closeFactor, depth,  \* candidate.close_factor_max_repay, flash_source_available
  tables,              \* the AltManager has lookup tables
  current, stepDowns,  \* current_size, step_downs
  lastOverflow,        \* last_overflow_constraint, or "none"
  rejected,            \* sizes found not to fit
  lastRejected,        \* the last of them, and why
  decision             \* the SizingDecision returned

sizingVars == <<pc, closeFactor, depth, tables, current, stepDowns, lastOverflow,
                rejected, lastRejected, decision>>

Overflow   == {"ComputeBudget", "ByteLimit"}
Constraint == {"CloseFactor", "FlashDepth"} \cup Overflow

InitialSize == IF closeFactor < depth THEN closeFactor ELSE depth

Decision(final, alt, steps, constraint) ==
  [initial |-> InitialSize, final |-> final, usedAlt |-> alt,
   stepDowns |-> steps, binding |-> constraint]

NoDecision == [initial |-> 0, final |-> 0, usedAlt |-> FALSE,
               stepDowns |-> 0, binding |-> "none"]

NoRejection == [size |-> 0, why |-> "none"]

SizingInit ==
  /\ pc = "idle"
  /\ closeFactor \in Amount /\ depth \in Amount /\ tables \in BOOLEAN
  /\ current = 0 /\ stepDowns = 0
  /\ lastOverflow = "none"
  /\ rejected = {} /\ lastRejected = NoRejection
  /\ decision = NoDecision

-----------------------------------------------------------------------------
StepDecrement == IF InitialSize >= 10 THEN InitialSize \div 10 ELSE 1

\* check_feasibility: compute units, then the plain length, then the length
\* with lookup tables if there are any.
CheckFeasibility(cu, plain, packed) ==
  CASE cu > MaxTxCu -> "ComputeBudget"
    [] cu <= MaxTxCu /\ plain <= MaxTxBytes -> "fits"
    [] cu <= MaxTxCu /\ plain > MaxTxBytes /\ tables /\ packed <= MaxTxBytes -> "fitsWithAlt"
    [] OTHER -> "ByteLimit"

\* What bounds a size that was not stepped down.
Ceiling == IF InitialSize = closeFactor THEN "CloseFactor" ELSE "FlashDepth"

BeginZero ==
  /\ pc = "idle"
  /\ InitialSize = 0
  /\ decision' = Decision(0, FALSE, 0, IF closeFactor = 0 THEN "CloseFactor" ELSE "FlashDepth")
  /\ pc' = "returned"
  /\ UNCHANGED <<closeFactor, depth, tables, current, stepDowns, lastOverflow,
                 rejected, lastRejected>>

Begin ==
  /\ pc = "idle"
  /\ InitialSize > 0
  /\ current' = InitialSize
  /\ pc' = "checking"
  /\ UNCHANGED <<closeFactor, depth, tables, stepDowns, lastOverflow,
                 rejected, lastRejected, decision>>

Fits(verdict) ==
  /\ pc = "checking"
  /\ verdict \in {"fits", "fitsWithAlt"}
  /\ decision' = Decision(current, verdict = "fitsWithAlt", stepDowns,
                          IF current < InitialSize THEN lastOverflow ELSE Ceiling)
  /\ pc' = "returned"
  /\ UNCHANGED <<closeFactor, depth, tables, current, stepDowns, lastOverflow,
                 rejected, lastRejected>>

\* Plausible bug: the constraint of the first, largest size is kept.
OverflowsKeepingFirst(verdict) ==
  /\ pc = "checking"
  /\ verdict \in Overflow
  /\ lastOverflow' = IF lastOverflow = "none" THEN verdict ELSE lastOverflow
  /\ stepDowns' = stepDowns + 1
  /\ rejected' = rejected \cup {current}
  /\ lastRejected' = [size |-> current, why |-> verdict]
  /\ UNCHANGED <<closeFactor, depth, tables>>

\* The transaction does not fit; the loop gives up or goes on.
Overflows(verdict) ==
  /\ pc = "checking"
  /\ verdict \in Overflow
  /\ lastOverflow' = verdict
  /\ stepDowns' = stepDowns + 1
  /\ rejected' = rejected \cup {current}
  /\ lastRejected' = [size |-> current, why |-> verdict]
  /\ UNCHANGED <<closeFactor, depth, tables>>

\* Plausible bug: instead of giving up, the search is tried again from the top.
GiveUpRetries(verdict) ==
  /\ pc = "checking"
  /\ verdict \in Overflow
  /\ current <= StepDecrement
  /\ current' = InitialSize /\ stepDowns' = 0
  /\ lastOverflow' = "none"
  /\ rejected' = {} /\ lastRejected' = NoRejection
  /\ UNCHANGED <<pc, closeFactor, depth, tables, decision>>

GiveUp(verdict) ==
  /\ Overflows(verdict)
  /\ current <= StepDecrement
  /\ decision' = Decision(0, FALSE, stepDowns + 1, verdict)
  /\ pc' = "returned"
  /\ UNCHANGED current

\* Plausible bug: each step takes a tenth of the current size.
StepDownShrinking(verdict) ==
  /\ Overflows(verdict)
  /\ current > StepDecrement
  /\ current' = current - (IF current >= 10 THEN current \div 10 ELSE 1)
  /\ UNCHANGED <<pc, decision>>

StepDown(verdict) ==
  /\ Overflows(verdict)
  /\ current > StepDecrement
  /\ current' = current - StepDecrement
  /\ UNCHANGED <<pc, decision>>

\* One pass of the loop, on whatever the route gives for this size.
Check ==
  \E cu \in Cu, plain \in Bytes, packed \in Bytes :
    LET verdict == CheckFeasibility(cu, plain, packed)
    IN  Fits(verdict) \/ GiveUp(verdict) \/ StepDown(verdict)

\* The caller takes the decision; the next call is for another candidate.
Take ==
  /\ pc = "returned"
  /\ pc' = "idle"
  /\ closeFactor' \in Amount /\ depth' \in Amount /\ tables' \in BOOLEAN
  /\ current' = 0 /\ stepDowns' = 0
  /\ lastOverflow' = "none"
  /\ rejected' = {} /\ lastRejected' = NoRejection
  /\ decision' = NoDecision

SizingNext ==
  \/ BeginZero
  \/ Begin
  \/ Check
  \/ Take

SizingSpec == SizingInit /\ [][SizingNext]_sizingVars

(* The call is a loop in one thread: it goes on while it can.              *)
FairSpec == SizingSpec /\ WF_sizingVars(BeginZero \/ Begin \/ Check)

-----------------------------------------------------------------------------
\* The sizes the loop would visit, from the largest.
Grid == {s \in 1 .. InitialSize : (InitialSize - s) % StepDecrement = 0}

(* The decision is the largest size of the grid that fits: every larger    *)
(* one was rejected, and a size of zero means that all of them were.       *)
LargestFittingSize ==
  pc = "returned" => /\ rejected = {s \in Grid : s > decision.final}
                     /\ decision.final \in Grid \cup {0}

(* The binding constraint explains the size: the overflow that rejected    *)
(* the smallest size tried, the one next above the decision, exactly when  *)
(* the size was stepped down, and otherwise the smaller of the ceilings; a *)
(* lookup table is only named when there is one and it was needed.         *)
BindingExplainsSize ==
  pc = "returned" =>
    /\ decision.binding \in Overflow <=> decision.final < InitialSize
    /\ decision.binding \in Overflow =>
         /\ lastRejected.why = decision.binding
         /\ lastRejected.size \in rejected
         /\ lastRejected.size <= decision.final + StepDecrement
    /\ decision.binding = "CloseFactor" => closeFactor <= depth
    /\ decision.binding = "FlashDepth" => depth < closeFactor
    /\ decision.usedAlt => tables /\ decision.final > 0

(* Whatever the route answers, the call returns.                           *)
SizingReturns == pc = "checking" ~> pc = "returned"
=============================================================================
