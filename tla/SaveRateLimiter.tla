-------------------------- MODULE SaveRateLimiter --------------------------
(***************************************************************************)
(* The sliding-window outflow limiter of the Save SDK                       *)
(* (patches/solend-sdk/src/state/rate_limiter.rs).  Time is cut into        *)
(* windows of WindowDuration slots; an outflow is admitted when the part of *)
(* the previous window still inside the sliding window, taken as evenly     *)
(* spread, the current window and the new quantity stay within MaxOutflow.  *)
(***************************************************************************)
EXTENDS SaveMath, FiniteSetsExt

CONSTANTS
    WindowDuration,   \* slots per window; 0 disables the limiter
    MaxOutflow,       \* tokens per window
    FirstSlot,        \* the slot the market is created in
    MaxSlot           \* bound on the clock

ASSUME WindowAssumption == WindowDuration \in Nat /\ MaxOutflow \in Nat
ASSUME MaxSlotAssumption == MaxSlot \in Nat /\ FirstSlot \in 0 .. MaxSlot

VARIABLES
    slot,       \* the chain's clock
    limiter,    \* RateLimiter: prev_qty, window_start and cur_qty
    outflow     \* what was admitted in each slot (history; no code keeps it)

limiterVars == <<slot, limiter, outflow>>

WindowStart(s) == (s \div WindowDuration) * WindowDuration

New(s) ==
    [prevQty     |-> 0,
     windowStart |-> IF WindowDuration # 0 THEN WindowStart(s) ELSE s,
     curQty      |-> 0]

\* Plausible bug: the last slot of a window already rolls it.
RolledEarly(l, s) ==
    LET next == l.windowStart + WindowDuration
    IN  IF s + 1 < next THEN l
        ELSE [prevQty |-> IF s = next THEN l.curQty ELSE 0,
              windowStart |-> WindowStart(s), curQty |-> 0]

\* RateLimiter::_update: roll the windows forward to the one slot s is in.
Rolled(l, s) ==
    LET start == WindowStart(s)
        next  == l.windowStart + WindowDuration
    IN  IF start < next THEN l
        ELSE [prevQty     |-> IF start = next THEN l.curQty ELSE 0,
              windowStart |-> start,
              curQty      |-> 0]

\* Only meaningful on a limiter already rolled to slot s.
CurrentOutflow(l, s) ==
    LET left == FromU64(WindowDuration) - FromU64(s - l.windowStart + 1)
    IN  TryMul(TryDivInt(left, WindowDuration), l.prevQty) + l.curQty

\* remaining_outflow also rolls the stored limiter; RemainingOutflow is its answer.
RemainingOutflow(l, s) ==
    IF WindowDuration = 0 THEN FromU64(U64Max)
    ELSE LET used == CurrentOutflow(Rolled(l, s), s)
         IN  IF used > FromU64(MaxOutflow) THEN 0 ELSE FromU64(MaxOutflow) - used

Admits(l, s, qty) ==
    \/ WindowDuration = 0
    \/ /\ s >= l.windowStart
       /\ CurrentOutflow(Rolled(l, s), s) + qty <= FromU64(MaxOutflow)

Updated(l, s, qty) ==
    IF WindowDuration = 0 THEN l
    ELSE [Rolled(l, s) EXCEPT !.curQty = @ + qty]

LimiterInit ==
    /\ slot = FirstSlot
    /\ limiter = New(FirstSlot)
    /\ outflow = [s \in 0 .. MaxSlot |-> 0]

\* RateLimiter::update accepts qty; a refusal aborts the instruction.
Update(qty) ==
    /\ Admits(limiter, slot, qty)
    /\ limiter' = Updated(limiter, slot, qty)
    /\ outflow' = [outflow EXCEPT ![slot] = @ + qty]
    /\ UNCHANGED slot

Tick ==
    /\ slot < MaxSlot
    /\ slot' = slot + 1
    /\ UNCHANGED <<limiter, outflow>>

\* Any caller: an outflow is any Decimal.
LimiterNext == Tick \/ \E qty \in Nat : Update(qty)

LimiterSpec == LimiterInit /\ [][LimiterNext]_limiterVars

LimiterTypeOK ==
    /\ slot \in 0 .. MaxSlot
    /\ limiter \in [prevQty : Nat, windowStart : Nat, curQty : Nat]
    /\ outflow \in [0 .. MaxSlot -> Nat]

\* What left in the slots [start, start + window_duration).
WindowOutflow(start) ==
    SumFunctionOnSet(outflow, {t \in 0 .. MaxSlot : t >= start /\ t < start + WindowDuration})

(***************************************************************************)
(* The limiter's two quantities are what their comments say: the sums of    *)
(* all that left in its window and in the one before it, whatever is asked  *)
(* for and however many windows pass without a call (rate_limiter.rs:22-28, *)
(* RateLimiter::_update); and no window has let out more than max_outflow.  *)
(***************************************************************************)
LimiterRemembersOutflow ==
    WindowDuration # 0 =>
        /\ limiter.curQty = WindowOutflow(limiter.windowStart)
        /\ limiter.prevQty = WindowOutflow(limiter.windowStart - WindowDuration)
        /\ \A s \in 0 .. MaxSlot : WindowOutflow(WindowStart(s)) <= FromU64(MaxOutflow)

\* What left in the slots [s - window_duration, s].
SlidingOutflow(s) == SumFunctionOnSet(outflow, {t \in 0 .. s : t + WindowDuration >= s})

(* The outflow over the slots [s - window_duration, s] that end at any slot *)
(* s never exceeds twice max_outflow (RateLimiter::update with its rolled   *)
(* windows).  Exactly twice is reached: see OutflowBelowTwiceLimit.         *)
OutflowWithinTwiceLimit ==
    WindowDuration # 0 => \A s \in 0 .. slot : SlidingOutflow(s) <= 2 * FromU64(MaxOutflow)

(* rate_limiter.rs:13-15: "guarantee: at any point, the outflow between     *)
(* [cur_slot - slot.window_duration, cur_slot] is less than 2x max_outflow."*)
OutflowBelowTwiceLimit ==
    WindowDuration # 0 /\ MaxOutflow # 0 => SlidingOutflow(slot) < 2 * FromU64(MaxOutflow)
============================================================================
