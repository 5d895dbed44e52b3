------------------------- MODULE DualPathSubmitter --------------------------
(***************************************************************************)
(* DualPathSubmitter::submit: a staked-QUIC leg and a Jito leg raced under *)
(* one timeout, the Jito leg left out when the leader schedule shows no    *)
(* Jito leader in the window (crates/submit/src/dual_path.rs).             *)
(*                                                                         *)
(* A leg is an HTTP request with a client timeout of its own.  The remote  *)
(* endpoint answers when it likes, or never.  A leg that has resolved is   *)
(* noticed at the next poll of the call (Return); when both have, select!  *)
(* picks either.  tokio's timeout polls the race before its own timer, so  *)
(* the timer wins only when no leg has resolved.                           *)
(*                                                                         *)
(* Time is counted in ticks of 100 ms since the call began.  The runtime   *)
(* is prompt: a woken future is polled, and a due timer fires, before the  *)
(* next tick.                                                              *)
(***************************************************************************)
EXTENDS Integers

CONSTANTS
  Slot,           \* slots a candidate may carry
  Schedule,       \* leader schedules the submitter may be built with
  NoSchedule,     \* the schedule of DualPathSubmitter::new
  LeadersAhead,   \* leaders_ahead
  Timeouts        \* timeouts it may be built with: [staked, jito, submit], those
                  \* of the two HTTP clients and the one passed to new

ASSUME SlotAssumption     == Slot \subseteq Nat /\ LeadersAhead \in Nat
ASSUME ScheduleAssumption == Schedule \subseteq (SUBSET Nat) \cup {NoSchedule}
ASSUME TimeoutAssumption  ==
  Timeouts \subseteq [staked : Nat \ {0}, jito : Nat \ {0}, submit : Nat \ {0}]

VARIABLES
  timeouts,  \* the timeouts in force, in ticks
  schedule,  \* leader_schedule: the set of Jito slots, or NoSchedule
  phase,     \* of the submit() call
  path,      \* state of each leg
  clock,     \* ticks since the call began
  outcome    \* the SubmitOutcome returned, "none" before

vars == <<timeouts, schedule, phase, path, clock, outcome>>

Path          == {"staked", "jito"}
PathOutcome   == {"Landed", "Reverted", "TimedOut"}
SubmitOutcome == {"Landed", "Reverted", "NotIncluded"}

Init ==
  /\ timeouts \in Timeouts
  /\ schedule \in Schedule
  /\ phase = "idle"
  /\ path = [p \in Path |-> "unsent"]
  /\ clock = 0
  /\ outcome = "none"

-----------------------------------------------------------------------------
\* Plausible bug: both clients are built with the Jito timeout.
ClientTimeoutJito(p) == timeouts.jito

\* reqwest's per-client timeout.
ClientTimeout(p) == timeouts[p]

\* The legs that have resolved and wait to be polled.
Ready == {p \in Path : path[p] \in PathOutcome}

HasJitoLeaderInWindow(current) ==
  \E s \in current .. current + LeadersAhead : s \in schedule

ShouldSendJito(current) ==
  schedule = NoSchedule \/ HasJitoLeaderInWindow(current)

\* The start of submit(): the legs are sent.
Submit(current) ==
  /\ phase = "idle"
  /\ phase' = "pending"
  /\ path' = [p \in Path |-> IF p = "jito" /\ ~ShouldSendJito(current)
                             THEN "unsent" ELSE "inflight"]
  /\ clock' = 0
  /\ UNCHANGED <<timeouts, schedule, outcome>>

\* The endpoint answers with a success status (Landed) or another (Reverted).
Answer(p, o) ==
  /\ path[p] = "inflight"
  /\ o \in {"Landed", "Reverted"}
  /\ path' = [path EXCEPT ![p] = o]
  /\ UNCHANGED <<timeouts, schedule, phase, clock, outcome>>

\* The request fails: refused, reset, unreachable.
TransportError(p) ==
  /\ path[p] = "inflight"
  /\ path' = [path EXCEPT ![p] = "TimedOut"]
  /\ UNCHANGED <<timeouts, schedule, phase, clock, outcome>>

\* The leg's own HTTP client gives up.
HttpTimeout(p) ==
  /\ path[p] = "inflight"
  /\ clock >= ClientTimeout(p)
  /\ path' = [path EXCEPT ![p] = "TimedOut"]
  /\ UNCHANGED <<timeouts, schedule, phase, clock, outcome>>

Tick ==
  /\ phase = "pending"
  /\ clock < timeouts.submit
  /\ Ready = {}
  /\ \A p \in Path : path[p] = "inflight" => clock < ClientTimeout(p)
  /\ clock' = clock + 1
  /\ UNCHANGED <<timeouts, schedule, phase, path, outcome>>

-----------------------------------------------------------------------------
\* Plausible bug: a leg that timed out is reported as a revert.
ToSubmitOutcomeRevert(o) == IF o = "TimedOut" THEN "Reverted" ELSE o

ToSubmitOutcome(o) == IF o = "TimedOut" THEN "NotIncluded" ELSE o

\* The futures that have not resolved are dropped when the call returns.
DropPending ==
  [p \in Path |-> IF path[p] = "inflight" THEN "dropped" ELSE path[p]]

\* One resolved leg decides the call.
Return(p) ==
  /\ phase = "pending"
  /\ p \in Ready
  /\ phase' = "returned"
  /\ outcome' = ToSubmitOutcome(path[p])
  /\ path' = DropPending
  /\ UNCHANGED <<timeouts, schedule, clock>>

\* Plausible bug: the timer is polled before the race.
ElapsedFirst ==
  /\ phase = "pending"
  /\ clock = timeouts.submit
  /\ phase' = "returned"
  /\ outcome' = "NotIncluded"
  /\ path' = DropPending
  /\ UNCHANGED <<timeouts, schedule, clock>>

\* Plausible bug: the call has no timeout of its own.
ElapsedNever == FALSE /\ UNCHANGED vars

\* The submit timeout elapses with no leg resolved.
Elapsed ==
  /\ phase = "pending"
  /\ clock = timeouts.submit
  /\ Ready = {}
  /\ phase' = "returned"
  /\ outcome' = "NotIncluded"
  /\ path' = DropPending
  /\ UNCHANGED <<timeouts, schedule, clock>>

\* The caller has the outcome; nothing of the call remains in the submitter.
Take ==
  /\ phase = "returned"
  /\ phase' = "idle"
  /\ path' = [p \in Path |-> "unsent"]
  /\ clock' = 0
  /\ outcome' = "none"
  /\ UNCHANGED <<timeouts, schedule>>

-----------------------------------------------------------------------------
Next ==
  \/ \E s \in Slot : Submit(s)
  \/ \E p \in Path, o \in {"Landed", "Reverted"} : Answer(p, o)
  \/ \E p \in Path : TransportError(p)
  \/ \E p \in Path : HttpTimeout(p)
  \/ Tick
  \/ \E p \in Path : Return(p)
  \/ Elapsed
  \/ Take

Spec == Init /\ [][Next]_vars

(* Timers fire and woken futures are polled; endpoints owe no answer, and  *)
(* nobody has to call submit().                                            *)
Fairness ==
  /\ WF_vars(Tick)
  /\ \A p \in Path : WF_vars(HttpTimeout(p))
  /\ WF_vars(\E p \in Path : Return(p))
  /\ WF_vars(Elapsed)

FairSpec == Spec /\ Fairness

-----------------------------------------------------------------------------
(* A landing is never lost to the clock: if a leg answered Landed and the  *)
(* call returned something else, the other leg had resolved by then too,   *)
(* and select! happened to poll it first.                                  *)
LandingLostOnlyToOtherLeg ==
  \A p \in Path :
    phase = "returned" /\ path[p] = "Landed" /\ outcome # "Landed"
      => \E q \in Path \ {p} : ToSubmitOutcome(path[q]) = outcome

(* The Jito leg is never given more time than the staked leg: the staked   *)
(* client's own timeout resolves the race, so no call waits longer than    *)
(* that, however long the Jito client and the call itself would wait.      *)
WaitBoundedByStakedLeg == clock <= timeouts.staked

(* Every call returns, whatever the endpoints do.                          *)
SubmitReturns == phase = "pending" ~> phase = "returned"

-----------------------------------------------------------------------------
(* The submitter implements the Submitter contract: answers are what the   *)
(* legs resolved to, the call has expired when the clock reached the       *)
(* timeout.                                                                *)
Contract == INSTANCE Submitter WITH
  answers <- {path[p] : p \in Ready},
  expired <- clock = timeouts.submit

(* Every behaviour of the race is a behaviour of the contract.             *)
ImplementsSubmitter == Contract!Spec
=============================================================================
