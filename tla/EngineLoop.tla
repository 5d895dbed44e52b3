----------------------------- MODULE EngineLoop -----------------------------
(***************************************************************************)
(* The event loop of the gyrfalcon daemon (crates/gyrfalcon-bin/main.rs):  *)
(* one account update at a time is turned into at most one submission,     *)
(* whose outcome updates the breakers, the dashboard and the liquidation   *)
(* log.  It composes Breakers, the Submitter contract (implemented by      *)
(* DualPathSubmitter) and AsyncLiquidationWriter.                          *)
(*                                                                         *)
(* Abstracted: which updates breach (the Kamino adapter) and what sizing,  *)
(* routing and simulation make of a candidate.  Any update may or may not  *)
(* breach, and any candidate may be turned down or routed through any of   *)
(* the reserves the flash router knows.                                    *)
(***************************************************************************)
EXTENDS Integers, Sequences, FiniteSets

CONSTANTS
  Position,        \* obligations the feed reports
  FlashReserve,    \* reserves the flash router may select
  DefaultReserve,  \* Pubkey::default(), the reserve of the pre-routing check
  RevertLimit,     \* risk.consecutive_revert_limit
  Capacity,        \* buffer_size of the log channel
  FeedSlot,        \* slots the feed's updates carry, in any order
  MaxSlot          \* bound on slot_counter

ASSUME DefaultReserveAssumption == DefaultReserve \notin FlashReserve
ASSUME SlotAssumption           == MaxSlot \in Nat /\ FeedSlot \subseteq Nat
ASSUME LimitAssumption          == RevertLimit \in 1 .. MaxSlot
ASSUME ChannelAssumption        == Capacity \in Nat \ {0}

VARIABLES
  halt, mode,                   \* --halt, and the effective submit mode
  pc, slotCounter, routed,      \* the loop: state, slot_counter, routed candidate
  dash,                         \* counters of DashboardState
  terminal,                     \* terminal outcomes so far, in order
  drawdownTripped, treasuryBelowFloor, syncLagHalted,
  consecutiveReverts, outOfRotation,                            \* Breakers
  phase, answers, expired, outcome,                             \* Submitter
  sender, queue, task, hand, file, accepted, refused, lost      \* log writer

loopVars    == <<halt, mode, pc, slotCounter, routed, dash, terminal>>
breakerVars == <<drawdownTripped, treasuryBelowFloor, syncLagHalted,
                 consecutiveReverts, outOfRotation>>
submitVars  == <<phase, answers, expired, outcome>>
logVars     == <<sender, queue, task, hand, file, accepted, refused, lost>>
vars        == <<loopVars, breakerVars, submitVars, logVars>>

Brk == INSTANCE Breakers WITH
  Protocol <- {"Kamino"}, Reserve <- FlashReserve \cup {DefaultReserve},
  MaxReverts <- MaxSlot

Sub == INSTANCE Submitter

Log == INSTANCE AsyncLiquidationWriter WITH
  Record <- 0 .. MaxSlot, IoMayFail <- FALSE

Mode == {"observe", "live"}

Route(position, reserve) ==
  [protocol |-> "Kamino", position |-> position, reserve |-> reserve]

Dashboard == [currentSlot : 0 .. MaxSlot, breaches : Nat, attempted : Nat,
              landed : Nat, reverted : Nat]

TypeOK ==
  /\ halt \in BOOLEAN /\ mode \in Mode
  /\ pc \in {"recv", "submitting", "exited"}
  /\ slotCounter \in 0 .. MaxSlot
  /\ routed \in Brk!RouteKey
  /\ dash \in Dashboard
  /\ \A i \in DOMAIN terminal :
       terminal[i] \in [route : Brk!RouteKey, outcome : Sub!SubmitOutcome,
                        slot : 0 .. MaxSlot]
  /\ Brk!TypeOK
  /\ Sub!TypeOK
  /\ Log!TypeOK

-----------------------------------------------------------------------------
\* Plausible bug: a --mode on the command line overrides --halt.
EffectiveModeCliFirst(halted, cli, config) ==
  CASE cli # "unset" -> cli
    [] cli = "unset" /\ halted -> "observe"
    [] OTHER -> config

\* effective_mode: --halt, then --mode, then the configuration.
EffectiveMode(halted, cli, config) ==
  CASE halted -> "observe"
    [] ~halted /\ cli # "unset" -> cli
    [] OTHER -> config

Init ==
  /\ halt \in BOOLEAN
  /\ \E cli \in Mode \cup {"unset"}, config \in Mode :
       mode = EffectiveMode(halt, cli, config)
  /\ pc = "recv"
  /\ slotCounter = 0
  /\ \E p \in Position : routed = Route(p, DefaultReserve)
  /\ dash = [currentSlot |-> 0, breaches |-> 0, attempted |-> 0,
             landed |-> 0, reverted |-> 0]
  /\ terminal = <<>>
  /\ Brk!Init
  /\ Sub!Init
  /\ Log!Init

-----------------------------------------------------------------------------
\* slot_counter = raw_acc.slot.max(slot_counter + 1)
NextSlot(raw) == IF raw > slotCounter + 1 THEN raw ELSE slotCounter + 1

\* The top of the loop body: the slot counter and the dashboard's slot.
Receive(raw, breaches) ==
  /\ pc = "recv"
  /\ NextSlot(raw) <= MaxSlot
  /\ slotCounter' = NextSlot(raw)
  /\ dash' = [dash EXCEPT !.currentSlot = NextSlot(raw), !.breaches = @ + breaches]

\* An update of an unwatched program, or one that is not a breach.
SkipUpdate(raw) ==
  /\ Receive(raw, 0)
  /\ UNCHANGED <<halt, mode, pc, routed, terminal, breakerVars, submitVars, logVars>>

\* A breach that is not submitted: a breaker halts it, it has no size, no
\* flash source or too little profit, the simulation rejects it, or the
\* engine only observes.
DropCandidate(raw) ==
  /\ Receive(raw, 1)
  /\ UNCHANGED <<halt, mode, pc, routed, terminal, breakerVars, submitVars, logVars>>

\* The key of the breaker check, made before a flash source is known.
CheckKey(position) == Route(position, DefaultReserve)

\* A breach that passes the breakers, sizing and simulation in live mode.
SubmitCandidate(raw, position, reserve) ==
  /\ pc = "recv"
  /\ NextSlot(raw) <= MaxSlot
  /\ Brk!Allows("Kamino", CheckKey(position)) = "Allowed"
  /\ mode = "live"
  /\ slotCounter' = NextSlot(raw)
  /\ dash' = [dash EXCEPT !.currentSlot = NextSlot(raw), !.breaches = @ + 1,
                          !.attempted = @ + 1]
  /\ routed' = Route(position, reserve)
  /\ pc' = "submitting"
  /\ Sub!Submit
  /\ UNCHANGED <<halt, mode, terminal, breakerVars, logVars>>

\* While the loop awaits submit(): a path answers ...
PathAnswers ==
  /\ pc = "submitting"
  /\ \E o \in Sub!PathOutcome : Sub!Answer(o)
  /\ UNCHANGED <<loopVars, breakerVars, logVars>>

\* ... the call's timer fires, or the call returns.
SubmitEnds ==
  /\ pc = "submitting"
  /\ Sub!Expire \/ Sub!Return
  /\ UNCHANGED <<loopVars, breakerVars, logVars>>

\* What a terminal outcome does to the dashboard and to the breakers.
Landed ==
  /\ outcome = "Landed"
  /\ dash' = [dash EXCEPT !.landed = @ + 1]
  /\ Brk!RecordSuccess(routed)

Reverted ==
  /\ outcome = "Reverted"
  /\ dash' = [dash EXCEPT !.reverted = @ + 1]
  /\ Brk!RecordRevert(routed, RevertLimit)

\* Plausible bug: a submission nobody included ends the revert streak.
NotIncludedResets ==
  /\ outcome = "NotIncluded"
  /\ Brk!RecordSuccess(routed)
  /\ UNCHANGED dash

NotIncluded ==
  /\ outcome = "NotIncluded"
  /\ UNCHANGED <<dash, breakerVars>>

\* Plausible bug: an outcome is logged only if it landed.
ResolveLogLanded ==
  /\ pc = "submitting"
  /\ phase = "returned"
  /\ IF outcome = "Landed" THEN Log!TryRecord(slotCounter) ELSE UNCHANGED logVars
  /\ Landed \/ Reverted \/ NotIncluded
  /\ terminal' = Append(terminal, [route |-> routed, outcome |-> outcome,
                                   slot |-> slotCounter])
  /\ pc' = "recv"
  /\ Sub!Take
  /\ UNCHANGED <<halt, mode, slotCounter, routed>>

\* Plausible bug: the loop waits for a landed or reverted outcome only.
ResolveDecided ==
  /\ pc = "submitting"
  /\ phase = "returned"
  /\ Log!TryRecord(slotCounter)
  /\ Landed \/ Reverted
  /\ terminal' = Append(terminal, [route |-> routed, outcome |-> outcome,
                                   slot |-> slotCounter])
  /\ pc' = "recv"
  /\ Sub!Take
  /\ UNCHANGED <<halt, mode, slotCounter, routed>>

\* submit() returned: log the record, then update dashboard and breakers.
Resolve ==
  /\ pc = "submitting"
  /\ phase = "returned"
  /\ Log!TryRecord(slotCounter)
  /\ Landed \/ Reverted \/ NotIncluded
  /\ terminal' = Append(terminal, [route |-> routed, outcome |-> outcome,
                                   slot |-> slotCounter])
  /\ pc' = "recv"
  /\ Sub!Take
  /\ UNCHANGED <<halt, mode, slotCounter, routed>>

\* The writer task runs beside the loop.
WriterStep ==
  /\ Log!TaskStep
  /\ UNCHANGED <<loopVars, breakerVars, submitVars>>

\* The feed ends: main returns and its locals, the log's sender among them,
\* are dropped.
FeedEnds ==
  /\ pc = "recv"
  /\ pc' = "exited"
  /\ Log!DropSender
  /\ UNCHANGED <<halt, mode, slotCounter, routed, dash, terminal, breakerVars, submitVars>>

\* The runtime is torn down without awaiting _writer_handle.
Shutdown ==
  /\ pc = "exited"
  /\ Log!RuntimeShutdown
  /\ UNCHANGED <<loopVars, breakerVars, submitVars>>

Next ==
  \/ \E raw \in FeedSlot : SkipUpdate(raw)
  \/ \E raw \in FeedSlot : DropCandidate(raw)
  \/ \E raw \in FeedSlot, p \in Position, r \in FlashReserve : SubmitCandidate(raw, p, r)
  \/ PathAnswers
  \/ SubmitEnds
  \/ Resolve
  \/ WriterStep
  \/ FeedEnds
  \/ Shutdown

Spec == Init /\ [][Next]_vars

(* The loop and the writer task are polled, and the submitter returns      *)
(* because its timer fires; the feed owes no update.                       *)
FairSpec ==
  /\ Spec
  /\ WF_vars(SubmitEnds)
  /\ WF_vars(Resolve)
  /\ WF_vars(WriterStep)

-----------------------------------------------------------------------------
\* Reverts of a route since it last landed, in the first n outcomes.
StreakAt(route, n) ==
  Cardinality({i \in 1 .. n :
    /\ terminal[i].route = route /\ terminal[i].outcome = "Reverted"
    /\ \A j \in i .. n : ~(terminal[j].route = route /\ terminal[j].outcome = "Landed")})

Streak(route) == StreakAt(route, Len(terminal))

\* The route has at some time had as many reverts in a row as the limit.
HitLimit(route) == \E n \in 0 .. Len(terminal) : StreakAt(route, n) >= RevertLimit

(* The breaker counts what happened: a route's counter is the number of    *)
(* reverts it had since it last landed, NotIncluded submissions and other  *)
(* routes' outcomes in between left out.                                   *)
BreakerCountsStreak ==
  \A r \in Brk!RouteKey : consecutiveReverts[r] = Streak(r)

(* A lock-out follows from what happened: a route on a streak of at least  *)
(* the limit is out of rotation, and a route is out of rotation only if it *)
(* had such a streak (record_revert and record_success move the counter    *)
(* and the rotation apart from each other).                                *)
LockoutFollowsReverts ==
  \A r \in Brk!RouteKey :
    /\ Streak(r) >= RevertLimit => r \in outOfRotation
    /\ r \in outOfRotation => HitLimit(r)

Count(o) == Cardinality({i \in DOMAIN terminal : terminal[i].outcome = o})

(* Every attempt has exactly one terminal outcome, counted once on the     *)
(* dashboard and offered once to the log, except the one under way.        *)
AttemptsAccountedFor ==
  /\ dash.attempted = Len(terminal) + (IF pc = "submitting" THEN 1 ELSE 0)
  /\ dash.landed = Count("Landed")
  /\ dash.reverted = Count("Reverted")
  /\ Log!Offered = {terminal[i].slot : i \in DOMAIN terminal}
  /\ Cardinality(Log!Offered) = Len(terminal)

(* --halt is a kill switch: with it, or with an effective mode of observe, *)
(* nothing is ever submitted or logged.                                    *)
HaltNeverSubmits ==
  halt \/ mode = "observe" => phase = "idle" /\ dash.attempted = 0 /\ Log!Offered = {}

(* A submission never wedges the loop: it takes the next update, or exits. *)
SubmissionResolves == pc = "submitting" ~> pc = "recv"

(* "a route that hit the limit stays out of rotation": no bundle is under  *)
(* way on a route that the breaker has taken out.                          *)
LockedOutRouteIsNotSubmitted ==
  pc = "submitting" => routed \notin outOfRotation

(* "Manual re-arm required": nothing the loop does clears a lock-out, and  *)
(* it re-arms no route, so one that ever hit the limit is still out of     *)
(* rotation.                                                               *)
LockoutStaysUntilCleared ==
  \A r \in Brk!RouteKey : HitLimit(r) => r \in outOfRotation
=============================================================================
