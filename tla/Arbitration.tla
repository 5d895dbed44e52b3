---------------------------- MODULE Arbitration -----------------------------
(***************************************************************************)
(* arbitrate() (crates/strategy/src/arbitration.rs): the candidates of one *)
(* evaluation window are ranked by expected profit and, best first, each   *)
(* is discarded, deferred or fired, so that one candidate at most uses a   *)
(* flash reserve and the tips stay within SlotBudget (treasury_check.rs).  *)
(*                                                                         *)
(* A candidate is what the decision depends on: its reserve, its expected  *)
(* net profit and the tip that tip_for bids for it.  Amounts are integers  *)
(* (cents), profits of either sign.                                        *)
(***************************************************************************)
EXTENDS Integers, Sequences, Functions

CONSTANTS
  FlashReserve,   \* flash reserves
  Net,            \* expected.net_usd of a candidate
  Tip,            \* values of tip_for
  Balance,        \* treasury balances arbitrate() may be called with
  MaxWindow,      \* bound on the candidates of a window
  MinProfitUsd,   \* risk.min_profit_usd
  MaxTipPerTx,    \* risk.max_tip_per_tx_usd
  MaxTipPerSlot,  \* risk.max_tip_per_slot_usd
  MinBalance      \* treasury.min_balance_sol

ASSUME AmountAssumption  == Net \subseteq Int /\ Tip \subseteq Nat /\ Balance \subseteq Nat
ASSUME WindowAssumption  == MaxWindow \in Nat
ASSUME ConfigAssumption  ==
  MinProfitUsd \in Nat /\ MaxTipPerTx \in Nat /\ MaxTipPerSlot \in Nat /\ MinBalance \in Nat

VARIABLES
  phase,      \* "idle", or "deciding" inside arbitrate()
  balance,    \* the treasury balance passed in
  ranked,     \* the candidates, sorted
  outcomes,   \* the decisions so far, for a prefix of ranked
  locked,     \* locked_reserves
  committed   \* SlotBudget::committed_usd

arbitrationVars == <<phase, balance, ranked, outcomes, locked, committed>>

RoutedCandidate == [reserve : FlashReserve, net : Net, tip : Tip]

Refusal == {"ExceedsPerTxCap", "ExceedsPerSlotBudget", "BelowMinimumBalance"}
Outcome == {"Fire", "DeferredReserveConflict", "Discarded"} \cup Refusal

TypeOK ==
  /\ phase \in {"idle", "deciding"}
  /\ ranked \in Seq(RoutedCandidate)
  /\ outcomes \in Seq(Outcome) /\ Len(outcomes) <= Len(ranked)
  /\ balance \in Balance
  /\ locked \in SUBSET FlashReserve
  /\ committed \in Nat

ArbitrationInit ==
  /\ phase = "idle"
  /\ balance \in Balance
  /\ ranked = <<>>
  /\ outcomes = <<>>
  /\ locked = {}
  /\ committed = 0

-----------------------------------------------------------------------------
\* The candidates of an evaluation window.
Window == UNION {[1 .. n -> RoutedCandidate] : n \in 0 .. MaxWindow}

\* Plausible bug: the comparison is written the wrong way round.
RankingAscending(w, p) ==
  /\ \A i, j \in DOMAIN w : p[i] = p[j] => i = j
  /\ \A i, j \in DOMAIN w :
       i < j => \/ w[p[i]].net < w[p[j]].net
                \/ w[p[i]].net = w[p[j]].net /\ p[i] < p[j]

\* p lists the positions of w by falling profit, in order among equals: what
\* a stable sort_by does.
Ranking(w, p) ==
  /\ \A i, j \in DOMAIN w : p[i] = p[j] => i = j
  /\ \A i, j \in DOMAIN w :
       i < j => \/ w[p[i]].net > w[p[j]].net
                \/ w[p[i]].net = w[p[j]].net /\ p[i] < p[j]

\* arbitrate() is called: the window is ranked; budget and locks are new.
Arbitrate(b) ==
  /\ phase = "idle"
  /\ phase' = "deciding"
  /\ balance' = b
  /\ \E w \in Window : \E p \in [DOMAIN w -> DOMAIN w] :
       Ranking(w, p) /\ ranked' = [i \in DOMAIN w |-> w[p[i]]]
  /\ UNCHANGED <<outcomes, locked, committed>>

\* The candidate the loop has come to.
Here == ranked[Len(outcomes) + 1]

Deciding == phase = "deciding" /\ Len(outcomes) < Len(ranked)

\* Plausible bug: the slot budget is checked without the tip at hand.
CheckSpentOnly(tip) ==
  CASE balance < MinBalance -> "BelowMinimumBalance"
    [] balance >= MinBalance /\ tip > MaxTipPerTx -> "ExceedsPerTxCap"
    [] balance >= MinBalance /\ tip <= MaxTipPerTx /\ committed > MaxTipPerSlot
         -> "ExceedsPerSlotBudget"
    [] OTHER -> "Approved"

\* SlotBudget::check: floor, then per-transaction cap, then slot budget.
SlotBudgetCheck(tip) ==
  CASE balance < MinBalance -> "BelowMinimumBalance"
    [] balance >= MinBalance /\ tip > MaxTipPerTx -> "ExceedsPerTxCap"
    [] balance >= MinBalance /\ tip <= MaxTipPerTx /\ committed + tip > MaxTipPerSlot
         -> "ExceedsPerSlotBudget"
    [] OTHER -> "Approved"

Decide(o) == outcomes' = Append(outcomes, o) /\ UNCHANGED <<phase, balance, ranked>>

Discard ==
  /\ Deciding
  /\ Here.net <= MinProfitUsd
  /\ Decide("Discarded")
  /\ UNCHANGED <<locked, committed>>

DeferReserveConflict ==
  /\ Deciding
  /\ Here.net > MinProfitUsd
  /\ Here.reserve \in locked
  /\ Decide("DeferredReserveConflict")
  /\ UNCHANGED <<locked, committed>>

\* Plausible bug: a candidate the budget refuses still spends from it.
DeferBudgetSpending ==
  /\ Deciding
  /\ Here.net > MinProfitUsd
  /\ Here.reserve \notin locked
  /\ SlotBudgetCheck(Here.tip) # "Approved"
  /\ Decide(SlotBudgetCheck(Here.tip))
  /\ committed' = committed + Here.tip
  /\ UNCHANGED locked

DeferBudget ==
  /\ Deciding
  /\ Here.net > MinProfitUsd
  /\ Here.reserve \notin locked
  /\ SlotBudgetCheck(Here.tip) # "Approved"
  /\ Decide(SlotBudgetCheck(Here.tip))
  /\ UNCHANGED <<locked, committed>>

\* Plausible bug: the reserve is not locked.
FireUnlocked ==
  /\ Deciding
  /\ Here.net > MinProfitUsd
  /\ Here.reserve \notin locked
  /\ SlotBudgetCheck(Here.tip) = "Approved"
  /\ committed' = committed + Here.tip
  /\ UNCHANGED locked
  /\ Decide("Fire")

\* Plausible bug: commit() overwrites what was committed.
FireOverwriting ==
  /\ Deciding
  /\ Here.net > MinProfitUsd
  /\ Here.reserve \notin locked
  /\ SlotBudgetCheck(Here.tip) = "Approved"
  /\ committed' = Here.tip
  /\ locked' = locked \cup {Here.reserve}
  /\ Decide("Fire")

Fire ==
  /\ Deciding
  /\ Here.net > MinProfitUsd
  /\ Here.reserve \notin locked
  /\ SlotBudgetCheck(Here.tip) = "Approved"
  /\ committed' = committed + Here.tip
  /\ locked' = locked \cup {Here.reserve}
  /\ Decide("Fire")

\* arbitrate() returns its decisions, and its locals go.
Finish ==
  /\ phase = "deciding"
  /\ Len(outcomes) = Len(ranked)
  /\ phase' = "idle"
  /\ ranked' = <<>>
  /\ outcomes' = <<>>
  /\ locked' = {}
  /\ committed' = 0
  /\ UNCHANGED balance

ArbitrationNext ==
  \/ \E b \in Balance : Arbitrate(b)
  \/ Discard
  \/ DeferReserveConflict
  \/ DeferBudget
  \/ Fire
  \/ Finish

ArbitrationSpec == ArbitrationInit /\ [][ArbitrationNext]_arbitrationVars

-----------------------------------------------------------------------------
Fired == {i \in DOMAIN outcomes : outcomes[i] = "Fire"}

(* No two fired candidates of a window borrow from one flash reserve, and  *)
(* a reserve is locked only by a candidate that was fired: one the budget  *)
(* refused leaves its reserve to the next in rank.                         *)
OneFirePerReserve ==
  /\ \A i, j \in Fired : ranked[i].reserve = ranked[j].reserve => i = j
  /\ locked = {ranked[i].reserve : i \in Fired}

(* A candidate is deferred for its reserve only when one of at least its   *)
(* profit, placed before it, was fired on that reserve.                    *)
ConflictLosesToBetter ==
  \A i \in DOMAIN outcomes : outcomes[i] = "DeferredReserveConflict" =>
    \E j \in Fired : /\ j < i
                     /\ ranked[j].reserve = ranked[i].reserve
                     /\ ranked[j].net >= ranked[i].net

(* The tips of a window stay within the slot cap and each within its own,  *)
(* and a candidate fires only above the profit and balance floors.         *)
SpendWithinCaps ==
  /\ committed <= MaxTipPerSlot
  /\ \A i \in Fired : /\ ranked[i].tip <= MaxTipPerTx
                      /\ ranked[i].net > MinProfitUsd
                      /\ balance >= MinBalance

(* The budget holds exactly the tips of the fired candidates: what was     *)
(* discarded, deferred or refused spends nothing.                          *)
CommittedIsFiredTips ==
  committed = SumFunctionOnSet([i \in Fired |-> ranked[i].tip], Fired)

(* A candidate deferred for the slot budget would not fit in what is left  *)
(* at the end either: no budget is handed back or left over for it.        *)
BudgetDeferralStands ==
  \A i \in DOMAIN outcomes : outcomes[i] = "ExceedsPerSlotBudget" =>
    committed + ranked[i].tip > MaxTipPerSlot
=============================================================================
