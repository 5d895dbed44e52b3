---------------------------- MODULE RiskControls ----------------------------
(***************************************************************************)
(* The risk controls of one engine process: BreakerState with the checks   *)
(* that trip its two whole-engine breakers, the ledger's drawdown check    *)
(* (crates/treasury/src/pnl_ledger.rs) and the minimum-balance check       *)
(* (crates/treasury/src/sweep.rs).                                         *)
(*                                                                         *)
(* The two meet as the comments of both crates describe: each check's      *)
(* result is what the caller passes to the breaker's setter.  The daemon   *)
(* has no such caller yet.  A process that dies takes the breakers with    *)
(* it; the ledger comes back from its snapshot.                            *)
(***************************************************************************)
EXTENDS Breakers

CONSTANTS
  Net, Window, MaxSlot, MaxEntries,  \* of PnlLedger
  MaxDrawdown,                       \* risk.max_drawdown_usd
  MinBalance,                        \* treasury.min_balance_sol
  Balance                            \* the balances a wallet query may return

ASSUME LedgerAssumption ==
  /\ Net \subseteq Int /\ Window \in Nat /\ MaxSlot \in Nat /\ MaxEntries \in Nat
  /\ MaxDrawdown \in Int /\ MinBalance \in Nat /\ Balance \subseteq Nat

VARIABLES process, now, entries, recorded, disk

Ledger == INSTANCE PnlLedger

ledgerVars == <<process, now, entries, recorded, disk>>

RiskInit == Init /\ Ledger!Init

-----------------------------------------------------------------------------
IsBelowMinimumBalance(balance) == balance < MinBalance

CheckBalance(balance) ==
  /\ process = "up"
  /\ SetTreasuryBelowFloor(IsBelowMinimumBalance(balance))
  /\ UNCHANGED ledgerVars

\* The drawdown breaker is only ever set by the check, never cleared by it.
CheckDrawdown ==
  /\ process = "up"
  /\ Ledger!DrawdownBreached(Ledger!WindowedSum(entries, now), MaxDrawdown)
  /\ SetDrawdownTripped
  /\ UNCHANGED ledgerVars

\* Outcomes, re-arms and lag checks, while the process is up.
BreakerStep ==
  /\ process = "up"
  /\ \/ \E r \in RouteKey : RecordRevert(r, RevertLimit)
     \/ \E r \in RouteKey : RecordSuccess(r)
     \/ \E r \in RouteKey : RearmRoute(r)
     \/ RearmAllRoutes
     \/ RearmDrawdown
     \/ \E p \in Protocol, b \in BOOLEAN : SetProtocolSyncLagHalted(p, b)
  /\ UNCHANGED ledgerVars

LedgerStep ==
  /\ \/ Ledger!NewSlot
     \/ \E slot \in 0 .. now, net \in Net : Ledger!Record(slot, net)
     \/ Ledger!PruneOlderThan
     \/ Ledger!SnapshotTruncate
     \/ Ledger!SnapshotWrite
     \/ Ledger!SnapshotFails
     \/ Ledger!Restore
     \/ Ledger!RestoreFails
  /\ UNCHANGED vars

Killed == Ledger!Kill /\ Restart

RiskNext ==
  \/ \E balance \in Balance : CheckBalance(balance)
  \/ CheckDrawdown
  \/ BreakerStep
  \/ LedgerStep
  \/ Killed

RiskSpec == RiskInit /\ [][RiskNext]_<<vars, ledgerVars>>

-----------------------------------------------------------------------------
(* Pruning and restoring, at whatever slots they happened, never change    *)
(* the sum the drawdown check sees: it is that of everything recorded that *)
(* no restart has lost, outcomes of old slots recorded late among them.    *)
SumUnaffectedByPruning ==
  Ledger!WindowedSum(entries, now) = Ledger!WindowedSum(recorded, now)

(* The engine is halted for a drawdown only if it lost money: whenever the *)
(* breaker trips, the outcomes recorded in the window add up to a loss of  *)
(* at least the limit's magnitude, however the ledger was pruned, saved    *)
(* and restored in between.                                                *)
DrawdownTripsOnLoss ==
  [][drawdownTripped' /\ ~drawdownTripped
       => LET sum == Ledger!WindowedSum(recorded, now)
          IN  sum <= MaxDrawdown /\ sum <= 0 - MaxDrawdown]_<<vars, ledgerVars>>
=============================================================================
