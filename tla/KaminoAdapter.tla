---------------------------- MODULE KaminoAdapter ---------------------------
(***************************************************************************)
(* The Kamino health adapter (crates/health/src/adapters/kamino.rs): keeps *)
(* the last Reserve and LendingMarket accounts it was shown and, for each  *)
(* Obligation account, decides whether the position breaches and how much  *)
(* of its debt may be repaid.                                              *)
(*                                                                         *)
(* Account updates arrive in any order and carry the slot they were read   *)
(* at; the adapter keeps the last one it was given, not the newest.  USD   *)
(* values and prices are natural numbers; a reserve's unit is the number   *)
(* of native units in one token, 10^mint_decimals.                         *)
(***************************************************************************)
EXTENDS Integers, FiniteSets

CONSTANTS
  Obligation,      \* obligation accounts (positions)
  KaminoReserve,         \* reserve accounts
  Market,          \* lending market accounts
  ReserveData,     \* what a Reserve account may hold: [mint, price, unit]
  MarketData,      \* a LendingMarket account: [pct, cap]
  ObligationData,  \* an Obligation account: [debt, unhealthy, market, borrows, deposits]
  Absent,            \* an absent map entry, or a call that returned None
  MaxTip           \* bound on the chain's slot

ASSUME DataAssumption ==
  /\ \A d \in ReserveData : d.price \in Nat /\ d.unit \in Nat \ {0}
  /\ \A d \in MarketData : d.pct \in 0 .. 100 /\ d.cap \in Nat
  /\ \A d \in ObligationData :
       /\ d.debt \in Nat /\ d.unhealthy \in Nat /\ d.market \in Market
       /\ IsFiniteSet(d.borrows) /\ IsFiniteSet(d.deposits)
       /\ \A b \in d.borrows : b.reserve \in KaminoReserve /\ b.mv \in Nat /\ b.amount \in Nat
       /\ \A c \in d.deposits : c.reserve \in KaminoReserve /\ c.mv \in Nat
ASSUME MaxTipAssumption == MaxTip \in Nat

VARIABLES
  seenReserves,      \* last Reserve snapshot, or None
  markets,           \* last LendingMarket snapshot, or None
  known,             \* known_obligations: [slot, repay], or None
  currentSlot, lastSynced,
  breach,            \* what the last on_account_update returned
  latest,            \* last data decoded for each obligation, or None
  tip                \* the chain's slot

adapterVars == <<seenReserves, markets, known, currentSlot, lastSynced, breach, latest, tip>>

Slot == 0 .. MaxTip

Snapshot(D) == [data : D, slot : Slot] \cup {Absent}

Candidate == [position : Obligation, collateral : {d.mint : d \in ReserveData},
              debt : {d.mint : d \in ReserveData}, repay : Nat, slot : Slot]

AdapterInit ==
  /\ seenReserves = [r \in KaminoReserve |-> Absent]
  /\ markets = [m \in Market |-> Absent]
  /\ known = [o \in Obligation |-> Absent]
  /\ currentSlot = 0
  /\ lastSynced = 0
  /\ breach = Absent
  /\ latest = [o \in Obligation |-> Absent]
  /\ tip = 0

-----------------------------------------------------------------------------
(* Queries of the HealthAdapter trait.                                     *)

CloseFactor(o) == IF known[o] = Absent THEN 0 ELSE known[o].repay
PositionCount  == Cardinality({o \in Obligation : known[o] # Absent})
SyncLagSlots   == IF currentSlot > lastSynced THEN currentSlot - lastSynced ELSE 0

-----------------------------------------------------------------------------
\* current_slot is a maximum; last_synced_slot is whatever came last.
Seen(slot)   == currentSlot' = IF slot > currentSlot THEN slot ELSE currentSlot
Synced(slot) == Seen(slot) /\ lastSynced' = slot

HandleReserve(r, data, slot) ==
  /\ seenReserves' = [seenReserves EXCEPT ![r] = [data |-> data, slot |-> slot]]
  /\ breach' = Absent
  /\ Synced(slot)
  /\ UNCHANGED <<markets, known, latest, tip>>

HandleLendingMarket(m, data, slot) ==
  /\ markets' = [markets EXCEPT ![m] = [data |-> data, slot |-> slot]]
  /\ breach' = Absent
  /\ Synced(slot)
  /\ UNCHANGED <<seenReserves, known, latest, tip>>

\* The discriminator is right but the account does not decode.
HandleUndecodable(slot) ==
  /\ breach' = Absent
  /\ Synced(slot)
  /\ UNCHANGED <<seenReserves, markets, known, latest, tip>>

\* Too short for a discriminator, or another kind of Kamino account.
HandleOther(slot) ==
  /\ breach' = Absent
  /\ Seen(slot)
  /\ UNCHANGED <<seenReserves, markets, known, lastSynced, latest, tip>>

-----------------------------------------------------------------------------
Least(a, b) == IF a < b THEN a ELSE b

\* The active leg of the greatest market value.
Largest(legs) == CHOOSE l \in legs : \A k \in legs : k.mv <= l.mv

\* Plausible bug: the market-wide cap is not applied.
MaxRepayNativeAmountUncapped(market, reserve, leg) ==
  IF reserve.price = 0 THEN 0
  ELSE Least((leg.mv * market.pct * reserve.unit) \div (100 * reserve.price), leg.amount)

\* Close factor, then cap, in USD; converted to native units at the reserve's
\* price, no more than is borrowed, and truncated at the end; 0 for a degenerate
\* price.
MaxRepayNativeAmount(market, reserve, leg) ==
  IF reserve.price = 0 THEN 0
  ELSE LET cappedMv == Least(leg.mv * market.pct, 100 * market.cap)
       IN  Least((cappedMv * reserve.unit) \div (100 * reserve.price), leg.amount)

Breached(data) == data.debt > 0 /\ data.unhealthy > 0 /\ data.unhealthy < data.debt

\* Everything the breach refers to has been seen.
Resolvable(data) ==
  /\ markets[data.market] # Absent
  /\ data.borrows # {} /\ seenReserves[Largest(data.borrows).reserve] # Absent
  /\ data.deposits # {} /\ seenReserves[Largest(data.deposits).reserve] # Absent

\* Plausible bug: a healthy obligation is not written back.
HandleHealthyForgets(o, data, slot) ==
  /\ ~Breached(data)
  /\ known' = IF known[o] = Absent
              THEN [known EXCEPT ![o] = [slot |-> slot, repay |-> 0]] ELSE known
  /\ breach' = Absent

\* No debt, no collateral or healthy: tracked with nothing to repay.
HandleHealthy(o, data, slot) ==
  /\ ~Breached(data)
  /\ known' = [known EXCEPT ![o] = [slot |-> slot, repay |-> 0]]
  /\ breach' = Absent

\* A breach that refers to an account not seen yet: nothing is recorded.
HandleUnresolved(o, data, slot) ==
  /\ Breached(data) /\ ~Resolvable(data)
  /\ breach' = Absent
  /\ UNCHANGED known

\* Plausible bug: the book is updated only the first time a position breaches.
HandleBreachOnce(o, data, slot) ==
  /\ Breached(data) /\ Resolvable(data)
  /\ LET leg     == Largest(data.borrows)
         reserve == seenReserves[leg.reserve].data
         repay   == MaxRepayNativeAmount(markets[data.market].data, reserve, leg)
     IN  /\ known' = IF known[o] = Absent
                     THEN [known EXCEPT ![o] = [slot |-> slot, repay |-> repay]]
                     ELSE known
         /\ breach' = [position |-> o, debt |-> reserve.mint,
                          collateral |-> seenReserves[Largest(data.deposits).reserve].data.mint,
                          repay |-> repay, slot |-> slot]

HandleBreach(o, data, slot) ==
  /\ Breached(data) /\ Resolvable(data)
  /\ LET leg     == Largest(data.borrows)
         reserve == seenReserves[leg.reserve].data
         repay   == MaxRepayNativeAmount(markets[data.market].data, reserve, leg)
     IN  /\ known' = [known EXCEPT ![o] = [slot |-> slot, repay |-> repay]]
         /\ breach' = [position |-> o, debt |-> reserve.mint,
                          collateral |-> seenReserves[Largest(data.deposits).reserve].data.mint,
                          repay |-> repay, slot |-> slot]

HandleObligation(o, data, slot) ==
  /\ HandleHealthy(o, data, slot) \/ HandleUnresolved(o, data, slot)
       \/ HandleBreach(o, data, slot)
  /\ latest' = [latest EXCEPT ![o] = data]
  /\ Synced(slot)
  /\ UNCHANGED <<seenReserves, markets, tip>>

\* The chain moves on, with or without updates for Kamino.
NewSlot ==
  /\ tip < MaxTip
  /\ tip' = tip + 1
  /\ UNCHANGED <<seenReserves, markets, known, currentSlot, lastSynced, breach, latest>>

AdapterNext ==
  \/ \E slot \in 0 .. tip :
       \/ \E r \in KaminoReserve, d \in ReserveData : HandleReserve(r, d, slot)
       \/ \E m \in Market, d \in MarketData : HandleLendingMarket(m, d, slot)
       \/ \E o \in Obligation, d \in ObligationData : HandleObligation(o, d, slot)
       \/ HandleUndecodable(slot)
       \/ HandleOther(slot)
  \/ NewSlot

AdapterSpec == AdapterInit /\ [][AdapterNext]_adapterVars

-----------------------------------------------------------------------------
(* A position last seen healthy has nothing to repay: no earlier breach,   *)
(* out-of-order account or missing reserve leaves a stale close factor.    *)
HealthyHasNoCloseFactor ==
  \A o \in Obligation :
    latest[o] # Absent /\ ~Breached(latest[o]) => CloseFactor(o) = 0

(* The candidate and the book agree: what on_account_update returns is     *)
(* what close_factor answers next, for a position that breaches as last    *)
(* decoded.                                                                *)
CandidateMatchesBook ==
  breach # Absent =>
    /\ known[breach.position] = [slot |-> breach.slot, repay |-> breach.repay]
    /\ Breached(latest[breach.position])

(* The repay of a fresh candidate is worth no more than the close factor   *)
(* allows and than the market's cap, at the price it was computed with,    *)
(* and no more than is borrowed.                                           *)
RepayWithinLimits ==
  breach # Absent =>
    LET data    == latest[breach.position]
        leg     == Largest(data.borrows)
        reserve == seenReserves[leg.reserve].data
        market  == markets[data.market].data
    IN  /\ 100 * breach.repay * reserve.price <= leg.mv * market.pct * reserve.unit
        /\ breach.repay * reserve.price <= market.cap * reserve.unit
        /\ breach.repay <= leg.amount
=============================================================================
