--------------------------- MODULE SaveObligation ---------------------------
(***************************************************************************)
(* An obligation of the Save lending market                                 *)
(* (patches/solend-sdk/src/state/obligation.rs) and the calculations of     *)
(* reserve.rs that read one: what may be withdrawn, borrowed and liquidated.*)
(* deposits and borrows are the obligation's two vectors, searched and      *)
(* removed from by position.                                                *)
(***************************************************************************)
EXTENDS SaveReserve, SequencesExt

CONSTANTS
    MaxObligationReserves,   \* MAX_OBLIGATION_RESERVES
    MaxLiquidatableValue     \* MAX_LIQUIDATABLE_VALUE_AT_ONCE, in quote units

ASSUME LiquidatableAssumption == MaxLiquidatableValue \in Nat

LiquidationCloseFactor == 20

NewObligation(slot) ==
    [last |-> [slot |-> slot, stale |-> TRUE], deposits |-> <<>>, borrows |-> <<>>,
     depositedValue |-> 0, borrowedValue |-> 0, upperBound |-> 0,
     allowed |-> 0, unhealthy |-> 0, superUnhealthy |-> 0, closeable |-> FALSE]

NewCollateral(r) == [reserve |-> r, amount |-> 0, value |-> 0]
NewLiquidity(r, cumRate) == [reserve |-> r, cumRate |-> cumRate, amount |-> 0, value |-> 0]

\* find_collateral_in_deposits and find_liquidity_in_borrows: empty when absent.
Found(entries, r) == {i \in DOMAIN entries : entries[i].reserve = r}

\* The entry of r in entries, appended when there is none; a full obligation
\* refuses a new entry (ObligationReserveLimit).
Room(o, entries, r) ==
    Found(entries, r) # {} \/ Len(o.deposits) + Len(o.borrows) < MaxObligationReserves
FindOrAdd(entries, new) ==
    IF Found(entries, new.reserve) # {} THEN entries ELSE Append(entries, new)
IndexOf(entries, r) == CHOOSE i \in Found(entries, r) : TRUE

Deposited(o, r, amount) ==
    LET entries == FindOrAdd(o.deposits, NewCollateral(r))
    IN  [o EXCEPT !.deposits = [entries EXCEPT ![IndexOf(entries, r)].amount = @ + amount]]

Borrowed(o, r, cumRate, amount) ==
    LET entries == FindOrAdd(o.borrows, NewLiquidity(r, cumRate))
    IN  [o EXCEPT !.borrows = [entries EXCEPT ![IndexOf(entries, r)].amount = @ + amount]]

\* Obligation::repay and ::withdraw drop an entry that reaches zero.
Lowered(entries, i, amount) ==
    IF amount = entries[i].amount THEN RemoveAt(entries, i)
    ELSE [entries EXCEPT ![i].amount = @ - amount]
Repay(o, settle, i) == [o EXCEPT !.borrows = Lowered(@, i, settle)]
Withdraw(o, amount, i) == [o EXCEPT !.deposits = Lowered(@, i, amount)]

\* Plausible bug: the rate interest was accrued to is not stored.
AccruedAgain(b, cumRate) == [b EXCEPT !.amount = TryMul(@, TryDiv(cumRate, b.cumRate))]

\* ObligationLiquidity::accrue_interest; a falling rate is an error.
RateNotNegative(b, cumRate) == cumRate >= b.cumRate
Accrued(b, cumRate) ==
    IF cumRate = b.cumRate THEN b
    ELSE [b EXCEPT !.amount = TryMul(@, TryDiv(cumRate, b.cumRate)), !.cumRate = cumRate]

\* Plausible bug: what is already borrowed is not deducted.
RemainingBorrowValueGross(o) == o.allowed
RemainingBorrowValue(o) == o.allowed - o.upperBound

\* Obligation::max_withdraw_amount for the deposit at position i, whose reserve is r.
MaxWithdrawAmount(o, i, r) ==
    LET amount == o.deposits[i].amount
        value == TryDiv(o.allowed - o.upperBound, LoanToValueRatio(r))
        liquidity == TryDiv(TryMulInt(value, MintUnit), PriceLowerBound(r))
    IN  IF o.borrows = <<>> THEN amount
        ELSE IF o.allowed <= o.upperBound THEN 0
        ELSE IF r.config.ltv = 0 THEN amount
        ELSE Min({TryFloorU64(LiquidityToCollateral(r, liquidity)), amount})

\* Plausible bug: the limit on the value liquidated at once is forgotten.
MaxLiquidationAmountUnlimited(o, b) ==
    LET value == Min({TryMul(o.borrowedValue, FromPercent(LiquidationCloseFactor)), b.value})
    IN  TryMul(b.amount, TryDiv(value, b.value))
MaxLiquidationAmount(o, b) ==
    LET value == Min({TryMul(o.borrowedValue, FromPercent(LiquidationCloseFactor)),
                      b.value, FromU64(MaxLiquidatableValue)})
    IN  TryMul(b.amount, TryDiv(value, b.value))

----------------------------------------------------------------------------
(***************************************************************************)
(* Reserve::calculate_bonus: the bonus grows from the configured one to the *)
(* maximum between the two liquidation thresholds, protocol fee on top.     *)
(***************************************************************************)
CalculateBonus(r, o) ==
    LET low == FromPercent(r.config.bonus)
        high == FromPercent(r.config.maxBonus)
        fee == FromDecaBps(r.config.protocolLiqFee)
        span == o.superUnhealthy - o.unhealthy
        weight == Min({TryDiv(o.borrowedValue - o.unhealthy, span), Wad})
        bonus == IF span = 0 THEN low ELSE low + TryMul(weight, high - low)
    IN  IF o.borrowedValue < o.unhealthy
        THEN {b \in {[total |-> 0, protocol |-> 0]} : o.closeable}
        ELSE {b \in {[total |-> Min({bonus + fee, FromPercent(MaxBonusPct)}), protocol |-> fee]} :
                  Fits(span)}

(***************************************************************************)
(* Reserve::calculate_liquidation.  Debt worth at most one quote unit is    *)
(* closed whole; otherwise the close factor and the caller's amount bound   *)
(* what is settled.  Collateral worth less than the claim is taken whole    *)
(* and the settled amount is scaled down to it.                             *)
(***************************************************************************)
CalculateLiquidation(amount, o, b, d, bonus) ==
    LET bonusRate == bonus.total + Wad
        dust == b.value <= Wad
        cap == IF amount = U64Max THEN b.amount ELSE Min({FromU64(amount), b.amount})
        wanted == IF dust THEN b.amount ELSE Min({MaxLiquidationAmount(o, b), cap})
        claim == IF dust THEN TryMul(b.value, bonusRate)
                 ELSE TryMul(TryMul(b.value, TryDiv(wanted, b.amount)), bonusRate)
        settle == IF claim > d.value THEN TryMul(wanted, TryDiv(d.value, claim)) ELSE wanted
        share == TryFloorU64(TryMul(FromU64(d.amount), TryDiv(claim, d.value)))
        withdraw == IF claim >= d.value THEN d.amount
                    ELSE IF dust THEN Max({share, 1}) ELSE share
    IN  {l \in {[settle |-> settle, repay |-> TryCeilU64(settle), withdraw |-> withdraw]} :
            /\ bonus.total <= FromPercent(MaxBonusPct)
            /\ FitsU64(l.repay)
            /\ dust /\ claim < d.value => l.repay # 0}

ProtocolLiquidationFee(amount, bonus) ==
    Max({TryCeilU64(TryMul(TryDiv(FromU64(amount), Wad + bonus.total), bonus.protocol)), 1})
============================================================================
