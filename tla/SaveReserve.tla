---------------------------- MODULE SaveReserve ----------------------------
(***************************************************************************)
(* A reserve of the Save lending market                                     *)
(* (patches/solend-sdk/src/state/reserve.rs, last_update.rs): its liquidity,*)
(* its collateral token, its prices and its configuration, and the          *)
(* calculations over them.  A calculation that may fail answers a set: its  *)
(* one result, or nothing for an error.  A reserve whose fields a checked   *)
(* operation could not compute is told from a valid one by WellFormed.      *)
(* Amounts are tokens; borrowed, fees, prices, values and rates are         *)
(* Decimals.                                                                *)
(***************************************************************************)
EXTENDS SaveMath, FiniteSetsExt

CONSTANTS
    SlotsPerYear,              \* SLOTS_PER_YEAR
    MintUnit                   \* 10^mint_decimals: token units per whole token

ASSUME YearAssumption == SlotsPerYear \in Nat \ {0} /\ MintUnit \in Nat \ {0}

MaxBonusPct == 25              \* MAX_BONUS_PCT
MaxProtocolFeeDecaBps == 50    \* MAX_PROTOCOL_LIQUIDATION_FEE_DECA_BPS
MaxPriceOffsetBps == 5000
MinPriceOffsetBps == -2000

----------------------------------------------------------------------------
(* LastUpdate *)
StaleAfterSlots == 1
Fresh(slot) == [slot |-> slot, stale |-> FALSE]
MarkStale(x) == [x EXCEPT !.last.stale = TRUE]
IsStale(x, slot) == x.last.stale \/ slot - x.last.slot >= StaleAfterSlots

ReserveConfig ==
    [optUtil : Nat, maxUtil : Nat, ltv : Nat, bonus : Nat, maxBonus : Nat,
     threshold : Nat, maxThreshold : Nat, minRate : Nat, optRate : Nat, maxRate : Nat,
     superMaxRate : Nat, borrowFee : Nat, flashFee : Nat, hostPct : Nat,
     depositLimit : Nat, borrowLimit : Nat, protocolLiqFee : Nat, takeRate : Nat,
     isolated : BOOLEAN, addedWeightBps : Nat, priceOffsetBps : Int,
     attributedOpen : Nat, attributedClose : Nat]

\* validate_reserve_config.
ValidateReserveConfig(c) ==
    /\ c.optUtil <= 100 /\ c.maxUtil \in c.optUtil .. 100
    /\ c.ltv < 100
    /\ c.bonus <= 100 /\ c.maxBonus \in c.bonus .. 100
    /\ c.threshold \in c.ltv .. 100 /\ c.maxThreshold \in c.threshold .. 100
    /\ c.minRate <= c.optRate /\ c.optRate <= c.maxRate /\ c.maxRate <= c.superMaxRate
    /\ c.borrowFee < Wad /\ c.hostPct <= 100
    /\ c.protocolLiqFee <= MaxProtocolFeeDecaBps
    /\ c.maxBonus * 100 + c.protocolLiqFee * 10 <= MaxBonusPct * 100
    /\ c.takeRate <= 100
    /\ c.isolated => c.ltv = 0 /\ c.threshold = 0
    /\ c.priceOffsetBps \in MinPriceOffsetBps .. MaxPriceOffsetBps
    /\ c.attributedOpen <= c.attributedClose

\* Reserve::init with ReserveLiquidity::new and ReserveCollateral::new.
NewReserve(slot, config, price, smoothed) ==
    [last |-> [slot |-> slot, stale |-> TRUE],
     available |-> 0, borrowed |-> 0, cumRate |-> Wad, fees |-> 0,
     price |-> price, smoothed |-> smoothed, extra |-> {},
     mintSupply |-> 0, config |-> config]

\* The invariant of the unsigned fields: every checked operation succeeded.
WellFormed(r) ==
    /\ FitsU64(r.available) /\ FitsU64(r.mintSupply)
    /\ Fits(r.borrowed) /\ Fits(r.fees)

----------------------------------------------------------------------------
(* Prices; extra is empty or holds the one extra oracle price. *)
BorrowWeight(r) == Wad + FromBps(r.config.addedWeightBps)
PriceScale(c) ==
    FromBps(10000 + Min({MaxPriceOffsetBps, Max({MinPriceOffsetBps, c.priceOffsetBps})}))
LoanToValueRatio(r) == FromPercent(r.config.ltv)

PriceUpperBound(r) == Max({r.price, r.smoothed} \cup r.extra)
PriceLowerBound(r) == Min({r.price, r.smoothed} \cup r.extra)

ValueAt(price, amount) == TryDiv(TryMul(price, amount), FromU64(MintUnit))
MarketValue(r, amount) == ValueAt(r.price, amount)
MarketValueUpperBound(r, amount) == ValueAt(PriceUpperBound(r), amount)
MarketValueLowerBound(r, amount) == ValueAt(PriceLowerBound(r), amount)

UsdToLiquidityLowerBound(r, value) ==
    TryDiv(TryMul(value, FromU64(MintUnit)), PriceUpperBound(r))

----------------------------------------------------------------------------
(* Liquidity and collateral *)
TotalSupply(r) == FromU64(r.available) + r.borrowed - r.fees

ExchangeRate(r) ==
    IF r.mintSupply = 0 \/ TotalSupply(r) = 0 THEN Wad
    ELSE TryDiv(FromU64(r.mintSupply), TotalSupply(r))
CollateralToLiquidity(r, amount) == TryDiv(amount, ExchangeRate(r))
LiquidityToCollateral(r, amount) == TryMul(amount, ExchangeRate(r))

\* Reserve::deposit_liquidity: the collateral it mints, and the reserve after.
CollateralFor(r, amount) == TryFloorU64(LiquidityToCollateral(r, FromU64(amount)))
DepositLiquidity(r, amount) ==
    [r EXCEPT !.mintSupply = @ + CollateralFor(r, amount), !.available = @ + amount]

\* Reserve::redeem_collateral: the liquidity it pays, and the reserve after.
LiquidityFor(r, collateral) == TryFloorU64(CollateralToLiquidity(r, FromU64(collateral)))
RedeemCollateral(r, collateral) ==
    [r EXCEPT !.available = @ - LiquidityFor(r, collateral), !.mintSupply = @ - collateral]

\* Plausible bug: the book rounds up what the transfer rounds down.
LiquidityBorrowCeil(r, amount) ==
    [r EXCEPT !.available = @ - TryCeilU64(amount), !.borrowed = @ + amount]

\* ReserveLiquidity::borrow takes a Decimal and pays its floor.
LiquidityBorrow(r, amount) ==
    [r EXCEPT !.available = @ - TryFloorU64(amount), !.borrowed = @ + amount]

\* ReserveLiquidity::repay: the settled amount is capped by what the reserve has lent.
LiquidityRepay(r, repay, settle) ==
    [r EXCEPT !.available = @ + repay, !.borrowed = @ - Min({settle, @})]

ForgiveDebt(r, amount) == [r EXCEPT !.borrowed = @ - amount]
Donate(r, amount) == [r EXCEPT !.available = @ + amount]

CalculateRedeemFees(r) == Min({r.available, TryFloorU64(r.fees)})
\* Plausible bug: fees paid out are still owed.
RedeemFeesStillOwed(r, amount) == [r EXCEPT !.available = @ - amount]
RedeemFees(r, amount) ==
    [r EXCEPT !.available = @ - amount, !.fees = @ - FromU64(amount)]

----------------------------------------------------------------------------
(* Interest *)
UtilizationRate(r) ==
    IF TotalSupply(r) = 0 \/ r.borrowed = 0 THEN 0
    ELSE TryDiv(r.borrowed, r.borrowed + FromU64(r.available))

\* Linear between two points of the curve.
Between(weight, low, high) == TryMul(weight, high - low) + low

CurrentBorrowRate(r) ==
    LET c == r.config
        u == UtilizationRate(r)
        opt == FromPercent(c.optUtil)
        max == FromPercent(c.maxUtil)
    IN  IF u <= opt
        THEN IF opt = 0 THEN FromPercent(c.minRate)
             ELSE Between(TryDiv(u, opt), FromPercent(c.minRate), FromPercent(c.optRate))
        ELSE IF u <= max
        THEN Between(TryDiv(u - opt, max - opt), FromPercent(c.optRate), FromPercent(c.maxRate))
        ELSE Between(TryDiv(u - max, FromPercent(100 - c.maxUtil)),
                     FromPercent(c.maxRate), FromPercent(c.superMaxRate))

CompoundInterest(r, rate, slots, takeRate) ==
    LET compounded == TryPow(Wad + TryDivInt(rate, SlotsPerYear), slots)
        newDebt == TryMul(r.borrowed, compounded) - r.borrowed
    IN  [r EXCEPT !.cumRate = TryMul(@, compounded),
                  !.fees = TryMul(newDebt, takeRate) + @,
                  !.borrowed = @ + newDebt]

AccrueInterest(r, slot) ==
    IF slot = r.last.slot THEN r
    ELSE CompoundInterest(r, CurrentBorrowRate(r), slot - r.last.slot,
                          FromPercent(r.config.takeRate))

----------------------------------------------------------------------------
(* Fees and the amounts of a borrow and a repayment *)
\* Fees of amount: added to it (exclusive) or contained in it (inclusive).
CalculateFees(c, amount, feeWad, inclusive) ==
    IF feeWad = 0 \/ amount = 0 THEN {[fee |-> 0, host |-> 0]}
    ELSE LET hosted == c.hostPct > 0
             rate == IF inclusive THEN TryDiv(feeWad, feeWad + Wad) ELSE feeWad
             fee == Max({TryMul(amount, rate), FromU64(IF hosted THEN 2 ELSE 1)})
             host == TryRoundU64(TryMul(fee, FromPercent(c.hostPct)))
         IN  {f \in {[fee  |-> TryRoundU64(fee),
                      host |-> IF hosted THEN Max({host, 1}) ELSE 0]} : fee < amount}

FlashLoanFees(c, amount) ==
    {[origination |-> f.fee - f.host, host |-> f.host] :
        f \in CalculateFees(c, amount, c.flashFee, FALSE)}

\* Reserve::calculate_borrow; amount is U64Max for as much as is allowed.
CalculateBorrow(r, amount, maxValue, remaining) ==
    IF amount = U64Max
    THEN LET byValue == TryDiv(TryDiv(TryMulInt(maxValue, MintUnit), PriceUpperBound(r)),
                               BorrowWeight(r))
             borrow == Min({byValue, remaining, FromU64(r.available)})
         IN  {[borrow |-> borrow, receive |-> TryFloorU64(borrow) - f.fee,
               fee |-> f.fee, host |-> f.host] :
                 f \in {g \in CalculateFees(r.config, borrow, r.config.borrowFee, TRUE) :
                            Fits(TryFloorU64(borrow) - g.fee)}}
    ELSE {b \in {[borrow |-> FromU64(amount + f.fee), receive |-> amount,
                  fee |-> f.fee, host |-> f.host] :
                    f \in CalculateFees(r.config, FromU64(amount), r.config.borrowFee, FALSE)} :
             TryMul(MarketValueUpperBound(r, b.borrow), BorrowWeight(r)) <= maxValue}

CalculateRepay(amount, borrowed) ==
    LET settle == IF amount = U64Max THEN borrowed ELSE Min({FromU64(amount), borrowed})
    IN  [settle |-> settle, repay |-> TryCeilU64(settle)]
============================================================================
