----------------------------- MODULE SaveMarket -----------------------------
(***************************************************************************)
(* The Save lending market that gyrfalcon borrows its fallback flash loans  *)
(* from: the SDK's reserves, obligations and outflow limiter under the      *)
(* instructions of the on-chain program.  The program itself is not in the  *)
(* repository; each action makes the SDK calls of its instruction in order, *)
(* with the checks that the SDK's types and comments say it makes, and the  *)
(* token transfers that go with their results.  An instruction that fails   *)
(* is rolled back, so failing is not being enabled.                         *)
(***************************************************************************)
EXTENDS SaveObligation, SaveRateLimiter

CONSTANTS
    Reserve, Owner,   \* reserves of the market, owners of obligations
    Configs,          \* Configs[r]: the configurations r may be given
    Quotes,           \* Quotes[r]: the oracle answers [price, smoothed, extra] for r
    Amounts,          \* token amounts in instructions, U64Max among them
    Tokens, Supplied, Pledged
                      \* at the start: the tokens the users hold and those deposited, per
                      \* reserve, and the deposits of each obligation
CONSTANT MaxInstructions   \* bound on executed

Quote == [price : Nat, smoothed : Nat, extra : SUBSET Nat]

ASSUME ConfigsAssumption ==
    \A r \in Reserve : /\ Configs[r] \subseteq ReserveConfig
                       /\ \E c \in Configs[r] : ValidateReserveConfig(c)
ASSUME QuotesAssumption ==
    \A r \in Reserve : /\ Quotes[r] \subseteq Quote
                       /\ \A q \in Quotes[r] : \A a, b \in q.extra : a = b
ASSUME AmountsAssumption == Amounts \subseteq Nat
ASSUME OwnersAssumption == IsFiniteSet(Owner)

VARIABLES
    oracle,             \* per reserve: what its oracles answer in this slot
    reserves, obligations,
    wallet, ctokens,    \* per reserve: the users' liquidity and collateral tokens
    vault,              \* per reserve: the token balance of its liquidity supply account
    flash,              \* the flash loans borrowed and not yet repaid in this transaction
    executed            \* instructions executed so far, refreshes apart (bounds the model)

marketVars == <<oracle, reserves, obligations, wallet, ctokens, vault, flash, executed>>
vars == <<marketVars, limiterVars>>

Answers == {f \in [Reserve -> UNION {Quotes[r] : r \in Reserve}] :
                \A r \in Reserve : f[r] \in Quotes[r]}
FirstConfig(r) == CHOOSE c \in Configs[r] : ValidateReserveConfig(c)

Total(f(_), entries) ==
    SumFunctionOnSet([i \in DOMAIN entries |-> f(entries[i])], DOMAIN entries)

\* The collateral of r in a list of deposits, and in all obligations.
Held(deposits, r) == Total(LAMBDA d : IF d.reserve = r THEN d.amount ELSE 0, deposits)
Collateral(obs, r) == SumFunctionOnSet([o \in Owner |-> Held(obs[o].deposits, r)], Owner)

ASSUME StockAssumption ==
    /\ Tokens \in [Reserve -> Nat] /\ Supplied \in [Reserve -> Nat]
    /\ Pledged \in Seq([reserve : Reserve, amount : Nat \ {0}, value : {0}])
    /\ \A r \in Reserve : Cardinality(Owner) * Held(Pledged, r) <= Supplied[r]

Init ==
    /\ LimiterInit
    /\ oracle \in Answers
    /\ reserves = [r \in Reserve |->
          DepositLiquidity(NewReserve(FirstSlot, FirstConfig(r), oracle[r].price,
                                      oracle[r].smoothed), Supplied[r])]
    /\ obligations = [o \in Owner |-> [NewObligation(FirstSlot) EXCEPT !.deposits = Pledged]]
    /\ wallet = Tokens
    /\ ctokens = [r \in Reserve |-> Supplied[r] - Collateral(obligations, r)]
    /\ vault = Supplied
    /\ flash = {}
    /\ executed = 0

----------------------------------------------------------------------------
FreshReserve(r) == ~IsStale(reserves[r], slot)
FreshObligation(o) == ~IsStale(obligations[o], slot)

\* The exchange rate can be computed and divided by.
Exchangeable(res) == Fits(TotalSupply(res)) /\ ExchangeRate(res) > 0

\* Store a reserve that every checked operation could compute, marked stale.
Store(r, new) ==
    /\ WellFormed(new)
    /\ reserves' = [reserves EXCEPT ![r] = MarkStale(new)]

StoreObligation(o, new) == obligations' = [obligations EXCEPT ![o] = MarkStale(new)]

\* Tokens between the users and r's supply account.
Pay(r, amount) ==
    /\ amount \in 0 .. wallet[r]
    /\ wallet' = [wallet EXCEPT ![r] = @ - amount]
    /\ vault' = [vault EXCEPT ![r] = @ + amount]

\* amount leaves the account, of which kept stays with the fee receivers.
Receive(r, amount, kept) ==
    /\ vault[r] >= amount
    /\ vault' = [vault EXCEPT ![r] = @ - amount]
    /\ wallet' = [wallet EXCEPT ![r] = @ + amount - kept]

Execute == executed < MaxInstructions /\ executed' = executed + 1 /\ UNCHANGED oracle
NoLimiter == UNCHANGED limiterVars
NoFlash == flash = {} /\ UNCHANGED flash

----------------------------------------------------------------------------
RefreshReserve(r) ==
    LET scale == PriceScale(reserves[r].config)
        q == oracle[r]
    IN  /\ slot # reserves[r].last.slot => Fits(TotalSupply(reserves[r]))
        /\ reserves' = [reserves EXCEPT ![r] =
              [AccrueInterest(@, slot) EXCEPT
                  !.price = TryMul(q.price, scale), !.smoothed = TryMul(q.smoothed, scale),
                  !.extra = q.extra, !.last = Fresh(slot)]]
        /\ UNCHANGED <<obligations, wallet, ctokens, vault, flash, executed, oracle, limiterVars>>

UpdateReserveConfig(r, c) ==
    /\ Execute /\ NoFlash /\ ValidateReserveConfig(c)
    /\ Store(r, [reserves[r] EXCEPT !.config = c])
    /\ UNCHANGED <<obligations, wallet, ctokens, vault, limiterVars>>

DepositReserveLiquidity(r, n) ==
    LET res == reserves[r]
    IN  /\ Execute /\ NoFlash /\ FreshReserve(r) /\ Fits(TotalSupply(res)) /\ n > 0
        /\ FromU64(n) + TotalSupply(res) <= FromU64(res.config.depositLimit)
        /\ Pay(r, n)
        /\ Store(r, DepositLiquidity(res, n))
        /\ ctokens' = [ctokens EXCEPT ![r] = @ + CollateralFor(res, n)]
        /\ UNCHANGED obligations /\ NoLimiter

RedeemReserveCollateral(r, asked) ==
    LET res == reserves[r]
        within == LiquidityToCollateral(res,
                      UsdToLiquidityLowerBound(res, RemainingOutflow(limiter, slot)))
        c == IF asked = U64Max THEN Min({ctokens[r], TryFloorU64(within)}) ELSE asked
        n == LiquidityFor(res, c)
    IN  /\ Execute /\ NoFlash /\ FreshReserve(r) /\ Exchangeable(res)
        /\ asked = U64Max => PriceUpperBound(res) > 0
        /\ c \in 1 .. ctokens[r]
        /\ Update(MarketValue(res, FromU64(n)))
        /\ Receive(r, n, 0)
        /\ Store(r, RedeemCollateral(res, c))
        /\ ctokens' = [ctokens EXCEPT ![r] = @ - c]
        /\ UNCHANGED obligations

----------------------------------------------------------------------------
\* The obligation with interest accrued and its values taken at the reserves' prices.
Refreshed(ob, res) ==
    LET amountOf(d) == CollateralToLiquidity(res[d.reserve], FromU64(d.amount))
        deposits == [i \in DOMAIN ob.deposits |-> [ob.deposits[i] EXCEPT
                       !.value = MarketValue(res[ob.deposits[i].reserve], amountOf(ob.deposits[i]))]]
        accrue(b) == Accrued(b, res[b.reserve].cumRate)
        borrows == [i \in DOMAIN ob.borrows |-> [accrue(ob.borrows[i]) EXCEPT
                       !.value = MarketValue(res[ob.borrows[i].reserve], accrue(ob.borrows[i]).amount)]]
        config(d) == res[d.reserve].config
        weigh(b, v) == TryMul(v, BorrowWeight(res[b.reserve]))
    IN  [ob EXCEPT
            !.deposits = deposits, !.borrows = borrows,
            !.depositedValue = Total(LAMBDA d : d.value, deposits),
            !.allowed = Total(LAMBDA d :
                TryMul(MarketValueLowerBound(res[d.reserve], amountOf(d)),
                       FromPercent(config(d).ltv)), deposits),
            !.unhealthy = Total(LAMBDA d :
                TryMul(d.value, FromPercent(config(d).threshold)), deposits),
            !.superUnhealthy = Total(LAMBDA d :
                TryMul(d.value, FromPercent(config(d).maxThreshold)), deposits),
            !.borrowedValue = Total(LAMBDA b : weigh(b, b.value), borrows),
            !.upperBound = Total(LAMBDA b :
                weigh(b, MarketValueUpperBound(res[b.reserve], b.amount)), borrows)]

RefreshObligation(o) ==
    LET ob == obligations[o]
    IN  /\ \A i \in DOMAIN ob.deposits : /\ FreshReserve(ob.deposits[i].reserve)
                                          /\ Exchangeable(reserves[ob.deposits[i].reserve])
        /\ \A i \in DOMAIN ob.borrows :
              /\ FreshReserve(ob.borrows[i].reserve)
              /\ RateNotNegative(ob.borrows[i], reserves[ob.borrows[i].reserve].cumRate)
        /\ obligations' = [obligations EXCEPT ![o] =
              [Refreshed(ob, reserves) EXCEPT !.last = Fresh(slot)]]
        /\ UNCHANGED <<reserves, wallet, ctokens, vault, flash, executed, oracle, limiterVars>>

DepositObligationCollateral(o, r, c) ==
    /\ Execute /\ NoFlash /\ FreshReserve(r) /\ c \in 1 .. ctokens[r]
    /\ ~reserves[r].config.isolated
    /\ Room(obligations[o], obligations[o].deposits, r)
    /\ StoreObligation(o, Deposited(obligations[o], r, c))
    /\ ctokens' = [ctokens EXCEPT ![r] = @ - c]
    /\ UNCHANGED <<reserves, wallet, vault>> /\ NoLimiter

WithdrawObligationCollateral(o, r, c) ==
    /\ Execute /\ NoFlash /\ FreshReserve(r) /\ FreshObligation(o)
    /\ \/ obligations[o].borrows = <<>> \/ reserves[r].config.ltv = 0
       \/ PriceLowerBound(reserves[r]) > 0 /\ Fits(TotalSupply(reserves[r]))
    /\ \E i \in Found(obligations[o].deposits, r) :
          LET most == MaxWithdrawAmount(obligations[o], i, reserves[r])
              n == IF c = U64Max THEN most ELSE c
          IN  /\ n \in 1 .. most
              /\ StoreObligation(o, Withdraw(obligations[o], n, i))
              /\ ctokens' = [ctokens EXCEPT ![r] = @ + n]
    /\ UNCHANGED <<reserves, wallet, vault>> /\ NoLimiter

BorrowObligationLiquidity(o, r, n) ==
    LET res == reserves[r]
        remaining == Max({0, FromU64(res.config.borrowLimit) - res.borrowed})
        value == RemainingBorrowValue(obligations[o])
        most == IF n = U64Max THEN Min({value, RemainingOutflow(limiter, slot)}) ELSE value
    IN  /\ Execute /\ NoFlash /\ FreshReserve(r) /\ FreshObligation(o)
        /\ n > 0 /\ obligations[o].deposits # <<>>
        /\ value > 0
        /\ IF n = U64Max THEN PriceUpperBound(res) > 0 ELSE FromU64(n) <= remaining
        /\ Room(obligations[o], obligations[o].borrows, r)
        /\ \E b \in CalculateBorrow(res, n, most, remaining) :
              /\ b.receive > 0
              /\ Update(MarketValue(res, b.borrow))
              /\ Store(r, LiquidityBorrow(res, b.borrow))
              /\ StoreObligation(o, Borrowed(obligations[o], r, res.cumRate, b.borrow))
              /\ Receive(r, b.receive + b.fee, b.fee)
        /\ UNCHANGED ctokens

RepayObligationLiquidity(o, r, n) ==
    /\ Execute /\ NoFlash /\ FreshReserve(r) /\ FreshObligation(o)
    /\ \E i \in Found(obligations[o].borrows, r) :
          LET p == CalculateRepay(n, obligations[o].borrows[i].amount)
          IN  /\ p.repay > 0
              /\ Pay(r, p.repay)
              /\ Store(r, LiquidityRepay(reserves[r], p.repay, p.settle))
              /\ StoreObligation(o, Repay(obligations[o], p.settle, i))
    /\ UNCHANGED ctokens /\ NoLimiter

(***************************************************************************)
(* LiquidateObligation: repay debt in rb, take collateral of rd with the    *)
(* bonus.  The liquidator, who is one of the users, gets the collateral     *)
(* tokens, or (LiquidateObligationAndRedeemReserveCollateral) what they     *)
(* redeem for, outside the outflow limit and less the protocol's fee.       *)
(***************************************************************************)
LiquidateObligation(o, rb, rd, n, redeem) ==
    LET ob == obligations[o]
        repaid(l) == MarkStale(LiquidityRepay(reserves[rb], l.repay, l.settle))
    IN  /\ Execute /\ flash \subseteq [reserve : {rb}, amount : Nat]
        /\ FreshReserve(rb) /\ FreshReserve(rd) /\ FreshObligation(o)
        /\ \E ib \in Found(ob.borrows, rb), id \in Found(ob.deposits, rd) :
             /\ ob.borrows[ib].value > 0 /\ ob.deposits[id].value > 0
             /\ \E bonus \in CalculateBonus(reserves[rd], ob) :
                \E l \in CalculateLiquidation(n, ob, ob.borrows[ib], ob.deposits[id], bonus) :
                   LET taken == MarkStale(RedeemCollateral(reserves[rd], l.withdraw))
                       out == LiquidityFor(reserves[rd], l.withdraw)
                       fee == ProtocolLiquidationFee(out, bonus)
                   IN  /\ l.repay \in 1 .. wallet[rb] /\ l.withdraw > 0
                       /\ WellFormed(repaid(l))
                       /\ StoreObligation(o, Withdraw(Repay(ob, l.settle, ib), l.withdraw, id))
                       /\ \/ /\ ~redeem
                             /\ Pay(rb, l.repay)
                             /\ reserves' = [reserves EXCEPT ![rb] = repaid(l)]
                             /\ ctokens' = [ctokens EXCEPT ![rd] = @ + l.withdraw]
                          \/ /\ redeem /\ Exchangeable(reserves[rd])
                             /\ WellFormed(taken) /\ fee <= out /\ UNCHANGED ctokens
                             /\ reserves' = [reserves EXCEPT ![rb] = repaid(l), ![rd] = taken]
                             /\ vault' = [vault EXCEPT ![rb] = @ + l.repay, ![rd] = @ - out]
                             /\ wallet' = [wallet EXCEPT ![rb] = @ - l.repay,
                                                        ![rd] = @ + out - fee]
        /\ UNCHANGED flash /\ NoLimiter

RedeemFeesOf(r) ==
    LET n == CalculateRedeemFees(reserves[r])
    IN  /\ Execute /\ NoFlash /\ FreshReserve(r) /\ n > 0
        /\ Receive(r, n, n)
        /\ Store(r, RedeemFees(reserves[r], n))
        /\ UNCHANGED <<obligations, ctokens>> /\ NoLimiter

\* The market's owner writes off what an obligation without collateral owes.
ForgiveObligationDebt(o, r, n) ==
    /\ Execute /\ NoFlash /\ FreshReserve(r) /\ FreshObligation(o) /\ obligations[o].deposits = <<>>
    /\ \E i \in Found(obligations[o].borrows, r) :
          LET p == CalculateRepay(n, obligations[o].borrows[i].amount)
          IN  /\ Store(r, ForgiveDebt(reserves[r], p.settle))
              /\ StoreObligation(o, Repay(obligations[o], p.settle, i))
    /\ UNCHANGED <<wallet, ctokens, vault>> /\ NoLimiter

DonateToReserve(r, n) ==
    /\ Execute /\ NoFlash /\ FreshReserve(r) /\ n > 0
    /\ Pay(r, n)
    /\ Store(r, Donate(reserves[r], n))
    /\ UNCHANGED <<obligations, ctokens>> /\ NoLimiter

SetObligationCloseability(o, closeable) ==
    /\ Execute /\ NoFlash
    /\ obligations' = [obligations EXCEPT ![o].closeable = closeable]
    /\ UNCHANGED <<reserves, wallet, ctokens, vault>> /\ NoLimiter

----------------------------------------------------------------------------
\* A flash loan spans the instructions of one transaction; its fees are due at the end.
\* Interest is first accrued to the clock's slot (the clock is one of its accounts).
FlashBorrowReserveLiquidity(r, n) ==
    LET now == [AccrueInterest(reserves[r], slot) EXCEPT !.last = Fresh(slot)]
    IN  /\ Execute /\ flash = {} /\ n \in 1 .. reserves[r].available
        /\ slot # reserves[r].last.slot => Fits(TotalSupply(reserves[r]))
        /\ FlashLoanFees(reserves[r].config, FromU64(n)) # {}
        /\ Store(r, LiquidityBorrow(now, FromU64(n)))
        /\ Receive(r, n, 0)
        /\ flash' = {[reserve |-> r, amount |-> n]}
        /\ UNCHANGED <<obligations, ctokens>> /\ NoLimiter

FlashRepayReserveLiquidity(r, n) ==
    /\ [reserve |-> r, amount |-> n] \in flash /\ UNCHANGED <<executed, oracle>>
    /\ \E f \in FlashLoanFees(reserves[r].config, FromU64(n)) :
          /\ wallet[r] >= n + f.origination + f.host
          /\ wallet' = [wallet EXCEPT ![r] = @ - n - f.origination - f.host]
          /\ vault' = [vault EXCEPT ![r] = @ + n]
    /\ Store(r, LiquidityRepay(reserves[r], n, FromU64(n)))
    /\ flash' = {}
    /\ UNCHANGED <<obligations, ctokens>> /\ NoLimiter

NextSlot ==
    /\ flash = {} /\ Tick /\ oracle' \in Answers
    /\ UNCHANGED <<reserves, obligations, wallet, ctokens, vault, flash, executed>>

Next ==
    \/ NextSlot
    \/ \E r \in Reserve :
          \/ RefreshReserve(r)
          \/ \E c \in Configs[r] : UpdateReserveConfig(r, c)
          \/ RedeemFeesOf(r)
          \/ \E n \in Amounts : \/ DepositReserveLiquidity(r, n)
                                \/ RedeemReserveCollateral(r, n)
                                \/ DonateToReserve(r, n)
                                \/ FlashBorrowReserveLiquidity(r, n)
                                \/ FlashRepayReserveLiquidity(r, n)
    \/ \E o \in Owner :
          \/ RefreshObligation(o)
          \/ \E b \in BOOLEAN : SetObligationCloseability(o, b)
          \/ \E r \in Reserve, n \in Amounts :
                \/ DepositObligationCollateral(o, r, n)
                \/ WithdrawObligationCollateral(o, r, n)
                \/ BorrowObligationLiquidity(o, r, n)
                \/ RepayObligationLiquidity(o, r, n)
                \/ ForgiveObligationDebt(o, r, n)
                \/ \E rd \in Reserve \ {r}, redeem \in BOOLEAN :
                      LiquidateObligation(o, r, rd, n, redeem)

Spec == Init /\ [][Next]_vars

----------------------------------------------------------------------------
(***************************************************************************)
(* A reserve's available_amount is the balance of its supply account, and   *)
(* its mint_total_supply the collateral tokens that exist: what borrow,     *)
(* redeem, repay and liquidate round, they round the same way in the book   *)
(* and in the transfer.                                                     *)
(***************************************************************************)
BookMatchesTokens ==
    \A r \in Reserve :
        /\ vault[r] = reserves[r].available
        /\ reserves[r].mintSupply =
              ctokens[r] + Collateral(obligations, r)

\* What the obligations owe r, with interest accrued to the rate r has reached, and
\* what is out as a flash loan.
Owed(bs, r) ==
    Total(LAMBDA b : IF b.reserve = r THEN Accrued(b, reserves[r].cumRate).amount ELSE 0, bs)
Debts(r) ==
    SumFunctionOnSet([o \in Owner |-> Owed(obligations[o].borrows, r)], Owner)
      + FromU64(MapThenSumSet(LAMBDA f : IF f.reserve = r THEN f.amount ELSE 0, flash))

(***************************************************************************)
(* What a reserve has lent, by its own book, is what its obligations owe it *)
(* and what is out as a flash loan, to less than one token: although the    *)
(* reserve compounds the total and each obligation its own debt, at         *)
(* different times and each rounding down, neither drifts away through      *)
(* loans, part repayments, liquidations and forgiven debt                   *)
(* (ReserveLiquidity::borrow, ::repay, ::forgive_debt, ::compound_interest, *)
(* ObligationLiquidity::accrue_interest).                                   *)
(***************************************************************************)
BorrowsMatchDebts ==
    \A r \in Reserve : LET drift == reserves[r].borrowed - Debts(r)
                       IN  -Wad < drift /\ drift < Wad

(***************************************************************************)
(* Whatever amount a liquidator asks for, calculate_liquidation takes no    *)
(* more collateral than there is, settles no more than is owed and no more  *)
(* than is paid; and debt worth more than one quote unit is settled only up *)
(* to the amount asked for, the close factor of the whole debt and the      *)
(* limit at once.                                                           *)
(***************************************************************************)
LiquidationBounded ==
    \A o \in Owner : FreshObligation(o) =>
      LET ob == obligations[o] IN
      \A b \in Range(ob.borrows), d \in Range(ob.deposits), n \in Amounts :
        b.value > 0 /\ d.value > 0 =>
          \A bonus \in CalculateBonus(reserves[d.reserve], ob) :
          \A l \in CalculateLiquidation(n, ob, b, d, bonus) :
             /\ l.withdraw <= d.amount /\ l.settle <= b.amount
             /\ l.settle <= FromU64(l.repay)
             /\ b.value > Wad =>
                  /\ l.settle <= FromU64(n)
                  /\ b.value * l.settle <= b.amount *
                        Min({TryMul(ob.borrowedValue, FromPercent(LiquidationCloseFactor)),
                             FromU64(MaxLiquidatableValue)})

(***************************************************************************)
(* What the collateral tokens of a reserve are worth together, while there  *)
(* are any, never falls by a token or more in a step, forgiven debt apart:  *)
(* no deposit, loan, repayment, liquidation or fee dilutes the lenders      *)
(* beyond the rounding of one exchange-rate conversion.                     *)
(***************************************************************************)
LendersNotDiluted ==
    [][(~ \E o \in Owner, r \in Reserve, n \in Amounts : ForgiveObligationDebt(o, r, n)) =>
        \A r \in Reserve : reserves[r].mintSupply > 0 =>
          (TotalSupply(reserves[r])' + Wad) * reserves[r].mintSupply
             > TotalSupply(reserves[r]) * reserves'[r].mintSupply]_vars

(***************************************************************************)
(* An owner cannot put its own obligation at risk: once a borrow or a       *)
(* withdrawal succeeds, the obligation refreshed at the same prices still   *)
(* owes no more, at the upper price bound and with borrow weights, than     *)
(* its remaining collateral allows at the lower bound.  (While the          *)
(* configurations stand: a refreshed obligation stays fresh through a       *)
(* change of its reserves' ratios, and is judged by the old ones.)          *)
(***************************************************************************)
UseLeavesObligationAllowed ==
    [][\A o \in Owner :
        (\E r \in Reserve, n \in Amounts : \/ BorrowObligationLiquidity(o, r, n)
                                           \/ WithdrawObligationCollateral(o, r, n))
          => LET after == Refreshed(obligations'[o], reserves')
             IN  after.upperBound <= after.allowed]_vars
============================================================================
