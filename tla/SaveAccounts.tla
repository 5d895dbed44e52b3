---------------------------- MODULE SaveAccounts ----------------------------
(***************************************************************************)
(* Save's accounts as bytes: pack_into_slice and unpack_from_slice of      *)
(* Reserve, Obligation, LendingMarket and RateLimiter                      *)
(* (patches/solend-sdk/src/state/*.rs).                                    *)
(*                                                                         *)
(* Each of the two functions splits the account by its own list of widths, *)
(* so each has its own table.  A struct is a function from its fields to   *)
(* values, booleans as 0 and 1, None as NoKey.  An account is created      *)
(* zeroed; padding keeps the bytes it had, whatever they were.             *)
(***************************************************************************)
EXTENDS ByteLayout

ProgramVersion == 1
MaxProtocolLiquidationFee == 50  \* MAX_PROTOCOL_LIQUIDATION_FEE_DECA_BPS
MaxU64 == 99999

Unreadable == [version |-> Garbage]
Panicked   == <<>>

Larger(a, b)  == IF a > b THEN a ELSE b
Smaller(a, b) == IF a < b THEN a ELSE b
OrNone(key)   == IF key = 0 THEN NoKey ELSE key
OrZero(key)   == IF key = NoKey THEN 0 ELSE key

\* Writing a struct over an account leaves the bytes behind it as they were.
Over(account, bytes) == bytes \o SubSeq(account, Len(bytes) + 1, Len(account))

-----------------------------------------------------------------------------
(* RateLimiter, inside a reserve and a market.                             *)

LimiterWritten ==
  Of(8, <<"max_outflow", "window_duration">>) \o Of(16, <<"prev_qty">>)
  \o Of(8, <<"window_start">>) \o Of(16, <<"cur_qty">>)

LimiterRead ==
  Of(8, <<"max_outflow", "window_duration">>) \o Of(16, <<"prev_qty">>)
  \o Of(8, <<"window_start">>) \o Of(16, <<"cur_qty">>)

-----------------------------------------------------------------------------
(* Reserve.                                                                *)

ReserveWritten ==
  Of(1, <<"version">>) \o Of(8, <<"slot">>) \o Of(1, <<"stale">>)
  \o Of(32, <<"lending_market", "mint">>) \o Of(1, <<"decimals">>)
  \o Of(32, <<"supply", "pyth_oracle", "switchboard_oracle">>) \o Of(8, <<"available">>)
  \o Of(16, <<"borrowed_wads", "cumulative_rate", "market_price">>)
  \o Of(32, <<"collateral_mint">>) \o Of(8, <<"mint_total_supply">>)
  \o Of(32, <<"collateral_supply">>)
  \o Of(1, <<"optimal_utilization_rate", "loan_to_value_ratio", "liquidation_bonus",
             "liquidation_threshold", "min_borrow_rate", "optimal_borrow_rate",
             "max_borrow_rate">>)
  \o Of(8, <<"borrow_fee_wad", "flash_loan_fee_wad">>) \o Of(1, <<"host_fee_percentage">>)
  \o Of(8, <<"deposit_limit", "borrow_limit">>) \o Of(32, <<"fee_receiver">>)
  \o Of(1, <<"protocol_liquidation_fee", "protocol_take_rate">>) \o Of(16, <<"fees_wads">>)
  \o LimiterWritten
  \o Of(8, <<"added_borrow_weight_bps">>) \o Of(16, <<"smoothed_price">>)
  \o Of(1, <<"asset_type", "max_utilization_rate">>) \o Of(8, <<"super_max_borrow_rate">>)
  \o Of(1, <<"max_liquidation_bonus", "max_liquidation_threshold">>)
  \o Of(8, <<"scaled_price_offset_bps">>) \o Of(32, <<"extra_oracle_pubkey">>)
  \o Of(1, <<"extra_price_flag">>) \o Of(16, <<"extra_price", "attributed_borrow_value">>)
  \o Of(8, <<"attributed_borrow_limit_open", "attributed_borrow_limit_close">>)

ReserveRead ==
  Of(1, <<"version">>) \o Of(8, <<"slot">>) \o Of(1, <<"stale">>)
  \o Of(32, <<"lending_market", "mint">>) \o Of(1, <<"decimals">>)
  \o Of(32, <<"supply", "pyth_oracle", "switchboard_oracle">>) \o Of(8, <<"available">>)
  \o Of(16, <<"borrowed_wads", "cumulative_rate", "market_price">>)
  \o Of(32, <<"collateral_mint">>) \o Of(8, <<"mint_total_supply">>)
  \o Of(32, <<"collateral_supply">>)
  \o Of(1, <<"optimal_utilization_rate", "loan_to_value_ratio", "liquidation_bonus",
             "liquidation_threshold", "min_borrow_rate", "optimal_borrow_rate",
             "max_borrow_rate">>)
  \o Of(8, <<"borrow_fee_wad", "flash_loan_fee_wad">>) \o Of(1, <<"host_fee_percentage">>)
  \o Of(8, <<"deposit_limit", "borrow_limit">>) \o Of(32, <<"fee_receiver">>)
  \o Of(1, <<"protocol_liquidation_fee", "protocol_take_rate">>) \o Of(16, <<"fees_wads">>)
  \o LimiterRead
  \o Of(8, <<"added_borrow_weight_bps">>) \o Of(16, <<"smoothed_price">>)
  \o Of(1, <<"asset_type", "max_utilization_rate">>) \o Of(8, <<"super_max_borrow_rate">>)
  \o Of(1, <<"max_liquidation_bonus", "max_liquidation_threshold">>)
  \o Of(8, <<"scaled_price_offset_bps">>) \o Of(32, <<"extra_oracle_pubkey">>)
  \o Of(1, <<"extra_price_flag">>) \o Of(16, <<"extra_price", "attributed_borrow_value">>)
  \o Of(8, <<"attributed_borrow_limit_open", "attributed_borrow_limit_close">>)

ReserveLen == LengthOf(ReserveWritten) + 49

\* The price of the extra oracle is a flag and a price, its key zero when absent.
PackReserve(account, r) ==
  Over(account, Write(ReserveWritten,
    [r EXCEPT !.extra_oracle_pubkey = OrZero(@), !.extra_price = OrZero(@)]
      @@ "extra_price_flag" :> (IF r.extra_price = NoKey THEN 0 ELSE 1)))

\* Plausible bug: a zero left by an upgrade is taken at its word.
MigratedVerbatim(v) == v

\* What unpack makes of the fields that program upgrades added or reinterpreted.
Migrated(v) ==
  [v EXCEPT !.max_utilization_rate = Larger(v.optimal_utilization_rate, @),
            !.max_liquidation_bonus = Larger(v.liquidation_bonus, @),
            !.max_liquidation_threshold = Larger(v.liquidation_threshold, @),
            !.super_max_borrow_rate = Larger(v.max_borrow_rate, @),
            !.protocol_liquidation_fee = Smaller(MaxProtocolLiquidationFee, @),
            !.attributed_borrow_limit_open = IF @ = 0 THEN MaxU64 ELSE @,
            !.attributed_borrow_limit_close = IF @ = 0 THEN MaxU64 ELSE @]

ReserveFields == Fields(ReserveRead) \ {"extra_price_flag"}

UnpackReserve(account) ==
  LET v == Read(ReserveRead, account, 0).vals
  IN  IF \/ v.version \notin 0 .. ProgramVersion
         \/ \E f \in {"stale", "extra_price_flag", "asset_type"} : v[f] \notin {0, 1}
      THEN Unreadable
      ELSE Migrated([f \in ReserveFields |->
             CASE f = "extra_oracle_pubkey" -> OrNone(v[f])
               [] f = "extra_price" -> IF v.extra_price_flag = 0 THEN NoKey ELSE v[f]
               [] OTHER -> v[f]])

-----------------------------------------------------------------------------
(* LendingMarket.                                                          *)

MarketWritten ==
  Of(1, <<"version", "bump_seed">>)
  \o Of(32, <<"owner", "quote_currency", "token_program", "oracle_program",
              "switchboard_program">>)
  \o LimiterWritten \o Of(32, <<"whitelisted_liquidator", "risk_authority">>)

MarketRead ==
  Of(1, <<"version", "bump_seed">>)
  \o Of(32, <<"owner", "quote_currency", "token_program", "oracle_program",
              "switchboard_program">>)
  \o LimiterRead \o Of(32, <<"whitelisted_liquidator", "risk_authority">>)

MarketLen == LengthOf(MarketWritten) + 8

PackMarket(account, m) ==
  Over(account, Write(MarketWritten, [m EXCEPT !.whitelisted_liquidator = OrZero(@)]))

UnpackMarket(account) ==
  LET v == Read(MarketRead, account, 0).vals
  IN  IF v.version \notin 0 .. ProgramVersion THEN Unreadable
      ELSE [v EXCEPT !.whitelisted_liquidator = OrNone(@),
                     !.risk_authority = IF @ = 0 THEN v.owner ELSE @]

-----------------------------------------------------------------------------
(* Obligation: a head with two counts, then deposits, then borrows.        *)

ObligationWritten ==
  Of(1, <<"version">>) \o Of(8, <<"slot">>) \o Of(1, <<"stale">>)
  \o Of(32, <<"lending_market", "owner">>)
  \o Of(16, <<"deposited_value", "borrowed_value", "allowed_borrow_value",
              "unhealthy_borrow_value", "borrowed_value_upper_bound">>)
  \o Of(1, <<"borrowing_isolated_asset">>)
  \o Of(16, <<"super_unhealthy_borrow_value", "unweighted_borrowed_value">>)
  \o Of(1, <<"closeable">>) \o Of(14, <<"padding">>)
  \o Of(1, <<"deposits_len", "borrows_len">>)

ObligationRead ==
  Of(1, <<"version">>) \o Of(8, <<"slot">>) \o Of(1, <<"stale">>)
  \o Of(32, <<"lending_market", "owner">>)
  \o Of(16, <<"deposited_value", "borrowed_value", "allowed_borrow_value",
              "unhealthy_borrow_value", "borrowed_value_upper_bound">>)
  \o Of(1, <<"borrowing_isolated_asset">>)
  \o Of(16, <<"super_unhealthy_borrow_value", "unweighted_borrowed_value">>)
  \o Of(1, <<"closeable">>) \o Of(14, <<"padding">>)
  \o Of(1, <<"deposits_len", "borrows_len">>)

CollateralWritten ==
  Of(32, <<"reserve">>) \o Of(8, <<"deposited_amount">>)
  \o Of(16, <<"market_value", "attributed_borrow_value", "padding">>)
CollateralRead ==
  Of(32, <<"reserve">>) \o Of(8, <<"deposited_amount">>)
  \o Of(16, <<"market_value", "attributed_borrow_value", "padding">>)

LiquidityWritten ==
  Of(32, <<"reserve">>) \o Of(16, <<"cumulative_rate", "borrowed_wads", "market_value">>)
  \o Of(32, <<"padding">>)
LiquidityRead ==
  Of(32, <<"reserve">>) \o Of(16, <<"cumulative_rate", "borrowed_wads", "market_value">>)
  \o Of(32, <<"padding">>)

CollateralLen == LengthOf(CollateralWritten)
LiquidityLen  == LengthOf(LiquidityWritten)

ObligationReserves == 10
FlatLen == CollateralLen + LiquidityLen * (ObligationReserves - 1)
HeadLen == LengthOf(ObligationWritten)
ObligationLen == HeadLen + FlatLen

\* Padding between the fields, and a write that leaves it alone.
Padding == -3
Padded(struct) == struct @@ "padding" :> Padding
Unpadded(vals) == [f \in DOMAIN vals \ {"padding"} |-> vals[f]]
Into(account, bytes) ==
  [i \in DOMAIN account |->
     IF i > Len(bytes) \/ bytes[i][1] = Padding THEN account[i] ELSE bytes[i]]

WriteEntries(layout, entries) ==
  FlattenSeq([i \in DOMAIN entries |-> Write(layout, Padded(entries[i]))])

\* array_mut_ref panics on an entry past the end of the account.
PackObligation(account, o) ==
  LET entries == WriteEntries(CollateralWritten, o.deposits)
                   \o WriteEntries(LiquidityWritten, o.borrows)
      head == Write(ObligationWritten, Padded(o.head) @@ "deposits_len" :> Len(o.deposits)
                                         @@ "borrows_len" :> Len(o.borrows))
  IN  IF Len(entries) > FlatLen THEN Panicked ELSE Into(account, head \o entries)

ReadEntries(layout, account, at, n) ==
  [i \in 1 .. n |-> Unpadded(Read(layout, account, at + (i - 1) * LengthOf(layout)).vals)]

UnpackObligation(account) ==
  LET v == Read(ObligationRead, account, 0).vals
      d == v.deposits_len
  IN  IF \/ v.version \notin 0 .. ProgramVersion
         \/ \E f \in {"stale", "borrowing_isolated_asset", "closeable"} : v[f] \notin {0, 1}
      THEN Unreadable
      ELSE [head |-> [f \in DOMAIN v \ {"padding", "deposits_len", "borrows_len"} |-> v[f]],
            deposits |-> ReadEntries(CollateralRead, account, HeadLen, d),
            borrows |-> ReadEntries(LiquidityRead, account, HeadLen + d * CollateralLen,
                                    v.borrows_len)]
=============================================================================
