-------------------------- MODULE SaveInstruction ---------------------------
(***************************************************************************)
(* LendingInstruction (patches/solend-sdk/src/instruction.rs): the bytes   *)
(* pack() writes and unpack() reads for each operation of the Save         *)
(* program, and the accounts each takes: as the enum documents them and as *)
(* the SDK's constructors list them.                                       *)
(*                                                                         *)
(* pack() and unpack() are two hand-written lists, so each has its own     *)
(* table here; a field every operation calls its amount is "amount".       *)
(***************************************************************************)
EXTENDS ByteLayout

-----------------------------------------------------------------------------
(* unpack().                                                               *)

ConfigRead ==
  Of(1, <<"optimal_utilization_rate", "max_utilization_rate", "loan_to_value_ratio",
          "liquidation_bonus", "liquidation_threshold", "min_borrow_rate",
          "optimal_borrow_rate", "max_borrow_rate">>)
  \o Of(8, <<"super_max_borrow_rate", "borrow_fee_wad", "flash_loan_fee_wad">>)
  \o Of(1, <<"host_fee_percentage">>)
  \o Of(8, <<"deposit_limit", "borrow_limit">>)
  \o Of(32, <<"fee_receiver">>)
  \o Of(1, <<"protocol_liquidation_fee", "protocol_take_rate">>)
  \o Of(8, <<"added_borrow_weight_bps">>)
  \o Of(1, <<"asset_type", "max_liquidation_bonus", "max_liquidation_threshold">>)
  \o Of(8, <<"scaled_price_offset_bps">>)
  \o Of(OptKey, <<"extra_oracle_pubkey">>)
  \o Of(8, <<"attributed_borrow_limit_open", "attributed_borrow_limit_close">>)

OwnerRead ==
  Of(32, <<"new_owner">>) \o Of(8, <<"window_duration", "max_outflow">>)
  \o Of(OptKey, <<"whitelisted_liquidator">>) \o Of(32, <<"risk_authority">>)

UpdateRead == ConfigRead \o Of(8, <<"window_duration", "max_outflow">>)

\* unpack's match: the operation of each tag, counted from zero ...
Operation == <<
  "InitLendingMarket", "SetLendingMarketOwnerAndConfig", "InitReserve", "RefreshReserve",
  "DepositReserveLiquidity", "RedeemReserveCollateral", "InitObligation",
  "RefreshObligation", "DepositObligationCollateral", "WithdrawObligationCollateral",
  "BorrowObligationLiquidity", "RepayObligationLiquidity", "LiquidateObligation",
  "FlashLoan", "DepositReserveLiquidityAndObligationCollateral",
  "WithdrawObligationCollateralAndRedeemReserveCollateral", "UpdateReserveConfig",
  "LiquidateObligationAndRedeemReserveCollateral", "RedeemFees",
  "FlashBorrowReserveLiquidity", "FlashRepayReserveLiquidity", "ForgiveDebt",
  "UpdateMarketMetadata", "SetObligationCloseabilityStatus", "DonateToReserve" >>

Tag == 0 .. Len(Operation) - 1

\* ... and what is read after the tag.
ReadLayout(tag) ==
  CASE tag = 0 -> Of(32, <<"owner", "quote_currency">>)
    [] tag = 1 -> OwnerRead
    [] tag = 2 -> Of(8, <<"amount">>) \o ConfigRead
    [] tag = 16 -> UpdateRead
    [] tag = 20 -> Of(8, <<"amount">>) \o Of(1, <<"borrow_instruction_index">>)
    [] tag = 23 -> Of(1, <<"closeable">>)
    [] tag \in {3, 6, 7, 18, 22} -> <<>>
    [] OTHER -> Of(8, <<"amount">>)

Refused == [op |-> "error", vals |-> <<>>]

\* ReserveType::from_u8(..).unwrap() panics and a boolean is refused, unless 0 or 1;
\* for the program the two end alike: the instruction fails.
BadFlag(vals) ==
  \E f \in {"asset_type", "closeable"} \cap DOMAIN vals : vals[f] \notin {0, 1}

Unpack(buf) ==
  LET tag  == IF buf = <<>> THEN Garbage ELSE Value(SubSeq(buf, 1, 1))
      read == Read(ReadLayout(tag), buf, 1)
  IN  IF tag \notin Tag \/ ~read.ok \/ BadFlag(read.vals) THEN Refused
      ELSE [op |-> Operation[tag + 1], vals |-> read.vals]

-----------------------------------------------------------------------------
(* pack().                                                                 *)

\* Plausible bug: the two maxima are written where the struct declares them.
ConfigWrittenByStruct ==
  SubSeq(ConfigRead, 1, 4) \o SubSeq(ConfigRead, 20, 20) \o SubSeq(ConfigRead, 5, 5)
    \o SubSeq(ConfigRead, 21, 21) \o SubSeq(ConfigRead, 6, 19) \o SubSeq(ConfigRead, 22, 25)

ConfigWritten ==
  Of(1, <<"optimal_utilization_rate", "max_utilization_rate", "loan_to_value_ratio",
          "liquidation_bonus", "liquidation_threshold", "min_borrow_rate",
          "optimal_borrow_rate", "max_borrow_rate">>)
  \o Of(8, <<"super_max_borrow_rate", "borrow_fee_wad", "flash_loan_fee_wad">>)
  \o Of(1, <<"host_fee_percentage">>)
  \o Of(8, <<"deposit_limit", "borrow_limit">>)
  \o Of(32, <<"fee_receiver">>)
  \o Of(1, <<"protocol_liquidation_fee", "protocol_take_rate">>)
  \o Of(8, <<"added_borrow_weight_bps">>)
  \o Of(1, <<"asset_type", "max_liquidation_bonus", "max_liquidation_threshold">>)
  \o Of(8, <<"scaled_price_offset_bps">>)
  \o Of(OptKey, <<"extra_oracle_pubkey">>)
  \o Of(8, <<"attributed_borrow_limit_open", "attributed_borrow_limit_close">>)

OwnerWritten ==
  Of(32, <<"new_owner">>) \o Of(8, <<"window_duration", "max_outflow">>)
  \o Of(OptKey, <<"whitelisted_liquidator">>) \o Of(32, <<"risk_authority">>)

UpdateWritten == ConfigWritten \o Of(8, <<"window_duration", "max_outflow">>)

NoPayload == {"RefreshReserve", "InitObligation", "RefreshObligation", "RedeemFees"}

WriteLayout(op) ==
  CASE op = "InitLendingMarket" -> Of(32, <<"owner", "quote_currency">>)
    [] op = "SetLendingMarketOwnerAndConfig" -> OwnerWritten
    [] op = "InitReserve" -> Of(8, <<"amount">>) \o ConfigWritten
    [] op = "UpdateReserveConfig" -> UpdateWritten
    [] op = "FlashRepayReserveLiquidity" ->
         Of(8, <<"amount">>) \o Of(1, <<"borrow_instruction_index">>)
    [] op = "SetObligationCloseabilityStatus" -> Of(1, <<"closeable">>)
    [] op \in NoPayload \cup {"UpdateMarketMetadata"} -> <<>>
    [] OTHER -> Of(8, <<"amount">>)

\* The tag pack() pushes for each operation.
TagOf ==
  "InitLendingMarket" :> 0 @@ "SetLendingMarketOwnerAndConfig" :> 1 @@ "InitReserve" :> 2
  @@ "RefreshReserve" :> 3 @@ "DepositReserveLiquidity" :> 4
  @@ "RedeemReserveCollateral" :> 5 @@ "InitObligation" :> 6 @@ "RefreshObligation" :> 7
  @@ "DepositObligationCollateral" :> 8 @@ "WithdrawObligationCollateral" :> 9
  @@ "BorrowObligationLiquidity" :> 10 @@ "RepayObligationLiquidity" :> 11
  @@ "LiquidateObligation" :> 12 @@ "FlashLoan" :> 13
  @@ "DepositReserveLiquidityAndObligationCollateral" :> 14
  @@ "WithdrawObligationCollateralAndRedeemReserveCollateral" :> 15
  @@ "UpdateReserveConfig" :> 16 @@ "LiquidateObligationAndRedeemReserveCollateral" :> 17
  @@ "RedeemFees" :> 18 @@ "FlashBorrowReserveLiquidity" :> 19
  @@ "FlashRepayReserveLiquidity" :> 20 @@ "ForgiveDebt" :> 21
  @@ "SetObligationCloseabilityStatus" :> 23 @@ "DonateToReserve" :> 24

\* UpdateMarketMetadata "is too big to deserialize" and packs to nothing.
Pack(op, vals) ==
  IF op = "UpdateMarketMetadata" THEN <<>>
  ELSE Bytes(TagOf[op], 1) \o Write(WriteLayout(op), vals)
=============================================================================
