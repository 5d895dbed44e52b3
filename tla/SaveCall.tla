------------------------------ MODULE SaveCall ------------------------------
(***************************************************************************)
(* Calls of the Save program: the accounts LendingInstruction documents    *)
(* for each operation and those the SDK's constructors list                *)
(* (patches/solend-sdk/src/instruction.rs), and the two Save calls the     *)
(* bundler builds by hand (crates/bundler/src/liquidations.rs).            *)
(*                                                                         *)
(* An account is a role with the access the transaction gives it.  The     *)
(* program takes accounts by position.  The clock sysvar, optional         *)
(* everywhere it is documented, is left out.                               *)
(***************************************************************************)
EXTENDS SaveInstruction

R(who)  == [who |-> who, w |-> FALSE, s |-> FALSE]
W(who)  == [who |-> who, w |-> TRUE,  s |-> FALSE]
S(who)  == [who |-> who, w |-> FALSE, s |-> TRUE]
WS(who) == [who |-> who, w |-> TRUE,  s |-> TRUE]

-----------------------------------------------------------------------------
(* As documented, tags 0 to 6, 7 to 12, 13 to 17 and 18 to 24.             *)

DocumentedSetup ==
  "InitLendingMarket" :> <<W("market"), R("rent"), R("token"), R("oracleProgram"),
                           R("switchboardProgram")>>
  @@ "SetLendingMarketOwnerAndConfig" :> <<W("market"), S("marketOwner")>>
  @@ "InitReserve" :> <<W("sourceLiquidity"), W("destCollateral"), W("reserve"),
       R("liquidityMint"), W("liquiditySupply"), W("feeReceiver"), W("collateralMint"),
       W("collateralSupply"), R("pythProduct"), R("pythPrice"), R("switchboardFeed"),
       R("market"), R("authority"), S("marketOwner"), S("user"), R("rent"), R("token")>>
  @@ "RefreshReserve" :> <<W("reserve"), R("pythPrice"), R("switchboardFeed")>>
  @@ "DepositReserveLiquidity" :> <<W("sourceLiquidity"), W("destCollateral"), W("reserve"),
       W("liquiditySupply"), W("collateralMint"), R("market"), R("authority"), S("user"),
       R("token")>>
  @@ "RedeemReserveCollateral" :> <<W("sourceCollateral"), W("destLiquidity"), W("reserve"),
       W("collateralMint"), W("liquiditySupply"), R("market"), R("authority"), S("user"),
       R("token")>>
  @@ "InitObligation" :> <<W("obligation"), R("market"), S("owner"), R("rent"), R("token")>>

DocumentedObligation ==
  "RefreshObligation" :> <<W("obligation")>>
  @@ "DepositObligationCollateral" :> <<W("sourceCollateral"), W("collateralSupply"),
       W("reserve"), W("obligation"), R("market"), S("owner"), S("user"), R("token")>>
  @@ "WithdrawObligationCollateral" :> <<W("collateralSupply"), W("destCollateral"),
       R("reserve"), W("obligation"), R("market"), R("authority"), S("owner"), R("token")>>
  @@ "BorrowObligationLiquidity" :> <<W("liquiditySupply"), W("destLiquidity"), W("reserve"),
       W("feeReceiver"), W("obligation"), R("market"), R("authority"), S("owner"),
       R("token")>>
  @@ "RepayObligationLiquidity" :> <<W("sourceLiquidity"), W("liquiditySupply"),
       W("reserve"), W("obligation"), R("market"), S("user"), R("token")>>
  @@ "LiquidateObligation" :> <<W("sourceLiquidity"), W("destCollateral"),
       W("repayReserve"), W("repaySupply"), R("withdrawReserve"), W("withdrawCollateral"),
       W("obligation"), R("market"), R("authority"), S("user"), R("token")>>

DocumentedCombined ==
  "FlashLoan" :> <<W("liquiditySupply"), W("destLiquidity"), W("reserve"),
       W("feeReceiver"), W("hostFeeReceiver"), R("market"), R("authority"), R("token"),
       R("receiverProgram")>>
  @@ "DepositReserveLiquidityAndObligationCollateral" :> <<W("sourceLiquidity"),
       W("destCollateral"), W("reserve"), W("liquiditySupply"), W("collateralMint"),
       R("market"), R("authority"), W("collateralSupply"), W("obligation"), S("owner"),
       R("pythPrice"), R("switchboardFeed"), S("user"), R("token")>>
  @@ "WithdrawObligationCollateralAndRedeemReserveCollateral" :> <<W("collateralSupply"),
       W("destCollateral"), W("reserve"), W("obligation"), R("market"), R("authority"),
       W("destLiquidity"), W("collateralMint"), W("liquiditySupply"), S("owner"), S("user"),
       R("token")>>
  @@ "UpdateReserveConfig" :> <<W("reserve"), R("market"), R("authority"),
       S("marketOwner"), R("pythProduct"), R("pythPrice"), R("switchboardFeed")>>
  @@ "LiquidateObligationAndRedeemReserveCollateral" :> <<W("sourceLiquidity"),
       W("destCollateral"), W("destLiquidity"), W("repayReserve"), W("repaySupply"),
       W("withdrawReserve"), W("withdrawMint"), W("withdrawCollateral"), W("withdrawSupply"),
       W("feeReceiver"), W("obligation"), R("market"), R("authority"), S("user"), R("token")>>

DocumentedFlash ==
  "RedeemFees" :> <<W("reserve"), W("feeReceiver"), W("liquiditySupply"), R("market"),
                    R("authority"), R("token")>>
  @@ "FlashBorrowReserveLiquidity" :> <<W("liquiditySupply"), W("destLiquidity"),
       W("reserve"), R("market"), R("authority"), R("instructions"), R("token")>>
  @@ "FlashRepayReserveLiquidity" :> <<W("sourceLiquidity"), W("liquiditySupply"),
       W("feeReceiver"), W("hostFeeReceiver"), W("reserve"), R("market"), S("user"),
       R("instructions"), R("token")>>
  @@ "ForgiveDebt" :> <<W("obligation"), W("reserve"), R("market"), S("marketOwner")>>
  @@ "UpdateMarketMetadata" :> <<R("market"), S("marketOwner"), W("metadata"), R("system")>>
  @@ "SetObligationCloseabilityStatus" :> <<W("obligation"), R("market"), R("reserve"),
                                            S("riskAuthority")>>
  @@ "DonateToReserve" :> <<W("sourceLiquidity"), W("liquiditySupply"), W("reserve"),
                            R("market"), S("user"), R("token")>>

\* The accounts every call of an operation lists.
Documented == DocumentedSetup @@ DocumentedObligation @@ DocumentedCombined @@ DocumentedFlash

Writable(reserves) == [i \in DOMAIN reserves |-> W(reserves[i])]
When(given, account) == IF given THEN <<account>> ELSE <<>>

\* What is documented to follow them: the obligation's reserves, in order (those of
\* its borrows need not be writable; here all hold deposits), and the optional host
\* fee receiver, "10" where the token program is "9".
DocumentedReserves(op, reserves) == IF op = "RefreshObligation" THEN Writable(reserves) ELSE <<>>
DocumentedOptional(op, host) ==
  When(host /\ op = "BorrowObligationLiquidity", W("hostFeeReceiver"))

\* next_account_info by next_account_info: the program finds what it expects at
\* each position, signed and writable where it must be.
Meets(accounts, expected) ==
  /\ Len(accounts) >= Len(expected)
  /\ \A i \in DOMAIN expected : /\ accounts[i].who = expected[i].who
                                /\ expected[i].w => accounts[i].w
                                /\ expected[i].s => accounts[i].s

-----------------------------------------------------------------------------
(* As the SDK's constructors build them, in the file's order.  The lists   *)
(* that depend on the call end with the reserves of the obligation, all    *)
(* writable, a host fee receiver, or the extra oracle of the reserve.      *)

BuiltSetup(oracle) ==
  "InitLendingMarket" :> <<W("market"), R("rent"), R("token"), R("oracleProgram"),
                           R("switchboardProgram")>>
  @@ "SetLendingMarketOwnerAndConfig" :> <<W("market"), S("marketOwner")>>
  @@ "InitReserve" :> <<W("sourceLiquidity"), W("destCollateral"), W("reserve"),
       R("liquidityMint"), W("liquiditySupply"), W("feeReceiver"), W("collateralMint"),
       W("collateralSupply"), R("pythProduct"), R("pythPrice"), R("switchboardFeed"),
       R("market"), R("authority"), S("marketOwner"), S("user"), R("rent"), R("token")>>
       \o When(oracle, R("extraOracle"))
  @@ "RefreshReserve" :> <<W("reserve"), R("pythPrice"), R("switchboardFeed")>>
                           \o When(oracle, R("extraOracle"))

BuiltDeposits(reserves) ==
  "DepositReserveLiquidity" :> <<W("sourceLiquidity"), W("destCollateral"), W("reserve"),
       W("liquiditySupply"), W("collateralMint"), R("market"), R("authority"), S("user"),
       R("token")>>
  @@ "RedeemReserveCollateral" :> <<W("sourceCollateral"), W("destLiquidity"), W("reserve"),
       W("collateralMint"), W("liquiditySupply"), W("market"), R("authority"), S("user"),
       R("token")>>
  @@ "InitObligation" :> <<W("obligation"), R("market"), S("owner"), R("rent"), R("token")>>
  @@ "RefreshObligation" :> <<W("obligation")>> \o Writable(reserves)
  @@ "DepositObligationCollateral" :> <<W("sourceCollateral"), W("collateralSupply"),
       W("reserve"), W("obligation"), R("market"), S("owner"), S("user"), R("token")>>

\* Plausible bug: the token account the liquidity goes to is listed first.
BuiltWithdrawalsReordered(reserves) ==
  "DepositReserveLiquidityAndObligationCollateral" :> <<W("sourceLiquidity"),
       W("destCollateral"), W("reserve"), W("liquiditySupply"), W("collateralMint"),
       R("market"), R("authority"), W("collateralSupply"), W("obligation"), WS("owner"),
       R("pythPrice"), R("switchboardFeed"), S("user"), R("token")>>
  @@ "WithdrawObligationCollateralAndRedeemReserveCollateral" :> <<W("collateralSupply"),
       W("destCollateral"), W("reserve"), W("obligation"), W("market"), R("authority"),
       W("destLiquidity"), W("collateralMint"), W("liquiditySupply"), S("owner"), S("user"),
       R("token")>> \o Writable(reserves)
  @@ "WithdrawObligationCollateral" :> <<W("destCollateral"), W("collateralSupply"),
       R("reserve"), W("obligation"), R("market"), R("authority"), S("owner"), R("token")>>
       \o Writable(reserves)

BuiltWithdrawals(reserves) ==
  "DepositReserveLiquidityAndObligationCollateral" :> <<W("sourceLiquidity"),
       W("destCollateral"), W("reserve"), W("liquiditySupply"), W("collateralMint"),
       R("market"), R("authority"), W("collateralSupply"), W("obligation"), WS("owner"),
       R("pythPrice"), R("switchboardFeed"), S("user"), R("token")>>
  @@ "WithdrawObligationCollateralAndRedeemReserveCollateral" :> <<W("collateralSupply"),
       W("destCollateral"), W("reserve"), W("obligation"), W("market"), R("authority"),
       W("destLiquidity"), W("collateralMint"), W("liquiditySupply"), S("owner"), S("user"),
       R("token")>> \o Writable(reserves)
  @@ "WithdrawObligationCollateral" :> <<W("collateralSupply"), W("destCollateral"),
       R("reserve"), W("obligation"), R("market"), R("authority"), S("owner"), R("token")>>
       \o Writable(reserves)

BuiltLoans(reserves, host, oracle) ==
  "BorrowObligationLiquidity" :> <<W("liquiditySupply"), W("destLiquidity"), W("reserve"),
       W("feeReceiver"), W("obligation"), W("market"), R("authority"), S("owner"),
       R("token")>> \o Writable(reserves) \o When(host, W("hostFeeReceiver"))
  @@ "RepayObligationLiquidity" :> <<W("sourceLiquidity"), W("liquiditySupply"),
       W("reserve"), W("obligation"), R("market"), S("user"), R("token")>>
  @@ "LiquidateObligation" :> <<W("sourceLiquidity"), W("destCollateral"),
       W("repayReserve"), W("repaySupply"), R("withdrawReserve"), W("withdrawCollateral"),
       W("obligation"), R("market"), R("authority"), S("user"), R("token")>>
  @@ "UpdateReserveConfig" :> <<W("reserve"), R("market"), R("authority"),
       S("marketOwner"), R("pythProduct"), R("pythPrice"), R("switchboardFeed")>>
       \o When(oracle, R("extraOracle"))

BuiltLiquidations ==
  "LiquidateObligationAndRedeemReserveCollateral" :> <<W("sourceLiquidity"),
       W("destCollateral"), W("destLiquidity"), W("repayReserve"), W("repaySupply"),
       W("withdrawReserve"), W("withdrawMint"), W("withdrawCollateral"), W("withdrawSupply"),
       W("feeReceiver"), W("obligation"), W("market"), R("authority"), S("user"), R("token")>>
  @@ "RedeemFees" :> <<W("reserve"), W("feeReceiver"), W("liquiditySupply"), R("market"),
                       R("authority"), R("token")>>
  @@ "FlashBorrowReserveLiquidity" :> <<W("liquiditySupply"), W("destLiquidity"),
       W("reserve"), R("market"), R("authority"), R("instructions"), R("token")>>
  @@ "FlashRepayReserveLiquidity" :> <<W("sourceLiquidity"), W("liquiditySupply"),
       W("feeReceiver"), W("hostFeeReceiver"), W("reserve"), R("market"), S("user"),
       R("instructions"), R("token")>>

BuiltAdministration ==
  "ForgiveDebt" :> <<W("obligation"), W("reserve"), R("market"), S("marketOwner")>>
  @@ "UpdateMarketMetadata" :> <<R("market"), WS("marketOwner"), W("metadata"), R("system")>>
  @@ "SetObligationCloseabilityStatus" :> <<W("obligation"), R("market"), R("reserve"),
                                            S("riskAuthority")>>
  @@ "DonateToReserve" :> <<W("sourceLiquidity"), W("liquiditySupply"), W("reserve"),
                            R("market"), S("user"), R("token")>>

Built(reserves, host, oracle) ==
  BuiltSetup(oracle) @@ BuiltDeposits(reserves) @@ BuiltWithdrawals(reserves)
    @@ BuiltLoans(reserves, host, oracle) @@ BuiltLiquidations @@ BuiltAdministration

\* The operations with a constructor: all but the deprecated FlashLoan.
Callable == DOMAIN Built(<<>>, FALSE, FALSE)

\* LendingMarketMetadata, 829 bytes that new_from_bytes takes only whole.
MetadataLayout == Of(1, <<"bump_seed">>) \o Of(828, <<"metadata">>)

\* The data of the built instruction; only update_market_metadata bypasses pack().
CallLayout(op) == IF op = "UpdateMarketMetadata" THEN MetadataLayout ELSE WriteLayout(op)

Data(op, vals) ==
  IF op = "UpdateMarketMetadata" THEN Bytes(22, 1) \o Write(MetadataLayout, vals)
  ELSE Pack(op, vals)

-----------------------------------------------------------------------------
(* The bundler's hand-built Save calls, named for what they mean to call.  *)

BundlerTag == "FlashBorrowReserveLiquidity" :> 14 @@ "FlashRepayReserveLiquidity" :> 15

BundlerData(op, vals) ==
  Bytes(BundlerTag[op], 1) \o Bytes(vals["amount"], 8)
    \o IF op = "FlashRepayReserveLiquidity" THEN Bytes(vals["borrow_instruction_index"], 1)
       ELSE <<>>

BundlerAccounts ==
  "FlashBorrowReserveLiquidity" :> <<W("liquiditySupply"), W("destLiquidity"),
       W("reserve"), R("market"), R("authority"), R("instructions"), R("token")>>
  @@ "FlashRepayReserveLiquidity" :> <<W("sourceLiquidity"), W("liquiditySupply"),
       W("feeReceiver"), W("hostFeeReceiver"), W("reserve"), R("market"), S("user"),
       R("instructions"), R("token")>>
=============================================================================
