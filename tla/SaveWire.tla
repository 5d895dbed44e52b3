------------------------------ MODULE SaveWire ------------------------------
(***************************************************************************)
(* Calls of the Save program on their way: built by the SDK's constructors *)
(* or by the bundler, perhaps in an earlier and shorter form, decoded by   *)
(* unpack(), executed on one account, and that account read back by the    *)
(* SDK, through program upgrades.                                          *)
(*                                                                         *)
(* What the program stores is modelled from LendingInstruction's           *)
(* documentation and the init functions of the SDK's state.                *)
(***************************************************************************)
EXTENDS SaveCall, SaveAccounts

CONSTANTS Variant,      \* the value sets a call is built with; 0 has zero amounts
          Collaterals,  \* lists of reserves an obligation may hold
          Holdings,     \* the <<deposits, borrows>> of obligations that exist at the start
          MaxEdits      \* bound on edits

VARIABLES
    target,   \* the kind of account watched: "Reserve", "LendingMarket", "Obligation"
    account,  \* its bytes
    truth,    \* what was meant to be stored there, or Blank
    call,     \* the last call built, or Idle
    got,      \* what unpack() made of it, InFlight until it is delivered
    edits     \* changes of the account without a call (bounds the model)

vars == <<target, account, truth, call, got, edits>>

Blank == [version |-> 0]
Idle  == [by |-> "nobody"]
InFlight == [op |-> "in flight", vals |-> <<>>]

-----------------------------------------------------------------------------
(* Sample values: every field of every layout has a number of its own.     *)

Names == [i \in DOMAIN (ReserveWritten \o MarketWritten \o ObligationWritten) |->
            (ReserveWritten \o MarketWritten \o ObligationWritten)[i][1]]

Position(f) == SelectInSeq(Names, LAMBDA name : name = f)

Flags   == {"stale", "asset_type", "extra_price_flag", "closeable", "borrowing_isolated_asset"}
Options == {"extra_oracle_pubkey", "whitelisted_liquidator", "extra_price"}

Sample(f, k) ==
  CASE f \in Flags   -> k % 2
    [] f \in Options -> IF k = 1 THEN NoKey ELSE 70 * k + Position(f)
    [] f = "protocol_liquidation_fee" -> 48 + k
    [] f = "amount"  -> 255 * k
    [] OTHER         -> 70 * k + Position(f)

Samples(layout, k) == [f \in Fields(layout) |-> Sample(f, k)]

-----------------------------------------------------------------------------
(* The structs the program stores.                                         *)

ConfigFields == Fields(ConfigRead)

\* Reserve::init with ReserveLiquidity::new, then the initial deposit; 99 is one Wad.
InitialReserve(vals) ==
  [f \in ReserveFields |->
    CASE f \in ConfigFields -> vals[f]
      [] f = "version" -> ProgramVersion
      [] f = "stale" -> 1
      [] f \in {"available", "mint_total_supply"} -> vals.amount
      [] f \in {"borrowed_wads", "fees_wads", "attributed_borrow_value", "prev_qty", "cur_qty"} -> 0
      [] f = "cumulative_rate" -> 99
      [] f = "extra_price" -> NoKey
      [] f = "max_outflow" -> MaxU64
      [] f = "window_duration" -> 1
      [] OTHER -> Sample(f, 1)]

\* UpdateReserveConfig: the configuration and the limiter's, which starts over.
Reconfigured(r, vals) ==
  [f \in ReserveFields |->
    IF f \in ConfigFields \cup {"window_duration", "max_outflow"} THEN vals[f]
    ELSE IF f \in {"prev_qty", "cur_qty"} THEN 0
    ELSE IF f = "stale" THEN 1 ELSE r[f]]

\* LendingMarket::init
InitialMarket(vals) ==
  [f \in Fields(MarketRead) |->
    CASE f \in {"owner", "quote_currency"} -> vals[f]
      [] f = "version" -> ProgramVersion
      [] f = "whitelisted_liquidator" -> NoKey
      [] f = "risk_authority" -> vals.owner
      [] f = "max_outflow" -> MaxU64
      [] f \in {"window_duration", "window_start"} -> 1
      [] f \in {"prev_qty", "cur_qty"} -> 0
      [] OTHER -> Sample(f, 1)]

\* SetLendingMarketOwnerAndConfig
Reowned(m, vals) ==
  [f \in Fields(MarketRead) |->
    CASE f = "owner" -> vals.new_owner
      [] f \in {"whitelisted_liquidator", "risk_authority", "window_duration", "max_outflow"} ->
           vals[f]
      [] f \in {"prev_qty", "cur_qty"} -> 0
      [] OTHER -> m[f]]

\* Obligation::init, and the i-th entry of either vector.
NewObligation ==
  [head |-> [f \in Fields(ObligationRead) \ {"padding", "deposits_len", "borrows_len"} |->
               IF f = "version" THEN ProgramVersion ELSE Sample(f, 1)],
   deposits |-> <<>>, borrows |-> <<>>]
Entry(layout, i) == [f \in Fields(layout) \ {"padding"} |-> 10 * i + Len(f)]
Holding(d, b) ==
  [NewObligation EXCEPT !.deposits = [i \in 1 .. d |-> Entry(CollateralRead, i)],
                        !.borrows = [i \in 1 .. b |-> Entry(LiquidityRead, i)]]

-----------------------------------------------------------------------------
\* The calls that write a watched reserve or market.
Setup  == [Reserve |-> "InitReserve", LendingMarket |-> "InitLendingMarket"]
Change == [Reserve |-> "UpdateReserveConfig",
           LendingMarket |-> "SetLendingMarketOwnerAndConfig"]

Size == [Reserve |-> ReserveLen, LendingMarket |-> MarketLen, Obligation |-> ObligationLen]
Zeroed(kind) == [i \in 1 .. Size[kind] |-> ZeroByte]

Init ==
  /\ \/ /\ target \in {"Reserve", "LendingMarket"}
        /\ truth = Blank
        /\ account = Zeroed(target)
     \/ /\ target = "Obligation"
        /\ \E h \in Holdings : truth = Holding(h[1], h[2])
        /\ account = PackObligation(Zeroed(target), truth)
  /\ call = Idle
  /\ got = Refused
  /\ edits = 0

\* Initialization needs an untouched account, a change an initialized one.  The
\* other calls do not touch the watched account: they are built while it is blank.
Ready(op) ==
  /\ target \in DOMAIN Setup
  /\ \A t \in DOMAIN Setup \ {target} : op \notin {Setup[t], Change[t]}
  /\ IF op = Change[target] THEN truth \notin {Blank, Unreadable} ELSE truth = Blank

\* The SDK's constructors.
Build(op, k, reserves, host, oracle) ==
  /\ got # InFlight /\ Ready(op)
  /\ k = 0 => Fields(CallLayout(op)) \subseteq {"amount", "borrow_instruction_index"}
  /\ LET vals == Samples(CallLayout(op), k)
     IN  call' = [by |-> "sdk", op |-> op, vals |-> vals, whole |-> TRUE,
                  data |-> Data(op, vals), accounts |-> Built(reserves, host, oracle)[op],
                  documented |-> Documented[op] \o DocumentedReserves(op, reserves),
                  optional |-> DocumentedOptional(op, host)]
  /\ got' = InFlight
  /\ UNCHANGED <<target, account, truth, edits>>

\* The bundler's Save flash borrow and flash repay.
BuildByBundler(op, k) ==
  /\ got # InFlight /\ Ready(op)
  /\ LET vals == Samples(WriteLayout(op), k)
     IN  call' = [by |-> "bundler", op |-> op, vals |-> vals, whole |-> TRUE,
                  data |-> BundlerData(op, vals), accounts |-> BundlerAccounts[op],
                  documented |-> Documented[op], optional |-> <<>>]
  /\ got' = InFlight
  /\ UNCHANGED <<target, account, truth, edits>>

\* A client of an earlier version, whose message ends n bytes early.
Cut(n) ==
  /\ got = InFlight /\ call.by = "sdk" /\ call.whole /\ n \in 1 .. Len(call.data)
  /\ call' = [call EXCEPT !.data = SubSeq(@, 1, Len(@) - n), !.whole = FALSE]
  /\ UNCHANGED <<target, account, truth, got, edits>>

\* What the program does not decode, or cannot find its accounts for, fails.
Executed(d) == d # Refused /\ Meets(call.accounts, Documented[d.op])

Stored(d) ==
  CASE d.op = "InitReserve" -> PackReserve(account, InitialReserve(d.vals))
    [] d.op = "UpdateReserveConfig" ->
         PackReserve(account, Reconfigured(UnpackReserve(account), d.vals))
    [] d.op = "InitLendingMarket" -> PackMarket(account, InitialMarket(d.vals))
    [] d.op = "SetLendingMarketOwnerAndConfig" ->
         PackMarket(account, Reowned(UnpackMarket(account), d.vals))
    [] OTHER -> account

Meant ==
  CASE call.op = "InitReserve" -> InitialReserve(call.vals)
    [] call.op = "UpdateReserveConfig" -> Reconfigured(truth, call.vals)
    [] call.op = "InitLendingMarket" -> InitialMarket(call.vals)
    [] call.op = "SetLendingMarketOwnerAndConfig" -> Reowned(truth, call.vals)
    [] OTHER -> truth

Deliver ==
  /\ got = InFlight
  /\ LET d == Unpack(call.data)
     IN  /\ got' = d
         /\ account' = IF Executed(d) THEN Stored(d) ELSE account
         /\ truth' = IF Executed(d) THEN Meant ELSE truth
  /\ UNCHANGED <<target, call, edits>>

-----------------------------------------------------------------------------
(* The account between calls.                                              *)

Edit(new, bytes) ==
  /\ got # InFlight /\ edits < MaxEdits
  /\ truth' = new /\ account' = bytes /\ edits' = edits + 1
  /\ UNCHANGED <<target, call, got>>

\* Fields that upgrades of the program added to a reserve: zero in older accounts.
Added == {"max_utilization_rate", "super_max_borrow_rate", "max_liquidation_bonus",
          "max_liquidation_threshold", "scaled_price_offset_bps", "extra_oracle_pubkey",
          "extra_price_flag", "extra_price", "attributed_borrow_value",
          "attributed_borrow_limit_open", "attributed_borrow_limit_close"}

\* An account an earlier program wrote, whose protocol fee is a share of the bonus,
\* and what the upgraded program is to make of it.
LegacyReserve(k) ==
  /\ target = "Reserve" /\ truth = Blank
  /\ LET old == [f \in Fields(ReserveWritten) |->
                   CASE f = "version" -> ProgramVersion
                     [] f \in Added -> 0
                     [] f = "protocol_liquidation_fee" -> IF k = 1 THEN 30 ELSE 51
                     [] OTHER -> Sample(f, k)]
         now == [f \in ReserveFields |->
                   CASE f = "max_utilization_rate" -> old.optimal_utilization_rate
                     [] f = "super_max_borrow_rate" -> old.max_borrow_rate
                     [] f = "max_liquidation_bonus" -> old.liquidation_bonus
                     [] f = "max_liquidation_threshold" -> old.liquidation_threshold
                     [] f \in {"attributed_borrow_limit_open",
                               "attributed_borrow_limit_close"} -> MaxU64
                     [] f \in {"extra_oracle_pubkey", "extra_price"} -> NoKey
                     [] f = "protocol_liquidation_fee" -> IF k = 1 THEN 30 ELSE 50
                     [] OTHER -> old[f]]
     IN  Edit(now, Over(account, Write(ReserveWritten, old)))

\* A market from before the liquidator list and the risk authority.
LegacyMarket(k) ==
  /\ target = "LendingMarket" /\ truth = Blank
  /\ LET old == [f \in Fields(MarketWritten) |->
                   CASE f = "version" -> ProgramVersion
                     [] f \in {"whitelisted_liquidator", "risk_authority"} -> 0
                     [] OTHER -> Sample(f, k)]
     IN  Edit([old EXCEPT !.whitelisted_liquidator = NoKey, !.risk_authority = old.owner],
              Over(account, Write(MarketWritten, old)))

\* A refresh: read, new slot, prices and outflow, written back.
RefreshedWith(r, k) ==
  [f \in DOMAIN r |-> IF f \in {"slot", "stale", "market_price", "smoothed_price",
                                "extra_price", "cur_qty"} THEN Sample(f, k) ELSE r[f]]
Refresh(k) ==
  /\ target = "Reserve" /\ truth \notin {Blank, Unreadable}
  /\ Edit(RefreshedWith(truth, k), PackReserve(account, RefreshedWith(UnpackReserve(account), k)))

\* Obligations: an entry is added while there is room and, for a borrow, collateral;
\* a withdrawal, repayment or liquidation removes one.
Rewrite(change(_)) ==
  Edit(change(truth), PackObligation(account, change(UnpackObligation(account))))
Open == target = "Obligation" /\ truth # Unreadable

HasRoom == Len(truth.deposits) + Len(truth.borrows) < ObligationReserves

AddDeposit ==
  /\ Open /\ HasRoom
  /\ Rewrite(LAMBDA o : [o EXCEPT !.deposits =
                            Append(@, Entry(CollateralRead, 11 + edits))])
AddBorrow ==
  /\ Open /\ HasRoom /\ truth.deposits # <<>>
  /\ Rewrite(LAMBDA o : [o EXCEPT !.borrows = Append(@, Entry(LiquidityRead, 11 + edits))])
RemoveDeposit(i) ==
  /\ Open /\ i \in DOMAIN truth.deposits
  /\ Rewrite(LAMBDA o : [o EXCEPT !.deposits = RemoveAt(@, i)])
RemoveBorrow(i) ==
  /\ Open /\ i \in DOMAIN truth.borrows
  /\ Rewrite(LAMBDA o : [o EXCEPT !.borrows = RemoveAt(@, i)])

\* A later program, with a layout this SDK does not know, takes the account over.
NewerVersion ==
  /\ truth # Blank
  /\ Edit(Unreadable, Over(account, Bytes(ProgramVersion + 1, 1)))

-----------------------------------------------------------------------------
Next ==
  \/ \E k \in Variant :
       \/ \E op \in Callable, reserves \in Collaterals, host, oracle \in BOOLEAN :
            Build(op, k, reserves, host, oracle)
       \/ \E op \in DOMAIN BundlerAccounts : BuildByBundler(op, k)
  \/ \E n \in {1, 8, 32, Len(IF got = InFlight THEN call.data ELSE <<>>)} : Cut(n)
  \/ Deliver
  \/ \E k \in Variant \ {0} : LegacyReserve(k) \/ LegacyMarket(k) \/ Refresh(k)
  \/ AddDeposit \/ AddBorrow
  \/ \E i \in {1, ObligationReserves - 1} : RemoveDeposit(i) \/ RemoveBorrow(i)
  \/ NewerVersion

Spec == Init /\ [][Next]_vars

-----------------------------------------------------------------------------
(* Every call of the SDK means to the program what its builder said: whole, *)
(* it decodes to the same operation with the same values, whatever options  *)
(* it carries; cut short it is refused, never read as something else        *)
(* (pack() against unpack(); the metadata is read outside unpack()).        *)
DecodedIsBuilt ==
  got # InFlight /\ call # Idle /\ call.by = "sdk" =>
    CASE ~call.whole /\ call.op # "UpdateMarketMetadata" -> got = Refused
      [] ~call.whole /\ call.op = "UpdateMarketMetadata" -> got.op \in {"error", call.op}
      [] OTHER -> /\ got.op = call.op
                  /\ \A f \in Fields(WriteLayout(call.op)) : got.vals[f] = call.vals[f]

(* A call is executed only as the operation its builder names, and every    *)
(* call of the SDK gives the program the accounts it must find, signed and  *)
(* writable as it needs them: those documented for the operation, then the  *)
(* reserves RefreshObligation goes through.  Where the one optional account *)
(* is looked for is HostFeeReceiverAsDocumented.                            *)
CallReachesItsOperation ==
  call # Idle =>
    /\ call.by = "sdk" => Meets(call.accounts, call.documented)
    /\ got # InFlight /\ Executed(got) => got.op = call.op

(* instruction.rs:235, of BorrowObligationLiquidity, after "9. [] Token     *)
(* program id": "10 [optional, writable] Host fee receiver account": a call *)
(* that names a host fee receiver has it at that position.  The constructor *)
(* puts the collateral reserves there first (instruction.rs:1539-1545).     *)
HostFeeReceiverAsDocumented ==
  call # Idle /\ call.by = "sdk" => Meets(call.accounts, call.documented \o call.optional)

(* What the SDK reads from an account is what the calls and the program     *)
(* meant to be there: through every rewrite, an upgrade that added fields,  *)
(* and entries that came and went; a layout it does not know is refused and *)
(* an obligation never outgrows its account.                                *)
AccountReadsBack ==
  truth # Blank =>
    /\ Len(account) = Size[target]
    /\ truth = CASE target = "Reserve" -> UnpackReserve(account)
                 [] target = "LendingMarket" -> UnpackMarket(account)
                 [] target = "Obligation" -> UnpackObligation(account)

(* liquidations.rs:145, 178: "Build dedicated Save (Solend) Flash Borrow    *)
(* instruction matching official on-chain layout", and the same for the     *)
(* repayment: the program decodes the operation and values built.           *)
FlashCallDecodes ==
  got # InFlight /\ call # Idle /\ call.by = "bundler" =>
    got = [op |-> call.op, vals |-> call.vals]
=============================================================================
