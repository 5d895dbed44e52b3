# gyrfalcon: a TLA+ model of the liquidation engine

gyrfalcon is a Rust daemon that watches Solana lending accounts, detects
positions that breach their liquidation threshold, sizes and routes a
flash-loan-funded liquidation, and submits the bundle over two paths at once.
The repository also carries a patched copy of the SDK of Save (Solend), the
lending market it takes fallback flash loans from.  This directory models the
parts of both where order, time, failure, rounding and bookkeeping decide
correctness, checks them with TLC on small instances, and proves the central
invariants of all but the message formats with TLAPS for every value of the constants.

Paths below are relative to `src/crates/`, those of the Save SDK to
`src/patches/solend-sdk/src/`.

## 1. The system

| Part | State it keeps | Operations | Interacts with | Module |
|---|---|---|---|---|
| Engine loop (`gyrfalcon-bin/src/main.rs`) | slot counter, dashboard counters, effective mode | one pass per account update | calls every other part; awaits `submit` inline | `EngineLoop` |
| Circuit breakers (`strategy/src/breakers.rs`) | revert streak and out-of-rotation flag per route, three halt flags | record success/revert, re-arm, setters, `allows` | owned by the loop; the ledger and the treasury feed two setters | `Breakers`, `RiskControls` |
| Dual-path submitter (`submit/src/dual_path.rs`) | leader schedule; per call: two HTTP requests and a timer | `submit` | remote endpoints; loop awaits it | `Submitter`, `DualPathSubmitter` |
| Liquidation log (`store/src/liquidation_log.rs`) | records in memory, a JSONL file | `open`, `append` | the file system | `JsonlFile`, `LiquidationLog`, `LogStore` |
| Asynchronous writer (same file) | bounded channel, writer task | `try_record`, `record`, drop | loop sends, task writes | `AsyncLiquidationWriter`, `LogStore` |
| Kamino adapter (`health/src/adapters/kamino.rs`) | last reserve and market accounts, known obligations, two slot marks | `on_account_update`, `close_factor`, `position_count`, `sync_lag_slots` | fed by the loop, answers candidates | `KaminoAdapter` |
| Arbitration, slot budget (`strategy/src/arbitration.rs`, `treasury_check.rs`) | per window: locked reserves, committed tips | `arbitrate`, `check`, `commit` | pure but for the budget | `Arbitration` |
| Sizing (`strategy/src/sizing.rs`) | per call: size, step count | `size_position_with_feasibility` | a route's feasibility oracle | `SizingStepDown` |
| PnL ledger (`treasury/src/pnl_ledger.rs`) | entries, a snapshot file | record, sum, prune, snapshot, restore | drawdown breaker | `PnlLedger`, `RiskControls` |
| Treasury balance check (`treasury/src/sweep.rs`) | none | `is_below_minimum_balance` | treasury breaker | `RiskControls` |
| Flash router (`router/src/lib.rs`), `size_and_route`, simulator (`sim/src/simulator.rs`) | reserves by key, the Save gate | observe, route, size, simulate | fed by accounts, called by the loop | `FlashRouting` |
| Save market (SDK: `state/reserve.rs`, `obligation.rs`, `rate_limiter.rs`, `last_update.rs`, `math/`) | reserves, obligations, the outflow limiter | accrue, deposit, redeem, borrow, repay, liquidate, fees, flash loans, rounding | the on-chain program calls it; the router reads its reserves | `SaveMath`, `SaveReserve`, `SaveObligation`, `SaveRateLimiter`, `SaveMarket` |
| Save messages and accounts (SDK: `instruction.rs`, the `Pack` parts of `state/`; bundler: `bundler/src/liquidations.rs`) | bytes | pack, unpack, constructors | client, program, account readers | `ByteLayout`, `SaveInstruction`, `SaveCall`, `SaveAccounts`, `SaveWire` |
| Ingestion, account sync, position book, DEX router, dynamic tips, replay, rest of the bundler, config, dashboard, readiness check | see section 6 | | | not modelled |

What is hard here, and what the properties are for, is listed under `hazards` in
`PROJECT.json`: a breaker consulted under one key and updated under another; two
legs and three timers racing in one call; a log written by a task the loop never
waits for; account updates in any order; a window of candidates competing for
reserves and for one tip budget; files cut off by a kill; a market whose reserves
and obligations accrue interest and round separately; messages and accounts laid
out by two hand-written lists each, one to write and one to read.

How the modules fit together:

    EngineLoop --INSTANCE--> Breakers
               --INSTANCE--> Submitter  <--implements-- DualPathSubmitter
               --INSTANCE--> AsyncLiquidationWriter --EXTENDS--> JsonlFile
    LogStore --EXTENDS--> AsyncLiquidationWriter
             --INSTANCE--> LiquidationLog --EXTENDS--> JsonlFile
    RiskControls --EXTENDS--> Breakers
                 --INSTANCE--> PnlLedger
    SaveMarket --EXTENDS--> SaveObligation --EXTENDS--> SaveReserve --EXTENDS--> SaveMath
               --EXTENDS--> SaveRateLimiter --EXTENDS--> SaveMath
    SaveWire --EXTENDS--> SaveCall --EXTENDS--> SaveInstruction --EXTENDS--> ByteLayout
             --EXTENDS--> SaveAccounts --EXTENDS--> ByteLayout
    KaminoAdapter, FlashRouting, SizingStepDown and Arbitration stand alone, the
    stages of one candidate's way; MCStrategy checks all four in one run
    RiskControlsProofs, EngineLoopProofs, DualPathSubmitterProofs, LogStoreProofs,
    KaminoAdapterProofs and SaveMarketProofs extend their module and TLAPS;
    StrategyProofs extends Arbitration, SizingStepDown and FlashRouting;
    SumLemmas, about sums over finite sets, is extended by those that need it

Each `MC*` module gives names to the model values and sets that its `.cfg`
assigns to the constants; `MCStrategy` also puts its four machines side by side.  Operators introduced by "Plausible bug:" are the
mutated forms of the definition that follows them; nothing uses them.

## 2. Modules and code

**Breakers.** `consecutiveReverts` and `outOfRotation` are the two route maps
(an absent entry is 0, respectively not out), the three flags are
`treasury_below_floor`, `drawdown_tripped` and the protocols of
`protocols_halted_for_sync_lag`.  One action per method; `Allows` is `allows`
with its order of checks.  The revert limit is passed by the caller, as in the
code, from one configured value.  `MaxReverts` bounds the counters.  `Restart` is
the daemon's next start: nothing of the state is persisted.

**Submitter.** What a caller of the `Submitter` trait may rely on: a call that is
pending collects path outcomes until it expires, returns the image of one of the
outcomes it has, or `NotIncluded` when it has none and has expired.  The engine
loop is checked against this contract.

**DualPathSubmitter.** The actual race.  `path[p]` is the state of a leg's
future, `clock` the ticks of 100 ms since the call began, `timeouts` the two
HTTP client timeouts and the call's own, `schedule` the leader schedule that
gates the Jito leg.  A leg resolves by an answer (an HTTP success counts as
`Landed`, another status as `Reverted`), a transport error or its client's
timeout (both `TimedOut`); `Return(p)` is the next poll of `select!`, which may
take either of two resolved legs; `Elapsed` is `tokio::time::timeout`, which
polls the race before its timer and so fires only when no leg has resolved.
`Tick` is time: the runtime is assumed prompt, that is, due timers fire and woken
futures are polled before the next 100 ms.

**JsonlFile, LiquidationLog, AsyncLiquidationWriter.** `writeln!` on an
unbuffered file is two writes, so the file is a sequence of pieces (a record's
text, its torn beginning, a newline) and appends are split between them.  In
`LiquidationLog` any write may fail, the process may be killed and the machine
may lose power (and any suffix of the file, as nothing calls fsync) between any
two steps; `power` remembers that it never did.  The caller is taken to give up
a record whose append failed.  In `AsyncLiquidationWriter` the bounded channel,
`try_record` and `record`, the task with its swallowed errors, the drop of the
sender and the teardown of the runtime are actions; `accepted`, `refused` and
`lost` are history.

**LogStore.** The two writers of one file in the order they use it: the writer
task while the daemon runs and, once it has ended, a `LiquidationLog` that opens
what the task left, torn lines included, and appends to it.

**EngineLoop.** One update at a time: `Receive` is the top of the loop body,
`SkipUpdate`, `DropCandidate` and `SubmitCandidate` are the three ways through
it, `Resolve` is everything after the awaited `submit` returns (log, dashboard,
breaker).  Which updates breach, and whether sizing, routing and simulation
approve, is nondeterministic.  The slot counter starts at 0 instead of
300,000,000.  `Brk`, `Sub` and `Log` are instances; the loop calls the same
operations of them the code calls.  A poisoned dashboard lock is not modelled
(the server only reads it and cannot panic holding it).

**KaminoAdapter.** Accounts are reduced to the fields the handler reads: price
and mint of a reserve, close factor percentage and cap of a market, debt,
threshold, market and legs of an obligation.  One action per kind of update and
per way out of `handle_obligation`.  `latest` is history: the last data decoded
for an obligation.  `tip`, the chain's slot, is external.  `MaxRepayNativeAmount`
scales a value by `unit`, that is 10 to the mint's decimals, divides it by the price
and truncates, as the code does; the code's intermediate is an f64 and its inputs
128-bit fixed point, which the model takes as exact integers.

**Arbitration.** `Arbitrate` ranks any window by a stable sort; `Discard`,
`DeferReserveConflict`, `DeferBudget` and `Fire` are the four ways a candidate
leaves the loop, with `SlotBudgetCheck` as `SlotBudget::check`.  Dollar amounts are
integers, so NaN profits, which the code's comparison treats as equal, do not
occur.

**SizingStepDown.** The search loop against an arbitrary oracle: each check draws
compute units and two transaction lengths (without and with lookup tables), so a
route that fits at one size and not at a smaller one is included.  `rejected` and
`lastRejected` are history: the sizes turned down, and the last one with its reason.

**FlashRouting.** `reserves` and `saveLiveVerified` are the router's fields;
`Insert` is what its three feeding calls share, `Usable` and `Preferred` the
filters and the order of `route()`, which may return any of the best, as the map
is iterated in any order.  `SizeAndRoute`, `Simulate` and `Done` take one
candidate through the loop.  The estimate's dollars are integers of 0.0001, in
which every term is exact for whole millions of units; fees arrive in tenths of a
basis point and are rounded as the code rounds them.

**PnlLedger.** `recorded` is history: everything recorded since the state the
process was restored from.  `snapshot` is two steps, as `fs::write` truncates and
then writes; the second may fail, which leaves the file empty with the process up,
or be cut off by a kill.  The drawdown limit is compared by its absolute value.

**RiskControls.** One process: breakers and ledger, joined by the two checks whose
results the comments of both crates say are passed to the breaker's setters
(`drawdown_breached`, `is_below_minimum_balance`).  `Killed` takes the breakers and
what the ledger has not saved.  The daemon has no caller for the checks yet, so
when a check is made is nondeterministic.

**SaveMath, SaveReserve, SaveObligation, SaveRateLimiter.** The SDK's calculations
as operators over records, in its own fixed point: a Decimal or Rate is an integer
scaled by `Wad`, and each multiplication, division, floor and ceiling rounds where
the code rounds.  A checked operation that fails makes the operator's answer the
empty set, or shows in `WellFormed`, so that the instruction is not enabled.
The limiter is a small machine of its own, the market's; `outflow` is history.  The
limiter each reserve has besides (`Reserve::rate_limiter`) is the same machine over
one reserve's outflow and is left out of the reserve's record.  192-bit overflow is
not modelled: the bounds are far from it.

**SaveMarket.** The on-chain program is not in the repository, so its actions are
modelled from how the SDK is written to be called: each makes the SDK calls of one
instruction in order, with the checks the SDK's types and comments ask for, and the
token transfers that go with the results.  A failing instruction is rolled back,
so it is simply not enabled.  A flash borrow accrues the reserve's interest first, as
the clock among its documented accounts suggests; that is an assumption about the
program, like the freshness checks of the other instructions.  `wallet`, `ctokens` and `vault` are the token
program's balances, `flash` the loans that must be repaid before the slot can
move on.  The market starts stocked: `Tokens` and `Supplied` are what the users hold
of each reserve and what was deposited, `Pledged` the deposits of each obligation,
which `StockAssumption` asks to add up.  The other assumptions are that there is a
valid configuration for every reserve, that oracles answer natural numbers with at
most one extra price, and that there are finitely many owners.  Divisors that the
code refuses when they are zero are conditions of the instructions or of the
operators that divide by them.  Attributed borrow values and `loan_to_value`, which no function of the
SDK combines with anything, are left out.

**ByteLayout, SaveInstruction, SaveCall, SaveAccounts.** A byte of a field is
`<<value, position, width>>`, so a value read back at its place and width is
itself and anything read out of step is `Garbage`; every byte of a zero is the same
zero byte, which is what lets an old account be read by a new layout.  `pack()` and
`unpack()`, and `pack_into_slice` and `unpack_from_slice`, are separate lists in
the code and separate tables here.  `SaveCall` has the accounts of each operation
twice as well: as the enum documents them (`DocumentedReserves` and
`DocumentedOptional` are the tails that depend on the call) and as the constructors
list them; the bundler's two hand-built calls are next to them.  Padding keeps the bytes the
account had.

**SaveWire.** A call is built (by the SDK or the bundler), perhaps cut short,
delivered, decoded, and executed on one watched account if it decodes and its
accounts are the documented ones; between calls the account is refreshed, was
written by an earlier program version, or gains and loses entries.  `truth` is
what was meant to be stored, `account` the bytes.

## 3. Runs

| Run | Bounds | What it shows |
|---|---|---|
| `engine_loop` | 1 position, 2 routable reserves, revert limit 2, channel of 1, 4 slots, feed slots 0 and 3 in any order | breaker counters are the real revert streaks, and lock-outs follow from them; attempts, outcomes, dashboard and log agree, whatever order the feed's slots come in; `--halt` never submits; a submission never wedges the loop |
| `engine_locked_out` | 1 reserve, 3 slots | **violation**: a route out of rotation is submitted again |
| `engine_rearmed` | 1 reserve, limit 2, feed slots 0 and 2 | **violation**: a landing puts a locked-out route back in rotation |
| `risk_controls` | 2 reserves (symmetric), revert limit 2, counters to 3; window 2, 4 slots, 3 entries, kills anywhere | a trip touches one route, which has earned it; pruning and restoring never change the windowed sum; the drawdown breaker trips only on a real loss |
| `submitter` | the daemon's timeouts (8, 15, 15 ticks) and slow clients (4, 4, 3); 4 schedules, 2 slots | the race returns, loses a landing only to the other leg, waits no longer than the staked client, implements `Submitter` |
| `log_store` | 4 records through a channel of 2, then 3 through the reopened log; I/O errors, kills and power losses anywhere | conservation, kept, ordered, unreadable only after a cut-off append, draining |
| `strategy` | *adapter*: 1 obligation with 6 contents, 1 market with 2 and 2 reserves with 3 contents, slots 0 to 2 in any order; *routing*: 3 reserves, 2 mints, 2 depths, 4 fees with the disabled mark, sizes below, between and above the hurdles and over `flash_depth`; *search*: sizes around the multiples of ten, limits met exactly and exceeded by one, with and without tables; *arbitration*: windows of up to 3 candidates over 3 reserves, profits at and above the minimum, ties, tips around both caps | close factors, candidates and repay limits agree; the greedy choice of a source is the most profitable and only unprofitable candidates are turned down, at either hurdle; the largest grid size that fits is found, with the constraint that refused the size above it; exclusion, ranking, caps and exact commitment |
| `save_market` | a collateral and a lent reserve, 1 obligation, 3 instructions from a stocked market over slots 1 to 3 (the end of one limiter window and the whole of the next) besides refreshes and price moves, `Wad` 100 | book and tokens agree, the borrows of a reserve and the debts it is owed stay together, liquidation stays in its limits, the limiter remembers what left, lenders are not diluted, an owner cannot put itself at risk |
| `save_outflow` | the same | **violation**: three slots in a row let out twice `max_outflow` |
| `save_wire` | every operation with 3 sets of values and every optional account, cut by 1, 8, 32 or all bytes; obligations of 1 and 9 entries of at most 10; 3 edits | calls decode to what was built, reach their operation, and accounts read back |
| `save_flash_tag` | the same, no edits | **violation**: the bundler's flash calls decode as other operations |
| `save_host_fee` | the same, no edits | **violation**: a borrow has a collateral reserve where the host fee receiver is documented |

Why the bounds are enough: the engine needs two reserves to tell routes apart,
three submissions to trip a limit of two and go on, and a channel that can be full
while the task holds a record; a window of three candidates has a winner, a loser
on its reserve and one that competes for the budget; seven appends leave room for a
torn line of either writer, a restart and records after it; sizes next to the
multiples of ten are the ones where `initial / 10` changes; a small `Wad` makes
every rounding of the market visible within three instructions, a limiter window
of two slots has its boundary among the slots of the run, so that both windows can
be filled within `window_duration + 1` slots, and obligations one
entry below the limit are filled, emptied and refused within three edits.
Deadlock checking is off only where the program really stops: after shutdown
(`engine_loop`, `log_store`), with an account of a layout the SDK refuses
(`save_wire`, `save_flash_tag`, `save_host_fee`), or at a bound.

**Fairness.** `DualPathSubmitter`: timers fire and woken futures are polled (weak
fairness of `Tick`, `HttpTimeout`, `Return`, `Elapsed`); no endpoint owes an
answer and nobody has to call `submit`.  `LogStore`: a spawned task is
polled while the runtime lives.  `EngineLoop`: the loop, the writer task and
the end of a submission; the feed owes no update.  `SizingStepDown`: a loop in one
thread goes on.  All are what tokio and the operating system give a running
program.

Every property of a passing run has a mutant in `PROJECT.json`: a plausible bug in
one mapped definition under which TLC finds the property violated.

## 4. Proofs

Checked by TLAPS, for every value of the constants that satisfies the named
assumptions.

* `RiskControlsProofs`: `TypeCorrect`, `LimitEnforced` (a route whose reverts in a
  row have reached the limit is out of rotation) and `TripScoped` (an action
  property) for the breakers.  `LimitLocksOut` relates the two maps that
  every operation must move together and is inductive with `TypeOK`; it needs the
  limit to be at least 1, which `Config::validate` enforces.  A restart is one of the cases.
  `RiskImplementsBreakers` carries them over to the composed controls
  (`RiskLimitEnforced`).  `PruningSparesWindow`: what the ledger
  dropped is a beginning of what was recorded and all of it older than the window.
  Its invariant says the same of the snapshot on disk, judged at the current slot,
  since a restore may bring it back at any time; that the cutoff only moves forward
  makes it inductive.  `SumIsOfAllRecorded` and `TripIsALoss` draw the conclusion for
  the sums: shifting the places by what was dropped is a one-to-one map of the
  entries still held onto the recorded ones inside the window (`SumReindexed`).
* `SumLemmas`: what the community modules' `SumFunctionOnSet` computes, for every
  function and finite set: 0 on the empty set, one element split off wherever it
  lies (`SumAnyFirst`), the union of disjoint sets, monotonicity, re-indexing.
  `SumFunctionOnSet` is defined by a recursive function over the subsets; that such
  a function exists is the first thing proved (`PartialsExist`), along
  `SubsetInduction`, induction over the subsets of a finite set in a first-order
  form: a set of subsets takes the place of the predicate.
* `SaveMarketProofs`, the market: `BooksBalance` (the records against the token
  accounts), `LiquidationsBounded`, `MarketImplementsLimiter`,
  `MarketOutflowRemembered` and `MarketOutflowBounded`, for any reserves, owners, configurations, prices, amounts
  and instructions.  That book and tokens agree is not inductive by itself: a
  transfer is booked as a u64 and a debt as a Decimal, so the two agree only while
  the numbers an instruction computes are natural and its roundings are bounded.
  `BooksInv` therefore says of every stored reserve (`ReserveSound`) that its fields
  have their types, its configuration is a validated one, its cumulative rate is at
  least one and it was not updated in the future; and of every obligation that its entries are positive amounts
  of the market's reserves with rates of at least one.  So interest never divides by
  zero and never lowers a debt, and `ReserveLiquidity::repay`, which settles no more
  than is lent, has natural numbers to settle.  A rate stays at least one because the
  borrow rate is never negative (`BorrowRateNat`) and powers of rates of at least one
  are such rates.  `TryPow` is made of recursive functions, so that these
  exist is proved first (`RecursionExists`, along `SetInduction`).  A reserve
  operation is summed up as `Rebooked`, the change of amounts alone, and stored by
  `Store` as a sound reserve (`StoredSound`); what a list of deposits holds of a
  reserve is a sum over its entries, and one changed, added or removed entry changes
  it by its share.  `ShareWithinValue`, that a share of an amount is worth no more
  than that share of its value after both divisions round, is the argument behind the
  liquidation limits.  Each instruction then has one lemma, named for it with
  `Keeps`, and `MarketStep` splits on them.
* `SaveMarketProofs`, the limiter: `OutflowRemembered`, its two quantities are the
  sums of what left in its window and in the one before it and no window lets out
  more than `max_outflow`, for every window length, limit and sequence of requests
  of any size (`LimiterSpec`; `MarketImplementsLimiter` says that the market's
  behaviours are among its behaviours).  Neither half is inductive alone: what the
  limiter admits is judged by a fraction of the previous window, and that fraction
  is non-negative only because windows start on a grid of their length and never in
  the future, which `LimiterInv` adds (`SameWindow`, `WindowHoldsSlot` and `OnGrid`
  are the arithmetic behind it), and a roll keeps the sums right only because
  nothing has left in a window after the current one (`Remembers`).
  `OutflowBounded`, at most twice the limit in any `window_duration + 1` slots,
  follows as two neighbouring windows cover any such slots
  (`SlidingWindowCovered`); that twice is reached is the run `save_outflow`.
* `StrategyProofs`, arbitration: `ReservesExclusive`, `ConflictsRanked`,
  `SpendBounded`, `DeferralsStand` and `BudgetIsTips`.  None of them is inductive
  alone.  The invariant `ArbitrationInv` adds
  that the ranked window is sorted (without it a conflict could be lost to a worse
  candidate), that nothing is decided, locked or committed between windows
  (`Clean`), and that an earlier decision speaks of a candidate that is still at
  its place.  `DecideFacts` says what appending one decision changes; `TurnedDown`
  covers the three ways of not firing at once; `FireKeeps` is the case with
  content: a new lock, a larger commitment, and earlier deferrals that stay
  right because the commitment only grows.  `BudgetIsTips` adds one summand to the
  sum over the fired indices (`SumAdd`) and leaves the others (`SumSame`).
* `StrategyProofs`, routing: `RoutingIsOptimal` and `RefusalIsJustified`, for any
  finite set of reserves and any fees, depths, sizes and hurdles.  The invariant
  describes what was routed, or refused, against the table as it is now, which no
  observation changes while a candidate is under way.  That the best reserve by fee,
  provider and depth exists is again `SubsetInduction`; that it nets the most is that
  the estimate falls with the fee, through the rounding of its division.
* `StrategyProofs`, sizing: `SizeIsLargestFitting` and `BindingIsExplained`.  The
  invariant's `Searching` says that while the loop runs the current size is a grid
  point and all larger grid points have been rejected; `MultipleNext`,
  `MultiplesApart` and `GridStep` are the arithmetic of the grid, where
  multiplication keeps the provers from doing it unaided.
* `DualPathSubmitterProofs`: `WaitBounded`, `LandingKept` and
  `RaceImplementsContract`, the safety part of `ImplementsSubmitter`.  The invariant
  adds to the two properties that a pending call has always sent its staked leg and
  dropped none (so the staked timer is there to end the race), that only a pending
  call has requests under way, and that nothing is left of a call between calls.  The
  refinement maps each step: an answer, an error or a client's timeout is an answer
  of the contract, the clock reaching the call's timeout its expiry, every other
  tick a stutter.
* `EngineLoopProofs`: `EngineTypeCorrect`, `HaltIsKillSwitch`, `StreakIsCounted`,
  `LockoutIsEarned`, `AttemptsAreAccounted` and `EngineImplementsComponents`.  The last says that the
  loop runs the breakers, the submitter contract and the log writer as their own
  specifications allow, so what is proved of a component holds inside the engine;
  `ComponentSteps` is the case split behind it and behind the types.  The invariant
  adds that the slots of decided submissions lie behind the current one
  (`Behind`), without which a submission could be offered to the log twice under
  one slot, and that an observing engine has nothing under way (`Observing`).
  What one more outcome does to a streak and to a count, `StreakAppend` and
  `CountedAppend`, are lemmas on sequences.
* `LogStoreProofs`: `RecordsConserved`, `WrittenIsResumed`, `LogKeepsOrder` and
  `CutAppendExplainsUnreadable`, for any number of records and any capacity.  The
  invariant describes the file: a newline ends a record (`NewlinesEndLines`), whole
  records are in the order they were made (`InOrder`), all are older than the next
  one (`OlderThan`) and the acknowledged ones have their newline (`Finished`).
  `AppendShape`, `TornFile` and `CutShape` say what an append, a torn write and a
  lost tail leave of these four.  `TakesTurns` says the log is opened only once
  the task has ended, with younger records; `LinesOrdered` that what the task has
  yet to write is younger than what it wrote, which is what makes the conservation of
  records and the order of the reopened log inductive.  `ParsedLines` relates
  `open()` to the file: the place of a line among the lines is a one-to-one map of
  the lines onto the indices of the memory.
* `KaminoAdapterProofs`: `HealthyIsUnrepayable`, `CandidateIsBooked` and
  `RepayIsLimited`.  `LargestIsLargest`, that `Largest` picks the leg of the highest
  value, is an induction over finite sets, done first-order as the least
  counterexample of a well-founded order; it needs obligations to have finitely many
  legs (`DataAssumption`; the accounts hold fixed-size arrays).  The repay limits
  rest on the rounding of two divisions.

The assumptions on constants are the named `ASSUME`s of the modules; each run
evaluates those of its own.  `Parsed` is written with the place of each line rather
than with `SelectSeq`, of which the provers know nothing.

Only model-checked: liveness (`SubmitReturns`, `SubmissionResolves`, `DropDrains`,
`SizingReturns`: fairness and `ENABLED` are out of the prover's reach);
`BorrowsMatchDebts`, whose drift of less than a token is that of the run's few
accruals and would have to grow with their number; two action
properties of `SaveMarket`, `LendersNotDiluted` and `UseLeavesObligationAllowed`, whose
slack of one rounding covers the amounts of the run and would have to grow with the
ratio of supply to collateral tokens, and with the prices, to hold for all of them;
and `SaveWire`, whose tables are finite and are enumerated completely.

## 5. Where code and documents disagree

With a run that shows it (`findings` in `PROJECT.json`):

* `engine_locked_out`: the breaker is asked under the default reserve and told under
  the routed one (`main.rs:246`), so a lock-out is never consulted.
* `engine_rearmed`: `record_success` puts a locked-out route back (`breakers.rs:77`)
  although `breakers.rs:49` asks for a manual re-arm.  The documents promise a third
  thing, a cooldown of 300 slots (`docs/ARCHITECTURE.md:142`, `docs/RUNBOOK.md:92`),
  of which the code has nothing.
* `save_flash_tag`: the bundler's Save flash borrow and repay carry tags 14 and 15
  where the SDK's `unpack()` has the flash operations at 19 and 20
  (`bundler/src/liquidations.rs:160`, `192`).
* `save_host_fee`: `borrow_obligation_liquidity` puts the collateral reserves where
  the enum documents the host fee receiver (`instruction.rs:1539`, `235`).
* `save_outflow`: the limiter's comment promises less than twice `max_outflow` over
  the slots `[s - window_duration, s]` (`state/rate_limiter.rs:14`); exactly twice is
  reached.

Also met while modelling, and part of the models as the code has it:

* The first leg to resolve decides a submission, so `NotIncluded` is returned while
  the other leg is under way; `dual_path.rs:49` says both are accounted for.
* One torn or run-together line makes every later `LiquidationLog::open` fail
  (`liquidation_log.rs:46`), and `append` does not fsync although line 22 says so.
* `_writer_handle` is not awaited (`main.rs:160`), so records queued when main
  returns are lost; `try_record`'s error is dropped (`main.rs:303`).
* A breached obligation whose market or reserves are not known yet is not counted
  (`kamino.rs:212`), although the field's comment says every decoded one is.
* `sync_lag_slots` subtracts two slots that both come from the feed, so a stalled
  feed shows no lag (`kamino.rs:321`; `core/src/traits.rs:34`).
* `flash_depth` is a constant of `main.rs:254`, not the depth of a reserve: a
  candidate larger than every reserve is refused by `route()`, where
  `sizing.rs:3` says the depth reduces the size.
* `SimResult::profitable` is documented as the re-check of `risk.min_profit_usd`
  (`core/src/types.rs:67`); the simulator has a hurdle of its own, 8.50 dollars.
* `SlotBudget::check` tests the floor first; its comment says last.
* The sizing loop reports "infeasible at any size" after its last grid point
  (`sizing.rs:403`); sizes between grid points are not tried.
* `PnlLedger::snapshot` rewrites its only copy in place.
* The daemon's router is never fed (`main.rs:174`), so `size_and_route` always
  answers `None`; nothing sets the three halt flags; `arbitrate`, the
  step-down search, the ledger, ring buffer and account sync are not called by
  `main`.  The models take these parts as the code offers them to a caller, and
  `EngineLoop` takes the routable reserves as a constant.
* `BreakerState` is not persisted: a restart forgets lock-outs and a drawdown trip.
* When a bundle cannot be assembled or serialised, the loop submits 64 zero bytes in
  its place (`main.rs:279`).  What it assembles is a placeholder transfer.
* `assemble` puts one or two compute-budget instructions first
  (`bundler/src/lib.rs:102`), which shifts the index a flash repay names its borrow
  by; no code computes that index yet.
* `forgive_debt` (Save SDK, `state/reserve.rs:748`) lowers the borrows but not the
  accumulated protocol fees; when less is then available and lent than the fees,
  `total_supply` fails and with it every refresh of the reserve.
* An obligation's freshness depends on its slot alone (`state/last_update.rs:43`): a
  loan-to-value ratio lowered after its refresh does not count for a borrow in the
  same slot.  The run `save_market` changes no valid configuration in between, and
  `UseLeavesObligationAllowed` is stated for configurations that stand.
* An attributed borrow limit stored as 0 reads back as `u64::MAX`
  (`state/reserve.rs:1636`), so a limit of nothing cannot be expressed; the values of
  `save_wire` leave it out.
* `UpdateMarketMetadata` packs to nothing (`instruction.rs:1079`); its constructor
  writes the tag itself.
* With the daemon's timeouts the 800 ms staked client always decides first: the
  1,500 ms of the call and of the Jito client cannot be reached.

## 6. Not modelled, and the plan

* Ingestion (`ingestion/`): the daemon creates a ring buffer it never reads and
  takes updates straight from the feed's channel, which is the path `EngineLoop`
  models.  `drain_into_ring_buffer` has no caller and so no consumer to relate it to.
* Account sync (`sim/src/account_sync.rs`), position book, `DexRouter`, dynamic tips,
  `JitoTipManager`: nothing outside their tests uses them, so they share no state
  with a modelled part.  Dynamic tips are a floating-point curve; `JitoTipManager` is
  a list of tip account addresses fetched over HTTP.
* The bundler's Kamino, swap, lookup-table and token-account builders: bytes for
  programs that are not in the repository, with no decoder to compare them with.
* The sweep interval (`treasury/src/sweep.rs`), configuration parsing, the replay
  harness, the dashboard server, the readiness check: parsing, output and single
  comparisons, without state.
* The Save program's own account checks (ownership, seeds, token mints): not in the
  repository.

Next, in this order:

1. Proofs: the dilution of lenders and the safety of an owner's own obligation, with
   the rounding they allow stated in terms of the exchange rate and the prices.
2. `FlashRouting` and `KaminoAdapter` composed into `EngineLoop` in place of its
   nondeterministic choices, once `main.rs` feeds its router.
3. `Ingestion` and account sync once the daemon reads its ring buffer.
