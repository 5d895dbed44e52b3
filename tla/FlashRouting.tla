---------------------------- MODULE FlashRouting ----------------------------
(***************************************************************************)
(* From a breach candidate to a simulated, flash-funded one: the router's  *)
(* table of reserves (crates/router/src/lib.rs), size_and_route with its   *)
(* profit estimate (crates/strategy/src/sizing.rs, tip.rs) and the         *)
(* simulator's verdict (crates/sim/src/simulator.rs).                      *)
(*                                                                         *)
(* Amounts are in millions of native units, as repay_scale is; dollars in  *)
(* units of 0.0001, in which every term of the estimate is an integer.     *)
(* Fees come off the chain in tenths of a basis point.                     *)
(***************************************************************************)
EXTENDS Integers, FiniteSetsExt

CONSTANTS
  Reserve,      \* reserve accounts
  Mint,
  Depth,        \* liquidity a reserve may have available
  RawFee,       \* fees a reserve account may carry
  U64Max,       \* the fee that marks a Kamino flash loan as disabled
  MaxRepay,     \* values of close_factor_max_repay
  FlashDepth,   \* flash_depth, the constant main.rs passes
  TipPct,       \* risk.max_tip_pct_of_bonus, in percent
  MinTip,       \* risk.min_tip_usd
  MaxTipTx,     \* risk.max_tip_per_tx_usd
  MinProfit,    \* risk.min_profit_usd
  SimMinProfit, \* LiteSvmSimulator::min_profit_usd
  None          \* an absent map entry, a disabled fee, or no route

ASSUME LiquidityAssumption ==
  /\ Depth \subseteq Nat /\ RawFee \subseteq Nat /\ MaxRepay \subseteq Nat
  /\ FlashDepth \in Nat /\ U64Max \in Nat
ASSUME RiskAssumption ==
  /\ TipPct \in Nat /\ MinTip \in Nat /\ MaxTipTx \in Nat
  /\ MinProfit \in Nat /\ SimMinProfit \in Nat
ASSUME ReserveAssumption == IsFiniteSet(Reserve)

VARIABLES
  reserves,          \* MultiSourceRouter::reserves
  saveLiveVerified,  \* MultiSourceRouter::save_live_verified
  call,              \* "idle", "sized" after size_and_route, or "simulated"
  candidate,         \* the candidate at hand, or None
  routed,            \* what size_and_route returned
  passed             \* feasible and profitable, by the simulator

vars == <<reserves, saveLiveVerified, call, candidate, routed, passed>>

Provider        == {"Kamino", "Solend"}
ReserveInfo     == [provider : Provider, mint : Mint, depth : Depth, fee : Nat \cup {None}]
BreachCandidate == [mint : Mint, maxRepay : MaxRepay]
SizedAndRouted  == [reserve : Reserve, repay : Nat, fee : Nat, net : Int]

ASSUME NoneAssumption == None \notin Nat /\ None \notin SizedAndRouted

Init ==
  /\ reserves = [r \in Reserve |-> None]
  /\ saveLiveVerified = FALSE
  /\ call = "idle"
  /\ candidate = None
  /\ routed = None
  /\ passed = FALSE

-----------------------------------------------------------------------------
(* The router's table.                                                     *)

\* Rounded to the nearest basis point.
SaveFeeBps(raw) == (raw + 5) \div 10

KaminoFeeBps(raw) == IF raw = U64Max THEN None ELSE (raw + 5) \div 10

Insert(r, provider, mint, depth, fee) ==
  /\ call = "idle"
  /\ reserves' = [reserves EXCEPT ![r] =
       [provider |-> provider, mint |-> mint, depth |-> depth, fee |-> fee]]
  /\ UNCHANGED <<saveLiveVerified, call, candidate, routed, passed>>

\* The last account shown wins; accounts that are no reserve are ignored.
ObserveKaminoAccount(r, mint, depth, raw) ==
  Insert(r, "Kamino", mint, depth, KaminoFeeBps(raw))

ObserveSaveAccount(r, mint, depth, raw) ==
  Insert(r, "Solend", mint, depth, SaveFeeBps(raw))

\* add_reserve, as the replay tool calls it.
AddReserve(r, mint, depth) == Insert(r, "Kamino", mint, depth, 0)

SetSaveLiveVerified(verified) ==
  /\ call = "idle"
  /\ saveLiveVerified' = verified
  /\ UNCHANGED <<reserves, call, candidate, routed, passed>>

-----------------------------------------------------------------------------
(* route().                                                                *)

\* The reserves that can lend this much of this mint, Save's once verified.
Usable(mint, amount) ==
  {r \in Reserve : /\ reserves[r] # None
                   /\ reserves[r].mint = mint
                   /\ reserves[r].depth >= amount
                   /\ reserves[r].provider = "Solend" => saveLiveVerified
                   /\ reserves[r].fee # None}

\* Plausible bug: depth breaks a tie of fees before the provider does.
PreferredByDepth(a, b) ==
  \/ a.fee < b.fee
  \/ a.fee = b.fee /\ a.depth > b.depth
  \/ a.fee = b.fee /\ a.depth = b.depth /\ a.provider = "Kamino" /\ b.provider = "Solend"

\* Lowest fee, then Kamino before Save, then the deepest.
Preferred(a, b) ==
  \/ a.fee < b.fee
  \/ a.fee = b.fee /\ a.provider = "Kamino" /\ b.provider = "Solend"
  \/ a.fee = b.fee /\ a.provider = b.provider /\ a.depth > b.depth

\* min_by: any of the best, as a HashMap is iterated in any order.
Route(mint, amount) ==
  {r \in Usable(mint, amount) :
     \A q \in Usable(mint, amount) : ~Preferred(reserves[q], reserves[r])}

-----------------------------------------------------------------------------
(* size_and_route() and simulate().                                        *)

SizePosition(c) == Min({c.maxRepay, FlashDepth})

Bonus(repay) == Max({10000 * repay, 120000})

StaticTipBid(bonus) ==
  LET competitive == (TipPct * bonus) \div 100
  IN  Min({Max({competitive, MinTip}), Min({competitive, MaxTipTx})})

NetUsd(repay, fee) ==
  Bonus(repay) - Max({600 * repay, 1000}) - Max({20 * repay * fee, 100})
    - 5000 - StaticTipBid(Bonus(repay))

\* Plausible bug: a candidate is dropped as soon as one usable source is too
\* dear, though the router's choice is not.
SizeAndRouteEarly(c) ==
  LET repay == SizePosition(c)
      sources == Route(c.mint, repay)
      net(r) == NetUsd(repay, reserves[r].fee)
  IN  /\ call = "idle"
      /\ IF repay = 0 \/ \E r \in Usable(c.mint, repay) : net(r) < MinProfit
           THEN UNCHANGED routed
           ELSE \/ sources = {} /\ UNCHANGED routed
                \/ \E r \in sources : routed' =
                     [reserve |-> r, repay |-> repay, fee |-> reserves[r].fee, net |-> net(r)]
      /\ call' = "sized"
      /\ candidate' = c
      /\ UNCHANGED <<reserves, saveLiveVerified, passed>>

SizeAndRoute(c) ==
  LET repay == SizePosition(c)
      sources == IF repay = 0 THEN {} ELSE Route(c.mint, repay)
      net(r) == NetUsd(repay, reserves[r].fee)
  IN  /\ call = "idle"
      /\ \/ \E r \in sources :
              /\ net(r) >= MinProfit
              /\ routed' = [reserve |-> r, repay |-> repay, fee |-> reserves[r].fee,
                            net |-> net(r)]
         \/ /\ sources = {} \/ \E r \in sources : net(r) < MinProfit
            /\ UNCHANGED routed
      /\ call' = "sized"
      /\ candidate' = c
      /\ UNCHANGED <<reserves, saveLiveVerified, passed>>

\* A candidate of the adapter has a health factor below 1, so it is feasible
\* when it repays something and no more than the close factor allows.
Simulate ==
  /\ call = "sized"
  /\ routed # None
  /\ call' = "simulated"
  /\ passed' = /\ routed.repay > 0 /\ routed.repay <= candidate.maxRepay
               /\ routed.net >= SimMinProfit
  /\ UNCHANGED <<reserves, saveLiveVerified, candidate, routed>>

\* The loop is done with the candidate.
Done ==
  /\ call = "simulated" \/ (call = "sized" /\ routed = None)
  /\ call' = "idle"
  /\ candidate' = None
  /\ routed' = None
  /\ passed' = FALSE
  /\ UNCHANGED <<reserves, saveLiveVerified>>

Next ==
  \/ \E r \in Reserve, m \in Mint, d \in Depth, raw \in RawFee :
       ObserveKaminoAccount(r, m, d, raw)
  \/ \E r \in Reserve, m \in Mint, d \in Depth, raw \in RawFee :
       ObserveSaveAccount(r, m, d, raw)
  \/ \E r \in Reserve, m \in Mint, d \in Depth : AddReserve(r, m, d)
  \/ \E v \in BOOLEAN : SetSaveLiveVerified(v)
  \/ \E c \in BreachCandidate : SizeAndRoute(c)
  \/ Simulate
  \/ Done

Spec == Init /\ [][Next]_vars

-----------------------------------------------------------------------------
\* The reserve lends the candidate's mint, is open for flash loans and has the
\* depth: what the chain would accept, and for Save, what is verified.
CanFund(r) ==
  /\ reserves[r] # None
  /\ reserves[r].mint = candidate.mint
  /\ reserves[r].fee # None
  /\ reserves[r].depth >= SizePosition(candidate)
  /\ reserves[r].provider = "Kamino" \/ saveLiveVerified

CouldNet(r) == NetUsd(SizePosition(candidate), reserves[r].fee)

(* Greedy routing is optimal: route() chooses by fee, provider and depth   *)
(* before profit is known, and that never costs profit.  No reserve that   *)
(* could fund the candidate would net more than the one routed to, and a   *)
(* Save reserve is used only where its fee is below that of every Kamino   *)
(* reserve that could.                                                     *)
RoutedNetsMost ==
  routed # None =>
    /\ CanFund(routed.reserve)
    /\ \A r \in Reserve : CanFund(r) =>
         /\ CouldNet(r) <= routed.net
         /\ reserves[routed.reserve].provider = "Solend" /\ reserves[r].provider = "Kamino"
              => routed.fee < reserves[r].fee

(* A candidate is turned down only for want of profit, whichever of the    *)
(* two hurdles stops it: size_and_route's risk.min_profit_usd, or the      *)
(* simulator's own min_profit_usd.  No reserve that could fund it would    *)
(* have cleared the hurdle it failed.                                      *)
RefusedIsUnprofitable ==
  /\ call = "sized" /\ routed = None /\ SizePosition(candidate) > 0
       => \A r \in Reserve : CanFund(r) => CouldNet(r) < MinProfit
  /\ call = "simulated" /\ ~passed
       => \A r \in Reserve : CanFund(r) => CouldNet(r) < SimMinProfit
=============================================================================
