----------------------------- MODULE MCStrategy -----------------------------
(* The way of a candidate: the adapter that finds it, size_and_route with  *)
(* the router's table, the step-down search and arbitrate().  They share   *)
(* no state, so a behaviour steps through calls of one of them, `under`,   *)
(* while the others keep the state they began in.                          *)
(*                                                                         *)
(* The adapter: one market, a debt and a collateral reserve; obligations   *)
(* without debt, healthy, breached, and breached on an unseen leg.         *)
(* Routing: three reserves of either provider; fees of 0, 0.4 and 60 basis *)
(* points and the disabled mark.  With the example configuration's hurdle  *)
(* of 5 and the simulator's of 8.50 dollars, the smallest size passes the  *)
(* first only without the fee, the next fails the second with it, and the  *)
(* last exceeds flash_depth and meets the cap on tips.                     *)
(* The search: amounts around the multiples of ten where the decrement     *)
(* changes; each limit met exactly and exceeded by one.                    *)
(* Arbitration: windows of up to three candidates on three reserves, with  *)
(* profits at and above the minimum; tips over the transaction cap, and    *)
(* tips that fit together or not; a balance below the floor and one at it. *)
EXTENDS KaminoAdapter, FlashRouting, SizingStepDown, Arbitration

CONSTANTS r1, r2, r3, o1, debt, coll, m1

ThreeReserves == {r1, r2, r3}

MCAmount == {0, 1, 2, 9, 10, 11, 19, 20, 29, 30, 39, 100}

MCObligation    == {o1}
MCKaminoReserve == {debt, coll}
MCMarket        == {m1}

MCReserveData == {[mint |-> "usdc", price |-> 0, unit |-> 1],
                  [mint |-> "usdc", price |-> 3, unit |-> 1],
                  [mint |-> "sol", price |-> 70, unit |-> 10]}
MCMarketData  == {[pct |-> 50, cap |-> 40], [pct |-> 20, cap |-> 1000]}

Leg(r, v, a)  == [reserve |-> r, mv |-> v, amount |-> a]
Deposit(r, v) == [reserve |-> r, mv |-> v]

Data(d, u, bs, cs) ==
  [debt |-> d, unhealthy |-> u, market |-> m1, borrows |-> bs, deposits |-> cs]

MCObligationData ==
  { Data(0, 50, {}, {Deposit(coll, 50)}),
    Data(100, 0, {Leg(debt, 100, 30)}, {}),
    Data(50, 100, {Leg(debt, 50, 20)}, {Deposit(coll, 100)}),
    Data(120, 100, {Leg(debt, 100, 30), Leg(coll, 20, 5)}, {Deposit(coll, 100)}),
    Data(30, 20, {Leg(coll, 30, 2)}, {Deposit(debt, 20)}),
    Data(120, 100, {Leg(debt, 120, 40)}, {}) }

-----------------------------------------------------------------------------
VARIABLE under

strategyVars == <<under, adapterVars, vars, sizingVars, arbitrationVars>>

StrategyInit ==
  /\ under \in {"adapter", "routing", "search", "arbitration"}
  /\ AdapterInit
  /\ Init
  /\ SizingInit /\ (under # "search" => closeFactor = 0 /\ depth = 0 /\ ~tables)
  /\ ArbitrationInit /\ (under # "arbitration" => balance = MinBalance)

AdapterStep ==
  /\ under = "adapter"
  /\ AdapterNext
  /\ UNCHANGED <<under, vars, sizingVars, arbitrationVars>>

RoutingStep ==
  /\ under = "routing"
  /\ Next
  /\ UNCHANGED <<under, adapterVars, sizingVars, arbitrationVars>>

SearchGoesOn ==
  /\ under = "search"
  /\ BeginZero \/ Begin \/ Check
  /\ UNCHANGED <<under, adapterVars, vars, arbitrationVars>>

NextSearch ==
  /\ under = "search"
  /\ Take
  /\ UNCHANGED <<under, adapterVars, vars, arbitrationVars>>

ArbitrationStep ==
  /\ under = "arbitration"
  /\ ArbitrationNext
  /\ UNCHANGED <<under, adapterVars, vars, sizingVars>>

StrategyNext ==
  \/ AdapterStep
  \/ RoutingStep
  \/ SearchGoesOn
  \/ NextSearch
  \/ ArbitrationStep

(* The search is a loop in one thread: it goes on while it can.            *)
StrategySpec ==
  /\ StrategyInit /\ [][StrategyNext]_strategyVars
  /\ WF_strategyVars(SearchGoesOn)
=============================================================================
