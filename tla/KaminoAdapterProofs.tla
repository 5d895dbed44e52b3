------------------------ MODULE KaminoAdapterProofs -------------------------
(***************************************************************************)
(* What the Kamino adapter keeps true of its book and of the candidates it *)
(* returns, for every set of accounts, whatever they hold and in whatever  *)
(* order they arrive.                                                      *)
(***************************************************************************)
EXTENDS KaminoAdapter, FiniteSetTheorems, WellFoundedInduction, TLAPS

-----------------------------------------------------------------------------
(* The largest leg.  A finite set of legs has one: a smallest set without  *)
(* one would have one as soon as it lost a leg.                            *)

HasLargest(S) == \E l \in S : \A k \in S : k.mv <= l.mv

(* With one more leg there is still a largest one.                         *)
LEMMA LargestWithOneMore ==
  ASSUME NEW S, NEW x \in S, \A l \in S : l.mv \in Nat,
         S \ {x} = {} \/ HasLargest(S \ {x})
  PROVE  HasLargest(S)
<1>1. CASE S \ {x} = {}
  <2>1. \A k \in S : k = x
    BY <1>1
  <2>2. x.mv \in Nat /\ x.mv <= x.mv
    OBVIOUS
  <2> QED
    BY <2>1, <2>2 DEF HasLargest
<1>2. CASE HasLargest(S \ {x})
  <2>1. PICK l \in S \ {x} : \A k \in S \ {x} : k.mv <= l.mv
    BY <1>2 DEF HasLargest
  <2>2. l.mv \in Nat /\ x.mv \in Nat
    OBVIOUS
  <2>3. CASE x.mv <= l.mv
    BY <2>1, <2>2, <2>3 DEF HasLargest
  <2>4. CASE l.mv <= x.mv
    <3>1. \A k \in S : k.mv <= x.mv
      BY <2>1, <2>2, <2>4
    <3> QED
      BY <3>1 DEF HasLargest
  <2> QED
    BY <2>2, <2>3, <2>4
<1> QED
  BY <1>1, <1>2

(* Largest picks a leg, and none is worth more (the max_by_key over the    *)
(* active legs of an obligation).                                          *)
LEMMA LargestIsLargest ==
  ASSUME NEW L, IsFiniteSet(L), L # {}, \A l \in L : l.mv \in Nat
  PROVE  Largest(L) \in L /\ \A k \in L : k.mv <= Largest(L).mv
<1> DEFINE Bad == {S \in SUBSET L : S # {} /\ ~HasLargest(S)}
<1>1. IsWellFoundedOn(StrictSubsetOrdering(L), SUBSET L)
  BY FS_StrictSubsetOrderingWellFounded, FS_FiniteSubsetsOfFinite
<1>2. Bad = {}
  <2> SUFFICES ASSUME Bad # {} PROVE FALSE
    OBVIOUS
  <2>1. PICK S \in Bad : \A U \in Bad : ~(<<U, S>> \in StrictSubsetOrdering(L))
    <3>1. Bad \subseteq SUBSET L
      OBVIOUS
    <3> HIDE DEF Bad
    <3> QED
      BY <1>1, <3>1, WFMin
  <2>2. PICK x : x \in S
    OBVIOUS
  <2>3. <<S \ {x}, S>> \in StrictSubsetOrdering(L)
    BY <2>2 DEF StrictSubsetOrdering
  <2>4. S \ {x} = {} \/ HasLargest(S \ {x})
    BY <2>1, <2>3
  <2>5. HasLargest(S)
    BY <2>2, <2>4, LargestWithOneMore
  <2> QED
    BY <2>5
<1>3. HasLargest(L)
  BY <1>2
<1> QED
  BY <1>3 DEF HasLargest, Largest

-----------------------------------------------------------------------------
(* Rounding down: a quotient times its divisor is not above the dividend.  *)
LEMMA DivTimes ==
  ASSUME NEW a \in Nat, NEW b \in Nat \ {0}
  PROVE  a \div b \in Nat /\ b * (a \div b) <= a
<1>1. /\ a = (b * (a \div b)) + (a % b)
      /\ a \div b \in Nat /\ a % b \in 0 .. b - 1
  OBVIOUS
<1> QED
  BY <1>1

(* Multiplying by a natural number keeps the order.                        *)
LEMMA TimesMonotone ==
  ASSUME NEW a \in Nat, NEW b \in Nat, NEW c \in Nat, a <= b
  PROVE  a * c <= b * c
<1>1. PICK e \in Nat : b = a + e
  <2>1. b - a \in Nat
    OBVIOUS
  <2> QED
    BY <2>1
<1>2. b * c = a * c + e * c /\ e * c \in Nat /\ a * c \in Nat
  BY <1>1
<1> QED
  BY <1>2

(* max_repay_native_amount stays within the close factor, the cap and the  *)
(* amount borrowed, whatever the price and the units and however the       *)
(* quotient truncates.                                                     *)
LEMMA MaxRepayLimits ==
  ASSUME NEW market, NEW reserve, NEW leg,
         market.pct \in Nat, market.cap \in Nat, reserve.price \in Nat,
         reserve.unit \in Nat, leg.mv \in Nat, leg.amount \in Nat
  PROVE  LET repay == MaxRepayNativeAmount(market, reserve, leg)
         IN  /\ repay \in Nat
             /\ 100 * repay * reserve.price <= leg.mv * market.pct * reserve.unit
             /\ repay * reserve.price <= market.cap * reserve.unit
             /\ repay <= leg.amount
<1> DEFINE v == leg.mv * market.pct
           p == reserve.price
           u == reserve.unit
           w == market.cap
           mv == Least(v, 100 * w)
           repay == MaxRepayNativeAmount(market, reserve, leg)
<1>1. v \in Nat /\ u \in Nat /\ w \in Nat /\ leg.mv * market.pct * u = v * u
  OBVIOUS
<1>2. v * u \in Nat /\ w * u \in Nat /\ 100 * w \in Nat /\ (100 * w) * u = 100 * (w * u)
  <2> HIDE DEF v, u, w
  <2> QED
    BY <1>1
<1>3. CASE p = 0
  <2>1. repay = 0
    BY <1>3 DEF MaxRepayNativeAmount
  <2> HIDE DEF v, p, u, w, repay
  <2>2. 100 * repay * p = 0 /\ repay * p = 0
    BY <1>3, <2>1
  <2>3. repay \in Nat /\ 100 * repay * p <= v * u /\ repay * p <= w * u /\ repay <= leg.amount
    BY <1>2, <2>1, <2>2
  <2> QED
    BY <1>1, <2>3 DEF v, p, u, w, repay
<1>4. CASE p # 0
  <2> DEFINE q == (mv * u) \div (100 * p)
  <2>1. repay = Least(q, leg.amount) /\ p \in Nat \ {0}
    BY <1>4 DEF MaxRepayNativeAmount
  <2> HIDE DEF v, p, u, w, repay
  <2>2. mv \in Nat /\ mv <= v /\ mv <= 100 * w
    BY <1>1, <1>2 DEF Least
  <2> HIDE DEF mv
  <2>3. mv * u \in Nat /\ mv * u <= v * u /\ mv * u <= (100 * w) * u
    BY <1>1, <1>2, <2>2, TimesMonotone
  <2>4. 100 * p \in Nat \ {0}
    BY <2>1
  <2>5. q \in Nat /\ (100 * p) * q <= mv * u
    BY <2>3, <2>4, DivTimes
  <2> HIDE DEF q
  <2>6. repay \in Nat /\ repay <= q /\ repay <= leg.amount
    BY <2>1, <2>5 DEF Least
  <2>7. repay * (100 * p) <= q * (100 * p)
    BY <2>4, <2>5, <2>6, TimesMonotone
  <2>8. /\ q * (100 * p) = (100 * p) * q
        /\ repay * (100 * p) = 100 * (repay * p)
        /\ 100 * repay * p = 100 * (repay * p)
        /\ repay * p \in Nat
    BY <2>1, <2>5, <2>6
  <2> DEFINE k == repay * p
             m == mv * u
             x == w * u
             y == (100 * p) * q
  <2>9. /\ k \in Nat /\ m \in Nat /\ x \in Nat /\ v * u \in Nat
        /\ y \in Int /\ 100 * k <= y /\ y <= m
        /\ m <= v * u /\ m <= 100 * x
    <3>1. y \in Int
      BY <2>4, <2>5
    <3> QED
      BY <1>2, <2>3, <2>5, <2>7, <2>8, <3>1
  <2> HIDE DEF k, m, x, y
  <2>10. 100 * k <= v * u /\ k <= x
    BY <2>9
  <2> QED
    BY <1>1, <2>6, <2>8, <2>10 DEF k, x, v, p, u, w, repay
<1> QED
  BY <1>3, <1>4

-----------------------------------------------------------------------------
Typed ==
  /\ seenReserves \in [KaminoReserve -> Snapshot(ReserveData)]
  /\ markets \in [Market -> Snapshot(MarketData)]
  /\ known \in [Obligation -> [slot : Slot, repay : Nat] \cup {Absent}]
  /\ latest \in [Obligation -> ObligationData \cup {Absent}]
  /\ tip \in Slot

IInv ==
  /\ Typed
  /\ HealthyHasNoCloseFactor
  /\ CandidateMatchesBook
  /\ RepayWithinLimits

(* An adapter that has seen no account satisfies the invariant.            *)
LEMMA InitIInv == AdapterInit => IInv
  BY MaxTipAssumption
  DEF AdapterInit, IInv, Typed, Snapshot, Slot, HealthyHasNoCloseFactor,
      CandidateMatchesBook, RepayWithinLimits

(* An update that returns no candidate and leaves the obligations alone    *)
(* (a reserve, a market, an account that does not decode or is neither).   *)
LEMMA OtherAccount ==
  ASSUME IInv, breach' = Absent, UNCHANGED <<known, latest>>, Typed'
  PROVE  IInv'
  BY DEF IInv, HealthyHasNoCloseFactor, CandidateMatchesBook, RepayWithinLimits, CloseFactor

(* A fresh obligation account is decided against the accounts at hand.     *)
LEMMA ObligationIInv ==
  ASSUME IInv, NEW o \in Obligation, NEW d \in ObligationData, NEW s \in 0 .. tip,
         HandleObligation(o, d, s)
  PROVE  IInv'
<1>1. /\ latest' = [latest EXCEPT ![o] = d]
      /\ UNCHANGED <<seenReserves, markets, tip>>
  BY DEF HandleObligation
<1>2. s \in Slot
  BY MaxTipAssumption DEF IInv, Typed, Slot
<1>3. /\ latest' \in [Obligation -> ObligationData \cup {Absent}] /\ latest'[o] = d
      /\ \A q \in Obligation : q # o => latest'[q] = latest[q]
  BY <1>1 DEF IInv, Typed
<1>4. ASSUME known' \in [Obligation -> [slot : Slot, repay : Nat] \cup {Absent}],
             \A q \in Obligation : q # o => known'[q] = known[q],
             ~Breached(d) => known'[o].repay = 0
      PROVE  Typed' /\ HealthyHasNoCloseFactor'
  <2>1. Typed'
    BY <1>1, <1>3, <1>4 DEF IInv, Typed
  <2>2. ASSUME NEW q \in Obligation, latest'[q] # Absent, ~Breached(latest'[q])
        PROVE  CloseFactor(q)' = 0
    <3>1. CASE q = o
      BY <1>3, <1>4, <2>2, <3>1 DEF CloseFactor
    <3>2. CASE q # o
      BY <1>3, <1>4, <2>2, <3>2 DEF CloseFactor, IInv, HealthyHasNoCloseFactor
    <3> QED
      BY <3>1, <3>2
  <2> QED
    BY <2>1, <2>2 DEF HealthyHasNoCloseFactor, Breached
<1>5. CASE HandleHealthy(o, d, s)
  <2>1. /\ known' = [known EXCEPT ![o] = [slot |-> s, repay |-> 0]]
        /\ breach' = Absent
    BY <1>5 DEF HandleHealthy
  <2>2. /\ known' \in [Obligation -> [slot : Slot, repay : Nat] \cup {Absent}]
        /\ \A q \in Obligation : q # o => known'[q] = known[q]
        /\ known'[o].repay = 0
    BY <1>2, <2>1 DEF IInv, Typed
  <2> QED
    BY <1>4, <2>1, <2>2 DEF IInv, CandidateMatchesBook, RepayWithinLimits
<1>6. CASE HandleUnresolved(o, d, s)
  <2>1. known' = known /\ breach' = Absent /\ Breached(d)
    BY <1>6 DEF HandleUnresolved
  <2> QED
    BY <1>4, <2>1 DEF IInv, Typed, CandidateMatchesBook, RepayWithinLimits
<1>7. CASE HandleBreach(o, d, s)
  <2> DEFINE leg     == Largest(d.borrows)
             reserve == seenReserves[leg.reserve].data
             market  == markets[d.market].data
             repay   == MaxRepayNativeAmount(market, reserve, leg)
             mint    == seenReserves[Largest(d.deposits).reserve].data.mint
  <2>1. /\ Breached(d) /\ Resolvable(d)
        /\ known' = [known EXCEPT ![o] = [slot |-> s, repay |-> repay]]
        /\ breach' = [position |-> o, debt |-> reserve.mint, collateral |-> mint,
                         repay |-> repay, slot |-> s]
    BY <1>7 DEF HandleBreach
  <2>2. leg \in d.borrows
    BY <2>1, LargestIsLargest, DataAssumption DEF Resolvable
  <2>3. leg.reserve \in KaminoReserve /\ leg.mv \in Nat /\ leg.amount \in Nat /\ d.market \in Market
    BY <2>2, DataAssumption
  <2>4. reserve \in ReserveData /\ market \in MarketData
    BY <2>1, <2>3 DEF Resolvable, IInv, Typed, Snapshot
  <2>5. reserve.price \in Nat /\ reserve.unit \in Nat /\ market.pct \in Nat /\ market.cap \in Nat
    BY <2>4, DataAssumption
  <2>6. /\ repay \in Nat
        /\ 100 * repay * reserve.price <= leg.mv * market.pct * reserve.unit
        /\ repay * reserve.price <= market.cap * reserve.unit
        /\ repay <= leg.amount
    BY <2>3, <2>5, MaxRepayLimits
  <2> HIDE DEF repay
  <2>7. /\ known' \in [Obligation -> [slot : Slot, repay : Nat] \cup {Absent}]
        /\ \A q \in Obligation : q # o => known'[q] = known[q]
        /\ known'[o] = [slot |-> s, repay |-> repay]
    BY <1>2, <2>1, <2>6 DEF IInv, Typed
  <2>8. Typed' /\ HealthyHasNoCloseFactor'
    BY <1>4, <2>1, <2>7
  <2>9. breach'.position = o /\ breach'.slot = s /\ breach'.repay = repay
    BY <2>1
  <2>10. CandidateMatchesBook'
    BY <1>3, <2>1, <2>7, <2>9 DEF CandidateMatchesBook, Breached
  <2>11. RepayWithinLimits'
    BY <1>1, <1>3, <2>6, <2>9 DEF RepayWithinLimits, Largest
  <2> QED
    BY <2>8, <2>10, <2>11 DEF IInv
<1> QED
  BY <1>5, <1>6, <1>7 DEF HandleObligation

(* Every account update preserves the invariant.                           *)
LEMMA NextIInv == IInv /\ [AdapterNext]_adapterVars => IInv'
<1> SUFFICES ASSUME IInv, [AdapterNext]_adapterVars PROVE IInv'
  OBVIOUS
<1>1. \A s \in 0 .. tip : s \in Slot
  BY MaxTipAssumption DEF IInv, Typed, Slot
<1>2. ASSUME NEW s \in 0 .. tip, NEW r \in KaminoReserve, NEW d \in ReserveData, HandleReserve(r, d, s)
      PROVE  IInv'
  <2>1. Typed'
    BY <1>1, <1>2 DEF HandleReserve, IInv, Typed, Snapshot
  <2> QED
    BY <1>2, <2>1, OtherAccount DEF HandleReserve
<1>3. ASSUME NEW s \in 0 .. tip, NEW m \in Market, NEW d \in MarketData,
             HandleLendingMarket(m, d, s)
      PROVE  IInv'
  <2>1. Typed'
    BY <1>1, <1>3 DEF HandleLendingMarket, IInv, Typed, Snapshot
  <2> QED
    BY <1>3, <2>1, OtherAccount DEF HandleLendingMarket
<1>4. ASSUME NEW s \in 0 .. tip, HandleUndecodable(s) \/ HandleOther(s)
      PROVE  IInv'
  <2>1. Typed'
    BY <1>4 DEF HandleUndecodable, HandleOther, IInv, Typed
  <2> QED
    BY <1>4, <2>1, OtherAccount DEF HandleUndecodable, HandleOther
<1>5. CASE NewSlot
  <2>1. Typed'
    BY <1>5, MaxTipAssumption DEF NewSlot, IInv, Typed, Slot
  <2> QED
    BY <1>5, <2>1 DEF NewSlot, IInv, HealthyHasNoCloseFactor, CandidateMatchesBook,
      RepayWithinLimits, CloseFactor
<1>6. CASE UNCHANGED adapterVars
  BY <1>6 DEF adapterVars, IInv, Typed, HealthyHasNoCloseFactor, CandidateMatchesBook,
    RepayWithinLimits, CloseFactor
<1> QED
  BY <1>2, <1>3, <1>4, <1>5, <1>6, ObligationIInv DEF AdapterNext

(* The invariant always holds.                                             *)
LEMMA AlwaysIInv == AdapterSpec => []IInv
  BY InitIInv, NextIInv, PTL DEF AdapterSpec

(* A position last decoded as healthy answers a close factor of zero,      *)
(* whatever breaches, stale accounts and missing reserves came before      *)
(* (handle_obligation, close_factor).                                      *)
THEOREM HealthyIsUnrepayable == AdapterSpec => []HealthyHasNoCloseFactor
<1>1. IInv => HealthyHasNoCloseFactor
  BY DEF IInv
<1> QED
  BY <1>1, AlwaysIInv, PTL

(* What on_account_update returned is what close_factor answers, and the   *)
(* position breaches as last decoded.                                      *)
THEOREM CandidateIsBooked == AdapterSpec => []CandidateMatchesBook
<1>1. IInv => CandidateMatchesBook
  BY DEF IInv
<1> QED
  BY <1>1, AlwaysIInv, PTL

(* A candidate's repay is within the close factor, the market's cap and    *)
(* the amount borrowed, whatever the prices, units, percentages and        *)
(* amounts and however the division truncates (max_repay_native_amount).   *)
THEOREM RepayIsLimited == AdapterSpec => []RepayWithinLimits
<1>1. IInv => RepayWithinLimits
  BY DEF IInv
<1> QED
  BY <1>1, AlwaysIInv, PTL
=============================================================================
