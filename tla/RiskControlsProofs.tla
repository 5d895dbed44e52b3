------------------------- MODULE RiskControlsProofs -------------------------
(***************************************************************************)
(* What the breakers guarantee for every set of protocols, positions and   *)
(* reserves and every revert limit, on their own and under the checks that *)
(* feed them; and what the ledger behind the drawdown check still holds    *)
(* after any prunes, snapshots, kills and restores.                        *)
(***************************************************************************)
EXTENDS RiskControls, SumLemmas, SequenceTheorems, TLAPS

-----------------------------------------------------------------------------
(* The breakers by themselves.                                             *)

\* A route whose reverts in a row have reached the limit is out of rotation.
LimitLocksOut ==
  \A r \in RouteKey : consecutiveReverts[r] >= RevertLimit => r \in outOfRotation

\* The inductive invariant: counter and rotation are two maps, which every
\* operation must move together.
IInv == TypeOK /\ LimitLocksOut

(* An outcome or command that ends a route's streak (record_success,       *)
(* rearm_route) leaves every other route as it was.                        *)
LEMMA ClearRoute ==
  ASSUME NEW route \in RouteKey, IInv,
         consecutiveReverts' = [consecutiveReverts EXCEPT ![route] = 0],
         outOfRotation' = outOfRotation \ {route},
         UNCHANGED flags
  PROVE  IInv'
<1>1. TypeOK'
  BY MaxRevertsAssumption, RevertLimitAssumption DEF IInv, TypeOK, flags
<1>2. LimitLocksOut'
  BY RevertLimitAssumption DEF IInv, TypeOK, LimitLocksOut
<1> QED  BY <1>1, <1>2 DEF IInv

(* record_revert takes the route out when every call passes the same       *)
(* limit.                                                                  *)
LEMMA RevertRoute ==
  ASSUME NEW route \in RouteKey, IInv, RecordRevert(route, RevertLimit)
  PROVE  IInv'
<1>1. consecutiveReverts'[route] = consecutiveReverts[route] + 1
  BY DEF IInv, TypeOK, RecordRevert
<1>2. TypeOK'
  BY MaxRevertsAssumption DEF IInv, TypeOK, RecordRevert, flags
<1>3. LimitLocksOut'
  <2> SUFFICES ASSUME NEW r \in RouteKey
               PROVE  consecutiveReverts'[r] >= RevertLimit => r \in outOfRotation'
    BY DEF LimitLocksOut
  <2>1. CASE r = route
    BY <1>1, <2>1, RevertLimitAssumption
       DEF IInv, TypeOK, LimitLocksOut, RecordRevert
  <2>2. CASE r # route
    BY <2>2 DEF IInv, TypeOK, LimitLocksOut, RecordRevert
  <2> QED  BY <2>1, <2>2
<1> QED  BY <1>2, <1>3 DEF IInv

(* Every operation of BreakerState preserves the inductive invariant.      *)
LEMMA NextPreservesIInv == IInv /\ [Next]_vars => IInv'
<1> SUFFICES ASSUME IInv, [Next]_vars PROVE IInv'
  OBVIOUS
<1>1. ASSUME NEW r \in RouteKey, RecordRevert(r, RevertLimit) PROVE IInv'
  BY <1>1, RevertRoute
<1>2. ASSUME NEW r \in RouteKey, RecordSuccess(r) \/ RearmRoute(r) PROVE IInv'
  BY <1>2, ClearRoute DEF RecordSuccess, RearmRoute
<1>3. CASE RearmAllRoutes
  BY <1>3, RevertLimitAssumption, MaxRevertsAssumption
     DEF IInv, TypeOK, LimitLocksOut, RearmAllRoutes, flags
<1>4. CASE \/ \E b \in BOOLEAN : SetTreasuryBelowFloor(b)
           \/ SetDrawdownTripped
           \/ RearmDrawdown
           \/ \E p \in Protocol, b \in BOOLEAN : SetProtocolSyncLagHalted(p, b)
  BY <1>4 DEF IInv, TypeOK, LimitLocksOut, SetTreasuryBelowFloor,
              SetDrawdownTripped, RearmDrawdown, SetProtocolSyncLagHalted
<1>5. CASE Restart
  <2>1. 0 \in 0 .. MaxReverts /\ ~(0 >= RevertLimit)
    BY RevertLimitAssumption, MaxRevertsAssumption
  <2>2. TypeOK'
    BY <1>5, <2>1 DEF TypeOK, Restart
  <2>3. LimitLocksOut'
    BY <1>5, <2>1 DEF LimitLocksOut, Restart
  <2> QED  BY <2>2, <2>3 DEF IInv
<1>6. CASE UNCHANGED vars
  BY <1>6 DEF IInv, TypeOK, LimitLocksOut, vars
<1> QED  BY <1>1, <1>2, <1>3, <1>4, <1>5, <1>6 DEF Next

(* A fresh BreakerState (BreakerState::new) satisfies the invariant.       *)
LEMMA InitIInv == Init => IInv
<1> SUFFICES ASSUME Init PROVE IInv
  OBVIOUS
<1>1. 0 \in 0 .. MaxReverts /\ ~(0 >= RevertLimit)
  BY RevertLimitAssumption, MaxRevertsAssumption
<1>2. TypeOK
  BY <1>1 DEF Init, TypeOK
<1>3. LimitLocksOut
  BY <1>1 DEF Init, LimitLocksOut
<1> QED  BY <1>2, <1>3 DEF IInv

(* BreakerState stays well typed whatever the callers do.                  *)
THEOREM TypeCorrect == Spec => []TypeOK
<1>1. IInv => TypeOK  BY DEF IInv
<1> QED  BY InitIInv, NextPreservesIInv, <1>1, PTL DEF Spec

(* A route whose reverts since its last landing or re-arm have reached the *)
(* configured limit is out of rotation, whatever happened in between.      *)
THEOREM LimitEnforced == Spec => []LimitLocksOut
<1>1. IInv => LimitLocksOut  BY DEF IInv
<1> QED  BY InitIInv, NextPreservesIInv, <1>1, PTL DEF Spec

(* No operation takes a route out of rotation on another route's account.  *)
THEOREM TripScoped == Spec => TripIsScopedToRoute
<1> DEFINE Scoped ==
      \A r \in outOfRotation' \ outOfRotation :
        /\ outOfRotation' = outOfRotation \cup {r}
        /\ consecutiveReverts'[r] >= RevertLimit
        /\ \A q \in RouteKey \ {r} : consecutiveReverts'[q] = consecutiveReverts[q]
<1>1. IInv /\ [Next]_vars => [Scoped]_vars
  <2> SUFFICES ASSUME IInv, Next PROVE Scoped
    OBVIOUS
  <2>1. ASSUME NEW r \in RouteKey, RecordRevert(r, RevertLimit) PROVE Scoped
    BY <2>1 DEF RecordRevert, IInv, TypeOK
  <2>2. CASE outOfRotation' \subseteq outOfRotation
    BY <2>2
  <2> QED
    BY <2>1, <2>2 DEF Next, RecordSuccess, RearmRoute, RearmAllRoutes,
       SetTreasuryBelowFloor, SetDrawdownTripped, RearmDrawdown,
       SetProtocolSyncLagHalted, Restart
<1> QED
  BY InitIInv, NextPreservesIInv, <1>1, PTL DEF Spec, TripIsScopedToRoute

-----------------------------------------------------------------------------
(* The breakers under the checks.                                          *)

(* Every check, outcome, ledger operation and restart of the composed      *)
(* controls is an operation of BreakerState or leaves it alone, so what    *)
(* holds of the breakers holds of them as the checks use them.             *)
THEOREM RiskImplementsBreakers == RiskSpec => Spec
<1>1. RiskInit => Init
  BY DEF RiskInit
<1>2. [RiskNext]_<<vars, ledgerVars>> => [Next]_vars
  <2> SUFFICES ASSUME [RiskNext]_<<vars, ledgerVars>> PROVE [Next]_vars
    OBVIOUS
  <2>1. ASSUME NEW balance \in Balance, CheckBalance(balance) PROVE [Next]_vars
    <3>1. IsBelowMinimumBalance(balance) \in BOOLEAN
      BY DEF IsBelowMinimumBalance
    <3> QED
      BY <2>1, <3>1 DEF CheckBalance, Next
  <2>2. CASE CheckDrawdown
    BY <2>2 DEF CheckDrawdown, Next
  <2>3. CASE BreakerStep
    BY <2>3 DEF BreakerStep, Next
  <2>4. CASE LedgerStep
    BY <2>4 DEF LedgerStep
  <2>5. CASE Killed
    BY <2>5 DEF Killed, Next
  <2>6. CASE UNCHANGED <<vars, ledgerVars>>
    BY <2>6
  <2> QED
    BY <2>1, <2>2, <2>3, <2>4, <2>5, <2>6 DEF RiskNext
<1> QED
  BY <1>1, <1>2, PTL DEF RiskSpec, Spec

(* Under the checks too, a route is out of rotation once its reverts have  *)
(* reached the limit, and a trip touches one route.                        *)
THEOREM RiskLimitEnforced == RiskSpec => []LimitLocksOut /\ TripIsScopedToRoute
  BY RiskImplementsBreakers, LimitEnforced, TripScoped, PTL

-----------------------------------------------------------------------------
(* The ledger.                                                             *)

Entry == [slot : Nat, net : Int]

\* entries is what is left of recorded once a beginning of it, all of which
\* is older than the window at slot t, has been dropped.
LeftOf(kept, all, t) ==
  /\ kept \in Seq(Entry) /\ all \in Seq(Entry) /\ Len(kept) <= Len(all)
  /\ \A i \in 1 .. Len(kept) : kept[i] = all[(Len(all) - Len(kept)) + i]
  /\ \A i \in 1 .. (Len(all) - Len(kept)) : Ledger!Old(all[i], t)

(* prune_older_than drops only what no later window can reach: everything  *)
(* recorded that no restart has lost, and that is not older than the       *)
(* window, is in the ledger, in the order it was recorded.                 *)
OnlyOldIsPruned == LeftOf(entries, recorded, now)

LedgerInv ==
  /\ now \in Nat
  /\ OnlyOldIsPruned
  /\ LeftOf(disk.entries, disk.recorded, now)

(* The cutoff only moves forward, so what is old stays old.                *)
LEMMA OldStaysOld ==
  ASSUME NEW kept, NEW all, NEW t \in Nat, LeftOf(kept, all, t)
  PROVE  LeftOf(kept, all, t + 1)
<1>1. Ledger!Cutoff(t) \in Nat /\ Ledger!Cutoff(t + 1) \in Nat
      /\ Ledger!Cutoff(t) <= Ledger!Cutoff(t + 1)
  BY LedgerAssumption DEF Ledger!Cutoff
<1>2. Len(kept) \in Nat /\ Len(all) \in Nat /\ \A i \in 1 .. Len(all) : all[i] \in Entry
  BY LenProperties, ElementOfSeq DEF LeftOf
<1>3. ASSUME NEW i \in 1 .. (Len(all) - Len(kept)) PROVE Ledger!Old(all[i], t + 1)
  <2>1. i \in 1 .. Len(all)
    BY <1>2 DEF LeftOf
  <2>2. all[i].slot \in Nat
    BY <1>2, <2>1 DEF Entry
  <2>3. all[i].slot < Ledger!Cutoff(t)
    BY <1>3 DEF LeftOf, Ledger!Old
  <2> QED
    BY <1>1, <2>2, <2>3 DEF Ledger!Old
<1> QED
  BY <1>3 DEF LeftOf

(* A new ledger has dropped nothing.                                       *)
LEMMA NothingLeft == \A t : LeftOf(<<>>, <<>>, t)
<1>1. <<>> \in Seq(Entry) /\ Len(<<>>) = 0
  BY EmptySeq
<1> QED
  BY <1>1 DEF LeftOf

(* An outcome is recorded at the end of both, however old its slot.        *)
LEMMA RecordKeeps ==
  ASSUME NEW kept, NEW all, NEW t \in Nat, NEW e \in Entry, LeftOf(kept, all, t)
  PROVE  LeftOf(Append(kept, e), Append(all, e), t)
<1> DEFINE m == Len(kept)
           n == Len(all)
           u == Append(kept, e)
           v == Append(all, e)
<1>1. kept \in Seq(Entry) /\ all \in Seq(Entry) /\ m \in Nat /\ n \in Nat /\ m <= n
  BY LenProperties DEF LeftOf
<1>2. /\ u \in Seq(Entry) /\ Len(u) = m + 1
      /\ \A i \in 1 .. m : u[i] = kept[i]
      /\ u[m + 1] = e
  BY <1>1, AppendProperties
<1>3. /\ v \in Seq(Entry) /\ Len(v) = n + 1
      /\ \A i \in 1 .. n : v[i] = all[i]
      /\ v[n + 1] = e
  BY <1>1, AppendProperties
<1> HIDE DEF u, v
<1>4. Len(v) - Len(u) = n - m /\ Len(u) <= Len(v)
  BY <1>1, <1>2, <1>3
<1>5. ASSUME NEW i \in 1 .. Len(u) PROVE u[i] = v[(n - m) + i]
  <2>1. CASE i = m + 1
    BY <1>1, <1>2, <1>3, <2>1
  <2>2. CASE i \in 1 .. m
    <3>1. (n - m) + i \in 1 .. n
      BY <1>1, <2>2
    <3> QED
      BY <1>2, <1>3, <2>2, <3>1 DEF LeftOf
  <2> QED
    BY <1>1, <1>2, <2>1, <2>2
<1>6. ASSUME NEW i \in 1 .. (n - m) PROVE Ledger!Old(v[i], t)
  <2>1. i \in 1 .. n
    BY <1>1
  <2> QED
    BY <1>3, <2>1 DEF LeftOf
<1> QED
  BY <1>2, <1>3, <1>4, <1>5, <1>6 DEF LeftOf, u, v

(* The front is popped while it is old.                                    *)
LEMMA PruneKeeps ==
  ASSUME NEW kept, NEW all, NEW t \in Nat, LeftOf(kept, all, t),
         NEW k \in 0 .. Len(kept), \A i \in 1 .. k : Ledger!Old(kept[i], t)
  PROVE  LeftOf(SubSeq(kept, k + 1, Len(kept)), all, t)
<1> DEFINE m == Len(kept)
           n == Len(all)
           u == SubSeq(kept, k + 1, m)
<1>1. /\ kept \in Seq(Entry) /\ all \in Seq(Entry) /\ m \in Nat /\ n \in Nat /\ m <= n
      /\ k \in Nat /\ k <= m
  BY LenProperties DEF LeftOf
<1>2. u \in Seq(Entry) /\ Len(u) = m - k /\ \A i \in 1 .. (m - k) : u[i] = kept[k + i]
  <2>1. \A i \in (k + 1) .. m : kept[i] \in Entry
    BY <1>1, ElementOfSeq
  <2> QED
    BY <1>1, <2>1, SubSeqProperties
<1> HIDE DEF u
<1>3. n - Len(u) = (n - m) + k /\ Len(u) <= n /\ Len(u) \in Nat
  BY <1>1, <1>2
<1>4. ASSUME NEW i \in 1 .. Len(u) PROVE u[i] = all[(n - Len(u)) + i]
  <2>1. k + i \in 1 .. m /\ (n - m) + (k + i) = (n - Len(u)) + i
    BY <1>1, <1>2, <1>3
  <2>2. kept[k + i] = all[(n - m) + (k + i)]
    BY <2>1 DEF LeftOf
  <2> QED
    BY <1>2, <2>1, <2>2
<1>5. ASSUME NEW i \in 1 .. (n - Len(u)) PROVE Ledger!Old(all[i], t)
  <2>1. CASE i <= n - m
    <3>1. i \in 1 .. (n - m)
      BY <1>1, <1>3, <2>1
    <3>2. \A j \in 1 .. (n - m) : Ledger!Old(all[j], t)
      BY DEF LeftOf
    <3> QED
      BY <3>1, <3>2
  <2>2. CASE i > n - m
    <3>1. i - (n - m) \in 1 .. k /\ i - (n - m) \in 1 .. m /\ (n - m) + (i - (n - m)) = i
      BY <1>1, <1>3, <2>2
    <3>2. kept[i - (n - m)] = all[(n - m) + (i - (n - m))]
      BY <3>1 DEF LeftOf
    <3> QED
      BY <3>1, <3>2
  <2> QED
    BY <1>1, <2>1, <2>2
<1> QED
  BY <1>1, <1>2, <1>3, <1>4, <1>5 DEF LeftOf, u

(* Every step of the ledger, and every kill, preserves the invariant.      *)
LEMMA LedgerNext == LedgerInv /\ [RiskNext]_<<vars, ledgerVars>> => LedgerInv'
<1> SUFFICES ASSUME LedgerInv, [RiskNext]_<<vars, ledgerVars>> PROVE LedgerInv'
  OBVIOUS
<1>1. /\ now \in Nat /\ LeftOf(entries, recorded, now)
      /\ LeftOf(disk.entries, disk.recorded, now)
  BY DEF LedgerInv, OnlyOldIsPruned
<1>2. CASE UNCHANGED ledgerVars
  BY <1>1, <1>2 DEF LedgerInv, OnlyOldIsPruned, ledgerVars
<1>3. CASE Ledger!NewSlot
  BY <1>1, <1>3, OldStaysOld DEF Ledger!NewSlot, LedgerInv, OnlyOldIsPruned
<1>4. ASSUME NEW slot \in 0 .. now, NEW net \in Net, Ledger!Record(slot, net) PROVE LedgerInv'
  <2>1. [slot |-> slot, net |-> net] \in Entry
    BY <1>1, LedgerAssumption DEF Entry
  <2> QED
    BY <1>1, <1>4, <2>1, RecordKeeps DEF Ledger!Record, LedgerInv, OnlyOldIsPruned
<1>5. CASE Ledger!PruneOlderThan
  <2>1. PICK k \in 0 .. Len(entries) : /\ \A i \in 1 .. k : Ledger!Old(entries[i], now)
                                      /\ entries' = SubSeq(entries, k + 1, Len(entries))
    BY <1>5 DEF Ledger!PruneOlderThan
  <2>2. LeftOf(entries', recorded, now)
    BY <1>1, <2>1, PruneKeeps
  <2> QED
    BY <1>1, <1>5, <2>2 DEF Ledger!PruneOlderThan, LedgerInv, OnlyOldIsPruned
<1>6. CASE Ledger!SnapshotTruncate
  <2>1. disk'.entries = <<>> /\ disk'.recorded = <<>>
    BY <1>6 DEF Ledger!SnapshotTruncate, Ledger!NoSnapshot
  <2> QED
    BY <1>1, <1>6, <2>1, NothingLeft DEF Ledger!SnapshotTruncate, LedgerInv, OnlyOldIsPruned
<1>7. CASE Ledger!SnapshotWrite
  <2>1. disk'.entries = entries /\ disk'.recorded = recorded
    BY <1>7 DEF Ledger!SnapshotWrite
  <2> QED
    BY <1>1, <1>7, <2>1 DEF Ledger!SnapshotWrite, LedgerInv, OnlyOldIsPruned
<1>8. CASE Ledger!Restore
  BY <1>1, <1>8 DEF Ledger!Restore, LedgerInv, OnlyOldIsPruned
<1>9. CASE Ledger!SnapshotFails
  BY <1>1, <1>9 DEF Ledger!SnapshotFails, LedgerInv, OnlyOldIsPruned
<1>10. CASE Ledger!RestoreFails \/ Ledger!Kill
  BY <1>1, <1>10, NothingLeft DEF Ledger!RestoreFails, Ledger!Kill, LedgerInv, OnlyOldIsPruned
<1> QED
  BY <1>2, <1>3, <1>4, <1>5, <1>6, <1>7, <1>8, <1>9, <1>10
     DEF RiskNext, CheckBalance, CheckDrawdown, BreakerStep, LedgerStep, Killed

(* What the ledger and its snapshot still hold, in every state.            *)
THEOREM LedgerInductive == RiskSpec => []LedgerInv
<1>1. RiskInit => LedgerInv
  <2> SUFFICES ASSUME RiskInit PROVE LedgerInv
    OBVIOUS
  <2>1. /\ now = 0 /\ entries = <<>> /\ recorded = <<>>
        /\ disk.entries = <<>> /\ disk.recorded = <<>>
    BY DEF RiskInit, Ledger!Init, Ledger!NoSnapshot
  <2> QED
    BY <2>1, NothingLeft DEF LedgerInv, OnlyOldIsPruned
<1> QED
  BY <1>1, LedgerNext, PTL DEF RiskSpec

(* However often the ledger was pruned, saved and restored, and whatever   *)
(* order of slots it was given, it has dropped only outcomes that the      *)
(* drawdown check's window no longer reaches (prune_older_than).           *)
THEOREM PruningSparesWindow == RiskSpec => []OnlyOldIsPruned
<1>1. LedgerInv => OnlyOldIsPruned
  BY DEF LedgerInv
<1> QED
  BY <1>1, LedgerInductive, PTL

-----------------------------------------------------------------------------
(* The sum of the window.                                                  *)

\* What each entry of s adds to the sum at slot t.
InWindow(s, t) ==
  [i \in DOMAIN s |->
     IF s[i].slot >= Ledger!Cutoff(t) /\ s[i].slot <= t THEN s[i].net ELSE 0]

(* windowed_sum adds those up.                                             *)
LEMMA WindowedSumIs ==
  ASSUME NEW s, NEW t
  PROVE  Ledger!WindowedSum(s, t) = SumFunctionOnSet(InWindow(s, t), DOMAIN s)
  BY DEF Ledger!WindowedSum, Ledger!SumFunction, Ledger!SumFunctionOnSet,
         Ledger!FoldFunctionOnSet, Ledger!MapThenFoldSet, InWindow,
         SumFunctionOnSet, FoldFunctionOnSet, MapThenFoldSet

(* What was dropped adds nothing, and what was kept adds the same from its *)
(* new place: the two sums agree.                                          *)
LEMMA SameWindowedSum ==
  ASSUME NEW kept, NEW all, NEW t \in Nat, LeftOf(kept, all, t)
  PROVE  Ledger!WindowedSum(kept, t) = Ledger!WindowedSum(all, t)
<1> DEFINE m == Len(kept)
           n == Len(all)
           d == n - m
           f == InWindow(kept, t)
           g == InWindow(all, t)
           h == [i \in 1 .. m |-> d + i]
           places == 1 .. m
           front == 1 .. d
           back == (d + 1) .. n
<1>1. /\ kept \in Seq(Entry) /\ all \in Seq(Entry) /\ m \in Nat /\ n \in Nat /\ d \in Nat
      /\ DOMAIN kept = 1 .. m /\ DOMAIN all = 1 .. n /\ d + m = n
      /\ \A i \in 1 .. m : kept[i] = all[d + i]
      /\ \A i \in 1 .. d : Ledger!Old(all[i], t)
  BY LenProperties DEF LeftOf
<1>2. \A i \in 1 .. n : all[i] \in Entry
  BY <1>1, ElementOfSeq
<1>3. \A i \in 1 .. m : kept[i] \in Entry
  BY <1>1, ElementOfSeq
<1>4. Ledger!Cutoff(t) \in Nat
  BY LedgerAssumption DEF Ledger!Cutoff
<1>5. \A i \in 1 .. n : g[i] \in Int
  BY <1>1, <1>2 DEF InWindow, Entry
<1>6. ASSUME NEW i \in places PROVE h[i] \in back /\ f[i] = g[h[i]] /\ f[i] \in Int
  <2>1. d + i \in 1 .. n /\ d + i \in back
    BY <1>1
  <2>2. f[i] = g[d + i]
    BY <1>1, <2>1 DEF InWindow
  <2> QED
    BY <1>5, <2>1, <2>2
<1>7. ASSUME NEW i \in front PROVE g[i] = 0
  <2>1. i \in 1 .. n /\ all[i].slot \in Nat
    BY <1>1, <1>2 DEF Entry
  <2>2. all[i].slot < Ledger!Cutoff(t)
    BY <1>1 DEF Ledger!Old
  <2> QED
    BY <1>1, <1>4, <2>1, <2>2 DEF InWindow
<1>8. /\ IsFiniteSet(front) /\ IsFiniteSet(back) /\ IsFiniteSet(places)
      /\ front \cap back = {} /\ front \cup back = 1 .. n
      /\ \A i \in front \cup back : g[i] \in Int
      /\ \A i \in front : g[i] \in Nat
  <2>1. IsFiniteSet(front) /\ IsFiniteSet(back) /\ IsFiniteSet(places)
    BY <1>1, FS_Interval
  <2>2. front \cap back = {} /\ front \cup back = 1 .. n
    BY <1>1
  <2> QED
    BY <1>5, <1>7, <2>1, <2>2
<1>9. (\A i \in places : h[i] \in back) /\ (\A j \in back : \E i \in places : h[i] = j)
  <2>1. \A j \in back : j - d \in places /\ h[j - d] = j
    BY <1>1
  <2>2. \A i \in places : h[i] \in back
    BY <1>6
  <2> HIDE DEF h, back, places
  <2> QED
    BY <2>1, <2>2
<1>10. \A i, j \in places : h[i] = h[j] => i = j
  BY <1>1
<1>11. /\ Ledger!WindowedSum(kept, t) = SumFunctionOnSet(f, places)
       /\ Ledger!WindowedSum(all, t) = SumFunctionOnSet(g, front \cup back)
  <2>1. DOMAIN kept = places /\ DOMAIN all = front \cup back
    BY <1>1, <1>8
  <2> QED
    BY <2>1, WindowedSumIs
<1> HIDE DEF f, g, h, front, back, places
<1>12. SumFunctionOnSet(f, places) = SumFunctionOnSet(g, back)
  <2>1. \A i \in places : f[i] \in Int /\ f[i] = g[h[i]]
    BY <1>6
  <2> QED
    BY <1>8, <1>9, <1>10, <2>1, SumReindexed
<1>13. SumFunctionOnSet(g, front) = 0
  BY <1>7, <1>8, SumNat
<1>14. SumFunctionOnSet(g, front \cup back)
         = SumFunctionOnSet(g, front) + SumFunctionOnSet(g, back)
  BY <1>8, SumUnion
<1>15. SumFunctionOnSet(g, back) \in Int
  BY <1>8, SumInt
<1> QED
  BY <1>11, <1>12, <1>13, <1>14, <1>15

(* The sum of integers is one.                                             *)
LEMMA WindowedSumInt ==
  ASSUME NEW s \in Seq(Entry), NEW t \in Nat
  PROVE  Ledger!WindowedSum(s, t) \in Int
<1>1. Len(s) \in Nat /\ DOMAIN s = 1 .. Len(s) /\ \A i \in 1 .. Len(s) : s[i] \in Entry
  BY LenProperties, ElementOfSeq
<1>2. IsFiniteSet(DOMAIN s)
  BY <1>1, FS_Interval
<1>3. \A i \in DOMAIN s : InWindow(s, t)[i] \in Int
  BY <1>1 DEF InWindow, Entry
<1> QED
  BY <1>2, <1>3, SumInt, WindowedSumIs

(* The drawdown check's sum is that of every outcome recorded which no     *)
(* restart has lost, whatever was pruned, saved and restored, and at       *)
(* whatever slots (windowed_sum, prune_older_than, snapshot, restore).     *)
THEOREM SumIsOfAllRecorded == RiskSpec => []SumUnaffectedByPruning
<1>1. LedgerInv => SumUnaffectedByPruning
  BY SameWindowedSum DEF LedgerInv, OnlyOldIsPruned, SumUnaffectedByPruning
<1> QED
  BY <1>1, LedgerInductive, PTL

(* The drawdown breaker trips only on a loss of at least the limit in the  *)
(* outcomes recorded, in ledgers of any length.                            *)
THEOREM TripIsALoss == RiskSpec => DrawdownTripsOnLoss
<1> DEFINE Loss == drawdownTripped' /\ ~drawdownTripped
                     => LET sum == Ledger!WindowedSum(recorded, now)
                        IN  sum <= MaxDrawdown /\ sum <= 0 - MaxDrawdown
<1>1. LedgerInv /\ SumUnaffectedByPruning /\ [RiskNext]_<<vars, ledgerVars>>
        => [Loss]_<<vars, ledgerVars>>
  <2> SUFFICES ASSUME LedgerInv, SumUnaffectedByPruning, RiskNext, drawdownTripped', ~drawdownTripped
               PROVE  /\ Ledger!WindowedSum(recorded, now) <= MaxDrawdown
                      /\ Ledger!WindowedSum(recorded, now) <= 0 - MaxDrawdown
    OBVIOUS
  <2>1. CASE CheckDrawdown
    <3>1. Ledger!WindowedSum(recorded, now) \in Int
      BY WindowedSumInt DEF LedgerInv, OnlyOldIsPruned, LeftOf
    <3> QED
      BY <2>1, <3>1, LedgerAssumption
      DEF CheckDrawdown, Ledger!DrawdownBreached, SumUnaffectedByPruning
  <2>2. CASE UNCHANGED drawdownTripped \/ drawdownTripped' = FALSE
    BY <2>2
  <2>3. ASSUME NEW balance \in Balance, CheckBalance(balance) PROVE UNCHANGED drawdownTripped
    BY <2>3 DEF CheckBalance, SetTreasuryBelowFloor
  <2>4. BreakerStep => UNCHANGED drawdownTripped \/ drawdownTripped' = FALSE
    BY DEF BreakerStep, RecordRevert, RecordSuccess, RearmRoute, RearmAllRoutes,
           RearmDrawdown, SetProtocolSyncLagHalted, flags
  <2>5. LedgerStep => UNCHANGED drawdownTripped
    BY DEF LedgerStep, vars, flags
  <2>6. Killed => drawdownTripped' = FALSE
    BY DEF Killed, Restart
  <2> QED
    BY <2>1, <2>2, <2>3, <2>4, <2>5, <2>6 DEF RiskNext
<1> QED
  BY <1>1, LedgerInductive, SumIsOfAllRecorded, PTL DEF RiskSpec, DrawdownTripsOnLoss
=============================================================================
