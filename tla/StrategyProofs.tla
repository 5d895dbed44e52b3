--------------------------- MODULE StrategyProofs ---------------------------
(***************************************************************************)
(* What the strategy crate guarantees, for every set of amounts, reserves, *)
(* fees, profits, tips and limits: the step-down search of sizing.rs, the  *)
(* windows of arbitrate(), and size_and_route with the router behind it.   *)
(***************************************************************************)
EXTENDS SizingStepDown, Arbitration, FlashRouting, SumLemmas, TLAPS

-----------------------------------------------------------------------------
(* Arithmetic of the grid: sizes a whole number of decrements below the    *)
(* initial size.                                                           *)

(* Distances from the initial size that are multiples of the decrement:    *)
(* one more decrement is one too.                                          *)
LEMMA MultipleNext ==
  ASSUME NEW x \in Nat, NEW d \in Nat \ {0}, x % d = 0
  PROVE  (x + d) % d = 0
<1>1. x = d * (x \div d) /\ x \div d \in Nat
  OBVIOUS
<1>2. PICK q \in Nat : x = d * q
  BY <1>1
<1>3. x + d = d * (q + 1)
  BY <1>2
<1>4. PICK k \in Nat, r \in 0 .. d - 1 : x + d = d * k + r /\ r = (x + d) % d
  <2>1. /\ x + d = (d * ((x + d) \div d)) + ((x + d) % d)
        /\ (x + d) \div d \in Nat /\ (x + d) % d \in 0 .. d - 1
    OBVIOUS
  <2> QED  BY <2>1
<1>5. k = q + 1
  <2>1. CASE k < q + 1
    <3>1. PICK e \in Nat : q + 1 = k + 1 + e
      <4>1. (q + 1) - (k + 1) \in Nat
        BY <2>1
      <4> QED  BY <4>1
    <3>2. d * (q + 1) = d * k + d + d * e /\ d * e \in Nat /\ d * k \in Nat
      BY <3>1
    <3> QED  BY <1>3, <1>4, <3>2
  <2>2. CASE k > q + 1
    <3>1. PICK e \in Nat : k = q + 1 + 1 + e
      <4>1. k - (q + 2) \in Nat
        BY <2>2
      <4> QED  BY <4>1
    <3>2. d * k = d * (q + 1) + d + d * e /\ d * e \in Nat /\ d * (q + 1) \in Nat
      BY <3>1
    <3> QED  BY <1>3, <1>4, <3>2
  <2> QED  BY <2>1, <2>2
<1>6. d * k = d * (q + 1) /\ d * k \in Nat
  BY <1>5
<1> QED
  BY <1>3, <1>4, <1>6

(* Two different multiples of the decrement are at least one decrement     *)
(* apart.                                                                  *)
LEMMA MultiplesApart ==
  ASSUME NEW x \in Nat, NEW y \in Nat, NEW d \in Nat \ {0},
         x % d = 0, y % d = 0, x < y
  PROVE  x + d <= y
<1>1. PICK j \in Nat : x = d * j
  <2>1. x = d * (x \div d) /\ x \div d \in Nat
    OBVIOUS
  <2> QED  BY <2>1
<1>2. PICK k \in Nat : y = d * k
  <2>1. y = d * (y \div d) /\ y \div d \in Nat
    OBVIOUS
  <2> QED  BY <2>1
<1>3. j < k
  <2> SUFFICES ASSUME k <= j PROVE FALSE
    OBVIOUS
  <2>1. PICK e \in Nat : j = k + e
    <3>1. j - k \in Nat
      OBVIOUS
    <3> QED  BY <3>1
  <2>2. d * j = d * k + d * e /\ d * e \in Nat
    BY <2>1
  <2> QED
    BY <1>1, <1>2, <2>2
<1>4. PICK e \in Nat : k = j + 1 + e
  <2>1. k - (j + 1) \in Nat
    BY <1>3
  <2> QED  BY <2>1
<1>5. d * k = d * j + d + d * e /\ d * e \in Nat
  BY <1>4
<1> QED
  BY <1>1, <1>2, <1>5

-----------------------------------------------------------------------------
Typed ==
  /\ pc \in {"idle", "checking", "returned"}
  /\ closeFactor \in Nat /\ depth \in Nat /\ tables \in BOOLEAN
  /\ current \in Nat

\* Nothing of an earlier call is left when a call begins.
IdleClean == pc = "idle" => rejected = {} /\ lastOverflow = "none"

\* The loop is on the grid, has rejected every larger size of it, and
\* remembers an overflow, that of the size one step up, exactly when it has
\* stepped down.
Searching ==
  pc = "checking" =>
    /\ current \in Grid
    /\ rejected = {s \in Grid : s > current}
    /\ IF current < InitialSize THEN lastOverflow \in Overflow ELSE lastOverflow = "none"
    /\ current < InitialSize =>
         /\ lastRejected = [size |-> current + StepDecrement, why |-> lastOverflow]
         /\ lastRejected.size \in rejected

SizingInv ==
  /\ Typed
  /\ IdleClean
  /\ Searching
  /\ LargestFittingSize
  /\ BindingExplainsSize

(* The decrement is positive: a tenth of the size, or 1.                   *)
LEMMA DecrementPositive ==
  ASSUME Typed
  PROVE  InitialSize \in Nat /\ StepDecrement \in Nat \ {0}
<1>1. InitialSize \in Nat
  BY DEF Typed, InitialSize
<1>2. \A n \in Nat : n >= 10 => n \div 10 \in Nat \ {0}
  OBVIOUS
<1> QED
  BY <1>1, <1>2 DEF StepDecrement

(* One step down from a size of the grid: the next size, if there is one,  *)
(* is on the grid with nothing of it in between, and if there is none the  *)
(* grid ends here.                                                         *)
LEMMA GridStep ==
  ASSUME Typed, NEW c \in Grid
  PROVE  /\ c > StepDecrement =>
              /\ c - StepDecrement \in Grid
              /\ {s \in Grid : s > c - StepDecrement} = {s \in Grid : s > c} \cup {c}
         /\ c <= StepDecrement => {s \in Grid : s > 0} = {s \in Grid : s > c} \cup {c}
<1> DEFINE I == InitialSize
           D == StepDecrement
<1>1. I \in Nat /\ D \in Nat \ {0}
  BY DecrementPositive
<1>2. c \in 1 .. I /\ (I - c) % D = 0
  BY DEF Grid
<1>3. \A s \in Grid : s \in 1 .. I /\ (I - s) % D = 0
  BY DEF Grid
<1> HIDE DEF I, D
<1>4. ASSUME NEW s \in Grid, s < c PROVE s + D <= c
  <2>1. /\ I - c \in Nat /\ I - s \in Nat /\ I - c < I - s
        /\ (I - s) % D = 0
    BY <1>1, <1>2, <1>3, <1>4
  <2>2. (I - c) + D <= I - s
    BY <1>1, <1>2, <2>1, MultiplesApart
  <2> QED
    BY <1>1, <1>2, <1>3, <2>2
<1>5. CASE c > D
  <2>1. (I - c) + D = I - (c - D) /\ I - c \in Nat /\ c - D \in 1 .. I
    BY <1>1, <1>2, <1>5
  <2>2. (I - (c - D)) % D = 0
    BY <1>1, <1>2, <2>1, MultipleNext
  <2>3. c - D \in Grid
    BY <2>1, <2>2 DEF Grid, I, D
  <2>4. ASSUME NEW s \in Grid PROVE s > c - D <=> s > c \/ s = c
    BY <1>1, <1>2, <1>3, <1>4
  <2>5. {s \in Grid : s > c - D} = {s \in Grid : s > c} \cup {c}
    BY <2>4
  <2>6. ~(c <= D)
    BY <1>1, <1>2, <1>5
  <2> QED
    BY <2>3, <2>5, <2>6 DEF D
<1>6. CASE c <= D
  <2>1. ASSUME NEW s \in Grid PROVE s > 0 /\ (s > c \/ s = c)
    BY <1>1, <1>2, <1>3, <1>4, <1>6
  <2>2. {s \in Grid : s > 0} = {s \in Grid : s > c} \cup {c}
    BY <2>1
  <2>3. ~(c > D)
    BY <1>1, <1>2, <1>6
  <2> QED
    BY <2>2, <2>3 DEF D
<1>7. c > D \/ c <= D
  BY <1>1, <1>2
<1> QED
  BY <1>5, <1>6, <1>7

(* A verdict that names lookup tables is given only when there are some    *)
(* (check_feasibility).                                                    *)
LEMMA AltNeedsTables ==
  ASSUME NEW cu, NEW plain, NEW packed,
         CheckFeasibility(cu, plain, packed) = "fitsWithAlt"
  PROVE  tables = TRUE
  BY DEF CheckFeasibility

-----------------------------------------------------------------------------
(* What the grid is made of while the candidate stays the same.            *)
LEMMA SameCandidate ==
  ASSUME UNCHANGED <<closeFactor, depth>>
  PROVE  /\ InitialSize' = InitialSize
         /\ StepDecrement' = StepDecrement
         /\ Grid' = Grid
         /\ Ceiling' = Ceiling
  BY DEF InitialSize, StepDecrement, Grid, Ceiling

(* Before a candidate is sized there is nothing to explain.                *)
LEMMA InitSizingInv == SizingInit => SizingInv
  BY SizeAssumption
  DEF SizingInit, SizingInv, Typed, IdleClean, Searching, LargestFittingSize, BindingExplainsSize

(* Nothing to size: the grid is empty, and the smaller amount is zero.     *)
LEMMA BeginZeroKeeps ==
  ASSUME SizingInv, BeginZero
  PROVE  SizingInv'
<1>1. Typed' /\ IdleClean' /\ Searching'
  BY DEF SizingInv, BeginZero, Typed, IdleClean, Searching
<1>2. InitialSize' = InitialSize /\ Grid' = Grid
  BY SameCandidate DEF BeginZero
<1>3. Grid = {}
  BY DEF BeginZero, Grid
<1>4. /\ rejected' = {} /\ decision'.final = 0 /\ decision'.usedAlt = FALSE
      /\ decision'.binding = IF closeFactor = 0 THEN "CloseFactor" ELSE "FlashDepth"
  BY DEF SizingInv, BeginZero, IdleClean, Decision
<1>5. LargestFittingSize'
  BY <1>2, <1>3, <1>4 DEF LargestFittingSize
<1>6. closeFactor = 0 => closeFactor <= depth
  BY DEF SizingInv, Typed
<1>7. closeFactor # 0 => depth < closeFactor
  BY DEF SizingInv, Typed, BeginZero, InitialSize
<1>8. BindingExplainsSize'
  <2>1. decision'.binding \notin Overflow /\ ~(decision'.final < InitialSize')
    <3>1. decision'.binding \notin Overflow
      BY <1>4 DEF Overflow
    <3>2. InitialSize' = 0
      BY <1>2 DEF BeginZero
    <3> QED
      BY <1>4, <3>1, <3>2
  <2>2. /\ decision'.binding = "CloseFactor" => closeFactor' <= depth'
        /\ decision'.binding = "FlashDepth" => depth' < closeFactor'
    BY <1>4, <1>6, <1>7 DEF BeginZero
  <2>3. ~decision'.usedAlt
    BY <1>4, Zenon
  <2> QED
    BY <2>1, <2>2, <2>3, Zenon DEF BindingExplainsSize
<1> QED
  BY <1>1, <1>5, <1>8 DEF SizingInv

(* The search starts at the top of the grid, with nothing rejected.        *)
LEMMA BeginKeeps ==
  ASSUME SizingInv, Begin
  PROVE  SizingInv'
<1>1. InitialSize \in Nat /\ StepDecrement \in Nat \ {0}
  BY DecrementPositive DEF SizingInv
<1>2. InitialSize' = InitialSize /\ Grid' = Grid
  BY SameCandidate DEF Begin
<1>3. Typed' /\ IdleClean' /\ LargestFittingSize' /\ BindingExplainsSize'
  BY <1>1 DEF SizingInv, Begin, Typed, IdleClean, LargestFittingSize, BindingExplainsSize
<1>4. InitialSize \in Grid
  <2>1. InitialSize \in 1 .. InitialSize /\ InitialSize - InitialSize = 0
    BY <1>1 DEF Begin
  <2>2. \A d \in Nat \ {0} : 0 % d = 0
    OBVIOUS
  <2> QED
    BY <1>1, <2>1, <2>2 DEF Grid
<1>5. {s \in Grid : s > InitialSize} = {}
  <2> SUFFICES ASSUME NEW s \in Grid PROVE ~(s > InitialSize)
    OBVIOUS
  <2>1. s \in 1 .. InitialSize
    BY DEF Grid
  <2> QED
    BY <1>1, <2>1
<1>6. current' = InitialSize /\ rejected' = {} /\ lastOverflow' = "none"
  BY DEF SizingInv, Begin, IdleClean
<1>7. ~(InitialSize < InitialSize)
  BY <1>1
<1>8. Searching'
  BY <1>2, <1>4, <1>5, <1>6, <1>7 DEF Searching
<1> QED
  BY <1>3, <1>8 DEF SizingInv

(* A size that fits is returned: the search had rejected every larger one, *)
(* and remembers why if it had stepped down.                               *)
LEMMA FitsKeeps ==
  ASSUME SizingInv, NEW v, Fits(v), v = "fitsWithAlt" => tables = TRUE
  PROVE  SizingInv'
<1>1. InitialSize \in Nat
  BY DecrementPositive DEF SizingInv
<1>2. InitialSize' = InitialSize /\ Grid' = Grid
  BY SameCandidate DEF Fits
<1>3. Typed' /\ IdleClean' /\ Searching'
  BY DEF SizingInv, Fits, Typed, IdleClean, Searching
<1>4. /\ decision'.final = current
      /\ decision'.usedAlt = (v = "fitsWithAlt")
      /\ decision'.binding = IF current < InitialSize THEN lastOverflow ELSE Ceiling
  BY DEF Fits, Decision
<1>5. /\ current \in Grid /\ rejected = {s \in Grid : s > current}
      /\ IF current < InitialSize THEN lastOverflow \in Overflow ELSE lastOverflow = "none"
  BY DEF SizingInv, Fits, Searching
<1>6. LargestFittingSize'
  BY <1>2, <1>4, <1>5 DEF Fits, LargestFittingSize
<1>7. StepDecrement \in Nat \ {0} /\ StepDecrement' = StepDecrement
  BY <1>2, DecrementPositive DEF SizingInv, StepDecrement
<1>8. current \in 1 .. InitialSize
  BY <1>5 DEF Grid
<1>9. /\ Ceiling \in {"CloseFactor", "FlashDepth"}
      /\ Ceiling = "CloseFactor" => closeFactor <= depth
      /\ Ceiling = "FlashDepth" => depth < closeFactor
  BY DEF SizingInv, Typed, Ceiling, InitialSize
<1>10. BindingExplainsSize'
  <2>1. decision'.binding \in Overflow <=> current < InitialSize
    BY <1>4, <1>5, <1>9 DEF Overflow
  <2>2. /\ decision'.binding = "CloseFactor" => closeFactor <= depth
        /\ decision'.binding = "FlashDepth" => depth < closeFactor
    BY <1>4, <1>5, <1>9 DEF Overflow
  <2>3. decision'.usedAlt => tables /\ current > 0
    <3>1. decision'.usedAlt => v = "fitsWithAlt"
      BY <1>4, Zenon
    <3>2. current > 0
      BY <1>1, <1>8
    <3> QED
      BY <3>1, <3>2, Zenon
  <2>4. decision'.binding \in Overflow =>
          /\ lastRejected'.why = decision'.binding
          /\ lastRejected'.size \in rejected'
          /\ lastRejected'.size <= current + StepDecrement
    <3> SUFFICES ASSUME decision'.binding \in Overflow
                 PROVE  /\ lastRejected'.why = decision'.binding
                        /\ lastRejected'.size \in rejected'
                        /\ lastRejected'.size <= current + StepDecrement
      OBVIOUS
    <3>1. /\ lastRejected' = lastRejected /\ rejected' = rejected
          /\ lastRejected = [size |-> current + StepDecrement, why |-> lastOverflow]
          /\ lastRejected.size \in rejected
          /\ decision'.binding = lastOverflow
      BY <1>4, <2>1 DEF SizingInv, Fits, Searching
    <3> QED
      BY <1>1, <1>8, <1>7, <3>1
  <2> QED
    BY <1>2, <1>4, <1>7, <2>1, <2>2, <2>3, <2>4 DEF Fits, BindingExplainsSize
<1> QED
  BY <1>3, <1>6, <1>10 DEF SizingInv

(* The last size of the grid does not fit: all of them are rejected.       *)
LEMMA GiveUpKeeps ==
  ASSUME SizingInv, NEW v, GiveUp(v)
  PROVE  SizingInv'
<1>1. InitialSize \in Nat
  BY DecrementPositive DEF SizingInv
<1>2. InitialSize' = InitialSize /\ Grid' = Grid
  BY SameCandidate DEF GiveUp, Overflows
<1>3. Typed' /\ IdleClean' /\ Searching'
  BY DEF SizingInv, GiveUp, Overflows, Typed, IdleClean, Searching
<1>4. /\ decision'.final = 0 /\ decision'.usedAlt = FALSE
      /\ decision'.binding = v /\ v \in Overflow
  BY DEF GiveUp, Overflows, Decision
<1>5. /\ current \in Grid /\ rejected = {s \in Grid : s > current}
      /\ current <= StepDecrement /\ rejected' = rejected \cup {current}
  BY DEF SizingInv, GiveUp, Overflows, Searching
<1>6. rejected' = {s \in Grid : s > 0}
  BY <1>5, GridStep DEF SizingInv
<1>7. LargestFittingSize'
  BY <1>2, <1>4, <1>6 DEF LargestFittingSize
<1>8. 0 < InitialSize
  <2>1. current \in 1 .. InitialSize
    BY <1>5 DEF Grid
  <2> QED
    BY <1>1, <2>1
<1>9. BindingExplainsSize'
  <2>1. StepDecrement \in Nat \ {0} /\ StepDecrement' = StepDecrement
    BY <1>2, DecrementPositive DEF SizingInv, StepDecrement
  <2>2. /\ lastRejected'.why = v /\ lastRejected'.size = current
        /\ current \in rejected' /\ current <= 0 + StepDecrement
    BY <1>5, <2>1 DEF GiveUp, Overflows
  <2> QED
    BY <1>2, <1>4, <1>8, <2>1, <2>2 DEF BindingExplainsSize, Overflow
<1> QED
  BY <1>3, <1>7, <1>9 DEF SizingInv

(* The next size down is the next one of the grid.                         *)
LEMMA StepDownKeeps ==
  ASSUME SizingInv, NEW v, StepDown(v)
  PROVE  SizingInv'
<1>1. InitialSize \in Nat /\ StepDecrement \in Nat \ {0}
  BY DecrementPositive DEF SizingInv
<1>2. InitialSize' = InitialSize /\ Grid' = Grid
  BY SameCandidate DEF StepDown, Overflows
<1>3. /\ current \in Grid /\ rejected = {s \in Grid : s > current}
      /\ current > StepDecrement /\ rejected' = rejected \cup {current}
      /\ current' = current - StepDecrement /\ lastOverflow' \in Overflow
  BY DEF SizingInv, StepDown, Overflows, Searching
<1>4. current \in 1 .. InitialSize
  BY <1>3 DEF Grid
<1>5. current' \in Nat /\ current' < InitialSize
  BY <1>1, <1>3, <1>4
<1>6. pc = "checking" /\ pc' = "checking"
  BY DEF StepDown, Overflows
<1>7. Typed' /\ IdleClean' /\ LargestFittingSize' /\ BindingExplainsSize'
  BY <1>5, <1>6
  DEF SizingInv, StepDown, Overflows, Typed, IdleClean, LargestFittingSize, BindingExplainsSize
<1>8. current' \in Grid /\ rejected' = {s \in Grid : s > current'}
  BY <1>3, GridStep DEF SizingInv
<1>9. Searching'
  <2>1. StepDecrement' = StepDecrement /\ current \in Nat
    BY <1>2, <1>4 DEF StepDecrement
  <2>2. lastRejected' = [size |-> current, why |-> lastOverflow'] /\ current \in rejected'
    BY <1>3 DEF StepDown, Overflows
  <2>3. current = current' + StepDecrement'
    BY <1>1, <1>3, <2>1
  <2> QED
    BY <1>2, <1>3, <1>5, <1>8, <2>2, <2>3 DEF Searching
<1> QED
  BY <1>7, <1>9 DEF SizingInv

(* SizingInv is inductive.                                                 *)
LEMMA SizingNextKeeps == SizingInv /\ [SizingNext]_sizingVars => SizingInv'
<1> SUFFICES ASSUME SizingInv, [SizingNext]_sizingVars PROVE SizingInv'
  OBVIOUS
<1>1. CASE BeginZero
  BY <1>1, BeginZeroKeeps
<1>2. CASE Begin
  BY <1>2, BeginKeeps
<1>3. CASE Check
  <2>1. PICK cu \in Cu, plain \in Bytes, packed \in Bytes :
          \/ Fits(CheckFeasibility(cu, plain, packed))
          \/ GiveUp(CheckFeasibility(cu, plain, packed))
          \/ StepDown(CheckFeasibility(cu, plain, packed))
    BY <1>3 DEF Check
  <2> DEFINE v == CheckFeasibility(cu, plain, packed)
  <2>2. v = "fitsWithAlt" => tables = TRUE
    BY AltNeedsTables
  <2> HIDE DEF v
  <2>3. Fits(v) \/ GiveUp(v) \/ StepDown(v)
    BY <2>1 DEF v
  <2> QED
    BY <2>2, <2>3, FitsKeeps, GiveUpKeeps, StepDownKeeps
<1>4. CASE Take
  BY <1>4, SizeAssumption
  DEF Take, SizingInv, Typed, IdleClean, Searching, LargestFittingSize, BindingExplainsSize
<1>5. CASE UNCHANGED sizingVars
  <2>1. InitialSize' = InitialSize /\ Grid' = Grid
    BY <1>5, SameCandidate DEF sizingVars
  <2>2. StepDecrement' = StepDecrement
    BY <2>1 DEF StepDecrement
  <2> QED
    BY <1>5, <2>1, <2>2
    DEF sizingVars, SizingInv, Typed, IdleClean, Searching, LargestFittingSize, BindingExplainsSize
<1> QED
  BY <1>1, <1>2, <1>3, <1>4, <1>5 DEF SizingNext

(* The call returns the largest size of the grid that fits, having         *)
(* rejected every larger one, and zero only when it rejected them all      *)
(* (size_position_with_feasibility), whatever the route answers.           *)
THEOREM SizeIsLargestFitting == SizingSpec => []LargestFittingSize
<1>1. SizingSpec => []SizingInv
  BY InitSizingInv, SizingNextKeeps, PTL DEF SizingSpec
<1>2. SizingInv => LargestFittingSize
  BY DEF SizingInv
<1> QED
  BY <1>1, <1>2, PTL

(* The constraint the decision names is the one that bound the size, and   *)
(* a lookup table is named only when there is one and a size was found.    *)
THEOREM BindingIsExplained == SizingSpec => []BindingExplainsSize
<1>1. SizingSpec => []SizingInv
  BY InitSizingInv, SizingNextKeeps, PTL DEF SizingSpec
<1>2. SizingInv => BindingExplainsSize
  BY DEF SizingInv
<1> QED
  BY <1>1, <1>2, PTL

-----------------------------------------------------------------------------
(* Arbitration.                                                            *)

\* The sort has put profits in falling order, and nothing is held between
\* windows.
Sorted == \A i, j \in DOMAIN ranked : i < j => ranked[i].net >= ranked[j].net
Clean  == phase = "idle" => outcomes = <<>> /\ locked = {} /\ committed = 0

ArbitrationInv ==
  /\ TypeOK
  /\ Sorted
  /\ Clean
  /\ OneFirePerReserve
  /\ ConflictLosesToBetter
  /\ SpendWithinCaps
  /\ BudgetDeferralStands

(* Before the first window the invariant holds vacuously.                  *)
LEMMA InitArbitrationInv == ArbitrationInit => ArbitrationInv
  BY AmountAssumption, ConfigAssumption
  DEF ArbitrationInit, ArbitrationInv, TypeOK, Sorted, Clean, OneFirePerReserve, Fired,
      ConflictLosesToBetter, SpendWithinCaps, BudgetDeferralStands

(* A decision extends the outcomes by one, for the next candidate in rank. *)
LEMMA DecideFacts ==
  ASSUME TypeOK, Deciding, NEW o \in Outcome, Decide(o)
  PROVE  LET n == Len(outcomes) + 1
         IN  /\ n \in DOMAIN ranked /\ ranked[n] = Here /\ Here \in RoutedCandidate
             /\ outcomes' \in Seq(Outcome) /\ Len(outcomes') = n
             /\ DOMAIN outcomes' = DOMAIN outcomes \cup {n}
             /\ n \notin DOMAIN outcomes
             /\ \A i \in DOMAIN outcomes : outcomes'[i] = outcomes[i] /\ i < n
                                           /\ i \in DOMAIN ranked
             /\ outcomes'[n] = o
             /\ Fired' = IF o = "Fire" THEN Fired \cup {n} ELSE Fired
             /\ Fired \subseteq DOMAIN outcomes
             /\ UNCHANGED <<phase, balance, ranked>>
<1> DEFINE n == Len(outcomes) + 1
<1>1. n \in DOMAIN ranked /\ ranked[n] = Here /\ Here \in RoutedCandidate
  BY DEF TypeOK, Deciding, Here
<1>2. /\ outcomes' \in Seq(Outcome) /\ Len(outcomes') = n
      /\ DOMAIN outcomes' = DOMAIN outcomes \cup {n}
      /\ n \notin DOMAIN outcomes
      /\ outcomes'[n] = o
  BY DEF TypeOK, Decide
<1>3. \A i \in DOMAIN outcomes : outcomes'[i] = outcomes[i] /\ i < n
                                 /\ i \in DOMAIN ranked
  BY DEF TypeOK, Decide, Deciding
<1>4. Fired' = IF o = "Fire" THEN Fired \cup {n} ELSE Fired
  BY <1>2, <1>3 DEF Fired
<1>5. Fired \subseteq DOMAIN outcomes
  BY DEF Fired
<1>6. UNCHANGED <<phase, balance, ranked>>
  BY DEF Decide
<1>. QED
  BY <1>1, <1>2, <1>3, <1>4, <1>5, <1>6

(* A candidate that is not fired changes neither budget nor locks; the     *)
(* invariant then rests on the reason it was turned down.                  *)
LEMMA TurnedDown ==
  ASSUME ArbitrationInv, Deciding, NEW o \in Outcome \ {"Fire"}, Decide(o),
         UNCHANGED <<locked, committed>>,
         o = "DeferredReserveConflict" => Here.reserve \in locked,
         o = "ExceedsPerSlotBudget" => committed + Here.tip > MaxTipPerSlot
  PROVE  ArbitrationInv'
<1> DEFINE n == Len(outcomes) + 1
<1>1. /\ n \in DOMAIN ranked /\ ranked[n] = Here /\ Here \in RoutedCandidate
      /\ outcomes' \in Seq(Outcome) /\ Len(outcomes') = n
      /\ DOMAIN outcomes' = DOMAIN outcomes \cup {n}
      /\ \A i \in DOMAIN outcomes : outcomes'[i] = outcomes[i] /\ i < n
                                    /\ i \in DOMAIN ranked
      /\ outcomes'[n] = o
      /\ Fired' = Fired
      /\ Fired \subseteq DOMAIN outcomes
      /\ UNCHANGED <<phase, balance, ranked>>
  BY DecideFacts DEF ArbitrationInv
<1>2. TypeOK'
  BY <1>1 DEF ArbitrationInv, TypeOK, Deciding
<1>3. Sorted' /\ Clean'
  BY <1>1 DEF ArbitrationInv, Sorted, Clean, Deciding
<1>4. OneFirePerReserve'
  BY <1>1 DEF ArbitrationInv, OneFirePerReserve
<1>5. ConflictLosesToBetter'
  <2> SUFFICES ASSUME NEW i \in DOMAIN outcomes', outcomes'[i] = "DeferredReserveConflict"
               PROVE  \E j \in Fired : /\ j < i
                                       /\ ranked[j].reserve = ranked[i].reserve
                                       /\ ranked[j].net >= ranked[i].net
    BY <1>1 DEF ConflictLosesToBetter
  <2>1. CASE i \in DOMAIN outcomes
    BY <2>1, <1>1 DEF ArbitrationInv, ConflictLosesToBetter
  <2>2. CASE i = n
    <3>1. PICK j \in Fired : ranked[j].reserve = ranked[n].reserve
      BY <2>2, <1>1 DEF ArbitrationInv, OneFirePerReserve
    <3>2. j < n /\ j \in DOMAIN ranked
      BY <1>1
    <3>3. ranked[j].net >= ranked[n].net
      BY <3>2, <1>1 DEF ArbitrationInv, Sorted
    <3>. QED
      BY <2>2, <3>1, <3>2, <3>3
  <2>. QED
    BY <2>1, <2>2, <1>1
<1>6. SpendWithinCaps'
  BY <1>1 DEF ArbitrationInv, SpendWithinCaps
<1>7. BudgetDeferralStands'
  BY <1>1 DEF ArbitrationInv, BudgetDeferralStands
<1>. QED
  BY <1>2, <1>3, <1>4, <1>5, <1>6, <1>7 DEF ArbitrationInv

(* Firing takes a reserve nobody holds and a tip that fits; what was       *)
(* deferred for the budget fits even less afterwards.                      *)
LEMMA FireKeeps == ASSUME ArbitrationInv, Fire PROVE ArbitrationInv'
<1> DEFINE n == Len(outcomes) + 1
<1>0. Deciding /\ Decide("Fire") /\ "Fire" \in Outcome
  BY DEF Fire, Outcome
<1>1. /\ n \in DOMAIN ranked /\ ranked[n] = Here /\ Here \in RoutedCandidate
      /\ outcomes' \in Seq(Outcome) /\ Len(outcomes') = n
      /\ DOMAIN outcomes' = DOMAIN outcomes \cup {n}
      /\ n \notin DOMAIN outcomes
      /\ \A i \in DOMAIN outcomes : outcomes'[i] = outcomes[i] /\ i < n
                                    /\ i \in DOMAIN ranked
      /\ outcomes'[n] = "Fire"
      /\ Fired' = Fired \cup {n}
      /\ Fired \subseteq DOMAIN outcomes
      /\ UNCHANGED <<phase, balance, ranked>>
  BY <1>0, DecideFacts DEF ArbitrationInv
<1>2. /\ Here.net > MinProfitUsd
      /\ Here.reserve \in FlashReserve /\ Here.reserve \notin locked
      /\ committed' = committed + Here.tip
      /\ locked' = locked \cup {Here.reserve}
  BY <1>1 DEF Fire, RoutedCandidate
<1>3. Here.tip \in Nat /\ committed \in Nat /\ balance \in Nat
  BY <1>1, AmountAssumption DEF ArbitrationInv, TypeOK, RoutedCandidate
<1>4. balance >= MinBalance /\ Here.tip <= MaxTipPerTx /\ committed + Here.tip <= MaxTipPerSlot
  BY <1>3, ConfigAssumption DEF Fire, SlotBudgetCheck
<1>5. TypeOK'
  BY <1>1, <1>2, <1>3 DEF ArbitrationInv, TypeOK, Deciding
<1>6. Sorted' /\ Clean'
  BY <1>0, <1>1 DEF ArbitrationInv, Sorted, Clean, Deciding
<1>7. OneFirePerReserve'
  <2>1. \A i \in Fired : ranked[i].reserve # ranked[n].reserve
    BY <1>1, <1>2 DEF ArbitrationInv, OneFirePerReserve
  <2>2. \A i, j \in Fired' : ranked'[i].reserve = ranked'[j].reserve => i = j
    BY <2>1, <1>1 DEF ArbitrationInv, OneFirePerReserve
  <2>3. locked' = {ranked'[i].reserve : i \in Fired'}
    BY <1>1, <1>2 DEF ArbitrationInv, OneFirePerReserve
  <2>. QED
    BY <2>2, <2>3 DEF OneFirePerReserve
<1>8. ConflictLosesToBetter'
  BY <1>1 DEF ArbitrationInv, ConflictLosesToBetter
<1>9. SpendWithinCaps'
  BY <1>1, <1>2, <1>4 DEF ArbitrationInv, SpendWithinCaps
<1>10. BudgetDeferralStands'
  <2> SUFFICES ASSUME NEW i \in DOMAIN outcomes, outcomes[i] = "ExceedsPerSlotBudget"
               PROVE  committed + Here.tip + ranked[i].tip > MaxTipPerSlot
    BY <1>1, <1>2 DEF BudgetDeferralStands
  <2>1. ranked[i].tip \in Nat
    <3>1. i \in DOMAIN ranked
      BY <1>1
    <3>2. ranked[i] \in RoutedCandidate
      BY <3>1 DEF ArbitrationInv, TypeOK
    <3>. QED
      BY <3>2, AmountAssumption DEF RoutedCandidate
  <2>2. committed + ranked[i].tip > MaxTipPerSlot
    BY DEF ArbitrationInv, BudgetDeferralStands
  <2>. QED
    BY <2>1, <2>2, <1>3, ConfigAssumption
<1>. QED
  BY <1>5, <1>6, <1>7, <1>8, <1>9, <1>10 DEF ArbitrationInv

(* A window starts sorted, with nothing decided.                           *)
LEMMA ArbitrateKeeps == ASSUME ArbitrationInv, NEW b \in Balance, Arbitrate(b) PROVE ArbitrationInv'
<1>1. outcomes = <<>> /\ locked = {} /\ committed = 0
  BY DEF ArbitrationInv, Clean, Arbitrate
<1>2. PICK w \in Window : \E p \in [DOMAIN w -> DOMAIN w] :
        Ranking(w, p) /\ ranked' = [i \in DOMAIN w |-> w[p[i]]]
  BY DEF Arbitrate
<1>3. PICK p \in [DOMAIN w -> DOMAIN w] :
        Ranking(w, p) /\ ranked' = [i \in DOMAIN w |-> w[p[i]]]
  BY <1>2
<1>4. PICK k \in 0 .. MaxWindow : w \in [1 .. k -> RoutedCandidate]
  BY DEF Window
<1>5. ranked' \in Seq(RoutedCandidate) /\ DOMAIN ranked' = 1 .. k
  BY <1>3, <1>4, WindowAssumption
<1>6. \A i \in 1 .. k : ranked'[i] = w[p[i]] /\ w[p[i]].net \in Int
  BY <1>3, <1>4, AmountAssumption DEF RoutedCandidate
<1>7. Sorted'
  <2>1. \A i, j \in 1 .. k :
          i < j => w[p[i]].net > w[p[j]].net \/ w[p[i]].net = w[p[j]].net
    BY <1>3, <1>4 DEF Ranking
  <2>2. \A i, j \in 1 .. k : i < j => ranked'[i].net >= ranked'[j].net
    BY <2>1, <1>6
  <2>. QED
    BY <2>2, <1>5 DEF Sorted
<1>8. TypeOK'
  BY <1>1, <1>5 DEF ArbitrationInv, TypeOK, Arbitrate
<1>9. Clean' /\ OneFirePerReserve' /\ ConflictLosesToBetter' /\ SpendWithinCaps'
        /\ BudgetDeferralStands'
  BY <1>1, ConfigAssumption DEF Arbitrate, Clean, OneFirePerReserve, Fired,
     ConflictLosesToBetter, SpendWithinCaps, BudgetDeferralStands
<1>. QED
  BY <1>7, <1>8, <1>9 DEF ArbitrationInv

(* Every step of arbitrate(), and stuttering, preserves the invariant.     *)
LEMMA ArbitrationNextKeeps == ArbitrationInv /\ [ArbitrationNext]_arbitrationVars => ArbitrationInv'
<1> SUFFICES ASSUME ArbitrationInv, [ArbitrationNext]_arbitrationVars PROVE ArbitrationInv'
  OBVIOUS
<1>1. ASSUME NEW b \in Balance, Arbitrate(b) PROVE ArbitrationInv'
  BY <1>1, ArbitrateKeeps
<1>2. CASE Discard
  BY <1>2, TurnedDown DEF Discard, Outcome
<1>3. CASE DeferReserveConflict
  BY <1>3, TurnedDown DEF DeferReserveConflict, Outcome
<1>4. CASE DeferBudget
  <2>1. /\ Deciding /\ Decide(SlotBudgetCheck(Here.tip)) /\ UNCHANGED <<locked, committed>>
        /\ SlotBudgetCheck(Here.tip) # "Approved"
    BY <1>4 DEF DeferBudget
  <2>2. SlotBudgetCheck(Here.tip) \in Refusal
    BY <2>1 DEF SlotBudgetCheck, Refusal
  <2>3. SlotBudgetCheck(Here.tip) = "ExceedsPerSlotBudget" => committed + Here.tip > MaxTipPerSlot
    BY DEF SlotBudgetCheck
  <2>. QED
    BY <2>1, <2>2, <2>3, TurnedDown DEF Outcome, Refusal
<1>5. CASE Fire
  BY <1>5, FireKeeps
<1>6. CASE Finish
  BY <1>6, ConfigAssumption DEF Finish, ArbitrationInv, TypeOK, Sorted, Clean, OneFirePerReserve, Fired,
     ConflictLosesToBetter, SpendWithinCaps, BudgetDeferralStands
<1>7. CASE UNCHANGED arbitrationVars
  BY <1>7 DEF arbitrationVars, ArbitrationInv, TypeOK, Sorted, Clean, OneFirePerReserve, Fired,
     ConflictLosesToBetter, SpendWithinCaps, BudgetDeferralStands
<1>. QED
  BY <1>1, <1>2, <1>3, <1>4, <1>5, <1>6, <1>7 DEF ArbitrationNext

(* The strengthened invariant holds in every state of arbitrate().         *)
THEOREM ArbitrationInductive == ArbitrationSpec => []ArbitrationInv
<1>. QED
  BY InitArbitrationInv, ArbitrationNextKeeps, PTL DEF ArbitrationSpec

(* No window, of whatever size, fires two candidates on one flash reserve. *)
THEOREM ReservesExclusive == ArbitrationSpec => []OneFirePerReserve
<1>1. ArbitrationInv => OneFirePerReserve
  BY DEF ArbitrationInv
<1>. QED
  BY ArbitrationInductive, <1>1, PTL

(* A reserve conflict is always lost to a candidate of at least the profit. *)
THEOREM ConflictsRanked == ArbitrationSpec => []ConflictLosesToBetter
<1>1. ArbitrationInv => ConflictLosesToBetter
  BY DEF ArbitrationInv
<1>. QED
  BY ArbitrationInductive, <1>1, PTL

(* Tips never exceed the slot cap, nor one its own cap.                    *)
THEOREM SpendBounded == ArbitrationSpec => []SpendWithinCaps
<1>1. ArbitrationInv => SpendWithinCaps
  BY DEF ArbitrationInv
<1>. QED
  BY ArbitrationInductive, <1>1, PTL

(* What is deferred for the slot budget does not fit later either.         *)
THEOREM DeferralsStand == ArbitrationSpec => []BudgetDeferralStands
<1>1. ArbitrationInv => BudgetDeferralStands
  BY DEF ArbitrationInv
<1>. QED
  BY ArbitrationInductive, <1>1, PTL

-----------------------------------------------------------------------------
(* The slot budget.                                                        *)

(* The fired candidates are finitely many, and their tips are amounts.     *)
LEMMA FiredTips ==
  ASSUME ArbitrationInv
  PROVE  /\ IsFiniteSet(Fired) /\ Fired \subseteq DOMAIN ranked
         /\ \A i \in DOMAIN ranked : ranked[i].tip \in Nat
<1>1. /\ DOMAIN outcomes = 1 .. Len(outcomes) /\ DOMAIN ranked = 1 .. Len(ranked)
      /\ Len(outcomes) \in Nat /\ Len(ranked) \in Nat /\ Len(outcomes) <= Len(ranked)
      /\ \A i \in DOMAIN ranked : ranked[i] \in RoutedCandidate
  BY DEF ArbitrationInv, TypeOK
<1>2. Fired \subseteq 1 .. Len(outcomes)
  BY <1>1 DEF Fired
<1>3. IsFiniteSet(Fired)
  <2>1. IsFiniteSet(1 .. Len(outcomes))
    BY <1>1, FS_Interval
  <2>. QED
    BY <1>2, <2>1, FS_Subset
<1>4. Fired \subseteq DOMAIN ranked
  BY <1>1, <1>2
<1>5. \A i \in DOMAIN ranked : ranked[i].tip \in Nat
  BY <1>1, AmountAssumption DEF RoutedCandidate
<1>. QED
  BY <1>3, <1>4, <1>5

(* Firing adds one tip to the sum; nothing else fires or spends.           *)
LEMMA BudgetNext ==
  ArbitrationInv /\ CommittedIsFiredTips /\ [ArbitrationNext]_arbitrationVars
    => CommittedIsFiredTips'
<1> SUFFICES ASSUME ArbitrationInv, CommittedIsFiredTips, [ArbitrationNext]_arbitrationVars
             PROVE  CommittedIsFiredTips'
  OBVIOUS
<1> DEFINE tips == [i \in Fired |-> ranked[i].tip]
           n == Len(outcomes) + 1
<1>2. ASSUME Fired' = {}, committed' = 0 PROVE CommittedIsFiredTips'
  <2>1. SumFunctionOnSet([i \in Fired' |-> ranked'[i].tip], Fired') = 0
    BY <1>2, SumEmpty, Zenon
  <2>. QED
    BY <1>2, <2>1 DEF CommittedIsFiredTips
<1>3. CASE (\E b \in Balance : Arbitrate(b)) \/ Finish
  <2>1. outcomes' = <<>> /\ committed' = 0
    BY <1>3 DEF ArbitrationInv, Clean, Arbitrate, Finish
  <2>2. Fired' = {}
    BY <2>1 DEF Fired
  <2>. QED
    BY <1>2, <2>1, <2>2
<1>4. ASSUME NEW o \in Outcome \ {"Fire"}, Deciding, Decide(o), UNCHANGED committed
      PROVE  CommittedIsFiredTips'
  <2>1. Fired' = Fired /\ ranked' = ranked
    BY <1>4, DecideFacts DEF ArbitrationInv
  <2>. QED
    BY <1>4, <2>1 DEF CommittedIsFiredTips
<1>5. CASE Fire
  <2> DEFINE more == [i \in Fired \cup {n} |-> ranked[i].tip]
  <2>1. /\ Fired' = Fired \cup {n} /\ n \notin Fired /\ n \in DOMAIN ranked
        /\ ranked' = ranked /\ Here = ranked[n]
    BY <1>5, DecideFacts DEF ArbitrationInv, Fire, Outcome
  <2>2. /\ IsFiniteSet(Fired) /\ Fired \subseteq DOMAIN ranked
        /\ \A i \in DOMAIN ranked : ranked[i].tip \in Nat
    BY FiredTips
  <2>3. committed' = committed + ranked[n].tip
    BY <1>5, <2>1 DEF Fire
  <2>4. SumFunctionOnSet(more, Fired) = SumFunctionOnSet(tips, Fired)
    BY <2>2, SumSame
  <2>5. SumFunctionOnSet(more, Fired \cup {n}) = more[n] + SumFunctionOnSet(more, Fired)
    <3>1. \A i \in Fired \cup {n} : more[i] \in Int
      BY <2>1, <2>2
    <3> HIDE DEF more, n
    <3>. QED
      BY <2>1, <2>2, <3>1, SumAdd
  <2>6. committed = SumFunctionOnSet(tips, Fired) /\ committed \in Nat
    BY DEF CommittedIsFiredTips, ArbitrationInv, TypeOK
  <2>7. committed' = SumFunctionOnSet(more, Fired \cup {n})
    <3>1. more[n] = ranked[n].tip /\ ranked[n].tip \in Nat
      BY <2>1, <2>2
    <3> HIDE DEF more, n, tips
    <3>. QED
      BY <2>3, <2>4, <2>5, <2>6, <3>1
  <2>. QED
    BY <2>1, <2>7 DEF CommittedIsFiredTips
<1>6. CASE UNCHANGED arbitrationVars
  BY <1>6 DEF arbitrationVars, CommittedIsFiredTips, Fired
<1>7. CASE Discard \/ DeferReserveConflict
  BY <1>4, <1>7 DEF Discard, DeferReserveConflict, Outcome
<1>8. CASE DeferBudget
  <2>1. /\ Deciding /\ Decide(SlotBudgetCheck(Here.tip)) /\ UNCHANGED committed
        /\ SlotBudgetCheck(Here.tip) # "Approved"
    BY <1>8 DEF DeferBudget
  <2>2. SlotBudgetCheck(Here.tip) \in Refusal
    BY <2>1 DEF SlotBudgetCheck, Refusal
  <2>. QED
    BY <1>4, <2>1, <2>2 DEF Outcome, Refusal
<1>. QED
  BY <1>3, <1>5, <1>6, <1>7, <1>8 DEF ArbitrationNext

(* SlotBudget's committed_usd is the sum of the tips of the candidates     *)
(* fired in the window, for windows of any length: a candidate discarded,  *)
(* deferred or refused spends nothing, and a fired one its tip once.       *)
THEOREM BudgetIsTips == ArbitrationSpec => []CommittedIsFiredTips
<1>1. ArbitrationInit => CommittedIsFiredTips
  <2> SUFFICES ASSUME ArbitrationInit PROVE CommittedIsFiredTips
    OBVIOUS
  <2>1. Fired = {} /\ committed = 0
    BY DEF ArbitrationInit, Fired
  <2>2. SumFunctionOnSet([i \in {} |-> ranked[i].tip], {}) = 0
    BY SumEmpty
  <2>. QED
    BY <2>1, <2>2 DEF CommittedIsFiredTips
<1>. QED
  BY <1>1, ArbitrationInductive, BudgetNext, PTL DEF ArbitrationSpec
-----------------------------------------------------------------------------
(* Routing.  Greedy choice by fee, provider and depth is a choice by       *)
(* profit, since only the fee enters the estimate.                         *)

\* reserves holds table entries, and what size_and_route returned is the best
\* source for the candidate at hand, as the table still shows it.
TableTyped ==
  /\ DOMAIN reserves = Reserve
  /\ \A r \in Reserve : reserves[r] # None => reserves[r] \in ReserveInfo

Sources == Route(candidate.mint, SizePosition(candidate))

RoutedBest ==
  routed # None =>
    /\ call \in {"sized", "simulated"}
    /\ candidate \in BreachCandidate /\ SizePosition(candidate) > 0
    /\ routed.reserve \in Sources
    /\ routed.repay = SizePosition(candidate)
    /\ routed.fee = reserves[routed.reserve].fee
    /\ routed.net = CouldNet(routed.reserve)

RefusedWorst ==
  call = "sized" /\ routed = None =>
    /\ candidate \in BreachCandidate
    /\ SizePosition(candidate) > 0 =>
         Sources = {} \/ \E r \in Sources : CouldNet(r) < MinProfit

Verdict ==
  call = "simulated" =>
    /\ routed # None
    /\ passed = /\ routed.repay > 0 /\ routed.repay <= candidate.maxRepay
                /\ routed.net >= SimMinProfit

RoutingInv ==
  /\ TableTyped
  /\ call \in {"idle", "sized", "simulated"}
  /\ RoutedBest
  /\ RefusedWorst
  /\ Verdict

(* Max and Min of two integers.                                            *)
LEMMA TwoOf ==
  ASSUME NEW a \in Int, NEW b \in Int
  PROVE  /\ Max({a, b}) \in {a, b} /\ Max({a, b}) >= a /\ Max({a, b}) >= b
         /\ Min({a, b}) \in {a, b} /\ Min({a, b}) <= a /\ Min({a, b}) <= b
         /\ Max({a, b}) \in Int /\ Min({a, b}) \in Int
<1>1. \E x \in {a, b} : \A y \in {a, b} : x >= y
  OBVIOUS
<1>2. \E x \in {a, b} : \A y \in {a, b} : x <= y
  OBVIOUS
<1>3. Max({a, b}) \in {a, b} /\ \A y \in {a, b} : Max({a, b}) >= y
  BY <1>1 DEF Max
<1>4. Min({a, b}) \in {a, b} /\ \A y \in {a, b} : Min({a, b}) <= y
  BY <1>2 DEF Min
<1> QED
  BY <1>3, <1>4

(* The size is an amount within the close factor.                          *)
LEMMA SizeTyped ==
  ASSUME NEW c \in BreachCandidate
  PROVE  SizePosition(c) \in Nat /\ c.maxRepay \in Nat /\ SizePosition(c) <= c.maxRepay
<1> DEFINE a == c.maxRepay
<1>0. a \in Nat /\ FlashDepth \in Nat
  BY LiquidityAssumption DEF BreachCandidate
<1>2. SizePosition(c) = Min({a, FlashDepth})
  BY DEF SizePosition
<1> HIDE DEF a
<1>1. a \in Nat /\ FlashDepth \in Nat /\ a \in Int /\ FlashDepth \in Int
  BY <1>0
<1>3. Min({a, FlashDepth}) \in {a, FlashDepth} /\ Min({a, FlashDepth}) <= a
  BY <1>1, TwoOf, Zenon
<1> QED
  BY <1>1, <1>2, <1>3 DEF a

(* A higher fee never nets more (estimate_profit).                         *)
LEMMA NetFallsWithFee ==
  ASSUME NEW repay \in Nat, NEW low \in Nat, NEW high \in Nat, low <= high
  PROVE  /\ NetUsd(repay, low) \in Int /\ NetUsd(repay, high) \in Int
         /\ NetUsd(repay, high) <= NetUsd(repay, low)
<1> DEFINE cost(fee) == Max({20 * repay * fee, 100})
           swap == Max({600 * repay, 1000})
           tip == StaticTipBid(Bonus(repay))
<1>0. ASSUME NEW a \in Int, NEW b \in Int PROVE Max({a, b}) \in Int /\ Min({a, b}) \in Int
  BY TwoOf
<1>1. Bonus(repay) \in Int
  <2> DEFINE x == 10000 * repay
             k == 120000
  <2>1. x \in Int /\ k \in Int
    OBVIOUS
  <2>2. Bonus(repay) = Max({x, k})
    BY DEF Bonus
  <2> HIDE DEF x, k
  <2> QED
    BY <1>0, <2>1, <2>2, Zenon
<1>2. swap \in Int
  <2> DEFINE x == 600 * repay
             k == 1000
  <2>1. x \in Int /\ k \in Int
    OBVIOUS
  <2>2. swap = Max({x, k})
    OBVIOUS
  <2> HIDE DEF x, k, swap
  <2> QED
    BY <1>0, <2>1, <2>2, Zenon
<1>3. tip \in Int
  <2> DEFINE competitive == (TipPct * Bonus(repay)) \div 100
  <2>1. competitive \in Int
    BY <1>1, RiskAssumption
  <2>2. MinTip \in Int /\ MaxTipTx \in Int
    BY RiskAssumption
  <2>3. tip = Min({Max({competitive, MinTip}), Min({competitive, MaxTipTx})})
    BY DEF StaticTipBid
  <2> HIDE DEF competitive, tip
  <2>4. Max({competitive, MinTip}) \in Int /\ Min({competitive, MaxTipTx}) \in Int
    BY <1>0, <2>1, <2>2, Zenon
  <2> QED
    BY <1>0, <2>3, <2>4, Zenon
<1>4. cost(low) \in Int /\ cost(high) \in Int /\ cost(low) <= cost(high)
  <2> DEFINE x == 20 * repay * low
             y == 20 * repay * high
  <2>1. PICK e \in Nat : high = low + e
    <3>1. high - low \in Nat
      OBVIOUS
    <3> QED
      BY <3>1
  <2>2. y = x + 20 * repay * e /\ 20 * repay * e \in Nat
    BY <2>1
  <2>3. x \in Int /\ y \in Int /\ x <= y
    BY <2>2
  <2> DEFINE k == 100
  <2>4. k \in Int /\ cost(low) = Max({x, k}) /\ cost(high) = Max({y, k})
    OBVIOUS
  <2> HIDE DEF x, y, k, cost
  <2>5. /\ Max({x, k}) \in {x, k} /\ Max({x, k}) \in Int
        /\ Max({y, k}) >= y /\ Max({y, k}) >= k /\ Max({y, k}) \in Int
    BY <2>3, <2>4, TwoOf, Zenon
  <2>6. (cost(low) = x \/ cost(low) = k) /\ cost(low) \in Int
    BY <2>4, <2>5, Zenon
  <2>7. cost(high) >= y /\ cost(high) >= k /\ cost(high) \in Int
    BY <2>4, <2>5, Zenon
  <2> QED
    BY <2>3, <2>4, <2>6, <2>7
<1>5. /\ NetUsd(repay, low) = Bonus(repay) - swap - cost(low) - 5000 - tip
      /\ NetUsd(repay, high) = Bonus(repay) - swap - cost(high) - 5000 - tip
  BY DEF NetUsd
<1> HIDE DEF cost, swap, tip
<1> QED
  BY <1>1, <1>2, <1>3, <1>4, <1>5

\* m is a best source among those in Q.
Best(m, Q) == m \in Q /\ \A q \in Q : ~Preferred(reserves[q], reserves[m])

(* min_by finds a best one among the usable sources, if there is any.      *)
LEMMA SomeSource ==
  ASSUME TableTyped, NEW mint, NEW amount, Usable(mint, amount) # {}
  PROVE  Route(mint, amount) # {}
<1> DEFINE U == Usable(mint, amount)
           Good == {Q \in SUBSET U : Q # {} => \E m : Best(m, Q)}
<1>1. IsFiniteSet(U)
  <2>1. U \subseteq Reserve
    BY DEF Usable
  <2> HIDE DEF U
  <2> QED
    BY <2>1, ReserveAssumption, FS_Subset
<1>2. \A r \in U : /\ reserves[r].fee \in Nat /\ reserves[r].depth \in Nat
                   /\ reserves[r].provider \in {"Kamino", "Solend"}
  BY LiquidityAssumption DEF Usable, TableTyped, ReserveInfo, Provider
<1>3. ASSUME NEW a \in U, NEW b \in U, NEW c \in U,
             Preferred(reserves[a], reserves[b]), Preferred(reserves[b], reserves[c])
      PROVE  Preferred(reserves[a], reserves[c])
  BY <1>2, <1>3 DEF Preferred
<1>4. \A a \in U : ~Preferred(reserves[a], reserves[a])
  BY <1>2 DEF Preferred
<1>5. ASSUME NEW Q \in SUBSET U, \A P \in SUBSET Q : P # Q => P \in Good
      PROVE  Q \in Good
  <2> SUFFICES ASSUME NEW x \in Q PROVE \E m : Best(m, Q)
    OBVIOUS
  <2> DEFINE P == Q \ {x}
  <2>1. P \in Good
    BY <1>5
  <2>2. CASE P = {}
    <3>1. \A q \in Q : q = x
      BY <2>2
    <3>2. Best(x, Q)
      BY <1>4, <3>1 DEF Best
    <3> QED
      BY <3>2
  <2>3. CASE P # {}
    <3>1. PICK m : Best(m, P)
      BY <2>1, <2>3
    <3>2. m \in U /\ m \in Q /\ x \in U
      BY <3>1 DEF Best
    <3>3. CASE Preferred(reserves[x], reserves[m])
      <4>1. \A q \in Q : ~Preferred(reserves[q], reserves[x])
        BY <1>3, <1>4, <3>1, <3>2, <3>3 DEF Best
      <4>2. Best(x, Q)
        BY <4>1 DEF Best
      <4> QED
        BY <4>2
    <3>4. CASE ~Preferred(reserves[x], reserves[m])
      <4>1. Best(m, Q)
        BY <3>1, <3>2, <3>4 DEF Best
      <4> QED
        BY <4>1
    <3> QED
      BY <3>3, <3>4
  <2> QED
    BY <2>2, <2>3
<1>6. U \in Good
  <2> HIDE DEF Good, U
  <2> QED
    BY <1>1, <1>5, SubsetInduction
<1>7. PICK m : Best(m, U)
  BY <1>6
<1> QED
  BY <1>7 DEF Best, Route

(* What can fund the candidate is what route() considers, and the source   *)
(* it takes has the lowest fee of all.                                     *)
LEMMA SourceIsCheapest ==
  ASSUME TableTyped, candidate \in BreachCandidate, NEW s \in Sources
  PROVE  /\ s \in Reserve /\ CanFund(s) /\ reserves[s].fee \in Nat
         /\ \A r \in Reserve : CanFund(r) =>
              /\ reserves[r].fee \in Nat
              /\ CouldNet(r) \in Int /\ CouldNet(s) \in Int
              /\ CouldNet(r) <= CouldNet(s)
              /\ reserves[s].provider = "Solend" /\ reserves[r].provider = "Kamino"
                   => reserves[s].fee < reserves[r].fee
<1> DEFINE U == Usable(candidate.mint, SizePosition(candidate))
<1>1. s \in U /\ \A q \in U : ~Preferred(reserves[q], reserves[s])
  BY DEF Sources, Route
<1>2. \A r \in Reserve : CanFund(r) <=> r \in U
  BY DEF Usable, CanFund, TableTyped, ReserveInfo, Provider
<1>3. \A r \in U : r \in Reserve /\ reserves[r].fee \in Nat
  BY DEF Usable, TableTyped, ReserveInfo
<1>4. SizePosition(candidate) \in Nat
  BY SizeTyped
<1>5. ASSUME NEW r \in U
      PROVE  /\ reserves[s].fee <= reserves[r].fee
             /\ reserves[s].provider = "Solend" /\ reserves[r].provider = "Kamino"
                  => reserves[s].fee < reserves[r].fee
  <2>1. ~Preferred(reserves[r], reserves[s])
    BY <1>1
  <2>2. reserves[r].fee \in Nat /\ reserves[s].fee \in Nat
    BY <1>1, <1>3
  <2> QED
    BY <2>1, <2>2 DEF Preferred
<1> HIDE DEF U
<1>6. ASSUME NEW r \in U
      PROVE  CouldNet(r) \in Int /\ CouldNet(s) \in Int /\ CouldNet(r) <= CouldNet(s)
  BY <1>1, <1>3, <1>4, <1>5, NetFallsWithFee DEF CouldNet
<1> QED
  BY <1>1, <1>2, <1>3, <1>5, <1>6

(* Before anything is observed.                                            *)
LEMMA InitRoutingInv == Init => RoutingInv
  BY DEF Init, RoutingInv, TableTyped, RoutedBest, RefusedWorst, Verdict

(* The table changes only between candidates.                              *)
LEMMA TableKeeps ==
  ASSUME RoutingInv, call = "idle", TableTyped',
         UNCHANGED <<call, candidate, routed, passed>>
  PROVE  RoutingInv'
  BY DEF RoutingInv, RoutedBest, RefusedWorst, Verdict

(* An account's fee is decoded to a number, or to None when flash loans    *)
(* are disabled.                                                           *)
LEMMA InsertKeeps ==
  ASSUME RoutingInv, NEW r \in Reserve, NEW p \in Provider, NEW m \in Mint,
         NEW d \in Depth, NEW f \in Nat \cup {None}, Insert(r, p, m, d, f)
  PROVE  RoutingInv'
<1>1. [provider |-> p, mint |-> m, depth |-> d, fee |-> f] \in ReserveInfo
  BY DEF ReserveInfo
<1>2. TableTyped'
  BY <1>1 DEF RoutingInv, TableTyped, Insert
<1> QED
  BY <1>2, TableKeeps DEF Insert

(* size_and_route() answers with a best source or refuses one.             *)
LEMMA SizeAndRouteKeeps ==
  ASSUME RoutingInv, NEW c \in BreachCandidate, SizeAndRoute(c)
  PROVE  RoutingInv'
<1> DEFINE repay == SizePosition(c)
           sources == IF repay = 0 THEN {} ELSE Route(c.mint, repay)
           net(r) == NetUsd(repay, reserves[r].fee)
<1>1. /\ call = "idle" /\ call' = "sized" /\ candidate' = c
      /\ UNCHANGED <<reserves, saveLiveVerified, passed>>
      /\ routed = None
  BY DEF SizeAndRoute, RoutingInv, RoutedBest
<1>2. /\ repay \in Nat /\ SizePosition(candidate') = repay
      /\ Sources' = Route(c.mint, repay)
      /\ \A r : CouldNet(r)' = net(r)
  BY <1>1, SizeTyped DEF Sources, Route, Usable, CouldNet
<1>3. TableTyped' /\ call' \in {"idle", "sized", "simulated"} /\ Verdict'
  BY <1>1 DEF RoutingInv, TableTyped, Verdict
<1>4. \/ \E r \in sources : routed' = [reserve |-> r, repay |-> repay,
                                       fee |-> reserves[r].fee, net |-> net(r)]
      \/ /\ sources = {} \/ \E r \in sources : net(r) < MinProfit
         /\ routed' = None
  BY <1>1 DEF SizeAndRoute
<1> HIDE DEF net
<1>5. ASSUME NEW r \in sources,
             routed' = [reserve |-> r, repay |-> repay, fee |-> reserves[r].fee, net |-> net(r)]
      PROVE  RoutedBest' /\ RefusedWorst'
  <2>1. repay > 0 /\ r \in Route(c.mint, repay) /\ r \in Reserve
    BY <1>2 DEF Route, Usable
  <2>2. reserves[r].fee \in Nat
    BY <2>1 DEF Route, Usable, RoutingInv, TableTyped, ReserveInfo
  <2>3. net(r) \in Int
    BY <1>2, <2>2, NetFallsWithFee DEF net
  <2>4. routed' \in SizedAndRouted
    BY <1>2, <1>5, <2>1, <2>2, <2>3 DEF SizedAndRouted
  <2>5. routed' # None
    BY <2>4, NoneAssumption
  <2>6. RefusedWorst'
    BY <2>5 DEF RefusedWorst
  <2>7. RoutedBest'
    BY <1>1, <1>2, <1>5, <2>1 DEF RoutedBest
  <2> QED
    BY <2>6, <2>7
<1>6. ASSUME sources = {} \/ \E r \in sources : net(r) < MinProfit, routed' = None
      PROVE  RoutedBest' /\ RefusedWorst'
  <2>1. RoutedBest'
    BY <1>6 DEF RoutedBest
  <2>2. repay > 0 => Sources' = {} \/ \E r \in Sources' : CouldNet(r)' < MinProfit
    BY <1>2, <1>6
  <2>3. RefusedWorst'
    BY <1>1, <1>2, <2>2 DEF RefusedWorst
  <2> QED
    BY <2>1, <2>3
<1> QED
  BY <1>3, <1>4, <1>5, <1>6 DEF RoutingInv

(* The simulator's verdict, and the end of a candidate.                    *)
LEMMA SimulateDoneKeep ==
  ASSUME RoutingInv, Simulate \/ Done
  PROVE  RoutingInv'
<1>1. CASE Simulate
  <2>1. /\ routed # None /\ call' = "simulated"
        /\ UNCHANGED <<reserves, saveLiveVerified, candidate, routed>>
    BY <1>1 DEF Simulate
  <2>2. TableTyped' /\ call' \in {"idle", "sized", "simulated"}
    BY <2>1 DEF RoutingInv, TableTyped
  <2>3. RoutedBest' /\ RefusedWorst'
    BY <2>1 DEF RoutingInv, RoutedBest, RefusedWorst, Sources, Route, Usable, CouldNet
  <2>4. Verdict'
    BY <1>1, <2>1 DEF Simulate, Verdict
  <2> QED
    BY <2>2, <2>3, <2>4 DEF RoutingInv
<1>2. CASE Done
  BY <1>2 DEF Done, RoutingInv, TableTyped, RoutedBest, RefusedWorst, Verdict
<1> QED
  BY <1>1, <1>2

(* Every step preserves the invariant.                                     *)
LEMMA RoutingNextKeeps == RoutingInv /\ [Next]_vars => RoutingInv'
<1> SUFFICES ASSUME RoutingInv, [Next]_vars PROVE RoutingInv'
  OBVIOUS
<1>1. ASSUME NEW r \in Reserve, NEW m \in Mint, NEW d \in Depth, NEW raw \in RawFee,
             ObserveKaminoAccount(r, m, d, raw) \/ ObserveSaveAccount(r, m, d, raw)
      PROVE  RoutingInv'
  <2>1. raw \in Nat
    BY LiquidityAssumption
  <2>2. KaminoFeeBps(raw) \in Nat \cup {None} /\ SaveFeeBps(raw) \in Nat \cup {None}
    BY <2>1 DEF KaminoFeeBps, SaveFeeBps
  <2> QED
    BY <1>1, <2>2, InsertKeeps DEF ObserveKaminoAccount, ObserveSaveAccount, Provider
<1>2. ASSUME NEW r \in Reserve, NEW m \in Mint, NEW d \in Depth, AddReserve(r, m, d)
      PROVE  RoutingInv'
  BY <1>2, InsertKeeps DEF AddReserve, Provider
<1>3. ASSUME NEW v \in BOOLEAN, SetSaveLiveVerified(v) PROVE RoutingInv'
  BY <1>3, TableKeeps DEF SetSaveLiveVerified, RoutingInv, TableTyped
<1>4. ASSUME NEW c \in BreachCandidate, SizeAndRoute(c) PROVE RoutingInv'
  BY <1>4, SizeAndRouteKeeps
<1>5. CASE Simulate \/ Done
  BY <1>5, SimulateDoneKeep
<1>6. CASE UNCHANGED vars
  BY <1>6 DEF vars, RoutingInv, TableTyped, RoutedBest, RefusedWorst, Verdict,
              Sources, Route, Usable, CouldNet
<1> QED
  BY <1>1, <1>2, <1>3, <1>4, <1>5, <1>6 DEF Next

(* The routing invariant holds in every state.                             *)
THEOREM RoutingInductive == Spec => []RoutingInv
  BY InitRoutingInv, RoutingNextKeeps, PTL DEF Spec

(* Greedy routing is optimal, for any number of reserves and any fees,     *)
(* depths, sizes and limits: no reserve that could fund the candidate      *)
(* would net more than the one route() took, and Save is used only where   *)
(* its fee is below that of every Kamino reserve that could.               *)
THEOREM RoutingIsOptimal == Spec => []RoutedNetsMost
<1>1. RoutingInv => RoutedNetsMost
  <2> SUFFICES ASSUME RoutingInv, routed # None
               PROVE  /\ CanFund(routed.reserve)
                      /\ \A r \in Reserve : CanFund(r) =>
                           /\ CouldNet(r) <= routed.net
                           /\ reserves[routed.reserve].provider = "Solend"
                                /\ reserves[r].provider = "Kamino"
                                => routed.fee < reserves[r].fee
    BY DEF RoutedNetsMost
  <2>1. /\ TableTyped /\ candidate \in BreachCandidate /\ routed.reserve \in Sources
        /\ routed.fee = reserves[routed.reserve].fee
        /\ routed.net = CouldNet(routed.reserve)
    BY DEF RoutingInv, RoutedBest
  <2> QED
    BY <2>1, SourceIsCheapest
<1> QED
  BY <1>1, RoutingInductive, PTL

(* A candidate is turned down only where no reserve that could fund it     *)
(* would have cleared the hurdle it failed, size_and_route's or the        *)
(* simulator's.                                                            *)
THEOREM RefusalIsJustified == Spec => []RefusedIsUnprofitable
<1>1. RoutingInv => RefusedIsUnprofitable
  <2> SUFFICES ASSUME RoutingInv PROVE RefusedIsUnprofitable
    OBVIOUS
  <2>0. TableTyped
    BY DEF RoutingInv
  <2>1. ASSUME call = "sized", routed = None, SizePosition(candidate) > 0,
               NEW r \in Reserve, CanFund(r)
        PROVE  CouldNet(r) < MinProfit
    <3>1. /\ candidate \in BreachCandidate
          /\ Sources = {} \/ \E s \in Sources : CouldNet(s) < MinProfit
      BY <2>1 DEF RoutingInv, RefusedWorst
    <3>2. r \in Usable(candidate.mint, SizePosition(candidate))
      BY <2>0, <2>1 DEF CanFund, Usable, TableTyped, ReserveInfo, Provider
    <3>3. Sources # {}
      BY <2>0, <3>2, SomeSource DEF Sources
    <3>4. PICK s \in Sources : CouldNet(s) < MinProfit
      BY <3>1, <3>3
    <3>5. CouldNet(r) \in Int /\ CouldNet(s) \in Int /\ CouldNet(r) <= CouldNet(s)
      BY <2>0, <2>1, <3>1, SourceIsCheapest
    <3> QED
      BY <3>4, <3>5, RiskAssumption
  <2>2. ASSUME call = "simulated", ~passed, NEW r \in Reserve, CanFund(r)
        PROVE  CouldNet(r) < SimMinProfit
    <3>1. /\ routed # None
          /\ ~(/\ routed.repay > 0 /\ routed.repay <= candidate.maxRepay
               /\ routed.net >= SimMinProfit)
      BY <2>2 DEF RoutingInv, Verdict
    <3>2. /\ candidate \in BreachCandidate /\ routed.reserve \in Sources
          /\ SizePosition(candidate) > 0 /\ routed.repay = SizePosition(candidate)
          /\ routed.net = CouldNet(routed.reserve)
      BY <3>1 DEF RoutingInv, RoutedBest
    <3>3. routed.repay > 0 /\ routed.repay <= candidate.maxRepay
      BY <3>2, SizeTyped
    <3>4. /\ CouldNet(r) \in Int /\ routed.net \in Int /\ CouldNet(r) <= routed.net
      BY <2>0, <2>2, <3>2, SourceIsCheapest
    <3> QED
      BY <3>1, <3>3, <3>4, RiskAssumption
  <2> QED
    BY <2>1, <2>2 DEF RefusedIsUnprofitable
<1> QED
  BY <1>1, RoutingInductive, PTL
=============================================================================
