----------------------------- MODULE SumLemmas ------------------------------
(***************************************************************************)
(* What SumFunctionOnSet of the community modules computes on a finite     *)
(* set: the models add up tips, outcomes and outflows with it.  It is a    *)
(* fold, which takes the elements in an order of its own; the lemmas show  *)
(* that the order does not matter, and how the sum changes with its set.   *)
(***************************************************************************)
EXTENDS Integers, Functions, FiniteSetTheorems, WellFoundedInduction, TLAPS

(* Induction over the subsets of a finite set, with the set of the subsets *)
(* that have the property for a parameter.                                 *)
LEMMA SubsetInduction ==
  ASSUME NEW S, IsFiniteSet(S), NEW Good,
         \A T \in SUBSET S : (\A R \in SUBSET T : R # T => R \in Good) => T \in Good
  PROVE  S \in Good
<1> DEFINE Bad == (SUBSET S) \ Good
<1> SUFFICES ASSUME Bad # {} PROVE FALSE
  OBVIOUS
<1>1. PICK T \in Bad : \A R \in Bad : ~(<<R, T>> \in StrictSubsetOrdering(S))
  <2>1. IsWellFoundedOn(StrictSubsetOrdering(S), SUBSET S)
    <3>1. FiniteSubsetsOf(S) = SUBSET S
      BY FS_FiniteSubsetsOfFinite
    <3>2. IsWellFoundedOn(StrictSubsetOrdering(S), FiniteSubsetsOf(S))
      BY FS_StrictSubsetOrderingWellFounded
    <3> QED
      BY <3>1, <3>2
  <2>2. Bad \subseteq SUBSET S
    OBVIOUS
  <2> HIDE DEF Bad
  <2> QED
    BY <2>1, <2>2, WFMin
<1>2. ASSUME NEW R \in SUBSET T, R # T PROVE R \in Good
  <2>1. R \in SUBSET S /\ <<R, T>> \in StrictSubsetOrdering(S)
    BY <1>2 DEF StrictSubsetOrdering
  <2> QED
    BY <1>1, <2>1
<1> QED
  BY <1>2

\* The element a fold takes first; the equation between the partial sums of
\* f, one for each subset of S; and the partial sums that satisfy it.
First(T) == CHOOSE x \in T : TRUE
Partial(g, f, S) ==
  g = [T \in SUBSET S |-> IF T = {} THEN 0 ELSE f[First(T)] + g[T \ {First(T)}]]
Partials(f, S) == CHOOSE g : Partial(g, f, S)

(* SumFunctionOnSet answers the last of the partial sums.                  *)
LEMMA SumIsLast ==
  ASSUME NEW f, NEW S
  PROVE  SumFunctionOnSet(f, S) = Partials(f, S)[S]
  BY DEF SumFunctionOnSet, FoldFunctionOnSet, MapThenFoldSet, Partials, Partial, First

(* The first element is one.                                               *)
LEMMA FirstIn == ASSUME NEW T, T # {} PROVE First(T) \in T
  BY DEF First

(* Partial sums over different sets agree where both are defined.          *)
LEMMA PartialsAgree ==
  ASSUME NEW f, NEW S, NEW T, NEW g, NEW h, Partial(g, f, S), Partial(h, f, T),
         NEW R \in SUBSET (S \cap T), IsFiniteSet(R)
  PROVE  g[R] = h[R]
<1> DEFINE Good == {Q \in SUBSET R : g[Q] = h[Q]}
<1>1. ASSUME NEW Q \in SUBSET R, \A P \in SUBSET Q : P # Q => P \in Good
      PROVE  Q \in Good
  <2>1. /\ g[Q] = IF Q = {} THEN 0 ELSE f[First(Q)] + g[Q \ {First(Q)}]
        /\ h[Q] = IF Q = {} THEN 0 ELSE f[First(Q)] + h[Q \ {First(Q)}]
    <3>1. Q \in SUBSET S /\ Q \in SUBSET T
      OBVIOUS
    <3> HIDE DEF Good
    <3> QED
      BY <3>1 DEF Partial
  <2>2. CASE Q = {}
    BY <2>1, <2>2
  <2>3. CASE Q # {}
    <3>1. Q \ {First(Q)} \in Good
      BY <1>1, <2>3, FirstIn
    <3> QED
      BY <2>1, <3>1
  <2> QED
    BY <2>2, <2>3
<1>2. R \in Good
  <2> HIDE DEF Good
  <2> QED
    BY <1>1, SubsetInduction
<1> QED
  BY <1>2

(* A finite set has partial sums.                                          *)
LEMMA PartialsExist ==
  ASSUME NEW f, NEW S, IsFiniteSet(S)
  PROVE  Partial(Partials(f, S), f, S)
<1> DEFINE Good == {Q \in SUBSET S : \E g : Partial(g, f, Q)}
<1>1. ASSUME NEW Q \in SUBSET S, \A P \in SUBSET Q : P # Q => P \in Good
      PROVE  Q \in Good
  <2> DEFINE V(R) == Partials(f, R)[R]
             W(R) == IF R = {} THEN 0 ELSE f[First(R)] + V(R \ {First(R)})
             h == [R \in SUBSET Q |-> W(R)]
  <2>1. ASSUME NEW R \in SUBSET Q, R # Q PROVE Partial(Partials(f, R), f, R)
    <3>1. \E g : Partial(g, f, R)
      BY <1>1, <2>1
    <3> QED
      BY <3>1 DEF Partials
  <2>2. ASSUME NEW R \in SUBSET Q, R # Q PROVE V(R) = W(R)
    <3>1. Partial(Partials(f, R), f, R) /\ R \in SUBSET R
      BY <2>1, <2>2
    <3>2. V(R) = IF R = {} THEN 0 ELSE f[First(R)] + Partials(f, R)[R \ {First(R)}]
      BY <3>1 DEF Partial
    <3>3. CASE R = {}
      BY <3>2, <3>3
    <3>4. CASE R # {}
      <4> DEFINE P == R \ {First(R)}
      <4>1. P \in SUBSET Q /\ P # Q /\ P \in SUBSET (R \cap P)
        BY <3>4, FirstIn
      <4>2. Partial(Partials(f, P), f, P) /\ IsFiniteSet(P)
        BY <2>1, <4>1, FS_Subset
      <4>3. Partials(f, R)[P] = Partials(f, P)[P]
        <5> HIDE DEF P
        <5> QED
          BY <3>1, <4>1, <4>2, PartialsAgree
      <4> QED
        BY <3>2, <3>4, <4>3
    <3> QED
      BY <3>3, <3>4
  <2>3. ASSUME NEW R \in SUBSET Q
        PROVE  W(R) = IF R = {} THEN 0 ELSE f[First(R)] + h[R \ {First(R)}]
    <3>1. CASE R = {}
      BY <3>1
    <3>2. CASE R # {}
      <4> DEFINE P == R \ {First(R)}
      <4>1. P \in SUBSET Q /\ P # Q
        BY <3>2, FirstIn
      <4>2. V(P) = W(P) /\ h[P] = W(P)
        BY <2>2, <4>1
      <4> QED
        BY <3>2, <4>2
    <3> QED
      BY <3>1, <3>2
  <2>4. Partial(h, f, Q)
    BY <2>3, Zenon DEF Partial
  <2> QED
    BY <2>4
<1>2. S \in Good
  <2> HIDE DEF Good
  <2> QED
    BY <1>1, SubsetInduction
<1> QED
  BY <1>2 DEF Partials

(* The equations of a sum over a finite set.                               *)
LEMMA SumEquations ==
  ASSUME NEW f, NEW S, IsFiniteSet(S)
  PROVE  SumFunctionOnSet(f, S)
           = IF S = {} THEN 0 ELSE f[First(S)] + SumFunctionOnSet(f, S \ {First(S)})
<1>1. Partial(Partials(f, S), f, S) /\ S \in SUBSET S
  BY PartialsExist
<1>2. Partials(f, S)[S]
        = IF S = {} THEN 0 ELSE f[First(S)] + Partials(f, S)[S \ {First(S)}]
  BY <1>1 DEF Partial
<1>3. CASE S = {}
  BY <1>2, <1>3, SumIsLast
<1>4. CASE S # {}
  <2> DEFINE R == S \ {First(S)}
  <2>1. Partial(Partials(f, R), f, R) /\ IsFiniteSet(R) /\ R \in SUBSET (S \cap R)
    BY PartialsExist, FS_Subset
  <2>2. Partials(f, S)[R] = Partials(f, R)[R]
    <3> HIDE DEF R
    <3> QED
      BY <1>1, <2>1, PartialsAgree
  <2> QED
    BY <1>2, <1>4, <2>2, SumIsLast
<1> QED
  BY <1>3, <1>4

(* Nothing adds up to zero.                                                *)
LEMMA SumEmpty == ASSUME NEW f PROVE SumFunctionOnSet(f, {}) = 0
  BY SumEquations, FS_EmptySet

(* A sum of integers is one.                                               *)
LEMMA SumInt ==
  ASSUME NEW f, NEW S, IsFiniteSet(S), \A x \in S : f[x] \in Int
  PROVE  SumFunctionOnSet(f, S) \in Int
<1> DEFINE Good == {Q \in SUBSET S : SumFunctionOnSet(f, Q) \in Int}
<1>1. ASSUME NEW Q \in SUBSET S, \A P \in SUBSET Q : P # Q => P \in Good
      PROVE  Q \in Good
  <2>1. SumFunctionOnSet(f, Q)
          = IF Q = {} THEN 0 ELSE f[First(Q)] + SumFunctionOnSet(f, Q \ {First(Q)})
    BY SumEquations, FS_Subset
  <2>2. Q # {} => First(Q) \in Q /\ Q \ {First(Q)} \in Good
    BY <1>1, FirstIn
  <2> QED
    BY <2>1, <2>2
<1>2. S \in Good
  <2> HIDE DEF Good
  <2> QED
    BY <1>1, SubsetInduction
<1> QED
  BY <1>2

(* Any element may be added first.                                         *)
LEMMA SumAnyFirst ==
  ASSUME NEW f, NEW S, IsFiniteSet(S), \A x \in S : f[x] \in Int, NEW y \in S
  PROVE  SumFunctionOnSet(f, S) = f[y] + SumFunctionOnSet(f, S \ {y})
<1> DEFINE Sum(Q) == SumFunctionOnSet(f, Q)
           Good == {Q \in SUBSET S : \A z \in Q : Sum(Q) = f[z] + Sum(Q \ {z})}
<1>0. \A Q \in SUBSET S : /\ Sum(Q) \in Int
                          /\ Sum(Q) = IF Q = {} THEN 0 ELSE f[First(Q)] + Sum(Q \ {First(Q)})
  BY SumEquations, SumInt, FS_Subset
<1> HIDE DEF Sum
<1>1. ASSUME NEW Q \in SUBSET S, \A P \in SUBSET Q : P # Q => P \in Good
      PROVE  Q \in Good
  <2> SUFFICES ASSUME NEW z \in Q PROVE Sum(Q) = f[z] + Sum(Q \ {z})
    OBVIOUS
  <2> DEFINE x == First(Q)
  <2>1. x \in Q /\ Sum(Q) = f[x] + Sum(Q \ {x})
    BY <1>0, FirstIn
  <2> HIDE DEF x
  <2>2. CASE z = x
    BY <2>1, <2>2
  <2>3. CASE z # x
    <3> DEFINE R == Q \ {x, z}
    <3>1. Q \ {x} \in Good /\ Q \ {z} \in Good /\ z \in Q \ {x} /\ x \in Q \ {z}
      BY <1>1, <2>1, <2>3
    <3>2. (Q \ {x}) \ {z} = R /\ (Q \ {z}) \ {x} = R
      OBVIOUS
    <3>3. Sum(Q \ {x}) = f[z] + Sum(R) /\ Sum(Q \ {z}) = f[x] + Sum(R)
      BY <3>1, <3>2
    <3>4. Sum(R) \in Int /\ f[x] \in Int /\ f[z] \in Int
      BY <1>0, <2>1
    <3> QED
      BY <2>1, <3>3, <3>4
  <2> QED
    BY <2>2, <2>3
<1>2. S \in Good
  <2> HIDE DEF Good
  <2> QED
    BY <1>1, SubsetInduction
<1> QED
  BY <1>2 DEF Sum

(* What is added last.                                                     *)
LEMMA SumAdd ==
  ASSUME NEW f, NEW S, IsFiniteSet(S), NEW y, y \notin S, \A x \in S \cup {y} : f[x] \in Int
  PROVE  SumFunctionOnSet(f, S \cup {y}) = f[y] + SumFunctionOnSet(f, S)
<1>1. IsFiniteSet(S \cup {y}) /\ (S \cup {y}) \ {y} = S
  BY FS_AddElement
<1> QED
  BY <1>1, SumAnyFirst

(* Two functions with the same values have the same sum.                   *)
LEMMA SumSame ==
  ASSUME NEW f, NEW g, NEW S, IsFiniteSet(S), \A x \in S : f[x] = g[x]
  PROVE  SumFunctionOnSet(f, S) = SumFunctionOnSet(g, S)
<1> DEFINE Good == {Q \in SUBSET S : SumFunctionOnSet(f, Q) = SumFunctionOnSet(g, Q)}
<1>1. ASSUME NEW Q \in SUBSET S, \A P \in SUBSET Q : P # Q => P \in Good
      PROVE  Q \in Good
  <2>1. /\ SumFunctionOnSet(f, Q)
             = IF Q = {} THEN 0 ELSE f[First(Q)] + SumFunctionOnSet(f, Q \ {First(Q)})
        /\ SumFunctionOnSet(g, Q)
             = IF Q = {} THEN 0 ELSE g[First(Q)] + SumFunctionOnSet(g, Q \ {First(Q)})
    BY SumEquations, FS_Subset
  <2>2. Q # {} => First(Q) \in Q /\ Q \ {First(Q)} \in Good
    BY <1>1, FirstIn
  <2> QED
    BY <2>1, <2>2
<1>2. S \in Good
  <2> HIDE DEF Good
  <2> QED
    BY <1>1, SubsetInduction
<1> QED
  BY <1>2

(* A sum when one of its terms changes.                                    *)
LEMMA SumChangedAt ==
  ASSUME NEW f, NEW g, NEW S, IsFiniteSet(S), NEW y \in S,
         \A x \in S : f[x] \in Int /\ g[x] \in Int,
         \A x \in S : x # y => f[x] = g[x]
  PROVE  SumFunctionOnSet(g, S) = SumFunctionOnSet(f, S) - f[y] + g[y]
<1> DEFINE R == S \ {y}
<1>1. /\ IsFiniteSet(R)
      /\ \A x \in R : f[x] \in Int
      /\ \A x \in R : f[x] = g[x]
      /\ \A x \in S : f[x] \in Int
      /\ \A x \in S : g[x] \in Int
  BY FS_Subset
<1>2. SumFunctionOnSet(f, S) = f[y] + SumFunctionOnSet(f, R)
  BY <1>1, SumAnyFirst
<1>3. SumFunctionOnSet(g, S) = g[y] + SumFunctionOnSet(g, R)
  BY <1>1, SumAnyFirst
<1> HIDE DEF R
<1>4. SumFunctionOnSet(f, R) = SumFunctionOnSet(g, R) /\ SumFunctionOnSet(f, R) \in Int
  BY <1>1, SumSame, SumInt
<1> QED
  BY <1>1, <1>2, <1>3, <1>4

(* The sum over two disjoint sets.                                         *)
LEMMA SumUnion ==
  ASSUME NEW f, NEW S, NEW T, IsFiniteSet(S), IsFiniteSet(T), S \cap T = {},
         \A x \in S \cup T : f[x] \in Int
  PROVE  SumFunctionOnSet(f, S \cup T) = SumFunctionOnSet(f, S) + SumFunctionOnSet(f, T)
<1> DEFINE Sum(Q) == SumFunctionOnSet(f, Q)
           Good == {Q \in SUBSET T : Sum(S \cup Q) = Sum(S) + Sum(Q)}
<1>1. ASSUME NEW Q \in SUBSET T, \A P \in SUBSET Q : P # Q => P \in Good
      PROVE  Q \in Good
  <2>1. IsFiniteSet(Q)
    BY FS_Subset
  <2>2. Sum(S) \in Int
    BY SumInt
  <2>3. CASE Q = {}
    <3>1. S \cup Q = S
      BY <2>3
    <3>2. Sum(Q) = 0
      BY <2>1, <2>3, SumEquations
    <3>3. Sum(S \cup Q) = Sum(S)
      BY <3>1
    <3> HIDE DEF Sum
    <3> QED
      BY <2>2, <3>2, <3>3
  <2>4. CASE Q # {}
    <3>1. PICK y : y \in Q
      BY <2>4
    <3> DEFINE P == Q \ {y}
    <3>2. P \in Good /\ IsFiniteSet(P) /\ IsFiniteSet(S \cup P)
      BY <1>1, <2>1, <3>1, FS_Subset, FS_Union
    <3>3. Q = P \cup {y} /\ S \cup Q = (S \cup P) \cup {y} /\ y \notin P /\ y \notin S \cup P
      BY <3>1
    <3>4. Sum(Q) = f[y] + Sum(P) /\ Sum(S \cup Q) = f[y] + Sum(S \cup P)
      BY <3>2, <3>3, SumAdd
    <3>5. Sum(P) \in Int /\ f[y] \in Int
      BY <3>1, <3>2, SumInt
    <3> QED
      BY <2>2, <3>2, <3>4, <3>5
  <2> QED
    BY <2>3, <2>4
<1>2. T \in Good
  <2> HIDE DEF Good
  <2> QED
    BY <1>1, SubsetInduction
<1> QED
  BY <1>2

(* A sum of natural numbers is one, and zeros add up to zero.              *)
LEMMA SumNat ==
  ASSUME NEW f, NEW S, IsFiniteSet(S), \A x \in S : f[x] \in Nat
  PROVE  /\ SumFunctionOnSet(f, S) \in Nat
         /\ (\A x \in S : f[x] = 0) => SumFunctionOnSet(f, S) = 0
<1> DEFINE Good == {Q \in SUBSET S : /\ SumFunctionOnSet(f, Q) \in Nat
                                     /\ (\A x \in S : f[x] = 0) => SumFunctionOnSet(f, Q) = 0}
<1>1. ASSUME NEW Q \in SUBSET S, \A P \in SUBSET Q : P # Q => P \in Good
      PROVE  Q \in Good
  <2>1. SumFunctionOnSet(f, Q)
          = IF Q = {} THEN 0 ELSE f[First(Q)] + SumFunctionOnSet(f, Q \ {First(Q)})
    BY SumEquations, FS_Subset
  <2>2. Q # {} => First(Q) \in Q /\ Q \ {First(Q)} \in Good
    BY <1>1, FirstIn
  <2> QED
    BY <2>1, <2>2
<1>2. S \in Good
  <2> HIDE DEF Good
  <2> QED
    BY <1>1, SubsetInduction
<1> QED
  BY <1>2

(* Natural numbers over a larger set add up to no less.                    *)
LEMMA SumMonotone ==
  ASSUME NEW f, NEW T, IsFiniteSet(T), NEW S \in SUBSET T, \A x \in T : f[x] \in Nat
  PROVE  SumFunctionOnSet(f, S) <= SumFunctionOnSet(f, T)
<1> DEFINE R == T \ S
<1>1. IsFiniteSet(S) /\ IsFiniteSet(R) /\ S \cap R = {} /\ S \cup R = T
  BY FS_Subset
<1>2. SumFunctionOnSet(f, S) \in Nat /\ SumFunctionOnSet(f, R) \in Nat
  BY <1>1, SumNat
<1>3. SumFunctionOnSet(f, T) = SumFunctionOnSet(f, S) + SumFunctionOnSet(f, R)
  <2> HIDE DEF R
  <2>1. SumFunctionOnSet(f, S \cup R) = SumFunctionOnSet(f, S) + SumFunctionOnSet(f, R)
    BY <1>1, SumUnion
  <2> QED
    BY <1>1, <2>1
<1> HIDE DEF R
<1> QED
  BY <1>2, <1>3

(* The same values under other indices have the same sum.                  *)
LEMMA SumReindexed ==
  ASSUME NEW f, NEW g, NEW S, NEW T, IsFiniteSet(S), NEW h,
         \A x \in S : h[x] \in T,
         \A z \in T : \E x \in S : h[x] = z,
         \A x, y \in S : h[x] = h[y] => x = y,
         \A x \in S : f[x] \in Int /\ f[x] = g[h[x]]
  PROVE  SumFunctionOnSet(f, S) = SumFunctionOnSet(g, T)
<1> DEFINE I(Q) == {h[x] : x \in Q}
           Good == {Q \in SUBSET S : /\ IsFiniteSet(I(Q))
                                     /\ SumFunctionOnSet(f, Q) = SumFunctionOnSet(g, I(Q))}
<1>1. ASSUME NEW Q \in SUBSET S, \A P \in SUBSET Q : P # Q => P \in Good
      PROVE  Q \in Good
  <2>1. IsFiniteSet(Q)
    BY FS_Subset
  <2>2. CASE Q = {}
    <3>1. I(Q) = {} /\ IsFiniteSet({})
      BY <2>2, FS_EmptySet
    <3> QED
      BY <2>1, <2>2, <3>1, SumEquations
  <2>3. CASE Q # {}
    <3>1. PICK y : y \in Q
      BY <2>3
    <3> DEFINE P == Q \ {y}
    <3>2. P \in Good /\ IsFiniteSet(P) /\ IsFiniteSet(I(P))
      BY <1>1, <2>1, <3>1, FS_Subset
    <3>3. Q = P \cup {y} /\ y \notin P /\ I(Q) = I(P) \cup {h[y]} /\ h[y] \notin I(P)
      BY <3>1
    <3>4. \A z \in I(P) \cup {h[y]} : g[z] \in Int
      BY <3>1
    <3>5. SumFunctionOnSet(f, P \cup {y}) = f[y] + SumFunctionOnSet(f, P)
      BY <3>1, <3>2, <3>3, SumAdd
    <3>6. SumFunctionOnSet(g, I(P) \cup {h[y]}) = g[h[y]] + SumFunctionOnSet(g, I(P))
      <4> HIDE DEF I, P
      <4> QED
        BY <3>2, <3>3, <3>4, SumAdd
    <3>7. IsFiniteSet(I(P) \cup {h[y]})
      <4> HIDE DEF I, P
      <4> QED
        BY <3>2, FS_AddElement
    <3> QED
      BY <3>1, <3>2, <3>3, <3>5, <3>6, <3>7
  <2> QED
    BY <2>2, <2>3
<1>2. S \in Good
  <2> HIDE DEF Good
  <2> QED
    BY <1>1, SubsetInduction
<1>3. I(S) = T
  OBVIOUS
<1> QED
  BY <1>2, <1>3
=============================================================================
