---------------------- MODULE DualPathSubmitterProofs -----------------------
(***************************************************************************)
(* What the race of the two legs guarantees for every choice of timeouts,  *)
(* every leader schedule and every slot: how long a call waits, what it    *)
(* may report, and that it implements the Submitter contract.              *)
(***************************************************************************)
EXTENDS DualPathSubmitter, TLAPS

Phase == {"idle", "pending", "returned"}
Leg   == {"unsent", "inflight", "dropped"} \cup PathOutcome

TypeOK ==
  /\ timeouts \in [staked : Nat \ {0}, jito : Nat \ {0}, submit : Nat \ {0}]
  /\ phase \in Phase
  /\ path \in [Path -> Leg]
  /\ clock \in Nat
  /\ outcome \in SubmitOutcome \cup {"none"}

\* Between calls nothing of the last one is left.
IdleClean ==
  phase = "idle" => /\ path = [p \in Path |-> "unsent"]
                    /\ clock = 0
                    /\ outcome = "none"

\* The staked leg is always sent, and no leg is dropped before the call returns.
PendingSent ==
  phase = "pending" => /\ path["staked"] \in {"inflight"} \cup PathOutcome
                       /\ \A p \in Path : path[p] # "dropped"

\* Only a pending call has requests under way.
InflightPending == \A p \in Path : path[p] = "inflight" => phase = "pending"

IInv ==
  /\ TypeOK
  /\ IdleClean
  /\ PendingSent
  /\ InflightPending
  /\ WaitBoundedByStakedLeg
  /\ LandingLostOnlyToOtherLeg

-----------------------------------------------------------------------------
(* A submitter that has not been called satisfies the invariant            *)
(* (DualPathSubmitter::new).                                               *)
LEMMA InitIInv == Init => IInv
<1> SUFFICES ASSUME Init PROVE IInv
  OBVIOUS
<1>1. timeouts \in [staked : Nat \ {0}, jito : Nat \ {0}, submit : Nat \ {0}]
  BY TimeoutAssumption DEF Init
<1>2. TypeOK /\ WaitBoundedByStakedLeg
  BY <1>1 DEF Init, TypeOK, Phase, Leg, WaitBoundedByStakedLeg
<1>3. IdleClean /\ PendingSent /\ InflightPending /\ LandingLostOnlyToOtherLeg
  BY DEF Init, IdleClean, PendingSent, InflightPending, LandingLostOnlyToOtherLeg
<1> QED
  BY <1>2, <1>3 DEF IInv

(* A leg that resolves, by an answer, an error or its client's timeout,    *)
(* changes only its own state.                                             *)
LEMMA LegResolves ==
  ASSUME IInv, NEW p \in Path, NEW o \in PathOutcome, path[p] = "inflight",
         path' = [path EXCEPT ![p] = o],
         UNCHANGED <<timeouts, schedule, phase, clock, outcome>>
  PROVE  IInv'
<1>1. phase = "pending" /\ phase' = "pending"
  BY DEF IInv, InflightPending
<1>2. TypeOK'
  BY DEF IInv, TypeOK, Leg
<1>3. IdleClean' /\ LandingLostOnlyToOtherLeg' /\ InflightPending'
  BY <1>1 DEF IdleClean, LandingLostOnlyToOtherLeg, InflightPending
<1>4. PendingSent'
  BY <1>1 DEF IInv, PendingSent, TypeOK, PathOutcome
<1>5. WaitBoundedByStakedLeg'
  BY DEF IInv, WaitBoundedByStakedLeg
<1> QED
  BY <1>2, <1>3, <1>4, <1>5 DEF IInv

(* A call sends its legs, the staked one always, and starts its clock.     *)
LEMMA SubmitPreserves ==
  ASSUME IInv, NEW s \in Slot, Submit(s)
  PROVE  IInv'
<1>1. /\ phase' = "pending" /\ clock' = 0
      /\ \A p \in Path : path'[p] \in {"unsent", "inflight"}
      /\ path'["staked"] = "inflight"
  BY DEF Submit, Path
<1>2. TypeOK'
  <2>1. path' \in [Path -> Leg]
    BY DEF Submit, Leg
  <2> QED
    BY <1>1, <2>1 DEF IInv, TypeOK, Submit, Phase
<1>3. IdleClean' /\ PendingSent' /\ InflightPending' /\ LandingLostOnlyToOtherLeg'
  BY <1>1 DEF IdleClean, PendingSent, InflightPending, LandingLostOnlyToOtherLeg
<1>4. WaitBoundedByStakedLeg'
  BY <1>1, <1>2 DEF WaitBoundedByStakedLeg, TypeOK
<1> QED
  BY <1>2, <1>3, <1>4 DEF IInv

(* Time passes only while the staked client may still wait: Tick is where  *)
(* the bound on the wait comes from.                                       *)
LEMMA TickPreserves ==
  ASSUME IInv, Tick
  PROVE  IInv'
<1>1. path["staked"] = "inflight"
  <2>1. "staked" \in Path /\ path["staked"] \notin PathOutcome
    BY DEF Tick, Ready, Path
  <2> QED
    BY <2>1 DEF IInv, PendingSent, Tick
<1>2. clock < timeouts["staked"]
  BY <1>1 DEF Tick, ClientTimeout, Path
<1>3. TypeOK' /\ WaitBoundedByStakedLeg'
  BY <1>2 DEF IInv, TypeOK, Tick, WaitBoundedByStakedLeg
<1>4. IdleClean' /\ PendingSent' /\ InflightPending' /\ LandingLostOnlyToOtherLeg'
  BY DEF IInv, Tick, IdleClean, PendingSent, InflightPending, LandingLostOnlyToOtherLeg
<1> QED
  BY <1>3, <1>4 DEF IInv

(* A call that ends keeps what its legs resolved to and drops the rest.    *)
LEMMA CallEnds ==
  ASSUME IInv, phase = "pending", phase' = "returned", path' = DropPending,
         outcome' \in SubmitOutcome, UNCHANGED <<timeouts, schedule, clock>>,
         LandingLostOnlyToOtherLeg'
  PROVE  IInv'
<1>1. /\ path' \in [Path -> Leg]
      /\ \A p \in Path : path'[p] # "inflight"
  BY DEF IInv, TypeOK, DropPending, Leg, PathOutcome
<1>2. TypeOK' /\ WaitBoundedByStakedLeg'
  BY <1>1 DEF IInv, TypeOK, Phase, WaitBoundedByStakedLeg
<1>3. IdleClean' /\ PendingSent' /\ InflightPending'
  BY <1>1 DEF IdleClean, PendingSent, InflightPending
<1> QED
  BY <1>2, <1>3 DEF IInv

(* The leg that is polled first decides, and the other is dropped.         *)
LEMMA ReturnPreserves ==
  ASSUME IInv, NEW p \in Path, Return(p)
  PROVE  IInv'
<1>1. path[p] \in PathOutcome /\ path'[p] = path[p]
  BY DEF Return, Ready, DropPending, PathOutcome
<1>2. outcome' = ToSubmitOutcome(path[p]) /\ outcome' \in SubmitOutcome
  BY <1>1 DEF Return, ToSubmitOutcome, PathOutcome, SubmitOutcome
<1>3. LandingLostOnlyToOtherLeg'
  <2> SUFFICES ASSUME NEW q \in Path, path'[q] = "Landed", outcome' # "Landed"
               PROVE  \E r \in Path \ {q} : ToSubmitOutcome(path'[r]) = outcome'
    BY DEF LandingLostOnlyToOtherLeg, ToSubmitOutcome
  <2>1. p # q
    BY <1>1, <1>2 DEF ToSubmitOutcome
  <2> QED
    BY <1>1, <1>2, <2>1
<1> QED
  BY <1>2, <1>3, CallEnds DEF Return

(* The call's own timeout gives up on both legs.                           *)
LEMMA ElapsedPreserves ==
  ASSUME IInv, Elapsed
  PROVE  IInv'
<1>1. \A p \in Path : path'[p] \notin PathOutcome
  BY DEF Elapsed, Ready, DropPending, PathOutcome
<1>2. LandingLostOnlyToOtherLeg'
  BY <1>1 DEF LandingLostOnlyToOtherLeg, PathOutcome
<1> QED
  BY <1>2, CallEnds DEF Elapsed, SubmitOutcome

(* The caller takes the outcome, and nothing of the call is left.          *)
LEMMA TakePreserves ==
  ASSUME IInv, Take
  PROVE  IInv'
<1>1. TypeOK' /\ WaitBoundedByStakedLeg'
  BY DEF IInv, TypeOK, Take, Phase, Leg, WaitBoundedByStakedLeg
<1>2. IdleClean' /\ PendingSent' /\ InflightPending' /\ LandingLostOnlyToOtherLeg'
  BY DEF Take, IdleClean, PendingSent, InflightPending, LandingLostOnlyToOtherLeg
<1> QED
  BY <1>1, <1>2 DEF IInv

(* Every step of the race preserves the invariant.                         *)
LEMMA NextPreservesIInv == IInv /\ [Next]_vars => IInv'
<1> SUFFICES ASSUME IInv, [Next]_vars PROVE IInv'
  OBVIOUS
<1>1. ASSUME NEW s \in Slot, Submit(s) PROVE IInv'
  BY <1>1, SubmitPreserves
<1>2. ASSUME NEW p \in Path, NEW o \in {"Landed", "Reverted"}, Answer(p, o) PROVE IInv'
  BY <1>2, LegResolves DEF Answer, PathOutcome
<1>3. ASSUME NEW p \in Path, TransportError(p) \/ HttpTimeout(p) PROVE IInv'
  BY <1>3, LegResolves DEF TransportError, HttpTimeout, PathOutcome
<1>4. CASE Tick
  BY <1>4, TickPreserves
<1>5. ASSUME NEW p \in Path, Return(p) PROVE IInv'
  BY <1>5, ReturnPreserves
<1>6. CASE Elapsed
  BY <1>6, ElapsedPreserves
<1>7. CASE Take
  BY <1>7, TakePreserves
<1>8. CASE UNCHANGED vars
  BY <1>8 DEF IInv, TypeOK, IdleClean, PendingSent, InflightPending,
              WaitBoundedByStakedLeg, LandingLostOnlyToOtherLeg, vars
<1> QED
  BY <1>1, <1>2, <1>3, <1>4, <1>5, <1>6, <1>7, <1>8 DEF Next

(* No call waits longer than the staked client's own timeout, whatever the *)
(* Jito client and the call itself were given (DualPathSubmitter::submit). *)
THEOREM WaitBounded == Spec => []WaitBoundedByStakedLeg
<1>1. IInv => WaitBoundedByStakedLeg
  BY DEF IInv
<1> QED
  BY InitIInv, NextPreservesIInv, <1>1, PTL DEF Spec

(* A landing is lost only to the other leg, never to a timer, for every    *)
(* choice of the three timeouts (the order in which tokio's timeout polls  *)
(* the race and its own timer).                                            *)
THEOREM LandingKept == Spec => []LandingLostOnlyToOtherLeg
<1>1. IInv => LandingLostOnlyToOtherLeg
  BY DEF IInv
<1> QED
  BY InitIInv, NextPreservesIInv, <1>1, PTL DEF Spec

-----------------------------------------------------------------------------
(* The refinement, step by step.  Answers and Expired are the values that  *)
(* Contract gives the contract's two hidden variables.                     *)

Answers == {path[p] : p \in Ready}
Expired == clock = timeouts.submit

USE DEF Contract!PathOutcome, Contract!ToSubmitOutcome

(* A new submitter is an idle one of the contract.                         *)
LEMMA InitRefines == Init => Contract!Init
<1> SUFFICES ASSUME Init PROVE Contract!Init
  OBVIOUS
<1>1. Answers = {}
  BY DEF Init, Answers, Ready, PathOutcome
<1>2. Expired = FALSE
  BY TimeoutAssumption DEF Init, Expired
<1> QED
  BY <1>1, <1>2 DEF Init, Contract!Init, Answers, Expired

(* A call is a call of the contract.                                       *)
LEMMA SubmitRefines ==
  ASSUME IInv, NEW s \in Slot, Submit(s)
  PROVE  Contract!Submit
<1>1. Answers = {} /\ Answers' = {}
  BY DEF IInv, IdleClean, Submit, Answers, Ready, PathOutcome
<1>2. Expired' = Expired
  BY DEF IInv, IdleClean, Submit, Expired
<1> QED
  BY <1>1, <1>2 DEF Submit, Contract!Submit, Answers, Expired

(* A leg that resolves adds its outcome to the answers.                    *)
LEMMA ResolveRefines ==
  ASSUME IInv, NEW p \in Path, NEW o \in PathOutcome, path[p] = "inflight",
         path' = [path EXCEPT ![p] = o],
         UNCHANGED <<timeouts, schedule, phase, clock, outcome>>
  PROVE  \E a \in Contract!PathOutcome : Contract!Answer(a)
<1>1. phase = "pending"
  BY DEF IInv, InflightPending
<1>2. path'[p] = o /\ \A q \in Path \ {p} : path'[q] = path[q]
  BY DEF IInv, TypeOK
<1>3. p \notin Ready /\ Ready' = Ready \cup {p}
  BY <1>2 DEF Ready, PathOutcome
<1>4. Answers' = Answers \cup {o}
  BY <1>2, <1>3 DEF Answers, Ready
<1>5. Contract!Answer(o)
  BY <1>1, <1>4 DEF Contract!Answer, Answers
<1> QED
  BY <1>5 DEF PathOutcome

(* The tick that reaches the call's timeout is the contract's expiry; any  *)
(* other is a stutter.                                                     *)
LEMMA TickRefines ==
  ASSUME IInv, Tick
  PROVE  Contract!Expire \/ UNCHANGED Contract!vars
<1>1. Answers' = Answers
  BY DEF Tick, Answers, Ready
<1>2. Expired = FALSE
  BY DEF IInv, TypeOK, Tick, Expired
<1>3. Expired' = FALSE \/ Expired' = TRUE
  BY DEF Expired
<1> QED
  BY <1>1, <1>2, <1>3 DEF Tick, Contract!Expire, Contract!vars, Answers, Expired

(* What is dropped when a call ends was no answer.                         *)
LEMMA DropKeepsAnswers ==
  ASSUME IInv, path' = DropPending, UNCHANGED <<timeouts, clock>>
  PROVE  Answers' = Answers /\ Expired' = Expired
<1>1. \A p \in Path : /\ path'[p] \in PathOutcome <=> path[p] \in PathOutcome
                      /\ path[p] \in PathOutcome => path'[p] = path[p]
  BY DEF DropPending, PathOutcome
<1>2. Ready' = Ready
  BY <1>1 DEF Ready
<1> QED
  BY <1>1, <1>2 DEF Answers, Expired, Ready

(* A return is a return of what some leg answered.                         *)
LEMMA ReturnRefines ==
  ASSUME IInv, NEW p \in Path, Return(p)
  PROVE  Contract!Return
<1>1. Answers' = Answers /\ Expired' = Expired
  BY DropKeepsAnswers DEF Return
<1>2. path[p] \in Answers
  BY DEF Return, Answers
<1>3. outcome' = Contract!ToSubmitOutcome(path[p])
  BY DEF Return, ToSubmitOutcome
<1> QED
  BY <1>1, <1>2, <1>3 DEF Return, Contract!Return, Answers, Expired

(* Giving up at the timeout is a return after expiry.                      *)
LEMMA ElapsedRefines ==
  ASSUME IInv, Elapsed
  PROVE  Contract!Return
<1>1. Answers' = Answers /\ Expired' = Expired
  BY DropKeepsAnswers DEF Elapsed
<1>2. Answers = {} /\ Expired
  BY DEF Elapsed, Answers, Expired
<1> QED
  BY <1>1, <1>2 DEF Elapsed, Contract!Return, Answers, Expired

(* Taking the outcome is taking it in the contract.                        *)
LEMMA TakeRefines ==
  ASSUME IInv, Take
  PROVE  Contract!Take
<1>1. Answers' = {}
  BY DEF Take, Answers, Ready, PathOutcome
<1>2. Expired' = FALSE
  BY DEF IInv, TypeOK, Take, Expired
<1> QED
  BY <1>1, <1>2 DEF Take, Contract!Take, Answers, Expired

(* Every step of the race is a step of the contract or a stutter.          *)
LEMMA NextRefines == IInv /\ [Next]_vars => [Contract!Next]_(Contract!vars)
<1> SUFFICES ASSUME IInv, [Next]_vars PROVE [Contract!Next]_(Contract!vars)
  OBVIOUS
<1> USE DEF Contract!Next
<1>1. ASSUME NEW s \in Slot, Submit(s) PROVE Contract!Next
  BY <1>1, SubmitRefines
<1>2. ASSUME NEW p \in Path, NEW o \in {"Landed", "Reverted"}, Answer(p, o)
      PROVE  Contract!Next
  BY <1>2, ResolveRefines DEF Answer, PathOutcome
<1>3. ASSUME NEW p \in Path, TransportError(p) \/ HttpTimeout(p) PROVE Contract!Next
  BY <1>3, ResolveRefines DEF TransportError, HttpTimeout, PathOutcome
<1>4. CASE Tick
  BY <1>4, TickRefines
<1>5. ASSUME NEW p \in Path, Return(p) PROVE Contract!Next
  BY <1>5, ReturnRefines
<1>6. CASE Elapsed
  BY <1>6, ElapsedRefines
<1>7. CASE Take
  BY <1>7, TakeRefines
<1>8. CASE UNCHANGED vars
  BY <1>8 DEF vars, Contract!vars, Ready
<1> QED
  BY <1>1, <1>2, <1>3, <1>4, <1>5, <1>6, <1>7, <1>8 DEF Next

(* The race implements the contract every caller of the Submitter trait    *)
(* relies on, for every choice of timeouts and every leader schedule: each *)
(* step of DualPathSubmitter::submit is a step of the contract or hidden   *)
(* by it.                                                                  *)
THEOREM RaceImplementsContract == Spec => ImplementsSubmitter
  BY InitIInv, NextPreservesIInv, InitRefines, NextRefines, PTL
     DEF Spec, ImplementsSubmitter, Contract!Spec
=============================================================================
