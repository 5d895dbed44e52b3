-------------------------- MODULE EngineLoopProofs --------------------------
(***************************************************************************)
(* What the event loop keeps true with the breakers, the submitter and the *)
(* log writer running beside it, for every feed, every set of positions    *)
(* and reserves, every revert limit and every channel capacity.            *)
(***************************************************************************)
EXTENDS EngineLoop, FiniteSetTheorems, SequenceTheorems, TLAPS

-----------------------------------------------------------------------------
(* Types.  The history of outcomes is a sequence, which TypeOK leaves      *)
(* open; each component keeps its own type whatever the loop asks of it.   *)

Outcome == [route : Brk!RouteKey, outcome : Sub!SubmitOutcome, slot : 0 .. MaxSlot]

LoopTyped ==
  /\ halt \in BOOLEAN /\ mode \in Mode
  /\ pc \in {"recv", "submitting", "exited"}
  /\ slotCounter \in 0 .. MaxSlot
  /\ routed \in Brk!RouteKey
  /\ dash \in Dashboard
  /\ terminal \in Seq(Outcome)

Typed == LoopTyped /\ Brk!TypeOK /\ Sub!TypeOK /\ Log!TypeOK

\* What one step of the loop may ask of each component.
BreakerStep ==
  \/ Brk!RecordSuccess(routed)
  \/ Brk!RecordRevert(routed, RevertLimit)
  \/ UNCHANGED breakerVars

SubmitterStep ==
  \/ Sub!Submit
  \/ \E o \in Sub!PathOutcome : Sub!Answer(o)
  \/ Sub!Expire
  \/ Sub!Return
  \/ Sub!Take
  \/ UNCHANGED submitVars

LogStep ==
  \/ Log!TryRecord(slotCounter)
  \/ Log!TaskStep
  \/ Log!DropSender
  \/ Log!RuntimeShutdown
  \/ UNCHANGED logVars

(* Every step of the engine is a step, or a stutter, of each component.    *)
LEMMA ComponentSteps ==
  ASSUME [Next]_vars
  PROVE  BreakerStep /\ SubmitterStep /\ LogStep
<1>1. CASE \E raw \in FeedSlot : SkipUpdate(raw) \/ DropCandidate(raw)
  BY <1>1 DEF SkipUpdate, DropCandidate, BreakerStep, SubmitterStep, LogStep
<1>2. CASE \E raw \in FeedSlot, p \in Position, r \in FlashReserve : SubmitCandidate(raw, p, r)
  BY <1>2 DEF SubmitCandidate, BreakerStep, SubmitterStep, LogStep
<1>3. CASE PathAnswers
  BY <1>3 DEF PathAnswers, BreakerStep, SubmitterStep, LogStep
<1>4. CASE SubmitEnds
  BY <1>4 DEF SubmitEnds, BreakerStep, SubmitterStep, LogStep
<1>5. CASE Resolve
  <2>1. BreakerStep
    BY <1>5 DEF Resolve, Landed, Reverted, NotIncluded, BreakerStep
  <2>2. SubmitterStep /\ LogStep
    BY <1>5 DEF Resolve, SubmitterStep, LogStep
  <2> QED  BY <2>1, <2>2
<1>6. CASE WriterStep
  BY <1>6 DEF WriterStep, BreakerStep, SubmitterStep, LogStep
<1>7. CASE FeedEnds
  BY <1>7 DEF FeedEnds, BreakerStep, SubmitterStep, LogStep
<1>8. CASE Shutdown
  BY <1>8 DEF Shutdown, BreakerStep, SubmitterStep, LogStep
<1>9. CASE UNCHANGED vars
  BY <1>9 DEF vars, BreakerStep, SubmitterStep, LogStep
<1> QED
  BY <1>1, <1>2, <1>3, <1>4, <1>5, <1>6, <1>7, <1>8, <1>9 DEF Next

(* The breakers' counters stay within their bound and their routes known.  *)
LEMMA BreakerTyped ==
  ASSUME Brk!TypeOK, routed \in Brk!RouteKey, BreakerStep
  PROVE  Brk!TypeOK'
<1> USE SlotAssumption
<1>1. CASE Brk!RecordSuccess(routed)
  BY <1>1 DEF Brk!RecordSuccess, Brk!TypeOK, Brk!flags
<1>2. CASE Brk!RecordRevert(routed, RevertLimit)
  <2>1. consecutiveReverts[routed] \in 0 .. MaxSlot /\ consecutiveReverts[routed] < MaxSlot
    BY <1>2 DEF Brk!RecordRevert, Brk!TypeOK
  <2>2. consecutiveReverts[routed] + 1 \in 0 .. MaxSlot
    BY <2>1
  <2> QED
    BY <1>2, <2>2 DEF Brk!RecordRevert, Brk!TypeOK, Brk!flags
<1>3. CASE UNCHANGED breakerVars
  BY <1>3 DEF breakerVars, Brk!TypeOK
<1> QED
  BY <1>1, <1>2, <1>3 DEF BreakerStep

(* The call in progress keeps to the Submitter's types.                    *)
LEMMA SubmitterTyped ==
  ASSUME Sub!TypeOK, SubmitterStep
  PROVE  Sub!TypeOK'
<1> USE DEF Sub!TypeOK
<1>1. CASE Sub!Submit
  BY <1>1 DEF Sub!Submit
<1>2. CASE \E o \in Sub!PathOutcome : Sub!Answer(o)
  BY <1>2 DEF Sub!Answer
<1>3. CASE Sub!Expire
  BY <1>3 DEF Sub!Expire
<1>4. CASE Sub!Return
  BY <1>4 DEF Sub!Return, Sub!ToSubmitOutcome, Sub!PathOutcome, Sub!SubmitOutcome
<1>5. CASE Sub!Take
  BY <1>5 DEF Sub!Take
<1>6. CASE UNCHANGED submitVars
  BY <1>6 DEF submitVars
<1> QED
  BY <1>1, <1>2, <1>3, <1>4, <1>5, <1>6 DEF SubmitterStep

(* The channel never holds more than its capacity.                         *)
LEMMA LogTyped ==
  ASSUME Log!TypeOK, slotCounter \in 0 .. MaxSlot, LogStep
  PROVE  Log!TypeOK'
<1> USE DEF Log!TypeOK
<1>1. CASE Log!TryRecord(slotCounter)
  <2>1. CASE Log!Send(slotCounter)
    <3>1. queue \in Seq(0 .. MaxSlot) /\ Len(queue) < Capacity /\ Len(queue) \in Nat
      BY <2>1 DEF Log!Send
    <3>2. queue' \in Seq(0 .. MaxSlot) /\ Len(queue') <= Capacity
      BY <2>1, <3>1, ChannelAssumption DEF Log!Send
    <3> QED
      BY <2>1, <3>2 DEF Log!Send
  <2>2. CASE Log!Refuse(slotCounter)
    BY <2>2 DEF Log!Refuse
  <2> QED
    BY <1>1, <2>1, <2>2 DEF Log!TryRecord
<1>2. CASE Log!Recv
  <2>1. queue \in Seq(0 .. MaxSlot) /\ queue # <<>> /\ Len(queue) \in Nat
    BY <1>2 DEF Log!Recv
  <2>2. /\ Head(queue) \in 0 .. MaxSlot /\ Tail(queue) \in Seq(0 .. MaxSlot)
        /\ Len(Tail(queue)) <= Capacity
    <3>1. /\ Head(queue) \in 0 .. MaxSlot /\ Tail(queue) \in Seq(0 .. MaxSlot)
          /\ Len(Tail(queue)) = Len(queue) - 1
      BY <2>1, HeadTailProperties
    <3> QED
      BY <2>1, <3>1, ChannelAssumption
  <2> QED
    BY <1>2, <2>2 DEF Log!Recv
<1>3. CASE Log!WriteText
  <2>1. hand \in 0 .. MaxSlot
    BY SlotAssumption
  <2>2. Log!Line(hand) \in Log!Piece
    BY <2>1 DEF Log!Piece
  <2>3. file' \in Seq(Log!Piece)
    BY <1>3, <2>2 DEF Log!WriteText
  <2> QED
    BY <1>3, <2>3 DEF Log!WriteText
<1>4. CASE Log!WriteNewline
  <2>1. Log!Newline \in Log!Piece
    BY DEF Log!Piece
  <2>2. file' \in Seq(Log!Piece)
    BY <1>4, <2>1 DEF Log!WriteNewline
  <2> QED
    BY <1>4, <2>2 DEF Log!WriteNewline
<1>5. CASE Log!TextFails \/ Log!NewlineFails
  BY <1>5 DEF Log!TextFails, Log!NewlineFails
<1>6. CASE Log!EndOfChannel
  BY <1>6 DEF Log!EndOfChannel
<1>7. CASE Log!DropSender
  BY <1>7 DEF Log!DropSender
<1>8. CASE Log!RuntimeShutdown
  <2>1. Log!Queued \subseteq 0 .. MaxSlot
    <3>1. \A i \in DOMAIN queue : queue[i] \in 0 .. MaxSlot
      BY ElementOfSeq, LenProperties
    <3> QED
      BY <3>1 DEF Log!Queued
  <2>2. <<>> \in Seq(0 .. MaxSlot) /\ Len(<<>>) <= Capacity
    BY ChannelAssumption
  <2> QED
    BY <1>8, <2>1, <2>2 DEF Log!RuntimeShutdown
<1>9. CASE UNCHANGED logVars
  BY <1>9 DEF logVars
<1> QED
  BY <1>1, <1>2, <1>3, <1>4, <1>5, <1>6, <1>7, <1>8, <1>9 DEF LogStep, Log!TaskStep

(* The slot counter only moves forward, and stays within its bound.        *)
LEMMA NextSlotForward ==
  ASSUME LoopTyped, NEW raw \in FeedSlot, NextSlot(raw) <= MaxSlot
  PROVE  NextSlot(raw) \in 0 .. MaxSlot /\ NextSlot(raw) > slotCounter
  BY SlotAssumption DEF LoopTyped, NextSlot

(* The dashboard counts a breach, and an attempt if there is one.          *)
LEMMA DashboardCounts ==
  ASSUME dash \in Dashboard, NEW s \in 0 .. MaxSlot, NEW n \in {0, 1}
  PROVE  /\ [dash EXCEPT !.currentSlot = s, !.breaches = @ + n] \in Dashboard
         /\ [dash EXCEPT !.currentSlot = s, !.breaches = @ + 1, !.attempted = @ + 1]
              \in Dashboard
<1>1. /\ dash.breaches \in Nat /\ dash.attempted \in Nat
      /\ dash.landed \in Nat /\ dash.reverted \in Nat
  BY DEF Dashboard
<1>2. /\ dash.breaches + n \in Nat /\ dash.breaches + 1 \in Nat
      /\ dash.attempted + 1 \in Nat
  BY <1>1
<1> QED
  BY <1>1, <1>2 DEF Dashboard

(* The loop's own state keeps its types.                                   *)
LEMMA LoopTypedNext ==
  ASSUME Typed, [Next]_vars
  PROVE  LoopTyped'
<1> USE DEF Typed
<1>1. ASSUME NEW raw \in FeedSlot, NEW n \in {0, 1}, Receive(raw, n),
             UNCHANGED <<halt, mode, pc, routed, terminal>>
      PROVE  LoopTyped'
  <2>1. NextSlot(raw) \in 0 .. MaxSlot
    BY <1>1, NextSlotForward DEF Receive
  <2>2. dash' \in Dashboard
    BY <1>1, <2>1, DashboardCounts DEF Receive, LoopTyped
  <2> QED
    BY <1>1, <2>1, <2>2 DEF Receive, LoopTyped
<1>2. CASE \E raw \in FeedSlot : SkipUpdate(raw) \/ DropCandidate(raw)
  BY <1>1, <1>2 DEF SkipUpdate, DropCandidate
<1>3. ASSUME NEW raw \in FeedSlot, NEW p \in Position, NEW r \in FlashReserve,
             SubmitCandidate(raw, p, r)
      PROVE  LoopTyped'
  <2>1. NextSlot(raw) \in 0 .. MaxSlot
    BY <1>3, NextSlotForward DEF SubmitCandidate
  <2>2. dash' \in Dashboard
    BY <1>3, <2>1, DashboardCounts DEF SubmitCandidate, LoopTyped
  <2>3. routed' \in Brk!RouteKey
    BY <1>3 DEF SubmitCandidate, Route, Brk!RouteKey
  <2> QED
    BY <1>3, <2>1, <2>2, <2>3 DEF SubmitCandidate, LoopTyped
<1>4. CASE Resolve
  <2>1. outcome \in Sub!SubmitOutcome
    BY <1>4 DEF Resolve, Landed, Reverted, NotIncluded, Sub!SubmitOutcome
  <2>2. dash' \in Dashboard
    <3>1. dash' \in {dash, [dash EXCEPT !.landed = @ + 1], [dash EXCEPT !.reverted = @ + 1]}
      BY <1>4, Zenon DEF Resolve, Landed, Reverted, NotIncluded
    <3>2. dash \in Dashboard
      BY DEF LoopTyped
    <3> QED
      BY <3>1, <3>2 DEF Dashboard
  <2>3. [route |-> routed, outcome |-> outcome, slot |-> slotCounter] \in Outcome
    BY <2>1 DEF Outcome, LoopTyped
  <2>4. terminal' \in Seq(Outcome)
    BY <1>4, <2>3 DEF Resolve, LoopTyped
  <2> QED
    BY <1>4, <2>2, <2>4 DEF Resolve, LoopTyped
<1>5. CASE FeedEnds
  BY <1>5 DEF FeedEnds, LoopTyped
<1>6. CASE UNCHANGED loopVars
  BY <1>6 DEF loopVars, LoopTyped
<1> QED
  BY <1>2, <1>3, <1>4, <1>5, <1>6
  DEF Next, vars, PathAnswers, SubmitEnds, WriterStep, Shutdown

(* The engine starts well typed.                                           *)
LEMMA InitTyped == Init => Typed
<1> SUFFICES ASSUME Init PROVE Typed
  OBVIOUS
<1>1. mode \in Mode
  BY DEF Init, EffectiveMode, Mode
<1>2. routed \in Brk!RouteKey
  BY DEF Init, Route, Brk!RouteKey
<1>3. slotCounter \in 0 .. MaxSlot /\ dash \in Dashboard
  BY SlotAssumption DEF Init, Dashboard
<1>4. terminal \in Seq(Outcome)
  BY DEF Init
<1>5. LoopTyped
  BY <1>1, <1>2, <1>3, <1>4 DEF Init, LoopTyped
<1>6. Brk!TypeOK
  <2>1. 0 \in 0 .. MaxSlot
    BY SlotAssumption
  <2> QED
    BY <2>1 DEF Init, Brk!Init, Brk!TypeOK
<1>7. Sub!TypeOK
  BY DEF Init, Sub!Init, Sub!TypeOK
<1>8. Log!TypeOK
  <2>1. <<>> \in Seq(0 .. MaxSlot) /\ <<>> \in Seq(Log!Piece) /\ Len(<<>>) <= Capacity
    BY ChannelAssumption
  <2> QED
    BY <2>1 DEF Init, Log!Init, Log!TypeOK
<1> QED
  BY <1>5, <1>6, <1>7, <1>8 DEF Typed

(* Every step keeps the types of the loop and of its components.           *)
LEMMA NextTyped == Typed /\ [Next]_vars => Typed'
<1> SUFFICES ASSUME Typed, [Next]_vars PROVE Typed'
  OBVIOUS
<1>1. BreakerStep /\ SubmitterStep /\ LogStep
  BY ComponentSteps
<1>2. LoopTyped'
  BY LoopTypedNext
<1>3. Brk!TypeOK'
  BY <1>1, BreakerTyped DEF Typed, LoopTyped
<1>4. Sub!TypeOK'
  BY <1>1, SubmitterTyped DEF Typed
<1>5. Log!TypeOK'
  BY <1>1, LogTyped DEF Typed, LoopTyped
<1> QED
  BY <1>2, <1>3, <1>4, <1>5 DEF Typed

(* The engine is always well typed.                                        *)
LEMMA AlwaysTyped == Spec => []Typed
  BY InitTyped, NextTyped, PTL DEF Spec

(* Every value of the engine stays in its type: counters within their      *)
(* bounds, routes and outcomes known, and the log channel never over its   *)
(* capacity (main.rs, breakers.rs, liquidation_log.rs).                    *)
THEOREM EngineTypeCorrect == Spec => []TypeOK
<1>1. Typed => TypeOK
  <2>1. Typed => \A i \in DOMAIN terminal : terminal[i] \in Outcome
    BY ElementOfSeq DEF Typed, LoopTyped
  <2> QED
    BY <2>1 DEF Typed, LoopTyped, TypeOK, Outcome
<1> QED
  BY <1>1, AlwaysTyped, PTL

-----------------------------------------------------------------------------
(* The kill switch.                                                        *)

(* Only an outcome offers a record: the writer task, the dropping of the   *)
(* sender and the shutdown leave what was offered alone.                   *)
LEMMA OfferedSteps ==
  /\ Log!TryRecord(slotCounter) => Log!Offered' = Log!Offered \cup {slotCounter}
  /\ Log!TaskStep \/ Log!DropSender \/ Log!RuntimeShutdown \/ UNCHANGED logVars
       => Log!Offered' = Log!Offered
<1>1. Log!TryRecord(slotCounter) => Log!Offered' = Log!Offered \cup {slotCounter}
  BY DEF Log!TryRecord, Log!Send, Log!Refuse, Log!Offered
<1>2. ASSUME Log!TaskStep PROVE Log!Offered' = Log!Offered
  BY <1>2 DEF Log!TaskStep, Log!Recv, Log!WriteText, Log!WriteNewline, Log!TextFails,
    Log!NewlineFails, Log!EndOfChannel, Log!Offered
<1>3. Log!DropSender \/ Log!RuntimeShutdown \/ UNCHANGED logVars => Log!Offered' = Log!Offered
  BY DEF Log!DropSender, Log!RuntimeShutdown, logVars, Log!Offered
<1> QED
  BY <1>1, <1>2, <1>3

\* An engine that only observes is at the top of its loop, or gone.
Observing ==
  /\ halt => mode = "observe"
  /\ mode = "observe" =>
       /\ pc # "submitting" /\ phase = "idle"
       /\ dash.attempted = 0 /\ Log!Offered = {}

(* Nothing is under way when the engine starts.                            *)
LEMMA InitObserving == Init => Observing
  BY DEF Init, EffectiveMode, Observing, Sub!Init, Log!Init, Log!Offered

(* The mode never changes, and only a live engine submits.                 *)
LEMMA NextObserving ==
  ASSUME Typed, Observing, [Next]_vars
  PROVE  Observing'
<1>1. CASE \E raw \in FeedSlot : SkipUpdate(raw) \/ DropCandidate(raw)
  <2>1. UNCHANGED <<halt, mode, pc, phase>> /\ Log!Offered' = Log!Offered
    BY <1>1, OfferedSteps DEF SkipUpdate, DropCandidate, submitVars
  <2>2. dash'.attempted = dash.attempted
    BY <1>1 DEF SkipUpdate, DropCandidate, Receive, Typed, LoopTyped, Dashboard
  <2> QED
    BY <2>1, <2>2 DEF Observing
<1>2. CASE \E raw \in FeedSlot, p \in Position, r \in FlashReserve : SubmitCandidate(raw, p, r)
  BY <1>2 DEF SubmitCandidate, Observing
<1>3. CASE PathAnswers \/ SubmitEnds \/ Resolve
  BY <1>3 DEF PathAnswers, SubmitEnds, Resolve, loopVars, Observing
<1>4. CASE WriterStep \/ FeedEnds \/ Shutdown \/ UNCHANGED vars
  <2>1. Log!Offered' = Log!Offered
    BY <1>4, OfferedSteps DEF WriterStep, FeedEnds, Shutdown, vars
  <2>2. /\ UNCHANGED <<halt, mode, phase, dash>>
        /\ pc' = "submitting" => pc = "submitting"
    BY <1>4 DEF WriterStep, FeedEnds, Shutdown, vars, loopVars, submitVars
  <2> QED
    BY <2>1, <2>2 DEF Observing
<1> QED
  BY <1>1, <1>2, <1>3, <1>4 DEF Next

(* --halt is a kill switch: a halted or observing engine never submits,    *)
(* attempts or logs anything (effective_mode and the loop's mode check).   *)
THEOREM HaltIsKillSwitch == Spec => []HaltNeverSubmits
<1>1. Spec => []Observing
  BY AlwaysTyped, InitObserving, NextObserving, PTL DEF Spec
<1>2. Observing => HaltNeverSubmits
  BY DEF Observing, HaltNeverSubmits
<1> QED
  BY <1>1, <1>2, PTL

-----------------------------------------------------------------------------
(* Counting outcomes in a history that grows at its end.                   *)

Counted(t, o) == {i \in DOMAIN t : t[i].outcome = o}

Streaking(t, route) ==
  {i \in 1 .. Len(t) :
    /\ t[i].route = route /\ t[i].outcome = "Reverted"
    /\ \A j \in i .. Len(t) : ~(t[j].route = route /\ t[j].outcome = "Landed")}

(* Any set of positions of a finite sequence is finite, and has one more   *)
(* element with the position after the last.                               *)
LEMMA PositionsFinite ==
  ASSUME NEW n \in Nat, NEW S \in SUBSET (1 .. n)
  PROVE  /\ IsFiniteSet(S) /\ Cardinality(S) \in Nat
         /\ Cardinality(S \cup {n + 1}) = Cardinality(S) + 1
<1>1. IsFiniteSet(S)
  <2>1. IsFiniteSet(1 .. n)
    BY FS_Interval
  <2> QED
    BY <2>1, FS_Subset
<1>2. n + 1 \notin S
  OBVIOUS
<1> QED
  BY <1>1, <1>2, FS_AddElement, FS_CardinalityType

(* What appending does to a sequence, position by position.                *)
LEMMA AppendPositions ==
  ASSUME NEW t \in Seq(Outcome), NEW e \in Outcome
  PROVE  /\ Len(t) \in Nat
         /\ DOMAIN t = 1 .. Len(t)
         /\ Len(Append(t, e)) = Len(t) + 1
         /\ DOMAIN Append(t, e) = 1 .. (Len(t) + 1)
         /\ \A i \in 1 .. Len(t) : Append(t, e)[i] = t[i]
         /\ Append(t, e)[Len(t) + 1] = e
  BY AppendProperties, LenProperties

(* One more outcome is counted exactly once.                               *)
LEMMA CountedAppend ==
  ASSUME NEW t \in Seq(Outcome), NEW e \in Outcome, NEW o
  PROVE  Cardinality(Counted(Append(t, e), o))
           = Cardinality(Counted(t, o)) + (IF e.outcome = o THEN 1 ELSE 0)
<1> DEFINE n == Len(t)
           u == Append(t, e)
<1>1. /\ n \in Nat /\ DOMAIN t = 1 .. n /\ DOMAIN u = 1 .. (n + 1)
      /\ (\A i \in 1 .. n : u[i] = t[i]) /\ u[n + 1] = e
  BY AppendPositions
<1> HIDE DEF n, u
<1>2. /\ 1 .. (n + 1) = (1 .. n) \cup {n + 1}
      /\ n + 1 \notin 1 .. n
  BY <1>1
<1>3. Counted(t, o) \in SUBSET (1 .. n)
  BY <1>1 DEF Counted
<1>4. CASE e.outcome = o
  <2>1. Counted(u, o) = Counted(t, o) \cup {n + 1}
    BY <1>1, <1>2, <1>4 DEF Counted
  <2> QED
    BY <1>1, <1>3, <1>4, <2>1, PositionsFinite DEF u
<1>5. CASE e.outcome # o
  <2>1. Counted(u, o) = Counted(t, o)
    BY <1>1, <1>2, <1>5 DEF Counted
  <2>2. Cardinality(Counted(t, o)) \in Nat
    BY <1>1, <1>3, PositionsFinite
  <2> QED
    BY <1>5, <2>1, <2>2 DEF u
<1> QED
  BY <1>4, <1>5

(* A revert of a route lengthens its streak by one, a landing ends it, and *)
(* nothing else touches it.                                                *)
LEMMA StreakAppend ==
  ASSUME NEW t \in Seq(Outcome), NEW e \in Outcome, NEW route
  PROVE  /\ e.route = route /\ e.outcome = "Reverted" =>
              Cardinality(Streaking(Append(t, e), route))
                = Cardinality(Streaking(t, route)) + 1
         /\ e.route = route /\ e.outcome = "Landed" =>
              Cardinality(Streaking(Append(t, e), route)) = 0
         /\ e.route # route \/ e.outcome = "NotIncluded" =>
              Cardinality(Streaking(Append(t, e), route))
                = Cardinality(Streaking(t, route))
<1> DEFINE n == Len(t)
           u == Append(t, e)
<1>1. /\ n \in Nat /\ DOMAIN t = 1 .. n /\ DOMAIN u = 1 .. (n + 1)
      /\ Len(u) = n + 1
      /\ (\A i \in 1 .. n : u[i] = t[i]) /\ u[n + 1] = e
  BY AppendPositions
<1>2. Streaking(t, route) \in SUBSET (1 .. n)
  BY <1>1 DEF Streaking
<1>3. Streaking(t, route) = {i \in 1 .. n :
        /\ t[i].route = route /\ t[i].outcome = "Reverted"
        /\ \A j \in i .. n : ~(t[j].route = route /\ t[j].outcome = "Landed")}
  BY <1>1 DEF Streaking
<1>4. Streaking(u, route) = {i \in 1 .. (n + 1) :
        /\ u[i].route = route /\ u[i].outcome = "Reverted"
        /\ \A j \in i .. (n + 1) : ~(u[j].route = route /\ u[j].outcome = "Landed")}
  BY <1>1 DEF Streaking
<1> HIDE DEF n, u
<1>5. \A i \in 1 .. n : i .. (n + 1) = (i .. n) \cup {n + 1}
  BY <1>1
<1>6. \A i \in 1 .. n : \A j \in i .. n : u[j] = t[j]
  BY <1>1
<1>7. /\ 1 .. (n + 1) = (1 .. n) \cup {n + 1} /\ n + 1 \notin 1 .. n
      /\ (n + 1) .. (n + 1) = {n + 1}
  BY <1>1
<1>8. CASE e.route = route /\ e.outcome = "Reverted"
  <2>1. Streaking(u, route) = Streaking(t, route) \cup {n + 1}
    BY <1>1, <1>3, <1>4, <1>5, <1>6, <1>7, <1>8
  <2> QED
    BY <1>1, <1>2, <1>8, <2>1, PositionsFinite DEF u
<1>9. CASE e.route = route /\ e.outcome = "Landed"
  <2>1. Streaking(u, route) = {}
    BY <1>1, <1>4, <1>5, <1>7, <1>9
  <2> QED
    BY <1>9, <2>1, FS_EmptySet DEF u
<1>10. CASE e.route # route \/ e.outcome = "NotIncluded"
  <2>1. Streaking(u, route) = Streaking(t, route)
    BY <1>1, <1>3, <1>4, <1>5, <1>6, <1>7, <1>10
  <2> QED
    BY <1>10, <2>1 DEF u
<1> QED
  BY <1>8, <1>9, <1>10

-----------------------------------------------------------------------------
(* The record Resolve appends.                                             *)
Resolved == [route |-> routed, outcome |-> outcome, slot |-> slotCounter]

(* A resolved submission adds one outcome to the history.                  *)
LEMMA ResolveAppends ==
  ASSUME Typed, Resolve
  PROVE  /\ terminal \in Seq(Outcome) /\ Resolved \in Outcome
         /\ terminal' = Append(terminal, Resolved)
         /\ Resolved.route = routed /\ Resolved.outcome = outcome
         /\ Resolved.slot = slotCounter
         /\ outcome \in {"Landed", "Reverted", "NotIncluded"}
<1>1. outcome \in {"Landed", "Reverted", "NotIncluded"}
  BY DEF Resolve, Landed, Reverted, NotIncluded
<1>2. Resolved \in Outcome
  BY <1>1 DEF Resolved, Outcome, Typed, LoopTyped, Sub!SubmitOutcome
<1> QED
  BY <1>1, <1>2 DEF Resolve, Resolved, Typed, LoopTyped

(* Every step but Resolve leaves the history, the breakers and the records *)
(* offered alone.                                                          *)
LEMMA OnlyResolveDecides ==
  ASSUME [Next]_vars, ~Resolve
  PROVE  UNCHANGED <<terminal, breakerVars>> /\ Log!Offered' = Log!Offered
<1>1. CASE \E raw \in FeedSlot : SkipUpdate(raw) \/ DropCandidate(raw)
  BY <1>1, OfferedSteps DEF SkipUpdate, DropCandidate
<1>2. CASE \E raw \in FeedSlot, p \in Position, r \in FlashReserve : SubmitCandidate(raw, p, r)
  BY <1>2, OfferedSteps DEF SubmitCandidate
<1>3. CASE PathAnswers \/ SubmitEnds
  BY <1>3, OfferedSteps DEF PathAnswers, SubmitEnds, loopVars
<1>4. CASE WriterStep \/ FeedEnds \/ Shutdown \/ UNCHANGED vars
  BY <1>4, OfferedSteps DEF WriterStep, FeedEnds, Shutdown, vars, loopVars
<1> QED
  BY <1>1, <1>2, <1>3, <1>4 DEF Next

(* Without a history every streak is empty.                                *)
LEMMA InitStreak == Init => BreakerCountsStreak
<1> SUFFICES ASSUME Init, NEW r \in Brk!RouteKey PROVE consecutiveReverts[r] = Streak(r)
  BY DEF BreakerCountsStreak
<1>1. Streak(r) = Cardinality({})
  BY DEF Init, Streak, StreakAt
<1> QED
  BY <1>1, FS_EmptySet DEF Init, Brk!Init

(* The counter moves exactly as the streak does.                           *)
LEMMA NextStreak ==
  ASSUME Typed, BreakerCountsStreak, [Next]_vars
  PROVE  BreakerCountsStreak'
<1> SUFFICES ASSUME NEW r \in Brk!RouteKey PROVE consecutiveReverts'[r] = Streak(r)'
  BY DEF BreakerCountsStreak
<1>1. consecutiveReverts[r] = Streak(r)
  BY DEF BreakerCountsStreak
<1>2. CASE ~Resolve
  BY <1>1, <1>2, OnlyResolveDecides DEF breakerVars, Streak, StreakAt
<1>3. CASE Resolve
  <2>1. /\ terminal \in Seq(Outcome) /\ Resolved \in Outcome
        /\ terminal' = Append(terminal, Resolved)
        /\ Resolved.route = routed /\ Resolved.outcome = outcome
    BY <1>3, ResolveAppends
  <2>2. /\ Streak(r) = Cardinality(Streaking(terminal, r))
        /\ Streak(r)' = Cardinality(Streaking(Append(terminal, Resolved), r))
    BY <2>1 DEF Streak, StreakAt, Streaking
  <2>3. consecutiveReverts \in [Brk!RouteKey -> 0 .. MaxSlot] /\ routed \in Brk!RouteKey
    BY DEF Typed, LoopTyped, Brk!TypeOK
  <2>4. CASE Landed
    <3>1. /\ outcome = "Landed"
          /\ consecutiveReverts' = [consecutiveReverts EXCEPT ![routed] = 0]
      BY <2>4 DEF Landed, Brk!RecordSuccess
    <3> QED
      BY <1>1, <2>1, <2>2, <2>3, <3>1, StreakAppend
  <2>5. CASE Reverted
    <3>1. /\ outcome = "Reverted"
          /\ consecutiveReverts' = [consecutiveReverts EXCEPT ![routed] = @ + 1]
      BY <2>5 DEF Reverted, Brk!RecordRevert
    <3> QED
      BY <1>1, <2>1, <2>2, <2>3, <3>1, StreakAppend
  <2>6. CASE NotIncluded
    <3>1. outcome = "NotIncluded" /\ consecutiveReverts' = consecutiveReverts
      BY <2>6 DEF NotIncluded, breakerVars
    <3> QED
      BY <1>1, <2>1, <2>2, <3>1, StreakAppend
  <2> QED
    BY <1>3, <2>4, <2>5, <2>6 DEF Resolve
<1> QED
  BY <1>2, <1>3

(* A route's counter is the number of its reverts since it last landed,    *)
(* whatever happened to other routes and however many submissions nobody   *)
(* included lie between (the outcome arms of main.rs, record_revert and    *)
(* record_success of breakers.rs).                                         *)
THEOREM StreakIsCounted == Spec => []BreakerCountsStreak
  BY AlwaysTyped, InitStreak, NextStreak, PTL DEF Spec

\* The breaker's two maps agree, as the loop uses them.
MapsAgree ==
  \A r \in Brk!RouteKey : r \in outOfRotation <=> consecutiveReverts[r] >= RevertLimit

(* An outcome of one route moves both maps together.                       *)
LEMMA NextMapsAgree ==
  ASSUME Typed, MapsAgree, [Next]_vars
  PROVE  MapsAgree'
<1> SUFFICES ASSUME NEW r \in Brk!RouteKey
             PROVE  r \in outOfRotation' <=> consecutiveReverts'[r] >= RevertLimit
  BY DEF MapsAgree, Brk!RouteKey
<1>1. BreakerStep
  BY ComponentSteps
<1>2. /\ consecutiveReverts \in [Brk!RouteKey -> 0 .. MaxSlot] /\ routed \in Brk!RouteKey
      /\ RevertLimit \in Nat \ {0} /\ MaxSlot \in Nat
  BY LimitAssumption, SlotAssumption DEF Typed, LoopTyped, Brk!TypeOK
<1>3. r \in outOfRotation <=> consecutiveReverts[r] >= RevertLimit
  BY DEF MapsAgree
<1>4. CASE Brk!RecordSuccess(routed)
  BY <1>2, <1>3, <1>4 DEF Brk!RecordSuccess
<1>5. CASE Brk!RecordRevert(routed, RevertLimit)
  <2>1. consecutiveReverts'[routed] = consecutiveReverts[routed] + 1
    BY <1>2, <1>5 DEF Brk!RecordRevert
  <2>2. CASE r = routed
    BY <1>2, <1>3, <1>5, <2>1, <2>2 DEF Brk!RecordRevert
  <2>3. CASE r # routed
    BY <1>2, <1>3, <1>5, <2>3 DEF Brk!RecordRevert
  <2> QED
    BY <2>2, <2>3
<1>6. CASE UNCHANGED breakerVars
  BY <1>3, <1>6 DEF breakerVars
<1> QED
  BY <1>1, <1>4, <1>5, <1>6 DEF BreakerStep

(* A route on a streak of reverts as long as the limit is out of rotation, *)
(* and only a route that had one is, for histories of every length and any *)
(* interleaving of routes (record_revert, record_success).                 *)
THEOREM LockoutIsEarned == Spec => []LockoutFollowsReverts
<1>1. Init => MapsAgree
  <2>1. ~(0 >= RevertLimit)
    BY LimitAssumption, SlotAssumption
  <2> QED
    BY <2>1 DEF Init, Brk!Init, MapsAgree
<1>2. Spec => []MapsAgree
  BY <1>1, AlwaysTyped, NextMapsAgree, PTL DEF Spec
<1>3. Typed /\ MapsAgree /\ BreakerCountsStreak => LockoutFollowsReverts
  <2> SUFFICES ASSUME Typed, MapsAgree, BreakerCountsStreak, NEW r \in Brk!RouteKey
               PROVE  /\ Streak(r) >= RevertLimit => r \in outOfRotation
                      /\ r \in outOfRotation => HitLimit(r)
    BY DEF LockoutFollowsReverts
  <2>1. r \in outOfRotation <=> Streak(r) >= RevertLimit
    BY DEF MapsAgree, BreakerCountsStreak
  <2>2. Len(terminal) \in 0 .. Len(terminal)
    BY DEF Typed, LoopTyped
  <2> QED
    BY <2>1, <2>2 DEF HitLimit, Streak
<1> QED
  BY <1>2, <1>3, AlwaysTyped, StreakIsCounted, PTL

-----------------------------------------------------------------------------
\* The slots of decided submissions are behind the one under way, so that
\* no two records share a slot.
Behind ==
  \A i \in DOMAIN terminal :
    /\ terminal[i].slot <= slotCounter
    /\ pc = "submitting" => terminal[i].slot < slotCounter

(* Without a history no slot is decided.                                   *)
LEMMA InitBehind == Init => Behind
  BY DEF Init, Behind

(* Decided slots stay behind the current one.                              *)
LEMMA NextBehind ==
  ASSUME Typed, Behind, [Next]_vars
  PROVE  Behind'
<1>1. slotCounter \in Nat /\ DOMAIN terminal = 1 .. Len(terminal) /\ Len(terminal) \in Nat
  BY LenProperties, SlotAssumption DEF Typed, LoopTyped
<1>2. \A i \in DOMAIN terminal : terminal[i].slot \in Nat
  <2>1. \A i \in DOMAIN terminal : terminal[i] \in Outcome
    BY <1>1, ElementOfSeq DEF Typed, LoopTyped
  <2> QED
    BY <2>1, SlotAssumption DEF Outcome
<1>3. ASSUME NEW raw \in FeedSlot, NextSlot(raw) <= MaxSlot, slotCounter' = NextSlot(raw),
             terminal' = terminal
      PROVE  Behind'
  <2>1. slotCounter' \in Nat /\ slotCounter' > slotCounter
    BY <1>3, NextSlotForward, SlotAssumption DEF Typed
  <2> QED
    BY <1>1, <1>2, <1>3, <2>1 DEF Behind
<1>4. CASE \E raw \in FeedSlot : SkipUpdate(raw) \/ DropCandidate(raw)
  BY <1>3, <1>4 DEF SkipUpdate, DropCandidate, Receive
<1>5. CASE \E raw \in FeedSlot, p \in Position, r \in FlashReserve : SubmitCandidate(raw, p, r)
  BY <1>3, <1>5 DEF SubmitCandidate
<1>6. CASE Resolve
  <2>1. /\ DOMAIN terminal' = 1 .. (Len(terminal) + 1)
        /\ \A i \in 1 .. Len(terminal) : terminal'[i] = terminal[i]
        /\ terminal'[Len(terminal) + 1].slot = slotCounter
    BY <1>6, ResolveAppends, AppendPositions
  <2>2. pc' = "recv" /\ slotCounter' = slotCounter
    BY <1>6 DEF Resolve
  <2> QED
    BY <1>1, <2>1, <2>2 DEF Behind
<1>7. CASE UNCHANGED <<terminal, slotCounter>> /\ (pc' = "submitting" => pc = "submitting")
  BY <1>7 DEF Behind
<1> QED
  BY <1>4, <1>5, <1>6, <1>7
  DEF Next, vars, loopVars, PathAnswers, SubmitEnds, WriterStep, FeedEnds, Shutdown

(* Before the first attempt there is nothing to account for.               *)
LEMMA InitAccounted == Init => AttemptsAccountedFor
<1> SUFFICES ASSUME Init PROVE AttemptsAccountedFor
  OBVIOUS
<1>1. terminal = <<>> /\ DOMAIN terminal = {} /\ Len(terminal) = 0 /\ pc = "recv"
  BY DEF Init
<1>2. Count("Landed") = 0 /\ Count("Reverted") = 0
  BY <1>1, FS_EmptySet DEF Count
<1>3. Log!Offered = {} /\ Cardinality(Log!Offered) = 0
  BY FS_EmptySet DEF Init, Log!Init, Log!Offered
<1>4. dash.attempted = 0 /\ dash.landed = 0 /\ dash.reverted = 0
  BY DEF Init
<1>5. Log!Offered = {terminal[i].slot : i \in DOMAIN terminal}
  BY <1>1, <1>3
<1> QED
  BY <1>1, <1>2, <1>3, <1>4, <1>5 DEF AttemptsAccountedFor

(* The dashboard's counters and the log's offers move with the history.    *)
LEMMA NextAccounted ==
  ASSUME Typed, Behind, AttemptsAccountedFor, [Next]_vars
  PROVE  AttemptsAccountedFor'
<1>1. dash \in Dashboard /\ terminal \in Seq(Outcome) /\ Len(terminal) \in Nat
  BY LenProperties DEF Typed, LoopTyped
<1>2. /\ dash.attempted \in Nat /\ dash.landed \in Nat /\ dash.reverted \in Nat
  BY <1>1 DEF Dashboard
<1>3. CASE ~Resolve
  <2>1. terminal' = terminal /\ Log!Offered' = Log!Offered
    BY <1>3, OnlyResolveDecides
  <2>2. Count("Landed")' = Count("Landed") /\ Count("Reverted")' = Count("Reverted")
    BY <2>1 DEF Count
  <2>3. /\ dash'.landed = dash.landed /\ dash'.reverted = dash.reverted
        /\ dash'.attempted = Len(terminal) + (IF pc' = "submitting" THEN 1 ELSE 0)
    <3>1. dash.attempted = Len(terminal) + (IF pc = "submitting" THEN 1 ELSE 0)
      BY DEF AttemptsAccountedFor
    <3>2. CASE \E raw \in FeedSlot : SkipUpdate(raw) \/ DropCandidate(raw)
      BY <1>1, <3>1, <3>2 DEF SkipUpdate, DropCandidate, Receive, Dashboard
    <3>3. CASE \E raw \in FeedSlot, p \in Position, r \in FlashReserve : SubmitCandidate(raw, p, r)
      BY <1>1, <1>2, <3>1, <3>3 DEF SubmitCandidate, Dashboard
    <3>4. CASE dash' = dash /\ (pc' = "submitting" <=> pc = "submitting")
      BY <3>1, <3>4
    <3> QED
      BY <1>3, <3>2, <3>3, <3>4
      DEF Next, vars, loopVars, PathAnswers, SubmitEnds, WriterStep, FeedEnds, Shutdown
  <2> QED
    BY <2>1, <2>2, <2>3 DEF AttemptsAccountedFor
<1>4. CASE Resolve
  <2> DEFINE n == Len(terminal)
  <2>1. /\ Resolved \in Outcome /\ terminal' = Append(terminal, Resolved)
        /\ Resolved.outcome = outcome /\ Resolved.slot = slotCounter
    BY <1>4, ResolveAppends
  <2>2. /\ DOMAIN terminal = 1 .. n /\ DOMAIN terminal' = 1 .. (n + 1) /\ Len(terminal') = n + 1
        /\ \A i \in 1 .. n : terminal'[i] = terminal[i]
        /\ terminal'[n + 1].slot = slotCounter
    BY <1>1, <2>1, AppendPositions
  <2>3. pc = "submitting" /\ pc' = "recv"
    BY <1>4 DEF Resolve
  <2>4. \A o : Count(o)' = Count(o) + (IF outcome = o THEN 1 ELSE 0)
    <3> TAKE o
    <3>1. /\ Count(o) = Cardinality(Counted(terminal, o))
          /\ Count(o)' = Cardinality(Counted(Append(terminal, Resolved), o))
      BY <2>1 DEF Count, Counted
    <3> QED
      BY <1>1, <2>1, <3>1, CountedAppend
  <2>5. /\ dash'.attempted = dash.attempted
        /\ dash'.landed = dash.landed + (IF outcome = "Landed" THEN 1 ELSE 0)
        /\ dash'.reverted = dash.reverted + (IF outcome = "Reverted" THEN 1 ELSE 0)
    BY <1>1, <1>2, <1>4 DEF Resolve, Landed, Reverted, NotIncluded, Dashboard
  <2>6. dash'.attempted = Len(terminal') + (IF pc' = "submitting" THEN 1 ELSE 0)
    <3>1. dash.attempted = n + 1
      BY <2>3 DEF AttemptsAccountedFor
    <3>2. (IF pc' = "submitting" THEN 1 ELSE 0) = 0
      BY <2>3
    <3> HIDE DEF n
    <3> QED
      BY <1>2, <2>2, <2>5, <3>1, <3>2
  <2>7. dash'.landed = Count("Landed")' /\ dash'.reverted = Count("Reverted")'
    BY <2>4, <2>5 DEF AttemptsAccountedFor
  <2>8. Log!Offered' = Log!Offered \cup {slotCounter}
    BY <1>4, OfferedSteps DEF Resolve
  <2>9. 1 .. (n + 1) = (1 .. n) \cup {n + 1}
    BY <1>1
  <2>10. Log!Offered' = {terminal'[i].slot : i \in DOMAIN terminal'}
    <3>1. Log!Offered = {terminal[i].slot : i \in 1 .. n}
      BY <2>2 DEF AttemptsAccountedFor
    <3> HIDE DEF n
    <3>2. {terminal'[i].slot : i \in 1 .. (n + 1)}
            = {terminal[i].slot : i \in 1 .. n} \cup {slotCounter}
      BY <2>2, <2>9
    <3> QED
      BY <2>2, <2>8, <3>1, <3>2
  <2>11. slotCounter \notin Log!Offered
    <3>1. slotCounter \in Nat
      BY SlotAssumption DEF Typed, LoopTyped
    <3>2. \A i \in DOMAIN terminal : terminal[i].slot # slotCounter
      BY <2>3, <3>1 DEF Behind
    <3> QED
      BY <3>2 DEF AttemptsAccountedFor
  <2>12. IsFiniteSet(Log!Offered)
    <3>1. Log!Offered \subseteq 0 .. MaxSlot
      BY DEF Typed, Log!TypeOK, Log!Offered
    <3>2. IsFiniteSet(0 .. MaxSlot)
      BY SlotAssumption, FS_Interval
    <3> QED
      BY <3>1, <3>2, FS_Subset
  <2>13. Cardinality(Log!Offered') = Len(terminal')
    BY <2>2, <2>8, <2>11, <2>12, FS_AddElement DEF AttemptsAccountedFor
  <2> QED
    BY <2>6, <2>7, <2>10, <2>13 DEF AttemptsAccountedFor
<1> QED
  BY <1>3, <1>4

(* Every attempt has exactly one terminal outcome, counted once on the     *)
(* dashboard and offered to the log under a slot of its own, except the    *)
(* one under way (the submission and its outcome arms in main.rs).         *)
THEOREM AttemptsAreAccounted == Spec => []AttemptsAccountedFor
<1>1. Spec => []Behind
  BY AlwaysTyped, InitBehind, NextBehind, PTL DEF Spec
<1> QED
  BY <1>1, AlwaysTyped, InitAccounted, NextAccounted, PTL DEF Spec

-----------------------------------------------------------------------------
(* The loop as a user of its components.                                   *)

(* A record is offered under a slot later than every slot offered before.  *)
LEMMA RecordIsFresh ==
  ASSUME Typed, Behind, AttemptsAccountedFor, pc = "submitting"
  PROVE  Log!Fresh(slotCounter)
<1>1. slotCounter \in 0 .. MaxSlot
  BY DEF Typed, LoopTyped
<1>2. \A q \in Log!Offered : q < slotCounter
  BY DEF Behind, AttemptsAccountedFor
<1> QED
  BY <1>1, <1>2 DEF Log!Fresh

(* The steps the engine takes are steps its components offer.              *)
LEMMA NextComponents ==
  ASSUME Typed, Behind, AttemptsAccountedFor, [Next]_vars
  PROVE  [Brk!Next]_(Brk!vars) /\ [Sub!Next]_(Sub!vars) /\ [Log!Next]_(Log!vars)
<1>1. BreakerStep /\ SubmitterStep /\ LogStep
  BY ComponentSteps
<1>2. [Brk!Next]_(Brk!vars)
  <2>1. routed \in Brk!RouteKey
    BY DEF Typed, LoopTyped
  <2> QED
    BY <1>1, <2>1 DEF BreakerStep, Brk!Next, Brk!vars, breakerVars
<1>3. [Sub!Next]_(Sub!vars)
  BY <1>1 DEF SubmitterStep, Sub!Next, Sub!vars, submitVars
<1>4. [Log!Next]_(Log!vars)
  <2>1. CASE Resolve
    <3>1. Log!TryRecord(slotCounter) /\ Log!Fresh(slotCounter)
      BY <2>1, RecordIsFresh DEF Resolve
    <3>2. slotCounter \in 0 .. MaxSlot
      BY DEF Typed, LoopTyped
    <3> QED
      BY <3>1, <3>2 DEF Log!Next
  <2>2. CASE WriterStep
    BY <2>2 DEF WriterStep, Log!TaskStep, Log!Next
  <2>3. CASE FeedEnds
    BY <2>3 DEF FeedEnds, Log!Next
  <2>4. CASE Shutdown
    BY <2>4 DEF Shutdown, Log!Next
  <2>5. CASE UNCHANGED logVars
    BY <2>5 DEF logVars, Log!vars
  <2> QED
    BY <2>1, <2>2, <2>3, <2>4, <2>5
    DEF Next, vars, SkipUpdate, DropCandidate, SubmitCandidate, PathAnswers, SubmitEnds
<1> QED
  BY <1>2, <1>3, <1>4

(* The engine uses its components as they are meant to be used: seen from  *)
(* the breakers, from the submitter and from the log writer, every         *)
(* behaviour of the loop is one of theirs.  In particular submit() is      *)
(* never called while a call is pending, its result is taken once, and     *)
(* records reach the log channel once each, in slot order (main.rs).       *)
THEOREM EngineImplementsComponents == Spec => Brk!Spec /\ Sub!Spec /\ Log!Spec
<1>1. Init => Brk!Init /\ Sub!Init /\ Log!Init
  BY DEF Init
<1>2. Spec => []Behind
  BY AlwaysTyped, InitBehind, NextBehind, PTL DEF Spec
<1>3. Spec => [](Typed /\ Behind /\ AttemptsAccountedFor)
  BY <1>2, AlwaysTyped, AttemptsAreAccounted, PTL
<1> QED
  BY <1>1, <1>3, NextComponents, PTL DEF Spec, Brk!Spec, Sub!Spec, Log!Spec
=============================================================================
