----------------------- MODULE AsyncLiquidationWriter -----------------------
(***************************************************************************)
(* AsyncLiquidationWriter (crates/store/src/liquidation_log.rs): the event *)
(* loop offers each record to a bounded channel without waiting; a spawned *)
(* task takes them off one at a time and appends each to the log file,     *)
(* swallowing every I/O error.                                             *)
(*                                                                         *)
(* Dropping the writer closes the channel: the task still drains what is   *)
(* queued, then ends.  When main returns, its locals are dropped and then  *)
(* the runtime is shut down: the task is dropped where it awaits the next  *)
(* record, and what is queued goes with it.                                *)
(***************************************************************************)
EXTENDS JsonlFile

CONSTANTS
  Capacity,   \* buffer_size of the channel
  IoMayFail   \* whether opening or writing the file may fail

ASSUME CapacityAssumption == Capacity \in Nat \ {0} /\ IoMayFail \in BOOLEAN

VARIABLES
  sender,    \* "open", or "dropped"
  queue,     \* the channel
  task,      \* the writer task: "recv", "text", "newline", "ended"
  hand,      \* the record the task is writing (meaningful in "text", "newline")
  file,      \* the log file
  accepted,  \* records try_record or record took
  refused,   \* records try_record returned CapacityExceeded for
  lost       \* accepted records an I/O error or a shutdown took

vars == <<sender, queue, task, hand, file, accepted, refused, lost>>

TypeOK ==
  /\ sender \in {"open", "dropped"}
  /\ queue \in Seq(Record) /\ Len(queue) <= Capacity
  /\ task \in {"recv", "text", "newline", "ended"}
  /\ hand \in Record \cup {0}
  /\ file \in Seq(Piece)
  /\ accepted \in SUBSET Record
  /\ refused \in SUBSET Record
  /\ lost \in SUBSET Record

Init ==
  /\ sender = "open"
  /\ queue = <<>>
  /\ task = "recv"
  /\ hand = 0
  /\ file = <<>>
  /\ accepted = {}
  /\ refused = {}
  /\ lost = {}

Queued == {queue[i] : i \in DOMAIN queue}

-----------------------------------------------------------------------------
(* The event loop's side.                                                  *)

Send(r) ==
  /\ Len(queue) < Capacity
  /\ queue' = Append(queue, r)
  /\ accepted' = accepted \cup {r}
  /\ UNCHANGED <<sender, task, hand, file, refused, lost>>

Refuse(r) ==
  /\ Len(queue) >= Capacity
  /\ refused' = refused \cup {r}
  /\ UNCHANGED <<sender, queue, task, hand, file, accepted, lost>>

\* try_record: never waits.
TryRecord(r) ==
  /\ sender = "open"
  /\ Send(r) \/ Refuse(r)

\* record().await: waits for room.
RecordAwait(r) ==
  /\ sender = "open"
  /\ Send(r)

DropSender ==
  /\ sender = "open"
  /\ sender' = "dropped"
  /\ UNCHANGED <<queue, task, hand, file, accepted, refused, lost>>

-----------------------------------------------------------------------------
(* The task's side.                                                        *)

\* Plausible bug: the record is copied out but left in the channel.
RecvPeek ==
  /\ task = "recv"
  /\ queue # <<>>
  /\ hand' = Head(queue)
  /\ task' = "text"
  /\ UNCHANGED <<sender, queue, file, accepted, refused, lost>>

\* Plausible bug: the channel is read from its newest end.
RecvNewest ==
  /\ task = "recv"
  /\ queue # <<>>
  /\ hand' = queue[Len(queue)]
  /\ queue' = SubSeq(queue, 1, Len(queue) - 1)
  /\ task' = "text"
  /\ UNCHANGED <<sender, file, accepted, refused, lost>>

Recv ==
  /\ task = "recv"
  /\ queue # <<>>
  /\ hand' = Head(queue)
  /\ queue' = Tail(queue)
  /\ task' = "text"
  /\ UNCHANGED <<sender, file, accepted, refused, lost>>

WriteText ==
  /\ task = "text"
  /\ file' = Append(file, Line(hand))
  /\ task' = "newline"
  /\ UNCHANGED <<sender, queue, hand, accepted, refused, lost>>

WriteNewline ==
  /\ task = "newline"
  /\ file' = Append(file, Newline)
  /\ task' = "recv"
  /\ UNCHANGED <<sender, queue, hand, accepted, refused, lost>>

\* Opening the file, or writing the text, fails: the error is swallowed.
TextFails ==
  /\ IoMayFail
  /\ task = "text"
  /\ file' \in {file, Append(file, Torn(hand))}
  /\ lost' = lost \cup {hand}
  /\ task' = "recv"
  /\ UNCHANGED <<sender, queue, hand, accepted, refused>>

NewlineFails ==
  /\ IoMayFail
  /\ task = "newline"
  /\ task' = "recv"
  /\ UNCHANGED <<sender, queue, hand, file, accepted, refused, lost>>

\* Plausible bug: the task ends as soon as the sender is gone.
EndOfChannelEager ==
  /\ task = "recv"
  /\ sender = "dropped"
  /\ task' = "ended"
  /\ UNCHANGED <<sender, queue, hand, file, accepted, refused, lost>>

\* recv() returns None: every sender is gone and the channel is empty.
EndOfChannel ==
  /\ task = "recv"
  /\ sender = "dropped"
  /\ queue = <<>>
  /\ task' = "ended"
  /\ UNCHANGED <<sender, queue, hand, file, accepted, refused, lost>>

\* main returns: the runtime drops the task at its await point.
RuntimeShutdown ==
  /\ task = "recv"
  /\ sender = "dropped"
  /\ task' = "ended"
  /\ lost' = lost \cup Queued
  /\ queue' = <<>>
  /\ UNCHANGED <<sender, hand, file, accepted, refused>>

TaskStep == Recv \/ WriteText \/ WriteNewline \/ TextFails \/ NewlineFails
              \/ EndOfChannel

-----------------------------------------------------------------------------
\* Records are offered in the order they are made, each once.
Offered == accepted \cup refused
Fresh(r) == r \in Record /\ \A q \in Offered : q < r

Next ==
  \/ \E r \in Record : Fresh(r) /\ TryRecord(r)
  \/ \E r \in Record : Fresh(r) /\ RecordAwait(r)
  \/ DropSender
  \/ Recv
  \/ WriteText
  \/ WriteNewline
  \/ TextFails
  \/ NewlineFails
  \/ EndOfChannel
  \/ RuntimeShutdown

Spec == Init /\ [][Next]_vars

(* A spawned task is polled as long as the runtime lives, and a record in  *)
(* the channel wakes it.                                                   *)
FairSpec == Spec /\ WF_vars(TaskStep)

-----------------------------------------------------------------------------
InHand == IF task = "text" THEN {hand} ELSE {}

\* The file may hold records of other writers too.
Stored == Written(file) \cap Offered

(* Every accepted record is in exactly one place: waiting in the channel,  *)
(* in the task's hand, written, or lost to an I/O error or to a shutdown   *)
(* that did not wait for the task.  None is duplicated or vanishes.        *)
EachRecordInOnePlace ==
  /\ accepted = Queued \cup InHand \cup Stored \cup lost
  /\ Queued \cap (InHand \cup Stored \cup lost) = {}
  /\ InHand \cap (Stored \cup lost) = {}
  /\ Stored \cap lost = {}
  /\ Cardinality(Queued) = Len(queue)

(* A writer that is dropped, and not shut down with its runtime, drains:   *)
(* the task ends with every accepted record written or lost to an error.   *)
DropDrains ==
  sender = "dropped" /\ task # "ended" ~> task = "ended" /\ accepted = Stored \cup lost
=============================================================================
