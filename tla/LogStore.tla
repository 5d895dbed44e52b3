------------------------------ MODULE LogStore ------------------------------
(***************************************************************************)
(* The liquidation log's file through both of its writers                  *)
(* (crates/store/src/liquidation_log.rs): the daemon's writer task fills   *)
(* it while the daemon runs; once the task has ended, a LiquidationLog     *)
(* opens the same file, loads what the task left there and appends to it.  *)
(***************************************************************************)
EXTENDS AsyncLiquidationWriter

CONSTANT WriterRecord  \* the records the daemon makes, all older than the log's

ASSUME WriterRecordAssumption ==
  /\ WriterRecord \subseteq Record /\ Record \ WriterRecord # {}
  /\ \A w \in WriterRecord, r \in Record \ WriterRecord : w < r

VARIABLES log, mem, next, acked, power

Log == INSTANCE LiquidationLog

logVars == <<log, mem, next, acked, power>>
storeVars == <<vars, logVars>>

\* The oldest record the reopened log is given.
FirstOfLog == CHOOSE r \in Record \ WriterRecord :
                \A q \in Record \ WriterRecord : r <= q

StoreInit ==
  /\ Init
  /\ log = "closed" /\ mem = <<>> /\ acked = {} /\ power = TRUE
  /\ next = FirstOfLog

WriterStep ==
  /\ \/ \E r \in WriterRecord : Fresh(r) /\ TryRecord(r)
     \/ \E r \in WriterRecord : Fresh(r) /\ RecordAwait(r)
     \/ DropSender
     \/ RuntimeShutdown
     \/ TaskStep
  /\ UNCHANGED logVars

LogStep ==
  /\ task = "ended"
  /\ Log!Next
  /\ UNCHANGED <<sender, queue, task, hand, accepted, refused, lost>>

StoreNext == WriterStep \/ LogStep

(* A spawned task is polled as long as the runtime lives, and a record in  *)
(* the channel wakes it.                                                   *)
StoreSpec ==
  StoreInit /\ [][StoreNext]_storeVars /\ WF_storeVars(TaskStep /\ UNCHANGED logVars)

-----------------------------------------------------------------------------
(* Up to a power loss, every record the writer accepted is in exactly one  *)
(* place, through the shutdown and whatever the reopened log appends.      *)
NoRecordVanishes == power => EachRecordInOnePlace

(* Up to a power loss, and across failed appends, kills and restarts, what *)
(* the task wrote and what append() acknowledged stays in the file, and    *)
(* whenever the log could be opened it is in memory too: open() resumes    *)
(* the log, the daemon's records included.                                 *)
RecordsAreKept ==
  power =>
    /\ Log!AckedIsKept
    /\ log # "closed" => \A r \in Stored : \E i \in DOMAIN mem : mem[i] = r

(* The open log lists records in the order they were made, the task's      *)
(* before its own and each once, whatever mixture of failed writes, kills, *)
(* power losses and reopenings came before.                                *)
LogInAppendOrder == Log!LogInAppendOrder

(* open() fails for good only after an append, of either writer, that was  *)
(* cut off half-way.                                                       *)
UnreadableOnlyAfterCutAppend == Log!UnreadableOnlyAfterCutAppend
=============================================================================
