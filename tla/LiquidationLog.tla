--------------------------- MODULE LiquidationLog ---------------------------
(***************************************************************************)
(* LiquidationLog (crates/store/src/liquidation_log.rs): records in memory *)
(* and, one JSON line each, in a backing file that open() reads back after *)
(* a restart.                                                              *)
(*                                                                         *)
(* append() writes the text, then the newline, then pushes to memory and   *)
(* returns Ok; any write may fail (Err, nothing pushed) and the process    *)
(* may be killed between any two of these.  Nothing calls fsync, so a      *)
(* power loss may take any suffix of the file.                             *)
(***************************************************************************)
EXTENDS JsonlFile

VARIABLES
  log,    \* "closed", or the phase of the open log: "idle", "text", "newline"
  mem,    \* LiquidationLog::records
  file,   \* the backing file
  next,   \* the record being, or next to be, appended
  acked,  \* records whose append() returned Ok, in any run of the program
  power   \* the machine has never lost power

vars == <<log, mem, file, next, acked, power>>

Init ==
  /\ log = "closed"
  /\ mem = <<>>
  /\ file = <<>>
  /\ next = 1
  /\ acked = {}
  /\ power = TRUE

-----------------------------------------------------------------------------
\* One malformed line makes the whole open() fail, and the log stays closed.
Open ==
  /\ log = "closed"
  /\ ~Malformed(file)
  /\ mem' = Parsed(file)
  /\ log' = "idle"
  /\ UNCHANGED <<file, next, acked, power>>

\* append() serialises the record and opens the file in append mode.
BeginAppend ==
  /\ log = "idle"
  /\ next \in Record
  /\ log' = "text"
  /\ UNCHANGED <<mem, file, next, acked, power>>

\* Plausible bug: the file is opened for writing, not for appending.
WriteTextTruncating ==
  /\ log = "text"
  /\ file' = <<Line(next)>>
  /\ log' = "newline"
  /\ UNCHANGED <<mem, next, acked, power>>

WriteText ==
  /\ log = "text"
  /\ file' = Append(file, Line(next))
  /\ log' = "newline"
  /\ UNCHANGED <<mem, next, acked, power>>

\* Plausible bug: append() returns Ok before the newline is written.
WriteNewlineEarly ==
  /\ log = "newline"
  /\ file' \in {file, Append(file, Newline)}
  /\ mem' = Append(mem, next)
  /\ acked' = acked \cup {next}
  /\ next' = next + 1
  /\ log' = "idle"
  /\ UNCHANGED power

WriteNewline ==
  /\ log = "newline"
  /\ file' = Append(file, Newline)
  /\ mem' = Append(mem, next)
  /\ acked' = acked \cup {next}
  /\ next' = next + 1
  /\ log' = "idle"
  /\ UNCHANGED power

\* A write fails: append() returns Err and the caller gives the record up.
AppendFails ==
  /\ log \in {"text", "newline"}
  /\ file' \in IF log = "text" THEN {file, Append(file, Torn(next))} ELSE {file}
  /\ log' = "idle"
  /\ next' = next + 1
  /\ UNCHANGED <<mem, acked, power>>

\* The process is killed; a write under way may have got part of its text out.
Kill ==
  /\ log # "closed"
  /\ file' \in IF log = "text" THEN {file, Append(file, Torn(next))} ELSE {file}
  /\ mem' = <<>>
  /\ log' = "closed"
  /\ next' = IF log = "idle" THEN next ELSE next + 1
  /\ UNCHANGED <<acked, power>>

\* The machine loses power; what the kernel had not written back is gone.
PowerLoss ==
  /\ log # "closed"
  /\ \E k \in 0 .. Len(file) : file' = SubSeq(file, 1, k)
  /\ mem' = <<>>
  /\ log' = "closed"
  /\ next' = IF log = "idle" THEN next ELSE next + 1
  /\ power' = FALSE
  /\ UNCHANGED acked

Next ==
  \/ Open
  \/ BeginAppend
  \/ WriteText
  \/ WriteNewline
  \/ AppendFails
  \/ Kill
  \/ PowerLoss

Spec == Init /\ [][Next]_vars

-----------------------------------------------------------------------------
(* Across failed appends, kills and restarts, but not a power loss, an     *)
(* acknowledged record stays in the file, and whenever the log could be    *)
(* opened it is in memory too: open() resumes the log.                     *)
AckedIsKept ==
  power => /\ acked \subseteq Written(file)
           /\ log # "closed" => \A r \in acked : \E i \in DOMAIN mem : mem[i] = r

(* The open log lists records in the order they were appended, each once,  *)
(* whatever mixture of failed appends, kills, power losses and reopenings  *)
(* came before.                                                            *)
LogInAppendOrder ==
  \A i, j \in DOMAIN mem : i < j => mem[i] < mem[j]

(* open() fails for good only after an append that was cut off half-way:   *)
(* a file no power loss touched that does not parse holds a record with no *)
(* newline behind it, and that record's append() never returned Ok.        *)
UnreadableOnlyAfterCutAppend ==
  power /\ Malformed(file) =>
    \E i \in DOMAIN file :
      /\ file[i].kind # "nl" /\ file[i].rec \notin acked
      /\ i < Len(file) => file[i + 1].kind # "nl"
=============================================================================
