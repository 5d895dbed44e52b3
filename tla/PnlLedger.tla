----------------------------- MODULE PnlLedger ------------------------------
(***************************************************************************)
(* PnlLedger (crates/treasury/src/pnl_ledger.rs): the realized profits the *)
(* drawdown breaker sums over a window of slots.  Old entries are pruned   *)
(* from the front, and the entries are saved to disk and restored after a  *)
(* restart.                                                                *)
(*                                                                         *)
(* snapshot() writes with fs::write, which empties the file and then       *)
(* fills it; the process may be killed, or the write may fail, in between. *)
(* restore() fails on what it then finds, and the program starts with a    *)
(* new ledger.                                                             *)
(*                                                                         *)
(* Outcomes may be recorded in any order of slots; sums and prunes are     *)
(* made at the current slot.  Amounts are integers.                        *)
(***************************************************************************)
EXTENDS Integers, Sequences, Functions

CONSTANTS
  Net,         \* realized outcomes
  Window,      \* window_slots
  MaxSlot,     \* bound on the current slot
  MaxEntries   \* bound on the outcomes recorded

VARIABLES
  process,   \* "up", "saving" inside snapshot(), or "down"
  now,       \* the current slot
  entries,   \* PnlLedger::entries
  recorded,  \* every outcome recorded that no restart has lost
  disk       \* the snapshot: [state, entries, recorded]

vars == <<process, now, entries, recorded, disk>>

NoSnapshot(s) == [state |-> s, entries |-> <<>>, recorded |-> <<>>]

Init ==
  /\ process = "up"
  /\ now = 0
  /\ entries = <<>>
  /\ recorded = <<>>
  /\ disk = NoSnapshot("absent")

-----------------------------------------------------------------------------
\* current_slot.saturating_sub(window_slots)
Cutoff(current) == IF current > Window THEN current - Window ELSE 0

WindowedSum(s, current) ==
  SumFunction([i \in DOMAIN s |->
    IF s[i].slot >= Cutoff(current) /\ s[i].slot <= current THEN s[i].net ELSE 0])

NewSlot ==
  /\ now < MaxSlot
  /\ now' = now + 1
  /\ UNCHANGED <<process, entries, recorded, disk>>

Record(slot, net) ==
  /\ process = "up"
  /\ Len(recorded) < MaxEntries
  /\ entries' = Append(entries, [slot |-> slot, net |-> net])
  /\ recorded' = Append(recorded, [slot |-> slot, net |-> net])
  /\ UNCHANGED <<process, now, disk>>

\* Plausible bug: the loss limit is compared without its sign.
DrawdownBreachedUnsigned(sum, limit) == sum <= limit

\* max_drawdown_usd is a magnitude, whatever sign it is configured with.
DrawdownBreached(sum, limit) == sum <= 0 - (IF limit < 0 THEN 0 - limit ELSE limit)

\* Plausible bug: the entry at the edge of the window is pruned too.
OldInclusive(e, current) == e.slot <= Cutoff(current)

Old(e, current) == e.slot < Cutoff(current)

\* prune_older_than: pop the front while it is old.
PruneOlderThan ==
  /\ process = "up"
  /\ \E k \in 0 .. Len(entries) :
       /\ \A i \in 1 .. k : Old(entries[i], now)
       /\ k < Len(entries) => ~Old(entries[k + 1], now)
       /\ entries' = SubSeq(entries, k + 1, Len(entries))
  /\ UNCHANGED <<process, now, recorded, disk>>

\* snapshot(): fs::write empties the file ...
SnapshotTruncate ==
  /\ process = "up"
  /\ process' = "saving"
  /\ disk' = NoSnapshot("torn")
  /\ UNCHANGED <<now, entries, recorded>>

\* ... and writes the entries.
SnapshotWrite ==
  /\ process = "saving"
  /\ process' = "up"
  /\ disk' = [state |-> "whole", entries |-> entries, recorded |-> recorded]
  /\ UNCHANGED <<now, entries, recorded>>

\* ... or cannot: snapshot() returns the error and leaves the file empty.
SnapshotFails ==
  /\ process = "saving"
  /\ process' = "up"
  /\ UNCHANGED <<now, entries, recorded, disk>>

Kill ==
  /\ process # "down"
  /\ process' = "down"
  /\ entries' = <<>>
  /\ recorded' = <<>>
  /\ UNCHANGED <<now, disk>>

Restore ==
  /\ process = "down"
  /\ disk.state = "whole"
  /\ process' = "up"
  /\ entries' = disk.entries
  /\ recorded' = disk.recorded
  /\ UNCHANGED <<now, disk>>

\* restore() returns Err: no file, or one that does not parse.
RestoreFails ==
  /\ process = "down"
  /\ disk.state # "whole"
  /\ process' = "up"
  /\ entries' = <<>>
  /\ recorded' = <<>>
  /\ UNCHANGED <<now, disk>>

Next ==
  \/ NewSlot
  \/ \E slot \in 0 .. now, net \in Net : Record(slot, net)
  \/ PruneOlderThan
  \/ SnapshotTruncate
  \/ SnapshotWrite
  \/ SnapshotFails
  \/ Kill
  \/ Restore
  \/ RestoreFails

Spec == Init /\ [][Next]_vars
=============================================================================
