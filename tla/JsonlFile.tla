----------------------------- MODULE JsonlFile ------------------------------
(***************************************************************************)
(* The append-only JSONL file behind the liquidation log.                  *)
(*                                                                         *)
(* writeln!(file, "{line}") on an unbuffered File is two writes, the JSON  *)
(* text and the newline, so the file is a sequence of pieces: a whole      *)
(* record, the torn beginning of one, or a newline.                        *)
(***************************************************************************)
EXTENDS Naturals, Sequences, FiniteSets

CONSTANT Record  \* ids of liquidation records, in the order they are made

ASSUME RecordAssumption == Record \subseteq Nat

Newline == [kind |-> "nl", rec |-> 0]
Line(r) == [kind |-> "line", rec |-> r]
Torn(r) == [kind |-> "torn", rec |-> r]

Piece == {Newline} \cup {Line(r) : r \in Record} \cup {Torn(r) : r \in Record}

\* The records whose JSON text is wholly in the file.
Written(f) == {r \in Record : \E i \in DOMAIN f : f[i] = Line(r)}

\* Some line of the file is not one JSON record: a torn one, or two run
\* together because a newline between them was never written.
Malformed(f) ==
  \E i \in DOMAIN f :
    \/ f[i].kind = "torn"
    \/ f[i].kind = "line" /\ i > 1 /\ f[i - 1].kind # "nl"

\* What LiquidationLog::open reads from a file that parses: the records of
\* its lines, the k-th of them in k-th place.
Parsed(f) ==
  LET lines    == {i \in DOMAIN f : f[i].kind = "line"}
      place(i) == Cardinality({j \in lines : j <= i})
  IN  [k \in 1 .. Cardinality(lines) |-> f[CHOOSE i \in lines : place(i) = k].rec]
=============================================================================
