----------------------------- MODULE ByteLayout -----------------------------
(***************************************************************************)
(* Byte buffers as Save's SDK writes and reads them: a field of width w is *)
(* w little-endian bytes, one after the other, without names or padding.   *)
(*                                                                         *)
(* A value is an integer that stands for itself; byte i of a field of      *)
(* width w is the triple <<value, i, w>>, and every byte of a zero is the  *)
(* same zero byte.  Read back where it was written, at its width, a field  *)
(* gives its value; bytes read out of step give Garbage.                   *)
(***************************************************************************)
EXTENDS Integers, Sequences, SequencesExt, TLC

Garbage == -2  \* bytes that are not one value
NoKey   == -1  \* None of an Option

\* The width that marks an Option<Pubkey> in a message: a flag byte and, if it
\* is 1, the key.
OptKey == 33

ZeroByte == <<0, 0, 0>>

Bytes(v, w) == [i \in 1 .. w |-> IF v = 0 THEN ZeroByte ELSE <<v, i, w>>]

Value(cells) ==
  LET v == cells[1][1]
  IN  IF cells = Bytes(v, Len(cells)) THEN v ELSE Garbage

\* A layout is a sequence of <<field, width>>.
Of(w, names) == [i \in DOMAIN names |-> <<names[i], w>>]

Fields(layout) == {layout[i][1] : i \in DOMAIN layout}

WriteField(v, w) ==
  IF w # OptKey THEN Bytes(v, w)
  ELSE IF v = NoKey THEN Bytes(0, 1)
  ELSE Bytes(1, 1) \o Bytes(v, 32)

Write(layout, vals) ==
  FlattenSeq([i \in DOMAIN layout |-> WriteField(vals[layout[i][1]], layout[i][2])])

\* A read in progress: where it is, and what it has read.
Begin(at) == [ok |-> TRUE, at |-> at, vals |-> <<>>]

Take(buf, read, name, w) ==
  IF Len(buf) < read.at + w THEN [read EXCEPT !.ok = FALSE]
  ELSE [read EXCEPT !.at = @ + w,
                    !.vals = (name :> Value(SubSeq(buf, read.at + 1, read.at + w))) @@ @]

TakeField(buf, read, field) ==
  IF ~read.ok THEN read
  ELSE IF field[2] # OptKey THEN Take(buf, read, field[1], field[2])
  ELSE LET flag == Take(buf, read, field[1], 1)
       IN  CASE ~flag.ok -> flag
             [] flag.ok /\ flag.vals[field[1]] = 0 -> [flag EXCEPT !.vals[field[1]] = NoKey]
             [] flag.ok /\ flag.vals[field[1]] = 1 -> Take(buf, flag, field[1], 32)
             [] OTHER -> [flag EXCEPT !.ok = FALSE]

\* Field after field; what is left over at the end is ignored.
Read(layout, buf, at) ==
  FoldLeft(LAMBDA read, field : TakeField(buf, read, field), Begin(at), layout)

LengthOf(layout) == FoldLeft(LAMBDA n, field : n + field[2], 0, layout)
=============================================================================
