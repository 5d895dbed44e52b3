--------------------------- MODULE LogStoreProofs ---------------------------
(***************************************************************************)
(* What the log file keeps through both of its writers, for every set of   *)
(* records, every channel capacity and every sequence of failed writes,    *)
(* shutdowns, kills, power losses and reopenings.                          *)
(***************************************************************************)
EXTENDS LogStore, FiniteSetTheorems, FunctionTheorems, SequenceTheorems,
        WellFoundedInduction, TLAPS

-----------------------------------------------------------------------------
(* The first record of the reopened log.  A set of naturals has a least    *)
(* element: the part of it up to some element is finite, and a smallest    *)
(* finite set without one would have one as soon as it lost an element.    *)

HasLeast(S) == \E n \in S : \A m \in S : n <= m

(* With one more element a set still has a least one.                      *)
LEMMA LeastWithOneMore ==
  ASSUME NEW S \in SUBSET Nat, NEW x \in S, S \ {x} = {} \/ HasLeast(S \ {x})
  PROVE  HasLeast(S)
<1>1. CASE S \ {x} = {}
  <2>1. \A m \in S : x <= m
    BY <1>1
  <2> QED
    BY <2>1 DEF HasLeast
<1>2. CASE HasLeast(S \ {x})
  <2>1. PICK n \in S \ {x} : \A m \in S \ {x} : n <= m
    BY <1>2 DEF HasLeast
  <2>2. CASE n <= x
    BY <2>1, <2>2 DEF HasLeast
  <2>3. CASE x <= n
    <3>1. \A m \in S : x <= m
      BY <2>1, <2>3
    <3> QED
      BY <3>1 DEF HasLeast
  <2> QED
    BY <2>2, <2>3
<1> QED
  BY <1>1, <1>2

(* A finite set of naturals has a least element.                           *)
LEMMA FiniteHasLeast ==
  ASSUME NEW L \in SUBSET Nat, IsFiniteSet(L), L # {}
  PROVE  HasLeast(L)
<1> DEFINE Bad == {S \in SUBSET L : S # {} /\ ~HasLeast(S)}
<1>1. IsWellFoundedOn(StrictSubsetOrdering(L), SUBSET L)
  BY FS_StrictSubsetOrderingWellFounded, FS_FiniteSubsetsOfFinite
<1>2. Bad = {}
  <2> SUFFICES ASSUME Bad # {} PROVE FALSE
    OBVIOUS
  <2>1. PICK S \in Bad : \A U \in Bad : ~(<<U, S>> \in StrictSubsetOrdering(L))
    <3>1. Bad \subseteq SUBSET L
      OBVIOUS
    <3> HIDE DEF Bad
    <3> QED
      BY <1>1, <3>1, WFMin
  <2>2. PICK x : x \in S
    OBVIOUS
  <2>3. <<S \ {x}, S>> \in StrictSubsetOrdering(L)
    BY <2>2 DEF StrictSubsetOrdering
  <2>4. S \ {x} = {} \/ HasLeast(S \ {x})
    BY <2>1, <2>3
  <2>5. S \in SUBSET Nat
    OBVIOUS
  <2>6. HasLeast(S)
    BY <2>2, <2>4, <2>5, LeastWithOneMore
  <2> QED
    BY <2>6
<1> QED
  BY <1>2

(* The reopened log starts after every record of the task's.               *)
LEMMA FirstOfLogIsLater ==
  FirstOfLog \in Nat /\ \A w \in WriterRecord : w < FirstOfLog
<1> DEFINE T == Record \ WriterRecord
<1>1. T \in SUBSET Nat
  BY RecordAssumption
<1>2. PICK x : x \in T
  BY WriterRecordAssumption
<1>3. /\ T \cap (0 .. x) \in SUBSET Nat /\ T \cap (0 .. x) # {}
      /\ IsFiniteSet(T \cap (0 .. x))
  <2>1. x \in Nat /\ x \in 0 .. x
    BY <1>1, <1>2
  <2>2. IsFiniteSet(0 .. x)
    BY <2>1, FS_Interval
  <2> QED
    BY <1>1, <1>2, <2>1, <2>2, FS_Subset
<1>4. PICK n \in T \cap (0 .. x) : \A m \in T \cap (0 .. x) : n <= m
  BY <1>3, FiniteHasLeast DEF HasLeast
<1>5. \A m \in T : n <= m
  BY <1>1, <1>2, <1>4
<1>6. FirstOfLog \in T
  BY <1>4, <1>5 DEF FirstOfLog
<1> QED
  BY <1>1, <1>6, WriterRecordAssumption

-----------------------------------------------------------------------------
(* What open() reads.  The place of a line among the lines grows along the *)
(* file, so it is a one-to-one map of the lines onto 1 .. n.               *)

(* Parsed lists the records of the lines in the order of the file.         *)
LEMMA ParsedLines ==
  ASSUME NEW f \in Seq(Piece)
  PROVE  LET lines == {i \in DOMAIN f : f[i].kind = "line"}
         IN  \E line \in [DOMAIN Parsed(f) -> lines] :
               /\ DOMAIN Parsed(f) = 1 .. Cardinality(lines) /\ Cardinality(lines) \in Nat
               /\ \A k \in DOMAIN Parsed(f) : Parsed(f)[k] = f[line[k]].rec
               /\ \A j, k \in DOMAIN Parsed(f) : j < k => line[j] < line[k]
               /\ \A i \in lines : \E k \in DOMAIN Parsed(f) : line[k] = i
<1> DEFINE lines == {i \in DOMAIN f : f[i].kind = "line"}
           upTo(i) == {j \in lines : j <= i}
           place(i) == Cardinality(upTo(i))
           n == Cardinality(lines)
           g == [i \in lines |-> place(i)]
           line == [k \in 1 .. n |-> CHOOSE i \in lines : place(i) = k]
<1>1. (\A i \in lines : i \in Nat) /\ IsFiniteSet(lines) /\ n \in Nat
  <2>1. DOMAIN f = 1 .. Len(f) /\ Len(f) \in Nat
    BY LenProperties
  <2>2. IsFiniteSet(1 .. Len(f))
    BY <2>1, FS_Interval
  <2>3. lines \in SUBSET (1 .. Len(f))
    BY <2>1
  <2> QED
    BY <2>2, <2>3, FS_Subset, FS_CardinalityType
<1>2. Parsed(f) = [k \in 1 .. n |-> f[CHOOSE i \in lines : place(i) = k].rec]
  BY DEF Parsed
<1> HIDE DEF lines
<1>3. \A i \in lines : upTo(i) \in SUBSET lines /\ i \in upTo(i)
  BY <1>1
<1>4. \A i \in lines : IsFiniteSet(upTo(i)) /\ place(i) \in 1 .. n
  <2> SUFFICES ASSUME NEW i \in lines PROVE IsFiniteSet(upTo(i)) /\ place(i) \in 1 .. n
    OBVIOUS
  <2>1. upTo(i) \in SUBSET lines /\ upTo(i) # {}
    BY <1>3
  <2> HIDE DEF upTo
  <2>2. IsFiniteSet(upTo(i)) /\ Cardinality(upTo(i)) <= n /\ Cardinality(upTo(i)) \in Nat
    BY <1>1, <2>1, FS_Subset, FS_CardinalityType
  <2>3. Cardinality(upTo(i)) # 0
    BY <2>1, <2>2, FS_EmptySet
  <2> QED
    BY <1>1, <2>2, <2>3
<1>5. ASSUME NEW i \in lines, NEW j \in lines, i < j PROVE place(i) < place(j)
  <2>1. upTo(i) \in SUBSET upTo(j) /\ upTo(i) # upTo(j)
    <3>1. j \notin upTo(i) /\ j \in upTo(j)
      BY <1>1, <1>5
    <3>2. \A m \in lines : m <= i => m <= j
      BY <1>1, <1>5
    <3> QED
      BY <3>1, <3>2
  <2>2. IsFiniteSet(upTo(j)) /\ place(i) \in Nat /\ place(j) \in Nat
    <3>1. IsFiniteSet(upTo(j)) /\ place(i) \in 1 .. n /\ place(j) \in 1 .. n
      BY <1>4
    <3> HIDE DEF upTo, place, n
    <3> QED
      BY <1>1, <3>1
  <2> HIDE DEF upTo
  <2>3. Cardinality(upTo(i)) <= Cardinality(upTo(j)) /\ Cardinality(upTo(i)) # Cardinality(upTo(j))
    BY <2>1, <2>2, FS_Subset
  <2> QED
    BY <2>2, <2>3
<1> HIDE DEF upTo, place, n
<1>6. \A i, j \in lines : place(i) = place(j) => i = j
  <2> SUFFICES ASSUME NEW i \in lines, NEW j \in lines, i # j PROVE place(i) # place(j)
    OBVIOUS
  <2>1. i < j \/ j < i
    BY <1>1
  <2>2. place(i) \in Nat /\ place(j) \in Nat
    BY <1>1, <1>4
  <2> QED
    BY <1>5, <2>1, <2>2
<1>7. \A k \in 1 .. n : \E i \in lines : place(i) = k
  <2>1. g \in Injection(lines, 1 .. n)
    BY <1>4, <1>6 DEF Injection, IsInjective
  <2>2. IsFiniteSet(1 .. n) /\ Cardinality(1 .. n) = n
    BY <1>1, FS_Interval
  <2>3. g \in Surjection(lines, 1 .. n)
    <3> HIDE DEF g
    <3> QED
      BY <2>1, <2>2, FS_Injection DEF n
  <2> QED
    BY <2>3 DEF Surjection
<1>8. \A k \in 1 .. n : line[k] \in lines /\ place(line[k]) = k
  BY <1>7
<1>9. /\ DOMAIN Parsed(f) = 1 .. n
      /\ \A k \in 1 .. n : Parsed(f)[k] = f[line[k]].rec
  BY <1>2
<1>10. line \in [1 .. n -> lines]
  BY <1>8
<1> HIDE DEF line
<1>11. ASSUME NEW j \in 1 .. n, NEW k \in 1 .. n, j < k PROVE line[j] < line[k]
  <2>1. line[j] \in lines /\ line[k] \in lines /\ place(line[j]) = j /\ place(line[k]) = k
    BY <1>8
  <2>2. line[j] \in Nat /\ line[k] \in Nat /\ j \in Nat /\ k \in Nat
    <3>1. line[j] \in Nat /\ line[k] \in Nat
      BY <1>1, <2>1
    <3>2. j \in Nat /\ k \in Nat
      BY <1>1
    <3> QED
      BY <3>1, <3>2
  <2>3. CASE line[k] < line[j]
    BY <1>5, <1>11, <2>1, <2>2, <2>3
  <2>4. CASE line[k] = line[j]
    BY <1>11, <2>1, <2>2, <2>4
  <2> QED
    BY <2>2, <2>3, <2>4
<1>12. \A i \in lines : \E k \in 1 .. n : line[k] = i
  BY <1>4, <1>6, <1>8
<1>13. \E h \in [DOMAIN Parsed(f) -> lines] :
         /\ DOMAIN Parsed(f) = 1 .. n /\ n \in Nat
         /\ \A k \in DOMAIN Parsed(f) : Parsed(f)[k] = f[h[k]].rec
         /\ \A j, k \in DOMAIN Parsed(f) : j < k => h[j] < h[k]
         /\ \A i \in lines : \E k \in DOMAIN Parsed(f) : h[k] = i
  <2>1. line \in [DOMAIN Parsed(f) -> lines]
    BY <1>9, <1>10
  <2> WITNESS line \in [DOMAIN Parsed(f) -> lines]
  <2> QED
    BY <1>1, <1>9, <1>11, <1>12
<1> QED
  BY <1>13 DEF lines, n

-----------------------------------------------------------------------------
StoreTyped ==
  /\ queue \in Seq(WriterRecord)
  /\ task \in {"recv", "text", "newline", "ended"}
  /\ task \in {"text", "newline"} => hand \in WriterRecord
  /\ file \in Seq(Piece)
  /\ accepted \in SUBSET WriterRecord
  /\ refused \in SUBSET WriterRecord
  /\ lost \in SUBSET WriterRecord
  /\ log \in {"closed", "idle", "text", "newline"}
  /\ log \in {"text", "newline"} => next \in Record
  /\ next \in Nat
  /\ acked \in SUBSET Record
  /\ power \in BOOLEAN

\* One writer at a time: the log is opened once the task has ended, and its
\* records are younger than all of the task's.
TakesTurns ==
  /\ task # "ended" => log = "closed" /\ acked = {} /\ power
  /\ \A w \in WriterRecord : w < next
  /\ \A r \in acked : r < next

\* Records pass through the channel in the order they were made.
QueueOrdered == \A i, j \in 1 .. Len(queue) : i < j => queue[i] < queue[j]

\* The task's records that are in the file.
Kept == Written(file) \cap WriterRecord

OfferedApart == accepted \cap refused = {} /\ Kept \cup Queued \subseteq accepted

Conserved ==
  power =>
    /\ accepted = Queued \cup InHand \cup Kept \cup lost
    /\ Queued \cap (InHand \cup Kept \cup lost) = {}
    /\ InHand \cap (Kept \cup lost) = {}
    /\ Kept \cap lost = {}

(* Four things said of a file f: a newline ends a record; whole records    *)
(* are in the order they were made; every record in it is older than n;    *)
(* the records of A in it are whole and have their newline.                *)

NewlinesEndLines(f) ==
  \A i \in 1 .. Len(f) : f[i].kind = "nl" => i > 1 /\ f[i - 1].kind = "line"

InOrder(f) ==
  \A i, j \in 1 .. Len(f) :
    f[i].kind = "line" /\ f[j].kind = "line" /\ i < j => f[i].rec < f[j].rec

OlderThan(f, n) == \A i \in 1 .. Len(f) : f[i].kind # "nl" => f[i].rec < n

Finished(f, A) ==
  \A i \in 1 .. Len(f) :
    f[i].kind # "nl" /\ f[i].rec \in A =>
      f[i].kind = "line" /\ i < Len(f) /\ f[i + 1].kind = "nl"

\* Only the record being appended is as young as next.
FileShape ==
  /\ NewlinesEndLines(file)
  /\ log # "newline" => OlderThan(file, next)
  /\ task = "newline" => Len(file) > 0 /\ file[Len(file)].kind = "line"
  /\ log = "newline" =>
       /\ Len(file) > 0 /\ file[Len(file)] = Line(next)
       /\ \A i \in 1 .. Len(file) : i < Len(file) /\ file[i].kind # "nl" => file[i].rec < next

\* What the task has yet to write is younger than what it has written.
LinesOrdered ==
  /\ InOrder(file)
  /\ task # "ended" =>
       /\ Written(file) \subseteq accepted
       /\ \A r \in Written(file), k \in 1 .. Len(queue) : r < queue[k]
       /\ task = "text" =>
            /\ \A r \in Written(file) : r < hand
            /\ \A k \in 1 .. Len(queue) : hand < queue[k]

\* The open log holds what the task left and what it acknowledged, in order.
MemoryOrdered ==
  /\ mem \in Seq(Nat)
  /\ \A i, j \in 1 .. Len(mem) : i < j => mem[i] < mem[j]
  /\ \A i \in 1 .. Len(mem) : mem[i] < next

MemoryComplete ==
  power /\ log # "closed" => \A r \in Kept \cup acked : \E i \in 1 .. Len(mem) : mem[i] = r

\* An acknowledged record is in the file, whole and with its newline.
AckedComplete == power => acked \subseteq Written(file) /\ Finished(file, acked)

IInv ==
  /\ StoreTyped
  /\ TakesTurns
  /\ QueueOrdered
  /\ OfferedApart
  /\ Conserved
  /\ FileShape
  /\ AckedComplete
  /\ LinesOrdered
  /\ MemoryOrdered
  /\ MemoryComplete

-----------------------------------------------------------------------------
(* The pieces of a file, and what appending one or losing the last ones    *)
(* does to it.                                                             *)

(* What a piece is, by its kind.                                           *)
LEMMA PieceKinds ==
  /\ Newline \in Piece /\ Newline.kind = "nl"
  /\ \A r \in Record : /\ Line(r) \in Piece /\ Line(r).kind = "line" /\ Line(r).rec = r
                       /\ Torn(r) \in Piece /\ Torn(r).kind = "torn" /\ Torn(r).rec = r
  /\ \A p \in Piece : /\ p.kind \in {"nl", "line", "torn"}
                      /\ p.kind # "nl" => p.rec \in Record
                      /\ p.kind = "line" => p = Line(p.rec)
<1>1. Newline \in Piece /\ Newline.kind = "nl"
  BY DEF Piece, Newline
<1>2. \A r \in Record : /\ Line(r) \in Piece /\ Line(r).kind = "line" /\ Line(r).rec = r
                       /\ Torn(r) \in Piece /\ Torn(r).kind = "torn" /\ Torn(r).rec = r
  BY DEF Piece, Line, Torn
<1>3. ASSUME NEW p \in Piece
      PROVE  /\ p.kind \in {"nl", "line", "torn"}
             /\ p.kind # "nl" => p.rec \in Record
             /\ p.kind = "line" => p = Line(p.rec)
  <2>1. p = Newline \/ (\E r \in Record : p = Line(r)) \/ (\E r \in Record : p = Torn(r))
    BY DEF Piece
  <2> QED
    BY <1>1, <1>2, <2>1
<1> QED
  BY <1>1, <1>2, <1>3

(* A file is made of pieces.                                               *)
LEMMA FileElements ==
  ASSUME NEW f \in Seq(Piece)
  PROVE  Len(f) \in Nat /\ DOMAIN f = 1 .. Len(f) /\ \A i \in 1 .. Len(f) : f[i] \in Piece
  BY LenProperties, ElementOfSeq

(* A record is written if it is the record of some line.                   *)
LEMMA WrittenLines ==
  ASSUME NEW f \in Seq(Piece)
  PROVE  \A r : r \in Written(f) <=>
           /\ r \in Record
           /\ \E i \in 1 .. Len(f) : f[i].kind = "line" /\ f[i].rec = r
<1> TAKE r
<1>1. DOMAIN f = 1 .. Len(f) /\ \A i \in 1 .. Len(f) : f[i] \in Piece
  BY FileElements
<1>2. \A i \in 1 .. Len(f) : r \in Record =>
        (f[i] = Line(r) <=> f[i].kind = "line" /\ f[i].rec = r)
  BY <1>1, PieceKinds
<1> QED
  BY <1>1, <1>2 DEF Written

(* Appending one piece.                                                    *)
LEMMA AppendPiece ==
  ASSUME NEW f \in Seq(Piece), NEW p \in Piece
  PROVE  LET u == Append(f, p)
         IN  /\ u \in Seq(Piece) /\ Len(f) \in Nat /\ Len(u) = Len(f) + 1
             /\ \A i \in 1 .. Len(f) : u[i] = f[i]
             /\ u[Len(f) + 1] = p
             /\ p.kind = "line" => Written(u) = Written(f) \cup {p.rec}
             /\ p.kind # "line" => Written(u) = Written(f)
<1> DEFINE u == Append(f, p)
           n == Len(f)
<1>1. /\ u \in Seq(Piece) /\ n \in Nat /\ Len(u) = n + 1
      /\ \A i \in 1 .. n : u[i] = f[i]
      /\ u[n + 1] = p
  BY AppendProperties, LenProperties
<1>2. /\ \A r : r \in Written(f) <=>
           r \in Record /\ \E i \in 1 .. n : f[i].kind = "line" /\ f[i].rec = r
      /\ \A r : r \in Written(u) <=>
           r \in Record /\ \E i \in 1 .. (n + 1) : u[i].kind = "line" /\ u[i].rec = r
  <2>1. \A r : r \in Written(u) <=>
           r \in Record /\ \E i \in 1 .. Len(u) : u[i].kind = "line" /\ u[i].rec = r
    BY <1>1, WrittenLines
  <2> QED
    BY <1>1, <2>1, WrittenLines
<1>3. p.kind = "line" => p.rec \in Record
  BY PieceKinds
<1> HIDE DEF u, n
<1>4. 1 .. (n + 1) = (1 .. n) \cup {n + 1}
  BY <1>1
<1>5. \A r : r \in Written(u) <=> r \in Written(f) \/ (p.kind = "line" /\ r = p.rec)
  BY <1>1, <1>2, <1>3, <1>4
<1>6. /\ p.kind = "line" => Written(u) = Written(f) \cup {p.rec}
      /\ p.kind # "line" => Written(u) = Written(f)
  BY <1>5
<1> QED
  BY <1>1, <1>6 DEF u, n

(* Losing all but the first k pieces.                                      *)
LEMMA CutFile ==
  ASSUME NEW f \in Seq(Piece), NEW k \in 0 .. Len(f)
  PROVE  LET u == SubSeq(f, 1, k)
         IN  /\ u \in Seq(Piece) /\ Len(f) \in Nat /\ Len(u) = k
             /\ \A i \in 1 .. k : u[i] = f[i]
             /\ Written(u) \subseteq Written(f)
<1> DEFINE u == SubSeq(f, 1, k)
<1>1. /\ u \in Seq(Piece) /\ Len(f) \in Nat /\ Len(u) = k
      /\ \A i \in 1 .. k : u[i] = f[i]
  BY LenProperties, ElementOfSeq
<1>2. Written(u) \subseteq Written(f)
  <2> HIDE DEF u
  <2>1. \A i \in 1 .. k : i \in 1 .. Len(f)
    BY <1>1
  <2> QED
    BY <1>1, <2>1, WrittenLines
<1> QED
  BY <1>1, <1>2

(* What an appended piece leaves true of the file.                         *)
LEMMA AppendShape ==
  ASSUME NEW f \in Seq(Piece), NEW p \in Piece
  PROVE  LET u == Append(f, p)
         IN  /\ NewlinesEndLines(f) /\ (p.kind = "nl" => Len(f) > 0 /\ f[Len(f)].kind = "line")
                  => NewlinesEndLines(u)
             /\ InOrder(f) /\ (p.kind = "line" => \A r \in Written(f) : r < p.rec)
                  => InOrder(u)
             /\ \A m : OlderThan(f, m) /\ (p.kind # "nl" => p.rec < m) => OlderThan(u, m)
             /\ \A A : Finished(f, A) /\ (p.kind # "nl" => p.rec \notin A) => Finished(u, A)
<1> DEFINE u == Append(f, p)
           n == Len(f)
<1>1. /\ n \in Nat /\ Len(u) = n + 1
      /\ \A i \in 1 .. n : u[i] = f[i]
      /\ u[n + 1] = p
  BY AppendPiece
<1>2. \A i \in 1 .. n : f[i].kind = "line" => f[i].rec \in Written(f)
  BY FileElements, WrittenLines, PieceKinds
<1> HIDE DEF u
<1>3. /\ \A i \in 1 .. Len(u) : i \in 1 .. n \/ i = n + 1
      /\ \A i, j \in 1 .. Len(u) : i < j => i \in 1 .. n
      /\ \A i \in 1 .. n : i > 1 => i - 1 \in 1 .. n
      /\ \A i \in 1 .. n : i < n => i + 1 \in 1 .. n
      /\ \A i \in 1 .. n : i < Len(u)
      /\ n > 0 => n \in 1 .. n /\ n + 1 > 1 /\ (n + 1) - 1 = n
  BY <1>1
<1>4. ASSUME NewlinesEndLines(f), p.kind = "nl" => n > 0 /\ f[n].kind = "line"
      PROVE  NewlinesEndLines(u)
  <2>1. \A i \in 1 .. n : u[i].kind = "nl" => i > 1 /\ u[i - 1].kind = "line"
    BY <1>1, <1>3, <1>4 DEF NewlinesEndLines
  <2>2. u[n + 1].kind = "nl" => n + 1 > 1 /\ u[(n + 1) - 1].kind = "line"
    BY <1>1, <1>3, <1>4
  <2> QED
    BY <1>3, <2>1, <2>2 DEF NewlinesEndLines
<1>5. ASSUME InOrder(f), p.kind = "line" => \A r \in Written(f) : r < p.rec
      PROVE  InOrder(u)
  <2> SUFFICES ASSUME NEW i \in 1 .. Len(u), NEW j \in 1 .. Len(u),
                      u[i].kind = "line", u[j].kind = "line", i < j
               PROVE  u[i].rec < u[j].rec
    BY DEF InOrder
  <2>1. i \in 1 .. n
    BY <1>3
  <2>2. CASE j = n + 1
    BY <1>1, <1>2, <1>5, <2>1, <2>2
  <2>3. CASE j \in 1 .. n
    BY <1>1, <1>5, <2>1, <2>3 DEF InOrder
  <2> QED
    BY <1>3, <2>2, <2>3
<1>6. ASSUME NEW m, OlderThan(f, m), p.kind # "nl" => p.rec < m
      PROVE  OlderThan(u, m)
  BY <1>1, <1>3, <1>6 DEF OlderThan
<1>7. ASSUME NEW A, Finished(f, A), p.kind # "nl" => p.rec \notin A
      PROVE  Finished(u, A)
  <2> SUFFICES ASSUME NEW i \in 1 .. Len(u), u[i].kind # "nl", u[i].rec \in A
               PROVE  u[i].kind = "line" /\ i < Len(u) /\ u[i + 1].kind = "nl"
    BY DEF Finished
  <2>1. i \in 1 .. n
    BY <1>1, <1>3, <1>7
  <2>2. f[i].kind = "line" /\ i < n /\ f[i + 1].kind = "nl"
    BY <1>1, <1>7, <2>1 DEF Finished
  <2> QED
    BY <1>1, <1>3, <2>1, <2>2
<1> QED
  BY <1>4, <1>5, <1>6, <1>7 DEF u

(* A write that fails, or is cut off, may leave a torn record behind.      *)
LEMMA TornFile ==
  ASSUME NEW f \in Seq(Piece), NEW r \in Record, NEW u \in {f, Append(f, Torn(r))}
  PROVE  /\ u \in Seq(Piece) /\ Written(u) = Written(f)
         /\ NewlinesEndLines(f) => NewlinesEndLines(u)
         /\ InOrder(f) => InOrder(u)
         /\ \A m : OlderThan(f, m) /\ r < m => OlderThan(u, m)
         /\ \A A : Finished(f, A) /\ r \notin A => Finished(u, A)
<1>1. Torn(r) \in Piece /\ Torn(r).kind = "torn" /\ Torn(r).rec = r
  BY PieceKinds
<1>2. CASE u = f
  BY <1>2
<1>3. CASE u = Append(f, Torn(r))
  <2>1. u \in Seq(Piece) /\ Written(u) = Written(f)
    BY <1>1, <1>3, AppendPiece
  <2> QED
    BY <1>1, <1>3, <2>1, AppendShape
<1> QED
  BY <1>2, <1>3

(* What a lost tail leaves true of the file.                               *)
LEMMA CutShape ==
  ASSUME NEW f \in Seq(Piece), NEW k \in 0 .. Len(f)
  PROVE  LET u == SubSeq(f, 1, k)
         IN  /\ NewlinesEndLines(f) => NewlinesEndLines(u)
             /\ InOrder(f) => InOrder(u)
             /\ \A m : OlderThan(f, m) => OlderThan(u, m)
<1> DEFINE u == SubSeq(f, 1, k)
<1>1. Len(f) \in Nat /\ Len(u) = k /\ \A i \in 1 .. k : u[i] = f[i]
  BY CutFile
<1> HIDE DEF u
<1>2. \A i \in 1 .. k : i \in 1 .. Len(f) /\ (i > 1 => i - 1 \in 1 .. k)
  BY <1>1
<1> QED
  BY <1>1, <1>2 DEF u, NewlinesEndLines, InOrder, OlderThan

(* The channel as a set of records.                                        *)
LEMMA QueuedRecords ==
  ASSUME NEW q \in Seq(WriterRecord)
  PROVE  /\ Len(q) \in Nat /\ DOMAIN q = 1 .. Len(q)
         /\ \A i \in 1 .. Len(q) : q[i] \in WriterRecord /\ q[i] \in Nat
<1>1. Len(q) \in Nat /\ DOMAIN q = 1 .. Len(q) /\ \A i \in 1 .. Len(q) : q[i] \in WriterRecord
  BY LenProperties, ElementOfSeq
<1> QED
  BY <1>1, WriterRecordAssumption, RecordAssumption
-----------------------------------------------------------------------------
(* What the invariant says in numbers.                                     *)
LEMMA Numbers ==
  ASSUME IInv
  PROVE  /\ Len(file) \in Nat /\ Len(queue) \in Nat
         /\ \A i \in 1 .. Len(file) : /\ file[i] \in Piece
                                      /\ file[i].kind \in {"nl", "line", "torn"}
                                      /\ file[i].kind # "nl" => file[i].rec \in Nat
         /\ \A k \in 1 .. Len(queue) : queue[k] \in WriterRecord
         /\ \A w \in WriterRecord : w \in Record
         /\ \A r \in Record : r \in Nat
         /\ Queued = {queue[k] : k \in 1 .. Len(queue)}
<1>1. file \in Seq(Piece) /\ queue \in Seq(WriterRecord)
  BY DEF IInv, StoreTyped
<1>2. /\ Len(queue) \in Nat /\ DOMAIN queue = 1 .. Len(queue)
      /\ \A k \in 1 .. Len(queue) : queue[k] \in WriterRecord
  BY <1>1, QueuedRecords
<1>3. Len(file) \in Nat /\ \A i \in 1 .. Len(file) : file[i] \in Piece
  BY <1>1, FileElements
<1>4. (\A w \in WriterRecord : w \in Record) /\ \A r \in Record : r \in Nat
  BY WriterRecordAssumption, RecordAssumption
<1>5. \A i \in 1 .. Len(file) : /\ file[i].kind \in {"nl", "line", "torn"}
                                /\ file[i].kind # "nl" => file[i].rec \in Nat
  BY <1>3, <1>4, PieceKinds
<1> QED
  BY <1>2, <1>3, <1>4, <1>5 DEF Queued

(* A record goes into the channel: the youngest so far, behind all others. *)
LEMMA SendIInv ==
  ASSUME IInv, NEW r \in WriterRecord, Fresh(r), Send(r), UNCHANGED logVars
  PROVE  IInv'
<1>1. /\ queue' = Append(queue, r) /\ accepted' = accepted \cup {r}
      /\ UNCHANGED <<task, hand, file, refused, lost, log, mem, next, acked, power>>
  BY DEF Send, logVars
<1>2. r \in Nat /\ r \notin accepted /\ r \notin refused /\ \A q \in accepted : q < r
  <2>1. r \in Nat /\ \A q \in accepted \cup refused : q < r
    BY Numbers DEF Fresh, Offered
  <2> QED
    BY <2>1
<1>3. /\ queue' \in Seq(WriterRecord) /\ Len(queue') = Len(queue) + 1
      /\ \A k \in 1 .. Len(queue) : queue'[k] = queue[k]
      /\ queue'[Len(queue) + 1] = r
  BY <1>1, AppendProperties DEF IInv, StoreTyped
<1>4. 1 .. Len(queue') = (1 .. Len(queue)) \cup {Len(queue) + 1}
  BY <1>3, Numbers
<1>5. Queued' = Queued \cup {r}
  <2>1. Queued' = {queue'[k] : k \in 1 .. Len(queue')}
    BY <1>3, QueuedRecords DEF Queued
  <2>2. {queue'[k] : k \in 1 .. Len(queue')} = {queue[k] : k \in 1 .. Len(queue)} \cup {r}
    BY <1>3, <1>4
  <2> QED
    BY <2>1, <2>2, Numbers
<1>6. Kept' = Kept /\ InHand' = InHand /\ Written(file') = Written(file)
  BY <1>1 DEF Kept, InHand
<1>7. StoreTyped' /\ TakesTurns'
  BY <1>1, <1>3 DEF IInv, StoreTyped, TakesTurns
<1>8. QueueOrdered'
  <2>1. \A k \in 1 .. Len(queue) : queue[k] < r
    BY <1>2, Numbers DEF IInv, OfferedApart
  <2>2. \A i, j \in 1 .. Len(queue') : i < j => i \in 1 .. Len(queue)
    BY <1>3, Numbers
  <2> QED
    BY <1>3, <1>4, <2>1, <2>2 DEF IInv, QueueOrdered
<1>9. OfferedApart' /\ Conserved'
  BY <1>1, <1>2, <1>5, <1>6 DEF IInv, OfferedApart, Conserved
<1>10. FileShape' /\ AckedComplete' /\ MemoryOrdered' /\ MemoryComplete'
  BY <1>1, <1>6 DEF IInv, FileShape, AckedComplete, MemoryOrdered, MemoryComplete
<1>11. LinesOrdered'
  <2>1. task = "text" => hand < r
    BY <1>2 DEF IInv, TakesTurns, Conserved, InHand
  <2>2. task # "ended" => \A q \in Written(file) : q < r
    BY <1>2 DEF IInv, LinesOrdered
  <2> QED
    BY <1>1, <1>3, <1>4, <2>1, <2>2 DEF IInv, LinesOrdered
<1> QED
  BY <1>7, <1>8, <1>9, <1>10, <1>11 DEF IInv

(* A record the full channel refuses is neither accepted nor stored.       *)
LEMMA RefuseIInv ==
  ASSUME IInv, NEW r \in WriterRecord, Fresh(r), Refuse(r), UNCHANGED logVars
  PROVE  IInv'
<1>1. /\ refused' = refused \cup {r}
      /\ UNCHANGED <<queue, task, hand, file, accepted, lost, log, mem, next, acked, power>>
  BY DEF Refuse, logVars
<1>2. r \notin accepted
  <2>1. r \in Nat /\ \A q \in accepted : q < r
    BY Numbers DEF Fresh, Offered
  <2> QED
    BY <2>1
<1>3. Kept' = Kept /\ InHand' = InHand /\ Queued' = Queued
  BY <1>1 DEF Kept, InHand, Queued
<1>4. StoreTyped' /\ OfferedApart' /\ Conserved'
  BY <1>1, <1>2, <1>3 DEF IInv, StoreTyped, OfferedApart, Conserved
<1>5. TakesTurns' /\ QueueOrdered' /\ FileShape' /\ AckedComplete' /\ MemoryOrdered'
  BY <1>1 DEF IInv, TakesTurns, QueueOrdered, FileShape, AckedComplete, MemoryOrdered
<1>6. LinesOrdered' /\ MemoryComplete'
  BY <1>1, <1>3 DEF IInv, LinesOrdered, MemoryComplete
<1> QED
  BY <1>4, <1>5, <1>6 DEF IInv

(* The task takes the oldest record off the channel into its hand.         *)
LEMMA RecvIInv ==
  ASSUME IInv, Recv, UNCHANGED logVars
  PROVE  IInv'
<1>1. /\ task = "recv" /\ task' = "text" /\ queue # <<>>
      /\ hand' = Head(queue) /\ queue' = Tail(queue)
      /\ UNCHANGED <<file, accepted, refused, lost, log, mem, next, acked, power>>
  BY DEF Recv, logVars
<1>2. /\ hand' \in WriterRecord /\ queue' \in Seq(WriterRecord) /\ Len(queue) \in Nat \ {0}
      /\ Len(queue') = Len(queue) - 1 /\ hand' = queue[1]
      /\ \A k \in 1 .. Len(queue') : queue'[k] = queue[k + 1]
  BY <1>1, HeadTailProperties, EmptySeq DEF IInv, StoreTyped
<1>3. /\ 1 \in 1 .. Len(queue)
      /\ \A k \in 1 .. Len(queue') : k + 1 \in 1 .. Len(queue) /\ k \in 1 .. Len(queue)
      /\ \A k \in 1 .. Len(queue) : k = 1 \/ k - 1 \in 1 .. Len(queue')
  BY <1>2
<1>4. \A k \in 1 .. Len(queue') : hand' < queue'[k]
  BY <1>2, <1>3 DEF IInv, QueueOrdered
<1>5. Queued = Queued' \cup {hand'} /\ hand' \notin Queued'
  <2>1. Queued' = {queue'[k] : k \in 1 .. Len(queue')}
    BY <1>2, QueuedRecords DEF Queued
  <2>2. Queued = {queue[k] : k \in 1 .. Len(queue)}
    BY Numbers
  <2>3. \A k \in 1 .. Len(queue) : k = 1 \/ queue[k] = queue'[k - 1]
    BY <1>2, <1>3
  <2>4. hand' \in Nat
    BY <1>2, Numbers
  <2>5. hand' \notin Queued'
    BY <1>4, <2>1, <2>4
  <2>6. hand' \in Queued /\ Queued' \subseteq Queued
    BY <1>2, <1>3, <2>1, <2>2
  <2>7. \A x \in Queued : x \in Queued' \/ x = hand'
    <3> SUFFICES ASSUME NEW k \in 1 .. Len(queue) PROVE queue[k] \in Queued' \/ queue[k] = hand'
      BY <2>2
    <3>1. k = 1 \/ (k - 1 \in 1 .. Len(queue') /\ queue[k] = queue'[k - 1])
      BY <1>3, <2>3
    <3> QED
      BY <1>2, <2>1, <3>1
  <2> QED
    BY <2>5, <2>6, <2>7
<1>6. Kept' = Kept /\ InHand = {} /\ InHand' = {hand'} /\ Written(file') = Written(file)
  BY <1>1 DEF Kept, InHand
<1>7. StoreTyped' /\ TakesTurns'
  BY <1>1, <1>2 DEF IInv, StoreTyped, TakesTurns
<1>8. QueueOrdered'
  BY <1>2, <1>3 DEF IInv, QueueOrdered
<1>9. OfferedApart' /\ Conserved'
  BY <1>1, <1>5, <1>6 DEF IInv, OfferedApart, Conserved
<1>10. FileShape' /\ AckedComplete' /\ MemoryOrdered' /\ MemoryComplete'
  BY <1>1, <1>6 DEF IInv, FileShape, AckedComplete, MemoryOrdered, MemoryComplete
<1>11. LinesOrdered'
  <2>1. \A r \in Written(file) : r < hand'
    BY <1>1, <1>2, <1>3 DEF IInv, LinesOrdered
  <2>2. \A r \in Written(file), k \in 1 .. Len(queue') : r < queue'[k]
    BY <1>1, <1>2, <1>3 DEF IInv, LinesOrdered
  <2> QED
    BY <1>1, <1>4, <2>1, <2>2 DEF IInv, LinesOrdered
<1> QED
  BY <1>7, <1>8, <1>9, <1>10, <1>11 DEF IInv

(* While the task runs the log is closed and has acknowledged nothing.     *)
LEMMA TaskAlone ==
  ASSUME IInv, task # "ended"
  PROVE  /\ log = "closed" /\ acked = {} /\ power = TRUE
         /\ file \in Seq(Piece) /\ OlderThan(file, next)
         /\ Finished(file, {}) /\ \A f \in Seq(Piece) : Finished(f, {})
  BY DEF IInv, StoreTyped, TakesTurns, FileShape, Finished

(* The record in hand is written: the youngest of the file so far.         *)
LEMMA WriteTextIInv ==
  ASSUME IInv, WriteText, UNCHANGED logVars
  PROVE  IInv'
<1>1. /\ task = "text" /\ task' = "newline" /\ file' = Append(file, Line(hand))
      /\ UNCHANGED <<queue, hand, accepted, refused, lost, log, mem, next, acked, power>>
  BY DEF WriteText, logVars
<1>2. hand \in WriterRecord /\ hand \in Record /\ hand \in Nat /\ file \in Seq(Piece)
  BY <1>1, Numbers DEF IInv, StoreTyped
<1>3. Line(hand) \in Piece /\ Line(hand).kind = "line" /\ Line(hand).rec = hand
  BY <1>2, PieceKinds
<1>4. /\ file' \in Seq(Piece) /\ Len(file) \in Nat /\ Len(file') = Len(file) + 1
      /\ file'[Len(file) + 1] = Line(hand)
      /\ Written(file') = Written(file) \cup {hand}
  BY <1>1, <1>2, <1>3, AppendPiece
<1>5. log = "closed" /\ acked = {} /\ power = TRUE
  BY <1>1, TaskAlone
<1>6. Kept' = Kept \cup {hand} /\ InHand = {hand} /\ InHand' = {} /\ Queued' = Queued
  BY <1>1, <1>2, <1>4 DEF Kept, InHand, Queued
<1>7. StoreTyped' /\ TakesTurns' /\ QueueOrdered'
  BY <1>1, <1>2, <1>4 DEF IInv, StoreTyped, TakesTurns, QueueOrdered
<1>8. OfferedApart' /\ Conserved'
  BY <1>1, <1>5, <1>6 DEF IInv, OfferedApart, Conserved
<1>9. FileShape'
  <2>1. hand < next
    BY <1>2 DEF IInv, TakesTurns
  <2>2. OlderThan(file', next) /\ NewlinesEndLines(file')
    BY <1>1, <1>2, <1>3, <1>5, <2>1, AppendShape DEF IInv, FileShape
  <2>3. Len(file') > 0
    BY <1>4
  <2> QED
    BY <1>1, <1>3, <1>4, <1>5, <2>2, <2>3 DEF FileShape
<1>10. AckedComplete' /\ MemoryOrdered' /\ MemoryComplete'
  BY <1>1, <1>4, <1>5, TaskAlone DEF IInv, AckedComplete, MemoryOrdered, MemoryComplete
<1>11. LinesOrdered'
  <2>1. InOrder(file')
    BY <1>1, <1>2, <1>3, AppendShape DEF IInv, LinesOrdered
  <2>2. Written(file') \subseteq accepted
    BY <1>1, <1>4, <1>5, <1>6 DEF IInv, LinesOrdered, Conserved
  <2>3. \A r \in Written(file'), k \in 1 .. Len(queue) : r < queue[k]
    BY <1>1, <1>4 DEF IInv, LinesOrdered
  <2> QED
    BY <1>1, <2>1, <2>2, <2>3 DEF LinesOrdered
<1> QED
  BY <1>7, <1>8, <1>9, <1>10, <1>11 DEF IInv

(* The newline ends the record just written.                               *)
LEMMA WriteNewlineIInv ==
  ASSUME IInv, WriteNewline, UNCHANGED logVars
  PROVE  IInv'
<1>1. /\ task = "newline" /\ task' = "recv" /\ file' = Append(file, Newline)
      /\ UNCHANGED <<queue, hand, accepted, refused, lost, log, mem, next, acked, power>>
  BY DEF WriteNewline, logVars
<1>2. Newline \in Piece /\ Newline.kind = "nl"
  BY PieceKinds
<1>3. log = "closed" /\ acked = {} /\ power = TRUE /\ file \in Seq(Piece)
  BY <1>1, TaskAlone
<1>4. file' \in Seq(Piece) /\ Written(file') = Written(file)
  BY <1>1, <1>2, <1>3, AppendPiece
<1>5. Kept' = Kept /\ InHand = {} /\ InHand' = {} /\ Queued' = Queued
  BY <1>1, <1>4 DEF Kept, InHand, Queued
<1>6. StoreTyped' /\ TakesTurns' /\ QueueOrdered'
  BY <1>1, <1>4 DEF IInv, StoreTyped, TakesTurns, QueueOrdered
<1>7. OfferedApart' /\ Conserved'
  BY <1>1, <1>3, <1>5 DEF IInv, OfferedApart, Conserved
<1>8. FileShape'
  <2>1. OlderThan(file', next) /\ NewlinesEndLines(file')
    BY <1>1, <1>2, <1>3, AppendShape DEF IInv, FileShape
  <2> QED
    BY <1>1, <1>3, <2>1 DEF FileShape
<1>9. AckedComplete' /\ MemoryOrdered' /\ MemoryComplete'
  BY <1>1, <1>3, <1>4, TaskAlone DEF IInv, AckedComplete, MemoryOrdered, MemoryComplete
<1>10. LinesOrdered'
  <2>1. InOrder(file')
    BY <1>1, <1>2, <1>3, AppendShape DEF IInv, LinesOrdered
  <2> QED
    BY <1>1, <1>4, <2>1 DEF IInv, LinesOrdered
<1> QED
  BY <1>6, <1>7, <1>8, <1>9, <1>10 DEF IInv

(* The record in hand is lost, with part of its text in the file or none.  *)
LEMMA TextFailsIInv ==
  ASSUME IInv, TextFails, UNCHANGED logVars
  PROVE  IInv'
<1>1. /\ task = "text" /\ task' = "recv" /\ file' \in {file, Append(file, Torn(hand))}
      /\ lost' = lost \cup {hand}
      /\ UNCHANGED <<queue, hand, accepted, refused, log, mem, next, acked, power>>
  BY DEF TextFails, logVars
<1>2. hand \in WriterRecord /\ hand \in Record /\ hand \in Nat /\ file \in Seq(Piece)
  BY <1>1, Numbers DEF IInv, StoreTyped
<1>3. log = "closed" /\ acked = {} /\ power = TRUE
  BY <1>1, TaskAlone
<1>4. file' \in Seq(Piece) /\ Written(file') = Written(file)
  BY <1>1, <1>2, TornFile
<1>5. Kept' = Kept /\ InHand = {hand} /\ InHand' = {} /\ Queued' = Queued
  BY <1>1, <1>4 DEF Kept, InHand, Queued
<1>6. StoreTyped' /\ TakesTurns' /\ QueueOrdered'
  BY <1>1, <1>2, <1>4 DEF IInv, StoreTyped, TakesTurns, QueueOrdered
<1>7. OfferedApart' /\ Conserved'
  BY <1>1, <1>3, <1>5 DEF IInv, OfferedApart, Conserved
<1>8. FileShape'
  <2>1. hand < next
    BY <1>2 DEF IInv, TakesTurns
  <2>2. OlderThan(file', next) /\ NewlinesEndLines(file')
    BY <1>1, <1>2, <1>3, <2>1, TornFile DEF IInv, FileShape
  <2> QED
    BY <1>1, <1>3, <2>2 DEF FileShape
<1>9. AckedComplete' /\ MemoryOrdered' /\ MemoryComplete'
  BY <1>1, <1>3, <1>4, TaskAlone DEF IInv, AckedComplete, MemoryOrdered, MemoryComplete
<1>10. LinesOrdered'
  <2>1. InOrder(file')
    BY <1>1, <1>2, TornFile DEF IInv, LinesOrdered
  <2> QED
    BY <1>1, <1>4, <2>1 DEF IInv, LinesOrdered
<1> QED
  BY <1>6, <1>7, <1>8, <1>9, <1>10 DEF IInv

(* The steps of the task that leave the file and the channel alone.        *)
LEMMA TaskPausesIInv ==
  ASSUME IInv, NewlineFails \/ EndOfChannel \/ DropSender, UNCHANGED logVars
  PROVE  IInv'
<1>1. /\ (task \in {"newline", "recv"} /\ task' \in {"recv", "ended"}) \/ task' = task
      /\ UNCHANGED <<queue, hand, file, accepted, refused, lost, log, mem, next, acked, power>>
  BY DEF NewlineFails, EndOfChannel, DropSender, logVars
<1>2. Kept' = Kept /\ InHand' = InHand /\ Queued' = Queued
  BY <1>1 DEF Kept, InHand, Queued
<1>3. StoreTyped' /\ TakesTurns' /\ QueueOrdered'
  BY <1>1 DEF IInv, StoreTyped, TakesTurns, QueueOrdered
<1>4. OfferedApart' /\ Conserved'
  BY <1>1, <1>2 DEF IInv, OfferedApart, Conserved
<1>5. FileShape' /\ AckedComplete' /\ MemoryOrdered'
  BY <1>1 DEF IInv, FileShape, AckedComplete, MemoryOrdered
<1>6. LinesOrdered' /\ MemoryComplete'
  BY <1>1, <1>2 DEF IInv, LinesOrdered, MemoryComplete
<1> QED
  BY <1>3, <1>4, <1>5, <1>6 DEF IInv

(* The shutdown loses what is in the channel.                              *)
LEMMA ShutdownIInv ==
  ASSUME IInv, RuntimeShutdown, UNCHANGED logVars
  PROVE  IInv'
<1>1. /\ task = "recv" /\ task' = "ended" /\ lost' = lost \cup Queued /\ queue' = <<>>
      /\ UNCHANGED <<hand, file, accepted, refused, log, mem, next, acked, power>>
  BY DEF RuntimeShutdown, logVars
<1>2. Len(queue') = 0 /\ queue' \in Seq(WriterRecord) /\ DOMAIN queue' = {}
  BY <1>1, EmptySeq
<1>3. Kept' = Kept /\ InHand = {} /\ InHand' = {} /\ Queued' = {}
  BY <1>1, <1>2 DEF Kept, InHand, Queued
<1>4. Queued \subseteq WriterRecord
  BY Numbers
<1>5. StoreTyped' /\ TakesTurns' /\ QueueOrdered'
  BY <1>1, <1>2, <1>4 DEF IInv, StoreTyped, TakesTurns, QueueOrdered
<1>6. OfferedApart' /\ Conserved'
  BY <1>1, <1>3 DEF IInv, OfferedApart, Conserved
<1>7. FileShape' /\ AckedComplete' /\ MemoryOrdered'
  BY <1>1 DEF IInv, FileShape, AckedComplete, MemoryOrdered
<1>8. LinesOrdered' /\ MemoryComplete'
  BY <1>1, <1>3 DEF IInv, LinesOrdered, MemoryComplete
<1> QED
  BY <1>5, <1>6, <1>7, <1>8 DEF IInv

-----------------------------------------------------------------------------
(* Once the task has ended the reopened log has the file to itself.        *)

LogKeepsTask == task = "ended" /\ UNCHANGED <<sender, queue, task, hand, accepted, refused, lost>>

\* The log's record is none of the task's and none acknowledged before.
LEMMA LogAlone ==
  ASSUME IInv, LogKeepsTask
  PROVE  /\ file \in Seq(Piece) /\ Len(file) \in Nat
         /\ next \in Nat /\ next \notin WriterRecord /\ next \notin acked
         /\ Queued' = Queued /\ InHand = {} /\ InHand' = {}
         /\ log \in {"text", "newline"} => next \in Record
         /\ OlderThan(file, next + 1)
<1>1. file \in Seq(Piece) /\ Len(file) \in Nat /\ next \in Nat
  BY Numbers DEF IInv, StoreTyped
<1>2. next \notin WriterRecord /\ next \notin acked
  BY <1>1 DEF IInv, TakesTurns
<1>3. OlderThan(file, next + 1)
  <2>1. next < next + 1 /\ \A m \in Nat : m < next => m < next + 1
    BY <1>1
  <2>2. CASE log # "newline"
    BY <2>1, <2>2, Numbers DEF IInv, FileShape, OlderThan
  <2>3. CASE log = "newline"
    <3>1. file[Len(file)].rec = next
      BY <1>1, <2>3 DEF IInv, FileShape, Line
    <3>2. \A i \in 1 .. Len(file) : i < Len(file) \/ i = Len(file)
      BY <1>1
    <3> QED
      BY <2>1, <2>3, <3>1, <3>2, Numbers DEF IInv, FileShape, OlderThan
  <2> QED
    BY <2>2, <2>3
<1> QED
  BY <1>1, <1>2, <1>3 DEF LogKeepsTask, Queued, InHand, IInv, StoreTyped

(* What a step of the log owes to the part of the invariant that is about  *)
(* the task: it takes none of the task's records out of the file, except   *)
(* by a power loss, and puts none in.                                      *)
LEMMA LogSparesTask ==
  ASSUME IInv, LogKeepsTask,
         file' \in Seq(Piece), InOrder(file'), Kept' \subseteq Kept,
         log' \in {"closed", "idle", "text", "newline"},
         log' \in {"text", "newline"} => next' \in Record,
         next' \in {next, next + 1},
         acked' \in SUBSET Record, \A r \in acked' : r < next',
         power' \in BOOLEAN, power' => power /\ Kept' = Kept
  PROVE  /\ StoreTyped' /\ TakesTurns' /\ QueueOrdered' /\ OfferedApart'
         /\ Conserved' /\ LinesOrdered'
<1>1. /\ task = "ended" /\ UNCHANGED <<queue, task, hand, accepted, refused, lost>>
      /\ Queued' = Queued /\ InHand = {} /\ InHand' = {} /\ next \in Nat
  BY LogAlone DEF LogKeepsTask
<1>2. next' \in Nat /\ \A w \in WriterRecord : w < next'
  <2>1. \A w \in WriterRecord : w \in Nat /\ w < next
    BY Numbers DEF IInv, TakesTurns
  <2> QED
    BY <1>1, <2>1
<1>3. StoreTyped'
  BY <1>1, <1>2 DEF IInv, StoreTyped
<1>4. TakesTurns' /\ QueueOrdered'
  BY <1>1, <1>2 DEF IInv, TakesTurns, QueueOrdered
<1>5. OfferedApart' /\ Conserved' /\ LinesOrdered'
  BY <1>1 DEF IInv, OfferedApart, Conserved, LinesOrdered
<1> QED
  BY <1>3, <1>4, <1>5

(* The log's instance of the file module reads what the module reads.       *)
LEMMA LogParsed == Log!Parsed(file) = Parsed(file)
<1> DEFINE lines == {i \in DOMAIN file : file[i].kind = "line"}
           upTo(i) == {j \in lines : j <= i}
           logChoice(k) == CHOOSE i \in lines : Log!Cardinality(upTo(i)) = k
           choice(k) == CHOOSE i \in lines : Cardinality(upTo(i)) = k
<1>1. \A S : Log!Cardinality(S) = Cardinality(S)
  BY DEF Log!Cardinality, Cardinality
<1>2. \A k : logChoice(k) = choice(k)
  <2> TAKE k
  <2>1. \A i : (i \in lines /\ Log!Cardinality(upTo(i)) = k)
                 <=> (i \in lines /\ Cardinality(upTo(i)) = k)
    BY <1>1
  <2> QED
    BY <2>1, Zenon
<1>3. Log!Cardinality(lines) = Cardinality(lines)
  BY <1>1
<1>4. Log!Parsed(file) = [k \in 1 .. Log!Cardinality(lines) |-> file[logChoice(k)].rec]
  BY DEF Log!Parsed
<1>5. Parsed(file) = [k \in 1 .. Cardinality(lines) |-> file[choice(k)].rec]
  BY DEF Parsed
<1> HIDE DEF lines, upTo, logChoice, choice
<1> QED
  BY <1>2, <1>3, <1>4, <1>5

(* open() reads the records of the lines, in the order of the file.        *)
LEMMA OpenIInv ==
  ASSUME IInv, Log!Open, LogKeepsTask
  PROVE  IInv'
<1>1. /\ log = "closed" /\ log' = "idle" /\ mem' = Parsed(file)
      /\ UNCHANGED <<file, next, acked, power>>
  BY LogParsed DEF Log!Open
<1>2. Kept' = Kept /\ file \in Seq(Piece) /\ next \in Nat
  BY <1>1, LogAlone DEF Kept
<1>3. StoreTyped' /\ TakesTurns' /\ QueueOrdered' /\ OfferedApart' /\ Conserved' /\ LinesOrdered'
  BY <1>1, <1>2, LogSparesTask DEF IInv, StoreTyped, TakesTurns, LinesOrdered
<1>4. FileShape' /\ AckedComplete'
  BY <1>1, LogAlone DEF LogKeepsTask, IInv, FileShape, AckedComplete
<1> DEFINE lines == {i \in DOMAIN file : file[i].kind = "line"}
<1>5. PICK line \in [DOMAIN mem' -> lines] :
        /\ DOMAIN mem' = 1 .. Cardinality(lines) /\ Cardinality(lines) \in Nat
        /\ \A k \in DOMAIN mem' : mem'[k] = file[line[k]].rec
        /\ \A j, k \in DOMAIN mem' : j < k => line[j] < line[k]
        /\ \A i \in lines : \E k \in DOMAIN mem' : line[k] = i
  BY <1>1, <1>2, ParsedLines
<1>6. \A i \in lines : /\ i \in 1 .. Len(file) /\ file[i].kind = "line"
                       /\ file[i].rec \in Nat /\ file[i].rec < next
  BY <1>1, <1>2, FileElements, Numbers DEF IInv, FileShape, OlderThan
<1>7. \A k \in DOMAIN mem' : line[k] \in lines
  BY <1>5
<1>8. mem' \in Seq(Nat) /\ DOMAIN mem' = 1 .. Len(mem')
  <2>1. mem' \in [1 .. Cardinality(lines) -> Nat]
    <3>1. mem' = [k \in DOMAIN mem' |-> mem'[k]]
      BY <1>1 DEF Parsed
    <3> HIDE DEF lines
    <3> QED
      BY <1>5, <1>6, <1>7, <3>1
  <2> HIDE DEF lines
  <2>2. mem' \in Seq(Nat)
    BY <1>5, <2>1, SeqDef
  <2> QED
    BY <2>2, LenProperties
<1>9. MemoryOrdered'
  <2> HIDE DEF lines
  <2>1. \A i \in 1 .. Len(mem') : mem'[i] < next
    BY <1>5, <1>6, <1>7, <1>8
  <2>2. ASSUME NEW i \in 1 .. Len(mem'), NEW j \in 1 .. Len(mem'), i < j
        PROVE  mem'[i] < mem'[j]
    <3>1. line[i] < line[j] /\ mem'[i] = file[line[i]].rec /\ mem'[j] = file[line[j]].rec
      BY <1>5, <1>8, <2>2
    <3>2. line[i] \in lines /\ line[j] \in lines
      BY <1>7, <1>8
    <3> QED
      BY <1>6, <3>1, <3>2 DEF IInv, LinesOrdered, InOrder
  <2> QED
    BY <1>1, <1>8, <2>1, <2>2 DEF MemoryOrdered
<1>10. MemoryComplete'
  <2> SUFFICES ASSUME power, NEW r \in Kept \cup acked
               PROVE  \E i \in 1 .. Len(mem') : mem'[i] = r
    BY <1>1, <1>2 DEF MemoryComplete
  <2>1. r \in Written(file)
    BY DEF Kept, IInv, AckedComplete
  <2>2. PICK i \in 1 .. Len(file) : file[i].kind = "line" /\ file[i].rec = r
    BY <1>2, <2>1, WrittenLines
  <2>3. i \in lines
    BY <1>2, <2>2, FileElements
  <2> HIDE DEF lines
  <2> QED
    BY <1>5, <1>8, <2>2, <2>3
<1> QED
  BY <1>3, <1>4, <1>9, <1>10 DEF IInv

(* An append that has not written yet changes nothing in the file.         *)
LEMMA BeginAppendIInv ==
  ASSUME IInv, Log!BeginAppend, LogKeepsTask
  PROVE  IInv'
<1>1. /\ log = "idle" /\ log' = "text" /\ next \in Record
      /\ UNCHANGED <<mem, file, next, acked, power>>
  BY DEF Log!BeginAppend
<1>2. Kept' = Kept /\ file \in Seq(Piece) /\ next \in Nat
  BY <1>1, LogAlone DEF Kept
<1>3. StoreTyped' /\ TakesTurns' /\ QueueOrdered' /\ OfferedApart' /\ Conserved' /\ LinesOrdered'
  BY <1>1, <1>2, LogSparesTask DEF IInv, StoreTyped, TakesTurns, LinesOrdered
<1>4. FileShape' /\ AckedComplete' /\ MemoryOrdered' /\ MemoryComplete'
  BY <1>1, <1>2 DEF LogKeepsTask, IInv, FileShape, AckedComplete, MemoryOrdered, MemoryComplete
<1> QED
  BY <1>3, <1>4 DEF IInv

(* The text of the log's record goes behind everything older.              *)
LEMMA LogWriteTextIInv ==
  ASSUME IInv, Log!WriteText, LogKeepsTask
  PROVE  IInv'
<1>1. /\ log = "text" /\ log' = "newline" /\ file' = Append(file, Line(next))
      /\ UNCHANGED <<mem, next, acked, power>>
  BY DEF Log!WriteText, Log!Line, Line
<1>2. /\ file \in Seq(Piece) /\ next \in Record /\ next \in Nat
      /\ next \notin WriterRecord /\ next \notin acked
  BY <1>1, LogAlone
<1>3. Line(next) \in Piece /\ Line(next).kind = "line" /\ Line(next).rec = next
  BY <1>2, PieceKinds
<1>4. /\ file' \in Seq(Piece) /\ Len(file) \in Nat /\ Len(file') = Len(file) + 1
      /\ \A i \in 1 .. Len(file) : file'[i] = file[i]
      /\ file'[Len(file) + 1] = Line(next)
      /\ Written(file') = Written(file) \cup {next}
  BY <1>1, <1>2, <1>3, AppendPiece
<1>5. OlderThan(file, next)
  BY <1>1 DEF IInv, FileShape
<1>6. \A r \in Written(file) : r < next
  BY <1>2, <1>5, WrittenLines DEF OlderThan
<1>7. Kept' = Kept
  BY <1>2, <1>4 DEF Kept
<1>8. InOrder(file')
  BY <1>1, <1>2, <1>3, <1>6, AppendShape DEF IInv, LinesOrdered
<1>9. StoreTyped' /\ TakesTurns' /\ QueueOrdered' /\ OfferedApart' /\ Conserved' /\ LinesOrdered'
  BY <1>1, <1>2, <1>4, <1>7, <1>8, LogSparesTask DEF IInv, StoreTyped, TakesTurns
<1>10. FileShape'
  <2>1. NewlinesEndLines(file')
    BY <1>1, <1>2, <1>3, AppendShape DEF IInv, FileShape
  <2>2. \A i \in 1 .. Len(file') : i < Len(file') => i \in 1 .. Len(file)
    BY <1>4
  <2>3. \A i \in 1 .. Len(file') : i < Len(file') /\ file'[i].kind # "nl" => file'[i].rec < next
    BY <1>4, <1>5, <2>2 DEF OlderThan
  <2>4. Len(file') > 0
    BY <1>4
  <2> QED
    BY <1>1, <1>4, <2>1, <2>3, <2>4 DEF LogKeepsTask, FileShape
<1>11. AckedComplete'
  BY <1>1, <1>2, <1>3, <1>4, AppendShape DEF IInv, AckedComplete
<1>12. MemoryOrdered' /\ MemoryComplete'
  BY <1>1, <1>7 DEF IInv, MemoryOrdered, MemoryComplete
<1> QED
  BY <1>9, <1>10, <1>11, <1>12 DEF IInv

(* With its newline the record is acknowledged and goes into memory.       *)
LEMMA LogWriteNewlineIInv ==
  ASSUME IInv, Log!WriteNewline, LogKeepsTask
  PROVE  IInv'
<1>1. /\ log = "newline" /\ log' = "idle" /\ file' = Append(file, Newline)
      /\ mem' = Append(mem, next) /\ acked' = acked \cup {next} /\ next' = next + 1
      /\ UNCHANGED power
  BY DEF Log!WriteNewline, Log!Newline, Newline
<1>2. /\ file \in Seq(Piece) /\ next \in Record /\ next \in Nat /\ next < next + 1
      /\ next \notin acked /\ OlderThan(file, next + 1)
  BY <1>1, LogAlone
<1>3. Newline \in Piece /\ Newline.kind = "nl"
  BY PieceKinds
<1>4. /\ file' \in Seq(Piece) /\ Len(file) \in Nat /\ Len(file') = Len(file) + 1
      /\ \A i \in 1 .. Len(file) : file'[i] = file[i]
      /\ file'[Len(file) + 1] = Newline
      /\ Written(file') = Written(file)
  BY <1>1, <1>2, <1>3, AppendPiece
<1>5. Kept' = Kept
  BY <1>4 DEF Kept
<1>6. InOrder(file')
  BY <1>1, <1>2, <1>3, AppendShape DEF IInv, LinesOrdered
<1>7. Len(file) > 0 /\ file[Len(file)] = Line(next)
  BY <1>1 DEF IInv, FileShape
<1>8. \A r \in acked' : r \in Record /\ r \in Nat /\ r < next'
  <2>1. \A r \in acked : r \in Record /\ r \in Nat /\ r < next
    BY Numbers DEF IInv, StoreTyped, TakesTurns
  <2>2. \A r \in acked : r < next + 1
    BY <1>2, <2>1
  <2> QED
    BY <1>1, <1>2, <2>1, <2>2
<1>9. StoreTyped' /\ TakesTurns' /\ QueueOrdered' /\ OfferedApart' /\ Conserved' /\ LinesOrdered'
  <2>1. power \in BOOLEAN
    BY DEF IInv, StoreTyped
  <2> QED
    BY <1>1, <1>4, <1>5, <1>6, <1>8, <2>1, LogSparesTask
<1>10. FileShape'
  <2>1. NewlinesEndLines(file')
    BY <1>1, <1>2, <1>3, <1>7, PieceKinds, AppendShape DEF IInv, FileShape
  <2>2. OlderThan(file', next')
    BY <1>1, <1>2, <1>3, AppendShape
  <2> QED
    BY <1>1, <2>1, <2>2 DEF LogKeepsTask, FileShape
<1>11. AckedComplete'
  <2> SUFFICES ASSUME power PROVE acked' \subseteq Written(file') /\ Finished(file', acked')
    BY <1>1 DEF AckedComplete
  <2>1. next \in Written(file)
    <3>1. Len(file) \in 1 .. Len(file)
      BY <1>4, <1>7
    <3>2. file[Len(file)].kind = "line" /\ file[Len(file)].rec = next
      BY <1>2, <1>7, PieceKinds
    <3> QED
      BY <1>2, <3>1, <3>2, WrittenLines
  <2>2. acked' \subseteq Written(file')
    BY <1>1, <1>4, <2>1 DEF IInv, AckedComplete
  <2>3. Finished(file', acked)
    BY <1>1, <1>2, <1>3, AppendShape DEF IInv, AckedComplete
  <2>4. ASSUME NEW i \in 1 .. Len(file'), file'[i].kind # "nl", file'[i].rec = next
        PROVE  file'[i].kind = "line" /\ i < Len(file') /\ file'[i + 1].kind = "nl"
    <3>1. i \in 1 .. Len(file)
      BY <1>3, <1>4, <2>4
    <3>2. file[i].kind # "nl" /\ file[i].rec = next
      BY <1>4, <2>4, <3>1
    <3>3. ~(i < Len(file))
      BY <1>1, <1>2, <3>1, <3>2 DEF IInv, FileShape
    <3>4. i = Len(file)
      BY <1>4, <3>1, <3>3
    <3> QED
      BY <1>2, <1>3, <1>4, <1>7, <3>1, <3>4, PieceKinds
  <2> QED
    BY <1>1, <2>2, <2>3, <2>4 DEF Finished
<1>12. /\ mem' \in Seq(Nat) /\ Len(mem) \in Nat /\ Len(mem') = Len(mem) + 1
       /\ \A i \in 1 .. Len(mem) : mem'[i] = mem[i] /\ mem[i] \in Nat /\ mem[i] < next
       /\ mem'[Len(mem) + 1] = next
  BY <1>1, <1>2, AppendProperties, LenProperties, ElementOfSeq DEF IInv, MemoryOrdered
<1>13. /\ \A i \in 1 .. Len(mem') : i \in 1 .. Len(mem) \/ i = Len(mem) + 1
       /\ \A i, j \in 1 .. Len(mem') : i < j => i \in 1 .. Len(mem)
       /\ Len(mem) + 1 \in 1 .. Len(mem') /\ \A i \in 1 .. Len(mem) : i \in 1 .. Len(mem')
  BY <1>12
<1>14. MemoryOrdered'
  <2>1. \A i \in 1 .. Len(mem') : mem'[i] < next'
    BY <1>1, <1>2, <1>12, <1>13
  <2>2. \A i, j \in 1 .. Len(mem') : i < j => mem'[i] < mem'[j]
    BY <1>12, <1>13 DEF IInv, MemoryOrdered
  <2> QED
    BY <1>12, <2>1, <2>2 DEF MemoryOrdered
<1>15. MemoryComplete'
  BY <1>1, <1>5, <1>12, <1>13 DEF IInv, MemoryComplete
<1> QED
  BY <1>9, <1>10, <1>11, <1>14, <1>15 DEF IInv

(* A failed append gives its record up: nothing older is touched.          *)
LEMMA AppendFailsIInv ==
  ASSUME IInv, Log!AppendFails, LogKeepsTask
  PROVE  IInv'
<1>1. /\ log \in {"text", "newline"} /\ log' = "idle" /\ next' = next + 1
      /\ file' \in {file, Append(file, Torn(next))}
      /\ UNCHANGED <<mem, acked, power>>
  BY DEF Log!AppendFails, Log!Torn, Torn
<1>2. /\ file \in Seq(Piece) /\ next \in Record /\ next \in Nat /\ next < next + 1
      /\ next \notin acked /\ OlderThan(file, next + 1)
  BY <1>1, LogAlone
<1>3. file' \in Seq(Piece) /\ Written(file') = Written(file) /\ Kept' = Kept
  BY <1>1, <1>2, TornFile DEF Kept
<1>4. InOrder(file') /\ NewlinesEndLines(file') /\ OlderThan(file', next')
  BY <1>1, <1>2, TornFile DEF IInv, LinesOrdered, FileShape
<1>5. \A r \in acked : r \in Nat /\ r < next'
  <2>1. \A r \in acked : r \in Nat /\ r < next
    BY Numbers DEF IInv, StoreTyped, TakesTurns
  <2> QED
    BY <1>1, <1>2, <2>1
<1>6. StoreTyped' /\ TakesTurns' /\ QueueOrdered' /\ OfferedApart' /\ Conserved' /\ LinesOrdered'
  <2>1. power \in BOOLEAN /\ acked \in SUBSET Record
    BY DEF IInv, StoreTyped
  <2> QED
    BY <1>1, <1>3, <1>4, <1>5, <2>1, LogSparesTask
<1>7. FileShape'
  BY <1>1, <1>4 DEF LogKeepsTask, FileShape
<1>8. AckedComplete'
  BY <1>1, <1>2, <1>3, TornFile DEF IInv, AckedComplete
<1>9. MemoryOrdered'
  <2>1. \A i \in 1 .. Len(mem) : mem[i] \in Nat /\ mem[i] < next
    BY LenProperties, ElementOfSeq DEF IInv, MemoryOrdered
  <2>2. \A i \in 1 .. Len(mem) : mem[i] < next + 1
    BY <1>2, <2>1
  <2> QED
    BY <1>1, <2>2 DEF IInv, MemoryOrdered
<1>10. MemoryComplete'
  BY <1>1, <1>3 DEF IInv, MemoryComplete
<1> QED
  BY <1>6, <1>7, <1>8, <1>9, <1>10 DEF IInv

(* What a kill and a power loss have in common: memory is gone.            *)
LEMMA MemoryGone ==
  ASSUME mem' = <<>>, log' = "closed"
  PROVE  MemoryOrdered' /\ MemoryComplete'
<1>1. mem' \in Seq(Nat) /\ Len(mem') = 0
  BY EmptySeq
<1> QED
  BY <1>1 DEF MemoryOrdered, MemoryComplete

(* A kill gives up the record being appended, and memory.                  *)
LEMMA KillIInv ==
  ASSUME IInv, Log!Kill, LogKeepsTask
  PROVE  IInv'
<1>1. /\ log # "closed" /\ log' = "closed" /\ mem' = <<>>
      /\ file' \in IF log = "text" THEN {file, Append(file, Torn(next))} ELSE {file}
      /\ next' = IF log = "idle" THEN next ELSE next + 1
      /\ UNCHANGED <<acked, power>>
  BY DEF Log!Kill, Log!Torn, Torn
<1>2. /\ file \in Seq(Piece) /\ next \in Nat /\ next < next + 1
      /\ next \notin acked /\ OlderThan(file, next + 1)
      /\ log \in {"text", "newline"} => next \in Record
  BY LogAlone
<1>3. /\ file' \in Seq(Piece) /\ Written(file') = Written(file)
      /\ NewlinesEndLines(file') /\ InOrder(file') /\ OlderThan(file', next')
      /\ Finished(file, acked) => Finished(file', acked)
  <2>1. CASE log = "text"
    BY <1>1, <1>2, <2>1, TornFile DEF IInv, LinesOrdered, FileShape
  <2>2. CASE log = "idle"
    BY <1>1, <1>2, <2>2 DEF IInv, LinesOrdered, FileShape
  <2>3. CASE log = "newline"
    BY <1>1, <1>2, <2>3 DEF IInv, LinesOrdered, FileShape
  <2> QED
    BY <1>1, <2>1, <2>2, <2>3 DEF IInv, StoreTyped
<1>4. Kept' = Kept /\ next' \in {next, next + 1}
  BY <1>1, <1>3 DEF Kept
<1>5. \A r \in acked : r < next'
  <2>1. \A r \in acked : r \in Nat /\ r < next
    BY Numbers DEF IInv, StoreTyped, TakesTurns
  <2> QED
    BY <1>2, <1>4, <2>1
<1>6. StoreTyped' /\ TakesTurns' /\ QueueOrdered' /\ OfferedApart' /\ Conserved' /\ LinesOrdered'
  <2>1. power \in BOOLEAN /\ acked \in SUBSET Record
    BY DEF IInv, StoreTyped
  <2> QED
    BY <1>1, <1>3, <1>4, <1>5, <2>1, LogSparesTask
<1>7. FileShape'
  BY <1>1, <1>3 DEF LogKeepsTask, FileShape
<1>8. AckedComplete'
  BY <1>1, <1>3 DEF IInv, AckedComplete
<1> QED
  BY <1>1, <1>6, <1>7, <1>8, MemoryGone DEF IInv

(* A power loss may take any end of the file.                              *)
LEMMA PowerLossIInv ==
  ASSUME IInv, Log!PowerLoss, LogKeepsTask
  PROVE  IInv'
<1>1. /\ log # "closed" /\ log' = "closed" /\ mem' = <<>> /\ power' = FALSE
      /\ next' = IF log = "idle" THEN next ELSE next + 1
      /\ UNCHANGED acked
  BY DEF Log!PowerLoss
<1>2. PICK k \in 0 .. Len(file) : file' = SubSeq(file, 1, k)
  BY DEF Log!PowerLoss
<1>3. file \in Seq(Piece) /\ next \in Nat /\ OlderThan(file, next + 1) /\ next' \in {next, next + 1}
  BY <1>1, LogAlone
<1>4. file' \in Seq(Piece) /\ Kept' \subseteq Kept
  BY <1>2, <1>3, CutFile DEF Kept
<1>5. OlderThan(file, next')
  BY <1>1, <1>3 DEF IInv, FileShape
<1>6. NewlinesEndLines(file') /\ InOrder(file') /\ OlderThan(file', next')
  BY <1>2, <1>3, <1>5, CutShape DEF IInv, LinesOrdered, FileShape
<1>7. \A r \in acked : r < next'
  <2>1. \A r \in acked : r \in Nat /\ r < next
    BY Numbers DEF IInv, StoreTyped, TakesTurns
  <2> QED
    BY <1>3, <2>1
<1>8. StoreTyped' /\ TakesTurns' /\ QueueOrdered' /\ OfferedApart' /\ Conserved' /\ LinesOrdered'
  <2>1. acked \in SUBSET Record
    BY DEF IInv, StoreTyped
  <2> QED
    BY <1>1, <1>3, <1>4, <1>6, <1>7, <2>1, LogSparesTask
<1>9. FileShape' /\ AckedComplete'
  BY <1>1, <1>6 DEF LogKeepsTask, FileShape, AckedComplete
<1> QED
  BY <1>1, <1>8, <1>9, MemoryGone DEF IInv

-----------------------------------------------------------------------------
(* The daemon starts with an empty channel and an empty file.              *)
LEMMA InitIInv == StoreInit => IInv
<1> SUFFICES ASSUME StoreInit PROVE IInv
  OBVIOUS
<1>1. /\ queue = <<>> /\ task = "recv" /\ file = <<>> /\ accepted = {} /\ refused = {}
      /\ lost = {} /\ log = "closed" /\ mem = <<>> /\ acked = {} /\ power = TRUE
      /\ next = FirstOfLog
  BY DEF StoreInit, Init
<1>2. /\ queue \in Seq(WriterRecord) /\ Len(queue) = 0 /\ DOMAIN queue = {}
      /\ file \in Seq(Piece) /\ Len(file) = 0 /\ DOMAIN file = {}
      /\ mem \in Seq(Nat) /\ Len(mem) = 0
  BY <1>1, EmptySeq
<1>3. 1 .. Len(queue) = {} /\ 1 .. Len(file) = {} /\ 1 .. Len(mem) = {}
  BY <1>2
<1>4. Written(file) = {} /\ Queued = {} /\ Kept = {} /\ InHand = {}
  BY <1>1, <1>2 DEF Written, Queued, Kept, InHand
<1>5. StoreTyped /\ TakesTurns
  BY <1>1, <1>2, FirstOfLogIsLater DEF StoreTyped, TakesTurns
<1>6. QueueOrdered /\ OfferedApart /\ Conserved
  BY <1>1, <1>3, <1>4 DEF QueueOrdered, OfferedApart, Conserved
<1>7. FileShape /\ AckedComplete /\ LinesOrdered
  BY <1>1, <1>3, <1>4 DEF FileShape, AckedComplete, LinesOrdered,
     NewlinesEndLines, OlderThan, InOrder, Finished
<1>8. MemoryOrdered /\ MemoryComplete
  BY <1>1, <1>2, <1>3 DEF MemoryOrdered, MemoryComplete
<1> QED
  BY <1>5, <1>6, <1>7, <1>8 DEF IInv

(* Every step of either writer preserves the invariant.                    *)
LEMMA NextIInv == IInv /\ [StoreNext]_storeVars => IInv'
<1> SUFFICES ASSUME IInv, [StoreNext]_storeVars PROVE IInv'
  OBVIOUS
<1>1. ASSUME NEW r \in WriterRecord, Fresh(r), TryRecord(r), UNCHANGED logVars PROVE IInv'
  BY <1>1, SendIInv, RefuseIInv DEF TryRecord
<1>2. ASSUME NEW r \in WriterRecord, Fresh(r), RecordAwait(r), UNCHANGED logVars PROVE IInv'
  BY <1>2, SendIInv DEF RecordAwait
<1>3. CASE (DropSender \/ NewlineFails \/ EndOfChannel) /\ UNCHANGED logVars
  BY <1>3, TaskPausesIInv
<1>4. CASE RuntimeShutdown /\ UNCHANGED logVars
  BY <1>4, ShutdownIInv
<1>5. CASE (Recv \/ WriteText \/ WriteNewline \/ TextFails) /\ UNCHANGED logVars
  BY <1>5, RecvIInv, WriteTextIInv, WriteNewlineIInv, TextFailsIInv
<1>6. CASE LogStep
  <2>1. LogKeepsTask /\ Log!Next
    BY <1>6 DEF LogStep, LogKeepsTask
  <2> QED
    BY <2>1, OpenIInv, BeginAppendIInv, LogWriteTextIInv, LogWriteNewlineIInv,
       AppendFailsIInv, KillIInv, PowerLossIInv DEF Log!Next
<1>7. CASE UNCHANGED storeVars
  <2>1. UNCHANGED <<queue, task, hand, file, accepted, refused, lost, log, mem, next, acked, power>>
    BY <1>7 DEF storeVars, vars, logVars
  <2>2. Kept' = Kept /\ InHand' = InHand /\ Queued' = Queued
    BY <2>1 DEF Kept, InHand, Queued
  <2>3. StoreTyped' /\ TakesTurns' /\ QueueOrdered'
    BY <2>1 DEF IInv, StoreTyped, TakesTurns, QueueOrdered
  <2>4. OfferedApart' /\ Conserved' /\ MemoryComplete'
    BY <2>1, <2>2 DEF IInv, OfferedApart, Conserved, MemoryComplete
  <2>5. FileShape' /\ AckedComplete' /\ LinesOrdered' /\ MemoryOrdered'
    BY <2>1 DEF IInv, FileShape, AckedComplete, LinesOrdered, MemoryOrdered
  <2> QED
    BY <2>3, <2>4, <2>5 DEF IInv
<1> QED
  BY <1>1, <1>2, <1>3, <1>4, <1>5, <1>6, <1>7 DEF StoreNext, WriterStep, TaskStep

(* The invariant always holds.                                             *)
LEMMA StoreInvariant == StoreSpec => []IInv
  BY InitIInv, NextIInv, PTL DEF StoreSpec

-----------------------------------------------------------------------------
(* A channel in the order of its records holds each of them once.          *)
LEMMA QueuedOnce ==
  ASSUME IInv
  PROVE  Cardinality(Queued) = Len(queue)
<1> DEFINE n == Len(queue)
           g == [i \in 1 .. n |-> queue[i]]
<1>1. n \in Nat /\ Queued = {queue[i] : i \in 1 .. n} /\ \A i \in 1 .. n : queue[i] \in Nat
  BY Numbers
<1>2. \A i, j \in 1 .. n : queue[i] = queue[j] => i = j
  <2> SUFFICES ASSUME NEW i \in 1 .. n, NEW j \in 1 .. n, i # j PROVE queue[i] # queue[j]
    OBVIOUS
  <2>1. i < j \/ j < i
    BY <1>1
  <2> QED
    BY <1>1, <2>1 DEF IInv, QueueOrdered
<1> HIDE DEF n
<1>3. g \in Bijection(1 .. n, Queued)
  <2>1. g \in Injection(1 .. n, Queued)
    BY <1>1, <1>2 DEF Injection, IsInjective
  <2>2. g \in Surjection(1 .. n, Queued)
    BY <1>1 DEF Surjection
  <2> QED
    BY <2>1, <2>2 DEF Bijection
<1>4. IsFiniteSet(1 .. n) /\ Cardinality(1 .. n) = n
  BY <1>1, FS_Interval
<1>5. ExistsBijection(1 .. n, Queued)
  BY <1>3 DEF ExistsBijection
<1>6. Cardinality(Queued) = Cardinality(1 .. n)
  BY <1>4, <1>5, FS_Bijection
<1> QED
  BY <1>4, <1>6 DEF n

(* No record that is in the file was refused, and all of the task's that   *)
(* are there were offered.                                                 *)
LEMMA StoredIsKept ==
  ASSUME IInv
  PROVE  Stored = Kept
  BY DEF IInv, StoreTyped, OfferedApart, Stored, Offered, Kept

(* Up to a power loss every record the writer accepted is in exactly one   *)
(* place, whatever the sizes: the channel, the task's hand, the file or    *)
(* lost, through the shutdown and everything the reopened log appends.     *)
THEOREM RecordsConserved == StoreSpec => []NoRecordVanishes
<1>1. IInv => NoRecordVanishes
  <2> SUFFICES ASSUME IInv, power PROVE EachRecordInOnePlace
    BY DEF NoRecordVanishes
  <2> QED
    BY QueuedOnce, StoredIsKept DEF EachRecordInOnePlace, IInv, Conserved
<1> QED
  BY <1>1, StoreInvariant, PTL

(* Up to a power loss what the task wrote and what append() acknowledged   *)
(* stays in the file, and open() brings all of it back to memory, across   *)
(* any number of failed appends, kills and restarts.                       *)
THEOREM WrittenIsResumed == StoreSpec => []RecordsAreKept
<1>1. IInv => RecordsAreKept
  <2> SUFFICES ASSUME IInv, power PROVE RecordsAreKept
    BY DEF RecordsAreKept
  <2>1. acked \subseteq Written(file)
    BY DEF IInv, AckedComplete
  <2>2. Log!Written(file) = Written(file)
    BY DEF Log!Written, Written, Log!Line, Line
  <2>3. DOMAIN mem = 1 .. Len(mem)
    BY LenProperties DEF IInv, MemoryOrdered
  <2>4. log # "closed" => \A r \in Kept \cup acked : \E i \in DOMAIN mem : mem[i] = r
    BY <2>3 DEF IInv, MemoryComplete
  <2> QED
    BY <2>1, <2>2, <2>4, StoredIsKept DEF RecordsAreKept, Log!AckedIsKept
<1> QED
  BY <1>1, StoreInvariant, PTL

(* The open log lists its records in the order they were made, each once,  *)
(* whatever failed writes, kills, power losses and reopenings came before. *)
THEOREM LogKeepsOrder == StoreSpec => []LogInAppendOrder
<1>1. IInv => LogInAppendOrder
  <2> SUFFICES ASSUME IInv PROVE LogInAppendOrder
    OBVIOUS
  <2>1. DOMAIN mem = 1 .. Len(mem)
    BY LenProperties DEF IInv, MemoryOrdered
  <2> QED
    BY <2>1 DEF IInv, MemoryOrdered, LogInAppendOrder, Log!LogInAppendOrder
<1> QED
  BY <1>1, StoreInvariant, PTL

(* A file that no power loss touched and that open() cannot read holds a   *)
(* record whose append was cut off: it has no newline behind it, and no    *)
(* append() that returned Ok wrote it.                                     *)
THEOREM CutAppendExplainsUnreadable == StoreSpec => []UnreadableOnlyAfterCutAppend
<1>1. IInv => UnreadableOnlyAfterCutAppend
  <2> SUFFICES ASSUME IInv, power, Log!Malformed(file)
               PROVE  \E i \in DOMAIN file : /\ file[i].kind # "nl" /\ file[i].rec \notin acked
                                             /\ i < Len(file) => file[i + 1].kind # "nl"
    BY DEF UnreadableOnlyAfterCutAppend, Log!UnreadableOnlyAfterCutAppend
  <2>1. /\ Len(file) \in Nat /\ DOMAIN file = 1 .. Len(file)
        /\ NewlinesEndLines(file) /\ Finished(file, acked)
    BY FileElements DEF IInv, StoreTyped, FileShape, AckedComplete
  <2>2. PICK i \in 1 .. Len(file) : \/ file[i].kind = "torn"
                                    \/ file[i].kind = "line" /\ i > 1 /\ file[i - 1].kind # "nl"
    BY <2>1 DEF Log!Malformed
  <2>3. CASE file[i].kind = "torn"
    <3>1. file[i].rec \notin acked
      BY <2>1, <2>3 DEF Finished
    <3>2. i < Len(file) => file[i + 1].kind # "nl"
      <4>1. i < Len(file) => i + 1 \in 1 .. Len(file) /\ (i + 1) - 1 = i
        BY <2>1
      <4> QED
        BY <2>1, <2>3, <4>1 DEF NewlinesEndLines
    <3> QED
      BY <2>1, <2>3, <3>1, <3>2
  <2>4. CASE file[i].kind = "line" /\ i > 1 /\ file[i - 1].kind # "nl"
    <3>1. i - 1 \in 1 .. Len(file) /\ (i - 1) + 1 = i
      BY <2>1, <2>4
    <3>2. file[i - 1].rec \notin acked
      BY <2>1, <2>4, <3>1 DEF Finished
    <3> QED
      BY <2>1, <2>4, <3>1, <3>2
  <2> QED
    BY <2>2, <2>3, <2>4
<1> QED
  BY <1>1, StoreInvariant, PTL
=============================================================================
