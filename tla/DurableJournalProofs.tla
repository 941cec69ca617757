------------------------ MODULE DurableJournalProofs ------------------------
(***************************************************************************)
(* Theorems about DurableJournal, for every number of blocks, every set of *)
(* contents and every set of writes.                                       *)
(*                                                                         *)
(* Crashes are the only failures here (OnlyCrashes).  The invariant says   *)
(* that the log is a chain of records, the last of which may lack its      *)
(* newline or have the beginning of one more behind it, that the memory of *)
(* the process is what _replay would build from this file, and that the    *)
(* image the files give is the one promised.  It holds up to the first     *)
(* append behind a record without a newline (glued).                       *)
(***************************************************************************)
EXTENDS DurableJournal, WellFoundedInduction, TLAPS

\* A leaf that names no prover is tried with these, with time to spare.
USE SMTT(60), SMTT(120), ZenonT(120)

-----------------------------------------------------------------------------
(* The newest entry of a block.                                            *)

\* The order of the naturals, as a relation, is well founded.
LEMMA NatPrecedes == IsWellFoundedOn({ss \in Nat \X Nat : ss[1] < ss[2]}, Nat)
  BY NatLessThanWellFounded DEF OpToRel

\* Every set of naturals that has an element has a least one: the form of
\* induction the lemmas on log files use.
LEMMA LeastNatural ==
  ASSUME NEW T, T \subseteq Nat, T # {}
  PROVE  \E n \in T : \A m \in T : n <= m
<1> DEFINE R == {ss \in Nat \X Nat : ss[1] < ss[2]}
<1>1. PICK x \in T : \A y \in T : ~(<<y, x>> \in R)
  BY NatPrecedes, WFMin, Zenon, ZenonT(120)
<1>2. ASSUME NEW y \in T, y < x
      PROVE  FALSE
  <2>1. <<y, x>> \in Nat \X Nat /\ <<y, x>>[1] = y /\ <<y, x>>[2] = x
    BY <1>2
  <2>2. <<y, x>> \in R
    BY <1>2, <2>1
  <2>3. QED
    BY <2>2, <1>1
<1>3. QED
  BY <1>2

\* The choice that defines Newest exists: replaying the entries leaves each
\* block with the last entry that covers it, or with none.
LEMMA NewestFound ==
  ASSUME NEW entries, NEW n \in Nat, NEW b
  PROVE  /\ Newest(entries, n, b) \in 0..n
         /\ Newest(entries, n, b) > 0 => Covers(entries[Newest(entries, n, b)], b)
         /\ \A j \in Newest(entries, n, b) + 1..n : ~Covers(entries[j], b)
<1> DEFINE Bare == {k \in 0..n : \A j \in k + 1..n : ~Covers(entries[j], b)}
<1>1. n \in Bare /\ Bare \subseteq Nat
  OBVIOUS
<1>2. PICK m \in Bare : \A k \in Bare : m <= k
  BY <1>1, LeastNatural, Zenon, ZenonT(120)
<1>3. m > 0 => Covers(entries[m], b)
  <2> SUFFICES ASSUME m > 0, ~Covers(entries[m], b)
               PROVE  FALSE
    OBVIOUS
  <2>1. m - 1 \in Bare
    OBVIOUS
  <2>2. QED
    BY <2>1, <1>2
<1>4. \E k \in 0..n : /\ k > 0 => Covers(entries[k], b)
                      /\ \A j \in k + 1..n : ~Covers(entries[j], b)
  BY <1>2, <1>3
<1>5. QED
  BY <1>4, Zenon, ZenonT(120) DEF Newest

\* An entry that covers a block and that no later one covers is the newest.
LEMMA NewestUnique ==
  ASSUME NEW entries, NEW n \in Nat, NEW b, NEW k \in 0..n,
         k > 0 => Covers(entries[k], b),
         \A j \in k + 1..n : ~Covers(entries[j], b)
  PROVE  Newest(entries, n, b) = k
  BY NewestFound

-----------------------------------------------------------------------------
(* The invariant when the only failures are crashes.                       *)

\* A piece of the log file.
Piece ==
    [kind: {"newline", "padding"}] \cup [kind: {"record"}, record: LogRecord]
        \cup [kind: {"fragment"}, of: Nat \X Seq(Values)]

\* The hash the record after the first n refers to.
HashAfter(file, n) == IF n = 0 THEN <<>> ELSE RecordHash(Record(file, n))

\* n lines that continue each other; the last one may lack its newline, or the
\* beginning of one more may follow.
Shape(file, n) ==
    /\ n \in Nat
    /\ file \in Seq(Piece)
    /\ \/ Len(file) = 2 * n
       \/ Len(file) = 2 * n + 1 /\ file[2 * n + 1].kind = "fragment"
       \/ n > 0 /\ Len(file) = 2 * n - 1
    /\ \A k \in 1..n : /\ file[2 * k - 1].kind = "record"
                       /\ 2 * k <= Len(file) => file[2 * k] = Newline
    /\ \A k \in 1..n : /\ Record(file, k) \in LogRecord
                       /\ Record(file, k).sequence = k
                       /\ Record(file, k).previous_hash = HashAfter(file, k - 1)

\* The image after the first s records of a file.
At(image, file, s) ==
    [b \in Block |->
        LET k == Newest(IndexOf(file, s), s, b)
        IN  IF k = 0 THEN image[b]
            ELSE Record(file, k).data[b - Record(file, k).block + 1]]

\* The image of the files.
Current == At(base, log, Lines(log))

\* The files: the log has its shape and gives the image promised.
DiskInv ==
    /\ base \in Image
    /\ Shape(log, Lines(log))
    /\ promised \in Seq(Image) /\ promised # <<>>
    /\ Last(promised) = Current
    /\ pc # "clear" /\ interrupted = FALSE => promised = Versions(base, log)
    /\ pc = "clear" => base = Current
    /\ pc = "truncate" => Len(log) > 2 * Lines(log)

\* The memory of an open journal is what _replay would build from the log.
MemoryInv ==
    Running =>
        /\ Len(log) <= 2 * Lines(log) /\ log_size = Len(log)
        /\ index = IndexOf(log, Lines(log))
        /\ overlay = [b \in Block |-> Newest(index, Lines(log), b)]
        /\ last_hash = HashAfter(log, Lines(log))
        /\ next_sequence = Lines(log) + 1
        /\ reader = None
        /\ view \in Seq(Image) /\ Len(view) = Lines(log) + 1 /\ Last(view) = Current
        /\ pc # "clear" => view = Versions(base, log)

\* The record append is writing continues the log.
AppendInv ==
    /\ pc # "append" => inflight = None
    /\ pc = "append" => /\ inflight \in LogRecord
                        /\ [block |-> inflight.block, data |-> inflight.data] \in Writes
                        /\ inflight.sequence = next_sequence
                        /\ inflight.previous_hash = last_hash

\* A running export that no compaction overtook has copied the base its target is
\* relative to, or nothing.
ExportInv ==
    export # None =>
        /\ export = [target |-> export.target, base |-> export.base, want |-> export.want,
                     mixed |-> export.mixed]
        /\ export.mixed \in BOOLEAN
        /\ Running
        /\ export.mixed = FALSE =>
               /\ pc # "clear"
               /\ export.target \in 0..last_sequence
               /\ export.base \in {None, base}
               /\ export.want = At(base, log, export.target)

\* The inductive invariant.
JournalInv ==
    /\ pc \in {"down", "truncate", "idle", "append", "clear"}
    /\ cli = None
    /\ interrupted \in BOOLEAN
    /\ DiskInv /\ MemoryInv /\ AppendInv

-----------------------------------------------------------------------------
\* In a file of this shape, readline yields a record n times and then does not.
LEMMA ShapeParses ==
  ASSUME NEW file, NEW n, Shape(file, n)
  PROVE  /\ \A k \in 1..n : Parses(file, 2 * k - 1)
         /\ ~Parses(file, 2 * n + 1)
         /\ n \in 0..Len(file)
<1>1. n \in Nat /\ Len(file) \in Nat /\ Len(file) >= 2 * n - 1 /\ (n = 0 => Len(file) >= 0)
  BY DEF Shape
<1>2. ASSUME NEW k \in 1..n
      PROVE  Parses(file, 2 * k - 1)
  <2>1. k \in Nat /\ 2 * k - 1 <= Len(file) /\ (2 * k - 1) + 1 = 2 * k
    BY <1>1
  <2>2. 2 * k - 1 = Len(file) \/ 2 * k <= Len(file)
    BY <1>1, <2>1
  <2>3. QED
    BY <2>1, <2>2 DEF Shape, Parses
<1>3. ~Parses(file, 2 * n + 1)
  BY <1>1 DEF Shape, Parses
<1>4. QED
  BY <1>1, <1>2, <1>3

\* _replay reads exactly the n lines of a file of this shape.
LEMMA ShapeLines ==
  ASSUME NEW file, NEW n, Shape(file, n)
  PROVE  Lines(file) = n
<1>1. n \in Nat /\ Len(file) \in Nat /\ n \in 0..Len(file)
  BY ShapeParses DEF Shape
<1>2. ASSUME NEW m \in 0..Len(file), \A k \in 1..m : Parses(file, 2 * k - 1),
             ~Parses(file, 2 * m + 1)
      PROVE  m = n
  <2>1. CASE m < n
    <3>1. m + 1 \in 1..n /\ 2 * (m + 1) - 1 = 2 * m + 1
      BY <1>1, <2>1
    <3>2. QED
      BY <3>1, <1>2, ShapeParses
  <2>2. CASE m > n
    <3>1. n + 1 \in 1..m /\ 2 * (n + 1) - 1 = 2 * n + 1
      BY <1>1, <2>2
    <3>2. QED
      BY <3>1, <1>2, ShapeParses
  <2>3. QED
    BY <1>1, <2>1, <2>2
<1>3. QED
  BY <1>1, <1>2, ShapeParses DEF Lines

\* A file of this shape is all lines, or ends in a torn tail.
LEMMA ShapeRest ==
  ASSUME NEW file, NEW n, Shape(file, n)
  PROVE  /\ Len(file) <= 2 * n => Rest(file) = <<>>
         /\ Len(file) > 2 * n => Rest(file) # <<>> /\ Torn(file)
         /\ Len(file) <= 2 * n \/ Len(file) > 2 * n
<1>1. n \in Nat /\ Len(file) \in Nat /\ file \in Seq(Piece)
  BY DEF Shape
<1>2. Rest(file) = SubSeq(file, 2 * n + 1, Len(file))
  BY ShapeLines, Zenon, ZenonT(120) DEF Rest
<1>3. ASSUME Len(file) <= 2 * n
      PROVE  Rest(file) = <<>>
  BY <1>1, <1>2, <1>3
<1>4. ASSUME Len(file) > 2 * n
      PROVE  Len(Rest(file)) = 1
  <2>1. Len(file) = 2 * n + 1
    BY <1>1, <1>4 DEF Shape
  <2>2. QED
    BY <1>1, <1>2, <2>1
<1>5. ASSUME Len(file) > 2 * n
      PROVE  Rest(file) # <<>> /\ Torn(file)
  <2>1. Len(Rest(file)) = 1
    BY <1>4, <1>5
  <2>2. Rest(file) # <<>>
    BY <2>1
  <2>3. \A i \in 1..Len(Rest(file)) - 1 : FALSE
    BY <2>1
  <2>4. QED
    BY <2>2, <2>3 DEF Torn
<1>6. QED
  BY <1>1, <1>3, <1>5

\* A file of this shape passes every check of _replay.
LEMMA ShapeOpens ==
  ASSUME NEW file, NEW n, Shape(file, n)
  PROVE  Chained(file) /\ Opens(file)
<1>1. Chained(file)
  <2>1. ASSUME NEW k \in 1..n
        PROVE  /\ Record(file, k).sequence = k
               /\ Record(file, k).previous_hash = IF k = 1 THEN <<>>
                                                  ELSE RecordHash(Record(file, k - 1))
    BY <2>1 DEF Shape, HashAfter
  <2>2. QED
    BY <2>1, ShapeLines DEF Chained
<1>2. QED
  BY <1>1, ShapeRest DEF Opens

-----------------------------------------------------------------------------
\* The empty log of a new namespace has the shape.
LEMMA ShapeEmpty == Shape(<<>>, 0)
  BY DEF Shape

\* A block is a number.
LEMMA BlockNumber ==
  ASSUME NEW b \in Block
  PROVE  b \in Nat
  BY BlocksAssumption DEF Block

\* A block that c blocks from o on cover has a place among them.
LEMMA InRange ==
  ASSUME NEW b \in Nat, NEW o \in Nat, NEW c \in Nat, o <= b, b < o + c
  PROVE  b - o + 1 \in 1..c
  OBVIOUS

\* The pieces append writes for a record have their types.
LEMMA PieceTypes ==
  ASSUME NEW r \in LogRecord
  PROVE  /\ Whole(r) \in Piece /\ Whole(r).kind = "record" /\ Whole(r).record = r
         /\ Fragment(r) \in Piece /\ Fragment(r).kind = "fragment"
         /\ Newline \in Piece /\ Newline.kind = "newline"
  BY DEF LogRecord, Piece, Whole, Fragment, Newline

\* A record that continues the chain makes one more line, also without its newline.
LEMMA ShapeExtend ==
  ASSUME NEW file, NEW n, Shape(file, n), Len(file) = 2 * n,
         NEW r \in LogRecord, r.sequence = n + 1, r.previous_hash = HashAfter(file, n),
         NEW longer, longer = file \o <<Whole(r)>> \/ longer = file \o <<Whole(r), Newline>>
  PROVE  /\ Shape(longer, n + 1)
         /\ \A k \in 1..n : Record(longer, k) = Record(file, k)
         /\ Record(longer, n + 1) = r
<1>1. n \in Nat /\ n + 1 \in Nat /\ file \in Seq(Piece) /\ Len(file) = 2 * n
  BY DEF Shape
<1>2. Whole(r) \in Piece /\ Newline \in Piece
  BY PieceTypes
<1>3. /\ longer \in Seq(Piece)
      /\ \A i \in 1..2 * n : longer[i] = file[i]
      /\ longer[2 * n + 1] = Whole(r)
      /\ Len(longer) = 2 * n + 1 \/ (Len(longer) = 2 * n + 2 /\ longer[2 * n + 2] = Newline)
  <2>1. CASE longer = file \o <<Whole(r)>>
    BY <1>1, <1>2, <2>1
  <2>2. CASE longer = file \o <<Whole(r), Newline>>
    BY <1>1, <1>2, <2>2
  <2>3. QED
    BY <2>1, <2>2
<1>4. \A k \in 1..n : longer[2 * k - 1] = file[2 * k - 1] /\ longer[2 * k] = file[2 * k]
  BY <1>1, <1>3
<1>5. /\ longer[2 * (n + 1) - 1] = Whole(r)
      /\ 2 * (n + 1) <= Len(longer) => longer[2 * (n + 1)] = Newline
      /\ n + 1 > 0
      /\ Len(longer) = 2 * (n + 1) \/ Len(longer) = 2 * (n + 1) - 1
  <2>1. 2 * (n + 1) - 1 = 2 * n + 1 /\ 2 * (n + 1) = 2 * n + 2
    BY <1>1
  <2>2. QED
    BY <2>1, <1>1, <1>3
<1>6. (\A k \in 1..n : Record(longer, k) = Record(file, k)) /\ Record(longer, n + 1) = r
  BY <1>4, <1>5, PieceTypes DEF Record
<1>7. \A k \in 1..n + 1 : /\ longer[2 * k - 1].kind = "record"
                          /\ 2 * k <= Len(longer) => longer[2 * k] = Newline
  <2> TAKE k \in 1..n + 1
  <2>1. CASE k = n + 1
    BY <2>1, <1>5, PieceTypes
  <2>2. CASE k # n + 1
    BY <2>2, <1>1, <1>4 DEF Shape
  <2>3. QED
    BY <2>1, <2>2
<1>8. \A k \in 0..n : HashAfter(longer, k) = HashAfter(file, k)
  BY <1>6 DEF HashAfter
<1>9. \A k \in 1..n + 1 : /\ Record(longer, k) \in LogRecord
                          /\ Record(longer, k).sequence = k
                          /\ Record(longer, k).previous_hash = HashAfter(longer, k - 1)
  <2> TAKE k \in 1..n + 1
  <2>1. CASE k = n + 1
    <3>1. k - 1 = n /\ n \in 0..n
      BY <2>1, <1>1
    <3>2. QED
      BY <2>1, <3>1, <1>6, <1>8
  <2>2. CASE k # n + 1
    <3>1. k \in 1..n /\ k - 1 \in 0..n
      BY <2>2, <1>1
    <3>2. QED
      BY <3>1, <1>6, <1>8 DEF Shape
  <2>3. QED
    BY <2>1, <2>2
<1>10. Shape(longer, n + 1)
  BY <1>1, <1>3, <1>5, <1>7, <1>9 DEF Shape
<1>11. QED
  BY <1>6, <1>10

\* A record cut short after the lines leaves the same lines.
LEMMA ShapeFragment ==
  ASSUME NEW file, NEW n, Shape(file, n), Len(file) = 2 * n, NEW r \in LogRecord
  PROVE  LET longer == file \o <<Fragment(r)>>
         IN  /\ Shape(longer, n)
             /\ \A k \in 1..n : Record(longer, k) = Record(file, k)
<1> DEFINE longer == file \o <<Fragment(r)>>
<1>1. n \in Nat /\ file \in Seq(Piece) /\ <<Fragment(r)>> \in Seq(Piece)
  BY PieceTypes DEF Shape
<1>2. /\ longer \in Seq(Piece) /\ Len(longer) = 2 * n + 1
      /\ \A i \in 1..2 * n : longer[i] = file[i]
      /\ longer[2 * n + 1] = Fragment(r)
  BY <1>1
<1> HIDE DEF longer
<1>3. \A k \in 1..n : longer[2 * k - 1] = file[2 * k - 1] /\ longer[2 * k] = file[2 * k]
  BY <1>1, <1>2
<1>4. \A k \in 1..n : Record(longer, k) = Record(file, k)
  BY <1>3 DEF Record
<1>5. \A k \in 0..n : HashAfter(longer, k) = HashAfter(file, k)
  BY <1>1, <1>4 DEF HashAfter
<1>6. \A k \in 1..n : k - 1 \in 0..n
  BY <1>1
<1>7. Shape(longer, n)
  <2>1. Len(longer) = 2 * n + 1 /\ longer[2 * n + 1].kind = "fragment"
    BY <1>2, PieceTypes
  <2>2. \A k \in 1..n : /\ longer[2 * k - 1].kind = "record"
                        /\ 2 * k <= Len(longer) => longer[2 * k] = Newline
    BY <1>1, <1>3 DEF Shape
  <2>3. \A k \in 1..n : /\ Record(longer, k) \in LogRecord
                        /\ Record(longer, k).sequence = k
                        /\ Record(longer, k).previous_hash = HashAfter(longer, k - 1)
    BY <1>4, <1>5, <1>6 DEF Shape
  <2>4. QED
    BY <1>1, <1>2, <2>1, <2>2, <2>3 DEF Shape
<1>8. QED
  BY <1>4, <1>7 DEF longer

\* Copying the first lines, each with its newline (snapshot), keeps them.
LEMMA ShapeCopy ==
  ASSUME NEW file, NEW n, Shape(file, n), NEW m \in 0..n
  PROVE  LET copy == [i \in 1..2 * m |-> IF i <= Len(file) THEN file[i] ELSE Newline]
         IN  /\ Shape(copy, m) /\ Len(copy) = 2 * m
             /\ \A k \in 1..m : Record(copy, k) = Record(file, k)
<1> DEFINE copy == [i \in 1..2 * m |-> IF i <= Len(file) THEN file[i] ELSE Newline]
<1>1. /\ n \in Nat /\ m \in Nat /\ file \in Seq(Piece) /\ Len(file) \in Nat
      /\ n > 0 => Len(file) >= 2 * n - 1
  BY DEF Shape
<1>2. Newline \in Piece
  BY DEF Piece, Newline
<1>3. copy \in Seq(Piece) /\ Len(copy) = 2 * m
  <2>1. \A i \in 1..2 * m : (IF i <= Len(file) THEN file[i] ELSE Newline) \in Piece
    BY <1>1, <1>2
  <2>2. QED
    BY <1>1, <2>1
<1>4. ASSUME NEW k \in 1..m
      PROVE  copy[2 * k - 1] = file[2 * k - 1] /\ copy[2 * k] = Newline
  <2>1. /\ 2 * k - 1 \in 1..2 * m /\ 2 * k \in 1..2 * m /\ k \in 1..n
        /\ 2 * k - 1 <= Len(file)
    BY <1>1
  <2>2. 2 * k <= Len(file) => file[2 * k] = Newline
    BY <2>1 DEF Shape
  <2>3. QED
    BY <2>1, <2>2
<1> HIDE DEF copy
<1>5. \A k \in 1..m : Record(copy, k) = Record(file, k)
  BY <1>4 DEF Record
<1>6. \A k \in 0..m : HashAfter(copy, k) = HashAfter(file, k)
  BY <1>1, <1>5 DEF HashAfter
<1>7. \A k \in 1..m : k - 1 \in 0..m /\ k \in 1..n
  BY <1>1
<1>8. Shape(copy, m)
  BY <1>1, <1>3, <1>4, <1>5, <1>6, <1>7, Zenon, ZenonT(120) DEF Shape
<1>9. QED
  BY <1>3, <1>5, <1>8 DEF copy

\* Truncating at the end of the last line (_discard_torn_tail) keeps the lines.
LEMMA ShapeCut ==
  ASSUME NEW file, NEW n, Shape(file, n), Len(file) > 2 * n
  PROVE  LET shorter == SubSeq(file, 1, 2 * n)
         IN  /\ Shape(shorter, n) /\ Len(shorter) = 2 * n
             /\ \A k \in 1..n : Record(shorter, k) = Record(file, k)
<1>1. n \in Nat /\ n \in 0..n /\ file \in Seq(Piece) /\ Len(file) \in Nat
  BY DEF Shape
<1> DEFINE copy == [i \in 1..2 * n |-> IF i <= Len(file) THEN file[i] ELSE Newline]
<1>2. SubSeq(file, 1, 2 * n) = copy
  BY <1>1
<1>3. Shape(copy, n) /\ Len(copy) = 2 * n /\ \A k \in 1..n : Record(copy, k) = Record(file, k)
  BY <1>1, ShapeCopy
<1>4. QED
  BY <1>2, <1>3

\* A write that starts a line of its own finds a file that ends in one.
LEMMA EndsInNewline ==
  ASSUME NEW file, NEW n, Shape(file, n), Len(file) <= 2 * n,
         ~(file # <<>> /\ Last(file).kind = "record")
  PROVE  Len(file) = 2 * n
<1> SUFFICES ASSUME n > 0, Len(file) = 2 * n - 1
             PROVE  FALSE
  BY DEF Shape
<1>1. n \in Nat /\ n \in 1..n /\ file # <<>>
  BY DEF Shape
<1>2. file[2 * n - 1].kind = "record"
  BY <1>1 DEF Shape
<1>3. QED
  BY <1>1, <1>2 DEF Last

-----------------------------------------------------------------------------
\* The newest entry depends on the entries only.
LEMMA NewestAgree ==
  ASSUME NEW d, NEW e, NEW n \in Nat, NEW b, \A k \in 1..n : d[k] = e[k]
  PROVE  Newest(d, n, b) = Newest(e, n, b)
<1> DEFINE k == Newest(e, n, b)
<1>1. k \in 0..n /\ (k > 0 => Covers(e[k], b)) /\ \A j \in k + 1..n : ~Covers(e[j], b)
  BY NewestFound
<1> HIDE DEF k
<1>2. k > 0 => d[k] = e[k]
  BY <1>1
<1>3. \A j \in k + 1..n : d[j] = e[j]
  BY <1>1
<1>4. QED
  BY <1>1, <1>2, <1>3, NewestUnique DEF k

\* One more entry is the newest for the blocks it covers and for no other.
LEMMA NewestStep ==
  ASSUME NEW e, NEW n \in Nat, NEW b
  PROVE  Newest(e, n + 1, b) = IF Covers(e[n + 1], b) THEN n + 1 ELSE Newest(e, n, b)
<1>1. CASE Covers(e[n + 1], b)
  <2>1. n + 1 \in 0..n + 1 /\ n + 1 \in Nat /\ \A j \in n + 1 + 1..n + 1 : FALSE
    OBVIOUS
  <2>2. QED
    BY <1>1, <2>1, NewestUnique
<1>2. CASE ~Covers(e[n + 1], b)
  <2> DEFINE k == Newest(e, n, b)
  <2>1. k \in 0..n /\ (k > 0 => Covers(e[k], b)) /\ \A j \in k + 1..n : ~Covers(e[j], b)
    BY NewestFound
  <2> HIDE DEF k
  <2>2. k \in 0..n + 1 /\ n + 1 \in Nat
    BY <2>1
  <2>3. \A j \in k + 1..n + 1 : ~Covers(e[j], b)
    BY <2>1, <1>2
  <2>4. QED
    BY <1>2, <2>1, <2>2, <2>3, NewestUnique DEF k
<1>3. QED
  BY <1>1, <1>2

\* What _replay puts in the index for a line.
LEMMA IndexEntry ==
  ASSUME NEW file, NEW n \in Nat, NEW k \in 1..n
  PROVE  /\ IndexOf(file, n)[k].sequence = k
         /\ IndexOf(file, n)[k].block = Record(file, k).block
         /\ IndexOf(file, n)[k].blocks = Len(Record(file, k).data)
         /\ IndexOf(file, n)[k].offset = 2 * k - 2
  BY DEF IndexOf

\* The index depends on the records only.
LEMMA IndexAgree ==
  ASSUME NEW f, NEW g, NEW n \in Nat, \A k \in 1..n : Record(f, k) = Record(g, k)
  PROVE  IndexOf(f, n) = IndexOf(g, n)
  BY DEF IndexOf

\* One more line adds one entry to the index, and no other changes.
LEMMA IndexStep ==
  ASSUME NEW f, NEW g, NEW n \in Nat, \A k \in 1..n : Record(g, k) = Record(f, k)
  PROVE  /\ IndexOf(g, n + 1) =
                Append(IndexOf(f, n), [sequence |-> n + 1, block |-> Record(g, n + 1).block,
                                       blocks |-> Len(Record(g, n + 1).data), offset |-> 2 * n])
         /\ \A k \in 1..n : IndexOf(g, n + 1)[k] = IndexOf(f, n)[k]
         /\ Len(IndexOf(g, n + 1)) = n + 1
<1> DEFINE e(k) == [sequence |-> k, block |-> Record(g, k).block,
                    blocks |-> Len(Record(g, k).data), offset |-> 2 * k - 2]
<1>1. IndexOf(g, n + 1) = [k \in 1..n + 1 |-> e(k)]
  BY DEF IndexOf
<1>2. IndexOf(f, n) = [k \in 1..n |-> e(k)]
  BY DEF IndexOf
<1>3. 2 * (n + 1) - 2 = 2 * n
  OBVIOUS
<1>4. e(n + 1) = [sequence |-> n + 1, block |-> Record(g, n + 1).block,
                  blocks |-> Len(Record(g, n + 1).data), offset |-> 2 * n]
  BY <1>3
<1> HIDE DEF e
<1>5. [k \in 1..n + 1 |-> e(k)] = Append([k \in 1..n |-> e(k)], e(n + 1))
  OBVIOUS
<1>6. QED
  BY <1>1, <1>2, <1>4, <1>5

\* The image depends on the records only.
LEMMA AtAgree ==
  ASSUME NEW image, NEW f, NEW g, NEW s \in Nat, \A k \in 1..s : Record(f, k) = Record(g, k)
  PROVE  At(image, f, s) = At(image, g, s)
<1>1. IndexOf(f, s) = IndexOf(g, s)
  BY IndexAgree
<1>2. ASSUME NEW b \in Block
      PROVE  At(image, f, s)[b] = At(image, g, s)[b]
  <2> DEFINE k == Newest(IndexOf(f, s), s, b)
  <2>1. k \in 0..s /\ k = Newest(IndexOf(g, s), s, b)
    BY <1>1, NewestFound
  <2> HIDE DEF k
  <2>2. k # 0 => Record(f, k) = Record(g, k)
    BY <2>1
  <2>3. QED
    BY <2>1, <2>2 DEF At, k
<1>3. QED
  BY <1>2 DEF At

\* What a block of the image holds: the newest record for it, or the base image.
LEMMA AtValue ==
  ASSUME NEW image, NEW f, NEW s \in Nat, NEW b \in Block
  PROVE  LET k == Newest(IndexOf(f, s), s, b)
         IN  At(image, f, s)[b] = IF k = 0 THEN image[b]
                                  ELSE Record(f, k).data[b - Record(f, k).block + 1]
  BY DEF At

\* One more record overwrites the image.
LEMMA AtStep ==
  ASSUME NEW image, NEW f, NEW s \in Nat
  PROVE  At(image, f, s + 1) = Overwrite(At(image, f, s), Record(f, s + 1))
<1> DEFINE r == Record(f, s + 1)
<1>1. s + 1 \in Nat /\ s + 1 \in 1..s + 1
  OBVIOUS
<1>2. ASSUME NEW b \in Block
      PROVE  At(image, f, s + 1)[b] = Overwrite(At(image, f, s), r)[b]
  <2> DEFINE e == IndexOf(f, s + 1)
  <2>1. Newest(e, s + 1, b) = IF Covers(e[s + 1], b) THEN s + 1 ELSE Newest(e, s, b)
    BY NewestStep
  <2>2. Newest(e, s, b) = Newest(IndexOf(f, s), s, b)
    <3>1. \A k \in 1..s : e[k] = IndexOf(f, s)[k]
      BY DEF IndexOf
    <3>2. QED
      BY <3>1, NewestAgree
  <2>3. Covers(e[s + 1], b) = (r.block <= b /\ b < r.block + Len(r.data))
    BY <1>1, IndexEntry DEF Covers
  <2> HIDE DEF e, r
  <2>4. CASE Covers(e[s + 1], b)
    <3>1. At(image, f, s + 1)[b] = r.data[b - r.block + 1]
      BY <1>1, <2>1, <2>4, AtValue DEF e, r
    <3>2. QED
      BY <3>1, <2>3, <2>4, Zenon, ZenonT(120) DEF Overwrite
  <2>5. CASE ~Covers(e[s + 1], b)
    <3>1. At(image, f, s + 1)[b] = At(image, f, s)[b]
      BY <1>1, <2>1, <2>2, <2>5, AtValue DEF e
    <3>2. QED
      BY <3>1, <2>3, <2>5, Zenon, ZenonT(120) DEF Overwrite
  <2>6. QED
    BY <2>4, <2>5
<1> HIDE DEF r
<1>3. QED
  BY <1>2 DEF At, Overwrite, r

\* Replaying a log over the image it produces gives this image again: why a
\* compaction cut off before it empties the log loses nothing.
LEMMA AtAbsorbs ==
  ASSUME NEW image, NEW f, NEW s \in Nat
  PROVE  At(At(image, f, s), f, s) = At(image, f, s)
<1>1. ASSUME NEW b \in Block
      PROVE  At(At(image, f, s), f, s)[b] = At(image, f, s)[b]
  BY AtValue
<1>2. QED
  BY <1>1 DEF At

\* Replaying records over an image gives an image.
LEMMA AtType ==
  ASSUME NEW image \in Image, NEW f, NEW n \in Nat, NEW s \in 0..n,
         \A k \in 1..n : Record(f, k) \in LogRecord
  PROVE  At(image, f, s) \in Image
<1>1. n \in Nat /\ s \in Nat
  OBVIOUS
<1>2. ASSUME NEW b \in Block
      PROVE  At(image, f, s)[b] \in Values
  <2> DEFINE k == Newest(IndexOf(f, s), s, b)
  <2>1. k \in 0..s /\ (k > 0 => Covers(IndexOf(f, s)[k], b))
    BY <1>1, NewestFound
  <2>2. At(image, f, s)[b] = IF k = 0 THEN image[b]
                             ELSE Record(f, k).data[b - Record(f, k).block + 1]
    BY <1>1, AtValue
  <2> HIDE DEF k
  <2>3. CASE k = 0
    BY <2>2, <2>3 DEF Image
  <2>4. CASE k # 0
    <3>1. k \in 1..s /\ k \in 1..n
      BY <2>1, <2>4, <1>1
    <3>2. Record(f, k) \in LogRecord
      BY <3>1
    <3>3. Record(f, k).block \in Nat /\ Record(f, k).data \in Seq(Values)
      BY <3>2 DEF LogRecord
    <3>4. Record(f, k).block <= b /\ b < Record(f, k).block + Len(Record(f, k).data)
      <4>1. k > 0 /\ Covers(IndexOf(f, s)[k], b)
        BY <2>1, <2>4
      <4>2. QED
        BY <4>1, <1>1, <3>1, IndexEntry DEF Covers
    <3>5. b - Record(f, k).block + 1 \in 1..Len(Record(f, k).data)
      <4>1. b \in Nat /\ Len(Record(f, k).data) \in Nat
        BY <3>3, BlockNumber
      <4>2. QED
        BY <3>3, <3>4, <4>1, InRange
    <3>6. QED
      BY <2>2, <2>4, <3>3, <3>5
  <2>5. QED
    BY <2>3, <2>4
<1>3. QED
  BY <1>2 DEF At, Image

\* The versions of a file that parses are the images after its records.
LEMMA VersionsOf ==
  ASSUME NEW image \in Image, NEW f, NEW n \in Nat, Lines(f) = n,
         \A k \in 1..n : Record(f, k) \in LogRecord
  PROVE  /\ Versions(image, f) = [s \in 1..n + 1 |-> At(image, f, s - 1)]
         /\ Versions(image, f) \in Seq(Image) /\ Len(Versions(image, f)) = n + 1
         /\ Versions(image, f) # <<>> /\ Last(Versions(image, f)) = At(image, f, n)
<1>1. n + 1 \in Nat /\ (n + 1) - 1 = n
  OBVIOUS
<1>2. Versions(image, f) = [s \in 1..n + 1 |-> At(image, f, s - 1)]
  BY DEF Versions, At
<1>3. \A s \in 1..n + 1 : At(image, f, s - 1) \in Image
  <2> TAKE s \in 1..n + 1
  <2>1. s - 1 \in 0..n
    BY <1>1
  <2>2. QED
    BY <2>1, AtType
<1>4. Versions(image, f) \in Seq(Image) /\ Len(Versions(image, f)) = n + 1
  BY <1>1, <1>2, <1>3
<1>5. Last(Versions(image, f)) = At(image, f, n)
  BY <1>1, <1>2, <1>4 DEF Last
<1>6. QED
  BY <1>1, <1>2, <1>4, <1>5

\* The lines of a file of this shape are records.
LEMMA ShapeRecords ==
  ASSUME NEW f, NEW n, Shape(f, n)
  PROVE  n \in Nat /\ \A k \in 1..n : Record(f, k) \in LogRecord
  BY DEF Shape

\* VersionsOf, for a file of the shape.
LEMMA VersionsAre ==
  ASSUME NEW image \in Image, NEW f, NEW n, Shape(f, n)
  PROVE  /\ Versions(image, f) = [s \in 1..n + 1 |-> At(image, f, s - 1)]
         /\ Versions(image, f) \in Seq(Image) /\ Len(Versions(image, f)) = n + 1
         /\ Versions(image, f) # <<>> /\ Last(Versions(image, f)) = At(image, f, n)
  BY ShapeRecords, ShapeLines, VersionsOf

\* The versions depend on the records only.
LEMMA VersionsAgree ==
  ASSUME NEW image \in Image, NEW f, NEW g, NEW n, Shape(f, n), Shape(g, n),
         \A k \in 1..n : Record(f, k) = Record(g, k)
  PROVE  Versions(image, f) = Versions(image, g)
<1>1. n \in Nat
  BY DEF Shape
<1>2. ASSUME NEW s \in 1..n + 1
      PROVE  At(image, f, s - 1) = At(image, g, s - 1)
  <2>1. s - 1 \in Nat /\ \A k \in 1..s - 1 : k \in 1..n
    BY <1>1
  <2>2. QED
    BY <2>1, AtAgree
<1>3. QED
  BY <1>2, VersionsAre

\* A record written, with its newline or without, adds one version and changes none.
LEMMA VersionsExtend ==
  ASSUME NEW image \in Image, NEW f, NEW n, Shape(f, n), Len(f) = 2 * n,
         NEW r \in LogRecord, r.sequence = n + 1, r.previous_hash = HashAfter(f, n),
         NEW longer, longer = f \o <<Whole(r)>> \/ longer = f \o <<Whole(r), Newline>>
  PROVE  /\ At(image, longer, n + 1) = Overwrite(At(image, f, n), r)
         /\ \A s \in 0..n : At(image, longer, s) = At(image, f, s)
         /\ Versions(image, longer)
                = Append(Versions(image, f), Overwrite(Last(Versions(image, f)), r))
<1>1. /\ Shape(longer, n + 1) /\ Record(longer, n + 1) = r
      /\ \A k \in 1..n : Record(longer, k) = Record(f, k)
  BY ShapeExtend
<1>2. n \in Nat /\ n + 1 \in Nat
  BY DEF Shape
<1>3. \A s \in 0..n : At(image, longer, s) = At(image, f, s)
  <2> TAKE s \in 0..n
  <2>1. s \in Nat /\ \A k \in 1..s : k \in 1..n
    BY <1>2
  <2>2. QED
    BY <2>1, <1>1, AtAgree
<1>4. At(image, longer, n + 1) = Overwrite(At(image, f, n), r)
  <2>1. At(image, longer, n) = At(image, f, n)
    BY <1>2, <1>3
  <2>2. QED
    BY <1>1, <1>2, <2>1, AtStep
<1>5. Versions(image, longer) = [s \in 1..(n + 1) + 1 |-> At(image, longer, s - 1)]
  BY <1>1, VersionsAre
<1>6. /\ Versions(image, f) = [s \in 1..n + 1 |-> At(image, f, s - 1)]
      /\ Versions(image, f) \in Seq(Image) /\ Len(Versions(image, f)) = n + 1
      /\ Last(Versions(image, f)) = At(image, f, n)
  BY VersionsAre
<1>7. ASSUME NEW s \in 1..(n + 1) + 1
      PROVE  At(image, longer, s - 1)
                = IF s = n + 2 THEN Overwrite(At(image, f, n), r) ELSE At(image, f, s - 1)
  <2>1. s = n + 2 \/ s - 1 \in 0..n
    BY <1>2
  <2>2. s = n + 2 => s - 1 = n + 1
    BY <1>2
  <2>3. QED
    BY <1>2, <1>3, <1>4, <2>1, <2>2
<1>8. Append(Versions(image, f), Overwrite(At(image, f, n), r))
        = [s \in 1..(n + 1) + 1 |-> IF s = n + 2 THEN Overwrite(At(image, f, n), r)
                                    ELSE At(image, f, s - 1)]
  BY <1>2, <1>6
<1>9. QED
  BY <1>3, <1>4, <1>5, <1>6, <1>7, <1>8, Zenon, ZenonT(120)

\* The hash _replay ends with is the one the next record has to name.
LEMMA HashOfLoaded ==
  ASSUME NEW f, NEW n, Shape(f, n), Len(f) <= 2 * n
  PROVE  (IF f = <<>> THEN <<>> ELSE RecordHash(Record(f, n))) = HashAfter(f, n)
<1>1. n \in Nat /\ f \in Seq(Piece)
  BY DEF Shape
<1>2. f = <<>> <=> n = 0
  BY <1>1 DEF Shape
<1>3. QED
  BY <1>2 DEF HashAfter

-----------------------------------------------------------------------------
\* What _replay leaves in memory describes the file it read.
LEMMA Loaded ==
  ASSUME NEW f, NEW n, Shape(f, n), Len(f) <= 2 * n, base \in Image,
         Load(f), log' = f, base' = base
  PROVE  MemoryInv' /\ pc' = "idle"
<1>1. Lines(f) = n
  BY ShapeLines
<1>2. /\ index' = IndexOf(f, n)
      /\ overlay' = [b \in Block |-> Newest(index', n, b)]
      /\ last_hash' = HashAfter(f, n)
      /\ next_sequence' = n + 1
      /\ log_size' = Len(f) /\ reader' = None
      /\ view' = Versions(base, f) /\ pc' = "idle"
  BY <1>1, HashOfLoaded DEF Load
<1>3. /\ Versions(base, f) \in Seq(Image) /\ Len(Versions(base, f)) = n + 1
      /\ Last(Versions(base, f)) = At(base, f, n)
  BY VersionsAre
<1>4. QED
  BY <1>1, <1>2, <1>3 DEF MemoryInv, Current

\* No write fails, and no other process opens the journal.
OnlyCrashes == IoErrors = FALSE /\ CliRuns = FALSE

\* Opening a log without a torn tail keeps the invariant.
LEMMA OpenCleanStep ==
  ASSUME JournalInv, OpenClean
  PROVE  JournalInv'
<1> DEFINE n == Lines(log)
<1>1. /\ pc = "down" /\ Opens(log) /\ Rest(log) = <<>> /\ Load(log)
      /\ base' = base /\ log' = log /\ inflight' = inflight /\ cli' = cli
      /\ promised' = promised
      /\ interrupted' = interrupted
  BY DEF OpenClean, disk, others
<1>2. Shape(log, n) /\ base \in Image
  BY DEF JournalInv, DiskInv
<1>3. Len(log) <= 2 * n
  BY <1>1, <1>2, ShapeRest
<1>4. MemoryInv' /\ pc' = "idle"
  BY <1>1, <1>2, <1>3, Loaded
<1>5. DiskInv'
  BY <1>1, <1>4 DEF JournalInv, DiskInv, Current
<1>6. AppendInv'
  BY <1>1, <1>4 DEF JournalInv, AppendInv
<1>7. QED
  BY <1>1, <1>4, <1>5, <1>6 DEF JournalInv

\* Writing the sidecar of a torn tail keeps the invariant.
LEMMA OpenTornStep ==
  ASSUME JournalInv, OpenTorn
  PROVE  JournalInv'
<1>1. /\ pc = "down" /\ pc' = "truncate"
      /\ base' = base /\ log' = log /\ inflight' = inflight /\ cli' = cli
      /\ promised' = promised
      /\ interrupted' = interrupted
  BY DEF OpenTorn, others
<1>2. DiskInv'
  <2>1. Shape(log, Lines(log)) /\ Rest(log) # <<>>
    BY DEF OpenTorn, Torn, JournalInv, DiskInv
  <2>2. Len(log) > 2 * Lines(log)
    BY <2>1, ShapeRest
  <2>3. QED
    BY <1>1, <2>2 DEF JournalInv, DiskInv, Current
<1>3. MemoryInv'
  BY <1>1 DEF MemoryInv, Running
<1>4. AppendInv'
  BY <1>1 DEF JournalInv, AppendInv
<1>5. QED
  BY <1>1, <1>2, <1>3, <1>4 DEF JournalInv

\* Cutting off a torn tail and loading the rest keeps the invariant.
LEMMA TruncateStep ==
  ASSUME JournalInv, Truncate
  PROVE  JournalInv'
<1> DEFINE n == Lines(log)
<1>1. /\ pc = "truncate" /\ log' = SubSeq(log, 1, 2 * n) /\ Load(log')
      /\ base' = base /\ inflight' = inflight /\ cli' = cli
      /\ promised' = promised
      /\ interrupted' = interrupted
  BY DEF Truncate, others
<1>2. Shape(log, n) /\ base \in Image /\ Len(log) > 2 * n
  BY <1>1 DEF JournalInv, DiskInv
<1>3. n \in Nat /\ Len(log') <= 2 * n
  <2>1. n \in Nat
    BY <1>2 DEF Shape
  <2>2. Len(log') = 2 * n
    BY <1>1, <1>2, ShapeCut
  <2>3. QED
    BY <2>1, <2>2
<1>4. /\ Shape(log', n) /\ Len(log') = 2 * n
      /\ \A k \in 1..n : Record(log', k) = Record(log, k)
  BY <1>1, <1>2, ShapeCut
<1>5. MemoryInv' /\ pc' = "idle"
  BY <1>1, <1>2, <1>3, <1>4, Loaded, Zenon, ZenonT(120)
<1>6. Lines(log') = n
  BY <1>4, ShapeLines
<1>7. At(base, log', n) = At(base, log, n)
  BY <1>3, <1>4, AtAgree
<1>8. Versions(base, log') = Versions(base, log)
  BY <1>2, <1>4, VersionsAgree
<1>9. DiskInv'
  BY <1>1, <1>4, <1>5, <1>6, <1>7, <1>8 DEF JournalInv, DiskInv, Current
<1>10. AppendInv'
  BY <1>1, <1>5 DEF JournalInv, AppendInv
<1>11. QED
  BY <1>1, <1>5, <1>9, <1>10 DEF JournalInv

\* The parts of a write have their types.
LEMMA WriteParts ==
  ASSUME NEW w \in Writes
  PROVE  /\ w.block \in Nat /\ w.data \in Seq(Values)
         /\ [block |-> w.block, data |-> w.data] = w
<1>1. w \in Write
  BY WritesAssumption
<1>2. QED
  BY <1>1, BlocksAssumption DEF Write, Block

\* The hash of the last record is a chain of bodies.
LEMMA HashType ==
  ASSUME NEW f, NEW n, Shape(f, n)
  PROVE  HashAfter(f, n) \in Seq(Body)
<1>1. CASE n = 0
  BY <1>1 DEF HashAfter
<1>2. CASE n # 0
  <2>1. n \in 1..n
    BY <1>2 DEF Shape
  <2>2. Record(f, n) \in LogRecord
    BY <2>1 DEF Shape
  <2>3. QED
    BY <1>2, <2>2 DEF HashAfter, RecordHash, LogRecord, Body
<1>3. QED
  BY <1>1, <1>2

\* append keeps the invariant up to its write.
LEMMA AppendBeginStep ==
  ASSUME JournalInv, NEW w \in Writes, AppendBegin(w)
  PROVE  JournalInv'
<1> DEFINE n == Lines(log)
<1>1. /\ pc = "idle" /\ pc' = "append"
      /\ inflight' = [sequence |-> next_sequence, block |-> w.block, data |-> w.data,
                      previous_hash |-> last_hash]
      /\ base' = base /\ log' = log /\ cli' = cli
      /\ index' = index /\ overlay' = overlay /\ last_hash' = last_hash
      /\ next_sequence' = next_sequence /\ log_size' = log_size /\ reader' = reader
      /\ promised' = promised /\ view' = view
      /\ interrupted' = interrupted
  BY DEF AppendBegin, disk, memory, others, history
<1>2. next_sequence = n + 1 /\ last_hash = HashAfter(log, n) /\ Shape(log, n)
  BY <1>1 DEF JournalInv, MemoryInv, DiskInv, Running
<1>3. next_sequence \in Nat /\ last_hash \in Seq(Body)
  <2>1. n \in Nat
    BY <1>2 DEF Shape
  <2>2. QED
    BY <1>2, <2>1, HashType
<1>4. AppendInv'
  <2>1. inflight'.block = w.block /\ inflight'.data = w.data
    BY <1>1
  <2>2. [block |-> inflight'.block, data |-> inflight'.data] \in Writes
    BY <2>1, WriteParts
  <2>3. inflight' \in LogRecord
    BY <1>1, <1>3, WriteParts DEF LogRecord
  <2>4. inflight'.sequence = next_sequence' /\ inflight'.previous_hash = last_hash'
    BY <1>1
  <2>5. QED
    BY <1>1, <2>2, <2>3, <2>4 DEF AppendInv
<1>5. DiskInv'
  BY <1>1 DEF JournalInv, DiskInv, Current
<1>6. MemoryInv'
  BY <1>1 DEF JournalInv, MemoryInv, Running, Current
<1>7. QED
  BY <1>1, <1>4, <1>5, <1>6 DEF JournalInv

\* The record append is writing continues a log that ends in a newline.
LEMMA InflightContinues ==
  ASSUME JournalInv, pc = "append", NEW tail, tail # <<>>, Put(tail), ~glued'
  PROVE  LET n == Lines(log)
         IN  /\ Shape(log, n) /\ base \in Image /\ Len(log) = 2 * n /\ log' = log \o tail
             /\ inflight \in LogRecord /\ inflight.sequence = n + 1
             /\ inflight.previous_hash = HashAfter(log, n)
             /\ n \in Nat /\ log \in Seq(Piece)
<1> DEFINE n == Lines(log)
<1>1. /\ Shape(log, n) /\ base \in Image /\ Len(log) <= 2 * n
      /\ inflight \in LogRecord /\ inflight.sequence = n + 1
      /\ inflight.previous_hash = HashAfter(log, n)
  BY DEF JournalInv, DiskInv, MemoryInv, AppendInv, Running
<1>2. ~(log # <<>> /\ Last(log).kind = "record") /\ log' = log \o tail
  BY DEF Put
<1>3. Len(log) = 2 * n
  BY <1>1, <1>2, EndsInNewline, Zenon, ZenonT(120)
<1>4. n \in Nat /\ log \in Seq(Piece)
  BY <1>1, Zenon, ZenonT(120) DEF Shape
<1>5. QED
  BY <1>1, <1>2, <1>3, <1>4, Zenon, ZenonT(120)

\* What a record that is written, with its newline or without, does to the images
\* of the files.
LEMMA RecordWritten ==
  ASSUME JournalInv, pc = "append", base' = base, ~glued',
         NEW tail \in {<<Whole(inflight)>>, <<Whole(inflight), Newline>>}, Put(tail)
  PROVE  LET n == Lines(log)
         IN  /\ Shape(log', n + 1) /\ Lines(log') = n + 1
             /\ \A k \in 1..n : Record(log', k) = Record(log, k)
             /\ Record(log', n + 1) = inflight
             /\ At(base, log', n + 1) = Overwrite(At(base, log, n), inflight)
             /\ \A s \in 0..n : At(base, log', s) = At(base, log, s)
             /\ Versions(base, log')
                    = Append(Versions(base, log), Overwrite(Last(Versions(base, log)), inflight))
<1> DEFINE n == Lines(log)
<1>0. tail # <<>>
  OBVIOUS
<1>1. /\ Shape(log, n) /\ base \in Image /\ Len(log) = 2 * n
      /\ log' = log \o <<Whole(inflight)>> \/ log' = log \o <<Whole(inflight), Newline>>
      /\ inflight \in LogRecord /\ inflight.sequence = n + 1
      /\ inflight.previous_hash = HashAfter(log, n)
  BY <1>0, InflightContinues, Zenon, ZenonT(120)
<1>2. /\ Shape(log', n + 1)
      /\ \A k \in 1..n : Record(log', k) = Record(log, k)
      /\ Record(log', n + 1) = inflight
  BY <1>1, ShapeExtend
<1>3. Lines(log') = n + 1
  BY <1>2, ShapeLines
<1>4. /\ At(base, log', n + 1) = Overwrite(At(base, log, n), inflight)
      /\ \A s \in 0..n : At(base, log', s) = At(base, log, s)
      /\ Versions(base, log')
             = Append(Versions(base, log), Overwrite(Last(Versions(base, log)), inflight))
  BY <1>1, VersionsExtend
<1>5. QED
  BY <1>2, <1>3, <1>4, Zenon, ZenonT(120)

\* What Append does to a sequence.
LEMMA AppendLast ==
  ASSUME NEW S, NEW s \in Seq(S), NEW x \in S
  PROVE  /\ Append(s, x) \in Seq(S) /\ Append(s, x) # <<>>
         /\ Len(Append(s, x)) = Len(s) + 1 /\ Last(Append(s, x)) = x
  BY DEF Last

\* A record written whole and promised keeps what the files say in step with
\* what callers rely on.
LEMMA PromiseKept ==
  ASSUME JournalInv, pc = "append", base' = base, ~glued',
         NEW tail \in {<<Whole(inflight)>>, <<Whole(inflight), Newline>>}, Put(tail),
         promised' = Append(promised, Overwrite(Last(promised), inflight)),
         interrupted' = interrupted, pc' \notin {"clear", "truncate"}
  PROVE  DiskInv'
<1> DEFINE n == Lines(log)
<1>1. /\ Shape(log', n + 1) /\ Lines(log') = n + 1
      /\ At(base, log', n + 1) = Overwrite(At(base, log, n), inflight)
      /\ Versions(base, log')
             = Append(Versions(base, log), Overwrite(Last(Versions(base, log)), inflight))
  BY RecordWritten, Zenon, ZenonT(120)
<1>2. /\ base \in Image /\ promised \in Seq(Image) /\ promised # <<>>
      /\ Last(promised) = At(base, log, n)
      /\ interrupted = FALSE => promised = Versions(base, log)
  BY DEF JournalInv, DiskInv, Current
<1>3. At(base, log', n + 1) \in Image
  <2>1. n + 1 \in 0..n + 1
    BY <1>1 DEF Shape
  <2>2. QED
    BY <1>1, <1>2, <2>1, AtType, ShapeRecords, Zenon, ZenonT(120)
<1>4. promised' = Append(promised, At(base, log', n + 1))
  BY <1>1, <1>2, Zenon, ZenonT(120)
<1>5. promised' \in Seq(Image) /\ promised' # <<>> /\ Last(promised') = At(base, log', n + 1)
  BY <1>2, <1>3, <1>4, AppendLast
<1>6. interrupted' = FALSE => promised' = Versions(base, log')
  BY <1>1, <1>2, Zenon, ZenonT(120)
<1>7. QED
  BY <1>1, <1>2, <1>5, <1>6, Zenon, ZenonT(120) DEF DiskInv, Current

\* append keeps the invariant once write and fsync have returned: the index,
\* the overlay, the hash and the size describe the longer log.
LEMMA AppendDoneStep ==
  ASSUME JournalInv, AppendDone, ~glued'
  PROVE  JournalInv'
<1> DEFINE n == Lines(log)
           entry == [sequence |-> next_sequence, block |-> inflight.block,
                     blocks |-> Len(inflight.data), offset |-> log_size]
           tail == <<Whole(inflight), Newline>>
<1>1. /\ pc = "append" /\ Put(tail) /\ tail \in {<<Whole(inflight)>>, <<Whole(inflight), Newline>>}
      /\ pc' = "idle" /\ inflight' = None /\ base' = base /\ cli' = cli
      /\ index' = Append(index, entry)
      /\ overlay' = [b \in Block |-> IF Covers(Last(index'), b) THEN Len(index') ELSE overlay[b]]
      /\ last_hash' = RecordHash(inflight) /\ next_sequence' = next_sequence + 1
      /\ log_size' = log_size + 2 /\ reader' = reader
      /\ view' = Append(view, Overwrite(Last(view), inflight))
      /\ promised' = Append(promised, Overwrite(Last(promised), inflight))
      /\ interrupted' = interrupted
  BY DEF AppendDone, Acknowledge, others
<1>2. /\ Shape(log', n + 1) /\ Lines(log') = n + 1
      /\ \A k \in 1..n : Record(log', k) = Record(log, k)
      /\ Record(log', n + 1) = inflight
      /\ At(base, log', n + 1) = Overwrite(At(base, log, n), inflight)
      /\ \A s \in 0..n : At(base, log', s) = At(base, log, s)
      /\ Versions(base, log')
             = Append(Versions(base, log), Overwrite(Last(Versions(base, log)), inflight))
  BY <1>1, RecordWritten, Zenon, ZenonT(120)
<1>3. /\ log_size = Len(log) /\ index = IndexOf(log, n)
      /\ overlay = [b \in Block |-> Newest(index, n, b)]
      /\ next_sequence = n + 1 /\ reader = None
      /\ view \in Seq(Image) /\ Len(view) = n + 1 /\ Last(view) = At(base, log, n)
      /\ view = Versions(base, log) /\ Shape(log, n) /\ base \in Image
  BY <1>1 DEF JournalInv, DiskInv, MemoryInv, Running, Current
<1>4. n \in Nat /\ n + 1 \in Nat /\ n + 1 \in 0..n + 1 /\ Len(log) = 2 * n
      /\ Len(log') = 2 * n + 2
  <2>1. n \in Nat /\ Len(log) = 2 * n /\ log \in Seq(Piece) /\ log' = log \o tail
    <3>1. tail # <<>>
      OBVIOUS
    <3>2. QED
      BY <1>1, <3>1, InflightContinues, Zenon, ZenonT(120)
  <2> HIDE DEF n
  <2>2. QED
    BY <2>1
<1>5. DiskInv'
  <2>1. pc' \notin {"clear", "truncate"}
    BY <1>1
  <2>2. QED
    BY <1>1, <2>1, PromiseKept, Zenon, ZenonT(120)
<1>6. index' = IndexOf(log', n + 1)
  <2>1. entry = [sequence |-> n + 1, block |-> Record(log', n + 1).block,
                 blocks |-> Len(Record(log', n + 1).data), offset |-> 2 * n]
    BY <1>2, <1>3, <1>4, Zenon, ZenonT(120)
  <2>2. IndexOf(log', n + 1)
          = Append(IndexOf(log, n),
                   [sequence |-> n + 1, block |-> Record(log', n + 1).block,
                    blocks |-> Len(Record(log', n + 1).data), offset |-> 2 * n])
    <3>1. n \in Nat /\ \A k \in 1..n : Record(log', k) = Record(log, k)
      BY <1>2, <1>4
    <3> HIDE DEF n
    <3>2. QED
      BY <3>1, IndexStep, Zenon, ZenonT(120)
  <2>3. QED
    BY <2>1, <2>2, <1>1, <1>3, Zenon, ZenonT(120)
<1>7. Len(index') = n + 1 /\ Last(index') = index'[n + 1]
  BY <1>4, <1>6 DEF IndexOf, Last
<1>8. overlay' = [b \in Block |-> Newest(index', n + 1, b)]
  <2>1. ASSUME NEW b \in Block
        PROVE  overlay'[b] = Newest(index', n + 1, b)
    <3>1. \A k \in 1..n : index'[k] = index[k]
      BY <1>2, <1>3, <1>4, <1>6, IndexStep, Zenon, ZenonT(120)
    <3>2. Newest(index', n, b) = Newest(index, n, b)
      BY <3>1, <1>4, NewestAgree
    <3>3. Newest(index', n + 1, b)
            = IF Covers(index'[n + 1], b) THEN n + 1 ELSE Newest(index', n, b)
      BY <1>4, NewestStep
    <3>4. QED
      BY <1>1, <1>3, <1>7, <3>2, <3>3
  <2>2. overlay' = [b \in Block |-> overlay'[b]]
    BY <1>1
  <2>3. QED
    BY <2>1, <2>2
<1>9. last_hash' = HashAfter(log', n + 1)
  <2>1. n + 1 # 0
    BY <1>4
  <2>2. QED
    BY <2>1, <1>1, <1>2, Zenon, ZenonT(120) DEF HashAfter
<1>10. view' = Versions(base, log') /\ view' \in Seq(Image) /\ Len(view') = n + 2
       /\ Last(view') = At(base, log', n + 1)
  <2>1. view' = Versions(base, log')
    BY <1>1, <1>2, <1>3, Zenon, ZenonT(120)
  <2>2. (n + 1) + 1 = n + 2
    BY <1>4
  <2>3. /\ Versions(base, log') \in Seq(Image) /\ Len(Versions(base, log')) = (n + 1) + 1
        /\ Last(Versions(base, log')) = At(base, log', n + 1)
    <3>1. Shape(log', n + 1) /\ base \in Image
      BY <1>2, <1>3
    <3>2. QED
      BY <3>1, VersionsAre
  <2>4. QED
    BY <2>1, <2>2, <2>3
<1>11. MemoryInv'
  <2>1. Len(log') <= 2 * (n + 1) /\ log_size' = Len(log')
    <3>1. /\ Len(log') = 2 * n + 2 /\ log_size' = log_size + 2 /\ log_size = Len(log)
          /\ Len(log) = 2 * n /\ n \in Nat
      BY <1>1, <1>3, <1>4
    <3> HIDE DEF n
    <3>2. 2 * (n + 1) = 2 * n + 2
      BY <3>1
    <3>3. QED
      BY <3>1, <3>2
  <2>2. next_sequence' = (n + 1) + 1 /\ n + 2 = (n + 1) + 1
    <3>1. next_sequence' = next_sequence + 1 /\ next_sequence = n + 1 /\ n \in Nat
      BY <1>1, <1>3, <1>4
    <3>2. QED
      BY <3>1
  <2>3. QED
    BY <2>1, <2>2, <1>1, <1>2, <1>3, <1>6, <1>8, <1>9, <1>10, Zenon, ZenonT(120)
    DEF MemoryInv, Current
<1>12. AppendInv'
  BY <1>1 DEF AppendInv
<1>13. QED
  BY <1>1, <1>5, <1>11, <1>12 DEF JournalInv

-----------------------------------------------------------------------------
\* A read finds the record of its index entry.
LEMMA EntryReadable ==
  ASSUME JournalInv, Running, NEW k \in 1..Lines(log), NEW b
  PROVE  BlockFrom(k, b) = Record(log, k).data[b - Record(log, k).block + 1]
<1> DEFINE n == Lines(log)
<1>1. /\ Shape(log, n) /\ index = IndexOf(log, n) /\ reader = None
  BY DEF JournalInv, DiskInv, MemoryInv
<1>2. n \in Nat
  BY <1>1 DEF Shape
<1>3. /\ index[k].sequence = k /\ index[k].block = Record(log, k).block
      /\ index[k].blocks = Len(Record(log, k).data) /\ index[k].offset = 2 * k - 2
  <2> HIDE DEF n
  <2>1. k \in 1..n
    BY DEF n
  <2>2. QED
    BY <1>1, <1>2, <2>1, IndexEntry
<1>4. index[k].offset + 1 = 2 * k - 1
  BY <1>2, <1>3
<1>5. Parses(log, 2 * k - 1)
  BY <1>1, ShapeParses
<1>6. log[2 * k - 1].record = Record(log, k) /\ Record(log, k).sequence = k
  BY <1>1 DEF Record, Shape
<1>7. QED
  BY <1>1, <1>3, <1>4, <1>5, <1>6 DEF BlockFrom, Opened

\* A read returns the image of the files.
LEMMA ReadsCurrent ==
  ASSUME JournalInv, Running, NEW b \in Block
  PROVE  Read(b) = Current[b]
<1> DEFINE n == Lines(log)
           k == Newest(IndexOf(log, n), n, b)
<1>1. n \in Nat /\ overlay[b] = k
  <2>1. /\ Shape(log, n) /\ index = IndexOf(log, n)
        /\ overlay = [a \in Block |-> Newest(index, n, a)]
    BY DEF JournalInv, DiskInv, MemoryInv
  <2>2. QED
    BY <2>1, ShapeRecords
<1>2. k \in 0..n
  BY <1>1, NewestFound
<1>3. Current[b] = IF k = 0 THEN base[b] ELSE Record(log, k).data[b - Record(log, k).block + 1]
  <2>1. n \in Nat
    BY <1>1
  <2> HIDE DEF n
  <2>2. At(base, log, n)[b]
          = IF k = 0 THEN base[b] ELSE Record(log, k).data[b - Record(log, k).block + 1]
    BY <2>1, AtValue
  <2>3. QED
    BY <2>2, Zenon, ZenonT(120) DEF Current, n
<1> HIDE DEF k
<1>4. CASE k = 0
  BY <1>1, <1>3, <1>4 DEF Read
<1>5. CASE k # 0
  <2>1. k \in 1..n
    BY <1>1, <1>2, <1>5
  <2>2. QED
    BY <1>1, <1>3, <1>5, <2>1, EntryReadable DEF Read
<1>6. QED
  BY <1>4, <1>5

\* A read at a sequence returns the image after this record.
LEMMA ReadsAt ==
  ASSUME JournalInv, Running, NEW s \in 0..last_sequence, NEW b \in Block
  PROVE  ReadAt(b, s) = At(base, log, s)[b]
<1> DEFINE n == Lines(log)
           k == Newest(index, s, b)
<1>1. n \in Nat /\ index = IndexOf(log, n) /\ last_sequence = n
  <2>1. Shape(log, n) /\ index = IndexOf(log, n) /\ next_sequence = n + 1
    BY DEF JournalInv, DiskInv, MemoryInv
  <2>2. n \in Nat
    BY <2>1 DEF Shape
  <2> HIDE DEF n
  <2>3. QED
    BY <2>1, <2>2 DEF last_sequence
<1>2. s \in Nat /\ s \in 0..n /\ Len(index) = n
  <2>1. s \in 0..n
    BY <1>1
  <2> HIDE DEF n
  <2>2. QED
    BY <1>1, <2>1 DEF IndexOf
<1>3. \A j \in 1..n : index[j].sequence = j
  <2> HIDE DEF n
  <2>1. QED
    BY <1>1, IndexEntry
<1>4. k \in 0..s /\ (k > 0 => Covers(index[k], b)) /\ \A j \in k + 1..s : ~Covers(index[j], b)
  BY <1>2, NewestFound
<1>5. k = Newest(IndexOf(log, s), s, b)
  <2>1. \A j \in 1..s : index[j] = IndexOf(log, s)[j]
    BY <1>1, <1>2 DEF IndexOf
  <2>2. QED
    BY <2>1, <1>2, NewestAgree
<1>6. At(base, log, s)[b]
        = IF k = 0 THEN base[b] ELSE Record(log, k).data[b - Record(log, k).block + 1]
  <2>1. s \in Nat /\ Newest(IndexOf(log, s), s, b) = k
    BY <1>2, <1>5
  <2> HIDE DEF k
  <2>2. QED
    BY <2>1, AtValue
<1> HIDE DEF k, n
<1>7. EntryAt(b, s) = k
  <2>1. /\ k \in 0..n
        /\ k > 0 => index[k].sequence <= s /\ Covers(index[k], b)
        /\ \A j \in k + 1..n : index[j].sequence > s \/ ~Covers(index[j], b)
    <3>1. s \in 0..n /\ k \in 0..s /\ n \in Nat
      BY <1>1, <1>2, <1>4
    <3>2. k \in 0..n /\ (k > 0 => k \in 1..n /\ k <= s)
      BY <3>1
    <3>3. \A j \in k + 1..n : j \in 1..n /\ (j > s \/ j \in k + 1..s)
      BY <3>1
    <3>4. QED
      BY <1>3, <1>4, <3>2, <3>3, Zenon, ZenonT(120)
  <2>2. ASSUME NEW m \in 0..n, m > 0 => index[m].sequence <= s /\ Covers(index[m], b),
               \A j \in m + 1..n : index[j].sequence > s \/ ~Covers(index[j], b)
        PROVE  m = k
    <3>1. CASE m < k
      BY <3>1, <2>1, <2>2, <1>2, <1>3
    <3>2. CASE m > k
      BY <3>2, <2>1, <2>2, <1>2, <1>3
    <3>3. QED
      BY <3>1, <3>2, <2>1
  <2>3. QED
    BY <2>1, <2>2, <1>2 DEF EntryAt
<1>8. CASE k = 0
  BY <1>6, <1>7, <1>8 DEF ReadAt
<1>9. CASE k # 0
  <2>1. k \in 1..n
    BY <1>2, <1>4, <1>9
  <2>2. QED
    BY <1>6, <1>7, <1>9, <2>1, EntryReadable DEF ReadAt, n
<1>10. QED
  BY <1>8, <1>9

-----------------------------------------------------------------------------
\* Replacing the base image keeps the invariant: the log is replayed over an
\* image that holds it already.
LEMMA CompactBaseStep ==
  ASSUME JournalInv, CompactBase
  PROVE  JournalInv'
<1> DEFINE n == Lines(log)
<1>1. /\ pc = "idle" /\ pc' = "clear"
      /\ base' = [b \in Block |-> Read(b)]
      /\ log' = log /\ inflight' = inflight /\ cli' = cli
      /\ index' = index /\ overlay' = overlay /\ last_hash' = last_hash
      /\ next_sequence' = next_sequence /\ log_size' = log_size /\ reader' = reader
      /\ promised' = promised /\ view' = view
      /\ interrupted' = interrupted
  BY DEF CompactBase, memory, history
<1>2. Shape(log, n) /\ base \in Image /\ n \in Nat /\ n \in 0..n
  BY DEF JournalInv, DiskInv, Shape
<1>3. base' = Current
  <2>1. \A b \in Block : Read(b) = Current[b]
    BY <1>1, ReadsCurrent DEF Running
  <2>2. Current = [b \in Block |-> Current[b]]
    BY DEF Current, At
  <2>3. QED
    BY <1>1, <2>1, <2>2
<1>4. Current \in Image
  BY <1>2, AtType, ShapeRecords, Zenon, ZenonT(120) DEF Current
<1>5. Current' = Current
  <2>1. Current' = At(base', log, n)
    BY <1>1 DEF Current
  <2>2. QED
    BY <2>1, <1>2, <1>3, AtAbsorbs DEF Current
<1>6. DiskInv'
  BY <1>1, <1>3, <1>4, <1>5 DEF JournalInv, DiskInv
<1>7. MemoryInv'
  BY <1>1, <1>5 DEF JournalInv, MemoryInv, Running
<1>8. AppendInv'
  BY <1>1 DEF JournalInv, AppendInv
<1>9. QED
  BY <1>1, <1>6, <1>7, <1>8 DEF JournalInv

\* No record, no change.
LEMMA AtZero ==
  ASSUME NEW image \in Image, NEW f
  PROVE  At(image, f, 0) = image
<1>1. ASSUME NEW b \in Block
      PROVE  At(image, f, 0)[b] = image[b]
  <2>1. Newest(IndexOf(f, 0), 0, b) \in 0..0
    BY NewestFound
  <2>2. Newest(IndexOf(f, 0), 0, b) = 0
    BY <2>1
  <2>3. QED
    BY <2>2, AtValue
<1>2. QED
  BY <1>1 DEF At, Image

\* What an empty log means: its lines, images and index.
LEMMA EmptyFiles ==
  ASSUME NEW image \in Image
  PROVE  /\ Lines(<<>>) = 0 /\ Shape(<<>>, 0)
         /\ At(image, <<>>, 0) = image /\ Versions(image, <<>>) = <<image>>
         /\ IndexOf(<<>>, 0) = <<>> /\ \A b : Newest(<<>>, 0, b) = 0
         /\ HashAfter(<<>>, 0) = <<>>
<1>1. Shape(<<>>, 0) /\ Lines(<<>>) = 0
  BY ShapeEmpty, ShapeLines
<1>2. At(image, <<>>, 0) = image
  BY AtZero
<1>3. Versions(image, <<>>) = <<image>>
  <2>1. Versions(image, <<>>) = [s \in 1..0 + 1 |-> At(image, <<>>, s - 1)]
    <3>1. ASSUME NEW n, n = 0
          PROVE  Versions(image, <<>>) = [s \in 1..n + 1 |-> At(image, <<>>, s - 1)]
      <4>1. Shape(<<>>, n)
        BY <1>1, <3>1
      <4>2. QED
        BY <4>1, VersionsAre
    <3>2. QED
      BY <3>1, Zenon, ZenonT(120)
  <2>2. \A s \in 1..0 + 1 : At(image, <<>>, s - 1) = image
    <3>1. \A s \in 1..0 + 1 : s - 1 = 0
      OBVIOUS
    <3>2. QED
      BY <3>1, <1>2
  <2>3. [s \in 1..0 + 1 |-> image] = <<image>>
    OBVIOUS
  <2>4. QED
    BY <2>1, <2>2, <2>3
<1>4. IndexOf(<<>>, 0) = <<>>
  BY DEF IndexOf
<1>5. ASSUME NEW b
      PROVE  Newest(<<>>, 0, b) = 0
  <2>1. Newest(<<>>, 0, b) \in 0..0
    BY NewestFound
  <2>2. QED
    BY <2>1
<1>6. QED
  BY <1>1, <1>2, <1>3, <1>4, <1>5 DEF HashAfter

\* Emptying the log keeps the invariant.
LEMMA CompactLogStep ==
  ASSUME JournalInv, CompactLog
  PROVE  JournalInv'
<1>1. /\ pc = "clear" /\ pc' = "idle" /\ log' = <<>> /\ base' = base
      /\ index' = <<>> /\ overlay' = [b \in Block |-> 0] /\ last_hash' = <<>>
      /\ next_sequence' = 1 /\ log_size' = 0 /\ reader' = None
      /\ view' = <<Last(view)>> /\ promised' = <<Last(promised)>>
      /\ interrupted' = FALSE
      /\ inflight' = inflight /\ cli' = cli
  BY DEF CompactLog, others
<1>2. base \in Image /\ base = Current /\ Last(promised) = base /\ Last(view) = base
  BY <1>1 DEF JournalInv, DiskInv, MemoryInv, Running
<1>3. /\ Lines(<<>>) = 0 /\ Shape(<<>>, 0)
      /\ At(base, <<>>, 0) = base /\ Versions(base, <<>>) = <<base>>
      /\ IndexOf(<<>>, 0) = <<>> /\ \A b : Newest(<<>>, 0, b) = 0
      /\ HashAfter(<<>>, 0) = <<>>
  BY <1>2, EmptyFiles
<1>4. Current' = base
  BY <1>1, <1>3 DEF Current
<1>5. <<base>> \in Seq(Image) /\ <<base>> # <<>> /\ Last(<<base>>) = base /\ Len(<<base>>) = 1
  BY <1>2 DEF Last
<1>6. DiskInv'
  BY <1>1, <1>2, <1>3, <1>4, <1>5 DEF DiskInv
<1>7. MemoryInv'
  <2>1. Len(log') <= 2 * 0 /\ log_size' = Len(log') /\ next_sequence' = 0 + 1 /\ Len(view') = 0 + 1
    BY <1>1, <1>2, <1>5
  <2>2. overlay' = [b \in Block |-> Newest(index', 0, b)]
    BY <1>1, <1>3
  <2>3. QED
    BY <2>1, <2>2, <1>1, <1>2, <1>3, <1>4, <1>5 DEF MemoryInv
<1>8. AppendInv'
  BY <1>1 DEF JournalInv, AppendInv
<1>9. QED
  BY <1>1, <1>6, <1>7, <1>8, Zenon, ZenonT(120) DEF JournalInv

-----------------------------------------------------------------------------
\* The steps of an export change nothing of the journal.
LEMMA ExportKeeps ==
  ASSUME JournalInv, UNCHANGED <<pc, disk, memory, inflight, cli, history>>
  PROVE  JournalInv'
<1>1. /\ pc' = pc /\ base' = base /\ log' = log /\ inflight' = inflight /\ cli' = cli
      /\ index' = index /\ overlay' = overlay /\ last_hash' = last_hash
      /\ next_sequence' = next_sequence /\ log_size' = log_size /\ reader' = reader
      /\ promised' = promised /\ view' = view /\ interrupted' = interrupted
  BY DEF disk, memory, history
<1>2. DiskInv' /\ AppendInv'
  BY <1>1 DEF JournalInv, DiskInv, AppendInv, Current
<1>3. MemoryInv'
  BY <1>1 DEF JournalInv, MemoryInv, Running, Current
<1>4. QED
  BY <1>1, <1>2, <1>3 DEF JournalInv

-----------------------------------------------------------------------------
\* Whatever part of the record a crash leaves in the file, the files say what
\* callers rely on.
LEMMA CrashDisk ==
  ASSUME JournalInv, Crash, ~glued'
  PROVE  DiskInv'
<1> DEFINE n == Lines(log)
<1>1. /\ pc' = "down" /\ base' = base
      /\ interrupted' = (interrupted \/ pc = "clear")
      /\ IF inflight = None THEN UNCHANGED <<log, promised, glued>>
         ELSE \E p \in Prefixes(inflight) :
                  /\ Put(p)
                  /\ promised' = IF p # <<>> /\ p[1] = Whole(inflight)
                                 THEN Append(promised, Overwrite(Last(promised), inflight))
                                 ELSE promised
  BY DEF Crash
<1>2. interrupted' = FALSE => interrupted = FALSE /\ pc # "clear"
  BY <1>1, Zenon, ZenonT(120) DEF JournalInv
<1>3. ASSUME log' = log, promised' = promised
      PROVE  DiskInv'
  BY <1>1, <1>2, <1>3 DEF JournalInv, DiskInv, Current
<1>4. ASSUME inflight # None,
             NEW p \in Prefixes(inflight),
             Put(p),
             promised' = IF p # <<>> /\ p[1] = Whole(inflight)
                         THEN Append(promised, Overwrite(Last(promised), inflight))
                         ELSE promised
      PROVE  DiskInv'
  <2>1. pc = "append"
    BY <1>4 DEF JournalInv, AppendInv
  <2>2. CASE p = <<>>
    <3>1. log \in Seq(Piece)
      BY DEF JournalInv, DiskInv, Shape
    <3>2. log' = log /\ promised' = promised
      BY <1>4, <2>2, <3>1 DEF Put
    <3>3. QED
      BY <3>2, <1>3
  <2>3. CASE p = <<Fragment(inflight)>>
    <3>1. p # <<>> /\ p[1] = Fragment(inflight)
      BY <2>3
    <3>2. /\ Shape(log, n) /\ base \in Image /\ Len(log) = 2 * n /\ log' = log \o p
          /\ inflight \in LogRecord /\ n \in Nat
      BY <1>4, <2>1, <3>1, InflightContinues, Zenon, ZenonT(120)
    <3>3. Fragment(inflight) # Whole(inflight)
      BY <3>2, PieceTypes
    <3>4. promised' = promised
      BY <1>4, <3>1, <3>3
    <3>5. Shape(log', n) /\ \A k \in 1..n : Record(log', k) = Record(log, k)
      BY <2>3, <3>2, ShapeFragment
    <3>6. Lines(log') = n /\ At(base, log', n) = At(base, log, n)
      BY <3>2, <3>5, ShapeLines, AtAgree
    <3>7. Versions(base, log') = Versions(base, log)
      BY <3>2, <3>5, VersionsAgree
    <3>8. QED
      BY <1>1, <1>2, <3>4, <3>5, <3>6, <3>7 DEF JournalInv, DiskInv, Current
  <2>4. CASE p \in {<<Whole(inflight)>>, <<Whole(inflight), Newline>>}
    <3>1. p # <<>> /\ p[1] = Whole(inflight)
      BY <2>4
    <3>2. promised' = Append(promised, Overwrite(Last(promised), inflight))
      BY <1>4, <3>1
    <3>3. interrupted' = interrupted
      BY <1>1, <2>1 DEF JournalInv
    <3>4. pc' \notin {"clear", "truncate"}
      BY <1>1
    <3>5. QED
      BY <1>1, <1>4, <2>1, <2>4, <3>2, <3>3, <3>4, PromiseKept, Zenon, ZenonT(120)
  <2>5. QED
    BY <1>4, <2>2, <2>3, <2>4 DEF Prefixes
<1>5. QED
  BY <1>1, <1>3, <1>4

\* A crash at any point keeps the invariant.
LEMMA CrashStep ==
  ASSUME JournalInv, Crash, ~glued'
  PROVE  JournalInv'
<1>1. /\ pc' = "down" /\ inflight' = None /\ cli' = cli
      /\ interrupted' = (interrupted \/ pc = "clear")
  BY DEF Crash
<1>2. MemoryInv' /\ AppendInv'
  BY <1>1 DEF MemoryInv, AppendInv, Running
<1>3. interrupted' \in BOOLEAN
  BY <1>1
<1>4. QED
  BY <1>1, <1>2, <1>3, CrashDisk DEF JournalInv

\* A namespace as provision leaves it satisfies the invariant.
LEMMA InitJournal ==
  ASSUME Init
  PROVE  JournalInv
<1>1. base \in Image
  BY BlocksAssumption DEF Init, Image
<1>2. /\ Lines(<<>>) = 0 /\ Shape(<<>>, 0)
      /\ At(base, <<>>, 0) = base /\ Versions(base, <<>>) = <<base>>
  BY <1>1, EmptyFiles
<1>3. <<base>> \in Seq(Image) /\ <<base>> # <<>> /\ Last(<<base>>) = base
  BY <1>1 DEF Last
<1>4. DiskInv
  BY <1>1, <1>2, <1>3 DEF Init, DiskInv, Current
<1>5. MemoryInv /\ AppendInv
  BY DEF Init, MemoryInv, AppendInv, Running
<1>6. QED
  BY <1>4, <1>5, Zenon, ZenonT(120) DEF Init, JournalInv

\* An append behind a record without a newline is never undone.
LEMMA StaysGlued ==
  ASSUME glued, [Next]_vars
  PROVE  glued'
<1>1. CASE AppendDone \/ AppendShort \/ AppendError \/ Crash
  <2>1. glued' = glued \/ \E p : Put(p)
    BY <1>1, Zenon, ZenonT(120) DEF AppendDone, AppendShort, AppendError, Crash
  <2>2. QED
    BY <2>1 DEF Put
<1>2. CASE ~(AppendDone \/ AppendShort \/ AppendError \/ Crash)
  <2>1. glued' = glued
    BY <1>2 DEF Next, vars, history, OpenClean, OpenTorn, Truncate, AppendBegin, CompactBase,
       CompactLog, CompactError, CompactSyncError, ExportStart, ExportBase, ExportLog,
       ExportError, CliScan, CliTruncate
  <2>2. QED
    BY <2>1
<1>3. QED
  BY <1>1, <1>2

\* Every step keeps the invariant, one case per action.
LEMMA NextJournal ==
  ASSUME OnlyCrashes, JournalInv, [Next]_vars, ~glued'
  PROVE  JournalInv'
<1>1. CASE ExportStart \/ ExportBase \/ ExportLog \/ ExportError \/ UNCHANGED vars
  <2>1. UNCHANGED <<pc, disk, memory, inflight, cli, history>>
    BY <1>1 DEF ExportStart, ExportBase, ExportLog, ExportError, vars, others
  <2>2. QED
    BY <2>1, ExportKeeps
<1>2. ASSUME NEW w \in Writes, AppendBegin(w)
      PROVE  JournalInv'
  BY <1>2, AppendBeginStep
<1>3. ~AppendShort /\ ~AppendError /\ ~CompactError /\ ~CompactSyncError /\ ~CliScan
  BY DEF OnlyCrashes, AppendShort, AppendError, CompactError, CompactSyncError, CliScan
<1>4. ~CliTruncate
  BY DEF JournalInv, CliTruncate
<1>5. QED
  BY <1>1, <1>2, <1>3, <1>4, OpenCleanStep, OpenTornStep, TruncateStep, AppendDoneStep,
     CompactBaseStep, CompactLogStep, CrashStep DEF Next

\* When the only failures are crashes, the files and the memory of the journal
\* always describe the same records, and the image they give is the one
\* promised: the inductive invariant of append, _replay and compact, up to the
\* first append behind a record without a newline.
THEOREM JournalInvariant ==
  ASSUME OnlyCrashes
  PROVE  Spec => [](~glued => JournalInv)
<1>1. Init => (~glued => JournalInv)
  BY InitJournal
<1>2. (~glued => JournalInv) /\ [Next]_vars => (~glued => JournalInv)'
  BY NextJournal, StaysGlued
<1>3. QED
  BY <1>1, <1>2, PTL, PTL DEF Spec

-----------------------------------------------------------------------------
\* An export starts from a sequence the session has.
LEMMA ExportStartStep ==
  ASSUME JournalInv, ExportStart
  PROVE  ExportInv'
<1> DEFINE n == Lines(log)
<1>1. PICK target \in 0..last_sequence :
         export' = [target |-> target, base |-> None, want |-> view[target + 1],
                    mixed |-> pc = "clear"]
  BY DEF ExportStart
<1>2. /\ Running /\ pc' = pc /\ base' = base /\ log' = log /\ last_sequence' = last_sequence
  BY DEF ExportStart, disk, memory, last_sequence
<1>3. /\ export'.target = target /\ export'.base = None
      /\ export'.want = view[target + 1] /\ export'.mixed = (pc = "clear")
      /\ export' = [target |-> export'.target, base |-> export'.base, want |-> export'.want,
                    mixed |-> export'.mixed]
  BY <1>1
<1>4. ASSUME pc # "clear"
      PROVE  view[target + 1] = At(base, log, target)
  <2>1. /\ Shape(log, n) /\ base \in Image /\ view = Versions(base, log)
        /\ next_sequence = n + 1
    BY <1>2, <1>4 DEF JournalInv, DiskInv, MemoryInv
  <2>2. n \in Nat /\ next_sequence = n + 1
    BY <2>1, Zenon, ZenonT(120) DEF Shape
  <2>3. Versions(base, log) = [s \in 1..n + 1 |-> At(base, log, s - 1)]
    BY <2>1, VersionsAre
  <2> HIDE DEF n
  <2>4. target + 1 \in 1..n + 1 /\ (target + 1) - 1 = target
    BY <2>2 DEF last_sequence
  <2>5. QED
    BY <2>1, <2>3, <2>4
<1>5. QED
  BY <1>2, <1>3, <1>4 DEF ExportInv, Running

\* The base image an export copies is the one its target is relative to.
LEMMA ExportBaseStep ==
  ASSUME ExportInv, ExportBase
  PROVE  ExportInv'
<1>1. /\ export # None /\ export' = [export EXCEPT !.base = base]
      /\ pc' = pc /\ base' = base /\ log' = log /\ last_sequence' = last_sequence
  BY DEF ExportBase, disk, memory, last_sequence
<1>2. export = [target |-> export.target, base |-> export.base, want |-> export.want,
                mixed |-> export.mixed]
  BY <1>1 DEF ExportInv
<1>3. export' = [target |-> export.target, base |-> base, want |-> export.want,
                 mixed |-> export.mixed]
  BY <1>1, <1>2
<1>4. /\ export'.target = export.target /\ export'.base = base /\ export'.want = export.want
      /\ export'.mixed = export.mixed
      /\ export' = [target |-> export'.target, base |-> export'.base, want |-> export'.want,
                    mixed |-> export'.mixed]
  BY <1>3
<1>5. QED
  BY <1>1, <1>4 DEF ExportInv, Running

\* snapshot keeps as many lines as the target sequence says.
LEMMA KeptIs ==
  ASSUME NEW f, NEW n, Shape(f, n), NEW target \in 0..n
  PROVE  Kept(f, target) = target
<1>1. n \in Nat /\ Lines(f) = n /\ target \in Nat
  <2>1. n \in Nat
    BY DEF Shape
  <2>2. QED
    BY <2>1, ShapeLines
<1>2. \A k \in 1..n : Record(f, k).sequence = k
  BY DEF Shape
<1>3. /\ \A k \in 1..target : Record(f, k).sequence <= target
      /\ target = n \/ Record(f, target + 1).sequence > target
  BY <1>1, <1>2
<1>4. ASSUME NEW m \in 0..n, \A k \in 1..m : Record(f, k).sequence <= target,
             m = n \/ Record(f, m + 1).sequence > target
      PROVE  m = target
  <2>1. CASE m > target
    <3>1. m \in 1..m /\ m \in 1..n
      BY <1>1, <2>1
    <3>2. QED
      BY <1>1, <1>2, <1>4, <2>1, <3>1
  <2>2. CASE m < target
    <3>1. m + 1 \in 1..n /\ m # n
      BY <1>1, <2>2
    <3>2. QED
      BY <1>1, <1>2, <1>4, <2>2, <3>1
  <2>3. QED
    BY <1>1, <2>1, <2>2
<1>5. QED
  BY <1>1, <1>3, <1>4 DEF Kept

\* The log an export copies gives the image of its target.
LEMMA CopiesTarget ==
  ASSUME JournalInv, ExportInv
  PROVE  ExportFaithful
<1> SUFFICES ASSUME Exportable, ~export.mixed
             PROVE  /\ export.target <= Lines(Copy)
                    /\ Versions(export.base, Copy)[export.target + 1] = export.want
  BY DEF ExportFaithful
<1> DEFINE n == Lines(log)
           t == export.target
<1>1. /\ Running /\ pc # "clear" /\ t \in 0..last_sequence /\ export.base = base
      /\ export.want = At(base, log, t)
  BY DEF Exportable, ExportInv
<1>2. Shape(log, n) /\ base \in Image /\ next_sequence = n + 1
  BY <1>1 DEF JournalInv, DiskInv, MemoryInv
<1>3. n \in Nat /\ t \in 0..n /\ t \in Nat
  <2>1. n \in Nat /\ next_sequence = n + 1 /\ t \in 0..last_sequence
    BY <1>1, <1>2, Zenon, ZenonT(120) DEF Shape
  <2> HIDE DEF n, t
  <2>2. last_sequence = n
    BY <2>1 DEF last_sequence
  <2>3. QED
    BY <2>1, <2>2
<1>4. Copy = [i \in 1..2 * t |-> IF i <= Len(log) THEN log[i] ELSE Newline]
  <2>1. Kept(log, t) = t
    BY <1>2, <1>3, KeptIs
  <2>2. QED
    BY <2>1, Zenon, ZenonT(120) DEF Copy
<1>5. Shape(Copy, t) /\ \A k \in 1..t : Record(Copy, k) = Record(log, k)
  BY <1>2, <1>3, <1>4, ShapeCopy, Zenon, ZenonT(120)
<1> HIDE DEF t
<1>6. Lines(Copy) = t /\ At(base, Copy, t) = At(base, log, t)
  BY <1>3, <1>5, ShapeLines, AtAgree
<1>7. Versions(base, Copy)[t + 1] = At(base, Copy, t)
  <2>1. t + 1 \in 1..t + 1 /\ (t + 1) - 1 = t
    BY <1>3
  <2>2. Versions(base, Copy) = [s \in 1..t + 1 |-> At(base, Copy, s - 1)]
    BY <1>2, <1>5, VersionsAre
  <2>3. QED
    BY <2>1, <2>2
<1>8. QED
  BY <1>1, <1>3, <1>6, <1>7 DEF t

\* A record appended beside an export is after its target.
LEMMA ExportBesideAppend ==
  ASSUME JournalInv, ExportInv, AppendDone, ~glued'
  PROVE  ExportInv'
<1> DEFINE n == Lines(log)
           tail == <<Whole(inflight), Newline>>
<1>1. /\ pc = "append" /\ Put(tail) /\ tail \in {<<Whole(inflight)>>, <<Whole(inflight), Newline>>}
      /\ pc' = "idle" /\ base' = base /\ next_sequence' = next_sequence + 1
      /\ export' = export
  BY DEF AppendDone, Acknowledge, others
<1>2. \A s \in 0..n : At(base, log', s) = At(base, log, s)
  BY <1>1, RecordWritten, Zenon, ZenonT(120)
<1>3. n \in Nat /\ next_sequence = n + 1
  BY <1>1, Zenon, ZenonT(120) DEF JournalInv, DiskInv, MemoryInv, Running, Shape
<1>4. ASSUME export # None, export.mixed = FALSE
      PROVE  /\ export.target \in 0..last_sequence'
             /\ export.want = At(base, log', export.target)
  <2>1. /\ export.target \in 0..n /\ export.want = At(base, log, export.target)
    BY <1>3, <1>4 DEF ExportInv, last_sequence
  <2>2. last_sequence' = n + 1
    BY <1>1, <1>3 DEF last_sequence
  <2>3. export.target \in 0..n + 1
    BY <2>1, <1>3
  <2>4. QED
    BY <2>1, <2>2, <2>3, <1>2
<1>5. QED
  BY <1>1, <1>4 DEF ExportInv, Running

\* A compaction marks the export it overtakes.
LEMMA ExportBesideCompact ==
  ASSUME JournalInv, ExportInv, CompactBase \/ CompactLog
  PROVE  ExportInv'
<1>1. CASE export = None
  <2>1. export' = None
    BY <1>1 DEF CompactBase, CompactLog, others
  <2>2. QED
    BY <2>1 DEF ExportInv
<1>2. CASE export # None
  <2>1. export = [target |-> export.target, base |-> export.base, want |-> export.want,
                  mixed |-> export.mixed]
    BY <1>2 DEF ExportInv
  <2>2. pc' \in {"clear", "idle"}
    BY DEF CompactBase, CompactLog
  <2>3. export' = [target |-> export.target, base |-> export.base, want |-> export.want,
                   mixed |-> TRUE]
    <3>1. CASE CompactBase
      BY <1>2, <2>1, <3>1 DEF CompactBase
    <3>2. CASE CompactLog
      <4>1. pc = "clear" /\ export' = export
        BY <3>2 DEF CompactLog, others
      <4>2. export.mixed = TRUE
        BY <1>2, <4>1 DEF ExportInv
      <4>3. QED
        BY <2>1, <4>1, <4>2
    <3>3. QED
      BY <3>1, <3>2
  <2>4. /\ export'.mixed = TRUE
        /\ export' = [target |-> export'.target, base |-> export'.base, want |-> export'.want,
                      mixed |-> export'.mixed]
    BY <2>3
  <2>5. QED
    BY <2>2, <2>4 DEF ExportInv, Running
<1>3. QED
  BY <1>1, <1>2

\* Every step keeps the export invariant, one case per action.
LEMMA NextExport ==
  ASSUME OnlyCrashes, JournalInv, ExportInv, [Next]_vars, ~glued'
  PROVE  ExportInv'
<1>1. CASE OpenClean \/ OpenTorn \/ Truncate
  <2>1. export = None /\ export' = None
    BY <1>1 DEF OpenClean, OpenTorn, Truncate, others, ExportInv, Running
  <2>2. QED
    BY <2>1 DEF ExportInv
<1>2. CASE Crash \/ ExportLog \/ ExportError
  <2>1. export' = None
    BY <1>2 DEF Crash, ExportLog, ExportError
  <2>2. QED
    BY <2>1 DEF ExportInv
<1>3. ASSUME NEW w \in Writes, AppendBegin(w)
      PROVE  ExportInv'
  <2>1. /\ pc' = "append" /\ export' = export /\ base' = base
        /\ log' = log /\ last_sequence' = last_sequence
    BY <1>3 DEF AppendBegin, disk, memory, others, last_sequence
  <2>2. QED
    BY <2>1 DEF ExportInv, Running
<1>4. CASE UNCHANGED vars
  <2>1. /\ pc' = pc /\ export' = export /\ base' = base
        /\ log' = log /\ last_sequence' = last_sequence
    BY <1>4 DEF vars, disk, memory, others, last_sequence
  <2>2. QED
    BY <2>1 DEF ExportInv, Running
<1>5. ~AppendShort /\ ~AppendError /\ ~CompactError /\ ~CompactSyncError /\ ~CliScan
  BY DEF OnlyCrashes, AppendShort, AppendError, CompactError, CompactSyncError, CliScan
<1>6. ~CliTruncate
  BY DEF JournalInv, CliTruncate
<1>7. QED
  BY <1>1, <1>2, <1>3, <1>4, <1>5, <1>6, ExportStartStep, ExportBaseStep,
     ExportBesideAppend, ExportBesideCompact, Zenon, ZenonT(120) DEF Next

-----------------------------------------------------------------------------
\* Whatever a power cut leaves of append, compact or _discard_torn_tail, _replay
\* opens the journal at the next start, unless an append went behind a record
\* without a newline.
THEOREM CrashesOpen ==
  ASSUME OnlyCrashes
  PROVE  Spec => []AlwaysOpens
<1>1. (~glued => JournalInv) => AlwaysOpens
  BY ShapeOpens DEF JournalInv, DiskInv, AlwaysOpens
<1>2. QED
  BY <1>1, JournalInvariant, PTL, PTL

\* While the journal is open, read returns what the acknowledged writes say,
\* across crashes, torn tails and compactions, with the same exception.
THEOREM AcknowledgedWritesDurable ==
  ASSUME OnlyCrashes
  PROVE  Spec => []AckedDurable
<1>1. (~glued => JournalInv) => AckedDurable
  BY ReadsCurrent, Zenon, ZenonT(120) DEF JournalInv, DiskInv, AckedDurable
<1>2. QED
  BY <1>1, JournalInvariant, PTL, PTL

\* A read with at_sequence returns the image as it was after this record, unless
\* a compaction was cut off between its two replacements or an append went behind
\* a record without a newline.
THEOREM PastReadable ==
  ASSUME OnlyCrashes
  PROVE  Spec => []PointInTime
<1>1. (~glued => JournalInv) => PointInTime
  <2> SUFFICES ASSUME JournalInv, Running, pc # "clear", ~interrupted, ~glued
               PROVE  /\ Len(promised) = next_sequence
                      /\ \A s \in 0..last_sequence, b \in Block :
                            ReadAt(b, s) = promised[s + 1][b]
    BY DEF PointInTime
  <2> DEFINE n == Lines(log)
  <2>1. interrupted = FALSE
    BY DEF JournalInv
  <2>2. Shape(log, n) /\ base \in Image /\ promised = Versions(base, log)
        /\ next_sequence = n + 1
    BY <2>1 DEF JournalInv, DiskInv, MemoryInv
  <2>3. /\ promised = [s \in 1..n + 1 |-> At(base, log, s - 1)] /\ Len(promised) = n + 1
    BY <2>2, VersionsAre
  <2>4. n \in Nat /\ last_sequence = n
    BY <2>2 DEF Shape, last_sequence
  <2>5. ASSUME NEW s \in 0..last_sequence, NEW b \in Block
        PROVE  ReadAt(b, s) = promised[s + 1][b]
    <3>1. s + 1 \in 1..n + 1 /\ (s + 1) - 1 = s
      BY <2>4
    <3>2. promised[s + 1] = At(base, log, s)
      BY <2>3, <3>1
    <3>3. QED
      BY <3>2, ReadsAt
  <2>6. QED
    BY <2>2, <2>3, <2>5, Zenon, ZenonT(120)
<1>2. QED
  BY <1>1, JournalInvariant, PTL, PTL

\* A recovery export that completes, beside appends and across the record append
\* is writing, gives the image of its target sequence, unless a compaction or an
\* append behind a record without a newline went by.
THEOREM ExportsFaithful ==
  ASSUME OnlyCrashes
  PROVE  Spec => [](~glued => ExportFaithful)
<1>1. Init => (~glued => ExportInv)
  BY DEF Init, ExportInv
<1>2. (~glued => JournalInv) /\ (~glued => ExportInv) /\ [Next]_vars => (~glued => ExportInv)'
  BY NextExport, StaysGlued
<1>3. (~glued => JournalInv) /\ (~glued => ExportInv) => (~glued => ExportFaithful)
  BY CopiesTarget
<1>4. QED
  BY <1>1, <1>2, <1>3, JournalInvariant, PTL, PTL DEF Spec

-----------------------------------------------------------------------------
(* The refinement.                                                         *)

\* The write the block store has pending.
Pending ==
    IF inflight = None THEN None ELSE [block |-> inflight.block, data |-> inflight.data]

\* The image of the refinement mapping is the one the invariant speaks of.
LEMMA MappedImage ==
  ASSUME JournalInv
  PROVE  Last(Versions(base, log)) = Current
  BY VersionsAre DEF JournalInv, DiskInv, Current

\* A step that changes neither the image nor the pending write is a stutter of
\* the block store.
LEMMA Stutters ==
  ASSUME JournalInv, JournalInv', Current' = Current, Pending' = Pending
  PROVE  UNCHANGED Store!vars
<1>1. Last(Versions(base, log)) = Current
  BY MappedImage
<1>2. Last(Versions(base', log')) = Current'
  BY VersionsAre DEF JournalInv, DiskInv, Current
<1>3. QED
  BY <1>1, <1>2 DEF Store!vars, Pending

\* A record that reaches the file whole commits its write.
LEMMA Commits ==
  ASSUME JournalInv, JournalInv', inflight # None, pc = "append",
         NEW tail \in {<<Whole(inflight)>>, <<Whole(inflight), Newline>>}, Put(tail), ~glued',
         base' = base, inflight' = None
  PROVE  Store!Commit
<1> DEFINE n == Lines(log)
<1>1. Last(Versions(base, log)) = Current
  BY MappedImage
<1>2. Last(Versions(base', log')) = Current'
  BY VersionsAre DEF JournalInv, DiskInv, Current
<1>3. Current' = Overwrite(Current, inflight)
  BY RecordWritten, Zenon, ZenonT(120) DEF Current
<1>4. Pending # None
  BY NoneAssumption DEF Pending, JournalInv, AppendInv
<1>5. QED
  BY <1>1, <1>2, <1>3, <1>4 DEF Store!Commit, Store!After, Overwrite, Block, Pending

\* A crash commits the write in progress or drops it, and changes no other block.
LEMMA CrashMaps ==
  ASSUME JournalInv, JournalInv', Crash, ~glued'
  PROVE  [Store!Next]_(Store!vars)
<1> DEFINE n == Lines(log)
<1>1. base' = base /\ inflight' = None
  BY DEF Crash
<1>2. CASE inflight = None
  <2>1. log' = log
    BY <1>2 DEF Crash
  <2>2. QED
    BY <1>1, <1>2, <2>1, Stutters DEF Current, Pending
<1>3. CASE inflight # None
  <2>1. /\ pc = "append" /\ log \in Seq(Piece)
        /\ [block |-> inflight.block, data |-> inflight.data] \in Writes
    <3>1. pc = "append"
      BY <1>3 DEF JournalInv, AppendInv
    <3>2. QED
      BY <3>1, Zenon, ZenonT(120) DEF JournalInv, DiskInv, AppendInv, Shape
  <2>2. PICK p \in Prefixes(inflight) : Put(p)
    BY <1>3, Zenon, ZenonT(120) DEF Crash
  <2>3. Last(Versions(base, log)) = Current
    BY MappedImage
  <2>4. Last(Versions(base', log')) = Current'
    BY VersionsAre DEF JournalInv, DiskInv, Current
  <2>5. ASSUME Current' = Current
        PROVE  Store!Abandon
    BY <1>1, <1>3, <2>1, <2>3, <2>4, <2>5, NoneAssumption DEF Store!Abandon
  <2>6. CASE p = <<>>
    <3>1. log' = log
      BY <2>1, <2>2, <2>6 DEF Put
    <3>2. QED
      BY <1>1, <2>5, <3>1 DEF Current, Store!Next
  <2>7. CASE p = <<Fragment(inflight)>>
    <3>1. p # <<>>
      BY <2>7
    <3>2. /\ Shape(log, n) /\ Len(log) = 2 * n /\ log' = log \o p
          /\ inflight \in LogRecord /\ n \in Nat
      BY <2>1, <2>2, <3>1, InflightContinues, Zenon, ZenonT(120)
    <3>3. Shape(log', n) /\ \A k \in 1..n : Record(log', k) = Record(log, k)
      BY <2>7, <3>2, ShapeFragment
    <3>4. Lines(log') = n /\ At(base, log', n) = At(base, log, n)
      BY <3>2, <3>3, ShapeLines, AtAgree
    <3>5. QED
      BY <1>1, <2>5, <3>4 DEF Current, Store!Next
  <2>8. CASE p \in {<<Whole(inflight)>>, <<Whole(inflight), Newline>>}
    BY <1>1, <1>3, <2>1, <2>2, <2>8, Commits, Zenon, ZenonT(120) DEF Store!Next
  <2>9. QED
    BY <2>2, <2>6, <2>7, <2>8 DEF Prefixes
<1>4. QED
  BY <1>2, <1>3

\* Neither half of a compaction is visible in the block store.
LEMMA CompactMaps ==
  ASSUME JournalInv, JournalInv', CompactBase \/ CompactLog
  PROVE  UNCHANGED Store!vars
<1>1. CASE CompactBase
  <2>1. pc' = "clear" /\ base' = [b \in Block |-> Read(b)] /\ pc = "idle" /\ inflight' = inflight
    BY <1>1 DEF CompactBase
  <2>2. base' = Current
    <3>1. \A b \in Block : Read(b) = Current[b]
      BY <2>1, ReadsCurrent DEF Running
    <3>2. Current = [b \in Block |-> Current[b]]
      BY Zenon, ZenonT(120) DEF Current, At
    <3>3. QED
      BY <2>1, <3>1, <3>2
  <2>3. base' = Current'
    BY <2>1 DEF JournalInv, DiskInv
  <2>4. QED
    BY <2>1, <2>2, <2>3, Stutters DEF Pending
<1>2. CASE CompactLog
  <2>1. pc = "clear" /\ base' = base /\ log' = <<>> /\ inflight' = inflight
    BY <1>2 DEF CompactLog
  <2>2. base \in Image /\ base = Current
    BY <2>1 DEF JournalInv, DiskInv
  <2>3. Lines(<<>>) = 0 /\ At(base, <<>>, 0) = base
    BY <2>2, EmptyFiles
  <2>4. Current' = base
    BY <2>1, <2>3 DEF Current
  <2>5. QED
    BY <2>1, <2>2, <2>4, Stutters DEF Pending
<1>3. QED
  BY <1>1, <1>2

\* Cutting off a torn tail is not visible in the block store.
LEMMA TruncateMaps ==
  ASSUME JournalInv, JournalInv', Truncate
  PROVE  UNCHANGED Store!vars
<1> DEFINE n == Lines(log)
<1>1. pc = "truncate" /\ log' = SubSeq(log, 1, 2 * n) /\ base' = base /\ inflight' = inflight
  BY DEF Truncate
<1>2. Shape(log, n) /\ n \in Nat /\ Len(log) > 2 * n
  BY <1>1, Zenon, ZenonT(120) DEF JournalInv, DiskInv, Shape
<1>3. Shape(log', n) /\ \A k \in 1..n : Record(log', k) = Record(log, k)
  BY <1>1, <1>2, ShapeCut
<1>4. Lines(log') = n /\ At(base, log', n) = At(base, log, n)
  BY <1>2, <1>3, ShapeLines, AtAgree
<1>5. QED
  BY <1>1, <1>4, Stutters DEF Current, Pending

\* Every step of the journal is a step of the block store or a stutter.
LEMMA NextMaps ==
  ASSUME OnlyCrashes, JournalInv, JournalInv', [Next]_vars, ~glued'
  PROVE  [Store!Next]_(Store!vars)
<1>1. CASE \/ OpenClean \/ OpenTorn \/ ExportStart \/ ExportBase \/ ExportLog \/ ExportError
           \/ UNCHANGED vars
  <2>1. base' = base /\ log' = log /\ inflight' = inflight
    BY <1>1 DEF OpenClean, OpenTorn, ExportStart, ExportBase, ExportLog, ExportError, vars, disk
  <2>2. QED
    BY <2>1, Stutters DEF Current, Pending
<1>2. ASSUME NEW w \in Writes, AppendBegin(w)
      PROVE  Store!Submit
  <2>1. /\ pc = "idle" /\ pc' = "append" /\ base' = base /\ log' = log
    BY <1>2 DEF AppendBegin, disk
  <2>2. inflight = None
    BY <2>1 DEF JournalInv, AppendInv
  <2>3. inflight' # None /\ [block |-> inflight'.block, data |-> inflight'.data] \in Writes
    BY <2>1, NoneAssumption DEF JournalInv, AppendInv
  <2>4. QED
    BY <2>1, <2>2, <2>3 DEF Store!Submit
<1>3. CASE AppendDone
  <2> DEFINE tail == <<Whole(inflight), Newline>>
  <2>1. /\ pc = "append" /\ Put(tail) /\ tail \in {<<Whole(inflight)>>, <<Whole(inflight), Newline>>}
        /\ base' = base /\ inflight' = None
    BY <1>3 DEF AppendDone, Acknowledge
  <2>2. inflight # None
    BY <2>1, NoneAssumption, Zenon, ZenonT(120) DEF JournalInv, AppendInv
  <2>3. QED
    BY <2>1, <2>2, Commits, Zenon, ZenonT(120) DEF Store!Next
<1>4. ~AppendShort /\ ~AppendError /\ ~CompactError /\ ~CompactSyncError /\ ~CliScan
  BY DEF OnlyCrashes, AppendShort, AppendError, CompactError, CompactSyncError, CliScan
<1>5. ~CliTruncate
  BY DEF JournalInv, CliTruncate
<1>6. QED
  BY <1>1, <1>2, <1>3, <1>4, <1>5, TruncateMaps, CompactMaps, CrashMaps
  DEF Next, Store!Next

\* A namespace as provision leaves it is an empty block store.
LEMMA InitMaps ==
  ASSUME Init
  PROVE  Store!Init
<1>1. JournalInv
  BY InitJournal
<1>2. Last(Versions(base, log)) = base
  <2>1. base \in Image /\ log = <<>>
    BY <1>1 DEF Init, JournalInv, DiskInv
  <2>2. Lines(<<>>) = 0 /\ At(base, <<>>, 0) = base
    BY <2>1, EmptyFiles
  <2>3. QED
    BY <1>1, <2>1, <2>2, MappedImage DEF Current
<1>3. QED
  BY <1>2 DEF Init, Store!Init, Block

\* The journal implements the block store up to the first append behind a record
\* without a newline: append is atomic, and crash recovery and compaction (cut off
\* or not) never change what is stored.
THEOREM JournalRefines ==
  ASSUME OnlyCrashes
  PROVE  Spec => ImplementsBlockStore
<1>1. Init => Store!Init
  BY InitMaps
<1>2. (~glued => JournalInv) /\ (~glued => JournalInv)' /\ [Next]_vars
        => [Store!Next \/ glued']_(Store!vars)
  BY NextMaps, StaysGlued, Zenon, ZenonT(120)
<1>3. QED
  BY <1>1, <1>2, JournalInvariant, PTL, PTL DEF Spec, ImplementsBlockStore
=============================================================================
