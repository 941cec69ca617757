------------------------ MODULE DamagedJournalProofs ------------------------
(***************************************************************************)
(* Theorems about DurableJournal under every failure the model has: short  *)
(* and raised writes, failed compactions, and other processes that cut the *)
(* log off.                                                                *)
(*                                                                         *)
(* Nothing can be said here of what the log holds.  The invariant says     *)
(* that a record found in the file the read handle has open, if it has the *)
(* sequence of the newest entry for a block, is the record of this entry.  *)
(***************************************************************************)
EXTENDS DurableJournalProofs

\* A leaf that names no prover is tried with these, with time to spare.
USE SMTT(60), SMTT(120), ZenonT(120)

-----------------------------------------------------------------------------
(* The invariant under every failure.                                      *)

\* An entry of the index.
Entry == [sequence: Nat, block: Nat, blocks: Nat, offset: Nat]

\* The files, and the one the read handle has open, have their types.
FilesTyped == base \in Image /\ log \in Seq(Piece) /\ Opened \in Seq(Piece)

\* The index holds one entry per sequence, and the overlay points into it.
IndexTyped ==
    /\ index \in Seq(Entry) /\ next_sequence = Len(index) + 1
    /\ \A k \in 1..Len(index) : index[k].sequence = k
    /\ overlay \in [Block -> 0..Len(index)]
    /\ \A b \in Block : overlay[b] # 0 => Covers(index[overlay[b]], b)
    /\ last_hash \in Seq(Body) /\ log_size \in Nat

\* An open journal has served one image per sequence.
ViewTyped == Running => view \in Seq(Image) /\ Len(view) = next_sequence

\* Another process truncates at the end of a line as it saw the file.
CliTyped == cli # None => cli \in Nat /\ cli % 2 = 0

\* append alone has a record in flight, with the next sequence.
InflightTyped ==
    IF pc = "append" THEN inflight \in LogRecord /\ inflight.sequence = next_sequence
                     ELSE inflight = None

\* The types, and what a log about to be truncated passed.
Typed ==
    /\ pc \in {"down", "truncate", "idle", "append", "clear"}
    /\ FilesTyped /\ IndexTyped /\ ViewTyped /\ CliTyped /\ InflightTyped
    /\ pc = "truncate" => Chained(log) /\ 2 * Lines(log) <= Len(log)
    /\ interrupted \in BOOLEAN

\* A record with the sequence of the newest entry for a block holds what the
\* session last said of the block, if it has the length of the entry.
Agrees(r, entries, newest, image) ==
    /\ r.sequence \in 1..Len(entries)
    /\ \A b \in Block :
           newest[b] = r.sequence /\ Len(r.data) = entries[r.sequence].blocks =>
               r.data[b - entries[r.sequence].block + 1] = image[b]

\* The base image and the records of the file the read handle has open say what
\* the session says.
Matches ==
    Running =>
        /\ \A b \in Block : overlay[b] = 0 => base[b] = Last(view)[b]
        /\ pc = "clear" => \A b \in Block : base[b] = Last(view)[b]
        /\ \A i \in 1..Len(Opened) :
               Opened[i].kind = "record" => Agrees(Opened[i].record, index, overlay, Last(view))

-----------------------------------------------------------------------------
\* A number of lines that parse, before one that does not, is the number _replay
\* reads.
LEMMA LinesAre ==
  ASSUME NEW f \in Seq(Piece), NEW n \in Nat,
         \A k \in 1..n : Parses(f, 2 * k - 1), ~Parses(f, 2 * n + 1)
  PROVE  Lines(f) = n
<1>1. n \in 0..Len(f)
  <2>1. CASE n = 0
    BY <2>1
  <2>2. CASE n > 0
    <3>1. Parses(f, 2 * n - 1)
      BY <2>2
    <3>2. QED
      BY <3>1 DEF Parses
  <2>3. QED
    BY <2>1, <2>2
<1>2. ASSUME NEW m \in 0..Len(f), \A k \in 1..m : Parses(f, 2 * k - 1), ~Parses(f, 2 * m + 1)
      PROVE  m = n
  <2>1. CASE m < n
    <3>1. m + 1 \in 1..n /\ 2 * (m + 1) - 1 = 2 * m + 1
      BY <2>1
    <3>2. QED
      BY <3>1, <1>2, Zenon, ZenonT(120)
  <2>2. CASE m > n
    <3>1. n + 1 \in 1..m /\ 2 * (n + 1) - 1 = 2 * n + 1
      BY <2>2
    <3>2. QED
      BY <3>1, <1>2, Zenon, ZenonT(120)
  <2>3. QED
    BY <2>1, <2>2
<1>3. QED
  BY <1>1, <1>2 DEF Lines

\* _replay stops at some line of every file, and what it read are records.
LEMMA LinesFound ==
  ASSUME NEW f \in Seq(Piece)
  PROVE  /\ Lines(f) \in Nat
         /\ \A k \in 1..Lines(f) : Parses(f, 2 * k - 1) /\ Record(f, k) \in LogRecord
         /\ ~Parses(f, 2 * Lines(f) + 1)
<1> DEFINE Bad == {n \in Nat : ~Parses(f, 2 * n + 1)}
<1>1. Len(f) \in Bad
  <2>1. Len(f) \in Nat /\ ~(2 * Len(f) + 1 <= Len(f))
    OBVIOUS
  <2>2. QED
    BY <2>1 DEF Parses
<1>2. PICK n \in Bad : \A m \in Bad : n <= m
  BY <1>1, LeastNatural, Zenon, ZenonT(120)
<1>3. ASSUME NEW k \in 1..n
      PROVE  Parses(f, 2 * k - 1)
  <2>1. k - 1 \in Nat /\ k - 1 < n /\ 2 * (k - 1) + 1 = 2 * k - 1 /\ n \in Nat
    OBVIOUS
  <2>2. k - 1 \notin Bad
    <3> HIDE DEF Bad
    <3>1. QED
      BY <2>1, <1>2
  <2>3. Parses(f, 2 * (k - 1) + 1)
    BY <2>1, <2>2
  <2>4. QED
    BY <2>1, <2>3
<1>4. Lines(f) = n
  BY <1>2, <1>3, LinesAre
<1>5. ASSUME NEW k \in 1..n
      PROVE  Record(f, k) \in LogRecord
  <2>1. 2 * k - 1 \in 1..Len(f) /\ f[2 * k - 1].kind = "record"
    BY <1>3, <1>5 DEF Parses
  <2>2. f[2 * k - 1] \in Piece
    BY <2>1
  <2>3. QED
    BY <2>1, <2>2 DEF Record, Piece
<1>6. QED
  BY <1>2, <1>3, <1>4, <1>5

\* A natural is even or odd.
LEMMA Halves ==
  ASSUME NEW i \in Nat
  PROVE  \E k \in Nat : i = 2 * k \/ i = 2 * k + 1
<1>1. i \div 2 \in Nat /\ (i = 2 * (i \div 2) \/ i = 2 * (i \div 2) + 1)
  OBVIOUS
<1>2. QED
  BY <1>1

\* An even natural is twice another.
LEMMA EvenHalf ==
  ASSUME NEW i \in Nat, i % 2 = 0
  PROVE  \E k \in Nat : i = 2 * k
<1>1. i \div 2 \in Nat /\ i = 2 * (i \div 2)
  OBVIOUS
<1>2. QED
  BY <1>1

\* In a file that is all lines, the records are those of the lines.
LEMMA AllLines ==
  ASSUME NEW f \in Seq(Piece), Rest(f) = <<>>, NEW i \in 1..Len(f), f[i].kind = "record"
  PROVE  \E k \in 1..Lines(f) : i = 2 * k - 1
<1> DEFINE n == Lines(f)
<1>1. n \in Nat /\ \A k \in 1..n : Parses(f, 2 * k - 1)
  BY LinesFound
<1>2. Len(f) <= 2 * n
  <2>1. SubSeq(f, 2 * n + 1, Len(f)) = <<>>
    BY DEF Rest
  <2> HIDE DEF n
  <2>2. ASSUME Len(f) > 2 * n
        PROVE  FALSE
    <3>1. Len(SubSeq(f, 2 * n + 1, Len(f))) = Len(f) - 2 * n
      <4>1. 2 * n + 1 \in 1..Len(f) /\ Len(f) \in Nat
        BY <1>1, <2>2
      <4>2. \A m \in 1..Len(f) : Len(SubSeq(f, m, Len(f))) = Len(f) - m + 1
        BY <4>1
      <4>3. QED
        BY <4>1, <4>2, <1>1
    <3>2. QED
      BY <2>1, <2>2, <3>1, <1>1
  <2>3. QED
    BY <2>2, <1>1
<1> HIDE DEF n
<1>3. PICK k \in Nat : i - 1 = 2 * k \/ i - 1 = 2 * k + 1
  <2>1. i - 1 \in Nat
    OBVIOUS
  <2>2. QED
    BY <2>1, Halves, Zenon, ZenonT(120)
<1>4. k + 1 \in 1..n
  BY <1>1, <1>2, <1>3
<1>5. CASE i - 1 = 2 * k
  <2>1. i = 2 * (k + 1) - 1
    BY <1>5
  <2>2. QED
    BY <1>4, <2>1 DEF n
<1>6. CASE i - 1 = 2 * k + 1
  <2>1. 2 * (k + 1) - 1 = 2 * k + 1 /\ 2 * k + 1 # Len(f) /\ (2 * k + 1) + 1 = i
    BY <1>6
  <2>2. f[i] = Newline
    BY <1>1, <1>4, <2>1, Zenon, ZenonT(120) DEF Parses
  <2>3. QED
    BY <2>2 DEF Newline
<1>7. QED
  BY <1>3, <1>5, <1>6

\* The hash _replay ends with is a chain of bodies.
LEMMA AllLinesHash ==
  ASSUME NEW f \in Seq(Piece), Rest(f) = <<>>
  PROVE  (IF f = <<>> THEN <<>> ELSE RecordHash(Record(f, Lines(f)))) \in Seq(Body)
<1> DEFINE n == Lines(f)
<1>1. n \in Nat /\ \A k \in 1..n : Record(f, k) \in LogRecord
  BY LinesFound
<1>2. f # <<>> => n > 0
  <2> SUFFICES ASSUME n = 0 PROVE f = <<>>
    BY <1>1
  <2>1. SubSeq(f, 1, Len(f)) = <<>>
    BY DEF Rest
  <2>2. Len(SubSeq(f, 1, Len(f))) = Len(f)
    OBVIOUS
  <2>3. QED
    BY <2>1, <2>2
<1>3. f # <<>> => Record(f, n) \in LogRecord
  BY <1>1, <1>2
<1> HIDE DEF n
<1>4. QED
  BY <1>3 DEF RecordHash, LogRecord, Body, n

\* A file with the first lines of one whose integrity checks pass passes them.
LEMMA ChainedAgree ==
  ASSUME NEW f, NEW g, NEW m \in Nat, NEW n \in Nat, Lines(f) = n, Lines(g) = m, m <= n,
         \A k \in 1..m : Record(g, k) = Record(f, k), Chained(f)
  PROVE  Chained(g)
<1>1. ASSUME NEW k \in 1..m
      PROVE  /\ Record(g, k).sequence = k
             /\ Record(g, k).previous_hash = IF k = 1 THEN <<>> ELSE RecordHash(Record(g, k - 1))
  <2>1. k \in 1..n /\ (k # 1 => k - 1 \in 1..m)
    OBVIOUS
  <2>2. /\ Record(f, k).sequence = k
        /\ Record(f, k).previous_hash = IF k = 1 THEN <<>> ELSE RecordHash(Record(f, k - 1))
    BY <2>1 DEF Chained
  <2>3. QED
    BY <2>1, <2>2
<1>2. QED
  BY <1>1 DEF Chained

\* A file cut at the end of a line keeps the lines before it and nothing else.
LEMMA CutLines ==
  ASSUME NEW f \in Seq(Piece), NEW n \in Nat, Lines(f) = n, NEW m \in 0..n, 2 * m <= Len(f)
  PROVE  LET g == SubSeq(f, 1, 2 * m)
         IN  /\ g \in Seq(Piece) /\ Len(g) = 2 * m /\ Lines(g) = m /\ Rest(g) = <<>>
             /\ Chained(f) => Chained(g)
<1> DEFINE g == SubSeq(f, 1, 2 * m)
<1>1. /\ g \in Seq(Piece) /\ Len(g) = 2 * m /\ Len(f) \in Nat
      /\ \A i \in 1..2 * m : g[i] = f[i]
  OBVIOUS
<1> HIDE DEF g
<1>2. \A k \in 1..m : Parses(f, 2 * k - 1)
  <2>1. \A k \in 1..n : Parses(f, 2 * k - 1)
    BY LinesFound, Zenon, ZenonT(120)
  <2>2. \A k \in 1..m : k \in 1..n
    OBVIOUS
  <2>3. QED
    BY <2>1, <2>2
<1>3. ASSUME NEW k \in 1..m
      PROVE  Parses(g, 2 * k - 1)
  <2>1. /\ 2 * k - 1 \in 1..2 * m /\ 2 * k \in 1..2 * m /\ 2 * k - 1 # Len(f)
        /\ (2 * k - 1) + 1 = 2 * k
    BY <1>1
  <2>2. f[2 * k - 1].kind = "record" /\ f[2 * k] = Newline
    BY <1>2, <2>1 DEF Parses
  <2>3. QED
    BY <1>1, <2>1, <2>2 DEF Parses
<1>4. ~Parses(g, 2 * m + 1)
  <2>1. ~(2 * m + 1 <= Len(g))
    BY <1>1
  <2>2. QED
    BY <2>1 DEF Parses
<1>5. Lines(g) = m
  BY <1>1, <1>3, <1>4, LinesAre
<1>6. Rest(g) = <<>>
  <2>1. Rest(g) = SubSeq(g, 2 * m + 1, 2 * m)
    BY <1>1, <1>5 DEF Rest
  <2>2. QED
    BY <2>1, <1>1
<1>7. \A k \in 1..m : Record(g, k) = Record(f, k)
  <2> TAKE k \in 1..m
  <2>1. 2 * k - 1 \in 1..2 * m
    OBVIOUS
  <2>2. QED
    BY <2>1, <1>1 DEF Record
<1>8. Chained(f) => Chained(g)
  BY <1>5, <1>7, ChainedAgree
<1>9. QED
  BY <1>1, <1>5, <1>6, <1>8 DEF g

\* A file that keeps the pieces up to the one that ends the lines has the lines.
LEMMA SameLines ==
  ASSUME NEW f \in Seq(Piece), NEW g \in Seq(Piece), NEW n \in Nat, Lines(f) = n,
         2 * n <= Len(f), 2 * n < Len(g),
         \A i \in 1..Len(g) : i <= 2 * n + 2 /\ i <= Len(f) => g[i] = f[i],
         2 * n + 1 > Len(f) => g[2 * n + 1].kind # "record",
         2 * n + 1 <= Len(f) /\ Len(g) = 2 * n + 1 => Len(f) = 2 * n + 1
  PROVE  Lines(g) = n /\ (Chained(f) => Chained(g))
<1>1. (\A k \in 1..n : Parses(f, 2 * k - 1)) /\ ~Parses(f, 2 * n + 1)
  BY LinesFound, Zenon, ZenonT(120)
<1>2. Len(f) \in Nat /\ Len(g) \in Nat
  OBVIOUS
<1>3. ASSUME NEW k \in 1..n
      PROVE  Parses(g, 2 * k - 1)
  <2>1. /\ 2 * k - 1 \in 1..Len(g) /\ 2 * k \in 1..Len(g) /\ 2 * k - 1 # Len(f)
        /\ 2 * k - 1 <= Len(f) /\ 2 * k <= Len(f) /\ 2 * k <= 2 * n + 2
        /\ 2 * k - 1 <= 2 * n + 2 /\ (2 * k - 1) + 1 = 2 * k
    BY <1>2
  <2>2. f[2 * k - 1].kind = "record" /\ f[2 * k] = Newline
    BY <1>1, <2>1 DEF Parses
  <2>3. g[2 * k - 1] = f[2 * k - 1] /\ g[2 * k] = f[2 * k]
    BY <2>1
  <2>4. QED
    BY <2>1, <2>2, <2>3 DEF Parses
<1>4. ~Parses(g, 2 * n + 1)
  <2> DEFINE i == 2 * n + 1
  <2>1. i \in Nat /\ i \in 1..Len(g) /\ i + 1 = 2 * n + 2
    BY <1>2
  <2>2. CASE i > Len(f)
    BY <2>2 DEF Parses
  <2>3. CASE i <= Len(f)
    <3>1. g[i] = f[i]
      BY <2>1, <2>3
    <3>2. CASE f[i].kind # "record"
      BY <3>1, <3>2 DEF Parses
    <3>3. CASE f[i].kind = "record"
      <4>1. i # Len(f) /\ f[i + 1] # Newline
        BY <1>1, <2>3, <3>3 DEF Parses
      <4>2. i # Len(g) /\ i + 1 \in 1..Len(g) /\ i + 1 <= Len(f)
        BY <4>1, <2>1, <2>3, <1>2
      <4>3. g[i + 1] = f[i + 1]
        BY <4>2, <2>1
      <4>4. QED
        BY <4>1, <4>2, <4>3 DEF Parses
    <3>4. QED
      BY <3>2, <3>3
  <2>4. QED
    BY <2>1, <2>2, <2>3, <1>2
<1>5. Lines(g) = n
  BY <1>3, <1>4, LinesAre, Zenon, ZenonT(120)
<1>6. \A k \in 1..n : Record(g, k) = Record(f, k)
  <2> TAKE k \in 1..n
  <2>1. 2 * k - 1 \in 1..Len(g) /\ 2 * k - 1 <= 2 * n + 2 /\ 2 * k - 1 <= Len(f)
    BY <1>2
  <2>2. QED
    BY <2>1 DEF Record
<1>7. Chained(f) => Chained(g)
  BY <1>5, <1>6, ChainedAgree
<1>8. QED
  BY <1>5, <1>7

\* Whatever even offset another process truncates the log at, the part that
\* parses passes the integrity checks.
LEMMA CliCut ==
  ASSUME NEW f \in Seq(Piece), 2 * Lines(f) <= Len(f), Chained(f), NEW c \in Nat, c % 2 = 0
  PROVE  LET g == IF c <= Len(f) THEN SubSeq(f, 1, c) ELSE Append(f, Padding)
         IN  Chained(g) /\ 2 * Lines(g) <= Len(g)
<1> DEFINE n == Lines(f)
<1>1. n \in Nat /\ Len(f) \in Nat
  BY LinesFound
<1>2. PICK m \in Nat : c = 2 * m
  BY EvenHalf
<1> HIDE DEF n
<1>3. CASE c <= Len(f) /\ m <= n
  <2>1. m \in 0..n /\ 2 * m <= Len(f)
    BY <1>1, <1>2, <1>3
  <2>2. Lines(f) = n
    BY DEF n
  <2>3. LET g == SubSeq(f, 1, 2 * m) IN Len(g) = 2 * m /\ Lines(g) = m /\ Chained(g)
    BY <1>1, <2>1, <2>2, CutLines
  <2>4. QED
    BY <1>2, <1>3, <2>3
<1>4. CASE c <= Len(f) /\ m > n
  <2> DEFINE g == SubSeq(f, 1, c)
  <2>1. g \in Seq(Piece) /\ Len(g) = c /\ \A i \in 1..c : g[i] = f[i]
    BY <1>4
  <2> HIDE DEF g
  <2>2. 2 * n < Len(g) /\ 2 * n <= Len(f) /\ 2 * n + 1 <= Len(f) /\ Len(g) # 2 * n + 1
    BY <1>1, <1>2, <1>4, <2>1
  <2>3. /\ Lines(f) = n
        /\ \A i \in 1..Len(g) : i <= 2 * n + 2 /\ i <= Len(f) => g[i] = f[i]
        /\ 2 * n + 1 > Len(f) => g[2 * n + 1].kind # "record"
        /\ 2 * n + 1 <= Len(f) /\ Len(g) = 2 * n + 1 => Len(f) = 2 * n + 1
    BY <1>1, <2>1, <2>2 DEF n
  <2>4. Lines(g) = n /\ Chained(g)
    BY <1>1, <2>1, <2>2, <2>3, SameLines, Zenon, ZenonT(120)
  <2>5. QED
    BY <1>1, <1>4, <2>2, <2>4 DEF g
<1>5. CASE c > Len(f)
  <2> DEFINE g == Append(f, Padding)
  <2>1. Padding \in Piece /\ Padding.kind # "record"
    BY DEF Padding, Piece
  <2>2. /\ g \in Seq(Piece) /\ Len(g) = Len(f) + 1 /\ g[Len(f) + 1] = Padding
        /\ \A i \in 1..Len(f) : g[i] = f[i]
    BY <2>1
  <2> HIDE DEF g
  <2>3. Lines(f) = n /\ 2 * n <= Len(f)
    BY DEF n
  <2>4. /\ 2 * n < Len(g)
        /\ \A i \in 1..Len(g) : i <= 2 * n + 2 /\ i <= Len(f) => g[i] = f[i]
    BY <1>1, <2>2, <2>3
  <2>5. 2 * n + 1 > Len(f) => g[2 * n + 1].kind # "record"
    <3>1. 2 * n + 1 > Len(f) => 2 * n + 1 = Len(f) + 1
      BY <1>1, <2>3
    <3>2. QED
      BY <2>1, <2>2, <3>1
  <2>6. ~(2 * n + 1 <= Len(f) /\ Len(g) = 2 * n + 1)
    BY <1>1, <2>2
  <2>7. Lines(g) = n /\ Chained(g)
    BY <1>1, <2>2, <2>3, <2>4, <2>5, <2>6, SameLines
  <2>8. QED
    BY <1>1, <1>5, <2>4, <2>7 DEF g
<1>6. QED
  BY <1>1, <1>2, <1>3, <1>4, <1>5

\* The index _replay builds is well formed, and the session starts from the
\* image of the file.
LEMMA LoadedIndex ==
  ASSUME NEW f \in Seq(Piece), NEW n \in Nat, Lines(f) = n, Rest(f) = <<>>, base \in Image, Load(f)
  PROVE  /\ IndexTyped' /\ view' \in Seq(Image) /\ Len(view') = next_sequence'
         /\ reader' = None /\ pc' = "idle"
         /\ Last(view') = At(base, f, n) /\ index' = IndexOf(f, n) /\ Len(index') = n
         /\ \A b \in Block : overlay'[b] = Newest(IndexOf(f, n), n, b)
<1>1. /\ index' = IndexOf(f, n)
      /\ overlay' = [b \in Block |-> Newest(index', n, b)]
      /\ last_hash' = IF f = <<>> THEN <<>> ELSE RecordHash(Record(f, Lines(f)))
      /\ next_sequence' = n + 1
      /\ log_size' = Len(f) /\ reader' = None
      /\ view' = Versions(base, f) /\ pc' = "idle"
  BY DEF Load
<1>2. \A k \in 1..n : Record(f, k) \in LogRecord
  BY LinesFound
<1>3. /\ Versions(base, f) \in Seq(Image) /\ Len(Versions(base, f)) = n + 1
      /\ Last(Versions(base, f)) = At(base, f, n)
  BY <1>2, VersionsOf, Zenon, ZenonT(120)
<1>4. index' \in Seq(Entry) /\ Len(index') = n
  <2>1. \A k \in 1..n : [sequence |-> k, block |-> Record(f, k).block,
                         blocks |-> Len(Record(f, k).data), offset |-> 2 * k - 2] \in Entry
    <3> TAKE k \in 1..n
    <3>1. Record(f, k).block \in Nat /\ Record(f, k).data \in Seq(Values)
      BY <1>2 DEF LogRecord
    <3>2. k \in Nat /\ 2 * k - 2 \in Nat /\ Len(Record(f, k).data) \in Nat
      BY <3>1
    <3>3. QED
      BY <3>1, <3>2 DEF Entry
  <2>2. QED
    BY <1>1, <2>1 DEF IndexOf
<1>5. \A k \in 1..n : index'[k].sequence = k
  <2>1. \A k \in 1..n : IndexOf(f, n)[k].sequence = k
    BY IndexEntry
  <2>2. QED
    BY <1>1, <2>1
<1>6. \A b \in Block : /\ overlay'[b] = Newest(IndexOf(f, n), n, b)
                       /\ overlay'[b] \in 0..n
                       /\ overlay'[b] # 0 => Covers(index'[overlay'[b]], b)
  <2> TAKE b \in Block
  <2>1. overlay'[b] = Newest(index', n, b)
    BY <1>1
  <2>2. /\ Newest(index', n, b) \in 0..n
        /\ Newest(index', n, b) > 0 => Covers(index'[Newest(index', n, b)], b)
    BY NewestFound, Zenon, ZenonT(120)
  <2>3. QED
    BY <1>1, <2>1, <2>2
<1>7. overlay' \in [Block -> 0..n]
  BY <1>1, <1>6
<1>8. last_hash' \in Seq(Body) /\ log_size' \in Nat
  BY <1>1, AllLinesHash
<1>9. IndexTyped'
  BY <1>1, <1>4, <1>5, <1>6, <1>7, <1>8 DEF IndexTyped
<1>10. QED
  BY <1>1, <1>3, <1>4, <1>6, <1>9

\* After _replay the records of the file are those of the session.
LEMMA LoadedMatches ==
  ASSUME NEW f \in Seq(Piece), Rest(f) = <<>>, Chained(f), base \in Image, Load(f),
         log' = f, base' = base, inflight' = None, CliTyped, cli' = cli,
         interrupted \in BOOLEAN, interrupted' = interrupted
  PROVE  Typed' /\ Matches'
<1> DEFINE n == Lines(f)
<1>1. n \in Nat
  BY LinesFound
<1>2. /\ IndexTyped' /\ view' \in Seq(Image) /\ Len(view') = next_sequence'
      /\ reader' = None /\ pc' = "idle"
      /\ Last(view') = At(base, f, n) /\ index' = IndexOf(f, n) /\ Len(index') = n
      /\ \A b \in Block : overlay'[b] = Newest(IndexOf(f, n), n, b)
  BY <1>1, LoadedIndex
<1>3. Opened' = f
  BY <1>2 DEF Opened
<1>4. Typed'
  BY <1>2, <1>3 DEF Typed, FilesTyped, ViewTyped, CliTyped, InflightTyped
<1>5. \A b \in Block : overlay'[b] = 0 => base'[b] = Last(view')[b]
  <2> TAKE b \in Block
  <2> HIDE DEF n
  <2>1. At(base, f, n)[b] = IF Newest(IndexOf(f, n), n, b) = 0 THEN base[b]
                            ELSE Record(f, Newest(IndexOf(f, n), n, b)).data
                                     [b - Record(f, Newest(IndexOf(f, n), n, b)).block + 1]
    BY <1>1, AtValue
  <2>2. QED
    BY <1>2, <2>1
<1>6. ASSUME NEW i \in 1..Len(f), f[i].kind = "record"
      PROVE  Agrees(f[i].record, index', overlay', Last(view'))
  <2>1. PICK k \in 1..n : i = 2 * k - 1
    BY <1>6, AllLines
  <2>2. f[i].record = Record(f, k)
    BY <2>1 DEF Record
  <2>3. Record(f, k).sequence = k
    BY DEF Chained
  <2> HIDE DEF n
  <2>4. index'[k].block = Record(f, k).block
    BY <1>1, <1>2, IndexEntry
  <2>5. ASSUME NEW b \in Block, overlay'[b] = k
        PROVE  Last(view')[b] = Record(f, k).data[b - Record(f, k).block + 1]
    <3>1. Newest(IndexOf(f, n), n, b) = k /\ k # 0
      BY <1>2, <2>5
    <3>2. At(base, f, n)[b] = IF Newest(IndexOf(f, n), n, b) = 0 THEN base[b]
                              ELSE Record(f, Newest(IndexOf(f, n), n, b)).data
                                       [b - Record(f, Newest(IndexOf(f, n), n, b)).block + 1]
      BY <1>1, AtValue
    <3>3. QED
      BY <1>2, <3>1, <3>2
  <2>6. Len(index') = n
    BY <1>2
  <2>7. QED
    BY <2>2, <2>3, <2>4, <2>5, <2>6 DEF Agrees
<1>7. Matches'
  BY <1>2, <1>3, <1>5, <1>6 DEF Matches
<1>8. QED
  BY <1>4, <1>7

\* Opening a log without a torn tail establishes the invariant.
LEMMA OpenCleanDamaged ==
  ASSUME Typed, OpenClean
  PROVE  Typed' /\ Matches'
<1>1. /\ pc = "down" /\ Chained(log) /\ Rest(log) = <<>> /\ Load(log)
      /\ base' = base /\ log' = log /\ inflight' = inflight /\ cli' = cli
      /\ interrupted' = interrupted
  BY DEF OpenClean, Opens, disk, others
<1>2. /\ log \in Seq(Piece) /\ base \in Image /\ inflight = None /\ CliTyped
      /\ interrupted \in BOOLEAN
  BY <1>1 DEF Typed, FilesTyped, InflightTyped
<1>3. QED
  BY <1>1, <1>2, LoadedMatches

\* Cutting off a torn tail and loading the rest establishes the invariant.
LEMMA TruncateDamaged ==
  ASSUME Typed, Truncate
  PROVE  Typed' /\ Matches'
<1> DEFINE n == Lines(log)
<1>1. /\ pc = "truncate" /\ log' = SubSeq(log, 1, 2 * n) /\ Load(log')
      /\ base' = base /\ inflight' = inflight /\ cli' = cli
      /\ interrupted' = interrupted
  BY DEF Truncate, others
<1>2. /\ log \in Seq(Piece) /\ base \in Image /\ inflight = None /\ CliTyped
      /\ interrupted \in BOOLEAN /\ Chained(log) /\ 2 * n <= Len(log)
  BY <1>1 DEF Typed, FilesTyped, InflightTyped
<1>3. n \in Nat /\ n \in 0..n
  BY <1>2, LinesFound
<1>4. log' \in Seq(Piece) /\ Rest(log') = <<>> /\ Chained(log')
  BY <1>1, <1>2, <1>3, CutLines
<1>5. QED
  BY <1>1, <1>2, <1>4, LoadedMatches, Zenon, ZenonT(120)

\* Writing the sidecar of a torn tail keeps the invariant.
LEMMA OpenTornDamaged ==
  ASSUME Typed, OpenTorn
  PROVE  Typed' /\ Matches'
<1>1. /\ pc = "down" /\ pc' = "truncate" /\ Chained(log) /\ Torn(log)
      /\ base' = base /\ log' = log /\ inflight' = inflight /\ cli' = cli
      /\ index' = index /\ overlay' = overlay /\ last_hash' = last_hash
      /\ next_sequence' = next_sequence /\ log_size' = log_size /\ reader' = reader
      /\ view' = view /\ interrupted' = interrupted
  BY DEF OpenTorn, Opens, memory, others
<1>2. 2 * Lines(log) <= Len(log)
  <2> DEFINE n == Lines(log)
  <2>1. n \in Nat /\ log \in Seq(Piece) /\ Len(log) \in Nat
    BY LinesFound DEF Typed, FilesTyped
  <2>2. SubSeq(log, 2 * n + 1, Len(log)) # <<>>
    BY <1>1 DEF Torn, Rest
  <2> HIDE DEF n
  <2>3. Len(log) < 2 * n => SubSeq(log, 2 * n + 1, Len(log)) = <<>>
    BY <2>1
  <2>4. QED
    BY <2>1, <2>2, <2>3 DEF n
<1>3. Typed'
  <2>1. FilesTyped' /\ IndexTyped'
    BY <1>1 DEF Typed, FilesTyped, IndexTyped, Opened
  <2>2. ViewTyped' /\ CliTyped' /\ InflightTyped'
    BY <1>1 DEF Typed, ViewTyped, CliTyped, InflightTyped, Running
  <2>3. Chained(log') /\ 2 * Lines(log') <= Len(log') /\ interrupted' \in BOOLEAN
    BY <1>1, <1>2 DEF Typed
  <2>4. QED
    BY <1>1, <2>1, <2>2, <2>3 DEF Typed
<1>4. Matches'
  BY <1>1 DEF Matches, Running
<1>5. QED
  BY <1>3, <1>4

\* A read that does not raise returns contents of a block.
LEMMA ReadValue ==
  ASSUME Typed, NEW b \in Block, Read(b) # None
  PROVE  Read(b) \in Values
<1> DEFINE k == overlay[b]
           i == index[k].offset + 1
           r == Opened[i].record
<1>1. k \in 0..Len(index) /\ index \in Seq(Entry) /\ Len(index) \in Nat
  BY DEF Typed, IndexTyped
<1>2. CASE k = 0
  BY <1>2 DEF Read, Typed, FilesTyped, Image
<1>3. CASE k # 0
  <2>1. k \in 1..Len(index)
    BY <1>1, <1>3
  <2>2. index[k] \in Entry
    BY <1>1, <2>1
  <2>3. i \in Nat /\ i >= 1 /\ index[k].block \in Nat /\ index[k].blocks \in Nat
    BY <2>2 DEF Entry
  <2>4. Covers(index[k], b)
    BY <1>3 DEF Typed, IndexTyped
  <2>5. /\ Parses(Opened, i) /\ Len(r.data) = index[k].blocks
        /\ Read(b) = r.data[b - index[k].block + 1]
    BY <1>3, Zenon, ZenonT(120) DEF Read, BlockFrom
  <2>6. Opened \in Seq(Piece)
    BY DEF Typed, FilesTyped
  <2> HIDE DEF i, k
  <2>7. i \in 1..Len(Opened) /\ Opened[i].kind = "record"
    BY <2>3, <2>5, <2>6 DEF Parses
  <2>8. Opened[i] \in Piece
    BY <2>6, <2>7
  <2>9. r \in LogRecord
    BY <2>7, <2>8 DEF Piece
  <2> HIDE DEF r
  <2>10. r.data \in Seq(Values)
    BY <2>9 DEF LogRecord
  <2>11. b - index[k].block + 1 \in 1..Len(r.data)
    <3>1. index[k].block <= b /\ b < index[k].block + index[k].blocks
      BY <2>4 DEF Covers
    <3>2. b \in Nat
      BY BlockNumber
    <3>3. b - index[k].block + 1 \in 1..index[k].blocks
      BY <2>3, <3>1, <3>2, InRange
    <3>4. QED
      BY <2>5, <3>3
  <2>12. QED
    BY <2>5, <2>10, <2>11
<1>4. QED
  BY <1>2, <1>3

\* A read returns the session's value or raises: the record it finds at the
\* indexed offset has the sequence of the entry, so it is the entry's record.
LEMMA ReadsRight ==
  ASSUME Typed, Matches, Running, NEW b \in Block
  PROVE  Read(b) \in {Last(view)[b], None}
<1> DEFINE k == overlay[b]
           i == index[k].offset + 1
<1>1. k \in 0..Len(index) /\ index \in Seq(Entry) /\ Len(index) \in Nat
  BY DEF Typed, IndexTyped
<1>2. CASE k = 0
  BY <1>2 DEF Read, Matches
<1>3. CASE k # 0 /\ Read(b) # None
  <2>1. k \in 1..Len(index)
    BY <1>1, <1>3
  <2>2. index[k] \in Entry /\ index[k].sequence = k
    BY <1>1, <2>1 DEF Typed, IndexTyped
  <2>3. i \in Nat /\ i >= 1
    BY <2>2 DEF Entry
  <2>4. /\ Parses(Opened, i) /\ Len(Opened[i].record.data) = index[k].blocks
        /\ Opened[i].record.sequence = index[k].sequence
        /\ Read(b) = Opened[i].record.data[b - index[k].block + 1]
    BY <1>3, Zenon, ZenonT(120) DEF Read, BlockFrom
  <2>5. Opened \in Seq(Piece)
    BY DEF Typed, FilesTyped
  <2>6. \A j \in 1..Len(Opened) : 
            Opened[j].kind = "record" => Agrees(Opened[j].record, index, overlay, Last(view))
    BY DEF Matches
  <2> HIDE DEF i
  <2>7. i \in 1..Len(Opened) /\ Opened[i].kind = "record"
    BY <2>3, <2>4, <2>5 DEF Parses
  <2>8. Opened[i].record.sequence = k
    BY <2>2, <2>4
  <2>9. Agrees(Opened[i].record, index, overlay, Last(view))
    BY <2>6, <2>7
  <2>10. QED
    BY <2>4, <2>8, <2>9, Zenon, ZenonT(120) DEF Agrees
<1>4. QED
  BY <1>2, <1>3

\* A record overwrites the blocks it covers and no other.
LEMMA OverwriteValue ==
  ASSUME NEW image \in Image, NEW r \in LogRecord
  PROVE  /\ Overwrite(image, r) \in Image
         /\ \A b \in Block :
                Overwrite(image, r)[b] = IF r.block <= b /\ b < r.block + Len(r.data)
                                         THEN r.data[b - r.block + 1] ELSE image[b]
<1>1. r.block \in Nat /\ r.data \in Seq(Values)
  BY DEF LogRecord
<1>2. ASSUME NEW b \in Block, r.block <= b, b < r.block + Len(r.data)
      PROVE  r.data[b - r.block + 1] \in Values
  <2>1. b - r.block + 1 \in 1..Len(r.data)
    <3>1. b \in Nat /\ Len(r.data) \in Nat
      BY <1>1, BlockNumber
    <3>2. QED
      BY <1>1, <1>2, <3>1, InRange
  <2>2. QED
    BY <1>1, <2>1
<1>3. QED
  BY <1>2 DEF Overwrite, Image

\* The parts of the state that append changes once its write has returned.
LEMMA AcknowledgedParts ==
  ASSUME Typed, pc = "append", Acknowledge
  PROVE  LET n == Len(index)
         IN  /\ n \in Nat /\ inflight \in LogRecord /\ inflight.sequence = n + 1
             /\ Len(index') = n + 1 /\ \A k \in 1..n : index'[k] = index[k]
             /\ index'[n + 1].block = inflight.block
             /\ index'[n + 1].blocks = Len(inflight.data)
             /\ \A b \in Block :
                  overlay'[b] = IF Covers(index'[n + 1], b) THEN n + 1 ELSE overlay[b]
             /\ \A b \in Block : overlay[b] \in 0..n
             /\ view \in Seq(Image) /\ Last(view) \in Image
             /\ view' \in Seq(Image) /\ Len(view') = next_sequence'
             /\ Last(view') = Overwrite(Last(view), inflight)
             /\ IndexTyped'
<1> DEFINE n == Len(index)
           entry == [sequence |-> next_sequence, block |-> inflight.block,
                     blocks |-> Len(inflight.data), offset |-> log_size]
<1>1. /\ index' = Append(index, entry)
      /\ overlay' = [b \in Block |-> IF Covers(Last(index'), b) THEN Len(index') ELSE overlay[b]]
      /\ last_hash' = RecordHash(inflight) /\ next_sequence' = next_sequence + 1
      /\ log_size' = log_size + 2
      /\ view' = Append(view, Overwrite(Last(view), inflight))
  BY DEF Acknowledge
<1>2. /\ index \in Seq(Entry) /\ next_sequence = n + 1 /\ n \in Nat
      /\ \A k \in 1..n : index[k].sequence = k
      /\ overlay \in [Block -> 0..n]
      /\ \A b \in Block : overlay[b] # 0 => Covers(index[overlay[b]], b)
      /\ log_size \in Nat
  BY DEF Typed, IndexTyped
<1>3. inflight \in LogRecord /\ inflight.sequence = n + 1
  BY <1>2 DEF Typed, InflightTyped
<1>4. view \in Seq(Image) /\ Len(view) = n + 1
  BY <1>2 DEF Typed, ViewTyped, Running
<1>5. Last(view) \in Image
  BY <1>2, <1>4 DEF Last
<1>6. Overwrite(Last(view), inflight) \in Image
  BY <1>3, <1>5, OverwriteValue
<1>7. view' \in Seq(Image) /\ Len(view') = n + 2 /\ Last(view') = Overwrite(Last(view), inflight)
  <2>1. /\ view' \in Seq(Image) /\ Len(view') = Len(view) + 1
        /\ Last(view') = Overwrite(Last(view), inflight)
    BY <1>1, <1>4, <1>6, AppendLast
  <2>2. QED
    BY <2>1, <1>4, <1>2
<1>8. entry \in Entry /\ entry.block = inflight.block /\ entry.blocks = Len(inflight.data)
      /\ entry.sequence = n + 1
  <2>1. inflight.block \in Nat /\ inflight.data \in Seq(Values)
    BY <1>3 DEF LogRecord
  <2>2. Len(inflight.data) \in Nat /\ next_sequence \in Nat
    BY <2>1, <1>2
  <2>3. QED
    BY <2>1, <2>2, <1>2 DEF Entry
<1> HIDE DEF entry
<1>9. /\ index' \in Seq(Entry) /\ Len(index') = n + 1 /\ index'[n + 1] = entry
      /\ Last(index') = entry /\ \A k \in 1..n : index'[k] = index[k]
  BY <1>1, <1>2, <1>8 DEF Last
<1>10. \A b \in Block : overlay'[b] = IF Covers(index'[n + 1], b) THEN n + 1 ELSE overlay[b]
  BY <1>1, <1>9
<1>11. \A b \in Block :
         overlay'[b] \in 0..n + 1 /\ (overlay'[b] # 0 => Covers(index'[overlay'[b]], b))
  <2> TAKE b \in Block
  <2>1. overlay[b] \in 0..n
    BY <1>2
  <2>2. overlay[b] # 0 => index'[overlay[b]] = index[overlay[b]]
    BY <2>1, <1>9, <1>2
  <2>3. overlay[b] \in 0..n + 1 /\ n + 1 \in 0..n + 1
    BY <2>1, <1>2
  <2>4. QED
    BY <1>2, <1>10, <2>2, <2>3
<1>12. overlay' \in [Block -> 0..n + 1]
  BY <1>1, <1>11
<1>13. \A k \in 1..n + 1 : index'[k].sequence = k
  <2> TAKE k \in 1..n + 1
  <2>1. k = n + 1 \/ k \in 1..n
    BY <1>2
  <2>2. QED
    BY <2>1, <1>2, <1>8, <1>9
<1>14. last_hash' \in Seq(Body)
  BY <1>1, <1>3 DEF RecordHash, LogRecord, Body
<1>15. next_sequence' = (n + 1) + 1 /\ n + 2 = (n + 1) + 1 /\ log_size' \in Nat
  BY <1>1, <1>2
<1>16. IndexTyped'
  BY <1>9, <1>11, <1>12, <1>13, <1>14, <1>15 DEF IndexTyped
<1>17. QED
  BY <1>2, <1>3, <1>4, <1>5, <1>7, <1>8, <1>9, <1>10, <1>15, <1>16

\* What append leaves at the end of the log.
Written(r) == {<<>>, <<Fragment(r)>>, <<Whole(r), Newline>>, <<Whole(r)>>}

\* What append leaves at the end of the log has the right types, and a record
\* in it is the one being written.
LEMMA WrittenTyped ==
  ASSUME NEW r \in LogRecord, NEW x \in Written(r)
  PROVE  /\ x \in Seq(Piece)
         /\ \A j \in 1..Len(x) : x[j].kind = "record" => x[j].record = r
<1>1. /\ Whole(r) \in Piece /\ Whole(r).kind = "record" /\ Whole(r).record = r
      /\ Fragment(r) \in Piece /\ Fragment(r).kind = "fragment"
      /\ Newline \in Piece /\ Newline.kind = "newline"
  BY PieceTypes
<1>2. CASE x = <<>>
  BY <1>2
<1>3. CASE x = <<Fragment(r)>>
  BY <1>1, <1>3
<1>4. CASE x = <<Whole(r), Newline>>
  BY <1>1, <1>4
<1>5. CASE x = <<Whole(r)>>
  BY <1>1, <1>5
<1>6. QED
  BY <1>2, <1>3, <1>4, <1>5 DEF Written

\* The file the read handle has open gains what append writes, unless it was
\* replaced.
LEMMA OpenedGrows ==
  ASSUME FilesTyped, NEW x \in Seq(Piece), log' = log \o x, reader' = reader, base' = base
  PROVE  /\ FilesTyped'
         /\ \A i \in 1..Len(Opened') : \/ i \in 1..Len(Opened) /\ Opened'[i] = Opened[i]
                                       \/ \E j \in 1..Len(x) : Opened'[i] = x[j]
<1>1. log \in Seq(Piece) /\ Opened \in Seq(Piece) /\ base \in Image
  BY DEF FilesTyped
<1>2. log \o x \in Seq(Piece) /\ Len(log \o x) = Len(log) + Len(x)
  BY <1>1
<1>3. ASSUME NEW i \in 1..Len(log \o x)
      PROVE  \/ i \in 1..Len(log) /\ (log \o x)[i] = log[i]
             \/ \E j \in 1..Len(x) : (log \o x)[i] = x[j]
  <2>1. CASE i <= Len(log)
    BY <1>1, <2>1
  <2>2. CASE i > Len(log)
    <3>1. i - Len(log) \in 1..Len(x) /\ (log \o x)[i] = x[i - Len(log)]
      BY <1>1, <1>2, <2>2
    <3>2. QED
      BY <3>1
  <2>3. QED
    BY <1>1, <2>1, <2>2
<1>4. CASE reader = None
  <2>1. Opened = log /\ Opened' = log \o x
    BY <1>4 DEF Opened
  <2>2. QED
    BY <1>1, <1>2, <1>3, <2>1 DEF FilesTyped
<1>5. CASE reader # None
  <2>1. Opened' = Opened
    BY <1>5 DEF Opened
  <2>2. QED
    BY <1>1, <1>2, <2>1 DEF FilesTyped
<1>6. QED
  BY <1>4, <1>5

\* An acknowledged append keeps the invariant, whatever part of its record is in
\* the file and whichever file the read handle has open.
LEMMA AcknowledgedDamaged ==
  ASSUME Typed, pc = "append", Acknowledge, NEW x \in Written(inflight), log' = log \o x
  PROVE  Typed' /\ (Matches => Matches')
<1> DEFINE n == Len(index)
<1>1. /\ n \in Nat /\ inflight \in LogRecord /\ inflight.sequence = n + 1
      /\ Len(index') = n + 1 /\ \A k \in 1..n : index'[k] = index[k]
      /\ index'[n + 1].block = inflight.block
      /\ index'[n + 1].blocks = Len(inflight.data)
      /\ \A b \in Block :
                  overlay'[b] = IF Covers(index'[n + 1], b) THEN n + 1 ELSE overlay[b]
      /\ \A b \in Block : overlay[b] \in 0..n
      /\ view \in Seq(Image) /\ Last(view) \in Image
      /\ view' \in Seq(Image) /\ Len(view') = next_sequence'
      /\ Last(view') = Overwrite(Last(view), inflight)
      /\ IndexTyped'
  BY AcknowledgedParts
<1>2. /\ pc' = "idle" /\ inflight' = None /\ base' = base /\ cli' = cli /\ reader' = reader
      /\ interrupted' = interrupted
  BY DEF Acknowledge, others
<1>3. x \in Seq(Piece) /\ \A j \in 1..Len(x) : x[j].kind = "record" => x[j].record = inflight
  BY <1>1, WrittenTyped
<1>4. FilesTyped
  BY DEF Typed
<1>5. /\ FilesTyped'
      /\ \A i \in 1..Len(Opened') : \/ i \in 1..Len(Opened) /\ Opened'[i] = Opened[i]
                                    \/ \E j \in 1..Len(x) : Opened'[i] = x[j]
  BY <1>2, <1>3, <1>4, OpenedGrows
<1>6. Typed'
  BY <1>1, <1>2, <1>5 DEF Typed, ViewTyped, CliTyped, InflightTyped
<1> HIDE DEF n
<1>7. \A b \in Block : Last(view')[b] = IF Covers(index'[n + 1], b)
                                        THEN inflight.data[b - inflight.block + 1]
                                        ELSE Last(view)[b]
  <2> TAKE b \in Block
  <2>1. Overwrite(Last(view), inflight)[b]
          = IF inflight.block <= b /\ b < inflight.block + Len(inflight.data)
            THEN inflight.data[b - inflight.block + 1] ELSE Last(view)[b]
    <3>1. Last(view) \in Image /\ inflight \in LogRecord
      BY <1>1
    <3>2. QED
      BY <3>1, OverwriteValue
  <2>2. index'[n + 1].block = inflight.block /\ index'[n + 1].blocks = Len(inflight.data)
    BY <1>1
  <2>3. Covers(index'[n + 1], b)
          <=> inflight.block <= b /\ b < inflight.block + Len(inflight.data)
    BY <2>2 DEF Covers
  <2>4. Last(view') = Overwrite(Last(view), inflight)
    BY <1>1
  <2>5. QED
    BY <2>1, <2>3, <2>4
<1>8. /\ n \in Nat /\ Len(index') = n + 1 /\ \A k \in 1..n : index'[k] = index[k]
      /\ \A b \in Block :
                  overlay'[b] = IF Covers(index'[n + 1], b) THEN n + 1 ELSE overlay[b]
      /\ \A b \in Block : overlay[b] \in 0..n
  BY <1>1
<1>9. ASSUME NEW r, Agrees(r, index, overlay, Last(view))
      PROVE  Agrees(r, index', overlay', Last(view'))
  <2>1. /\ r.sequence \in 1..n
        /\ \A b \in Block :
               overlay[b] = r.sequence /\ Len(r.data) = index[r.sequence].blocks =>
                   r.data[b - index[r.sequence].block + 1] = Last(view)[b]
    BY <1>9 DEF Agrees, n
  <2>2. index'[r.sequence] = index[r.sequence] /\ r.sequence # n + 1
        /\ r.sequence \in 1..n + 1
    BY <1>8, <2>1
  <2>3. ASSUME NEW b \in Block, overlay'[b] = r.sequence
        PROVE  Last(view')[b] = Last(view)[b] /\ overlay[b] = r.sequence
    BY <1>7, <1>8, <2>2, <2>3
  <2>4. ASSUME NEW b \in Block, overlay'[b] = r.sequence,
               Len(r.data) = index'[r.sequence].blocks
        PROVE  r.data[b - index'[r.sequence].block + 1] = Last(view')[b]
    BY <2>1, <2>2, <2>3, <2>4
  <2>5. QED
    BY <1>8, <2>2, <2>4 DEF Agrees
<1>10. ASSUME NEW r, r = inflight
       PROVE  Agrees(r, index', overlay', Last(view'))
  <2>1. r.sequence = n + 1 /\ n + 1 \in 1..n + 1 /\ index'[n + 1].block = r.block
    <3>1. inflight.sequence = n + 1 /\ index'[n + 1].block = inflight.block /\ n \in Nat
      BY <1>1
    <3>2. n + 1 \in 1..n + 1
      BY <3>1
    <3>3. QED
      BY <1>10, <3>1, <3>2
  <2>2. ASSUME NEW b \in Block, overlay'[b] = n + 1
        PROVE  r.data[b - r.block + 1] = Last(view')[b]
    <3>1. overlay[b] # n + 1
      <4>1. overlay[b] \in 0..n /\ n \in Nat
        BY <1>8
      <4>2. QED
        BY <4>1
    <3>2. Covers(index'[n + 1], b)
      BY <1>8, <2>2, <3>1
    <3>3. QED
      BY <1>7, <1>10, <3>2
  <2>3. QED
    BY <1>8, <2>1, <2>2 DEF Agrees
<1>11. ASSUME Matches
       PROVE  Matches'
  <2>1. /\ \A b \in Block : overlay[b] = 0 => base[b] = Last(view)[b]
        /\ \A i \in 1..Len(Opened) :
               Opened[i].kind = "record" => Agrees(Opened[i].record, index, overlay, Last(view))
    BY <1>11 DEF Matches, Running
  <2>2. \A b \in Block : overlay'[b] = 0 => base'[b] = Last(view')[b]
    <3> TAKE b \in Block
    <3>1. n + 1 # 0
      BY <1>8
    <3>2. overlay'[b] = 0 => overlay[b] = 0 /\ Last(view')[b] = Last(view)[b]
      BY <1>7, <1>8, <3>1
    <3>3. QED
      BY <1>2, <2>1, <3>2
  <2>3. ASSUME NEW i \in 1..Len(Opened'), Opened'[i].kind = "record"
        PROVE  Agrees(Opened'[i].record, index', overlay', Last(view'))
    <3>1. CASE i \in 1..Len(Opened) /\ Opened'[i] = Opened[i]
      <4>1. Agrees(Opened[i].record, index, overlay, Last(view))
        BY <2>1, <2>3, <3>1
      <4>2. QED
        BY <1>9, <3>1, <4>1
    <3>2. CASE \E j \in 1..Len(x) : Opened'[i] = x[j]
      <4>1. Opened'[i].record = inflight
        BY <1>3, <2>3, <3>2
      <4>2. QED
        BY <1>10, <4>1
    <3>3. QED
      BY <1>5, <3>1, <3>2
  <2>4. QED
    BY <1>2, <2>2, <2>3 DEF Matches
<1>12. QED
  BY <1>6, <1>11

\* append keeps the invariant when its write is complete and when it is short.
LEMMA AppendDoneDamaged ==
  ASSUME Typed, AppendDone \/ AppendShort
  PROVE  Typed' /\ (Matches => Matches')
<1>1. pc = "append" /\ Acknowledge
  BY DEF AppendDone, AppendShort
<1>2. \E x \in Written(inflight) : log' = log \o x
  BY DEF AppendDone, AppendShort, Put, Written
<1>3. QED
  BY <1>1, <1>2, AcknowledgedDamaged

\* Matches survives when nothing changes but the file the read handle has open,
\* and this file gains no record.
LEMMA MatchesKept ==
  ASSUME Matches, Running' => Running, index' = index, overlay' = overlay, view' = view,
         base' = base, pc' = "clear" => pc = "clear",
         \A i \in 1..Len(Opened') : Opened'[i].kind = "record" =>
             \E j \in 1..Len(Opened) : Opened'[i] = Opened[j]
  PROVE  Matches'
<1> SUFFICES ASSUME Running', Running
             PROVE  Matches'
  BY Zenon, ZenonT(120) DEF Matches
<1>1. ASSUME NEW i \in 1..Len(Opened'), Opened'[i].kind = "record"
      PROVE  Agrees(Opened'[i].record, index', overlay', Last(view'))
  <2>1. PICK j \in 1..Len(Opened) : Opened'[i] = Opened[j]
    BY <1>1
  <2>2. Agrees(Opened[j].record, index, overlay, Last(view))
    BY <1>1, <2>1 DEF Matches
  <2>3. QED
    BY <2>1, <2>2
<1>2. /\ \A b \in Block : overlay[b] = 0 => base[b] = Last(view)[b]
      /\ pc' = "clear" => \A b \in Block : base[b] = Last(view)[b]
  BY DEF Matches
<1>3. QED
  BY <1>1, <1>2, Zenon, ZenonT(120) DEF Matches

\* Matches survives when the file the read handle has open does not change.
LEMMA MatchesUnchanged ==
  ASSUME Matches, Running' => Running, index' = index, overlay' = overlay, view' = view,
         base' = base, pc' = "clear" => pc = "clear", log' = log, reader' = reader
  PROVE  Matches'
<1>1. Opened' = Opened
  BY DEF Opened
<1>2. \A i \in 1..Len(Opened') : Opened'[i].kind = "record" =>
          \E j \in 1..Len(Opened) : Opened'[i] = Opened[j]
  BY <1>1
<1>3. QED
  BY <1>2, MatchesKept

\* A step that leaves the memory of the process alone keeps its types.
LEMMA MemoryKept ==
  ASSUME Typed, index' = index, overlay' = overlay, last_hash' = last_hash,
         next_sequence' = next_sequence, log_size' = log_size, view' = view,
         Running' => Running
  PROVE  IndexTyped' /\ ViewTyped'
<1>1. IndexTyped /\ ViewTyped
  BY DEF Typed
<1>2. IndexTyped'
  BY <1>1 DEF IndexTyped
<1>3. ViewTyped'
  BY <1>1 DEF ViewTyped
<1>4. QED
  BY <1>2, <1>3

\* A step that leaves the files alone keeps their types.
LEMMA FilesKept ==
  ASSUME Typed, base' = base, log' = log, reader' = reader
  PROVE  FilesTyped'
  BY DEF Typed, FilesTyped, Opened

\* append keeps the invariant up to its write.
LEMMA AppendBeginDamaged ==
  ASSUME Typed, NEW w \in Writes, AppendBegin(w)
  PROVE  Typed' /\ (Matches => Matches')
<1>1. /\ pc = "idle" /\ pc' = "append"
      /\ inflight' = [sequence |-> next_sequence, block |-> w.block, data |-> w.data,
                      previous_hash |-> last_hash]
      /\ base' = base /\ log' = log /\ cli' = cli
      /\ index' = index /\ overlay' = overlay /\ last_hash' = last_hash
      /\ next_sequence' = next_sequence /\ log_size' = log_size /\ reader' = reader
      /\ view' = view /\ interrupted' = interrupted
  BY DEF AppendBegin, disk, memory, others, history
<1>2. next_sequence \in Nat /\ last_hash \in Seq(Body)
  BY DEF Typed, IndexTyped
<1>3. inflight' \in LogRecord /\ inflight'.sequence = next_sequence'
  BY <1>1, <1>2, WriteParts DEF LogRecord
<1>4. Running' => Running
  BY <1>1 DEF Running
<1>5. FilesTyped' /\ IndexTyped' /\ ViewTyped'
  BY <1>1, <1>4, FilesKept, MemoryKept
<1>6. CliTyped' /\ InflightTyped'
  BY <1>1, <1>3 DEF Typed, CliTyped, InflightTyped
<1>7. Typed'
  BY <1>1, <1>5, <1>6 DEF Typed
<1>8. Matches => Matches'
  BY <1>1, <1>4, MatchesUnchanged
<1>9. QED
  BY <1>7, <1>8

\* An append that raises keeps the types; it keeps Matches unless fsync raised
\* with the whole record in the file.
LEMMA AppendErrorDamaged ==
  ASSUME Typed, AppendError
  PROVE  Typed' /\ (FailedFsync = FALSE /\ Matches => Matches')
<1>1. /\ pc = "append" /\ pc' = "idle" /\ inflight' = None
      /\ base' = base /\ cli' = cli
      /\ index' = index /\ overlay' = overlay /\ last_hash' = last_hash
      /\ next_sequence' = next_sequence /\ log_size' = log_size /\ reader' = reader
      /\ view' = view /\ interrupted' = interrupted
  BY DEF AppendError, memory, others, history
<1>2. inflight \in LogRecord /\ FilesTyped /\ log \in Seq(Piece)
  BY <1>1 DEF Typed, InflightTyped, FilesTyped
<1>3. PICK x \in Written(inflight) :
          log' = log \o x /\ (FailedFsync = FALSE => x \in {<<>>, <<Fragment(inflight)>>})
  BY DEF AppendError, Put, Written
<1>4. x \in Seq(Piece)
  BY <1>2, WrittenTyped
<1>5. /\ FilesTyped'
      /\ \A i \in 1..Len(Opened') : \/ i \in 1..Len(Opened) /\ Opened'[i] = Opened[i]
                                    \/ \E j \in 1..Len(x) : Opened'[i] = x[j]
  BY <1>1, <1>2, <1>3, <1>4, OpenedGrows, Zenon, ZenonT(120)
<1>6. Typed'
  <2>1. Running' => Running
    BY <1>1 DEF Running
  <2>2. IndexTyped' /\ ViewTyped'
    BY <1>1, <2>1, MemoryKept
  <2>3. CliTyped' /\ InflightTyped'
    BY <1>1 DEF Typed, CliTyped, InflightTyped
  <2>4. QED
    BY <1>1, <1>5, <2>2, <2>3 DEF Typed
<1>7. ASSUME FailedFsync = FALSE, Matches
      PROVE  Matches'
  <2>1. \A j \in 1..Len(x) : x[j].kind # "record"
    <3>1. Fragment(inflight).kind = "fragment"
      BY DEF Fragment
    <3>2. x = <<>> \/ x = <<Fragment(inflight)>>
      BY <1>3, <1>7
    <3>3. QED
      BY <3>1, <3>2
  <2>2. \A i \in 1..Len(Opened') : Opened'[i].kind = "record" =>
            \E j \in 1..Len(Opened) : Opened'[i] = Opened[j]
    BY <1>5, <2>1
  <2>3. Running
    BY <1>1 DEF Running
  <2>4. QED
    BY <1>1, <1>7, <2>2, <2>3, MatchesKept
<1>8. QED
  BY <1>6, <1>7, Zenon, ZenonT(120)

\* compact replaces the base image by what the session says, or raises.
LEMMA CompactBaseDamaged ==
  ASSUME Typed, CompactBase
  PROVE  Typed' /\ (Matches => Matches')
<1>1. /\ pc = "idle" /\ pc' = "clear" /\ \A b \in Block : Read(b) # None
      /\ base' = [b \in Block |-> Read(b)]
      /\ log' = log /\ cli' = cli /\ inflight' = inflight
      /\ index' = index /\ overlay' = overlay /\ last_hash' = last_hash
      /\ next_sequence' = next_sequence /\ log_size' = log_size /\ reader' = reader
      /\ view' = view /\ interrupted' = interrupted
  BY DEF CompactBase, memory, others, history
<1>2. \A b \in Block : Read(b) \in Values
  BY <1>1, ReadValue
<1>3. base' \in Image
  BY <1>1, <1>2 DEF Image
<1>4. Typed'
  <2>1. Running' => Running
    BY <1>1 DEF Running
  <2>2. IndexTyped' /\ ViewTyped'
    BY <1>1, <2>1, MemoryKept
  <2>3. FilesTyped'
    BY <1>1, <1>3 DEF Typed, FilesTyped, Opened
  <2>4. CliTyped' /\ InflightTyped'
    BY <1>1 DEF Typed, CliTyped, InflightTyped
  <2>5. QED
    BY <1>1, <2>2, <2>3, <2>4 DEF Typed
<1>5. ASSUME Matches
      PROVE  Matches'
  <2>1. Running
    BY <1>1 DEF Running
  <2>2. \A b \in Block : Read(b) = Last(view)[b]
    BY <1>1, <1>5, <2>1, ReadsRight
  <2>3. \A b \in Block : base'[b] = Last(view)[b]
    BY <1>1, <2>2
  <2>4. Opened' = Opened
    BY <1>1 DEF Opened
  <2>5. \A i \in 1..Len(Opened') :
            Opened'[i].kind = "record" => Agrees(Opened'[i].record, index', overlay', Last(view'))
    BY <1>1, <1>5, <2>1, <2>4 DEF Matches
  <2>6. QED
    BY <1>1, <2>3, <2>5 DEF Matches
<1>6. QED
  BY <1>4, <1>5

\* Emptying the log keeps the invariant.
LEMMA CompactLogDamaged ==
  ASSUME Typed, CompactLog
  PROVE  Typed' /\ (Matches => Matches')
<1>1. /\ pc = "clear" /\ pc' = "idle" /\ log' = <<>>
      /\ index' = <<>> /\ overlay' = [b \in Block |-> 0]
      /\ last_hash' = <<>> /\ next_sequence' = 1 /\ log_size' = 0 /\ reader' = None
      /\ view' = <<Last(view)>> /\ interrupted' = FALSE
      /\ base' = base /\ inflight' = inflight /\ cli' = cli
  BY DEF CompactLog, others
<1>2. Last(view) \in Image
  <2>1. view \in Seq(Image) /\ Len(view) = Len(index) + 1 /\ Len(index) \in Nat
    BY <1>1 DEF Typed, ViewTyped, IndexTyped, Running
  <2>2. QED
    BY <2>1 DEF Last
<1>3. Opened' = <<>>
  BY <1>1 DEF Opened
<1>4. IndexTyped'
  <2>1. Len(index') = 0 /\ index' \in Seq(Entry) /\ last_hash' \in Seq(Body)
    BY <1>1
  <2>2. \A b \in Block : overlay'[b] = 0
    BY <1>1
  <2>3. overlay' \in [Block -> 0..0]
    BY <1>1
  <2>4. QED
    BY <1>1, <2>1, <2>2, <2>3 DEF IndexTyped
<1>5. view' \in Seq(Image) /\ Len(view') = 1 /\ Last(view') = Last(view)
  BY <1>1, <1>2 DEF Last
<1>6. Typed'
  <2>1. FilesTyped'
    <3>1. <<>> \in Seq(Piece) /\ base \in Image
      BY DEF Typed, FilesTyped
    <3>2. QED
      BY <3>1, <1>1, <1>3 DEF FilesTyped
  <2>2. ViewTyped' /\ CliTyped' /\ InflightTyped'
    BY <1>1, <1>5 DEF Typed, ViewTyped, CliTyped, InflightTyped
  <2>3. QED
    BY <1>1, <1>4, <2>1, <2>2, Zenon, ZenonT(120) DEF Typed
<1>7. ASSUME Matches
      PROVE  Matches'
  <2>1. \A b \in Block : base[b] = Last(view)[b]
    BY <1>1, <1>7 DEF Matches, Running
  <2>2. Len(Opened') = 0
    BY <1>3
  <2>3. QED
    BY <1>1, <1>5, <2>1, <2>2 DEF Matches
<1>8. QED
  BY <1>6, <1>7

\* A compaction that raises before it empties the log keeps the invariant.
LEMMA CompactErrorDamaged ==
  ASSUME Typed, CompactError
  PROVE  Typed' /\ (Matches => Matches')
<1>1. /\ pc = "clear" /\ pc' = "idle"
      /\ base' = base /\ log' = log /\ cli' = cli /\ inflight' = inflight
      /\ index' = index /\ overlay' = overlay /\ last_hash' = last_hash
      /\ next_sequence' = next_sequence /\ log_size' = log_size /\ reader' = reader
      /\ view' = view /\ interrupted' = TRUE
  BY DEF CompactError, disk, memory, others
<1>2. Running' => Running
  BY <1>1 DEF Running
<1>3. FilesTyped' /\ IndexTyped' /\ ViewTyped'
  BY <1>1, <1>2, FilesKept, MemoryKept
<1>4. CliTyped' /\ InflightTyped'
  BY <1>1 DEF Typed, CliTyped, InflightTyped
<1>5. Typed'
  BY <1>1, <1>3, <1>4 DEF Typed
<1>6. Matches => Matches'
  BY <1>1, <1>2, MatchesUnchanged
<1>7. QED
  BY <1>5, <1>6

\* A compaction that raises after it emptied the log keeps the invariant: the
\* read handle still has the replaced file open.
LEMMA CompactSyncErrorDamaged ==
  ASSUME Typed, CompactSyncError
  PROVE  Typed' /\ (Matches => Matches')
<1>1. /\ pc = "clear" /\ pc' = "idle" /\ log' = <<>>
      /\ reader' = IF reader = None /\ index # <<>> THEN log ELSE reader
      /\ base' = base /\ cli' = cli /\ inflight' = inflight
      /\ index' = index /\ overlay' = overlay /\ last_hash' = last_hash
      /\ next_sequence' = next_sequence /\ log_size' = log_size
      /\ view' = view /\ interrupted' = TRUE
  BY DEF CompactSyncError, others
<1>2. Opened' = <<>> \/ Opened' = Opened
  BY <1>1 DEF Opened
<1>3. Opened' \in Seq(Piece)
  <2>1. Opened \in Seq(Piece) /\ <<>> \in Seq(Piece)
    BY DEF Typed, FilesTyped
  <2>2. QED
    BY <1>2, <2>1, Zenon, ZenonT(120)
<1>4. Typed'
  <2>1. Running' => Running
    BY <1>1 DEF Running
  <2>2. IndexTyped' /\ ViewTyped'
    BY <1>1, <2>1, MemoryKept
  <2>3. FilesTyped'
    <3>1. log' \in Seq(Piece) /\ base \in Image
      BY <1>1 DEF Typed, FilesTyped
    <3>2. QED
      BY <1>1, <1>3, <3>1 DEF FilesTyped
  <2>4. CliTyped' /\ InflightTyped'
    BY <1>1 DEF Typed, CliTyped, InflightTyped
  <2>5. QED
    BY <1>1, <2>2, <2>3, <2>4 DEF Typed
<1>5. ASSUME Matches
      PROVE  Matches'
  <2>1. \A i \in 1..Len(Opened') : Opened'[i].kind = "record" =>
            \E j \in 1..Len(Opened) : Opened'[i] = Opened[j]
    <3>1. CASE Opened' = <<>>
      BY <3>1
    <3>2. CASE Opened' = Opened
      BY <3>2
    <3>3. QED
      BY <1>2, <3>1, <3>2
  <2>2. Running
    BY <1>1 DEF Running
  <2>3. QED
    BY <1>1, <1>5, <2>1, <2>2, MatchesKept
<1>6. QED
  BY <1>4, <1>5

\* The steps of an export only read.
LEMMA ExportDamaged ==
  ASSUME Typed, ExportStart \/ ExportBase \/ ExportLog \/ ExportError \/ UNCHANGED vars
  PROVE  Typed' /\ (Matches => Matches')
<1>1. /\ pc' = pc
      /\ base' = base /\ log' = log /\ cli' = cli /\ inflight' = inflight
      /\ index' = index /\ overlay' = overlay /\ last_hash' = last_hash
      /\ next_sequence' = next_sequence /\ log_size' = log_size /\ reader' = reader
      /\ view' = view /\ interrupted' = interrupted
  BY DEF ExportStart, ExportBase, ExportLog, ExportError, vars, disk, memory, others, history
<1>2. Running' => Running
  BY <1>1 DEF Running
<1>3. FilesTyped' /\ IndexTyped' /\ ViewTyped'
  BY <1>1, <1>2, FilesKept, MemoryKept
<1>4. CliTyped' /\ InflightTyped'
  BY <1>1 DEF Typed, CliTyped, InflightTyped
<1>5. Typed'
  BY <1>1, <1>3, <1>4 DEF Typed
<1>6. Matches => Matches'
  BY <1>1, <1>2, MatchesUnchanged
<1>7. QED
  BY <1>5, <1>6

\* Another process that finds a torn tail remembers an even offset.
LEMMA CliScanDamaged ==
  ASSUME Typed, CliScan
  PROVE  Typed' /\ (Matches => Matches')
<1> DEFINE seen == IF inflight = None THEN log ELSE Append(log, Fragment(inflight))
<1>1. /\ pc' = pc
      /\ base' = base /\ log' = log /\ cli' = 2 * Lines(seen) /\ inflight' = inflight
      /\ index' = index /\ overlay' = overlay /\ last_hash' = last_hash
      /\ next_sequence' = next_sequence /\ log_size' = log_size /\ reader' = reader
      /\ view' = view /\ interrupted' = interrupted
  BY DEF CliScan, memory
<1>2. seen \in Seq(Piece)
  <2>1. log \in Seq(Piece) /\ (inflight # None => inflight \in LogRecord)
    BY DEF Typed, FilesTyped, InflightTyped
  <2>2. inflight # None => Fragment(inflight) \in Piece
    BY <2>1, PieceTypes
  <2>3. QED
    BY <2>1, <2>2
<1> HIDE DEF seen
<1>3. Lines(seen) \in Nat
  BY <1>2, LinesFound
<1>4. CliTyped'
  <2>1. \A m \in Nat : 2 * m \in Nat /\ (2 * m) % 2 = 0
    OBVIOUS
  <2>2. QED
    BY <1>1, <1>3, <2>1 DEF CliTyped
<1>5. Running' => Running
  BY <1>1 DEF Running
<1>6. FilesTyped' /\ IndexTyped' /\ ViewTyped'
  BY <1>1, <1>5, FilesKept, MemoryKept
<1>7. InflightTyped'
  BY <1>1 DEF Typed, InflightTyped
<1>8. Typed'
  BY <1>1, <1>4, <1>6, <1>7 DEF Typed
<1>9. Matches => Matches'
  BY <1>1, <1>5, MatchesUnchanged
<1>10. QED
  BY <1>8, <1>9

\* Another process that truncates the log, or pads it, adds no record.
LEMMA CliTruncateDamaged ==
  ASSUME Typed, CliTruncate
  PROVE  Typed' /\ (Matches => Matches')
<1>1. /\ pc' = pc /\ cli # None /\ cli' = None
      /\ log' = IF cli <= Len(log) THEN SubSeq(log, 1, cli) ELSE Append(log, Padding)
      /\ base' = base /\ inflight' = inflight
      /\ index' = index /\ overlay' = overlay /\ last_hash' = last_hash
      /\ next_sequence' = next_sequence /\ log_size' = log_size /\ reader' = reader
      /\ view' = view /\ interrupted' = interrupted
  BY DEF CliTruncate, memory, history
<1>2. /\ cli \in Nat /\ cli % 2 = 0 /\ log \in Seq(Piece) /\ Opened \in Seq(Piece)
      /\ base \in Image
  BY <1>1 DEF Typed, CliTyped, FilesTyped
<1>3. Padding \in Piece /\ Padding.kind # "record"
  BY DEF Padding, Piece
<1>4. /\ log' \in Seq(Piece)
      /\ \A i \in 1..Len(log') : log'[i].kind = "record" =>
             i \in 1..Len(log) /\ log'[i] = log[i]
  <2>1. CASE cli <= Len(log)
    <3>1. log' = SubSeq(log, 1, cli)
      BY <1>1, <2>1, Zenon, ZenonT(120)
    <3>2. cli \in 0..Len(log)
      BY <1>2, <2>1
    <3>3. QED
      BY <1>2, <3>1, <3>2
  <2>2. CASE ~(cli <= Len(log))
    <3>1. log' = Append(log, Padding)
      BY <1>1, <2>2
    <3>2. /\ log' \in Seq(Piece) /\ Len(log') = Len(log) + 1 /\ log'[Len(log) + 1] = Padding
          /\ \A i \in 1..Len(log) : log'[i] = log[i]
      BY <1>2, <1>3, <3>1
    <3>3. Len(log) \in Nat
      BY <1>2
    <3>4. \A i \in 1..Len(log') : i = Len(log) + 1 \/ i \in 1..Len(log)
      BY <3>2, <3>3
    <3>5. QED
      BY <1>3, <3>2, <3>4
  <2>3. QED
    BY <2>1, <2>2
<1>5. /\ Opened' \in Seq(Piece)
      /\ \A i \in 1..Len(Opened') : Opened'[i].kind = "record" =>
             \E j \in 1..Len(Opened) : Opened'[i] = Opened[j]
  <2>1. CASE reader = None
    BY <1>1, <1>4, <2>1, Zenon, ZenonT(120) DEF Opened
  <2>2. CASE reader # None
    BY <1>1, <1>2, <2>2 DEF Opened
  <2>3. QED
    BY <2>1, <2>2
<1>6. pc = "truncate" => Chained(log') /\ 2 * Lines(log') <= Len(log')
  <2> SUFFICES ASSUME pc = "truncate"
               PROVE  Chained(log') /\ 2 * Lines(log') <= Len(log')
    OBVIOUS
  <2>1. Chained(log) /\ 2 * Lines(log) <= Len(log)
    BY DEF Typed
  <2>2. QED
    BY <1>1, <1>2, <2>1, CliCut
<1>7. Typed'
  <2>1. FilesTyped' /\ CliTyped'
    BY <1>1, <1>2, <1>4, <1>5 DEF FilesTyped, CliTyped
  <2>2. Running' => Running
    BY <1>1 DEF Running
  <2>3. IndexTyped' /\ ViewTyped'
    BY <1>1, <2>2, MemoryKept
  <2>4. InflightTyped'
    BY <1>1 DEF Typed, InflightTyped
  <2>5. QED
    BY <1>1, <1>6, <2>1, <2>3, <2>4, Zenon, ZenonT(120) DEF Typed
<1>8. Matches => Matches'
  <2>1. Running' => Running
    BY <1>1 DEF Running
  <2>2. QED
    BY <1>1, <1>5, <2>1, MatchesKept
<1>9. QED
  BY <1>7, <1>8

\* A crash at any point keeps the invariant.
LEMMA CrashDamaged ==
  ASSUME Typed, Crash
  PROVE  Typed' /\ Matches'
<1>1. /\ pc' = "down"
      /\ index' = <<>> /\ overlay' = [b \in Block |-> 0]
      /\ last_hash' = <<>> /\ next_sequence' = 1 /\ log_size' = 0 /\ reader' = None
      /\ inflight' = None /\ cli' = cli /\ base' = base
      /\ interrupted' = (interrupted \/ pc = "clear")
  BY DEF Crash
<1>2. log \in Seq(Piece) /\ base \in Image /\ interrupted \in BOOLEAN
  BY DEF Typed, FilesTyped
<1>3. log' \in Seq(Piece)
  <2>1. CASE inflight = None
    BY <1>2, <2>1 DEF Crash
  <2>2. CASE inflight # None
    <3>1. inflight \in LogRecord
      BY <2>2 DEF Typed, InflightTyped
    <3>2. PICK p \in Prefixes(inflight) : log' = log \o p
      BY <2>2, Zenon, ZenonT(120) DEF Crash, Put
    <3>3. p \in Written(inflight)
      BY DEF Prefixes, Written
    <3>4. p \in Seq(Piece)
      BY <3>1, <3>3, WrittenTyped
    <3>5. QED
      BY <1>2, <3>2, <3>4
  <2>3. QED
    BY <2>1, <2>2
<1>4. FilesTyped'
  BY <1>1, <1>2, <1>3 DEF FilesTyped, Opened
<1>5. IndexTyped'
  <2>1. Len(index') = 0 /\ index' \in Seq(Entry) /\ last_hash' \in Seq(Body)
    BY <1>1
  <2>2. \A b \in Block : overlay'[b] = 0
    BY <1>1
  <2>3. overlay' \in [Block -> 0..0]
    BY <1>1
  <2>4. QED
    BY <1>1, <2>1, <2>2, <2>3 DEF IndexTyped
<1>6. ViewTyped' /\ InflightTyped' /\ Matches'
  BY <1>1 DEF ViewTyped, InflightTyped, Matches, Running
<1>7. CliTyped'
  BY <1>1 DEF Typed, CliTyped
<1>8. interrupted' \in BOOLEAN
  BY <1>1, <1>2
<1>9. QED
  BY <1>1, <1>4, <1>5, <1>6, <1>7, <1>8 DEF Typed

\* A namespace as provision leaves it satisfies the invariant.
LEMMA InitDamaged ==
  ASSUME Init
  PROVE  Typed /\ Matches
<1>1. /\ pc = "down" /\ base = [b \in Block |-> Zero] /\ log = <<>>
      /\ index = <<>> /\ overlay = [b \in Block |-> 0]
      /\ last_hash = <<>> /\ next_sequence = 1 /\ log_size = 0 /\ reader = None
      /\ inflight = None /\ cli = None /\ interrupted = FALSE
  BY DEF Init
<1>2. FilesTyped
  <2>1. base \in Image
    BY <1>1, BlocksAssumption DEF Image
  <2>2. log \in Seq(Piece) /\ Opened = log
    BY <1>1 DEF Opened
  <2>3. QED
    BY <2>1, <2>2 DEF FilesTyped
<1>3. IndexTyped
  <2>1. Len(index) = 0 /\ index \in Seq(Entry) /\ last_hash \in Seq(Body)
    BY <1>1
  <2>2. \A b \in Block : overlay[b] = 0
    BY <1>1
  <2>3. overlay \in [Block -> 0..0]
    BY <1>1
  <2>4. QED
    BY <1>1, <2>1, <2>2, <2>3 DEF IndexTyped
<1>4. ViewTyped /\ CliTyped /\ InflightTyped /\ Matches
  BY <1>1 DEF ViewTyped, CliTyped, InflightTyped, Matches, Running
<1>5. QED
  BY <1>1, <1>2, <1>3, <1>4, Zenon, ZenonT(120) DEF Typed

\* Every step keeps the invariant, one case per action.
LEMMA NextDamaged ==
  ASSUME Typed, [Next]_vars
  PROVE  Typed' /\ (FailedFsync = FALSE /\ Matches => Matches')
<1>1. CASE OpenClean
  BY <1>1, OpenCleanDamaged
<1>2. CASE OpenTorn
  BY <1>2, OpenTornDamaged
<1>3. CASE Truncate
  BY <1>3, TruncateDamaged
<1>4. CASE \E w \in Writes : AppendBegin(w)
  BY <1>4, AppendBeginDamaged
<1>5. CASE AppendDone \/ AppendShort
  BY <1>5, AppendDoneDamaged
<1>6. CASE AppendError
  BY <1>6, AppendErrorDamaged, Zenon, ZenonT(120)
<1>7. CASE CompactBase
  BY <1>7, CompactBaseDamaged
<1>8. CASE CompactLog
  BY <1>8, CompactLogDamaged
<1>9. CASE CompactError
  BY <1>9, CompactErrorDamaged
<1>10. CASE CompactSyncError
  BY <1>10, CompactSyncErrorDamaged
<1>11. CASE ExportStart \/ ExportBase \/ ExportLog \/ ExportError \/ UNCHANGED vars
  BY <1>11, ExportDamaged
<1>12. CASE CliScan
  BY <1>12, CliScanDamaged
<1>13. CASE CliTruncate
  BY <1>13, CliTruncateDamaged
<1>14. CASE Crash
  BY <1>14, CrashDamaged
<1>15. QED
  BY <1>1, <1>2, <1>3, <1>4, <1>5, <1>6, <1>7, <1>8, <1>9, <1>10, <1>11,
     <1>12, <1>13, <1>14, Zenon, ZenonT(120)
     DEF Next

\* Whatever fails and whoever truncates the log, the index has one entry per
\* sequence, the overlay points into it, and append alone has a record in flight.
THEOREM JournalTypes == Spec => []TypeOK
<1>1. Init => Typed
  BY InitDamaged
<1>2. Typed /\ [Next]_vars => Typed'
  BY NextDamaged, Zenon, ZenonT(120)
<1>3. Typed => TypeOK
  <2> SUFFICES ASSUME Typed
               PROVE  TypeOK
    OBVIOUS
  <2>1. /\ Len(index) \in Nat /\ next_sequence = Len(index) + 1 /\ log_size \in Nat
        /\ overlay \in [Block -> 0..Len(index)]
    BY DEF Typed, IndexTyped
  <2>2. last_sequence = Len(index) /\ next_sequence \in Nat
    BY <2>1 DEF last_sequence
  <2>3. (inflight # None) = (pc = "append")
    BY NoneAssumption DEF Typed, InflightTyped
  <2>4. (Running => Len(view) = next_sequence) /\ cli \in Nat \cup {None}
    BY DEF Typed, ViewTyped, CliTyped
  <2>5. QED
    BY <2>1, <2>2, <2>3, <2>4 DEF Typed, FilesTyped, TypeOK
<1>4. QED
  BY <1>1, <1>2, <1>3, PTL, PTL DEF Spec

\* With short writes, raised writes, failed compactions and other processes that
\* truncate the log, a read of the current image returns the session's value or
\* raises, as long as fsync does not raise with the whole record in the file.
THEOREM DamagedReads ==
  ASSUME FailedFsync = FALSE
  PROVE  Spec => []ReadsNeverWrong
<1>1. Init => Typed /\ Matches
  BY InitDamaged
<1>2. (Typed /\ Matches) /\ [Next]_vars => (Typed /\ Matches)'
  BY NextDamaged, Zenon, ZenonT(120)
<1>3. Typed /\ Matches => ReadsNeverWrong
  BY ReadsRight DEF ReadsNeverWrong
<1>4. QED
  BY <1>1, <1>2, <1>3, PTL, PTL DEF Spec
=============================================================================
