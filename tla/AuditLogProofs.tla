---------------------------- MODULE AuditLogProofs ----------------------------
(***************************************************************************)
(* Proofs about AuditLog with one appender, as under the engine's lock,    *)
(* and crashes that cut lines off anywhere but in front of their newline,  *)
(* for every size at which the file is rotated and any number of entries.  *)
(***************************************************************************)
EXTENDS AuditLog, FiniteSetTheorems, WellFoundedInduction, TLAPS

\* A leaf that names no prover is tried with these, with time to spare.
USE SMTT(60), SMTT(120), ZenonT(120)

OneAppender == \A s, t \in Appenders : s = t

-----------------------------------------------------------------------------
(* Lines and chains.                                                       *)

\* No line lost its newline.
Ended(lines) == \A i \in DOMAIN lines : lines[i].ended = TRUE

Locals ==
    [hash: Nat, previous_hash: Nat, archived_to: Nat, previous_file_last_hash: Nat]

\* What verify expects a line to link to.
LEMMA PreviousHash ==
    ASSUME NEW lines \in Seq(Line), NEW i \in 1..Len(lines)
    PROVE  LastHash(SubSeq(lines, 1, i - 1)) = IF i = 1 THEN 0 ELSE lines[i - 1].hash
<1>1. Len(lines) \in Nat /\ i \in Nat /\ i - 1 \in 0..Len(lines)
  OBVIOUS
<1>2. CASE i = 1
  <2>1. SubSeq(lines, 1, 0) = <<>>
    BY <1>1
  <2> QED
    BY <1>2, <2>1 DEF LastHash
<1>3. CASE i # 1
  <2>1. i - 1 \in 1..Len(lines)
    BY <1>1, <1>3
  <2>2. Len(SubSeq(lines, 1, i - 1)) = i - 1 /\ SubSeq(lines, 1, i - 1)[i - 1] = lines[i - 1]
    BY <1>1, <2>1
  <2>3. SubSeq(lines, 1, i - 1) # <<>>
    BY <2>1, <2>2
  <2> QED
    BY <1>3, <2>2, <2>3 DEF LastHash
<1> QED
  BY <1>2, <1>3

\* The last hash of a file and that of one with a line more.
LEMMA LastHashes ==
    ASSUME NEW lines \in Seq(Line), NEW line \in Line
    PROVE  /\ LastHash(lines) \in Nat
           /\ LastHash(lines) = IF Len(lines) = 0 THEN 0 ELSE lines[Len(lines)].hash
           /\ LastHash(Append(lines, line)) = line.hash
           /\ Append(lines, line) \in Seq(Line)
           /\ Append(lines, line) # <<>>
<1>1. Len(lines) \in Nat /\ (lines = <<>> <=> Len(lines) = 0)
  OBVIOUS
<1>2. LastHash(lines) = IF Len(lines) = 0 THEN 0 ELSE lines[Len(lines)].hash
  BY <1>1 DEF LastHash
<1>3. LastHash(lines) \in Nat
  <2>1. Len(lines) # 0 => lines[Len(lines)] \in Line
    BY <1>1
  <2>2. Len(lines) # 0 => lines[Len(lines)].hash \in Nat
    BY <2>1 DEF Line
  <2> QED
    BY <1>2, <2>2
<1>4. /\ Append(lines, line) # <<>> /\ Append(lines, line) \in Seq(Line)
      /\ Append(lines, line)[Len(Append(lines, line))] = line
  BY <1>1
<1> QED
  BY <1>2, <1>3, <1>4 DEF LastHash

\* A line that links to the last one keeps the chain.
LEMMA AppendVerifies ==
    ASSUME NEW lines \in Seq(Line), NEW line \in Line, Verifies(lines),
           line.kind # "torn", line.previous_hash = LastHash(lines)
    PROVE  Verifies(Append(lines, line))
<1> DEFINE longer == Append(lines, line)
<1>1. /\ Len(lines) \in Nat /\ longer \in Seq(Line) /\ Len(longer) = Len(lines) + 1
      /\ longer[Len(lines) + 1] = line
      /\ \A i \in 1..Len(lines) : longer[i] = lines[i]
  OBVIOUS
<1> HIDE DEF longer
<1> SUFFICES ASSUME NEW i \in 1..Len(longer)
             PROVE  /\ longer[i].kind # "torn"
                    /\ longer[i].previous_hash = LastHash(SubSeq(longer, 1, i - 1))
  BY DEF Verifies, longer
<1>2. LastHash(SubSeq(longer, 1, i - 1)) = IF i = 1 THEN 0 ELSE longer[i - 1].hash
  BY <1>1, PreviousHash
<1>3. CASE i \in 1..Len(lines)
  <2>1. LastHash(SubSeq(lines, 1, i - 1)) = IF i = 1 THEN 0 ELSE lines[i - 1].hash
    BY <1>3, PreviousHash
  <2>2. i # 1 => longer[i - 1] = lines[i - 1]
    BY <1>1, <1>3
  <2>3. lines[i].kind # "torn" /\ lines[i].previous_hash = LastHash(SubSeq(lines, 1, i - 1))
    BY <1>3 DEF Verifies
  <2> QED
    BY <1>1, <1>2, <1>3, <2>1, <2>2, <2>3
<1>4. CASE i = Len(lines) + 1
  <2>1. LastHash(lines) = IF Len(lines) = 0 THEN 0 ELSE lines[Len(lines)].hash
    BY LastHashes
  <2>2. i # 1 => longer[i - 1] = lines[Len(lines)]
    BY <1>1, <1>4
  <2> QED
    BY <1>1, <1>2, <1>4, <2>1, <2>2
<1> QED
  BY <1>1, <1>3, <1>4

\* A torn line breaks it.
LEMMA TornFails ==
    ASSUME NEW lines \in Seq(Line), NEW line \in Line, line.kind = "torn"
    PROVE  ~Verifies(Append(lines, line))
<1>1. /\ Len(Append(lines, line)) \in 1..Len(Append(lines, line))
      /\ Append(lines, line)[Len(Append(lines, line))] = line
  OBVIOUS
<1> QED
  BY <1>1 DEF Verifies

\* Behind lines that have their newlines, a line is added as it is.
LEMMA AddedAtEnd ==
    ASSUME NEW lines \in Seq(Line), Ended(lines), NEW line \in Line
    PROVE  /\ Added(lines, line) = Append(lines, line)
           /\ line.ended = TRUE => Ended(Append(lines, line))
<1>1. Len(lines) \in Nat /\ DOMAIN lines = 1..Len(lines)
  OBVIOUS
<1>2. lines # <<>> => lines[Len(lines)].ended = TRUE
  BY <1>1 DEF Ended
<1>3. Added(lines, line) = Append(lines, line)
  BY <1>2, Zenon, ZenonT(120) DEF Added
<1>4. ASSUME line.ended = TRUE PROVE Ended(Append(lines, line))
  BY <1>1, <1>4 DEF Ended
<1> QED
  BY <1>3, <1>4, Zenon, ZenonT(120)

\* Whole and torn lines are lines.
LEMMA LineTypes ==
    ASSUME NEW l \in Locals, NEW kind \in {"event", "boundary"}
    PROVE  /\ Entry(kind, l) \in Line /\ Entry(kind, l).kind = kind
           /\ Entry(kind, l).ended = TRUE
           /\ Entry(kind, l).hash = l.hash /\ Entry(kind, l).previous_hash = l.previous_hash
           /\ Entry(kind, l).archived_to = l.archived_to
           /\ Entry(kind, l).previous_file_last_hash = l.previous_file_last_hash
           /\ Torn(FALSE) \in Line /\ Torn(FALSE).kind = "torn"
           /\ Idle \in Locals
BY DEF Entry, Line, Locals, Torn, Idle

\* The local variables of _rotate, of append, and after the boundary entry.
InRotate(m, n) == [Idle EXCEPT !.archived_to = m, !.previous_file_last_hash = n]

InBody(m, n) == [Idle EXCEPT !.hash = m, !.previous_hash = n]

InBoundary(l, m, n) == [l EXCEPT !.hash = m, !.previous_hash = n]

\* Their fields.
LEMMA NewLocals ==
    ASSUME NEW m \in Nat, NEW n \in Nat
    PROVE  /\ InRotate(m, n) \in Locals /\ InRotate(m, n).archived_to = m
           /\ InRotate(m, n).previous_file_last_hash = n
           /\ InBody(m, n) \in Locals /\ InBody(m, n).hash = m
           /\ InBody(m, n).previous_hash = n
BY Zenon, ZenonT(120) DEF InRotate, InBody, Idle, Locals

LEMMA BoundaryLocals ==
    ASSUME NEW m \in Nat, NEW n \in Nat, NEW l \in Locals
    PROVE  /\ InBoundary(l, m, n) \in Locals /\ InBoundary(l, m, n).hash = m
           /\ InBoundary(l, m, n).previous_hash = n
           /\ InBoundary(l, m, n).archived_to = l.archived_to
           /\ InBoundary(l, m, n).previous_file_last_hash = l.previous_file_last_hash
BY Zenon, ZenonT(120) DEF InBoundary, Locals

\* The entries of a file with a line more.
LEMMA AppendEntries ==
    ASSUME NEW lines \in Seq(Line), NEW line \in Line
    PROVE  Entries(Append(lines, line)) = Entries(lines) \cup {line.hash}
<1>1. /\ Len(lines) \in Nat /\ DOMAIN lines = 1..Len(lines)
      /\ DOMAIN Append(lines, line) = (1..Len(lines)) \cup {Len(lines) + 1}
      /\ Append(lines, line)[Len(lines) + 1] = line
      /\ \A i \in 1..Len(lines) : Append(lines, line)[i] = lines[i]
  OBVIOUS
<1> QED
  BY <1>1 DEF Entries

-----------------------------------------------------------------------------
(* The inductive invariant.                                                *)

\* How many archives there are; the next has the number one higher.
Made == Cardinality(Present)

Labels ==
    {"idle", "rotate", "rename", "touch", "boundary", "boundary_done", "body", "write", "done"}

AuditTypeOK ==
    /\ up \in BOOLEAN
    /\ file = None \/ file \in Seq(Line)
    /\ archives \in [Archives -> Seq(Line) \cup {None}]
    /\ _last_hash \in Nat /\ now \in Nat
    /\ pc \in [Appenders -> Labels]
    /\ local \in [Appenders -> Locals]

\* What append has established by each of its steps.
Progress(t) ==
    /\ pc[t] # "idle" => up = TRUE
    /\ pc[t] = "touch" <=> (up = TRUE /\ file = None)
    /\ pc[t] \in {"rotate", "rename"} => Lines # <<>>
    /\ pc[t] = "rotate" => now <= MaxTime
    /\ pc[t] = "rename" =>
          /\ local[t].archived_to = Made + 1 /\ Made + 1 <= MaxTime
          /\ local[t].previous_file_last_hash = _last_hash
    /\ pc[t] \in {"touch", "boundary"} =>
          /\ local[t].archived_to = Made /\ Made > 0
          /\ local[t].previous_file_last_hash = LastHash(archives[Made])
    /\ pc[t] = "boundary" => Lines = <<>>
    /\ pc[t] = "write" => local[t].previous_hash = _last_hash /\ Made < now
    /\ pc[t] \in {"boundary_done", "done"} =>
          LastHash(Lines) = local[t].hash /\ local[t].hash \in Entries(Lines)
    /\ pc[t] \notin {"touch", "boundary_done", "done"} /\ up = TRUE => _last_hash = LastHash(Lines)

\* The active file: it verifies while the process runs, and one that verifies
\* has all its newlines.
FileInv ==
    /\ up = TRUE => Verifies(Lines)
    /\ Verifies(Lines) => Ended(Lines)
    /\ (\A t \in Appenders : pc[t] = "idle") /\ up = TRUE => _last_hash = LastHash(Lines)

\* The archives are numbered without a gap, and there are fewer than entries.
Numbered ==
    /\ Made \in Nat /\ Present = 1..Made
    /\ Made <= now /\ (Lines # <<>> => Made < now)

\* The boundary entries in lines, which are or will be file number n.
Linked(lines, n) ==
    \A i \in DOMAIN lines :
        lines[i].kind = "boundary" =>
            /\ lines[i].archived_to = n - 1
            /\ n - 1 \in Present
            /\ lines[i].previous_file_last_hash = LastHash(archives[n - 1])

Links == Linked(Lines, Made + 1) /\ \A n \in 1..Made : Linked(archives[n], n)

AuditInv ==
    /\ AuditTypeOK
    /\ \A t \in Appenders : Progress(t)
    /\ FileInv /\ Numbered /\ Links /\ AckedKept

\* Lines is a sequence of lines.
LEMMA LinesType ==
    ASSUME AuditTypeOK
    PROVE  Lines \in Seq(Line)
BY DEF AuditTypeOK, Lines

\* A file with a line more is a file.
LEMMA FileAdded ==
    ASSUME AuditTypeOK, Verifies(Lines), Verifies(Lines) => Ended(Lines), NEW line \in Line,
           file' = Added(Lines, line)
    PROVE  Lines' = Added(Lines, line) /\ file' \in Seq(Line) /\ file' # None
<1>1. Added(Lines, line) = Append(Lines, line)
  BY LinesType, AddedAtEnd, Zenon, ZenonT(120)
<1>2. Append(Lines, line) \in Seq(Line)
  BY LinesType
<1> QED
  BY <1>1, <1>2, NoFileAssumption DEF Lines

\* The next archive is the one after the last.
LEMMA NextArchiveIs ==
    ASSUME Numbered, Made + 1 <= MaxTime
    PROVE  NextArchive = Made + 1
<1>1. Made \in Nat /\ MaxTime \in Nat /\ Made + 1 \in Archives
  BY AuditAssumption DEF Numbered, Archives
<1>2. \A n \in Archives : archives[n] # None <=> n \in 1..Made
  BY DEF Numbered, Present
<1>3. archives[Made + 1] = None /\ \A m \in 1..(Made + 1) - 1 : archives[m] # None
  BY <1>1, <1>2 DEF Archives
<1>4. \A n \in Archives : archives[n] = None /\ (\A m \in 1..n - 1 : archives[m] # None)
                              => n = Made + 1
  <2> SUFFICES ASSUME NEW n \in Archives, archives[n] = None,
                      \A m \in 1..n - 1 : archives[m] # None
               PROVE  n = Made + 1
    OBVIOUS
  <2>1. n \in Nat /\ n \notin 1..Made /\ n >= 1
    BY <1>2 DEF Archives
  <2>2. ~(Made + 1 < n)
    <3> SUFFICES ASSUME Made + 1 < n PROVE FALSE
      OBVIOUS
    <3>1. Made + 1 \in 1..n - 1
      BY <1>1, <2>1
    <3> QED
      BY <1>3, <3>1
  <2> QED
    BY <1>1, <2>1, <2>2
<1>5. \E n \in Archives : archives[n] = None /\ (\A m \in 1..n - 1 : archives[m] # None)
  BY <1>1, <1>3
<1> DEFINE Free(n) == archives[n] = None /\ \A m \in 1..n - 1 : archives[m] # None
<1>6. NextArchive = CHOOSE n \in Archives : Free(n)
  BY DEF NextArchive
<1>7. NextArchive \in Archives /\ Free(NextArchive)
  BY <1>5, <1>6
<1> QED
  BY <1>4, <1>7

\* The number of archives is that of their set.
LEMMA MadeIs ==
    ASSUME NEW n \in Nat
    PROVE  Cardinality(1..n) = n
<1>1. 1 \in Int /\ n \in Int
  OBVIOUS
<1>2. Cardinality(1..n) = IF 1 > n THEN 0 ELSE n - 1 + 1
  BY <1>1, FS_Interval
<1> QED
  BY <1>2

-----------------------------------------------------------------------------
(* What a step does to the files.                                          *)

\* A step that leaves the files alone keeps what holds of them.
LEMMA FilesKept ==
    ASSUME AuditInv, Lines' = Lines, archives' = archives, acked' = acked,
           now' \in Nat, now' >= now
    PROVE  /\ Made' = Made /\ Present' = Present
           /\ Numbered' /\ Links' /\ AckedKept'
           /\ Verifies(Lines') <=> Verifies(Lines)
           /\ Ended(Lines') <=> Ended(Lines)
           /\ LastHash(Lines') = LastHash(Lines) /\ Entries(Lines') = Entries(Lines)
<1>1. Present' = Present /\ Made' = Made
  BY DEF Present, Made
<1>2. Numbered'
  BY <1>1 DEF AuditInv, AuditTypeOK, Numbered
<1>3. Links'
  BY <1>1 DEF AuditInv, Links, Linked
<1>4. AckedKept'
  BY <1>1 DEF AuditInv, AckedKept
<1> QED
  BY <1>1, <1>2, <1>3, <1>4

\* A step of the running process that adds a whole line to the active file.
LEMMA LineAdded ==
    ASSUME AuditInv, Verifies(Lines),
           NEW line \in Line, line.kind # "torn", line.ended = TRUE,
           line.previous_hash = LastHash(Lines),
           line.kind = "boundary" =>
               /\ line.archived_to = Made /\ Made > 0
               /\ line.previous_file_last_hash = LastHash(archives[Made]),
           Lines' = Added(Lines, line), archives' = archives, acked' = acked,
           now' \in Nat, now' >= now, Made < now'
    PROVE  /\ Made' = Made /\ Present' = Present
           /\ Numbered' /\ Links' /\ AckedKept'
           /\ Lines' \in Seq(Line) /\ Lines' # <<>>
           /\ Verifies(Lines') /\ Ended(Lines')
           /\ LastHash(Lines') = line.hash /\ line.hash \in Entries(Lines')
<1>1. Lines \in Seq(Line) /\ Ended(Lines) /\ Made \in Nat
  BY LinesType DEF AuditInv, FileInv, Numbered
<1>2. Lines' = Append(Lines, line) /\ Ended(Lines')
  <2>1. Added(Lines, line) = Append(Lines, line) /\ Ended(Append(Lines, line))
    BY <1>1, AddedAtEnd, Zenon, ZenonT(120)
  <2> QED
    BY <2>1
<1>3. Lines' \in Seq(Line) /\ Lines' # <<>> /\ LastHash(Lines') = line.hash
  BY <1>1, <1>2, LastHashes
<1>4. Verifies(Lines')
  BY <1>1, <1>2, AppendVerifies
<1>5. Entries(Lines') = Entries(Lines) \cup {line.hash}
  BY <1>1, <1>2, AppendEntries
<1>6. Present' = Present /\ Made' = Made
  BY DEF Present, Made
<1>7. Numbered'
  BY <1>6 DEF AuditInv, AuditTypeOK, Numbered
<1>8. AckedKept'
  BY <1>5, <1>6 DEF AuditInv, AckedKept
<1>9. Links'
  <2>1. /\ Len(Lines) \in Nat /\ DOMAIN Lines = 1..Len(Lines)
        /\ DOMAIN Lines' = (1..Len(Lines)) \cup {Len(Lines) + 1}
        /\ Lines'[Len(Lines) + 1] = line
        /\ \A i \in 1..Len(Lines) : Lines'[i] = Lines[i]
    BY <1>1, <1>2
  <2>2. Made > 0 => Made \in Present
    BY <1>1 DEF AuditInv, Numbered
  <2>3. (Made + 1) - 1 = Made
    BY <1>1
  <2>4. Linked(Lines, Made + 1)'
    BY <1>6, <2>1, <2>2, <2>3 DEF AuditInv, Links, Linked
  <2>5. \A n \in 1..Made' : Linked(archives[n], n)'
    BY <1>6 DEF AuditInv, Links, Linked
  <2> QED
    BY <2>4, <2>5 DEF Links
<1> QED
  BY <1>2, <1>3, <1>4, <1>5, <1>6, <1>7, <1>8, <1>9

\* A crash that cuts a line off leaves a file that does not verify.
LEMMA LineCut ==
    ASSUME AuditInv, Verifies(Lines), NEW line \in Line, line.kind = "torn",
           Lines' = Added(Lines, line), archives' = archives, acked' = acked,
           now' \in Nat, now' >= now, Made < now'
    PROVE  /\ Made' = Made /\ Numbered' /\ Links' /\ AckedKept'
           /\ Lines' \in Seq(Line) /\ ~Verifies(Lines')
<1>1. Lines \in Seq(Line) /\ Ended(Lines) /\ Made \in Nat
  BY LinesType DEF AuditInv, FileInv, Numbered
<1>2. Lines' = Append(Lines, line)
  <2>1. Added(Lines, line) = Append(Lines, line)
    BY <1>1, AddedAtEnd, Zenon, ZenonT(120)
  <2> QED
    BY <2>1
<1>3. Lines' \in Seq(Line) /\ ~Verifies(Lines')
  BY <1>1, <1>2, LastHashes, TornFails
<1>4. Entries(Lines) \subseteq Entries(Lines')
  BY <1>1, <1>2, AppendEntries
<1>5. Present' = Present /\ Made' = Made
  BY DEF Present, Made
<1>6. Numbered'
  BY <1>5 DEF AuditInv, AuditTypeOK, Numbered
<1>7. AckedKept'
  BY <1>4, <1>5 DEF AuditInv, AckedKept
<1>8. Links'
  <2>1. /\ Len(Lines) \in Nat /\ DOMAIN Lines = 1..Len(Lines)
        /\ DOMAIN Lines' = (1..Len(Lines)) \cup {Len(Lines) + 1}
        /\ Lines'[Len(Lines) + 1] = line
        /\ \A i \in 1..Len(Lines) : Lines'[i] = Lines[i]
    BY <1>1, <1>2
  <2>2. Linked(Lines, Made + 1)'
    BY <1>1, <1>5, <2>1 DEF AuditInv, Links, Linked
  <2>3. \A n \in 1..Made' : Linked(archives[n], n)'
    BY <1>5 DEF AuditInv, Links, Linked
  <2> QED
    BY <2>2, <2>3 DEF Links
<1> QED
  BY <1>3, <1>5, <1>6, <1>7, <1>8

-----------------------------------------------------------------------------
(* The steps of append.                                                    *)

\* With one appender, its progress is all of it.
LEMMA StepInv ==
    ASSUME OneAppender, NEW t \in Appenders, AuditTypeOK', Progress(t)',
           Verifies(Lines)', Ended(Lines)', Numbered', Links', AckedKept'
    PROVE  AuditInv'
<1>1. \A s \in Appenders : s = t
  BY DEF OneAppender
<1>2. \A s \in Appenders : Progress(s)'
  BY <1>1
<1>3. FileInv'
  BY DEF FileInv, Progress
<1> QED
  BY <1>2, <1>3 DEF AuditInv

\* What holds when the appender takes a step.
LEMMA Stepping ==
    ASSUME AuditInv, NEW t \in Appenders, NEW from, NEW to \in Labels, Step(t, from, to)
    PROVE  /\ up = TRUE /\ pc[t] = from /\ pc'[t] = to
           /\ pc' \in [Appenders -> Labels]
           /\ Progress(t) /\ Verifies(Lines) /\ Ended(Lines)
           /\ Lines \in Seq(Line) /\ local[t] \in Locals
           /\ _last_hash \in Nat /\ now \in Nat /\ now + 1 \in Nat /\ Made \in Nat
           /\ RotateAt \in Nat \ {0} /\ MaxTime \in Nat
<1>1. up = TRUE
  BY DEF Step, AuditInv, AuditTypeOK
<1>2. pc \in [Appenders -> Labels] /\ local \in [Appenders -> Locals]
      /\ _last_hash \in Nat /\ now \in Nat
  BY DEF AuditInv, AuditTypeOK
<1>3. pc[t] = from /\ pc' = [pc EXCEPT ![t] = to]
  BY DEF Step
<1>4. pc'[t] = to /\ pc' \in [Appenders -> Labels]
  BY <1>2, <1>3
<1>5. Lines \in Seq(Line)
  BY LinesType DEF AuditInv
<1>6. Verifies(Lines) /\ Ended(Lines)
  BY <1>1 DEF AuditInv, FileInv
<1>7. Progress(t) /\ Made \in Nat
  BY DEF AuditInv, Numbered
<1>8. now + 1 \in Nat
  BY <1>2
<1> QED
  BY <1>1, <1>2, <1>3, <1>4, <1>5, <1>6, <1>7, <1>8, AuditAssumption

\* The size check.
LEMMA StartInv ==
    ASSUME AuditInv, OneAppender, NEW t \in Appenders, Start(t)
    PROVE  AuditInv'
<1> DEFINE to == IF Len(file) >= RotateAt THEN "rotate" ELSE "body"
<1>1. Step(t, "idle", to) /\ to \in Labels
  BY DEF Start, Labels
<1>2. /\ now + 2 <= MaxTime /\ file # None
      /\ UNCHANGED <<up, file, archives, _last_hash, now, local, acked>>
  BY DEF Start
<1> HIDE DEF to
<1>3. /\ up = TRUE /\ pc[t] = "idle" /\ pc'[t] = to /\ pc' \in [Appenders -> Labels]
      /\ Progress(t) /\ Verifies(Lines) /\ Ended(Lines) /\ Lines \in Seq(Line)
      /\ now \in Nat /\ MaxTime \in Nat /\ RotateAt \in Nat \ {0}
  BY <1>1, Stepping, Zenon, ZenonT(120)
<1>4. Lines' = Lines /\ Lines = file
  BY <1>2 DEF Lines
<1>5. AuditTypeOK'
  BY <1>2, <1>3 DEF AuditInv, AuditTypeOK
<1>6. /\ Made' = Made /\ Numbered' /\ Links' /\ AckedKept'
      /\ Verifies(Lines') /\ Ended(Lines')
      /\ LastHash(Lines') = LastHash(Lines)
  BY <1>2, <1>3, <1>4, FilesKept
<1>7. to = "rotate" => Lines # <<>>
  BY <1>3, <1>4 DEF to
<1>8. to \in {"rotate", "body"}
  BY DEF to
<1>9. now <= MaxTime
  BY <1>2, <1>3
<1>10. Progress(t)'
  BY <1>2, <1>3, <1>4, <1>6, <1>7, <1>8, <1>9 DEF Progress
<1> QED
  BY <1>5, <1>6, <1>10, StepInv

\* The archive's name and the hash it will link to.
LEMMA RotateInv ==
    ASSUME AuditInv, OneAppender, NEW t \in Appenders, Rotate(t)
    PROVE  AuditInv'
<1>1. Step(t, "rotate", "rename") /\ "rename" \in Labels
  BY DEF Rotate, Labels
<1>2. /\ UNCHANGED <<up, file, archives, _last_hash, now, acked>>
      /\ local' = [local EXCEPT ![t] = [Idle EXCEPT !.archived_to = NextArchive,
                                                    !.previous_file_last_hash = _last_hash]]
  BY DEF Rotate
<1>3. /\ up = TRUE /\ pc[t] = "rotate" /\ pc'[t] = "rename" /\ pc' \in [Appenders -> Labels]
      /\ Progress(t) /\ Verifies(Lines) /\ Ended(Lines) /\ Lines \in Seq(Line)
      /\ now \in Nat /\ MaxTime \in Nat /\ Made \in Nat /\ _last_hash \in Nat
  BY <1>1, Stepping, Zenon, ZenonT(120)
<1>4. Lines' = Lines /\ file # None /\ Lines # <<>> /\ now <= MaxTime
      /\ _last_hash = LastHash(Lines)
  BY <1>2, <1>3 DEF Lines, Progress
<1>5. Made + 1 <= MaxTime
  BY <1>3, <1>4 DEF AuditInv, Numbered
<1>6. NextArchive = Made + 1
  BY <1>5, NextArchiveIs DEF AuditInv
<1>7. /\ local'[t].archived_to = Made + 1 /\ local'[t].previous_file_last_hash = _last_hash
      /\ local' \in [Appenders -> Locals]
  <2>1. local \in [Appenders -> Locals]
    BY DEF AuditInv, AuditTypeOK
  <2> DEFINE l == InRotate(Made + 1, _last_hash)
  <2>2. l \in Locals /\ l.archived_to = Made + 1 /\ l.previous_file_last_hash = _last_hash
    <3>1. Made + 1 \in Nat
      BY <1>3
    <3> QED
      BY <1>3, <3>1, NewLocals
  <2>3. local' = [local EXCEPT ![t] = l]
    BY <1>2, <1>6 DEF InRotate
  <2> HIDE DEF l
  <2> QED
    BY <2>1, <2>2, <2>3
<1>8. AuditTypeOK'
  BY <1>2, <1>3, <1>7 DEF AuditInv, AuditTypeOK
<1>9. /\ Made' = Made /\ Numbered' /\ Links' /\ AckedKept'
      /\ Verifies(Lines') /\ Ended(Lines') /\ LastHash(Lines') = LastHash(Lines)
  BY <1>2, <1>3, <1>4, FilesKept
<1>10. Progress(t)'
  BY <1>2, <1>3, <1>4, <1>5, <1>7, <1>9 DEF Progress
<1> QED
  BY <1>8, <1>9, <1>10, StepInv

\* The file becomes the next archive.
LEMMA RenameInv ==
    ASSUME AuditInv, OneAppender, NEW t \in Appenders, Rename(t)
    PROVE  AuditInv'
<1> DEFINE to == IF file = None THEN "idle" ELSE "touch"
<1>1. Step(t, "rename", to) /\ to \in Labels
  BY DEF Rename, Labels
<1> HIDE DEF to
<1>2. /\ up = TRUE /\ pc[t] = "rename" /\ pc'[t] = to /\ pc' \in [Appenders -> Labels]
      /\ Progress(t) /\ Verifies(Lines) /\ Ended(Lines) /\ Lines \in Seq(Line)
      /\ now \in Nat /\ MaxTime \in Nat /\ Made \in Nat /\ _last_hash \in Nat
  BY <1>1, Stepping, Zenon, ZenonT(120)
<1>3. /\ file # None /\ Lines # <<>> /\ _last_hash = LastHash(Lines)
      /\ local[t].archived_to = Made + 1 /\ Made + 1 <= MaxTime
      /\ local[t].previous_file_last_hash = _last_hash
  BY <1>2 DEF Progress
<1>4. /\ to = "touch" /\ Lines = file /\ file \in Seq(Line)
      /\ archives' = [archives EXCEPT ![Made + 1] = file] /\ local' = local /\ file' = None
      /\ UNCHANGED <<up, _last_hash, now, acked>>
  BY <1>2, <1>3 DEF to, Rename, Lines
<1>5. /\ archives \in [Archives -> Seq(Line) \cup {None}] /\ Made + 1 \in Archives
      /\ Present = 1..Made /\ Made < now
  BY <1>2, <1>3 DEF AuditInv, AuditTypeOK, Numbered, Archives
<1>6. /\ archives' \in [Archives -> Seq(Line) \cup {None}]
      /\ archives'[Made + 1] = file
      /\ \A n \in Archives : n # Made + 1 => archives'[n] = archives[n]
  BY <1>4, <1>5
<1>7. Present' = 1..(Made + 1)
  <2>1. Present' = Present \cup {Made + 1}
    BY <1>3, <1>5, <1>6 DEF Present
  <2>2. 1..(Made + 1) = (1..Made) \cup {Made + 1}
    BY <1>2
  <2> QED
    BY <1>5, <2>1, <2>2
<1>8. Made' = Made + 1
  <2>1. Made + 1 \in Nat
    BY <1>2
  <2> QED
    BY <1>7, <2>1, MadeIs DEF Made
<1>9. Lines' = <<>>
  BY <1>4 DEF Lines
<1>10. Numbered'
  BY <1>2, <1>4, <1>5, <1>7, <1>8, <1>9 DEF Numbered
<1>11. Verifies(Lines') /\ Ended(Lines')
  BY <1>9 DEF Verifies, Ended
<1>12. AuditTypeOK'
  BY <1>2, <1>4, <1>6 DEF AuditInv, AuditTypeOK
<1>13. AckedKept'
  <2>1. acked \subseteq Entries(file) \cup UNION {Entries(archives[n]) : n \in Present}
    BY <1>4 DEF AuditInv, AckedKept
  <2>2. \A n \in Present : n \in Present' /\ archives'[n] = archives[n]
    BY <1>2, <1>3, <1>5, <1>6, <1>7 DEF Archives
  <2>3. Made + 1 \in Present' /\ Entries(archives'[Made + 1]) = Entries(file)
    BY <1>2, <1>6, <1>7
  <2>4. acked \subseteq UNION {Entries(archives'[n]) : n \in Present'}
    <3> SUFFICES ASSUME NEW e \in acked
                 PROVE  \E n \in Present' : e \in Entries(archives'[n])
      BY Zenon, ZenonT(120)
    <3>1. CASE e \in Entries(file)
      BY <2>3, <3>1
    <3>2. ASSUME NEW n \in Present, e \in Entries(archives[n])
          PROVE  \E k \in Present' : e \in Entries(archives'[k])
      BY <2>2, <3>2
    <3> QED
      BY <2>1, <3>1, <3>2, Zenon, ZenonT(120)
  <2> QED
    BY <1>4, <2>4 DEF AckedKept
<1>14. Links'
  <2>1. Linked(Lines, Made + 1)'
    BY <1>9 DEF Linked
  <2>2. ASSUME NEW n \in 1..(Made + 1) PROVE Linked(archives[n], n)'
    <3>1. Linked(archives'[n], n)
      <4>1. CASE n = Made + 1
        BY <1>4, <1>6, <4>1 DEF AuditInv, Links
      <4>2. CASE n # Made + 1
        <5>1. n \in 1..Made /\ n \in Archives
          BY <1>2, <1>5, <4>2 DEF Archives
        <5> QED
          BY <1>6, <4>2, <5>1 DEF AuditInv, Links
      <4> QED
        BY <4>1, <4>2
    <3>2. n - 1 \in Present => n - 1 \in Present' /\ archives'[n - 1] = archives[n - 1]
      BY <1>2, <1>3, <1>5, <1>6, <1>7 DEF Archives
    <3> QED
      BY <3>1, <3>2 DEF Linked
  <2> QED
    BY <1>8, <2>1, <2>2 DEF Links
<1>15. Progress(t)'
  <2>1. local'[t].archived_to = Made' /\ Made' > 0
        /\ local'[t].previous_file_last_hash = LastHash(archives'[Made'])
    BY <1>2, <1>3, <1>4, <1>6, <1>8
  <2> QED
    BY <1>2, <1>4, <2>1 DEF Progress
<1> QED
  BY <1>10, <1>11, <1>12, <1>13, <1>14, <1>15, StepInv

\* The new file, and the zero hash.
LEMMA TouchInv ==
    ASSUME AuditInv, OneAppender, NEW t \in Appenders, Touch(t)
    PROVE  AuditInv'
<1>1. Step(t, "touch", "boundary") /\ "boundary" \in Labels
  BY DEF Touch, Labels
<1>2. /\ up = TRUE /\ pc[t] = "touch" /\ pc'[t] = "boundary" /\ pc' \in [Appenders -> Labels]
      /\ Progress(t) /\ Verifies(Lines) /\ Ended(Lines) /\ Lines \in Seq(Line)
      /\ now \in Nat
  BY <1>1, Stepping, Zenon, ZenonT(120)
<1>3. /\ file = None /\ Lines = <<>>
      /\ local[t].archived_to = Made /\ Made > 0
      /\ local[t].previous_file_last_hash = LastHash(archives[Made])
  BY <1>2 DEF Progress, Lines
<1>4. /\ file' = <<>> /\ _last_hash' = 0 /\ UNCHANGED <<up, archives, now, local, acked>>
  BY <1>3 DEF Touch
<1>5. Lines' = Lines
  BY <1>3, <1>4 DEF Lines
<1>6. AuditTypeOK'
  BY <1>2, <1>4 DEF AuditInv, AuditTypeOK
<1>7. /\ Made' = Made /\ Numbered' /\ Links' /\ AckedKept'
      /\ Verifies(Lines') /\ Ended(Lines')
  BY <1>2, <1>4, <1>5, FilesKept
<1>8. LastHash(Lines') = 0
  BY <1>3, <1>5 DEF LastHash
<1>9. file' # None
  <2>1. <<>> \in Seq(Line)
    OBVIOUS
  <2> QED
    BY <1>4, <2>1, NoFileAssumption, Zenon, ZenonT(120)
<1>10. Progress(t)'
  BY <1>2, <1>3, <1>4, <1>5, <1>7, <1>8, <1>9 DEF Progress
<1> QED
  BY <1>6, <1>7, <1>10, StepInv

\* The boundary entry.
LEMMA BoundaryInv ==
    ASSUME AuditInv, OneAppender, NEW t \in Appenders, Boundary(t)
    PROVE  AuditInv'
<1>1. Step(t, "boundary", "boundary_done") /\ "boundary_done" \in Labels
  BY DEF Boundary, Labels
<1>2. /\ up = TRUE /\ pc[t] = "boundary" /\ pc'[t] = "boundary_done"
      /\ pc' \in [Appenders -> Labels]
      /\ Progress(t) /\ Verifies(Lines) /\ Lines \in Seq(Line) /\ local[t] \in Locals
      /\ now \in Nat /\ now + 1 \in Nat /\ _last_hash \in Nat /\ Made \in Nat
  BY <1>1, Stepping, Zenon, ZenonT(120)
<1>3. /\ local[t].archived_to = Made /\ Made > 0
      /\ local[t].previous_file_last_hash = LastHash(archives[Made])
      /\ _last_hash = LastHash(Lines)
  BY <1>2 DEF Progress
<1> DEFINE l == InBoundary(local[t], now + 1, _last_hash)
           line == Entry("boundary", l)
<1>4. local \in [Appenders -> Locals]
  BY DEF AuditInv, AuditTypeOK
<1>5. /\ now' = now + 1 /\ UNCHANGED <<up, archives, _last_hash, acked>>
      /\ local' = [local EXCEPT ![t].hash = now + 1, ![t].previous_hash = _last_hash]
      /\ file' = Added(Lines, Entry("boundary", local'[t]))
  BY DEF Boundary
<1>6. local'[t] = l /\ local' = [local EXCEPT ![t] = l]
  BY <1>4, <1>5, Zenon, ZenonT(120) DEF InBoundary
<1>7. /\ l \in Locals /\ l.hash = now + 1 /\ l.previous_hash = _last_hash
      /\ l.archived_to = local[t].archived_to
      /\ l.previous_file_last_hash = local[t].previous_file_last_hash
  BY <1>2, BoundaryLocals
<1> HIDE DEF l
<1>8. /\ line \in Line /\ line.kind = "boundary" /\ line.ended = TRUE
      /\ line.hash = now + 1 /\ line.previous_hash = _last_hash
      /\ line.archived_to = Made
      /\ line.previous_file_last_hash = LastHash(archives[Made])
  BY <1>3, <1>7, LineTypes, Zenon, ZenonT(120)
<1>9. file' = Added(Lines, line)
  BY <1>5, <1>6
<1> HIDE DEF line
<1>10. Lines' = Added(Lines, line) /\ file' \in Seq(Line) /\ file' # None
  BY <1>2, <1>8, <1>9, FileAdded DEF AuditInv, FileInv
<1>11. /\ Made' = Made /\ Numbered' /\ Links' /\ AckedKept'
       /\ Verifies(Lines') /\ Ended(Lines')
       /\ LastHash(Lines') = line.hash /\ line.hash \in Entries(Lines')
  <2>1. now + 1 >= now /\ Made < now + 1
    BY <1>2 DEF AuditInv, Numbered
  <2> QED
    BY <1>2, <1>3, <1>5, <1>8, <1>10, <2>1, LineAdded, Zenon, ZenonT(120)
<1>12. AuditTypeOK'
  BY <1>2, <1>4, <1>5, <1>6, <1>7, <1>10 DEF AuditInv, AuditTypeOK
<1>13. Progress(t)'
  BY <1>2, <1>5, <1>6, <1>7, <1>8, <1>10, <1>11 DEF Progress
<1> QED
  BY <1>11, <1>12, <1>13, StepInv

\* Its hash is remembered.
LEMMA BoundaryDoneInv ==
    ASSUME AuditInv, OneAppender, NEW t \in Appenders, BoundaryDone(t)
    PROVE  AuditInv'
<1>1. Step(t, "boundary_done", "body") /\ "body" \in Labels
  BY DEF BoundaryDone, Labels
<1>2. /\ up = TRUE /\ pc[t] = "boundary_done" /\ pc'[t] = "body"
      /\ pc' \in [Appenders -> Labels]
      /\ Progress(t) /\ Verifies(Lines) /\ Ended(Lines) /\ local[t] \in Locals
      /\ now \in Nat
  BY <1>1, Stepping, Zenon, ZenonT(120)
<1>3. /\ _last_hash' = local[t].hash /\ UNCHANGED <<up, file, archives, now, local, acked>>
  BY DEF BoundaryDone
<1>4. Lines' = Lines /\ file # None /\ LastHash(Lines) = local[t].hash /\ local[t].hash \in Nat
  BY <1>2, <1>3 DEF Lines, Progress, Locals
<1>5. AuditTypeOK'
  BY <1>2, <1>3, <1>4 DEF AuditInv, AuditTypeOK
<1>6. /\ Made' = Made /\ Numbered' /\ Links' /\ AckedKept'
      /\ Verifies(Lines') /\ Ended(Lines') /\ LastHash(Lines') = LastHash(Lines)
  BY <1>2, <1>3, <1>4, FilesKept
<1>7. Progress(t)'
  BY <1>2, <1>3, <1>4, <1>6 DEF Progress
<1> QED
  BY <1>5, <1>6, <1>7, StepInv

\* The body, chained to the hash remembered.
LEMMA BodyInv ==
    ASSUME AuditInv, OneAppender, NEW t \in Appenders, Body(t)
    PROVE  AuditInv'
<1>1. Step(t, "body", "write") /\ "write" \in Labels
  BY DEF Body, Labels
<1>2. /\ up = TRUE /\ pc[t] = "body" /\ pc'[t] = "write" /\ pc' \in [Appenders -> Labels]
      /\ Progress(t) /\ Verifies(Lines) /\ Ended(Lines)
      /\ now \in Nat /\ now + 1 \in Nat /\ _last_hash \in Nat /\ Made \in Nat
  BY <1>1, Stepping, Zenon, ZenonT(120)
<1> DEFINE l == InBody(now + 1, _last_hash)
<1>3. l \in Locals /\ l.previous_hash = _last_hash
  BY <1>2, NewLocals
<1>4. /\ now' = now + 1 /\ UNCHANGED <<up, file, archives, _last_hash, acked>>
      /\ local' = [local EXCEPT ![t] = l]
  BY DEF Body, InBody
<1> HIDE DEF l
<1>5. local'[t] = l /\ local' \in [Appenders -> Locals]
  BY <1>3, <1>4 DEF AuditInv, AuditTypeOK
<1>6. Lines' = Lines /\ file # None
  BY <1>2, <1>4 DEF Lines, Progress
<1>7. AuditTypeOK'
  BY <1>2, <1>4, <1>5 DEF AuditInv, AuditTypeOK
<1>8. now + 1 >= now /\ Made < now + 1
  BY <1>2 DEF AuditInv, Numbered
<1>9. /\ Made' = Made /\ Numbered' /\ Links' /\ AckedKept'
      /\ Verifies(Lines') /\ Ended(Lines') /\ LastHash(Lines') = LastHash(Lines)
  BY <1>2, <1>4, <1>6, <1>8, FilesKept
<1>10. Progress(t)'
  BY <1>2, <1>3, <1>4, <1>5, <1>6, <1>8, <1>9 DEF Progress
<1> QED
  BY <1>7, <1>9, <1>10, StepInv

\* The line is written.
LEMMA WriteInv ==
    ASSUME AuditInv, OneAppender, NEW t \in Appenders, Write(t)
    PROVE  AuditInv'
<1>1. Step(t, "write", "done") /\ "done" \in Labels
  BY DEF Write, Labels
<1>2. /\ up = TRUE /\ pc[t] = "write" /\ pc'[t] = "done" /\ pc' \in [Appenders -> Labels]
      /\ Progress(t) /\ Verifies(Lines) /\ Lines \in Seq(Line) /\ local[t] \in Locals
      /\ now \in Nat /\ Made \in Nat
  BY <1>1, Stepping, Zenon, ZenonT(120)
<1>3. local[t].previous_hash = _last_hash /\ Made < now /\ _last_hash = LastHash(Lines)
  BY <1>2 DEF Progress
<1> DEFINE line == Entry("event", local[t])
<1>4. file' = Added(Lines, line) /\ UNCHANGED <<up, archives, _last_hash, now, local, acked>>
  BY DEF Write
<1>5. /\ line \in Line /\ line.kind = "event" /\ line.ended = TRUE
      /\ line.hash = local[t].hash /\ line.previous_hash = LastHash(Lines)
  BY <1>2, <1>3, LineTypes, Zenon, ZenonT(120)
<1> HIDE DEF line
<1>6. Lines' = Added(Lines, line) /\ file' \in Seq(Line) /\ file' # None
  BY <1>2, <1>4, <1>5, FileAdded DEF AuditInv, FileInv
<1>7. /\ Made' = Made /\ Numbered' /\ Links' /\ AckedKept'
      /\ Verifies(Lines') /\ Ended(Lines')
      /\ LastHash(Lines') = line.hash /\ line.hash \in Entries(Lines')
  <2>1. now' \in Nat /\ now' >= now /\ Made < now'
    BY <1>2, <1>3, <1>4
  <2> QED
    BY <1>2, <1>4, <1>5, <1>6, <2>1, LineAdded, Zenon, ZenonT(120)
<1>8. AuditTypeOK'
  BY <1>2, <1>4, <1>6 DEF AuditInv, AuditTypeOK
<1>9. Progress(t)'
  BY <1>2, <1>4, <1>5, <1>6, <1>7 DEF Progress
<1> QED
  BY <1>7, <1>8, <1>9, StepInv

\* append returns.
LEMMA DoneInv ==
    ASSUME AuditInv, OneAppender, NEW t \in Appenders, Done(t)
    PROVE  AuditInv'
<1>1. Step(t, "done", "idle") /\ "idle" \in Labels
  BY DEF Done, Labels
<1>2. /\ up = TRUE /\ pc[t] = "done" /\ pc'[t] = "idle" /\ pc' \in [Appenders -> Labels]
      /\ Progress(t) /\ Verifies(Lines) /\ Ended(Lines) /\ local[t] \in Locals
      /\ now \in Nat
  BY <1>1, Stepping, Zenon, ZenonT(120)
<1>3. /\ _last_hash' = local[t].hash /\ acked' = acked \cup {local[t].hash}
      /\ local' = [local EXCEPT ![t] = Idle] /\ UNCHANGED <<up, file, archives, now>>
  BY DEF Done
<1>4. /\ Lines' = Lines /\ file # None /\ LastHash(Lines) = local[t].hash
      /\ local[t].hash \in Nat /\ local[t].hash \in Entries(Lines)
  BY <1>2, <1>3 DEF Lines, Progress, Locals
<1>5. local' \in [Appenders -> Locals]
  <2>1. Idle \in Locals
    BY DEF Idle, Locals
  <2> QED
    BY <1>3, <2>1 DEF AuditInv, AuditTypeOK
<1>6. AuditTypeOK'
  BY <1>2, <1>3, <1>4, <1>5 DEF AuditInv, AuditTypeOK
<1>7. Present' = Present /\ Made' = Made
  BY <1>3 DEF Present, Made
<1>8. Numbered' /\ Links' /\ Verifies(Lines') /\ Ended(Lines') /\ LastHash(Lines') = LastHash(Lines)
  BY <1>2, <1>3, <1>4, <1>7 DEF AuditInv, Numbered, Links, Linked
<1>9. AckedKept'
  BY <1>3, <1>4, <1>7 DEF AuditInv, AckedKept
<1>10. Progress(t)'
  BY <1>2, <1>3, <1>4, <1>7, <1>8, Zenon, ZenonT(120) DEF Progress
<1> QED
  BY <1>6, <1>8, <1>9, <1>10, StepInv

-----------------------------------------------------------------------------
(* Crashes, restarts and readers.                                          *)

\* The invariant of a process that is down.
LEMMA DownInv ==
    ASSUME up' = FALSE, pc' = [t \in Appenders |-> "idle"], AuditTypeOK',
           (Verifies(Lines) => Ended(Lines))', Numbered', Links', AckedKept'
    PROVE  AuditInv'
<1>1. \A t \in Appenders : pc'[t] = "idle"
  OBVIOUS
<1>2. \A t \in Appenders : Progress(t)'
  BY <1>1, Zenon, ZenonT(120) DEF Progress
<1>3. FileInv'
  BY DEF FileInv
<1> QED
  BY <1>2, <1>3 DEF AuditInv

\* The line in flight links to the last one.
LEMMA InFlightLine ==
    ASSUME AuditInv, NEW t \in Appenders, up = TRUE, pc[t] \in {"write", "boundary"}
    PROVE  /\ InFlight(t) \in Line /\ InFlight(t).kind # "torn" /\ InFlight(t).ended = TRUE
           /\ InFlight(t).previous_hash = LastHash(Lines)
           /\ InFlight(t).kind = "boundary" =>
                 /\ InFlight(t).archived_to = Made /\ Made > 0
                 /\ InFlight(t).previous_file_last_hash = LastHash(archives[Made])
<1>1. /\ Progress(t) /\ local[t] \in Locals /\ now + 1 \in Nat /\ _last_hash \in Nat
  BY DEF AuditInv, AuditTypeOK
<1>2. _last_hash = LastHash(Lines)
  BY <1>1 DEF Progress
<1>3. CASE pc[t] = "write"
  <2>1. InFlight(t) = Entry("event", local[t])
    BY <1>3 DEF InFlight
  <2>2. local[t].previous_hash = _last_hash
    BY <1>1, <1>3 DEF Progress
  <2> QED
    BY <1>1, <1>2, <2>1, <2>2, LineTypes, Zenon, ZenonT(120)
<1>4. CASE pc[t] = "boundary"
  <2> DEFINE l == InBoundary(local[t], now + 1, _last_hash)
  <2>1. InFlight(t) = Entry("boundary", l)
    BY <1>4 DEF InFlight, InBoundary
  <2>2. /\ l \in Locals /\ l.previous_hash = _last_hash
        /\ l.archived_to = local[t].archived_to
        /\ l.previous_file_last_hash = local[t].previous_file_last_hash
    BY <1>1, BoundaryLocals
  <2> HIDE DEF l
  <2>3. /\ local[t].archived_to = Made /\ Made > 0
        /\ local[t].previous_file_last_hash = LastHash(archives[Made])
    BY <1>1, <1>4 DEF Progress
  <2> QED
    BY <1>2, <2>1, <2>2, <2>3, LineTypes, Zenon, ZenonT(120)
<1> QED
  BY <1>3, <1>4, Zenon, ZenonT(120)

\* A crash leaves the file as it was, or with the line in flight whole or torn.
LEMMA CrashInv ==
    ASSUME AuditInv, LostNewline = FALSE, Crash
    PROVE  AuditInv'
<1>1. /\ up = TRUE /\ up' = FALSE /\ pc' = [t \in Appenders |-> "idle"]
      /\ local' = [t \in Appenders |-> Idle]
      /\ archives' = archives /\ _last_hash' = _last_hash /\ acked' = acked
  BY DEF Crash, AuditInv, AuditTypeOK
<1>2. /\ now \in Nat /\ Made \in Nat /\ Lines \in Seq(Line) /\ Verifies(Lines) /\ Ended(Lines)
      /\ Made <= now
  BY <1>1, LinesType DEF AuditInv, AuditTypeOK, FileInv, Numbered
<1>3. now' \in Nat /\ now' >= now
  BY <1>2 DEF Crash
<1>4. /\ pc' \in [Appenders -> Labels] /\ local' \in [Appenders -> Locals]
  BY <1>1 DEF Labels, Idle, Locals
<1>5. (file' = None \/ file' \in Seq(Line)) => AuditTypeOK'
  BY <1>1, <1>3, <1>4, Zenon, ZenonT(120) DEF AuditInv, AuditTypeOK
<1>6. CASE Lines' = Lines /\ (file' = None \/ file' \in Seq(Line))
  <2>1. Numbered' /\ Links' /\ AckedKept' /\ Ended(Lines')
    BY <1>1, <1>2, <1>3, <1>6, FilesKept
  <2> QED
    BY <1>1, <1>5, <1>6, <2>1, DownInv, Zenon, ZenonT(120)
<1>7. CASE file' = file
  BY <1>6, <1>7 DEF Lines, AuditInv, AuditTypeOK
<1>8. ASSUME NEW t \in Appenders, pc[t] \in {"write", "boundary"}, file' \in Cut(InFlight(t))
      PROVE  AuditInv'
  <2> DEFINE line == InFlight(t)
             torn == Torn(FALSE)
  <2>1. /\ line \in Line /\ line.kind # "torn" /\ line.ended = TRUE
        /\ line.previous_hash = LastHash(Lines)
        /\ line.kind = "boundary" =>
              /\ line.archived_to = Made /\ Made > 0
              /\ line.previous_file_last_hash = LastHash(archives[Made])
    BY <1>1, <1>8, InFlightLine, Zenon, ZenonT(120)
  <2>2. torn \in Line /\ torn.kind = "torn"
    BY DEF Torn, Line
  <2>3. Made < now'
    <3>1. CASE pc[t] = "write"
      BY <1>2, <1>3, <3>1 DEF AuditInv, Progress
    <3>2. CASE pc[t] = "boundary"
      BY <1>2, <3>2 DEF Crash
    <3> QED
      BY <1>8, <3>1, <3>2
  <2>4. file' \in {Lines, Added(Lines, torn), Added(Lines, line)}
    BY <1>8, Zenon, ZenonT(120) DEF Cut
  <2> HIDE DEF line, torn
  <2>5. CASE file' = Lines
    <3>1. Lines' = Lines
      BY <1>2, <2>5, NoFileAssumption DEF Lines
    <3> QED
      BY <1>2, <1>6, <2>5, <3>1
  <2>6. CASE file' = Added(Lines, torn)
    <3>1. Lines' = Added(Lines, torn) /\ file' \in Seq(Line)
      BY <1>2, <2>2, <2>6, FileAdded DEF AuditInv
    <3>2. Numbered' /\ Links' /\ AckedKept' /\ ~Verifies(Lines')
      BY <1>1, <1>2, <1>3, <2>2, <2>3, <3>1, LineCut
    <3> QED
      BY <1>1, <1>5, <3>1, <3>2, DownInv, Zenon, ZenonT(120)
  <2>7. CASE file' = Added(Lines, line)
    <3>1. Lines' = Added(Lines, line) /\ file' \in Seq(Line)
      BY <1>2, <2>1, <2>7, FileAdded DEF AuditInv
    <3>2. Numbered' /\ Links' /\ AckedKept' /\ Ended(Lines')
      BY <1>1, <1>2, <1>3, <2>1, <2>3, <3>1, LineAdded, Zenon, ZenonT(120)
    <3> QED
      BY <1>1, <1>5, <3>1, <3>2, DownInv, Zenon, ZenonT(120)
  <2> QED
    BY <2>4, <2>5, <2>6, <2>7
<1> QED
  BY <1>7, <1>8 DEF Crash

\* __init__ accepts a file that verifies.
LEMMA RestartInv ==
    ASSUME AuditInv, Restart
    PROVE  AuditInv'
<1>1. /\ up = FALSE /\ up' = TRUE /\ Verifies(Lines) /\ file' = Lines
      /\ _last_hash' = LastHash(Lines)
      /\ UNCHANGED <<archives, now, pc, local, acked>>
  BY DEF Restart, AuditInv, AuditTypeOK
<1>2. Lines \in Seq(Line) /\ Ended(Lines) /\ now \in Nat
  BY <1>1, LinesType DEF AuditInv, AuditTypeOK, FileInv
<1>3. file' # None /\ Lines' = Lines
  BY <1>1, <1>2, NoFileAssumption, Zenon, ZenonT(120) DEF Lines
<1>4. /\ Made' = Made /\ Numbered' /\ Links' /\ AckedKept'
      /\ Verifies(Lines') /\ Ended(Lines') /\ LastHash(Lines') = LastHash(Lines)
  BY <1>1, <1>2, <1>3, FilesKept
<1>5. LastHash(Lines) \in Nat
  <2>1. Torn(FALSE) \in Line
    BY DEF Torn, Line
  <2> QED
    BY <1>2, <2>1, LastHashes, Zenon, ZenonT(120)
<1>6. AuditTypeOK'
  BY <1>1, <1>2, <1>5 DEF AuditInv, AuditTypeOK
<1>7. \A t \in Appenders : pc[t] = "idle"
  BY <1>1 DEF AuditInv, Progress
<1>8. \A t \in Appenders : Progress(t)'
  BY <1>1, <1>3, <1>4, <1>7 DEF Progress
<1>9. FileInv'
  BY <1>1, <1>4 DEF FileInv
<1> QED
  BY <1>4, <1>6, <1>8, <1>9 DEF AuditInv

\* A step that leaves the log and its appenders alone.
LEMMA ReadInv ==
    ASSUME AuditInv, UNCHANGED <<up, file, archives, _last_hash, now, pc, local, acked>>
    PROVE  AuditInv'
<1>1. Lines' = Lines /\ Present' = Present /\ Made' = Made
  BY DEF Lines, Present, Made
<1>2. AuditTypeOK' /\ FileInv' /\ Numbered'
  BY <1>1 DEF AuditInv, AuditTypeOK, FileInv, Numbered
<1>3. Links' /\ AckedKept'
  BY <1>1 DEF AuditInv, Links, Linked, AckedKept
<1>4. \A t \in Appenders : Progress(t)'
  BY <1>1 DEF AuditInv, Progress
<1> QED
  BY <1>2, <1>3, <1>4 DEF AuditInv

LEMMA AuditInitInv == Init => AuditInv
<1> SUFFICES ASSUME Init PROVE AuditInv
  OBVIOUS
<1>1. <<>> \in Seq(Line) /\ MaxTime \in Nat
  BY AuditAssumption
<1>2. file # None /\ Lines = <<>>
  BY <1>1, NoFileAssumption, Zenon, ZenonT(120) DEF Init, Lines
<1>3. Present = 1..0
  BY DEF Init, Present
<1>4. Made = 0
  <2>1. 0 \in Nat
    OBVIOUS
  <2> QED
    BY <1>3, <2>1, MadeIs DEF Made
<1>5. AuditTypeOK
  BY <1>1 DEF Init, AuditTypeOK, Labels, Locals, Idle
<1>6. LastHash(Lines) = 0 /\ Verifies(Lines) /\ Ended(Lines)
  BY <1>2 DEF LastHash, Verifies, Ended
<1>7. \A t \in Appenders : Progress(t)
  BY <1>2, <1>6 DEF Init, Progress
<1>8. FileInv /\ Numbered
  BY <1>2, <1>3, <1>4, <1>6 DEF Init, FileInv, Numbered
<1>9. Links /\ AckedKept
  BY <1>2, <1>4 DEF Init, Links, Linked, AckedKept
<1> QED
  BY <1>5, <1>7, <1>8, <1>9 DEF AuditInv

LEMMA AuditNextInv ==
    ASSUME AuditInv, OneAppender, LostNewline = FALSE, [Next]_vars
    PROVE  AuditInv'
<1>1. ASSUME NEW t \in Appenders,
             \/ Start(t) \/ Rotate(t) \/ Rename(t) \/ Touch(t) \/ Boundary(t)
             \/ BoundaryDone(t) \/ Body(t) \/ Write(t) \/ Done(t)
      PROVE  AuditInv'
  BY <1>1, StartInv, RotateInv, RenameInv, TouchInv, BoundaryInv, BoundaryDoneInv, BodyInv,
     WriteInv, DoneInv
<1>2. CASE EventsStart
  BY <1>2, ReadInv DEF EventsStart
<1>3. CASE EventsEnd
  BY <1>3, ReadInv DEF EventsEnd
<1>4. CASE UNCHANGED vars
  BY <1>4, ReadInv DEF vars
<1> QED
  BY <1>1, <1>2, <1>3, <1>4, CrashInv, RestartInv, Zenon, ZenonT(120) DEF Next

-----------------------------------------------------------------------------
(* The theorems.                                                           *)

\* The invariant holds in every reachable state.
THEOREM AuditInvariant ==
    ASSUME OneAppender, LostNewline = FALSE
    PROVE  Spec => []AuditInv
<1>1. Init => AuditInv
  BY AuditInitInv
<1>2. AuditInv /\ [Next]_vars => AuditInv'
  BY AuditNextInv, Zenon, ZenonT(120)
<1> QED
  BY <1>1, <1>2, PTL, PTL DEF Spec

\* A log whose appends are serialised verifies whenever the process runs, at
\* any rotation size and after any crashes, and _last_hash follows it.
THEOREM AuditChainVerifies ==
    ASSUME OneAppender, LostNewline = FALSE
    PROVE  Spec => []ChainVerifies
<1>1. AuditInv => ChainVerifies
  BY DEF AuditInv, AuditTypeOK, FileInv, ChainVerifies
<1> QED
  BY <1>1, AuditInvariant, PTL, PTL

\* No entry whose append returned is ever lost by a rotation, crash or restart.
THEOREM AuditAckedKept ==
    ASSUME OneAppender, LostNewline = FALSE
    PROVE  Spec => []AckedKept
<1>1. AuditInv => AckedKept
  BY DEF AuditInv
<1> QED
  BY <1>1, AuditInvariant, PTL, PTL

\* Every boundary entry names the archive before its file and that archive's
\* last hash, and archives are numbered without a gap.
THEOREM AuditCrossFileChain ==
    ASSUME OneAppender, LostNewline = FALSE
    PROVE  Spec => []CrossFileChain
<1>1. AuditInv => CrossFileChain
  <2> SUFFICES ASSUME AuditInv PROVE CrossFileChain
    OBVIOUS
  <2>1. Made \in Nat /\ Present = 1..Made
    BY DEF AuditInv, Numbered
  <2>2. \A n \in Present : \A m \in 1..n - 1 : m \in Present
    BY <2>1
  <2>3. ASSUME NEW n \in Present \cup {Made + 1}
        PROVE  Linked(IF n \in Present THEN archives[n] ELSE Lines, n)
    BY <2>1 DEF AuditInv, Links
  <2> QED
    BY <2>2, <2>3 DEF CrossFileChain, Linked, Made
<1> QED
  BY <1>1, AuditInvariant, PTL, PTL

-----------------------------------------------------------------------------
(* The order of the entries.                                               *)

Rising(lines) ==
    \A i, j \in 1..Len(lines) : i < j => lines[i].hash < lines[j].hash

\* Every entry of a is older than every entry of b.
Before(a, b) ==
    \A i \in 1..Len(a) : \A j \in 1..Len(b) : a[i].hash < b[j].hash

UpTo(lines, time) == \A i \in 1..Len(lines) : lines[i].hash <= time

\* The time of the last entry that may be in a file: the one append has made
\* but not written yet is younger.
Newest == IF \E t \in Appenders : pc[t] = "write" THEN now - 1 ELSE now

InFlightLast == \A t \in Appenders : pc[t] = "write" => local[t].hash = now

ArchivesOrdered ==
    \A n \in Present :
        /\ Rising(archives[n]) /\ UpTo(archives[n], Newest)
        /\ \A m \in Present : n < m => Before(archives[n], archives[m])

FileOrdered ==
    Verifies(Lines) =>
        /\ Rising(Lines) /\ UpTo(Lines, Newest)
        /\ \A n \in Present : Before(archives[n], Lines)

ReaderOrdered ==
    reader # None =>
        /\ up = TRUE /\ reader \in Seq(Line)
        /\ Rising(reader) /\ UpTo(reader, Newest) /\ Before(reader, Lines)

OrderInv ==
    InFlightLast /\ ArchivesOrdered /\ FileOrdered /\ ReaderOrdered /\ EventsOrdered

-----------------------------------------------------------------------------
(* Sequences of files one after the other.                                 *)

\* Every set of naturals that has an element has a least one.
LEMMA LeastNatural ==
    ASSUME NEW T, T \subseteq Nat, T # {}
    PROVE  \E n \in T : \A m \in T : n <= m
<1>1. PICK i \in T : \A j \in T : ~(<<j, i>> \in OpToRel(<, Nat))
  BY NatLessThanWellFounded, WFMin, Zenon, ZenonT(120)
<1>2. \A j \in T : ~(j < i)
  BY <1>1, Zenon, ZenonT(120) DEF OpToRel
<1> QED
  BY <1>2

\* The lines of the first i files, when before are those of the first i - 1.
NextJoin(files, before, i) == IF i = 0 THEN <<>> ELSE before \o files[i]

\* f holds the lines of no file, of the first one, up to the first n.
IsJoin(f, files, n) == f = [i \in 0..n |-> NextJoin(files, f[i - 1], i)]

\* Any number of files has its lines.
LEMMA JoinExists ==
    ASSUME NEW files, NEW n \in Nat
    PROVE  \E f : IsJoin(f, files, n)
<1> DEFINE T == {m \in Nat : ~\E f : IsJoin(f, files, m)}
<1> SUFFICES ASSUME T # {} PROVE FALSE
  OBVIOUS
<1>1. PICK m \in T : \A k \in T : m <= k
  BY LeastNatural, Zenon, ZenonT(120)
<1>2. CASE m = 0
  <2> DEFINE g == [i \in 0..0 |-> <<>>]
  <2>1. \A i \in 0..0 : NextJoin(files, g[i - 1], i) = <<>>
    BY DEF NextJoin
  <2>2. IsJoin(g, files, 0)
    BY <2>1, Zenon, ZenonT(120) DEF IsJoin
  <2> QED
    BY <1>1, <1>2, <2>2, Zenon, ZenonT(120)
<1>3. CASE m # 0
  <2>1. m \in Nat /\ m - 1 \in Nat /\ m - 1 \notin T
    BY <1>1, <1>3
  <2>2. PICK g : IsJoin(g, files, m - 1)
    BY <2>1
  <2>3. \A i \in 0..m - 1 : g[i] = NextJoin(files, g[i - 1], i)
    BY <2>2, Zenon, ZenonT(120) DEF IsJoin
  <2> DEFINE h == [i \in 0..m |-> NextJoin(files, g[i - 1], i)]
  <2>4. \A i \in 0..m : h[i] = NextJoin(files, g[i - 1], i)
    OBVIOUS
  <2>5. \A i \in 0..m - 1 : h[i] = g[i]
    BY <2>1, <2>3, <2>4
  <2>6. ASSUME NEW i \in 0..m
        PROVE  NextJoin(files, g[i - 1], i) = NextJoin(files, h[i - 1], i)
    <3>1. CASE i = 0
      BY <3>1, Zenon, ZenonT(120) DEF NextJoin
    <3>2. CASE i # 0
      <4>1. i - 1 \in 0..m - 1
        BY <2>1, <3>2
      <4> QED
        BY <2>5, <4>1, Zenon, ZenonT(120)
    <3> QED
      BY <3>1, <3>2
  <2> HIDE DEF h
  <2>7. [i \in 0..m |-> NextJoin(files, g[i - 1], i)]
            = [i \in 0..m |-> NextJoin(files, h[i - 1], i)]
    BY <2>6, Zenon, ZenonT(120)
  <2>8. IsJoin(h, files, m)
    BY <2>7, Zenon, ZenonT(120) DEF h, IsJoin
  <2> QED
    BY <1>1, <2>8, Zenon, ZenonT(120)
<1> QED
  BY <1>2, <1>3

\* Joined ends with the lines of all the files.
LEMMA JoinedIs ==
    ASSUME NEW files, Len(files) \in Nat
    PROVE  \E f : IsJoin(f, files, Len(files)) /\ Joined(files) = f[Len(files)]
<1>1. Joined(files) = (CHOOSE f : IsJoin(f, files, Len(files)))[Len(files)]
  BY DEF Joined, IsJoin, NextJoin
<1> QED
  BY <1>1, JoinExists, Zenon, ZenonT(120)

\* Every line of lines is a line of one of the first n files.
From(lines, files, n) ==
    \A k \in 1..Len(lines) :
        \E m \in 1..n : \E j \in 1..Len(files[m]) : lines[k] = files[m][j]

\* Two sequences of lines one after the other.
LEMMA ConcatLines ==
    ASSUME NEW a \in Seq(Line), NEW b \in Seq(Line)
    PROVE  /\ a \o b \in Seq(Line) /\ Len(a) \in Nat /\ Len(b) \in Nat
           /\ Len(a \o b) = Len(a) + Len(b)
           /\ \A i \in 1..Len(a) : (a \o b)[i] = a[i]
           /\ \A i \in 1..Len(a \o b) :
                 i \notin 1..Len(a) =>
                     i - Len(a) \in 1..Len(b) /\ (a \o b)[i] = b[i - Len(a)]
OBVIOUS

\* Hashes are times.
LEMMA HashType ==
    ASSUME NEW a \in Seq(Line), NEW i \in 1..Len(a)
    PROVE  a[i].hash \in Nat
<1>1. a[i] \in Line
  OBVIOUS
<1> QED
  BY <1>1 DEF Line

\* Rising lines stay rising behind older rising lines.
LEMMA ConcatRising ==
    ASSUME NEW a \in Seq(Line), NEW b \in Seq(Line), Rising(a), Rising(b), Before(a, b)
    PROVE  Rising(a \o b)
<1> DEFINE c == a \o b
<1> SUFFICES ASSUME NEW i \in 1..Len(c), NEW j \in 1..Len(c), i < j
             PROVE  c[i].hash < c[j].hash
  BY Zenon, ZenonT(120) DEF Rising
<1>1. /\ Len(a) \in Nat /\ Len(b) \in Nat /\ Len(c) = Len(a) + Len(b)
      /\ \A k \in 1..Len(a) : c[k] = a[k]
      /\ \A k \in 1..Len(c) :
            k \notin 1..Len(a) => k - Len(a) \in 1..Len(b) /\ c[k] = b[k - Len(a)]
  BY ConcatLines, Zenon, ZenonT(120)
<1> HIDE DEF c
<1>2. CASE j \in 1..Len(a)
  <2>1. i \in 1..Len(a)
    BY <1>1, <1>2
  <2> QED
    BY <1>1, <1>2, <2>1 DEF Rising
<1>3. CASE i \in 1..Len(a) /\ j \notin 1..Len(a)
  BY <1>1, <1>3 DEF Before
<1>4. CASE i \notin 1..Len(a) /\ j \notin 1..Len(a)
  <2>1. i - Len(a) < j - Len(a)
    BY <1>1
  <2> QED
    BY <1>1, <1>4, <2>1, Zenon, ZenonT(120) DEF Rising
<1> QED
  BY <1>2, <1>3, <1>4

\* Rising files, each older than the next ones, make rising lines.
LEMMA JoinedRising ==
    ASSUME NEW files \in Seq(Seq(Line)),
           \A n \in 1..Len(files) : Rising(files[n]),
           \A m, n \in 1..Len(files) : m < n => Before(files[m], files[n])
    PROVE  /\ Joined(files) \in Seq(Line) /\ Rising(Joined(files))
           /\ From(Joined(files), files, Len(files))
<1>1. Len(files) \in Nat /\ Len(files) \in 0..Len(files)
  OBVIOUS
<1>2. PICK f : IsJoin(f, files, Len(files)) /\ Joined(files) = f[Len(files)]
  BY <1>1, JoinedIs
<1>3. \A i \in 0..Len(files) : f[i] = NextJoin(files, f[i - 1], i)
  BY <1>2, Zenon, ZenonT(120) DEF IsJoin
<1> DEFINE Good(i) == f[i] \in Seq(Line) /\ Rising(f[i]) /\ From(f[i], files, i)
           T == {i \in 0..Len(files) : ~Good(i)}
<1> HIDE DEF Good
<1> SUFFICES ASSUME T # {} PROVE FALSE
  BY <1>1, <1>2 DEF Good
<1>4. PICK i \in T : \A j \in T : i <= j
  <2>1. T \subseteq Nat
    OBVIOUS
  <2> QED
    BY <2>1, LeastNatural, Zenon, ZenonT(120)
<1>5. i \in 0..Len(files) /\ ~Good(i)
  BY <1>4
<1>6. CASE i = 0
  <2>1. f[0] = <<>>
    BY <1>3, <1>5, <1>6, Zenon, ZenonT(120) DEF NextJoin
  <2>2. <<>> \in Seq(Line) /\ Rising(<<>>) /\ From(<<>>, files, 0)
    BY DEF Rising, From
  <2> QED
    BY <1>5, <1>6, <2>1, <2>2, Zenon, ZenonT(120) DEF Good
<1>7. CASE i # 0
  <2>0. i \in 1..Len(files) /\ files[i] \in Seq(Line) /\ Rising(files[i])
    BY <1>1, <1>5, <1>7
  <2>1. i - 1 \in 0..Len(files) /\ i - 1 \notin T
    BY <1>1, <1>4, <1>5, <1>7
  <2>2. f[i - 1] \in Seq(Line) /\ Rising(f[i - 1]) /\ From(f[i - 1], files, i - 1)
    BY <2>1 DEF Good
  <2>3. f[i] = f[i - 1] \o files[i]
    BY <1>3, <1>5, <1>7, Zenon, ZenonT(120) DEF NextJoin
  <2>4. Before(f[i - 1], files[i])
    <3> SUFFICES ASSUME NEW k \in 1..Len(f[i - 1]), NEW l \in 1..Len(files[i])
                 PROVE  f[i - 1][k].hash < files[i][l].hash
      BY Zenon, ZenonT(120) DEF Before
    <3>1. PICK m \in 1..(i - 1) : \E j \in 1..Len(files[m]) : f[i - 1][k] = files[m][j]
      BY <2>2, Zenon, ZenonT(120) DEF From
    <3>2. m \in 1..Len(files) /\ m < i
      BY <1>1, <2>0, <3>1
    <3>3. Before(files[m], files[i])
      BY <2>0, <3>2
    <3> QED
      BY <3>1, <3>3 DEF Before
  <2>5. Rising(f[i]) /\ f[i] \in Seq(Line)
    BY <2>0, <2>2, <2>3, <2>4, ConcatRising, ConcatLines
  <2>6. From(f[i], files, i)
    <3> SUFFICES ASSUME NEW k \in 1..Len(f[i])
                 PROVE  \E m \in 1..i : \E j \in 1..Len(files[m]) : f[i][k] = files[m][j]
      BY Zenon, ZenonT(120) DEF From
    <3>1. CASE k \in 1..Len(f[i - 1])
      <4>1. f[i][k] = f[i - 1][k]
        BY <2>0, <2>2, <2>3, <3>1, ConcatLines
      <4>2. PICK m \in 1..(i - 1) : \E j \in 1..Len(files[m]) : f[i - 1][k] = files[m][j]
        BY <2>2, <3>1, Zenon, ZenonT(120) DEF From
      <4>3. m \in 1..i
        BY <2>0, <4>2
      <4> QED
        BY <4>1, <4>2, <4>3
    <3>2. CASE k \notin 1..Len(f[i - 1])
      <4> DEFINE c == f[i - 1] \o files[i]
      <4>0. \A l \in 1..Len(c) :
               l \notin 1..Len(f[i - 1]) =>
                   /\ l - Len(f[i - 1]) \in 1..Len(files[i])
                   /\ c[l] = files[i][l - Len(f[i - 1])]
        BY <2>0, <2>2, ConcatLines, Zenon, ZenonT(120)
      <4> HIDE DEF c
      <4>1. k - Len(f[i - 1]) \in 1..Len(files[i]) /\ f[i][k] = files[i][k - Len(f[i - 1])]
        BY <2>3, <3>2, <4>0, Zenon, ZenonT(120) DEF c
      <4>2. i \in 1..i
        BY <2>0
      <4> QED
        BY <4>1, <4>2
    <3> QED
      BY <3>1, <3>2
  <2> QED
    BY <2>0, <2>5, <2>6 DEF Good
<1> QED
  BY <1>6, <1>7

-----------------------------------------------------------------------------
(* What a step does to the order.                                          *)

\* What is up to a time is up to every later one.
LEMMA UpToLater ==
    ASSUME NEW lines \in Seq(Line), NEW m \in Int, NEW n \in Int, m <= n, UpTo(lines, m)
    PROVE  UpTo(lines, n)
<1> SUFFICES ASSUME NEW i \in 1..Len(lines) PROVE lines[i].hash <= n
  BY Zenon, ZenonT(120) DEF UpTo
<1>1. lines[i].hash \in Nat /\ lines[i].hash <= m
  BY HashType DEF UpTo
<1> QED
  BY <1>1

\* A line younger than all others keeps the order.
LEMMA AppendOrdered ==
    ASSUME NEW lines \in Seq(Line), NEW line \in Line, NEW m \in Int, NEW n \in Int,
           Rising(lines), UpTo(lines, m), m < line.hash, line.hash <= n
    PROVE  /\ Rising(Append(lines, line)) /\ UpTo(Append(lines, line), n)
           /\ \A a \in Seq(Line) :
                 UpTo(a, m) /\ Before(a, lines) => Before(a, Append(lines, line))
<1> DEFINE longer == Append(lines, line)
<1>1. /\ Len(lines) \in Nat /\ Len(longer) = Len(lines) + 1 /\ longer[Len(lines) + 1] = line
      /\ \A i \in 1..Len(lines) : longer[i] = lines[i]
  OBVIOUS
<1> HIDE DEF longer
<1>2. line.hash \in Nat
  BY DEF Line
<1>3. \A i \in 1..Len(longer) : i \in 1..Len(lines) \/ i = Len(lines) + 1
  BY <1>1
<1>4. \A i \in 1..Len(lines) : lines[i].hash \in Nat /\ lines[i].hash <= m
  BY HashType DEF UpTo
<1>5. Rising(longer)
  <2> SUFFICES ASSUME NEW i \in 1..Len(longer), NEW j \in 1..Len(longer), i < j
               PROVE  longer[i].hash < longer[j].hash
    BY Zenon, ZenonT(120) DEF Rising
  <2>1. i \in 1..Len(lines)
    BY <1>1
  <2>2. CASE j \in 1..Len(lines)
    BY <1>1, <2>1, <2>2 DEF Rising
  <2>3. CASE j = Len(lines) + 1
    BY <1>1, <1>2, <1>4, <2>1, <2>3
  <2> QED
    BY <1>3, <2>2, <2>3
<1>6. UpTo(longer, n)
  BY <1>1, <1>2, <1>3, <1>4 DEF UpTo
<1>7. ASSUME NEW a \in Seq(Line), UpTo(a, m), Before(a, lines)
      PROVE  Before(a, longer)
  <2> SUFFICES ASSUME NEW i \in 1..Len(a), NEW j \in 1..Len(longer)
               PROVE  a[i].hash < longer[j].hash
    BY Zenon, ZenonT(120) DEF Before
  <2>1. a[i].hash \in Nat /\ a[i].hash <= m
    BY <1>7, HashType DEF UpTo
  <2>2. CASE j \in 1..Len(lines)
    BY <1>1, <1>7, <2>2 DEF Before
  <2>3. CASE j = Len(lines) + 1
    BY <1>1, <1>2, <2>1, <2>3
  <2> QED
    BY <1>3, <2>2, <2>3
<1> QED
  BY <1>5, <1>6, <1>7, Zenon, ZenonT(120) DEF longer

\* With one appender, the youngest line in a file.
LEMMA NewestIs ==
    ASSUME OneAppender, NEW t \in Appenders
    PROVE  /\ Newest = IF pc[t] = "write" THEN now - 1 ELSE now
           /\ Newest' = IF pc'[t] = "write" THEN now' - 1 ELSE now'
<1>1. \A s \in Appenders : s = t
  BY DEF OneAppender
<1> QED
  BY <1>1 DEF Newest

\* An archive is a sequence of lines.
LEMMA ArchiveType ==
    ASSUME AuditTypeOK, NEW n \in Present
    PROVE  archives[n] \in Seq(Line)
BY DEF AuditTypeOK, Present

\* The archives keep their order while they are the same.
LEMMA ArchivesKept ==
    ASSUME AuditTypeOK, ArchivesOrdered, archives' = archives,
           Newest \in Int, Newest' \in Int, Newest <= Newest'
    PROVE  ArchivesOrdered'
<1>1. Present' = Present
  BY DEF Present
<1>2. \A n \in Present : UpTo(archives[n], Newest')
  <2> SUFFICES ASSUME NEW n \in Present PROVE UpTo(archives[n], Newest')
    OBVIOUS
  <2>1. archives[n] \in Seq(Line) /\ UpTo(archives[n], Newest)
    BY ArchiveType DEF ArchivesOrdered
  <2> QED
    BY <2>1, UpToLater, Zenon, ZenonT(120)
<1> QED
  BY <1>1, <1>2, Zenon, ZenonT(120) DEF ArchivesOrdered

\* A step that leaves the lines alone.
LEMMA OrderKept ==
    ASSUME AuditTypeOK, ArchivesOrdered, FileOrdered, ReaderOrdered,
           Lines' = Lines, archives' = archives, reader' = reader, up' = up,
           Newest \in Int, Newest' \in Int, Newest <= Newest'
    PROVE  ArchivesOrdered' /\ FileOrdered' /\ ReaderOrdered'
<1>1. Present' = Present
  BY DEF Present
<1>2. Verifies(Lines') => UpTo(Lines', Newest')
  BY LinesType, UpToLater DEF FileOrdered
<1>3. reader # None => UpTo(reader, Newest')
  BY UpToLater DEF ReaderOrdered
<1>4. FileOrdered'
  BY <1>1, <1>2, Zenon, ZenonT(120) DEF FileOrdered
<1>5. ReaderOrdered'
  BY <1>3, Zenon, ZenonT(120) DEF ReaderOrdered
<1> QED
  BY <1>4, <1>5, ArchivesKept

\* A step that adds a line younger than all others to a file that verifies.
LEMMA OrderAdded ==
    ASSUME AuditTypeOK, ArchivesOrdered, FileOrdered, Verifies(Lines),
           NEW line \in Line, Lines' = Append(Lines, line), archives' = archives,
           Newest \in Int, Newest' \in Int, Newest < line.hash, line.hash <= Newest'
    PROVE  /\ ArchivesOrdered' /\ FileOrdered'
           /\ ReaderOrdered /\ reader' = reader /\ up' = up => ReaderOrdered'
<1>1. Present' = Present /\ Lines \in Seq(Line) /\ line.hash \in Nat
  BY LinesType DEF Present, Line
<1>2. Newest <= Newest'
  BY <1>1
<1>3. Rising(Lines) /\ UpTo(Lines, Newest) /\ \A n \in Present : Before(archives[n], Lines)
  BY DEF FileOrdered
<1>4. /\ Rising(Lines') /\ UpTo(Lines', Newest')
      /\ \A a \in Seq(Line) : UpTo(a, Newest) /\ Before(a, Lines) => Before(a, Lines')
  BY <1>1, <1>3, AppendOrdered, Zenon, ZenonT(120)
<1>5. \A n \in Present : archives[n] \in Seq(Line) /\ UpTo(archives[n], Newest)
  BY ArchiveType DEF ArchivesOrdered
<1>6. \A n \in Present : Before(archives[n], Lines')
  BY <1>3, <1>4, <1>5, Zenon, ZenonT(120)
<1>7. FileOrdered'
  BY <1>1, <1>4, <1>6, Zenon, ZenonT(120) DEF FileOrdered
<1>8. ASSUME ReaderOrdered, reader' = reader, up' = up PROVE ReaderOrdered'
  <2>1. reader # None => UpTo(reader, Newest')
    BY <1>2, <1>8, UpToLater DEF ReaderOrdered
  <2>2. reader # None => Before(reader, Lines')
    BY <1>4, <1>8, Zenon, ZenonT(120) DEF ReaderOrdered
  <2> QED
    BY <1>8, <2>1, <2>2, Zenon, ZenonT(120) DEF ReaderOrdered
<1> QED
  BY <1>2, <1>7, <1>8, ArchivesKept

\* What GET /events collects from the archives is in order and older than the file.
LEMMA ArchivedOrdered ==
    ASSUME AuditTypeOK, ArchivesOrdered, FileOrdered, Verifies(Lines), Newest \in Int
    PROVE  /\ Archived \in Seq(Line) /\ Rising(Archived)
           /\ UpTo(Archived, Newest) /\ Before(Archived, Lines)
<1> DEFINE files == [n \in Archives |-> IF n \in Present THEN archives[n] ELSE <<>>]
<1>1. MaxTime \in Nat /\ Archives = 1..MaxTime
  BY AuditAssumption DEF Archives
<1>2. \A n \in Present : archives[n] \in Seq(Line)
  BY ArchiveType
<1>3. files \in [1..MaxTime -> Seq(Line)]
  BY <1>1, <1>2
<1>4. files \in Seq(Seq(Line)) /\ Len(files) = MaxTime
  BY <1>1, <1>3
<1>5. \A n \in 1..MaxTime : files[n] = IF n \in Present THEN archives[n] ELSE <<>>
  BY <1>1
<1>6. Archived = Joined(files)
  BY DEF Archived
<1> HIDE DEF files
<1>7. \A n \in 1..MaxTime : Rising(files[n])
  <2>1. Rising(<<>>)
    BY DEF Rising
  <2> QED
    BY <1>5, <2>1 DEF ArchivesOrdered
<1>8. \A m, n \in 1..MaxTime : m < n => Before(files[m], files[n])
  <2>1. \A a : Before(<<>>, a) /\ Before(a, <<>>)
    BY DEF Before
  <2> QED
    BY <1>5, <2>1 DEF ArchivesOrdered
<1>9. Archived \in Seq(Line) /\ Rising(Archived) /\ From(Archived, files, MaxTime)
  BY <1>4, <1>6, <1>7, <1>8, JoinedRising
<1>10. \A k \in 1..Len(Archived) :
          \E m \in Present : \E j \in 1..Len(archives[m]) : Archived[k] = archives[m][j]
  <2> SUFFICES ASSUME NEW k \in 1..Len(Archived)
               PROVE  \E m \in Present : \E j \in 1..Len(archives[m]) :
                          Archived[k] = archives[m][j]
    OBVIOUS
  <2>1. PICK m \in 1..MaxTime : \E j \in 1..Len(files[m]) : Archived[k] = files[m][j]
    BY <1>9, Zenon, ZenonT(120) DEF From
  <2>2. m \in Present
    BY <1>5, <2>1
  <2> QED
    BY <1>5, <2>1, <2>2
<1>11. UpTo(Archived, Newest)
  BY <1>10 DEF ArchivesOrdered, UpTo
<1>12. Before(Archived, Lines)
  BY <1>10 DEF FileOrdered, Before
<1> QED
  BY <1>9, <1>11, <1>12

-----------------------------------------------------------------------------
(* The order is kept.                                                      *)

\* A step of append that makes and writes no line.
LEMMA QuietOrdered ==
    ASSUME AuditInv, OrderInv, OneAppender, NEW t \in Appenders,
           pc[t] # "write", pc'[t] # "write", Lines' = Lines,
           UNCHANGED <<up, archives, now, reader, response>>
    PROVE  OrderInv'
<1>1. Newest = now /\ Newest' = now /\ now \in Nat /\ AuditTypeOK
  BY NewestIs DEF AuditInv, AuditTypeOK
<1>2. Newest \in Int /\ Newest' \in Int /\ Newest <= Newest'
  BY <1>1
<1>3. ArchivesOrdered' /\ FileOrdered' /\ ReaderOrdered'
  BY <1>1, <1>2, OrderKept DEF OrderInv
<1>4. InFlightLast'
  BY DEF InFlightLast, OneAppender
<1>5. EventsOrdered'
  BY DEF OrderInv, EventsOrdered
<1> QED
  BY <1>3, <1>4, <1>5 DEF OrderInv

\* The steps of append before its line, and its return.
LEMMA QuietSteps ==
    ASSUME AuditInv, OrderInv, OneAppender, NEW t \in Appenders,
           Start(t) \/ Rotate(t) \/ Touch(t) \/ BoundaryDone(t) \/ Done(t)
    PROVE  OrderInv'
<1>1. pc \in [Appenders -> Labels] /\ Lines \in Seq(Line)
  BY LinesType DEF AuditInv, AuditTypeOK
<1>2. pc[t] # "write" /\ pc'[t] # "write"
  BY <1>1 DEF Start, Rotate, Touch, BoundaryDone, Done, Step
<1>3. UNCHANGED <<up, archives, now, reader, response>>
  BY DEF Start, Rotate, Touch, BoundaryDone, Done
<1>4. file' = file \/ file' = Lines
  BY DEF Start, Rotate, Touch, BoundaryDone, Done
<1>5. Lines' = Lines
  BY <1>1, <1>4, NoFileAssumption DEF Lines
<1> QED
  BY <1>2, <1>3, <1>5, QuietOrdered

\* The new archive holds what is younger than every other archive.
LEMMA RenameOrdered ==
    ASSUME AuditInv, OrderInv, OneAppender, NEW t \in Appenders, Rename(t)
    PROVE  OrderInv'
<1> DEFINE to == IF file = None THEN "idle" ELSE "touch"
<1>1. Step(t, "rename", to) /\ to \in Labels /\ to # "write"
  BY DEF Rename, Labels
<1> HIDE DEF to
<1>2. /\ up = TRUE /\ pc[t] = "rename" /\ pc'[t] = to
      /\ Progress(t) /\ Verifies(Lines) /\ Lines \in Seq(Line)
      /\ now \in Nat /\ MaxTime \in Nat /\ Made \in Nat
  BY <1>1, Stepping, Zenon, ZenonT(120)
<1>3. file # None /\ local[t].archived_to = Made + 1 /\ Made + 1 <= MaxTime
  BY <1>2 DEF Progress
<1>4. /\ Lines = file /\ archives' = [archives EXCEPT ![Made + 1] = file] /\ file' = None
      /\ UNCHANGED <<up, now, reader, response>>
  BY <1>3 DEF Rename, Lines
<1>5. /\ archives \in [Archives -> Seq(Line) \cup {None}] /\ Made + 1 \in Archives
      /\ Present = 1..Made
  BY <1>2, <1>3 DEF AuditInv, AuditTypeOK, Numbered, Archives
<1>6. /\ archives'[Made + 1] = Lines
      /\ \A n \in Present : n \in Archives /\ n # Made + 1 /\ n < Made + 1
                            /\ archives'[n] = archives[n]
  BY <1>2, <1>4, <1>5 DEF Archives, Present
<1>7. Present' = Present \cup {Made + 1}
  BY <1>3, <1>4, <1>5 DEF Present
<1>8. Newest = now /\ Newest' = now
  BY <1>1, <1>2, <1>4, NewestIs
<1>9. ArchivesOrdered'
  <2>1. ASSUME NEW n \in Present'
        PROVE  /\ Rising(archives'[n]) /\ UpTo(archives'[n], Newest')
               /\ \A m \in Present' : n < m => Before(archives'[n], archives'[m])
    <3>1. CASE n \in Present
      <4>1. Rising(archives'[n]) /\ UpTo(archives'[n], Newest')
        BY <1>6, <1>8, <3>1 DEF OrderInv, ArchivesOrdered
      <4>2. ASSUME NEW m \in Present, n < m PROVE Before(archives'[n], archives'[m])
        BY <1>6, <3>1, <4>2 DEF OrderInv, ArchivesOrdered
      <4>3. Before(archives'[n], archives'[Made + 1])
        BY <1>2, <1>6, <3>1 DEF OrderInv, FileOrdered
      <4> QED
        BY <1>7, <4>1, <4>2, <4>3
    <3>2. CASE n = Made + 1
      <4>1. Rising(archives'[n]) /\ UpTo(archives'[n], Newest')
        BY <1>2, <1>6, <1>8, <3>2 DEF OrderInv, FileOrdered
      <4>2. \A m \in Present' : ~(n < m)
        BY <1>2, <1>5, <1>7, <3>2
      <4> QED
        BY <4>1, <4>2
    <3> QED
      BY <1>7, <3>1, <3>2
  <2> QED
    BY <2>1, Zenon, ZenonT(120) DEF ArchivesOrdered
<1>10. Lines' = <<>>
  BY <1>4 DEF Lines
<1>11. FileOrdered'
  BY <1>10 DEF FileOrdered, Rising, UpTo, Before
<1>12. ReaderOrdered'
  <2>1. \A a : Before(a, <<>>)
    BY DEF Before
  <2> QED
    BY <1>4, <1>8, <1>10, <2>1 DEF OrderInv, ReaderOrdered
<1>13. InFlightLast'
  BY <1>1, <1>2 DEF InFlightLast, OneAppender
<1>14. EventsOrdered'
  BY <1>4 DEF OrderInv, EventsOrdered
<1> QED
  BY <1>9, <1>11, <1>12, <1>13, <1>14 DEF OrderInv

\* The new line is younger than every line written.
LEMMA BodyOrdered ==
    ASSUME AuditInv, OrderInv, OneAppender, NEW t \in Appenders, Body(t)
    PROVE  OrderInv'
<1>1. /\ pc[t] = "body" /\ pc' = [pc EXCEPT ![t] = "write"] /\ now' = now + 1
      /\ local' = [local EXCEPT ![t] = InBody(now + 1, _last_hash)]
      /\ UNCHANGED <<up, file, archives, reader, response>>
  BY DEF Body, Step, InBody
<1>2. /\ now \in Nat /\ _last_hash \in Nat /\ AuditTypeOK
      /\ pc \in [Appenders -> Labels] /\ local \in [Appenders -> Locals]
  BY DEF AuditInv, AuditTypeOK
<1>3. Newest = now /\ Newest' = now
  BY <1>1, <1>2, NewestIs
<1>4. Newest \in Int /\ Newest' \in Int /\ Newest <= Newest' /\ Lines' = Lines
  BY <1>1, <1>2, <1>3 DEF Lines
<1>5. ArchivesOrdered' /\ FileOrdered' /\ ReaderOrdered'
  BY <1>1, <1>2, <1>4, OrderKept DEF OrderInv
<1>6. InFlightLast'
  <2>1. now + 1 \in Nat
    BY <1>2
  <2>2. InBody(now + 1, _last_hash).hash = now + 1
    BY <1>2, <2>1, NewLocals
  <2> QED
    BY <1>1, <1>2, <2>2 DEF InFlightLast, OneAppender
<1>7. EventsOrdered'
  BY <1>1 DEF OrderInv, EventsOrdered
<1> QED
  BY <1>5, <1>6, <1>7 DEF OrderInv

\* The line goes to the end of the file.
LEMMA WriteOrdered ==
    ASSUME AuditInv, OrderInv, OneAppender, NEW t \in Appenders, Write(t)
    PROVE  OrderInv'
<1> DEFINE line == Entry("event", local[t])
<1>1. Step(t, "write", "done") /\ "done" \in Labels
  BY DEF Write, Labels
<1>2. /\ pc[t] = "write" /\ pc'[t] = "done" /\ Verifies(Lines) /\ Ended(Lines)
      /\ Lines \in Seq(Line) /\ local[t] \in Locals /\ now \in Nat /\ AuditTypeOK
  BY <1>1, Stepping, Zenon, ZenonT(120) DEF AuditInv
<1>3. file' = Added(Lines, line) /\ UNCHANGED <<up, archives, now, reader, response>>
  BY DEF Write
<1>4. line \in Line /\ line.hash = now
  <2>1. line \in Line /\ line.hash = local[t].hash
    BY <1>2, LineTypes, Zenon, ZenonT(120)
  <2> QED
    BY <1>2, <2>1 DEF OrderInv, InFlightLast
<1> HIDE DEF line
<1>5. Lines' = Append(Lines, line)
  <2>1. Lines' = Added(Lines, line)
    BY <1>2, <1>3, <1>4, FileAdded DEF AuditInv
  <2> QED
    BY <1>2, <1>4, <2>1, AddedAtEnd, Zenon, ZenonT(120)
<1>6. Newest = now - 1 /\ Newest' = now
  BY <1>2, <1>3, NewestIs
<1>7. Newest \in Int /\ Newest' \in Int /\ Newest < line.hash /\ line.hash <= Newest'
  BY <1>2, <1>4, <1>6
<1>8. ArchivesOrdered' /\ FileOrdered' /\ ReaderOrdered'
  BY <1>2, <1>3, <1>4, <1>5, <1>7, OrderAdded DEF OrderInv
<1>9. InFlightLast'
  BY <1>2 DEF InFlightLast, OneAppender
<1>10. EventsOrdered'
  BY <1>3 DEF OrderInv, EventsOrdered
<1> QED
  BY <1>8, <1>9, <1>10 DEF OrderInv

\* So does a boundary entry, whose time is later than every other.
LEMMA BoundaryOrdered ==
    ASSUME AuditInv, OrderInv, OneAppender, NEW t \in Appenders, Boundary(t)
    PROVE  OrderInv'
<1> DEFINE l == InBoundary(local[t], now + 1, _last_hash)
           line == Entry("boundary", l)
<1>1. Step(t, "boundary", "boundary_done") /\ "boundary_done" \in Labels
  BY DEF Boundary, Labels
<1>2. /\ pc[t] = "boundary" /\ pc'[t] = "boundary_done" /\ Verifies(Lines) /\ Ended(Lines)
      /\ Lines \in Seq(Line) /\ local[t] \in Locals /\ now \in Nat /\ now + 1 \in Nat
      /\ _last_hash \in Nat /\ AuditTypeOK
  BY <1>1, Stepping, Zenon, ZenonT(120) DEF AuditInv
<1>3. /\ now' = now + 1 /\ local' = [local EXCEPT ![t] = l]
      /\ file' = Added(Lines, Entry("boundary", local'[t]))
      /\ UNCHANGED <<up, archives, reader, response>>
  BY Zenon, ZenonT(120) DEF Boundary, InBoundary
<1>4. l \in Locals /\ l.hash = now + 1
  BY <1>2, BoundaryLocals, Zenon, ZenonT(120)
<1>5. local'[t] = l
  BY <1>3 DEF AuditInv, AuditTypeOK
<1>6. line \in Line /\ line.hash = now + 1
  BY <1>4, LineTypes, Zenon, ZenonT(120)
<1>7. file' = Added(Lines, line)
  BY <1>3, <1>5
<1> HIDE DEF line, l
<1>8. Lines' = Append(Lines, line)
  <2>1. Lines' = Added(Lines, line)
    BY <1>2, <1>6, <1>7, FileAdded DEF AuditInv
  <2> QED
    BY <1>2, <1>6, <2>1, AddedAtEnd, Zenon, ZenonT(120)
<1>9. Newest = now /\ Newest' = now + 1
  BY <1>2, <1>3, NewestIs
<1>10. Newest \in Int /\ Newest' \in Int /\ Newest < line.hash /\ line.hash <= Newest'
  BY <1>2, <1>6, <1>9
<1>11. ArchivesOrdered' /\ FileOrdered' /\ ReaderOrdered'
  BY <1>2, <1>3, <1>6, <1>8, <1>10, OrderAdded DEF OrderInv
<1>12. InFlightLast'
  BY <1>2 DEF InFlightLast, OneAppender
<1>13. EventsOrdered'
  BY <1>3 DEF OrderInv, EventsOrdered
<1> QED
  BY <1>11, <1>12, <1>13 DEF OrderInv

\* The line a crash cuts into is younger than every line written.
LEMMA InFlightHash ==
    ASSUME AuditInv, InFlightLast, NEW t \in Appenders, pc[t] \in {"write", "boundary"}
    PROVE  InFlight(t).hash = IF pc[t] = "write" THEN now ELSE now + 1
<1>1. local[t] \in Locals /\ now + 1 \in Nat /\ _last_hash \in Nat
  BY DEF AuditInv, AuditTypeOK
<1>2. CASE pc[t] = "write"
  <2>1. InFlight(t) = Entry("event", local[t])
    BY <1>2 DEF InFlight
  <2> QED
    BY <1>1, <1>2, <2>1, LineTypes, Zenon, ZenonT(120) DEF InFlightLast
<1>3. CASE pc[t] = "boundary"
  <2>1. InFlight(t) = Entry("boundary", InBoundary(local[t], now + 1, _last_hash))
    BY <1>3 DEF InFlight, InBoundary
  <2>2. /\ InBoundary(local[t], now + 1, _last_hash) \in Locals
        /\ InBoundary(local[t], now + 1, _last_hash).hash = now + 1
    BY <1>1, BoundaryLocals, Zenon, ZenonT(120)
  <2> QED
    BY <1>3, <2>1, <2>2, LineTypes, Zenon, ZenonT(120)
<1> QED
  BY <1>2, <1>3

\* A crash loses the request, and leaves a file in order or one that does not verify.
LEMMA CrashOrdered ==
    ASSUME AuditInv, OrderInv, OneAppender, LostNewline = FALSE, Crash
    PROVE  OrderInv'
<1>1. /\ up = TRUE /\ pc' = [t \in Appenders |-> "idle"]
      /\ archives' = archives /\ reader' = None /\ response' = None
  BY DEF Crash, AuditInv, AuditTypeOK
<1>2. /\ now \in Nat /\ Lines \in Seq(Line) /\ Verifies(Lines) /\ Ended(Lines) /\ AuditTypeOK
  BY <1>1, LinesType DEF AuditInv, AuditTypeOK, FileInv
<1>3. now' \in Nat /\ now' >= now
  BY <1>2 DEF Crash
<1>4. Newest' = now' /\ (Newest = now \/ Newest = now - 1)
  BY <1>1 DEF Newest
<1>5. Newest \in Int /\ Newest' \in Int /\ Newest <= Newest'
  BY <1>2, <1>3, <1>4
<1>6. InFlightLast' /\ ReaderOrdered' /\ EventsOrdered'
  BY <1>1 DEF InFlightLast, ReaderOrdered, EventsOrdered
<1>7. ArchivesOrdered' /\ Present' = Present
  BY <1>1, <1>2, <1>5, ArchivesKept DEF OrderInv, Present
<1>8. CASE Lines' = Lines
  <2>1. UpTo(Lines, Newest')
    BY <1>2, <1>5, UpToLater DEF OrderInv, FileOrdered
  <2>2. FileOrdered'
    BY <1>1, <1>2, <1>7, <1>8, <2>1, Zenon, ZenonT(120) DEF OrderInv, FileOrdered
  <2> QED
    BY <1>6, <1>7, <2>2 DEF OrderInv
<1>9. CASE file' = file
  BY <1>8, <1>9 DEF Lines
<1>10. ASSUME NEW t \in Appenders, pc[t] \in {"write", "boundary"}, file' \in Cut(InFlight(t))
       PROVE  OrderInv'
  <2> DEFINE line == InFlight(t)
             torn == Torn(FALSE)
  <2>1. line \in Line /\ line.hash = IF pc[t] = "write" THEN now ELSE now + 1
    BY <1>1, <1>10, InFlightLine, InFlightHash, Zenon, ZenonT(120) DEF OrderInv
  <2>2. torn \in Line /\ torn.kind = "torn"
    BY DEF Torn, Line
  <2>3. file' \in {Lines, Added(Lines, torn), Added(Lines, line)}
    BY <1>10, Zenon, ZenonT(120) DEF Cut
  <2> HIDE DEF line, torn
  <2>4. Newest < line.hash /\ line.hash <= Newest'
    <3>1. CASE pc[t] = "write"
      <4>1. Newest = now - 1 /\ line.hash = now
        BY <2>1, <3>1 DEF Newest
      <4> QED
        BY <1>2, <1>3, <1>4, <4>1
    <3>2. CASE pc[t] = "boundary"
      <4>1. now' = now + 1 /\ line.hash = now + 1
        BY <2>1, <3>2 DEF Crash
      <4> QED
        BY <1>2, <1>4, <4>1
    <3> QED
      BY <1>10, <3>1, <3>2
  <2>5. CASE file' = Lines
    <3>1. Lines' = Lines
      BY <1>2, <2>5, NoFileAssumption DEF Lines
    <3> QED
      BY <1>8, <3>1
  <2>6. CASE file' = Added(Lines, torn)
    <3>1. Lines' = Added(Lines, torn)
      BY <1>2, <2>2, <2>6, FileAdded
    <3>2. Lines' = Append(Lines, torn)
      BY <1>2, <2>2, <3>1, AddedAtEnd, Zenon, ZenonT(120)
    <3>3. ~Verifies(Lines')
      BY <1>2, <2>2, <3>2, TornFails
    <3>4. FileOrdered'
      BY <3>3 DEF FileOrdered
    <3> QED
      BY <1>6, <1>7, <3>4 DEF OrderInv
  <2>7. CASE file' = Added(Lines, line)
    <3>1. Lines' = Added(Lines, line)
      BY <1>2, <2>1, <2>7, FileAdded
    <3>2. Lines' = Append(Lines, line)
      BY <1>2, <2>1, <3>1, AddedAtEnd, Zenon, ZenonT(120)
    <3>3. FileOrdered'
      BY <1>1, <1>2, <1>5, <2>1, <2>4, <3>2, OrderAdded, Zenon, ZenonT(120) DEF OrderInv
    <3> QED
      BY <1>6, <1>7, <3>3 DEF OrderInv
  <2> QED
    BY <2>3, <2>5, <2>6, <2>7
<1> QED
  BY <1>9, <1>10 DEF Crash

\* __init__ leaves the lines alone; no request runs yet.
LEMMA RestartOrdered ==
    ASSUME AuditInv, OrderInv, Restart
    PROVE  OrderInv'
<1>1. /\ up = FALSE /\ file' = Lines
      /\ UNCHANGED <<archives, now, pc, local, reader, response>>
  BY DEF Restart, AuditInv, AuditTypeOK
<1>2. Lines \in Seq(Line) /\ now \in Nat
  BY LinesType DEF AuditInv, AuditTypeOK
<1>3. Lines' = Lines /\ Present' = Present /\ Newest' = Newest
  BY <1>1, <1>2, NoFileAssumption DEF Lines, Present, Newest
<1>4. reader = None
  BY <1>1 DEF OrderInv, ReaderOrdered
<1>5. InFlightLast' /\ ReaderOrdered' /\ EventsOrdered'
  BY <1>1, <1>4 DEF OrderInv, InFlightLast, ReaderOrdered, EventsOrdered
<1>6. ArchivesOrdered' /\ FileOrdered'
  BY <1>1, <1>3, Zenon, ZenonT(120) DEF OrderInv, ArchivesOrdered, FileOrdered
<1> QED
  BY <1>5, <1>6 DEF OrderInv

\* The archives, read while append may be anywhere.
LEMMA EventsStartOrdered ==
    ASSUME AuditInv, OrderInv, EventsStart
    PROVE  OrderInv'
<1>1. /\ up = TRUE /\ reader' = Archived /\ response' = None
      /\ UNCHANGED <<up, file, archives, now, pc, local>>
  BY DEF EventsStart, AuditInv, AuditTypeOK
<1>2. Lines' = Lines /\ Present' = Present /\ Newest' = Newest
  BY <1>1 DEF Lines, Present, Newest
<1>3. Verifies(Lines) /\ AuditTypeOK /\ Newest \in Int
  BY <1>1 DEF AuditInv, FileInv, AuditTypeOK, Newest
<1>4. /\ Archived \in Seq(Line) /\ Rising(Archived)
      /\ UpTo(Archived, Newest) /\ Before(Archived, Lines)
  BY <1>3, ArchivedOrdered DEF OrderInv
<1>5. ReaderOrdered'
  BY <1>1, <1>2, <1>4, Zenon, ZenonT(120) DEF ReaderOrdered
<1>6. InFlightLast' /\ EventsOrdered'
  BY <1>1 DEF OrderInv, InFlightLast, EventsOrdered
<1>7. ArchivesOrdered' /\ FileOrdered'
  BY <1>1, <1>2, Zenon, ZenonT(120) DEF OrderInv, ArchivesOrdered, FileOrdered
<1> QED
  BY <1>5, <1>6, <1>7 DEF OrderInv

\* The answer: what the archives held then, and what the file holds now.
LEMMA EventsEndOrdered ==
    ASSUME AuditInv, OrderInv, EventsEnd
    PROVE  OrderInv'
<1> DEFINE lines == reader \o Lines
<1>1. /\ up = TRUE /\ reader # None /\ reader' = None
      /\ response' = None \/ response' = [i \in DOMAIN lines |-> lines[i].hash]
      /\ UNCHANGED <<up, file, archives, now, pc, local>>
  BY Zenon, ZenonT(120) DEF EventsEnd, AuditInv, AuditTypeOK
<1>2. Lines' = Lines /\ Present' = Present /\ Newest' = Newest
  BY <1>1 DEF Lines, Present, Newest
<1>3. Verifies(Lines) /\ Lines \in Seq(Line)
  BY <1>1, LinesType DEF AuditInv, FileInv
<1>4. Rising(Lines) /\ reader \in Seq(Line) /\ Rising(reader) /\ Before(reader, Lines)
  BY <1>1, <1>3 DEF OrderInv, FileOrdered, ReaderOrdered
<1>5. Rising(lines) /\ DOMAIN lines = 1..Len(lines)
  BY <1>3, <1>4, ConcatRising
<1> HIDE DEF lines
<1>6. EventsOrdered'
  <2>1. CASE response' = None
    BY <2>1 DEF EventsOrdered
  <2>2. CASE response' = [i \in DOMAIN lines |-> lines[i].hash]
    <3>1. /\ DOMAIN response' = 1..Len(lines)
          /\ \A i \in 1..Len(lines) : response'[i] = lines[i].hash
      BY <1>5, <2>2
    <3> QED
      BY <1>5, <3>1 DEF EventsOrdered, Rising
  <2> QED
    BY <1>1, <2>1, <2>2
<1>7. InFlightLast' /\ ReaderOrdered'
  BY <1>1 DEF OrderInv, InFlightLast, ReaderOrdered
<1>8. ArchivesOrdered' /\ FileOrdered'
  BY <1>1, <1>2, Zenon, ZenonT(120) DEF OrderInv, ArchivesOrdered, FileOrdered
<1> QED
  BY <1>6, <1>7, <1>8 DEF OrderInv

\* Nothing is written yet.
LEMMA OrderInitInv == Init => OrderInv
<1> SUFFICES ASSUME Init PROVE OrderInv
  OBVIOUS
<1>1. <<>> \in Seq(Line)
  OBVIOUS
<1>2. Lines = <<>>
  BY <1>1, NoFileAssumption, Zenon, ZenonT(120) DEF Init, Lines
<1>3. Present = {}
  BY DEF Init, Present
<1>4. FileOrdered
  BY <1>2, <1>3 DEF FileOrdered, Rising, UpTo
<1> QED
  BY <1>3, <1>4 DEF Init, OrderInv, InFlightLast, ArchivesOrdered, ReaderOrdered, EventsOrdered

\* Every step keeps the order.
LEMMA OrderNextInv ==
    ASSUME AuditInv, OrderInv, OneAppender, LostNewline = FALSE, [Next]_vars
    PROVE  OrderInv'
<1>1. ASSUME NEW t \in Appenders,
             \/ Start(t) \/ Rotate(t) \/ Rename(t) \/ Touch(t) \/ Boundary(t)
             \/ BoundaryDone(t) \/ Body(t) \/ Write(t) \/ Done(t)
      PROVE  OrderInv'
  BY <1>1, QuietSteps, RenameOrdered, BoundaryOrdered, BodyOrdered, WriteOrdered
<1>2. CASE UNCHANGED vars
  <2>1. Lines' = Lines /\ Present' = Present /\ Newest' = Newest
    BY <1>2 DEF vars, Lines, Present, Newest
  <2>2. InFlightLast' /\ ReaderOrdered' /\ EventsOrdered'
    BY <1>2, <2>1 DEF vars, OrderInv, InFlightLast, ReaderOrdered, EventsOrdered
  <2>3. ArchivesOrdered' /\ FileOrdered'
    BY <1>2, <2>1, Zenon, ZenonT(120) DEF vars, OrderInv, ArchivesOrdered, FileOrdered
  <2> QED
    BY <2>2, <2>3 DEF OrderInv
<1> QED
  BY <1>1, <1>2, CrashOrdered, RestartOrdered, EventsStartOrdered, EventsEndOrdered,
     Zenon, ZenonT(120) DEF Next

\* GET /events answers in chronological order across all files, although it
\* reads the archives and the active file at different times and takes no
\* lock: a rotation in between makes it miss entries, never disorder them.
THEOREM AuditEventsOrdered ==
    ASSUME OneAppender, LostNewline = FALSE
    PROVE  Spec => []EventsOrdered
<1>1. Init => AuditInv /\ OrderInv
  BY AuditInitInv, OrderInitInv
<1>2. AuditInv /\ OrderInv /\ [Next]_vars => (AuditInv /\ OrderInv)'
  BY AuditNextInv, OrderNextInv, Zenon, ZenonT(120)
<1>3. AuditInv /\ OrderInv => EventsOrdered
  BY DEF OrderInv
<1> QED
  BY <1>1, <1>2, <1>3, PTL, PTL DEF Spec
=============================================================================
