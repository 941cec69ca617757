---------------------------- MODULE DurableJournal ----------------------------
(***************************************************************************)
(* The append-and-fsync journal of aegis_shield/core/journal.py: a base    *)
(* image, a log of records replayed at open, and an in-memory index.       *)
(*                                                                         *)
(* The log file is a sequence of pieces: a whole serialized record, a      *)
(* strict prefix of one (which never parses) and the newline.  A position  *)
(* in this sequence stands for a byte offset, and a line parses when it is *)
(* exactly one record.  record_hash is represented by the chain of bodies  *)
(* it commits to.  One thread runs the journal's methods (the engine's     *)
(* lock), the HTTP export copies files without the lock, and a CLI command *)
(* may open the same directory in another process.                         *)
(***************************************************************************)
EXTENDS Integers, Sequences

CONSTANTS
    Blocks,         \* number of logical blocks
    Values,         \* contents of a block
    Zero,           \* the content base.img is provisioned with
    Writes,         \* the appends tried: records of a start block and data
    MaxSequence,    \* bound on the records between two compactions
    IoErrors,       \* whether a write may come up short or raise OSError
    FailedFsync,    \* whether fsync may raise with the whole record in the file
    CliRuns,        \* whether a CLI command opens the journal on its own
    Exports,        \* whether recovery exports run
    TrackSidecars,  \* whether the bytes preserved in sidecars are represented
    None

Block == 0..Blocks - 1

Image == [Block -> Values]

Write == [block: Block, data: Seq(Values)]

\* A body names what record_hash commits to; a log record adds the hash before it.
Body == Nat \X Nat \X Seq(Values)

LogRecord == [sequence: Nat, block: Nat, data: Seq(Values), previous_hash: Seq(Body)]

ASSUME BlocksAssumption ==
    /\ Blocks \in Nat \ {0} /\ MaxSequence \in Nat /\ Zero \in Values
    /\ {IoErrors, FailedFsync, CliRuns, Exports, TrackSidecars} \subseteq BOOLEAN
    /\ None \notin Nat

\* Python's None is no record and no write.
ASSUME NoneAssumption == None \notin LogRecord /\ None \notin Writes

\* What _check_range and the length check of append let through.
ASSUME WritesAssumption ==
    /\ Writes \subseteq Write
    /\ \A w \in Writes : Len(w.data) > 0 /\ w.block + Len(w.data) <= Blocks

VARIABLES
    pc,             \* the durable step the running method makes next
    base, log,      \* base.img and journal.jsonl
    sidecars,       \* journal.jsonl.torn-<offset>, by offset
    index, overlay, last_hash, next_sequence, log_size,
    reader,         \* the replaced log the shared read handle still has open, or None
    inflight,       \* the record append is writing, or None
    cli,            \* the offset a CLI command has decided to truncate at, or None
    export,         \* the running recovery export, or None
    \* History variables, read by the properties only.
    view,           \* the images this session has served, by sequence
    promised,       \* the images every earlier answer lets a caller rely on
    interrupted,    \* a compaction replaced the base image and did not get further
    glued,          \* bytes were written behind a record that lacks its newline
    destroyed       \* a sidecar was overwritten with other bytes

disk    == <<base, log, sidecars>>
memory  == <<index, overlay, last_hash, next_sequence, log_size, reader>>
others  == <<cli, export>>
history == <<view, promised, interrupted, glued, destroyed>>
vars    == <<pc, disk, memory, inflight, others, history>>

-----------------------------------------------------------------------------
(* The log file and its replay.                                            *)

Newline == [kind |-> "newline"]

Whole(r) == [kind |-> "record", record |-> r]

\* Which prefix it is does not matter, only that it is lost when overwritten.
Fragment(r) == [kind |-> "fragment", of |-> <<r.block, r.data>>]

Padding == [kind |-> "padding"]

RecordHash(r) == Append(r.previous_hash, <<r.sequence, r.block, r.data>>)

\* readline at piece i yields exactly one serialized record.
Parses(file, i) ==
    /\ i <= Len(file)
    /\ file[i].kind = "record"
    /\ i = Len(file) \/ file[i + 1] = Newline

\* The number of lines that parse before the first one that does not.
Lines(file) ==
    CHOOSE n \in 0..Len(file) :
        /\ \A k \in 1..n : Parses(file, 2 * k - 1)
        /\ ~Parses(file, 2 * n + 1)

Record(file, k) == file[2 * k - 1].record

\* What follows the lines that parse.
Rest(file) == SubSeq(file, 2 * Lines(file) + 1, Len(file))

\* The line that does not parse is the last one of the file.
Torn(file) ==
    /\ Rest(file) # <<>>
    /\ \A i \in 1..Len(Rest(file)) - 1 : Rest(file)[i] # Newline

\* The integrity checks on the records that parse.
Chained(file) ==
    \A k \in 1..Lines(file) :
        /\ Record(file, k).sequence = k
        /\ Record(file, k).previous_hash = IF k = 1 THEN <<>>
                                           ELSE RecordHash(Record(file, k - 1))

\* Mutant: a torn tail is corruption.
OpensStrict(file) == Chained(file) /\ Rest(file) = <<>>

\* _replay returns, possibly after cutting off a torn tail.
Opens(file) == Chained(file) /\ (Rest(file) = <<>> \/ Torn(file))

\* The index entries _replay builds from the first n records.
IndexOf(file, n) ==
    [k \in 1..n |-> [sequence |-> k, block |-> Record(file, k).block,
                     blocks |-> Len(Record(file, k).data), offset |-> 2 * k - 2]]

Covers(entry, b) == entry.block <= b /\ b < entry.block + entry.blocks

\* The position of the newest entry covering block b among the first n, or 0.
Newest(entries, n, b) ==
    CHOOSE k \in 0..n :
        /\ k > 0 => Covers(entries[k], b)
        /\ \A j \in k + 1..n : ~Covers(entries[j], b)

\* The images before the first and after each record of a file.
Versions(image, file) ==
    [s \in 1..Lines(file) + 1 |->
        [b \in Block |->
            LET k == Newest(IndexOf(file, s - 1), s - 1, b)
            IN  IF k = 0 THEN image[b]
                ELSE Record(file, k).data[b - Record(file, k).block + 1]]]

Last(s) == s[Len(s)]

Overwrite(image, r) ==
    [b \in Block |-> IF r.block <= b /\ b < r.block + Len(r.data)
                     THEN r.data[b - r.block + 1] ELSE image[b]]

-----------------------------------------------------------------------------
(* Reads.                                                                  *)

last_sequence == next_sequence - 1

\* _reader: the handle stays open across reads and is opened by name.
Opened == IF reader = None THEN log ELSE reader

\* Mutant: whatever record is at the indexed offset is taken.
BlockFromUnchecked(k, b) ==
    LET i == index[k].offset + 1
    IN  IF Parses(Opened, i) /\ Len(Opened[i].record.data) = index[k].blocks
        THEN Opened[i].record.data[b - index[k].block + 1]
        ELSE None

\* _payload_at and _block_from: None stands for JournalCorruptionError.
BlockFrom(k, b) ==
    LET i == index[k].offset + 1
    IN  IF /\ Parses(Opened, i)
           /\ Opened[i].record.sequence = index[k].sequence
           /\ Len(Opened[i].record.data) = index[k].blocks
        THEN Opened[i].record.data[b - index[k].block + 1]
        ELSE None

\* read of one block from the overlay.
Read(b) == IF overlay[b] = 0 THEN base[b] ELSE BlockFrom(overlay[b], b)

\* Mutant: the record of the target sequence itself is left out.
EntryBefore(b, s) ==
    CHOOSE k \in 0..Len(index) :
        /\ k > 0 => index[k].sequence < s /\ Covers(index[k], b)
        /\ \A j \in k + 1..Len(index) : index[j].sequence >= s \/ ~Covers(index[j], b)

\* The newest entry at or before a sequence that covers a block, or 0.
EntryAt(b, s) ==
    CHOOSE k \in 0..Len(index) :
        /\ k > 0 => index[k].sequence <= s /\ Covers(index[k], b)
        /\ \A j \in k + 1..Len(index) : index[j].sequence > s \/ ~Covers(index[j], b)

\* read of one block with at_sequence.
ReadAt(b, s) == IF EntryAt(b, s) = 0 THEN base[b] ELSE BlockFrom(EntryAt(b, s), b)

-----------------------------------------------------------------------------
(* Opening.                                                                *)

\* The state _replay leaves for a file whose lines all parse.
Load(file) ==
    /\ index' = IndexOf(file, Lines(file))
    /\ overlay' = [b \in Block |-> Newest(index', Lines(file), b)]
    /\ last_hash' = IF file = <<>> THEN <<>> ELSE RecordHash(Record(file, Lines(file)))
    /\ next_sequence' = Lines(file) + 1
    /\ log_size' = Len(file) /\ reader' = None
    /\ view' = Versions(base, file)
    /\ pc' = "idle"

OpenClean ==
    /\ pc = "down"
    /\ Opens(log) /\ Rest(log) = <<>>
    /\ Load(log)
    /\ UNCHANGED <<disk, inflight, others, promised, interrupted, glued, destroyed>>

\* The bytes of a torn tail go to journal.jsonl.torn-<offset>.
Preserve(offset, pieces) ==
    /\ sidecars' = IF TrackSidecars THEN [sidecars EXCEPT ![offset] = pieces] ELSE sidecars
    /\ destroyed' = (destroyed \/ sidecars[offset] \notin {None, pieces})

\* _discard_torn_tail: the sidecar is written before the log is truncated.
OpenTorn ==
    /\ pc = "down"
    /\ Opens(log) /\ Torn(log)
    /\ Preserve(2 * Lines(log), Rest(log))
    /\ pc' = "truncate"
    /\ UNCHANGED <<base, log, memory, inflight, others, view, promised, interrupted,
                   glued>>

\* Mutant: the torn bytes stay in the log.
TruncateSkipped ==
    /\ pc = "truncate"
    /\ Load(SubSeq(log, 1, 2 * Lines(log)))
    /\ UNCHANGED <<disk, inflight, others, promised, interrupted, glued, destroyed>>

Truncate ==
    /\ pc = "truncate"
    /\ log' = SubSeq(log, 1, 2 * Lines(log))
    /\ Load(log')
    /\ UNCHANGED <<base, sidecars, inflight, others, promised, interrupted, glued, destroyed>>

-----------------------------------------------------------------------------
(* Append.                                                                 *)

\* What a power cut may leave of the bytes of a serialized record: a strict
\* prefix, the last one of which lacks only the newline.
Prefixes(r) == {<<>>, <<Fragment(r)>>, <<Whole(r)>>, <<Whole(r), Newline>>}

\* The log is opened for appending at each write, wherever its last line ends.
Put(pieces) ==
    /\ log' = log \o pieces
    /\ glued' = (glued \/ (pieces # <<>> /\ log # <<>> /\ Last(log).kind = "record"))

\* append up to its write; the bounds stand for the end of the exploration.
AppendBegin(w) ==
    /\ pc = "idle"
    /\ next_sequence <= MaxSequence
    /\ Len(promised) <= MaxSequence /\ Len(log) < 2 * MaxSequence
    /\ inflight' = [sequence |-> next_sequence, block |-> w.block, data |-> w.data,
                    previous_hash |-> last_hash]
    /\ pc' = "append"
    /\ UNCHANGED <<disk, memory, others, history>>

\* What append does once write and fsync have returned.
Acknowledge ==
    /\ index' = Append(index, [sequence |-> next_sequence, block |-> inflight.block,
                               blocks |-> Len(inflight.data), offset |-> log_size])
    /\ overlay' = [b \in Block |-> IF Covers(Last(index'), b) THEN Len(index') ELSE overlay[b]]
    /\ last_hash' = RecordHash(inflight)
    /\ next_sequence' = next_sequence + 1
    /\ log_size' = log_size + 2
    /\ view' = Append(view, Overwrite(Last(view), inflight))
    /\ promised' = Append(promised, Overwrite(Last(promised), inflight))
    /\ inflight' = None
    /\ pc' = "idle"
    /\ UNCHANGED <<base, sidecars, reader, others, interrupted, destroyed>>

AppendDone ==
    /\ pc = "append"
    /\ Put(<<Whole(inflight), Newline>>)
    /\ Acknowledge

\* The raw write stores fewer bytes than it was given; its result is ignored.
AppendShort ==
    /\ IoErrors /\ pc = "append"
    /\ Put(<<Fragment(inflight)>>)
    /\ Acknowledge

\* write or fsync raises OSError.
AppendError ==
    /\ IoErrors /\ pc = "append"
    /\ \/ \E pieces \in {<<>>, <<Fragment(inflight)>>} : Put(pieces)
       \/ FailedFsync /\ Put(<<Whole(inflight), Newline>>)
    /\ inflight' = None
    /\ pc' = "idle"
    /\ UNCHANGED <<base, sidecars, memory, others, view, promised, interrupted, destroyed>>

-----------------------------------------------------------------------------
(* Compaction.                                                             *)

\* Mutant: the log is emptied before the base image is replaced.
CompactLogFirst ==
    /\ pc = "idle"
    /\ Opens(log)
    /\ \A b \in Block : Read(b) # None
    /\ log' = <<>>
    /\ pc' = "clear"
    /\ UNCHANGED <<base, sidecars, memory, inflight, others, history>>

\* compact up to the replacement of base.img.  The snapshot it takes first is
\* opened to verify it, so a log that does not open stops it here.  An export
\* that is running goes on (history: mixed).
CompactBase ==
    /\ pc = "idle"
    /\ Opens(log)
    /\ \A b \in Block : Read(b) # None
    /\ base' = [b \in Block |-> Read(b)]
    /\ export' = IF export = None THEN None ELSE [export EXCEPT !.mixed = TRUE]
    /\ pc' = "clear"
    /\ UNCHANGED <<log, sidecars, memory, inflight, cli, history>>

CompactLog ==
    /\ pc = "clear"
    /\ log' = <<>>
    /\ index' = <<>> /\ overlay' = [b \in Block |-> 0]
    /\ last_hash' = <<>> /\ next_sequence' = 1 /\ log_size' = 0 /\ reader' = None
    /\ view' = <<Last(view)>> /\ promised' = <<Last(promised)>>
    /\ interrupted' = FALSE
    /\ pc' = "idle"
    /\ UNCHANGED <<base, sidecars, inflight, others, glued, destroyed>>

\* The write of the empty log raises OSError.
CompactError ==
    /\ IoErrors /\ pc = "clear"
    /\ interrupted' = TRUE
    /\ pc' = "idle"
    /\ UNCHANGED <<disk, memory, inflight, others, view, promised, glued, destroyed>>

\* The fsync of the directory raises once the empty log is in place: the index
\* still describes the replaced file, which the read handle has open (compact
\* has just read through it, unless nothing was indexed).
CompactSyncError ==
    /\ IoErrors /\ pc = "clear"
    /\ log' = <<>>
    /\ reader' = IF reader = None /\ index # <<>> THEN log ELSE reader
    /\ interrupted' = TRUE
    /\ pc' = "idle"
    /\ UNCHANGED <<base, sidecars, index, overlay, last_hash, next_sequence, log_size,
                   inflight, others, view, promised, glued, destroyed>>

-----------------------------------------------------------------------------
(* The recovery export: snapshot(name, at_sequence) without the lock.      *)

Running == pc \notin {"down", "truncate"}

\* mixed, for the properties: a compaction replaces base.img or the log while
\* the export runs.
ExportStart ==
    /\ Exports /\ Running /\ export = None
    /\ \E target \in 0..last_sequence :
           export' = [target |-> target, base |-> None, want |-> view[target + 1],
                      mixed |-> pc = "clear"]
    /\ UNCHANGED <<pc, disk, memory, inflight, cli, history>>

ExportBase ==
    /\ Running /\ export # None
    /\ export.base = None
    /\ export' = [export EXCEPT !.base = base]
    /\ UNCHANGED <<pc, disk, memory, inflight, cli, history>>

\* Mutant: the record of the target sequence itself is left out.
KeptBefore(file, target) ==
    CHOOSE n \in 0..Lines(file) :
        /\ \A k \in 1..n : Record(file, k).sequence < target
        /\ n = Lines(file) \/ Record(file, n + 1).sequence >= target

\* The lines kept are those before the first with a later sequence.
Kept(file, target) ==
    CHOOSE n \in 0..Lines(file) :
        /\ \A k \in 1..n : Record(file, k).sequence <= target
        /\ n = Lines(file) \/ Record(file, n + 1).sequence > target

\* The log of the bundle: the lines kept, each with a newline.
Copy ==
    [i \in 1..2 * Kept(log, export.target) |-> IF i <= Len(log) THEN log[i] ELSE Newline]

\* The rest of the export succeeds.  A line that does not parse raises, unless a
\* later sequence came first, and the copy is opened to verify it.
Exportable ==
    /\ Running /\ export # None
    /\ export.base # None
    /\ Kept(log, export.target) = Lines(log) => Rest(log) = <<>>
    /\ Opens(Copy)

\* The bundle of export.base and Copy is complete.
ExportLog ==
    /\ Exportable
    /\ export' = None
    /\ UNCHANGED <<pc, disk, memory, inflight, cli, history>>

\* The export raises: a file it copies is missing, or a line does not parse
\* (the record append is writing may be half there).
ExportError ==
    /\ Running /\ export # None
    /\ export' = None
    /\ UNCHANGED <<pc, disk, memory, inflight, cli, history>>

-----------------------------------------------------------------------------
(* A CLI command constructs a DurableJournal of its own.                   *)

\* It finds a torn tail: one left by a crash, or the part of a record that
\* append has written so far.
CliScan ==
    /\ CliRuns /\ cli = None
    /\ LET seen == IF inflight = None THEN log ELSE Append(log, Fragment(inflight))
       IN  /\ Chained(seen) /\ Torn(seen)
           /\ cli' = 2 * Lines(seen)
           /\ Preserve(2 * Lines(seen), Rest(seen))
    /\ UNCHANGED <<pc, base, log, memory, inflight, export,
                   view, promised, interrupted, glued>>

\* truncate to an offset past the end pads the file, which never parses.
CliTruncate ==
    /\ cli # None
    /\ log' = IF cli <= Len(log) THEN SubSeq(log, 1, cli) ELSE Append(log, Padding)
    /\ cli' = None
    /\ UNCHANGED <<pc, base, sidecars, memory, inflight, export, history>>

-----------------------------------------------------------------------------
\* The process stops; the record being written may be on disk in part or in
\* whole, and callers may come to rely on a whole one.
Crash ==
    /\ pc # "down"
    /\ pc' = "down"
    /\ index' = <<>> /\ overlay' = [b \in Block |-> 0]
    /\ last_hash' = <<>> /\ next_sequence' = 1 /\ log_size' = 0 /\ reader' = None
    /\ IF inflight = None THEN UNCHANGED <<log, promised, glued>>
       ELSE \E p \in Prefixes(inflight) :
                /\ Put(p)
                /\ promised' = IF p # <<>> /\ p[1] = Whole(inflight)
                               THEN Append(promised, Overwrite(Last(promised), inflight))
                               ELSE promised
    /\ inflight' = None
    /\ export' = None
    /\ view' = <<>>
    /\ interrupted' = (interrupted \/ pc = "clear")
    /\ UNCHANGED <<base, sidecars, cli, destroyed>>

\* A namespace as provision leaves it.
Init ==
    /\ pc = "down"
    /\ base = [b \in Block |-> Zero] /\ log = <<>>
    /\ sidecars = [o \in 0..2 * MaxSequence |-> None]
    /\ index = <<>> /\ overlay = [b \in Block |-> 0]
    /\ last_hash = <<>> /\ next_sequence = 1 /\ log_size = 0 /\ reader = None
    /\ inflight = None /\ cli = None /\ export = None
    /\ view = <<>> /\ promised = <<base>>
    /\ interrupted = FALSE /\ glued = FALSE /\ destroyed = FALSE

Next ==
    \/ OpenClean \/ OpenTorn \/ Truncate
    \/ \E w \in Writes : AppendBegin(w)
    \/ AppendDone \/ AppendShort \/ AppendError
    \/ CompactBase \/ CompactLog \/ CompactError \/ CompactSyncError
    \/ ExportStart \/ ExportBase \/ ExportLog \/ ExportError
    \/ CliScan \/ CliTruncate
    \/ Crash

Spec == Init /\ [][Next]_vars
-----------------------------------------------------------------------------
(* Properties.                                                             *)

\* Every variable keeps its type, and the index is as long as the sequence.
TypeOK ==
    /\ pc \in {"down", "truncate", "idle", "append", "clear"}
    /\ base \in Image
    /\ next_sequence \in Nat /\ log_size \in Nat
    /\ Len(index) = last_sequence
    /\ overlay \in [Block -> 0..last_sequence]
    /\ (inflight # None) = (pc = "append")
    /\ Running => Len(view) = next_sequence
    /\ cli \in Nat \cup {None}
    /\ interrupted \in BOOLEAN

\* Whatever a crash leaves behind, the next start opens the journal: no power
\* cut during append, compaction or recovery makes _replay raise.  The exception
\* is an append behind a record whose newline a power cut took: _replay accepts
\* that record, and append does not look at how the log ends.
AlwaysOpens == pc = "down" /\ ~glued => Opens(log)

\* While the journal is open, a read returns what the acknowledged writes say,
\* across crashes, torn tails and compactions, until an append goes behind a
\* record without a newline: the two share a line from then on.
AckedDurable == Running /\ ~glued => \A b \in Block : Read(b) = Last(promised)[b]

\* The journal's image, as the files on disk determine it, is the image of the
\* block store.
Store ==
    INSTANCE BlockStore WITH
        image <- Last(Versions(base, log)),
        pending <- IF inflight = None THEN None
                   ELSE [block |-> inflight.block, data |-> inflight.data]

\* The journal implements the block store up to the first append behind a record
\* without a newline: append commits at once, crash recovery and compaction (cut
\* off or not) never change the image.
ImplementsBlockStore == Store!Init /\ [][Store!Next \/ glued']_(Store!vars)

\* A read at a sequence returns the image as it was after that record, unless a
\* compaction was cut off between its two replacements or an append went behind
\* a record without a newline.
PointInTime ==
    Running /\ pc # "clear" /\ ~interrupted /\ ~glued =>
        /\ Len(promised) = next_sequence
        /\ \A s \in 0..last_sequence, b \in Block : ReadAt(b, s) = promised[s + 1][b]

\* Compaction is atomic for the reader of a past sequence as well (compact:
\* "atomically materialize the current logical image").
CompactionAtomic ==
    pc = "idle" =>
        \A s \in 0..last_sequence, b \in Block : ReadAt(b, s) = promised[s + 1][b]

\* Whatever happens to the log behind the journal's back, a read of the current
\* image returns the session's value or raises, never another record's data
\* (_payload_at re-checks the record it finds at the indexed offset).
ReadsNeverWrong == Running => \A b \in Block : Read(b) \in {Last(view)[b], None}

\* Whenever an export completes, its bundle gives the image of the target
\* sequence as it was when the export began, however it interleaves with appends.
\* A line with two records on it does not parse, so the export raises on it.  The
\* exception is a compaction that runs beside it, which nothing prevents
\* (recovery.py:184 takes no lock).
ExportFaithful ==
    Exportable /\ ~export.mixed =>
        /\ export.target <= Lines(Copy)
        /\ Versions(export.base, Copy)[export.target + 1] = export.want

\* Cutting off a torn tail takes nothing away that was promised (_replay:
\* "discarding it loses nothing anyone believes is durable").
DiscardLosesNothing == pc = "truncate" => Last(Versions(base, log)) = Last(promised)

\* Every torn tail ever cut off is still in its sidecar (_replay: "nothing is
\* destroyed silently").
SidecarsKept == ~destroyed
=============================================================================
