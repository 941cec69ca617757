------------------------------- MODULE AuditLog -------------------------------
(***************************************************************************)
(* The hash-chained audit log of aegis_shield/core/audit.py with its       *)
(* rotation, and the reader of aegis_shield/api/routers/events.py.  append *)
(* takes no lock of its own: the engine calls it under its lock, the       *)
(* recovery export calls it without, and each of its file operations and   *)
(* each access to _last_hash is a step.  An entry carries the time of its  *)
(* append, so entries are all different and an entry's time stands for its *)
(* hash; 0 stands for the hash of 64 zeros.  The file is full at RotateAt  *)
(* lines.                                                                  *)
(***************************************************************************)
EXTENDS Integers, Sequences, FiniteSets

CONSTANTS
    Appenders,          \* the threads that call append
    RotateAt,           \* lines at which the file is rotated (max_bytes)
    MaxTime,            \* bound on the number of entries
    CutsRotation,       \* whether a crash may fall inside _rotate
    LostNewline,        \* whether a crash may cut off a line's newline alone
    None

ASSUME AuditAssumption ==
    /\ RotateAt \in Nat \ {0}
    /\ MaxTime \in Nat
    /\ CutsRotation \in BOOLEAN
    /\ LostNewline \in BOOLEAN
    /\ None \notin Nat

Archives == 1..MaxTime

VARIABLES
    up,                 \* the process runs
    file,               \* the active file's lines, or None between rename and touch
    archives,           \* by number: lines, or None
    _last_hash,
    now,                \* time of the last entry
    pc, local,          \* of each appender: its next step, and its local variables
    reader,             \* what the running GET /events has collected, or None
    response,           \* the last answer to GET /events, or None
    \* History variables, read by the properties only.
    acked,              \* the entries whose append has returned
    due                 \* the entries acknowledged when the running GET started

vars == <<up, file, archives, _last_hash, now, pc, local, reader, response, acked, due>>

-----------------------------------------------------------------------------
\* A line, whole or cut off by a crash; json.loads refuses one of kind "torn".
Line == [kind: {"event", "boundary", "torn"}, hash: Nat, previous_hash: Nat,
         archived_to: Nat, previous_file_last_hash: Nat, ended: BOOLEAN]

\* None is no file.
ASSUME NoFileAssumption == None \notin Seq(Line)

Torn(ended) == [kind |-> "torn", hash |-> 0, previous_hash |-> 0, archived_to |-> 0,
                previous_file_last_hash |-> 0, ended |-> ended]

Idle == [hash |-> 0, previous_hash |-> 0, archived_to |-> 0, previous_file_last_hash |-> 0]

Lines == IF file = None THEN <<>> ELSE file

LastHash(lines) == IF lines = <<>> THEN 0 ELSE lines[Len(lines)].hash

\* verify does not raise.
Verifies(lines) ==
    \A i \in 1..Len(lines) :
        /\ lines[i].kind # "torn"
        /\ lines[i].previous_hash = LastHash(SubSeq(lines, 1, i - 1))

\* Mutant: the archive's name is always the first.
NextArchiveFixed == 1

\* The lowest number no archive has.
NextArchive ==
    CHOOSE n \in Archives :
        archives[n] = None /\ \A m \in 1..n - 1 : archives[m] # None

Entry(kind, l) ==
    [kind |-> kind, hash |-> l.hash, previous_hash |-> l.previous_hash,
     archived_to |-> l.archived_to, previous_file_last_hash |-> l.previous_file_last_hash,
     ended |-> TRUE]

\* The file after one more line.  A last line without its newline runs into
\* the new one, and neither can be parsed.
Added(lines, line) ==
    IF lines # <<>> /\ ~lines[Len(lines)].ended
    THEN SubSeq(lines, 1, Len(lines) - 1) \o <<Torn(line.ended)>>
    ELSE Append(lines, line)

Step(t, from, to) ==
    /\ up
    /\ pc[t] = from
    /\ pc' = [pc EXCEPT ![t] = to]

-----------------------------------------------------------------------------
(* append.                                                                 *)

\* The size check.  stat raises while the file is away, which ends the append.
Start(t) ==
    /\ now + 2 =< MaxTime
    /\ file # None
    /\ Step(t, "idle", IF Len(file) >= RotateAt THEN "rotate" ELSE "body")
    /\ UNCHANGED <<up, file, archives, _last_hash, now, local, reader, response, acked, due>>

\* Mutant: the old hash is read after the reset.
RotateLosesHash(t) ==
    /\ Step(t, "rotate", "rename")
    /\ local' = [local EXCEPT ![t] = [Idle EXCEPT !.archived_to = NextArchive]]
    /\ UNCHANGED <<up, file, archives, _last_hash, now, reader, response, acked, due>>

\* _rotate: the archive's name and the hash it will link to.
Rotate(t) ==
    /\ Step(t, "rotate", "rename")
    /\ local' = [local EXCEPT ![t] = [Idle EXCEPT !.archived_to = NextArchive,
                                                  !.previous_file_last_hash = _last_hash]]
    /\ UNCHANGED <<up, file, archives, _last_hash, now, reader, response, acked, due>>

\* rename replaces an archive that has got the same name meanwhile, and raises
\* when another thread's rename has taken the file away.
Rename(t) ==
    /\ Step(t, "rename", IF file = None THEN "idle" ELSE "touch")
    /\ archives' = IF file = None THEN archives
                   ELSE [archives EXCEPT ![local[t].archived_to] = file]
    /\ local' = IF file = None THEN [local EXCEPT ![t] = Idle] ELSE local
    /\ file' = None
    /\ UNCHANGED <<up, _last_hash, now, reader, response, acked, due>>

\* Mutant: _last_hash is not reset for the new file.
TouchKeepsHash(t) ==
    /\ Step(t, "touch", "boundary")
    /\ file' = Lines
    /\ UNCHANGED <<up, archives, _last_hash, now, local, reader, response, acked, due>>

\* touch, and the assignment of the zero hash.
Touch(t) ==
    /\ Step(t, "touch", "boundary")
    /\ file' = Lines
    /\ _last_hash' = 0
    /\ UNCHANGED <<up, archives, now, local, reader, response, acked, due>>

\* The boundary entry, whose body takes _last_hash as it is now.
Boundary(t) ==
    /\ Step(t, "boundary", "boundary_done")
    /\ now' = now + 1
    /\ local' = [local EXCEPT ![t].hash = now', ![t].previous_hash = _last_hash]
    /\ file' = Added(Lines, Entry("boundary", local'[t]))
    /\ UNCHANGED <<up, archives, _last_hash, reader, response, acked, due>>

BoundaryDone(t) ==
    /\ Step(t, "boundary_done", "body")
    /\ _last_hash' = local[t].hash
    /\ UNCHANGED <<up, file, archives, now, local, reader, response, acked, due>>

\* The body of the entry, chained to _last_hash.
Body(t) ==
    /\ Step(t, "body", "write")
    /\ now' = now + 1
    /\ local' = [local EXCEPT ![t] = [Idle EXCEPT !.hash = now', !.previous_hash = _last_hash]]
    /\ UNCHANGED <<up, file, archives, _last_hash, reader, response, acked, due>>

\* write and fsync; opening for append creates a file that is away.
Write(t) ==
    /\ Step(t, "write", "done")
    /\ file' = Added(Lines, Entry("event", local[t]))
    /\ UNCHANGED <<up, archives, _last_hash, now, local, reader, response, acked, due>>

Done(t) ==
    /\ Step(t, "done", "idle")
    /\ _last_hash' = local[t].hash
    /\ acked' = acked \cup {local[t].hash}
    /\ local' = [local EXCEPT ![t] = Idle]
    /\ UNCHANGED <<up, file, archives, now, reader, response, due>>

-----------------------------------------------------------------------------
(* A crash, and __init__ of the next process.                              *)

Rotating(t) == pc[t] \in {"rename", "touch", "boundary", "boundary_done"}

\* What a crash in the middle of writing a line leaves of it.
Cut(line) ==
    {Lines, Added(Lines, Torn(FALSE)), Added(Lines, line)}
        \cup (IF LostNewline THEN {Added(Lines, [line EXCEPT !.ended = FALSE])} ELSE {})

\* The line an appender is about to write.
InFlight(t) ==
    IF pc[t] = "boundary"
    THEN Entry("boundary", [local[t] EXCEPT !.hash = now + 1, !.previous_hash = _last_hash])
    ELSE Entry("event", local[t])

Crash ==
    /\ up
    /\ CutsRotation \/ \A t \in Appenders : ~Rotating(t)
    /\ up' = FALSE
    /\ \/ file' = file
       \/ \E t \in Appenders : pc[t] \in {"write", "boundary"} /\ file' \in Cut(InFlight(t))
    /\ now' = IF \E t \in Appenders : pc[t] = "boundary" THEN now + 1 ELSE now
    /\ pc' = [t \in Appenders |-> "idle"]
    /\ local' = [t \in Appenders |-> Idle]
    /\ reader' = None
    /\ response' = None
    /\ due' = {}
    /\ UNCHANGED <<archives, _last_hash, acked>>

\* verify raises on a chain that does not hold, and the process does not start.
Restart ==
    /\ ~up
    /\ Verifies(Lines)
    /\ up' = TRUE
    /\ file' = Lines
    /\ _last_hash' = LastHash(Lines)
    /\ UNCHANGED <<archives, now, pc, local, reader, response, acked, due>>

-----------------------------------------------------------------------------
(* GET /events, which runs on the API's thread and takes no lock.          *)

Present == {n \in Archives : archives[n] # None}

\* The lines of the files, one file after the other. A function of its own
\* keeps the sequence library out of what the proofs carry along.
Joined(files) ==
    LET join[n \in 0..Len(files)] == IF n = 0 THEN <<>> ELSE join[n - 1] \o files[n]
    IN  join[Len(files)]

\* Mutant: the newest archive comes first.
ArchivedNewestFirst ==
    Joined([n \in Archives |-> LET m == MaxTime + 1 - n
                               IN  IF m \in Present THEN archives[m] ELSE <<>>])

\* The archives' lines, in the order of their numbers.
Archived == Joined([n \in Archives |-> IF n \in Present THEN archives[n] ELSE <<>>])

\* _collect_all_events lists and reads the archives first.
EventsStart ==
    /\ up
    /\ reader = None
    /\ reader' = Archived
    /\ response' = None
    /\ due' = acked
    /\ UNCHANGED <<up, file, archives, _last_hash, now, pc, local, acked>>

\* Then the active file; one line that does not parse fails the request.
EventsEnd ==
    /\ up
    /\ reader # None
    /\ LET lines == reader \o Lines
       IN  response' = IF \E i \in DOMAIN lines : lines[i].kind = "torn" THEN None
                       ELSE [i \in DOMAIN lines |-> lines[i].hash]
    /\ reader' = None
    /\ UNCHANGED <<up, file, archives, _last_hash, now, pc, local, acked, due>>

-----------------------------------------------------------------------------
Init ==
    /\ up = TRUE
    /\ file = <<>>
    /\ archives = [n \in Archives |-> None]
    /\ _last_hash = 0
    /\ now = 0
    /\ pc = [t \in Appenders |-> "idle"]
    /\ local = [t \in Appenders |-> Idle]
    /\ reader = None
    /\ response = None
    /\ acked = {}
    /\ due = {}

Next ==
    \/ \E t \in Appenders :
          \/ Start(t)
          \/ Rotate(t)
          \/ Rename(t)
          \/ Touch(t)
          \/ Boundary(t)
          \/ BoundaryDone(t)
          \/ Body(t)
          \/ Write(t)
          \/ Done(t)
    \/ Crash
    \/ Restart
    \/ EventsStart
    \/ EventsEnd

Spec == Init /\ [][Next]_vars

-----------------------------------------------------------------------------
(* Properties.                                                             *)

\* Every variable of the log, of append and of the reader has its type.
TypeOK ==
    /\ up \in BOOLEAN
    /\ \A lines \in {Lines, IF reader = None THEN <<>> ELSE reader}
                    \cup {archives[n] : n \in Present} :
          \A i \in DOMAIN lines : lines[i] \in Line
    /\ _last_hash \in 0..now
    /\ pc \in [Appenders -> {"idle", "rotate", "rename", "touch", "boundary",
                             "boundary_done", "body", "write", "done"}]
    /\ acked \subseteq 1..now
    /\ due \subseteq acked

Entries(lines) == {lines[i].hash : i \in DOMAIN lines}

\* While the process runs, verify would accept the active file, and between
\* appends _last_hash is the hash of its last entry, whatever rotations,
\* crashes and restarts came before.
ChainVerifies ==
    up => /\ Verifies(Lines)
          /\ (\A t \in Appenders : pc[t] = "idle") => _last_hash = LastHash(Lines)

\* Append-only: an entry whose append has returned stays in the active file or
\* in one of the archives, through every rotation, crash and restart.
AckedKept ==
    acked \subseteq Entries(Lines) \cup UNION {Entries(archives[n]) : n \in Present}

\* The cross-file chain an auditor walks: the archives are numbered without a
\* gap, and every boundary entry, in whichever file it is by now, names the
\* archive before that file and the hash of that archive's last entry.
CrossFileChain ==
    /\ \A n \in Present : \A m \in 1..n - 1 : m \in Present
    /\ \A n \in Present \cup {Cardinality(Present) + 1} :
          LET lines == IF n \in Present THEN archives[n] ELSE Lines
          IN  \A i \in DOMAIN lines :
                  lines[i].kind = "boundary" =>
                      /\ lines[i].archived_to = n - 1
                      /\ n - 1 \in Present
                      /\ lines[i].previous_file_last_hash = LastHash(archives[n - 1])

\* Every file after the first starts with a boundary entry (the class comment:
\* "The first entry of every new file is a rotation_boundary event").
BoundaryFirst ==
    \A n \in Present :
        LET next == IF n + 1 \in Present THEN archives[n + 1] ELSE Lines
        IN  next # <<>> /\ next[1].kind # "torn" => next[1].kind = "boundary"

\* GET /events answers in chronological order across all files.
EventsOrdered ==
    response # None =>
        \A i, j \in DOMAIN response : i < j => response[i] < response[j]

\* GET /events drops no rotated event: every entry acknowledged before the
\* request is in the answer.
EventsComplete ==
    response # None => due \subseteq {response[i] : i \in DOMAIN response}
=============================================================================
