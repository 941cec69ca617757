# Verification of Aegis Shield

TLA+ models of Aegis Shield, TLC configurations that check them on small
instances, and TLAPS proofs for every value of the constants. The models are
translated from the source; `PROJECT.json` maps each definition to its lines and
lists the hazards each property is about.

## The system

| Part | Source | Module | Proofs |
|---|---|---|---|
| Protection engine: state machine, tokens, durable saves | `core/engine.py`, `core/types.py`, `core/tokens.py` | `AegisEngine` | `AegisEngineProofs` |
| Journal: base image, log, replay, compaction, export | `core/journal.py` | `DurableJournal`, `BlockStore` | `DurableJournalProofs`, `DamagedJournalProofs` |
| Audit log: hash chain and rotation | `core/audit.py` | `AuditLog` | `AuditLogProofs` |
| Events API | `api/routers/events.py` | `AuditLog` (reader) | `AuditLogProofs` |
| Detection: window, census, score | `core/features.py`, `core/policy.py`, `core/entropy.py` | `Detection` | `DetectionProofs` |
| NBD server | `core/nbd.py` | `NbdServer` | `DaemonProofs` |
| Daemon: threads, control socket, shutdown | `daemon/service.py` | `Daemon`, on `NbdServer` | `DaemonProofs` |
| Recovery API: challenges, exports | `api/routers/recovery.py` | `RecoveryApi`; its copy in `DurableJournal`, its audit entry in `AuditLog` | `DaemonProofs` |
| CLI | `cli/main.py` | what `status` and `issue-token` do to the files, in `AegisEngine` and `DurableJournal` | |
| Transaction core (Rust) | `crates/storage-transaction-core` | `StoreState`, `CowStore`, `WalStore`, `Stores`, `TransactionalStore` | `StoreProofs`, `WalProofs` |

The daemon drives one engine from three threads (HTTP, control socket, NBD). The
engine's lock serialises its methods; each makes several durable writes to the
journal, the audit log and the state file, and the process can stop between any
two. The HTTP export and the events reader touch the same files without the
lock, and CLI commands open them from another process. The Rust transaction core
is a library of its own.

## The modules

**`AegisEngine`.** A method is a walk of `pc` through the durable writes it
makes (`append`, `event`, `transition`, `digest`, `file`, `compact`); the next
method starts at `pc = "idle"`, which is the lock. `ret` is where `_save_state`
returns to and `goal` the transition still to come. `Boot`, `ReportTail`,
`LoadError`, `FirstBoot`, `Restore` and `EnterFault` are the constructor. The
journal is its last sequence and a torn-tail flag; the audit log is what the
engine reads back from it (last digest in the active file, size, whether it
verifies); a digest is the payload it is the digest of. `Crash` may fall between
any two writes, `WriteError` ends a method with an `OSError`, `LoseStateFile`
removes or damages the state file, `CliOpensJournal` is a CLI command. The
policy's decision on a write is left open, so every decision is covered.

**`DurableJournal`.** The log is a sequence of pieces (whole record, fragment,
newline, padding); a position stands for a byte offset. `record_hash` is the
chain of bodies it commits to. Replay, the torn-tail rule, the index and overlay,
`read` and `read(at_sequence)`, `append`, the two replacements of `compact` and
the two copies of an export are modelled. A power cut leaves any prefix of what
was being written, also a whole record without its newline; such a record is
replayed and served, and the next append goes behind it on the same line. The
history variable `glued` says that this has happened. The crash properties are
stated until it does, because from then on they fail (see the counterexamples).
Compactions may fall into an export; `mixed` marks the exports they fell into.
Constants switch on short writes and errors, failed fsyncs, a CLI process and
exports. `BlockStore` is the abstract specification: a write takes effect in one
step, whole or not at all, and nothing else changes the image.

**`AuditLog`.** `append` and `_rotate` as steps of one or two threads: size
check, archive name, rename, new file, boundary entry, body, write, update of
`_last_hash`. An entry's time stands for its hash (times differ, so entries do).
The file operations of one step (open and write, touch and reset) are not split
further. `EventsStart` and `EventsEnd` are the two reads of `GET /events`.

**`Detection`.** The bounded deque of observations, the census of written blocks
that is kept beside it, the features of a snapshot and the weighted score, with
the engine's calls that observe, contain, authorise, reset and restart. A payload
is one of a few contents over the blocks it covers, which fixes its entropy and
what it changes. The score is computed in exact integers: it is multiplied by the
denominators the code divides by, so floating-point rounding is not modelled.
Tokens and durable writes are in `AegisEngine`.

**`NbdServer`.** One connection at a time. The byte stream is a queue of items,
each what one `_recv_exact` takes; the server's actions are the steps of
`negotiate` and `transmit`, and a client may be malformed, pipeline, stop
sending, stop receiving (`reads`), or close at any point, also between a header
and its payload. `recv` and `sendall` have no timeout, so either kind of silence
can hold the thread. The engine is its state; `EngineMoves` is every other
thread. The error code of a reply is left out: a short write is answered with
success, and an `OSError` or `PermissionError` raised after the record is durable
with EIO or EROFS, so nothing about the write follows from it.

**`Daemon`.** Composes `NbdServer` with the control socket's thread and the main
thread over the same engine state. The control handler calls the engine in one
step, under its lock, and reads `engine.state` for its answer in a later one. The
call returns, raises what the handler answers as a refusal, or raises what it
does not catch, which is logged and met with silence (`Result`). Neither a refusal
nor silence says that the engine has not moved: a file operation can raise after
the transition. Both outcomes are therefore possible after a move in the model.

**`RecoveryApi`.** The challenge store with its pruning and eviction, both
readings of the clock, `authorize`, and the export's check of the snapshot limit
beside compactions on another thread. Handlers do not await, so two of them never
interleave. `/authorize` verifies every token for `enter_recovery_read_only`: a
challenge issued for `enter_maintenance` is consumed like any other and can never
be honoured there.

**The transaction core.** `StoreState` is what an operation does to the objects
and names. `CowStore` (two banks and superblocks) and `WalStore` (base and log)
have one action per operation of the crate, with its fault points, its damage
hook, snapshots and garbage collection. `TransactionalStore` is what both
promise; `CowImplements` and `WalImplements` are the refinements. `Stores` puts
both side by side, so that a property can speak of every state either keeps. The
stores do not promise the same for a commit that has its receipt and is not yet
published, and the constant `Supersedes` of `TransactionalStore` is the
difference. `WalStore` begins no transaction over a non-empty log, so only
damage loses such a commit (`FALSE`). `CowStore` begins without asking for
recovery, and the next commit may erase the bank that holds the pending one, as
may garbage collection with a later `retain_from` (`TRUE`). `CowImplements`
allows that loss; the crate's test recovers such a commit without a transaction
in between (`tests.rs:262`). A full log refuses the commit record and leaves its
transaction active. Handles of
aborted or interrupted transactions are issued again. Checksums are the values
they are taken of, slots have no positions, damage is never undone, and deadlines
and transaction names, which only refuse calls, are left out.

`MC*` modules give the constants values. Operators marked "Mutant" are plausible
errors; each is used to show that a property can fail.

## Runs

| Run | What it shows | Bounds |
|---|---|---|
| `engine_crash` | types; a saved containment holds, transitions are legal, nonces stay used, anchors are true, a restart restores, incidents are anchored | 4 tokens, 3 instants, 2 records, 5 versions; loss of the state file; no rotation, no write errors |
| `engine_rotation` | containment holds, and once crashes stop the engine serves again (`KeepsServing`) | rotation every 3 entries, write errors, 2 instants, 1 record, 4 versions |
| `journal_crash` | until an append is glued to a record without newline: always opens, acknowledged writes durable, point-in-time reads, implements `BlockStore`; exports that met no compaction faithful | 2 blocks, two writes, 3 records between compactions, exports |
| `journal_damage` | a read is right or raises | 2 records; cuts in front of the newline, short writes and errors, a CLI process |
| `audit_crash` | chain verifies, acknowledged entries kept, cross-file chain, events in order | one appender, rotation every 2 lines, 8 entries, crashes inside the rotation |
| `detection` | census exact, no alert without a read before a write, a sweep is contained by the write that completes it | 2 of 40 blocks, alone or together, 3 contents, a window of 3 operations of which 2 are the minimum |
| `nbd` | stream framed, replies in order, requests of a client that receives answered, the server accepts again once a client is gone | 7 kinds of request, 2 outstanding |
| `daemon` | positive answers name the state established, commands answered, a signal ends the process | every control command, one NBD write at a time |
| `recovery_api` | store bounded, challenges kept until they expire | store of 2, lifetime 1, 4 challenges, 5 instants, 2 snapshots, 2 compactions |
| `stores` | copy-on-write store always recoverable, log replays to the working state, states sound, each store implements `TransactionalStore` with its `Supersedes`, deleted handles stay gone | 1 object of 3 bytes, 1 name, 1 snapshot, 3 handles, 2 generations, log of 4 records |

The bounds let every case happen at least twice where repetition matters: two
incidents with different tokens, a record overwritten by one that covers two
blocks, a torn tail after a torn tail, a compaction after a recovery, three
archives, a window that has evicted as much as it holds, a challenge evicted
while a later one expires, a commit over an interrupted commit, counters at
their limit. In `detection` the two blocks are a twentieth of the namespace, so
coverage saturates when both are written. `stores` has one object, so the part
of `StatesSound` about the sum over several objects rests on its proof, which has
any number. The type invariants of the other modules hold in their runs too; most
are part of an inductive invariant below.

Deadlock is checked in `detection` and `recovery_api`. The other
runs end where the bounds end, where a log that does not open stops the system
for good, or where a thread or the process is over.

**Fairness.** `engine_rotation` and `engine_torn_audit`: weak fairness of
start-up (the systemd unit has `Restart=on-failure`) and of the next durable
write of a running method (a method waits for nothing but the disk). `nbd`: weak
fairness of the server's thread. `daemon`: weak fairness of the NBD thread, the
control thread and the main thread, which the operating system schedules
separately. Clients (who need neither send nor receive), signals, crashes, losses
and calls have none.
`KeepsServing` assumes that crashes stop and that the audit log verifies.

Two runs find a disagreement between the code and what its documentation or
tests say (each has an entry under `findings`):

| Run | What happens |
|---|---|
| `engine_replay_after_fault` | a start that enters FAULT forgets the used nonces, so a token used before is accepted again |
| `engine_torn_audit` | a torn audit line stops every later start |

Further counterexamples, each one change away from a passing configuration
(set the constant, drop the conjunct from the property, or check the property in
place of those listed):

| Configuration | Change | Fails | What happens |
|---|---|---|---|
| `engine_crash` | `RotateAt = 3` | `RestartRestores` | after a rotation an ordinary restart enters FAULT |
| `engine_crash` | `RotateAt = 3` | `ContainmentHeld` | after a rotation a missing state file is a first boot, in normal |
| `engine_crash` | | `NonceKeptWhileValid` | in the second a token expires it verifies and its nonce is pruned |
| `engine_crash` | | `AnchorsInJournal` | a crash between compaction and save restores anchors past the journal |
| `engine_crash` | | `RecoveryNeverSilent` | a tail discarded by the CLI or an interrupted start is not audited |
| `engine_crash` | `WriteErrors = TRUE` | `ContainedStaysDown` | a containment whose save raised is gone after a restart |
| `engine_crash` | `WriteErrors = TRUE` | `IncidentAnchored` | a maintenance whose save raised compacts the journal, and a restart brings the old containment back with its anchor past the end |
| `journal_crash` | | `DiscardLosesNothing` | a served record is discarded with the append glued to it |
| `journal_crash` | without `~glued` | `AlwaysOpens`, `AckedDurable`, `PointInTime` | the same, seen by a start or a read; with one more append the start refuses the log |
| `journal_crash` | without `glued'` | `ImplementsBlockStore` | the same, as a change of the image by no write |
| `journal_crash` | `IoErrors = TRUE` | `AckedDurable` | a short write is acknowledged |
| `journal_crash` | `IoErrors = TRUE` | `AlwaysOpens` | an error late in a compaction leaves an empty log under the old sequence; the next append is refused by the next start |
| `journal_crash` | `CliRuns = TRUE` | `AckedDurable` | a CLI command truncates a record being appended |
| `journal_crash` | | `CompactionAtomic` | past reads after an interrupted compaction see later data |
| `journal_crash` | `TrackSidecars = TRUE` | `SidecarsKept` | a second torn tail at the same offset overwrites the sidecar |
| `journal_crash` | without `~export.mixed` | `ExportFaithful` | an export mixes two generations |
| `journal_damage` | `FailedFsync = TRUE` | `ReadsNeverWrong` | a read returns the data of a record whose append failed |
| `audit_crash` | `Appenders <- MCEngineAndExport` | `ChainVerifies` | the engine's and the export's appends take the same previous hash |
| `audit_crash` | `Appenders <- MCEngineAndExport` | `AckedKept` | two rotations choose one archive name |
| `audit_crash` | `LostNewline = TRUE` | `ChainVerifies` | an entry without its newline runs into the next |
| `audit_crash` | `LostNewline = TRUE` | `AckedKept` | the two entries are no line of the log any more |
| `audit_crash` | | `BoundaryFirst` | a crash in the rotation leaves a new file without its boundary entry |
| `audit_crash` | | `EventsComplete` | a rotation between two reads hides events |
| `detection` | | `CleanAfterMaintenance` | observations from before maintenance contain the device again |
| `nbd` | | `ServesEveryone` | a client that connects and says nothing keeps the one connection |
| `nbd` | without `~reads` | `RequestAnswered` | a client that does not receive holds the thread in `sendall` |
| `recovery_api` | | `ExpiredRefused` | `/authorize` does not prune, so an expired challenge is still answered for |
| `recovery_api` | | `SnapshotsCapped` | compactions make snapshots without looking at the limit |

Two more divergences need no run. `enter_maintenance` is documented as
"re-enabling writes" (`core/engine.py:366`, `docs/API.md:78`), and `write`
accepts only normal and elevated (`core/engine.py:276`). `docs/ARCHITECTURE.md:81`
gives the alert threshold as 0.65, the code (`core/policy.py:31`) and
`docs/DETECTION.md:87` as 0.72; `AlertNeedsRead` is about the 0.72, and a window
of writes alone can score 0.70.

## Proofs

Each theorem holds for every value of the constants that satisfies the module's
named assumptions and those in the last column.

| Theorem | States | Needs |
|---|---|---|
| `TypeCorrect` | `[]TypeOK` of the engine | |
| `TransitionsLegal` | `[]NoIllegalTransition` | |
| `NonceSingleUse` | `[]NonceHeld` | |
| `AnchorsCleared` | `[]NoStaleAnchors` | |
| `ContainmentSafe` | `[]ContainmentHeld` | no rotation, or no loss of the state file |
| `IncidentsAnchored` | `[]IncidentAnchored` | no write errors |
| `RestartSafe` | `[]RestartRestores` | no rotation |
| `CrashesOpen`, `AcknowledgedWritesDurable`, `PastReadable` | `[]AlwaysOpens`, `[]AckedDurable`, `[]PointInTime` | only crashes |
| `ExportsFaithful` | `[](~glued => ExportFaithful)` | only crashes |
| `JournalRefines` | the journal implements `BlockStore` | only crashes |
| `JournalTypes` | `[]TypeOK` of the journal | |
| `DamagedReads` | `[]ReadsNeverWrong` | no fsync that raises with the whole record written |
| `AuditChainVerifies`, `AuditAckedKept`, `AuditCrossFileChain`, `AuditEventsOrdered` | `[]ChainVerifies`, `[]AckedKept`, `[]CrossFileChain`, `[]EventsOrdered` | one appender, no newline lost alone |
| `DetectionCensus` | `[]CensusExact` | |
| `DetectionAlertNeedsRead`, `DetectionSweepContained` | the two action properties of `Detection` | |
| `NbdInSync`, `NbdRepliesInOrder` | `[]InSync`, `[]RepliesInOrder` | |
| `DaemonAnswerNamesState` | `[]AnswerNamesState` | |
| `ApiStoreBounded`, `ApiKeptUntilExpiry`, `ApiOneTime`, `ApiExportsCapped` | the invariants of `RecoveryApi` | |
| `CowAlwaysRecoverable` | `[]CowRecoverable` | |
| `CowRefines` | the copy-on-write store implements `TransactionalStore` with `Supersedes = TRUE` | |
| `WalLogReplays` | `[]LogReplays` | |
| `WalRefines` | the write-ahead store implements `TransactionalStore` with `Supersedes = FALSE` | |
| `StoresSound` | `[]StatesSound`, on `CowStatesSound` and `WalStatesSound` | |
| `HandlesStayGone` | `HandleNeverReturns` | |

"Only crashes" is `OnlyCrashes`: no write falls short or raises, and no CLI process
opens the journal. What a crash leaves is not restricted; the properties
themselves, and for exports the theorem, except what follows an append behind a
record without its newline. Exports are checked beyond it by the run.

The properties are not inductive as they stand. The strengthenings, each checked
with TLC before it was proved, are:

- *Engine.* A crash makes the file the state, so the invariants speak of memory,
  file and recorded digest together. `ControlInv` says which transition each label
  can be heading for and ties the file written at `pc = "file"` to the digest
  recorded before it; `HeldInv` says that what a restart would restore is not
  writable while a containment is held; `NonceInv` that every saved nonce is in
  all three places unless it expired; `AnchorInv`, `IncidentInv` and `RestartInv`
  relate anchors and payload in the same way.
- *Journal, crashes only.* `JournalInv`: the log is a chain of whole records with
  at most the beginning of one more behind it (`Shape`); the memory of an open
  journal is what `_replay` would build from this file (`MemoryInv`); the image of
  base and log is the last one promised. Between the two replacements of
  `compact` the new base already is that image, so replaying the old log over it
  changes nothing. `ExportInv` adds that what an export has copied so far is still the
  base of the log it goes on to copy.
- *Journal, damaged.* Nothing is known of the log's shape, so `Matches` speaks of
  single records: one in the file that is open for reading, with the sequence of
  the newest index entry of a block and the length of that entry, holds what the
  session last said of the block.
- *Audit log.* `AuditInv`: what `append` has established at each of its steps
  (`Progress`); a file that verifies has all its newlines, so a line added to it
  stays a line of its own; archives are exactly `1..Made`, and fewer than the
  entries made, so a number is always free; the boundary entries of the file that
  will be archive `n` already name `n - 1`. A line torn by a crash is covered by
  the fact that no process runs on a file that does not verify. `OrderInv`, on
  top of it: times rise within a file that verifies, every archive is older than
  the next ones and than the file, the entry being written is younger than all of
  them, and what a running `GET /events` holds is older than the file even after
  the file was renamed. That joining rising files gives rising lines is
  `JoinedRising`.
- *Detection.* `CensusInv` is the type invariant and the census: evicting the
  head of the window and appending are each shown to change one count by one.
  The two action properties are arithmetic on top of it: with
  no write read before, the other components weigh at most 70 hundredths, below
  the alert's 72; in a sweep every component but the fraction of writes and the
  deallocations is full, 88 hundredths, above the containment's 82.
- *NBD.* `NbdInv`: the headers in the stream, after the request being handled,
  are the client's outstanding requests in their order (`Ordered`, with the
  position of each as a witness); a write's header is followed by its payload
  (`Framed`) and only a fresh connection starts with a greeting.
- *Daemon.* `AnswerInv`: between the engine call and the composition of its
  answer the engine is in a state the command can have led to; only the control
  thread itself leaves recovery and maintenance.
- *Recovery API.* `ChallengesInv`: identifiers are distinct and the announced
  expiry is at most one second later than the one pruning goes by.
- *Write-ahead store.* `WalInv`: the log of an active transaction holds no commit
  record and replays to its working state. `ReplayNext` is the step: one more
  record replays as one more operation. Once the commit record is in, the
  abstract store's pending commit is what the log replays to.
- *Both stores.* `CowSound` and `WalSound`: every state kept is sound, and what may
  be published next `Extends` what is, that is, hands out handles upwards and
  revives none. That an operation keeps the reserve free rests on what one
  changed object does to the sum over all of them (`used_bytes`).
- *Copy-on-write store.* `CowInv`: a superblock describes its bank, the active
  bank's verifies, an inactive one has another generation, and an active
  transaction has that of what it started from.

Each condition in the last column excludes a failure that the table of
counterexamples has a row for; not every theorem fails with each of them.

Some facts are inductions over data: what a replay of any length computes, what a
sum over any set is, what the join of any number of files holds. The library's
induction rules cannot be instantiated by the provers, so these are proved by
least counterexample: the set of naturals for which the claim fails has a least
element if it has one (`LeastNatural`, from the well-foundedness of `<`), and the
step from its predecessor contradicts it. The existence of the recursive function
itself is shown in the same way.

Only model-checked: liveness (`KeepsServing`, `RequestAnswered`, `AcceptsAgain`,
`CommandAnswered`, `ShutdownCompletes`), since fairness and `ENABLED` are outside
the prover; and what the code does under the conditions the theorems exclude.
Every safety property of a passing run has a theorem.

## Not modelled

- *Signatures, checksums, hashes* are taken as perfect; byte layouts, printing
  and floating-point rounding are left out.
- *Contract crates* (`storage-guardian-contract`, `dma-command-ir`,
  `authority-membrane-contract`, `kernel/guardian-monitor`): pure guards over a
  context the caller supplies, and nothing in the repository calls them. There is
  no state to model, and a property would repeat a guard.
- *HTTP plumbing and status* (`api/app.py`, `api/auth.py`, `status.py`), the
  *dashboard*, *offline tools* (benchmark, workloads, traces, sizing, config) and
  *deployment*: no state of their own.
- *CLI*: printing, provisioning and the simulator.
- *Detection*: evidence strings.
- *Errors inside an audit rotation* that leave the file half made: a `touch` that
  fails after the rename, or an fsync of the boundary entry. Other errors of the
  engine's durable writes are `WriteError`, and crashes at these points are in
  `AuditLog`.
- *NBD and control socket*: what the error code or text of an answer says.
