------------------------------- MODULE WalStore -------------------------------
(***************************************************************************)
(* The write-ahead-log store of storage-transaction-core: a base state and *)
(* a log of the one transaction made since.  A commit appends its record,  *)
(* publishes the working state and clears the log; recovery replays a log  *)
(* that ends in a commit record and drops any other.                       *)
(*                                                                         *)
(* A log entry is a record and whether its checksum is the expected one.   *)
(* As in CowStore, checksums are the values they are taken of and refused  *)
(* calls are not steps.                                                    *)
(***************************************************************************)
EXTENDS StoreState

CONSTANT MaxWalRecords

VARIABLES base, log, wal_active, wal_snapshots

walVars == <<base, log, wal_active, wal_snapshots>>

Entry(record) == [record |-> record, ok |-> TRUE]

CanAppend == Len(log) < MaxWalRecords

BeginRecord == [op |-> "begin", base_generation |-> base.generation]

CommitRecord(s) ==
    [op |-> "commit", generation |-> s.generation, state_checksum |-> s]

WalReady == wal_active # None /\ ~wal_active.cancelled

WalInit ==
    /\ base = Empty
    /\ log = <<>>
    /\ wal_active = None
    /\ wal_snapshots = NoSnapshots

\* A log that is not empty must be recovered first (Err(RecoveryRequired)).
WalBegin ==
    /\ wal_active = None
    /\ log = <<>>
    /\ CanAppend
    /\ log' = Append(log, Entry(BeginRecord))
    /\ wal_active' = [state |-> base, cancelled |-> FALSE]
    /\ UNCHANGED <<base, wal_snapshots>>

\* Mutant: bind were not logged.
WalOperateUnlogged(o) ==
    /\ WalReady
    /\ CanApply(wal_active.state, o)
    /\ CanAppend
    /\ log' = IF o.op = "bind" THEN log ELSE Append(log, Entry(o))
    /\ wal_active' = [wal_active EXCEPT !.state = Apply(wal_active.state, o)]
    /\ UNCHANGED <<base, wal_snapshots>>

\* The operation is made on a copy and kept only once its record fits.
WalOperate(o) ==
    /\ WalReady
    /\ CanApply(wal_active.state, o)
    /\ CanAppend
    /\ log' = Append(log, Entry(o))
    /\ wal_active' = [wal_active EXCEPT !.state = Apply(wal_active.state, o)]
    /\ UNCHANGED <<base, wal_snapshots>>

\* commit: a full log refuses the record and the transaction stays active;
\* the fault "before" comes before the append.
WalCommit(fault) ==
    /\ WalReady
    /\ CanAdvance(wal_active.state)
    /\ fault # "before" => CanAppend
    /\ LET candidate == Candidate(wal_active.state)
           entry == [record |-> CommitRecord(candidate), ok |-> fault # "corrupt"] IN
        /\ log' = CASE fault = "none"   -> <<>>
                    [] fault = "before" -> log
                    [] OTHER            -> Append(log, entry)
        /\ base' = IF fault = "none" THEN candidate ELSE base
    /\ wal_active' = None
    /\ UNCHANGED wal_snapshots

WalAbort ==
    /\ wal_active # None
    /\ wal_active' = None
    /\ log' = <<>>
    /\ UNCHANGED <<base, wal_snapshots>>

WalCancel ==
    /\ wal_active # None
    /\ wal_active' = [wal_active EXCEPT !.cancelled = TRUE]
    /\ UNCHANGED <<base, log, wal_snapshots>>

WalSnapshot ==
    /\ CanCapture(wal_snapshots)
    /\ wal_snapshots' = Capture(wal_snapshots, base)
    /\ UNCHANGED <<base, log, wal_active>>

WalGc(retain_from) ==
    /\ wal_snapshots' = Reclaim(wal_snapshots, retain_from)
    /\ UNCHANGED <<base, log, wal_active>>

\* Damage to the last entry.
WalDamage ==
    /\ log # <<>>
    /\ log' = [log EXCEPT ![Len(log)].ok = FALSE]
    /\ UNCHANGED <<base, wal_active, wal_snapshots>>

-----------------------------------------------------------------------------
(* Recovery.                                                               *)

Damaged == \E i \in 1..Len(log) : ~log[i].ok

\* The replay after the first i entries: the state, or None once the log is
\* rejected.  A commit record must be the last, name the next generation and
\* carry the checksum of what was replayed.
Replay ==
    LET replay[i \in 1..Len(log)] ==
            LET s == replay[i - 1]
                r == log[i].record IN
            IF i = 1
            THEN IF r.op = "begin" /\ r.base_generation = base.generation
                 THEN base ELSE None
            ELSE IF s = None \/ r.op = "begin" THEN None
            ELSE IF r.op = "commit"
            THEN IF i = Len(log) /\ r.generation = base.generation + 1
                    /\ r.state_checksum = Candidate(s)
                 THEN Candidate(s) ELSE None
            ELSE IF CanApply(s, r) THEN Apply(s, r) ELSE None
    IN  replay[Len(log)]

Committed == log[Len(log)].record.op = "commit"

\* What recover would publish.
WalPending ==
    IF log = <<>> \/ Damaged THEN None ELSE IF Committed THEN Replay ELSE None

\* Mutant: recovery published what was replayed with or without a commit record.
WalRecoverUncommitted ==
    /\ wal_active' = None
    /\ base' = IF log # <<>> /\ ~Damaged /\ Replay # None THEN Replay ELSE base
    /\ log' = <<>>
    /\ UNCHANGED wal_snapshots

WalRecover ==
    /\ wal_active' = None
    /\ base' = IF WalPending # None THEN WalPending ELSE base
    /\ log' = <<>>
    /\ UNCHANGED wal_snapshots

WalFaults == {"none", "before", "corrupt", "after"}

WalNext ==
    \/ WalBegin
    \/ \E o \in Requests : WalOperate(o)
    \/ \E fault \in WalFaults : WalCommit(fault)
    \/ WalAbort \/ WalCancel \/ WalSnapshot
    \/ \E retain_from \in 0..MaxGeneration : WalGc(retain_from)
    \/ WalDamage \/ WalRecover

WalSpec == WalInit /\ [][WalNext]_walVars

-----------------------------------------------------------------------------
(* Properties.                                                             *)

\* Replaying the log of an active transaction over the base gives exactly its
\* working state: no operation succeeds without its record, and none is
\* recorded that replays differently.
LogReplays == wal_active # None => Replay = wal_active.state

WalTs == INSTANCE TransactionalStore WITH
    committed <- base,
    working   <- IF wal_active = None THEN None ELSE wal_active.state,
    cancelled <- IF wal_active = None THEN FALSE ELSE wal_active.cancelled,
    pending   <- WalPending,
    intact    <- ~Damaged,
    snapshots <- Captured(wal_snapshots),
    Supersedes <- FALSE

\* The write-ahead-log store implements the transactional store that asks for
\* recovery: a commit that has its receipt, undamaged, is never lost, as begin
\* refuses while there is a log to recover (lib.rs:1529).
WalImplements == WalTs!TsSpec
=============================================================================
