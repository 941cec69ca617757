----------------------------- MODULE AegisEngine -----------------------------
(***************************************************************************)
(* The protection engine of aegis_shield/core/engine.py: its state machine,*)
(* the single-use recovery tokens, and the way every change is made        *)
(* durable.  A public method runs under the engine's one lock, so at most  *)
(* one is in progress, but it makes several durable writes (journal, audit *)
(* log, state file) and the process can stop between any two of them.  A   *)
(* method is therefore a walk of pc through the durable writes it makes;   *)
(* the next method starts only at pc = "idle".                             *)
(*                                                                         *)
(* The journal is represented by its last sequence number and a flag for a *)
(* torn final record, the audit log by what the engine reads back from it: *)
(* the last state digest in the active file, whether the file is empty,    *)
(* how full it is, and whether it still verifies.  A digest is represented *)
(* by the payload it is the digest of.                                     *)
(***************************************************************************)
EXTENDS Integers

CONSTANTS
    Tokens,         \* the signed authorizations that exist
    ClockSkew,      \* tolerated issue time in the future (60 s in tokens.py)
    MaxLifetime,    \* longest token lifetime (900 s in tokens.py)
    RotateAt,       \* entries at which the audit file is rotated, 0 for never
    FileLoss,       \* whether the state file may be lost or damaged while down
    WriteErrors,    \* whether a durable write may raise OSError
    MaxTime,        \* bound on the clock
    MaxSequence,    \* bound on the journal
    MaxVersion,     \* bound on state_version
    None,           \* Python's None
    Unreadable      \* a state file that does not parse

States == {"boot_selftest", "provisioning", "normal", "elevated", "contained",
           "recovery_read_only", "maintenance", "fault"}

Sequence == Nat \cup {None}

Token == [device_id: BOOLEAN, action: {"enter_recovery_read_only", "enter_maintenance"},
          state_version: Nat, target_sequence: Sequence,
          issued_unix: Nat, expires_unix: Nat, nonce: Nat]

\* What engine_state.json holds; nonces are kept with their tokens' expiry.
Payload == [state: States, state_version: Nat, containment_sequence: Sequence,
            recovery_sequence: Sequence, used_nonces: SUBSET Tokens]

ASSUME TokensAssumption ==
    /\ Tokens \subseteq Token
    /\ \A t, u \in Tokens : t.nonce = u.nonce => t = u

ASSUME BoundsAssumption ==
    /\ ClockSkew \in Nat /\ MaxLifetime \in Nat /\ RotateAt \in Nat
    /\ MaxTime \in Nat /\ MaxSequence \in Nat /\ MaxVersion \in Nat
    /\ FileLoss \in BOOLEAN /\ WriteErrors \in BOOLEAN

ASSUME NoneAssumption ==
    /\ None \notin Nat /\ None \notin States /\ None \notin Payload
    /\ None \notin Tokens
    /\ Unreadable \notin Payload /\ None # Unreadable

VARIABLES
    pc,                    \* the durable write the running method makes next
    ret,                   \* where _save_state returns to
    goal,                  \* the target of the _transition still to come, or None
    serving,               \* __init__ has returned
    state, state_version, containment_sequence, recovery_sequence, used_nonces,
    last_sequence,         \* DurableJournal.last_sequence
    tail_torn,             \* the log ends in a partial record
    recorded,              \* last state digest in the active audit file, or None
    audit_size,            \* entries in the active audit file, saturating
    audit_broken,          \* AuditLog.verify raises on the active file
    stateFile,             \* engine_state.json: a payload, None or Unreadable
    now,
    \* History variables, read by the properties only.
    token,                 \* the token the running method has accepted
    spent,                 \* tokens whose nonce a completed save has covered
    untrusted,             \* some load did not restore the saved state
    held,                  \* a containment was saved and no maintenance authorised since
    unsaved,               \* an OSError cut a method off after it changed the state
    unreported             \* a torn tail was discarded and not audited

control == <<pc, ret, goal, serving>>
memory  == <<state, state_version, containment_sequence, recovery_sequence, used_nonces>>
journal == <<last_sequence, tail_torn>>
audit   == <<recorded, audit_size, audit_broken>>
history == <<token, spent, untrusted, held, unsaved, unreported>>
vars    == <<control, memory, journal, audit, stateFile, now, history>>

-----------------------------------------------------------------------------
Writable == {"normal", "elevated"}

\* The adjacency table of _transition.
Allowed ==
    UNION {{"boot_selftest"} \X {"normal", "provisioning", "fault"},
           {"provisioning"} \X {"normal", "fault"},
           {"normal"} \X {"elevated", "contained", "maintenance", "fault"},
           {"elevated"} \X {"normal", "contained", "fault"},
           {"contained"} \X {"recovery_read_only", "maintenance", "fault"},
           {"recovery_read_only"} \X {"maintenance", "fault"},
           {"maintenance"} \X {"normal", "fault"},
           {"fault"} \X {"maintenance"}}

MaintenanceEntryStates == {"normal", "contained", "recovery_read_only", "fault"}

CompactionStates == {"normal", "maintenance"}

PruneNonces(nonces) == {t \in nonces : t.expires_unix > now}

CurrentPayload(nonces) ==
    [state |-> state, state_version |-> state_version,
     containment_sequence |-> containment_sequence,
     recovery_sequence |-> recovery_sequence, used_nonces |-> nonces]

\* TokenVerifier.verify for a token of this action.
Verify(t, action) ==
    /\ t.device_id
    /\ t.action = action
    /\ t.state_version = state_version
    /\ t.issued_unix <= now + ClockSkew
    /\ t.expires_unix >= now
    /\ t.expires_unix - t.issued_unix <= MaxLifetime

\* Mutant: the target is not compared with the end of the journal.
RecoveryAcceptedUnbounded(t) ==
    /\ state = "contained"
    /\ Verify(t, "enter_recovery_read_only")
    /\ t \notin used_nonces
    /\ t.target_sequence # None

\* The checks authorize_recovery makes before it changes anything.
RecoveryAccepted(t) ==
    /\ state = "contained"
    /\ Verify(t, "enter_recovery_read_only")
    /\ t \notin used_nonces
    /\ t.target_sequence # None
    /\ t.target_sequence \in 0..last_sequence

\* The checks enter_maintenance makes before it changes anything.
MaintenanceAccepted(t) ==
    /\ state \in MaintenanceEntryStates
    /\ Verify(t, "enter_maintenance")
    /\ t \notin used_nonces

\* AuditLog.append of one entry: rotation first when the file is full, which
\* leaves a fresh file holding the boundary entry.  digest is the payload of a
\* state_persisted entry and None for every other event.
RotationDue == RotateAt > 0 /\ audit_size >= RotateAt

\* Only "empty" and "full" are ever asked of the size, so it stops at full.
Saturate(n) == IF n > 1 /\ n > RotateAt THEN (IF RotateAt > 1 THEN RotateAt ELSE 1) ELSE n

AuditAppend(digest) ==
    /\ recorded' = IF digest # None THEN digest
                   ELSE IF RotationDue THEN None ELSE recorded
    /\ audit_size' = Saturate(IF RotationDue THEN 2 ELSE audit_size + 1)
    /\ UNCHANGED audit_broken

\* The labels at which the next durable write is an audit entry.
Appending == {"tail", "fault", "event", "transition", "digest"}

\* Mutant: a missing state file is always a first boot.
LoadOutcomeMissingIsNew ==
    IF stateFile = None THEN "first_boot"
    ELSE IF stateFile = Unreadable THEN "error"
    ELSE IF recorded = stateFile \/ (recorded = None /\ audit_size = 0) THEN "restore"
    ELSE "error"

\* Mutant: an active audit file without a digest is always a first boot.
LoadOutcomeUnrecordedIsNew ==
    IF recorded = None THEN "first_boot"
    ELSE IF stateFile = recorded THEN "restore"
    ELSE "error"

\* An append that ends inside _rotate, after the rename or the boundary entry.
RotationCutShort ==
    /\ pc \in Appending /\ RotationDue
    /\ recorded' = None /\ audit_size' \in {0, 1}

\* What _load_state concludes from the files.
LoadOutcome ==
    IF stateFile = None THEN IF recorded = None THEN "first_boot" ELSE "error"
    ELSE IF stateFile = Unreadable THEN "error"
    ELSE IF recorded = stateFile \/ (recorded = None /\ audit_size = 0) THEN "restore"
    ELSE "error"

\* Where a method goes once its event is logged: on to the transition it has
\* decided on, or back to the caller.
AfterEvent == IF goal = None THEN "idle" ELSE "transition"

Goto(label) ==
    /\ pc' = label
    /\ serving' = (serving \/ label = "idle")
-----------------------------------------------------------------------------
(* Start-up: open the journal and the audit log, load the state.           *)

\* DurableJournal replays the log and cuts a torn tail off before AegisEngine
\* exists; the AuditLog constructor then raises if the file does not verify.
Boot ==
    /\ pc = "down"
    /\ tail_torn' = FALSE
    /\ unreported' = (unreported \/ tail_torn)
    /\ Goto(IF audit_broken THEN "down" ELSE IF tail_torn THEN "tail" ELSE "load")
    /\ UNCHANGED <<ret, goal, memory, last_sequence, audit, stateFile, now,
                   token, spent, untrusted, held, unsaved>>

ReportTail ==
    /\ pc = "tail"
    /\ AuditAppend(None)
    /\ Goto("load")
    /\ unreported' = FALSE
    /\ UNCHANGED <<ret, goal, memory, journal, stateFile, now,
                   token, spent, untrusted, held, unsaved>>

\* Mutant: the load is tried again instead of entering fault.
LoadErrorRetries ==
    /\ pc = "load"
    /\ LoadOutcome = "error"
    /\ Goto("load")
    /\ untrusted' = TRUE
    /\ UNCHANGED <<ret, goal, memory, journal, audit, stateFile, now,
                   token, spent, held, unsaved, unreported>>

LoadError ==
    /\ pc = "load"
    /\ LoadOutcome = "error"
    /\ Goto("fault")
    /\ untrusted' = TRUE
    /\ UNCHANGED <<ret, goal, memory, journal, audit, stateFile, now,
                   token, spent, held, unsaved, unreported>>

FirstBoot ==
    /\ pc = "load"
    /\ LoadOutcome = "first_boot"
    /\ goal' = "normal"
    /\ Goto("transition")
    /\ untrusted' = (untrusted \/ spent # {})
    /\ UNCHANGED <<ret, memory, journal, audit, stateFile, now,
                   token, spent, held, unsaved, unreported>>

\* Mutant: the nonces of the state file are not restored.
RestoreWithoutNonces ==
    /\ pc = "load"
    /\ LoadOutcome = "restore"
    /\ state' = stateFile.state
    /\ state_version' = stateFile.state_version
    /\ containment_sequence' = stateFile.containment_sequence
    /\ recovery_sequence' = stateFile.recovery_sequence
    /\ used_nonces' = {}
    /\ held' = (held \/ stateFile.state = "contained")
    /\ Goto("event")
    /\ UNCHANGED <<ret, goal, journal, audit, stateFile, now,
                   token, spent, untrusted, unsaved, unreported>>

Restore ==
    /\ pc = "load"
    /\ LoadOutcome = "restore"
    /\ state' = stateFile.state
    /\ state_version' = stateFile.state_version
    /\ containment_sequence' = stateFile.containment_sequence
    /\ recovery_sequence' = stateFile.recovery_sequence
    /\ used_nonces' = PruneNonces(stateFile.used_nonces)
    /\ held' = (held \/ stateFile.state = "contained")
    /\ Goto("event")
    /\ UNCHANGED <<ret, goal, journal, audit, stateFile, now,
                   token, spent, untrusted, unsaved, unreported>>

EnterFault ==
    /\ pc = "fault"
    /\ state' = "fault"
    /\ state_version' = state_version + 1
    /\ AuditAppend(None)
    /\ ret' = "idle"
    /\ Goto("digest")
    /\ UNCHANGED <<goal, containment_sequence, recovery_sequence, used_nonces,
                   journal, stateFile, now, history>>

-----------------------------------------------------------------------------
(* The public methods, up to their first durable write.                    *)

Call(label) ==
    /\ pc = "idle"
    /\ state_version < MaxVersion
    /\ Goto(label)
    /\ UNCHANGED <<journal, audit, stateFile, now,
                   spent, untrusted, held, unsaved, unreported>>

\* The policy's decision on a write is left open.
Write ==
    \E decision \in {"none", "alert", "contain"} :
        /\ Call("append")
        /\ state \in Writable
        /\ last_sequence < MaxSequence
        /\ goal' = IF decision = "contain" THEN "contained"
                   ELSE IF decision = "alert" /\ state = "normal" THEN "elevated" ELSE None
        /\ UNCHANGED <<ret, memory, token>>

Flush ==
    /\ Call("event")
    /\ goal' = None
    /\ UNCHANGED <<ret, memory, token>>

\* Mutant: a destructive command contains the engine in every state.
RejectInEveryState ==
    /\ Call("event")
    /\ goal' = "contained"
    /\ UNCHANGED <<ret, memory, token>>

RejectDestructiveCommand ==
    /\ Call("event")
    /\ goal' = IF state \in Writable THEN "contained" ELSE None
    /\ UNCHANGED <<ret, memory, token>>

AuthorizeRecovery(t) ==
    /\ RecoveryAccepted(t)
    /\ Call("digest")
    /\ ret' = "transition"
    /\ goal' = "recovery_read_only"
    /\ used_nonces' = used_nonces \cup {t}
    /\ recovery_sequence' = t.target_sequence
    /\ token' = t
    /\ UNCHANGED <<state, state_version, containment_sequence>>

EnterMaintenance(t) ==
    /\ MaintenanceAccepted(t)
    /\ Call("digest")
    /\ ret' = "transition"
    /\ goal' = "maintenance"
    /\ used_nonces' = used_nonces \cup {t}
    /\ token' = t
    /\ UNCHANGED <<state, state_version, containment_sequence, recovery_sequence>>

ExitMaintenance ==
    \E compact \in BOOLEAN :
        /\ state = "maintenance"
        /\ Call(IF compact THEN "compact" ELSE "transition")
        /\ goal' = "normal"
        /\ UNCHANGED <<ret, memory, token>>

CompactJournal ==
    /\ state \in CompactionStates
    /\ Call("compact")
    /\ goal' = None
    /\ UNCHANGED <<ret, memory, token>>
-----------------------------------------------------------------------------
(* The durable writes, in the order the methods make them.                 *)

\* DurableJournal.append of the record, fsync included.
AppendRecord ==
    /\ pc = "append"
    /\ last_sequence' = last_sequence + 1
    /\ Goto("event")
    /\ UNCHANGED <<ret, goal, memory, tail_torn, audit, stateFile, now, history>>

\* The event a method logs: write_persisted, flush_complete,
\* destructive_command_rejected, journal_compacted or engine_restored.
LogEvent ==
    /\ pc = "event"
    /\ AuditAppend(None)
    /\ Goto(AfterEvent)
    /\ UNCHANGED <<ret, goal, memory, journal, stateFile, now, history>>

\* Mutant: leaving maintenance keeps the containment anchor.
AssignKeepsAnchor(target) ==
    /\ state' = target
    /\ state_version' = state_version + 1
    /\ containment_sequence' = IF target = "contained" THEN last_sequence
                               ELSE containment_sequence
    /\ recovery_sequence' = IF target = "normal" THEN None ELSE recovery_sequence

\* The assignments around _transition: write and reject_destructive_command
\* anchor the containment, exit_maintenance drops both anchors.
Assign(target) ==
    /\ state' = target
    /\ state_version' = state_version + 1
    /\ containment_sequence' = IF target = "contained" THEN last_sequence
                               ELSE IF target = "normal" THEN None
                               ELSE containment_sequence
    /\ recovery_sequence' = IF target = "normal" THEN None ELSE recovery_sequence

\* _transition up to its save.  A target outside the table would raise here.
Transition ==
    /\ pc = "transition"
    /\ <<state, goal>> \in Allowed
    /\ Assign(goal)
    /\ AuditAppend(None)
    /\ goal' = None
    /\ ret' = "idle"
    /\ held' = (held /\ goal # "maintenance")
    /\ Goto("digest")
    /\ UNCHANGED <<used_nonces, journal, stateFile, now,
                   token, spent, untrusted, unsaved, unreported>>

\* _save_state, first half: the digest of the payload goes to the audit log.
SaveDigest ==
    /\ pc = "digest"
    /\ used_nonces' = PruneNonces(used_nonces)
    /\ AuditAppend(CurrentPayload(PruneNonces(used_nonces)))
    /\ Goto("file")
    /\ UNCHANGED <<ret, goal, state, state_version, containment_sequence,
                   recovery_sequence, journal, stateFile, now, history>>

\* _save_state, second half: temporary file, fsync, rename.
SaveFile ==
    /\ pc = "file"
    /\ stateFile' = CurrentPayload(used_nonces)
    /\ Goto(ret)
    /\ spent' = IF token = None THEN spent ELSE spent \cup {token}
    /\ token' = None
    /\ held' = (held \/ state = "contained")
    /\ unsaved' = FALSE
    /\ UNCHANGED <<ret, goal, memory, journal, audit, now, untrusted, unreported>>

\* Mutant: the cleared anchors are not saved.
CompactWithoutSave ==
    /\ pc = "compact"
    /\ last_sequence' = 0
    /\ containment_sequence' = None
    /\ recovery_sequence' = None
    /\ Goto("event")
    /\ UNCHANGED <<ret, goal, state, state_version, used_nonces, tail_torn, audit,
                   stateFile, now, history>>

\* Mutant: the sequence restarts one too low.
CompactOffByOne ==
    /\ pc = "compact"
    /\ last_sequence' = -1
    /\ containment_sequence' = None
    /\ recovery_sequence' = None
    /\ ret' = "event"
    /\ Goto("digest")
    /\ UNCHANGED <<goal, state, state_version, used_nonces, tail_torn, audit,
                   stateFile, now, history>>

\* DurableJournal.compact, after which compact_journal clears the anchors.
Compact ==
    /\ pc = "compact"
    /\ last_sequence' = 0
    /\ containment_sequence' = None
    /\ recovery_sequence' = None
    /\ ret' = "event"
    /\ Goto("digest")
    /\ UNCHANGED <<goal, state, state_version, used_nonces, tail_torn, audit,
                   stateFile, now, history>>

-----------------------------------------------------------------------------
(* The environment.                                                        *)

\* A durable write raises OSError before a byte of it is written: the method
\* ends there, keeping what it had assigned in memory.  In __init__ the exception
\* ends the process, which Crash covers.  Errors inside a rotation that leave the
\* audit file half made (a touch that fails after the rename, an fsync of the
\* boundary entry) are left out.
WriteError ==
    /\ WriteErrors /\ serving
    /\ pc \in {"append", "event", "transition", "digest", "file", "compact"}
    /\ \/ pc = "transition" /\ <<state, goal>> \in Allowed
          /\ Assign(goal) /\ UNCHANGED used_nonces
       \/ pc = "digest" /\ used_nonces' = PruneNonces(used_nonces)
          /\ UNCHANGED <<state, state_version, containment_sequence, recovery_sequence>>
       \/ pc \notin {"transition", "digest"} /\ UNCHANGED memory
    /\ held' = (held /\ ~(pc = "transition" /\ goal = "maintenance"))
    /\ unsaved' = (unsaved \/ pc \in {"transition", "digest", "file"})
    /\ goal' = None
    /\ token' = None
    /\ Goto("idle")
    /\ UNCHANGED <<recorded, audit_size>> \/ RotationCutShort
    /\ UNCHANGED <<ret, journal, audit_broken, stateFile, now, spent, untrusted, unreported>>

\* The process stops: memory is gone, and the write it was making may be
\* partly on disk.
Crash ==
    /\ pc # "down"
    /\ pc' = "down" /\ ret' = "idle" /\ goal' = None /\ serving' = FALSE
    /\ state' = "boot_selftest" /\ state_version' = 0
    /\ containment_sequence' = None /\ recovery_sequence' = None /\ used_nonces' = {}
    /\ tail_torn' \in IF pc = "append" THEN BOOLEAN ELSE {tail_torn}
    /\ audit_broken' \in IF pc \in Appending THEN BOOLEAN ELSE {audit_broken}
    /\ UNCHANGED <<recorded, audit_size>> \/ RotationCutShort
    /\ token' = None
    /\ unsaved' = FALSE
    /\ UNCHANGED <<last_sequence, stateFile, now, spent, untrusted, held, unreported>>

\* The state file is lost or damaged between two runs of the process.
LoseStateFile ==
    /\ FileLoss /\ pc = "down"
    /\ stateFile \notin {None, Unreadable}
    /\ stateFile' \in {None, Unreadable}
    /\ UNCHANGED <<control, memory, journal, audit, now, history>>

\* "aegis-shield status" and "issue-token" open the journal without an engine.
CliOpensJournal ==
    /\ pc = "down" /\ tail_torn
    /\ tail_torn' = FALSE
    /\ unreported' = TRUE
    /\ UNCHANGED <<control, memory, last_sequence, audit, stateFile, now,
                   token, spent, untrusted, held, unsaved>>

Tick ==
    /\ now < MaxTime
    /\ now' = now + 1
    /\ UNCHANGED <<control, memory, journal, audit, stateFile, history>>

-----------------------------------------------------------------------------
Init ==
    /\ pc = "down" /\ ret = "idle" /\ goal = None /\ serving = FALSE
    /\ state = "boot_selftest" /\ state_version = 0
    /\ containment_sequence = None /\ recovery_sequence = None /\ used_nonces = {}
    /\ last_sequence = 0 /\ tail_torn = FALSE
    /\ recorded = None /\ audit_size = 0 /\ audit_broken = FALSE
    /\ stateFile = None
    /\ now = 0
    /\ token = None /\ spent = {} /\ untrusted = FALSE
    /\ held = FALSE /\ unsaved = FALSE /\ unreported = FALSE

Starting == Boot \/ ReportTail \/ LoadError \/ FirstBoot \/ Restore \/ EnterFault

Method ==
    \/ Write \/ Flush \/ RejectDestructiveCommand \/ ExitMaintenance \/ CompactJournal
    \/ \E t \in Tokens : AuthorizeRecovery(t) \/ EnterMaintenance(t)

DurableWrite ==
    \/ AppendRecord \/ LogEvent \/ Transition \/ SaveDigest \/ SaveFile \/ Compact

Environment == WriteError \/ Crash \/ LoseStateFile \/ CliOpensJournal \/ Tick

Next == Starting \/ Method \/ DurableWrite \/ Environment

Spec == Init /\ [][Next]_vars

\* The service manager restarts a process that stopped (Restart=on-failure in
\* the systemd unit), and a running method goes on to its next durable write.
Fairness == WF_vars(Starting) /\ WF_vars(DurableWrite)

FairSpec == Spec /\ Fairness
-----------------------------------------------------------------------------
(* Properties.                                                             *)

\* Every variable keeps its type: the engine's fields, the files as their
\* readers interpret them, and the control labels of the methods.
TypeOK ==
    /\ pc \in {"down", "tail", "load", "fault", "idle", "append", "event",
               "transition", "digest", "file", "compact"}
    /\ ret \in {"idle", "event", "transition"}
    /\ goal \in States \cup {None}
    /\ serving \in BOOLEAN
    /\ state \in States /\ state_version \in Nat
    /\ containment_sequence \in Sequence /\ recovery_sequence \in Sequence
    /\ used_nonces \subseteq Tokens
    /\ last_sequence \in Nat /\ tail_torn \in BOOLEAN
    /\ recorded \in Payload \cup {None}
    /\ audit_size \in Nat /\ audit_broken \in BOOLEAN
    /\ stateFile \in Payload \cup {None, Unreadable}
    /\ now \in Nat
    /\ token \in Tokens \cup {None} /\ spent \subseteq Tokens
    /\ untrusted \in BOOLEAN /\ held \in BOOLEAN
    /\ unsaved \in BOOLEAN /\ unreported \in BOOLEAN

\* Once _save_state has completed for a contained engine, the engine is not
\* writable again before a maintenance token is accepted, whatever crashes,
\* restarts, write errors and losses of the state file come in between.
ContainmentHeld == held => state \notin Writable

\* The RuntimeError of _transition is unreachable: no method decides on a
\* target that the adjacency table refuses, so no token's nonce is consumed
\* for a transition that then raises.
NoIllegalTransition == pc = "transition" => <<state, goal>> \in Allowed

\* Between methods, stopping and restarting the process brings back the state,
\* the version and the anchors it had (_load_state accepts the file and the
\* file is current), as long as no rotation has moved the digest of the file
\* out of the active audit file.
RestartRestores ==
    pc = "idle" /\ ~unsaved =>
        /\ LoadOutcome = "restore"
        /\ stateFile = CurrentPayload(stateFile.used_nonces)

\* During an incident the journal still ends where containment anchored it, and
\* the sequence that recovery_read_only serves reads at exists in the journal.
IncidentAnchored ==
    state \in {"contained", "recovery_read_only"} =>
        /\ containment_sequence = last_sequence
        /\ state = "recovery_read_only" => recovery_sequence \in 0..last_sequence

\* Writes are only ever taken with both anchors cleared: no anchor of an
\* earlier incident outlives the maintenance that ended it.
NoStaleAnchors ==
    state \in Writable => containment_sequence = None /\ recovery_sequence = None

\* If crashes stop, the engine keeps coming back to serve calls: no start-up
\* loops and no method keeps the lock, unless the audit log does not verify.
KeepsServing == <>[][~Crash]_vars => []<>(pc = "idle" \/ audit_broken)

\* The same without the exception (test_crash_recovery.py: "a power cut must
\* not brick the namespace").
PowerCutDoesNotBrick == <>[][~Crash]_vars => []<>(pc = "idle")

\* A token that would be accepted now although its nonce was saved before.
Replayable(t) ==
    pc = "idle" /\ t \in spent /\ (RecoveryAccepted(t) \/ MaintenanceAccepted(t))

\* A token whose nonce was saved is not accepted again before the second it
\* expires in, as long as every restart restored the saved state.
NonceHeld == \A t \in Tokens : Replayable(t) => untrusted \/ now >= t.expires_unix

\* A restart that does not trust the state file does not make a saved nonce
\* acceptable again (docs/ARCHITECTURE.md: "a crash between the two cannot
\* enable replay").
NonceSurvivesFault == \A t \in Tokens : Replayable(t) => now >= t.expires_unix

\* A nonce is kept as long as its token can verify (_prune_nonces: "Drop
\* nonces whose tokens can no longer be valid").
NonceKeptWhileValid == \A t \in Tokens : Replayable(t) => untrusted

\* No anchor ever points past the end of the journal (compact_journal: "Any
\* sequence anchor held by the engine would be left dangling, so anchors are
\* cleared here").
AnchorsInJournal ==
    pc = "idle" =>
        \A s \in {containment_sequence, recovery_sequence} \ {None} : s <= last_sequence

\* An engine in service has audited every torn tail that was discarded
\* (docs/ARCHITECTURE.md: "Recovery is never silent").
RecoveryNeverSilent == pc = "idle" => ~unreported

\* An engine whose memory says contained comes back contained or in fault,
\* never writable (test_persistence.py: "After containment the restarted
\* engine must come up in CONTAINED, not NORMAL").
ContainedStaysDown ==
    pc = "idle" /\ state = "contained" /\ LoadOutcome = "restore" =>
        stateFile.state \notin Writable
=============================================================================
