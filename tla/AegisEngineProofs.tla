-------------------------- MODULE AegisEngineProofs --------------------------
(***************************************************************************)
(* Theorems about AegisEngine, for every set of tokens, every rotation size*)
(* and every bound.                                                        *)
(***************************************************************************)
EXTENDS AegisEngine, TLAPS

\* A leaf that names no prover is tried with these, with time to spare.
USE SMTT(60), SMTT(120), ZenonT(120)

\* Appending an entry keeps the audit variables well typed.
LEMMA AuditAppendType ==
    ASSUME TypeOK, NEW digest \in Payload \cup {None}, AuditAppend(digest)
    PROVE  /\ recorded' \in Payload \cup {None}
           /\ audit_size' \in Nat
           /\ audit_broken' \in BOOLEAN
<1>1. audit_size' \in Nat
  BY BoundsAssumption DEF TypeOK, AuditAppend, Saturate
<1> QED
  BY <1>1 DEF TypeOK, AuditAppend

\* The payload of the current fields, with any set of tokens, is a payload.
LEMMA CurrentPayloadType ==
    ASSUME TypeOK, NEW S \in SUBSET Tokens
    PROVE  CurrentPayload(S) \in Payload
BY DEF TypeOK, CurrentPayload, Payload

\* Pruning only removes nonces.
LEMMA PruneSubset ==
    ASSUME NEW S, S \subseteq Tokens
    PROVE  PruneNonces(S) \subseteq S /\ PruneNonces(S) \in SUBSET Tokens
BY DEF PruneNonces

\* A transition's assignments keep the fields well typed.
LEMMA AssignType ==
    ASSUME TypeOK, NEW target \in States, Assign(target)
    PROVE  /\ state' \in States /\ state_version' \in Nat
           /\ containment_sequence' \in Sequence /\ recovery_sequence' \in Sequence
BY DEF TypeOK, Assign, Sequence

\* A restored payload has fields of the right types.
LEMMA RestoreType ==
    ASSUME TypeOK, LoadOutcome = "restore"
    PROVE  stateFile \in Payload
BY DEF TypeOK, LoadOutcome

\* The table only names states.
LEMMA AllowedStates == \A s, g : <<s, g>> \in Allowed => g \in States
BY DEF Allowed, States

\* Every variable keeps its type, along every behaviour of the engine.
THEOREM TypeCorrect == Spec => []TypeOK
<1>1. Init => TypeOK
  <2> SUFFICES ASSUME Init PROVE TypeOK
    OBVIOUS
  <2>1. /\ serving \in BOOLEAN /\ tail_torn \in BOOLEAN /\ audit_broken \in BOOLEAN
        /\ untrusted \in BOOLEAN /\ held \in BOOLEAN
        /\ unsaved \in BOOLEAN /\ unreported \in BOOLEAN
    BY Zenon DEF Init
  <2> QED
    BY <2>1 DEF Init, TypeOK, States, Sequence
<1>2. TypeOK /\ [Next]_vars => TypeOK'
  <2> SUFFICES ASSUME TypeOK, [Next]_vars PROVE TypeOK'
    OBVIOUS
  <2> USE DEF control, memory, journal, audit, history
  <2>1. CASE Boot
    BY <2>1, ZenonT(120) DEF Boot, Goto, TypeOK
  <2>2. CASE ReportTail
    BY <2>2, AuditAppendType, ZenonT(120) DEF ReportTail, Goto, TypeOK
  <2>3. CASE LoadError
    BY <2>3 DEF LoadError, Goto, TypeOK
  <2>4. CASE FirstBoot
    BY <2>4 DEF FirstBoot, Goto, TypeOK, States
  <2>5. CASE Restore
    <3>1. stateFile \in Payload
      BY <2>5, RestoreType DEF Restore
    <3>2. PruneNonces(stateFile.used_nonces) \subseteq Tokens
      BY <3>1, PruneSubset DEF Payload
    <3> QED
      BY <2>5, <3>1, <3>2 DEF Restore, Goto, TypeOK, Payload
  <2>6. CASE EnterFault
    BY <2>6, AuditAppendType DEF EnterFault, Goto, TypeOK, States
  <2>7. CASE Write
    BY <2>7 DEF Write, Call, Goto, TypeOK, States
  <2>8. CASE Flush
    BY <2>8 DEF Flush, Call, Goto, TypeOK
  <2>9. CASE RejectDestructiveCommand
    BY <2>9 DEF RejectDestructiveCommand, Call, Goto, TypeOK, States
  <2>10. CASE ExitMaintenance
    BY <2>10 DEF ExitMaintenance, Call, Goto, TypeOK, States
  <2>11. CASE CompactJournal
    BY <2>11 DEF CompactJournal, Call, Goto, TypeOK
  <2>12. ASSUME NEW t \in Tokens, AuthorizeRecovery(t) PROVE TypeOK'
    <3>1. t.target_sequence \in Sequence
      BY TokensAssumption DEF Token
    <3> QED
      BY <2>12, <3>1 DEF AuthorizeRecovery, Call, Goto, TypeOK, States
  <2>13. ASSUME NEW t \in Tokens, EnterMaintenance(t) PROVE TypeOK'
    BY <2>13 DEF EnterMaintenance, Call, Goto, TypeOK, States
  <2>14. CASE AppendRecord
    BY <2>14 DEF AppendRecord, Goto, TypeOK
  <2>15. CASE LogEvent
    BY <2>15, AuditAppendType DEF LogEvent, AfterEvent, Goto, TypeOK
  <2>16. CASE Transition
    <3>1. goal \in States
      BY <2>16, AllowedStates DEF Transition, TypeOK
    <3> QED
      BY <2>16, <3>1, AuditAppendType, AssignType DEF Transition, Goto, TypeOK
  <2>17. CASE SaveDigest
    <3>1. /\ PruneNonces(used_nonces) \in SUBSET Tokens
          /\ CurrentPayload(PruneNonces(used_nonces)) \in Payload
      BY PruneSubset, CurrentPayloadType DEF TypeOK
    <3> QED
      BY <2>17, <3>1, AuditAppendType DEF SaveDigest, Goto, TypeOK
  <2>18. CASE SaveFile
    BY <2>18, CurrentPayloadType, ZenonT(120) DEF SaveFile, Goto, TypeOK
  <2>19. CASE Compact
    BY <2>19 DEF Compact, Goto, TypeOK, Sequence
  <2>20. CASE WriteError
    <3>1. CASE pc = "transition"
      BY <2>20, <3>1, AssignType, AllowedStates DEF WriteError, RotationCutShort, Goto, TypeOK
    <3>2. CASE pc = "digest"
      BY <2>20, <3>2, PruneSubset DEF WriteError, RotationCutShort, Goto, TypeOK
    <3>3. CASE pc \notin {"transition", "digest"}
      BY <2>20, <3>3 DEF WriteError, RotationCutShort, Goto, TypeOK
    <3> QED
      BY <3>1, <3>2, <3>3
  <2>21. CASE Crash
    <3>1. /\ serving' \in BOOLEAN /\ tail_torn' \in BOOLEAN
          /\ audit_broken' \in BOOLEAN /\ unsaved' \in BOOLEAN
      BY <2>21, Zenon DEF Crash, TypeOK
    <3> QED
      BY <2>21, <3>1 DEF Crash, RotationCutShort, TypeOK, States, Sequence
  <2>22. CASE LoseStateFile
    BY <2>22 DEF LoseStateFile, TypeOK
  <2>23. CASE CliOpensJournal
    <3>1. tail_torn' \in BOOLEAN /\ unreported' \in BOOLEAN
      BY <2>23, Zenon DEF CliOpensJournal
    <3> QED
      BY <2>23, <3>1 DEF CliOpensJournal, TypeOK
  <2>24. CASE Tick
    BY <2>24 DEF Tick, TypeOK
  <2>25. CASE UNCHANGED vars
    BY <2>25 DEF vars, TypeOK
  <2> QED
    BY <2>1, <2>2, <2>3, <2>4, <2>5, <2>6, <2>7, <2>8, <2>9, <2>10, <2>11,
       <2>12, <2>13, <2>14, <2>15, <2>16, <2>17, <2>18, <2>19, <2>20, <2>21,
       <2>22, <2>23, <2>24, <2>25
    DEF Next, Starting, Method, DurableWrite, Environment
<1> QED
  BY <1>1, <1>2, PTL DEF Spec

-----------------------------------------------------------------------------
(* Control: where a method stands decides what it may still do.            *)

Starts == {"down", "tail", "load", "fault"}

ControlInv ==
    /\ goal # None => <<state, goal>> \in Allowed
    /\ pc = "transition" => goal # None
    /\ pc \in {"digest", "file"} /\ ret = "transition" => goal # None
    /\ pc \in Starts => goal = None /\ token = None /\ state = "boot_selftest"
    /\ pc = "append" => state \in Writable
    /\ pc = "compact" => state \in CompactionStates

\* The pairs of the adjacency table that the methods rely on.
LEMMA AllowedPairs ==
    /\ <<"boot_selftest", "normal">> \in Allowed
    /\ <<"normal", "elevated">> \in Allowed
    /\ \A s \in Writable : <<s, "contained">> \in Allowed
    /\ <<"contained", "recovery_read_only">> \in Allowed
    /\ \A s \in MaintenanceEntryStates : <<s, "maintenance">> \in Allowed
    /\ <<"maintenance", "normal">> \in Allowed
BY DEF Allowed, Writable, MaintenanceEntryStates

\* The control invariant is inductive.
LEMMA ControlCorrect == Spec => []ControlInv
<1>1. Init => ControlInv
  BY DEF Init, ControlInv
<1>2. TypeOK /\ ControlInv /\ [Next]_vars => ControlInv'
  <2> SUFFICES ASSUME TypeOK, ControlInv, [Next]_vars PROVE ControlInv'
    OBVIOUS
  <2> USE DEF control, memory, journal, audit, history, Goto, Starts
  <2>1. CASE Starting
    <3>1. CASE Boot \/ ReportTail \/ LoadError
      BY <2>1, <3>1 DEF Boot, ReportTail, LoadError, ControlInv
    <3>2. CASE FirstBoot
      BY <2>1, <3>2, AllowedPairs, NoneAssumption DEF FirstBoot, ControlInv, States
    <3>3. CASE Restore \/ EnterFault
      BY <2>1, <3>3 DEF Restore, EnterFault, ControlInv
    <3> QED
      BY <2>1, <3>1, <3>2, <3>3 DEF Starting
  <2>2. CASE Write \/ Flush \/ RejectDestructiveCommand \/ ExitMaintenance \/ CompactJournal
    <3>1. CASE Write
      BY <3>1, AllowedPairs DEF Write, Call, ControlInv
    <3>2. CASE Flush \/ RejectDestructiveCommand
      BY <3>2, AllowedPairs DEF Flush, RejectDestructiveCommand, Call, ControlInv
    <3>3. CASE ExitMaintenance \/ CompactJournal
      BY <3>3, AllowedPairs, NoneAssumption
      DEF ExitMaintenance, CompactJournal, CompactionStates, Call, ControlInv, States
    <3> QED
      BY <2>2, <3>1, <3>2, <3>3
  <2>3. ASSUME NEW t \in Tokens, AuthorizeRecovery(t) \/ EnterMaintenance(t)
        PROVE  ControlInv'
    BY <2>3, AllowedPairs, NoneAssumption
    DEF AuthorizeRecovery, EnterMaintenance, RecoveryAccepted, MaintenanceAccepted, Call,
        ControlInv, States
  <2>4. CASE AppendRecord \/ LogEvent \/ SaveDigest \/ Compact
    BY <2>4 DEF AppendRecord, LogEvent, SaveDigest, Compact, AfterEvent, ControlInv
  <2>5. CASE Transition
    BY <2>5 DEF Transition, ControlInv
  <2>6. CASE SaveFile
    BY <2>6 DEF SaveFile, ControlInv, TypeOK
  <2>7. CASE WriteError
    BY <2>7 DEF WriteError, ControlInv
  <2>8. CASE Crash
    BY <2>8 DEF Crash, ControlInv
  <2>9. CASE LoseStateFile \/ CliOpensJournal \/ Tick \/ UNCHANGED vars
    BY <2>9 DEF LoseStateFile, CliOpensJournal, Tick, vars, ControlInv
  <2> QED
    BY <2>1, <2>2, <2>3, <2>4, <2>5, <2>6, <2>7, <2>8, <2>9
    DEF Next, Method, DurableWrite, Environment
<1> QED
  BY <1>1, <1>2, TypeCorrect, PTL DEF Spec

\* No method ever reaches _transition with a target its table refuses.
THEOREM TransitionsLegal == Spec => []NoIllegalTransition
<1>1. ControlInv => NoIllegalTransition
  BY DEF ControlInv, NoIllegalTransition
<1> QED
  BY <1>1, ControlCorrect, PTL

-----------------------------------------------------------------------------
(* Containment.  A saved containment is held in memory, in the state file  *)
(* and in the recorded digest at once, and one of the last two is always   *)
(* left to stop a restart from looking like a first boot.                  *)

Safe == States \ (Writable \cup {"maintenance"})

HeldInv ==
    /\ held => /\ state \in Safe
               /\ goal \notin Writable
               /\ recorded # None => recorded.state \in Safe
               /\ stateFile \in Payload => stateFile.state \in Safe
               /\ FileLoss \/ stateFile \in Payload
    /\ RotateAt = 0 /\ stateFile # None => recorded # None
    /\ RotateAt = 0 /\ held => recorded # None
    /\ pc = "file" => recorded = CurrentPayload(used_nonces)

\* The containment invariant is inductive when the digest of the last save
\* cannot be rotated away together with a loss of the state file.
LEMMA HeldCorrect ==
    ASSUME RotateAt = 0 \/ ~FileLoss
    PROVE  Spec => []HeldInv
<1>1. Init => HeldInv
  BY DEF Init, HeldInv
<1>2. TypeOK /\ ControlInv /\ HeldInv /\ [Next]_vars => HeldInv'
  <2> SUFFICES ASSUME TypeOK, ControlInv, HeldInv, [Next]_vars PROVE HeldInv'
    OBVIOUS
  <2> USE BoundsAssumption, NoneAssumption
      DEF control, memory, journal, audit, history, Goto, Starts
  <2>1. CASE Boot \/ LoadError
    BY <2>1 DEF Boot, LoadError, HeldInv, CurrentPayload
  <2>2. CASE ReportTail
    BY <2>2 DEF ReportTail, HeldInv, AuditAppend, RotationDue
  <2>3. CASE FirstBoot
    BY <2>3 DEF FirstBoot, LoadOutcome, HeldInv
  <2>4. CASE Restore
    BY <2>4 DEF Restore, LoadOutcome, HeldInv, TypeOK, ControlInv, Safe, States, Writable
  <2>5. CASE EnterFault
    BY <2>5 DEF EnterFault, HeldInv, AuditAppend, RotationDue, Safe, States, Writable
  <2>6. CASE Write \/ Flush \/ RejectDestructiveCommand \/ ExitMaintenance \/ CompactJournal
    BY <2>6 DEF Write, Flush, RejectDestructiveCommand, ExitMaintenance, CompactJournal,
                Call, HeldInv, Safe, States, Writable, CompactionStates
  <2>7. ASSUME NEW t \in Tokens, AuthorizeRecovery(t) \/ EnterMaintenance(t)
        PROVE  HeldInv'
    BY <2>7 DEF AuthorizeRecovery, EnterMaintenance, Call, HeldInv, Writable
  <2>8. CASE AppendRecord \/ Compact
    BY <2>8 DEF AppendRecord, Compact, HeldInv
  <2>9. CASE LogEvent
    BY <2>9 DEF LogEvent, AfterEvent, HeldInv, AuditAppend, RotationDue
  <2>10. CASE Transition
    <3>1. goal \in States
      BY <2>10 DEF Transition, ControlInv, TypeOK
    <3>2. None \notin Writable
      BY DEF States, Writable
    <3>3. state' = goal /\ goal' = None /\ pc' = "digest" /\ stateFile' = stateFile
      BY <2>10 DEF Transition, Assign
    <3>4. recorded' = recorded \/ (RotateAt # 0 /\ recorded' = None)
      BY <2>10 DEF Transition, AuditAppend, RotationDue
    <3>5. held' => held /\ goal # "maintenance"
      BY <2>10, ZenonT(120) DEF Transition
    <3> QED
      BY <3>1, <3>2, <3>3, <3>4, <3>5 DEF HeldInv, Safe
  <2>11. CASE SaveDigest
    <3>1. CurrentPayload(PruneNonces(used_nonces)) \in Payload
      BY CurrentPayloadType, PruneSubset DEF TypeOK
    <3> QED
      BY <2>11, <3>1 DEF SaveDigest, HeldInv, AuditAppend, CurrentPayload
  <2>12. CASE SaveFile
    <3>1. CurrentPayload(used_nonces) \in Payload
      BY CurrentPayloadType DEF TypeOK
    <3>2. state = "contained" => state \in Safe /\ goal \notin Writable
      BY NoneAssumption DEF ControlInv, Allowed, Safe, States, Writable
    <3> QED
      BY <2>12, <3>1, <3>2 DEF SaveFile, HeldInv, CurrentPayload, TypeOK
  <2>13. CASE WriteError
    <3>1. pc = "transition" => goal \in States
      BY DEF ControlInv, TypeOK
    <3>2. None \notin Writable
      BY DEF States, Writable
    <3>3. recorded' = recorded \/ (RotateAt # 0 /\ recorded' = None)
      BY <2>13 DEF WriteError, RotationCutShort, RotationDue
    <3>4. held' => held /\ ~(pc = "transition" /\ goal = "maintenance")
      BY <2>13, ZenonT(120) DEF WriteError
    <3>5. pc' = "idle" /\ goal' = None /\ stateFile' = stateFile
          /\ (state' = state \/ (pc = "transition" /\ state' = goal))
      BY <2>13 DEF WriteError, Assign
    <3> QED
      BY <3>1, <3>2, <3>3, <3>4, <3>5 DEF HeldInv, Safe
  <2>14. CASE Crash
    BY <2>14 DEF Crash, RotationCutShort, RotationDue, HeldInv, Safe, States, Writable
  <2>15. CASE LoseStateFile
    BY <2>15 DEF LoseStateFile, HeldInv
  <2>16. CASE CliOpensJournal \/ Tick \/ UNCHANGED vars
    BY <2>16 DEF CliOpensJournal, Tick, vars, HeldInv, CurrentPayload
  <2> QED
    BY <2>1, <2>2, <2>3, <2>4, <2>5, <2>6, <2>7, <2>8, <2>9, <2>10, <2>11, <2>12,
       <2>13, <2>14, <2>15, <2>16
    DEF Next, Starting, Method, DurableWrite, Environment
<1> QED
  BY <1>1, <1>2, TypeCorrect, ControlCorrect, PTL DEF Spec

\* A saved containment keeps the engine from taking writes until a maintenance
\* token is accepted, through crashes, restarts and failed writes, and through
\* losses of the state file as long as the audit log is not rotated.
THEOREM ContainmentSafe ==
    ASSUME RotateAt = 0 \/ ~FileLoss
    PROVE  Spec => []ContainmentHeld
<1>1. HeldInv => ContainmentHeld
  BY DEF HeldInv, ContainmentHeld, Safe
<1> QED
  BY <1>1, HeldCorrect, PTL

-----------------------------------------------------------------------------
(* Single use of tokens.  Until it expires, a saved nonce is in the state  *)
(* file and, once a start-up has restored the file, in memory.             *)

NonceInv ==
    /\ token # None => token \in used_nonces \/ now >= token.expires_unix
    /\ pc = "fault" => untrusted
    /\ ~untrusted => \A t \in spent :
          \/ now >= t.expires_unix
          \/ /\ stateFile \in Payload => t \in stateFile.used_nonces
             /\ stateFile = None => pc \in Starts
             /\ pc \notin Starts => t \in used_nonces

\* The nonce invariant is inductive, for every rotation limit and with every
\* kind of failure.
LEMMA NonceCorrect == Spec => []NonceInv
<1>1. Init => NonceInv
  BY DEF Init, NonceInv
<1>2. TypeOK /\ ControlInv /\ NonceInv /\ [Next]_vars => NonceInv'
  <2> SUFFICES ASSUME TypeOK, ControlInv, NonceInv, [Next]_vars PROVE NonceInv'
    OBVIOUS
  <2> USE NoneAssumption DEF control, memory, journal, audit, history, Goto, Starts
  <2>1. CASE Boot \/ ReportTail
    BY <2>1 DEF Boot, ReportTail, NonceInv, ControlInv
  <2>2. CASE LoadError
    BY <2>2 DEF LoadError, NonceInv
  <2>3. CASE FirstBoot
    BY <2>3, ZenonT(120) DEF FirstBoot, LoadOutcome, NonceInv, ControlInv
  <2>4. CASE Restore
    BY <2>4, TokensAssumption
    DEF Restore, LoadOutcome, NonceInv, ControlInv, PruneNonces, TypeOK, Token, Payload
  <2>5. CASE EnterFault
    BY <2>5 DEF EnterFault, NonceInv
  <2>6. CASE Write \/ Flush \/ RejectDestructiveCommand \/ ExitMaintenance \/ CompactJournal
    BY <2>6 DEF Write, Flush, RejectDestructiveCommand, ExitMaintenance, CompactJournal,
                Call, NonceInv
  <2>7. ASSUME NEW t \in Tokens, AuthorizeRecovery(t) \/ EnterMaintenance(t)
        PROVE  NonceInv'
    BY <2>7, ZenonT(120) DEF AuthorizeRecovery, EnterMaintenance, Call, NonceInv
  <2>8. CASE AppendRecord \/ LogEvent \/ Transition \/ Compact
    BY <2>8 DEF AppendRecord, LogEvent, Transition, Compact, Assign, AfterEvent, NonceInv
  <2>9. CASE SaveDigest
    BY <2>9, TokensAssumption DEF SaveDigest, PruneNonces, NonceInv, TypeOK, Token
  <2>10. CASE SaveFile
    <3>1. CurrentPayload(used_nonces) \in Payload
      BY CurrentPayloadType DEF TypeOK
    <3> QED
      BY <2>10, <3>1 DEF SaveFile, CurrentPayload, NonceInv, TypeOK
  <2>11. CASE WriteError
    BY <2>11, TokensAssumption DEF WriteError, Assign, PruneNonces, NonceInv, TypeOK, Token
  <2>12. CASE Crash
    BY <2>12 DEF Crash, NonceInv
  <2>13. CASE LoseStateFile
    BY <2>13 DEF LoseStateFile, NonceInv
  <2>14. CASE Tick
    BY <2>14, TokensAssumption DEF Tick, NonceInv, TypeOK, Token
  <2>15. CASE CliOpensJournal \/ UNCHANGED vars
    BY <2>15 DEF CliOpensJournal, vars, NonceInv
  <2> QED
    BY <2>1, <2>2, <2>3, <2>4, <2>5, <2>6, <2>7, <2>8, <2>9, <2>10, <2>11, <2>12,
       <2>13, <2>14, <2>15
    DEF Next, Starting, Method, DurableWrite, Environment
<1> QED
  BY <1>1, <1>2, TypeCorrect, ControlCorrect, PTL DEF Spec

\* A saved nonce is not accepted again before its token's last second while
\* every restart has restored the state file.
THEOREM NonceSingleUse == Spec => []NonceHeld
<1>1. NonceInv => NonceHeld
  BY DEF NonceInv, NonceHeld, Replayable, RecoveryAccepted, MaintenanceAccepted, Starts
<1> QED
  BY <1>1, NonceCorrect, PTL

-----------------------------------------------------------------------------
(* Anchors.                                                                *)

AnchorInv ==
    /\ NoStaleAnchors
    /\ stateFile \in Payload /\ stateFile.state \in Writable =>
          stateFile.containment_sequence = None /\ stateFile.recovery_sequence = None

\* Writable states carry no anchor, in memory and in the state file.
LEMMA AnchorCorrect == Spec => []AnchorInv
<1>1. Init => AnchorInv
  BY NoneAssumption DEF Init, AnchorInv, NoStaleAnchors, Writable
<1>2. TypeOK /\ ControlInv /\ AnchorInv /\ [Next]_vars => AnchorInv'
  <2> SUFFICES ASSUME TypeOK, ControlInv, AnchorInv, [Next]_vars PROVE AnchorInv'
    OBVIOUS
  <2> USE NoneAssumption
      DEF control, memory, journal, audit, history, Goto, NoStaleAnchors
  <2>1. CASE Boot \/ ReportTail \/ LoadError \/ FirstBoot
    BY <2>1 DEF Boot, ReportTail, LoadError, FirstBoot, AnchorInv
  <2>2. CASE Restore
    BY <2>2 DEF Restore, LoadOutcome, AnchorInv, TypeOK
  <2>3. CASE EnterFault
    BY <2>3 DEF EnterFault, AnchorInv, Writable
  <2>4. CASE Write \/ Flush \/ RejectDestructiveCommand \/ ExitMaintenance \/ CompactJournal
    BY <2>4 DEF Write, Flush, RejectDestructiveCommand, ExitMaintenance, CompactJournal,
                Call, AnchorInv
  <2>5. ASSUME NEW t \in Tokens, AuthorizeRecovery(t) \/ EnterMaintenance(t)
        PROVE  AnchorInv'
    BY <2>5 DEF AuthorizeRecovery, EnterMaintenance, RecoveryAccepted, Call, AnchorInv, Writable
  <2>6. CASE AppendRecord \/ LogEvent \/ SaveDigest \/ Compact
    BY <2>6 DEF AppendRecord, LogEvent, SaveDigest, Compact, AnchorInv
  <2>7. CASE Transition \/ WriteError
    <3>1. <<state, "elevated">> \in Allowed => state = "normal"
      BY DEF Allowed
    <3> QED
      BY <2>7, <3>1 DEF Transition, WriteError, Assign, AnchorInv, Writable
  <2>8. CASE SaveFile
    BY <2>8 DEF SaveFile, CurrentPayload, AnchorInv
  <2>9. CASE Crash
    BY <2>9 DEF Crash, AnchorInv, Writable
  <2>10. CASE LoseStateFile \/ CliOpensJournal \/ Tick \/ UNCHANGED vars
    BY <2>10 DEF LoseStateFile, CliOpensJournal, Tick, vars, AnchorInv
  <2> QED
    BY <2>1, <2>2, <2>3, <2>4, <2>5, <2>6, <2>7, <2>8, <2>9, <2>10
    DEF Next, Starting, Method, DurableWrite, Environment
<1> QED
  BY <1>1, <1>2, TypeCorrect, ControlCorrect, PTL DEF Spec

\* The engine takes writes only with both anchors cleared.
THEOREM AnchorsCleared == Spec => []NoStaleAnchors
<1>1. AnchorInv => NoStaleAnchors
  BY DEF AnchorInv
<1> QED
  BY <1>1, AnchorCorrect, PTL

-----------------------------------------------------------------------------
(* Incidents.  Without failed writes the state file agrees with memory     *)
(* whenever the journal grows or is compacted, so the file of an incident  *)
(* is never left behind by the journal it anchors.                         *)

Incident == {"contained", "recovery_read_only"}

Anchored(s, containment, recovery) ==
    s \in Incident => /\ containment = last_sequence
                      /\ s = "recovery_read_only" => recovery \in 0..last_sequence

IncidentInv ==
    /\ Anchored(state, containment_sequence, recovery_sequence)
    /\ goal = "recovery_read_only" => recovery_sequence \in 0..last_sequence
    /\ stateFile \in Payload =>
          Anchored(stateFile.state, stateFile.containment_sequence, stateFile.recovery_sequence)
    /\ pc \in {"idle", "append", "event", "compact"} =>
          stateFile \in Payload /\ stateFile.state = state

\* The incident invariant is inductive when no durable write fails.
LEMMA IncidentCorrect ==
    ASSUME ~WriteErrors
    PROVE  Spec => []IncidentInv
<1>1. Init => IncidentInv
  BY NoneAssumption DEF Init, IncidentInv, Anchored, Incident, States
<1>2. TypeOK /\ ControlInv /\ IncidentInv /\ [Next]_vars => IncidentInv'
  <2> SUFFICES ASSUME TypeOK, ControlInv, IncidentInv, [Next]_vars PROVE IncidentInv'
    OBVIOUS
  <2> USE NoneAssumption DEF control, memory, journal, audit, history, Goto, Incident, Anchored
  <2>0. goal = "recovery_read_only" => state = "contained"
    BY DEF ControlInv, Allowed, States
  <2>1. CASE Boot \/ ReportTail \/ LoadError
    BY <2>1 DEF Boot, ReportTail, LoadError, IncidentInv
  <2>2. CASE FirstBoot
    BY <2>2, ZenonT(120) DEF FirstBoot, IncidentInv
  <2>3. CASE Restore
    BY <2>3 DEF Restore, LoadOutcome, IncidentInv, ControlInv, Starts, TypeOK, States
  <2>4. CASE EnterFault
    BY <2>4 DEF EnterFault, IncidentInv, ControlInv, Starts, States
  <2>5. CASE Write \/ Flush \/ RejectDestructiveCommand \/ ExitMaintenance \/ CompactJournal
    BY <2>5 DEF Write, Flush, RejectDestructiveCommand, ExitMaintenance, CompactJournal,
                Call, IncidentInv, States
  <2>6. ASSUME NEW t \in Tokens, AuthorizeRecovery(t) \/ EnterMaintenance(t)
        PROVE  IncidentInv'
    BY <2>6, ZenonT(120)
    DEF AuthorizeRecovery, EnterMaintenance, RecoveryAccepted, Call, IncidentInv
  <2>7. CASE AppendRecord
    BY <2>7, <2>0, ZenonT(120) DEF AppendRecord, IncidentInv, ControlInv, Writable
  <2>8. CASE Compact
    BY <2>8, <2>0 DEF Compact, IncidentInv, ControlInv, CompactionStates
  <2>9. CASE LogEvent
    BY <2>9 DEF LogEvent, AfterEvent, IncidentInv
  <2>10. CASE Transition
    <3>1. <<state, "recovery_read_only">> \in Allowed => state = "contained"
      BY DEF Allowed
    <3> QED
      BY <2>10, <3>1 DEF Transition, Assign, IncidentInv, States
  <2>11. CASE SaveDigest
    BY <2>11 DEF SaveDigest, IncidentInv
  <2>12. CASE SaveFile
    <3>1. CurrentPayload(used_nonces) \in Payload
      BY CurrentPayloadType DEF TypeOK
    <3> QED
      BY <2>12, <3>1 DEF SaveFile, CurrentPayload, IncidentInv
  <2>13. CASE WriteError
    BY <2>13 DEF WriteError
  <2>14. CASE Crash
    BY <2>14 DEF Crash, IncidentInv, States
  <2>15. CASE LoseStateFile
    BY <2>15 DEF LoseStateFile, IncidentInv
  <2>16. CASE CliOpensJournal \/ Tick \/ UNCHANGED vars
    BY <2>16 DEF CliOpensJournal, Tick, vars, IncidentInv
  <2> QED
    BY <2>1, <2>2, <2>3, <2>4, <2>5, <2>6, <2>7, <2>8, <2>9, <2>10, <2>11, <2>12,
       <2>13, <2>14, <2>15, <2>16
    DEF Next, Starting, Method, DurableWrite, Environment
<1> QED
  BY <1>1, <1>2, TypeCorrect, ControlCorrect, PTL DEF Spec

\* As long as no durable write fails, crashes and restarts included, an engine
\* in an incident has its anchors in the journal it serves.
THEOREM IncidentsAnchored ==
    ASSUME ~WriteErrors
    PROVE  Spec => []IncidentAnchored
<1>1. IncidentInv => IncidentAnchored
  BY DEF IncidentInv, IncidentAnchored, Anchored, Incident
<1> QED
  BY <1>1, IncidentCorrect, PTL

-----------------------------------------------------------------------------
(* Restart.  Outside _save_state, memory, the state file and the recorded  *)
(* digest agree, unless a failed write has cut a method off.               *)

InSync ==
    /\ stateFile \in Payload
    /\ recorded = stateFile
    /\ stateFile.state = state /\ stateFile.state_version = state_version
    /\ stateFile.containment_sequence = containment_sequence
    /\ stateFile.recovery_sequence = recovery_sequence

RestartInv ==
    /\ stateFile # None => recorded # None
    /\ pc = "file" => recorded = CurrentPayload(used_nonces)
    /\ pc \in {"idle", "append", "event", "compact"} /\ ~unsaved => InSync
    /\ pc = "transition" /\ serving /\ ~unsaved => InSync
    /\ pc \in Starts => ~serving

\* The restart invariant is inductive when the audit log is never rotated.
LEMMA RestartCorrect ==
    ASSUME RotateAt = 0
    PROVE  Spec => []RestartInv
<1>1. Init => RestartInv
  BY DEF Init, RestartInv
<1>2. TypeOK /\ ControlInv /\ RestartInv /\ [Next]_vars => RestartInv'
  <2> SUFFICES ASSUME TypeOK, ControlInv, RestartInv, [Next]_vars PROVE RestartInv'
    OBVIOUS
  <2> USE BoundsAssumption, NoneAssumption
      DEF control, memory, journal, audit, history, Goto, Starts, InSync
  <2>0. ASSUME AuditAppend(None) PROVE recorded' = recorded
    BY <2>0 DEF AuditAppend, RotationDue
  <2>1. CASE Boot \/ LoadError
    BY <2>1, Zenon DEF Boot, LoadError, RestartInv, CurrentPayload
  <2>2. CASE ReportTail
    BY <2>2, <2>0, Zenon DEF ReportTail, RestartInv
  <2>3. CASE FirstBoot
    BY <2>3, ZenonT(120) DEF FirstBoot, RestartInv
  <2>4. CASE Restore
    BY <2>4 DEF Restore, LoadOutcome, RestartInv, TypeOK
  <2>5. CASE EnterFault
    BY <2>5, <2>0 DEF EnterFault, RestartInv
  <2>6. CASE Write \/ Flush \/ RejectDestructiveCommand \/ ExitMaintenance \/ CompactJournal
    BY <2>6 DEF Write, Flush, RejectDestructiveCommand, ExitMaintenance, CompactJournal,
                Call, RestartInv
  <2>7. ASSUME NEW t \in Tokens, AuthorizeRecovery(t) \/ EnterMaintenance(t)
        PROVE  RestartInv'
    BY <2>7, ZenonT(120) DEF AuthorizeRecovery, EnterMaintenance, Call, RestartInv
  <2>8. CASE AppendRecord \/ Compact
    BY <2>8 DEF AppendRecord, Compact, RestartInv
  <2>9. CASE LogEvent
    BY <2>9, <2>0 DEF LogEvent, AfterEvent, RestartInv
  <2>10. CASE Transition
    BY <2>10, <2>0 DEF Transition, RestartInv
  <2>11. CASE SaveDigest
    <3>1. CurrentPayload(PruneNonces(used_nonces)) \in Payload
      BY CurrentPayloadType, PruneSubset DEF TypeOK
    <3> QED
      BY <2>11, <3>1 DEF SaveDigest, AuditAppend, CurrentPayload, RestartInv
  <2>12. CASE SaveFile
    <3>1. CurrentPayload(used_nonces) \in Payload
      BY CurrentPayloadType DEF TypeOK
    <3> QED
      BY <2>12, <3>1 DEF SaveFile, CurrentPayload, RestartInv, TypeOK
  <2>13. CASE WriteError
    <3>1. recorded' = recorded
      BY <2>13 DEF WriteError, RotationCutShort, RotationDue
    <3> QED
      BY <2>13, <3>1, ZenonT(120) DEF WriteError, RestartInv
  <2>14. CASE Crash
    BY <2>14 DEF Crash, RotationCutShort, RotationDue, RestartInv
  <2>15. CASE LoseStateFile
    BY <2>15 DEF LoseStateFile, RestartInv
  <2>16. CASE CliOpensJournal \/ Tick \/ UNCHANGED vars
    BY <2>16 DEF CliOpensJournal, Tick, vars, RestartInv, CurrentPayload
  <2> QED
    BY <2>1, <2>2, <2>3, <2>4, <2>5, <2>6, <2>7, <2>8, <2>9, <2>10, <2>11, <2>12,
       <2>13, <2>14, <2>15, <2>16
    DEF Next, Starting, Method, DurableWrite, Environment
<1> QED
  BY <1>1, <1>2, TypeCorrect, ControlCorrect, PTL DEF Spec

\* Without rotation, a restart between two methods brings back the engine as
\* it was, whatever crashes, file losses and failed writes came before.
THEOREM RestartSafe ==
    ASSUME RotateAt = 0
    PROVE  Spec => []RestartRestores
<1>1. TypeOK /\ RestartInv => RestartRestores
  BY NoneAssumption, ZenonT(120)
  DEF TypeOK, RestartInv, RestartRestores, InSync, LoadOutcome, CurrentPayload, Payload
<1> QED
  BY <1>1, TypeCorrect, RestartCorrect, PTL
=============================================================================
