------------------------------- MODULE CowStore -------------------------------
(***************************************************************************)
(* The copy-on-write store of storage-transaction-core: two banks, each    *)
(* with a superblock.  A commit writes the inactive bank, then its         *)
(* superblock, then switches; recovery selects the newest bank whose       *)
(* superblock verifies.                                                    *)
(*                                                                         *)
(* A checksum is the value it is taken of, so equal checksums mean equal   *)
(* values.  A call that names another transaction, or comes after the      *)
(* deadline, is refused before it changes anything and is not a step.      *)
(***************************************************************************)
EXTENDS StoreState

VARIABLES banks, superblocks, active_bank, cow_active, cow_snapshots

cowVars == <<banks, superblocks, active_bank, cow_active, cow_snapshots>>

Banks == {0, 1}

Inactive == 1 - active_bank

CowCommitted == banks[active_bank]

\* descriptor_checksum is reduced to whether it is the expected one.
Superblock(bank, state) ==
    [generation |-> state.generation, bank |-> bank, state_checksum |-> state,
     intact |-> TRUE]

\* Mutant: the descriptor's own checksum were not compared.
VerifiesLoosely(i) ==
    /\ superblocks[i] # None
    /\ superblocks[i].bank = i
    /\ superblocks[i].generation = banks[i].generation
    /\ superblocks[i].state_checksum = banks[i]

Verifies(i) ==
    /\ superblocks[i] # None
    /\ superblocks[i].bank = i
    /\ superblocks[i].generation = banks[i].generation
    /\ superblocks[i].state_checksum = banks[i]
    /\ superblocks[i].intact

\* WorkingTransaction::check, for the transaction that is active.
CowReady == cow_active # None /\ ~cow_active.cancelled

CowInit ==
    /\ banks = [i \in Banks |-> Empty]
    /\ superblocks = [i \in Banks |-> IF i = 0 THEN Superblock(0, Empty) ELSE None]
    /\ active_bank = 0
    /\ cow_active = None
    /\ cow_snapshots = NoSnapshots

\* begin does not ask whether a recovery is due.
CowBegin ==
    /\ cow_active = None
    /\ cow_active' = [state |-> CowCommitted, cancelled |-> FALSE]
    /\ UNCHANGED <<banks, superblocks, active_bank, cow_snapshots>>

CowOperate(o) ==
    /\ CowReady
    /\ CanApply(cow_active.state, o)
    /\ cow_active' = [cow_active EXCEPT !.state = Apply(cow_active.state, o)]
    /\ UNCHANGED <<banks, superblocks, active_bank, cow_snapshots>>

\* Mutant: the active bank were written in place.
CowCommitInPlace(fault) ==
    /\ CowReady
    /\ CanAdvance(cow_active.state)
    /\ LET candidate == Candidate(cow_active.state) IN
        /\ banks' = [banks EXCEPT ![active_bank] = candidate]
        /\ superblocks' = [superblocks EXCEPT ![active_bank] =
               CASE fault = "before"  -> None
                 [] fault = "corrupt" -> [Superblock(active_bank, candidate) EXCEPT !.intact = FALSE]
                 [] OTHER             -> Superblock(active_bank, candidate)]
    /\ cow_active' = None
    /\ UNCHANGED <<active_bank, cow_snapshots>>

\* commit: the inactive superblock is erased, the bank written, then the new
\* superblock; only a commit without a fault switches banks.
CowCommit(fault) ==
    /\ CowReady
    /\ CanAdvance(cow_active.state)
    /\ LET candidate == Candidate(cow_active.state) IN
        /\ banks' = [banks EXCEPT ![Inactive] = candidate]
        /\ superblocks' = [superblocks EXCEPT ![Inactive] =
               CASE fault = "before"  -> None
                 [] fault = "corrupt" -> [Superblock(Inactive, candidate) EXCEPT !.intact = FALSE]
                 [] OTHER             -> Superblock(Inactive, candidate)]
    /\ active_bank' = IF fault = "none" THEN Inactive ELSE active_bank
    /\ cow_active' = None
    /\ UNCHANGED cow_snapshots

CowAbort ==
    /\ cow_active # None
    /\ cow_active' = None
    /\ UNCHANGED <<banks, superblocks, active_bank, cow_snapshots>>

CowCancel ==
    /\ cow_active # None
    /\ cow_active' = [cow_active EXCEPT !.cancelled = TRUE]
    /\ UNCHANGED <<banks, superblocks, active_bank, cow_snapshots>>

CowSnapshot ==
    /\ CanCapture(cow_snapshots)
    /\ cow_snapshots' = Capture(cow_snapshots, CowCommitted)
    /\ UNCHANGED <<banks, superblocks, active_bank, cow_active>>

CowGc(retain_from) ==
    /\ cow_snapshots' = Reclaim(cow_snapshots, retain_from)
    /\ superblocks' = [i \in Banks |->
           IF i # active_bank /\ superblocks[i] # None
              /\ superblocks[i].generation < retain_from
           THEN None ELSE superblocks[i]]
    /\ UNCHANGED <<banks, active_bank, cow_active>>

\* Damage to the descriptor of a commit that recovery would publish.
CowDamage ==
    /\ superblocks[Inactive] # None
    /\ superblocks[Inactive].generation > CowCommitted.generation
    /\ superblocks' = [superblocks EXCEPT ![Inactive].intact = FALSE]
    /\ UNCHANGED <<banks, active_bank, cow_active, cow_snapshots>>

-----------------------------------------------------------------------------
(* Recovery.                                                               *)

Valid == {i \in Banks : Verifies(i)}

Conflict ==
    /\ Valid = Banks
    /\ superblocks[0].generation = superblocks[1].generation
    /\ superblocks[0].state_checksum # superblocks[1].state_checksum

\* The loop visits bank 0 first and replaces it only by a newer one.
Selected ==
    CHOOSE i \in Valid : \A j \in Valid \ {i} :
        \/ superblocks[i].generation > superblocks[j].generation
        \/ superblocks[i].generation = superblocks[j].generation /\ i < j

\* A bank without a superblock that is newer than the selection is dropped.
CowRecover ==
    /\ cow_active' = None
    /\ superblocks' = [i \in Banks |-> IF Verifies(i) THEN superblocks[i] ELSE None]
    /\ IF Valid = {} \/ Conflict
       THEN UNCHANGED <<banks, active_bank>>    \* Err(CorruptRecoveryMetadata)
       ELSE /\ active_bank' = Selected
            /\ banks' = [i \in Banks |->
                   IF ~Verifies(i) /\ banks[i].generation > banks[Selected].generation
                   THEN banks[Selected] ELSE banks[i]]
    /\ UNCHANGED cow_snapshots

Faults == {"none", "before", "corrupt", "after"}

CowNext ==
    \/ CowBegin
    \/ \E o \in Requests : CowOperate(o)
    \/ \E fault \in Faults : CowCommit(fault)
    \/ CowAbort \/ CowCancel \/ CowSnapshot
    \/ \E retain_from \in 0..MaxGeneration : CowGc(retain_from)
    \/ CowDamage \/ CowRecover

CowSpec == CowInit /\ [][CowNext]_cowVars

-----------------------------------------------------------------------------
(* Properties.                                                             *)

\* recover always finds a bank whose superblock verifies and never meets two
\* of the same generation: it does not return CorruptRecoveryMetadata.
CowRecoverable == Valid # {} /\ ~Conflict

\* What recover is to publish: the inactive bank, when it has an undamaged
\* superblock of a newer generation.
CowPending ==
    IF /\ superblocks[Inactive] # None
       /\ superblocks[Inactive].intact
       /\ superblocks[Inactive].generation > CowCommitted.generation
    THEN banks[Inactive] ELSE None

CowTs == INSTANCE TransactionalStore WITH
    committed <- CowCommitted,
    working   <- IF cow_active = None THEN None ELSE cow_active.state,
    cancelled <- IF cow_active = None THEN FALSE ELSE cow_active.cancelled,
    pending   <- CowPending,
    intact    <- TRUE,
    snapshots <- Captured(cow_snapshots),
    Supersedes <- TRUE

\* The copy-on-write store implements the transactional store that does not ask
\* for recovery: a commit is published whole or not at all, and recovery
\* publishes an interrupted one exactly as its receipt says, unless a later
\* transaction has reached its own commit (lib.rs:1156) or gc has passed its
\* generation: then the pending commit is lost although it has its receipt.
CowImplements == CowTs!TsSpec
=============================================================================
