-------------------------- MODULE TransactionalStore --------------------------
(***************************************************************************)
(* What the trait TransactionalStore promises, whatever a store keeps to   *)
(* make it so.  A transaction works on a copy and is published whole.  A   *)
(* commit that is interrupted after its receipt was recorded is pending:   *)
(* recovery publishes it; one interrupted before, or whose receipt is      *)
(* damaged, leaves what was committed.  Nothing else changes what readers  *)
(* see, and a snapshot stays what it was until gc reclaims it.  What a     *)
(* state is and what an operation does to it are parameters.               *)
(*                                                                         *)
(* A store that asks for recovery before the next transaction keeps a      *)
(* pending commit until then.  One that does not (Supersedes) loses it to  *)
(* the next attempt to commit, however that ends, and to gc.               *)
(***************************************************************************)
EXTENDS Integers

CONSTANTS
    Empty,          \* the state of a new store
    Requests, CanApply(_, _), Apply(_, _),
    Candidate(_),   \* what a transaction's commit makes of its state
    MaxNonce, MaxGeneration,
    Supersedes,     \* whether a transaction may begin while a commit is pending
    None

VARIABLES
    committed,      \* the state readers see
    working,        \* the active transaction's state, or None
    cancelled,      \* whether it has been cancelled
    pending,        \* what recovery would publish, or None
    intact,         \* nothing recorded since the transaction began is damaged
    snapshots       \* the snapshots that can be read

tsVars == <<committed, working, cancelled, pending, intact, snapshots>>

Ready == working # None /\ ~cancelled

End == working' = None /\ cancelled' = FALSE

TsInit ==
    /\ committed = Empty
    /\ working = None
    /\ cancelled = FALSE
    /\ pending = None
    /\ intact = TRUE
    /\ snapshots = {}

TsBegin ==
    /\ working = None
    /\ Supersedes \/ pending = None
    /\ working' = committed
    /\ UNCHANGED <<committed, cancelled, pending, intact, snapshots>>

TsOperate ==
    /\ Ready
    /\ \E o \in Requests : CanApply(working, o) /\ working' = Apply(working, o)
    /\ UNCHANGED <<committed, cancelled, pending, intact, snapshots>>

TsCommit ==
    /\ Ready
    /\ committed' = Candidate(working)
    /\ End
    /\ pending' = None
    /\ intact' = TRUE
    /\ UNCHANGED snapshots

\* Interrupted before its receipt was recorded.
TsInterruptBefore ==
    /\ Ready
    /\ End
    /\ pending' = None
    /\ UNCHANGED <<committed, intact, snapshots>>

\* Interrupted after it.
TsInterruptAfter ==
    /\ Ready
    /\ End
    /\ pending' = IF intact THEN Candidate(working) ELSE None
    /\ UNCHANGED <<committed, intact, snapshots>>

\* Interrupted with a damaged receipt.
TsInterruptCorrupt ==
    /\ Ready
    /\ End
    /\ pending' = None
    /\ intact' \in BOOLEAN
    /\ UNCHANGED <<committed, snapshots>>

TsAbort ==
    /\ working # None
    /\ End
    /\ intact' = TRUE
    /\ UNCHANGED <<committed, pending, snapshots>>

TsCancel ==
    /\ working # None
    /\ cancelled' = TRUE
    /\ UNCHANGED <<committed, working, pending, intact, snapshots>>

\* What was recorded is damaged afterwards.
TsDamage ==
    /\ pending' = None
    /\ intact' \in BOOLEAN
    /\ UNCHANGED <<committed, working, cancelled, snapshots>>

TsRecover ==
    /\ committed' = IF pending # None THEN pending ELSE committed
    /\ End
    /\ pending' = None
    /\ intact' = TRUE
    /\ UNCHANGED snapshots

TsSnapshot ==
    /\ \E nonce \in 1..MaxNonce :
        /\ \A s \in snapshots : s.nonce < nonce
        /\ snapshots' = snapshots \cup {[nonce |-> nonce, state |-> committed]}
    /\ UNCHANGED <<committed, working, cancelled, pending, intact>>

TsGc(retain_from) ==
    /\ snapshots' = {s \in snapshots : s.state.generation >= retain_from}
    /\ \/ pending' = pending
       \/ /\ Supersedes
          /\ pending # None /\ pending.generation < retain_from /\ pending' = None
    /\ UNCHANGED <<committed, working, cancelled, intact>>

TsNext ==
    \/ TsBegin \/ TsOperate \/ TsCommit
    \/ TsInterruptBefore \/ TsInterruptAfter \/ TsInterruptCorrupt
    \/ TsAbort \/ TsCancel \/ TsDamage \/ TsRecover \/ TsSnapshot
    \/ \E retain_from \in 0..MaxGeneration : TsGc(retain_from)

TsSpec == TsInit /\ [][TsNext]_tsVars
=============================================================================
