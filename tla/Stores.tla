-------------------------------- MODULE Stores --------------------------------
(***************************************************************************)
(* Both stores in one specification: a behaviour is one of either variant, *)
(* with the other left as it was made.                                     *)
(***************************************************************************)
EXTENDS CowStore, WalStore

VARIABLE variant

vars == <<cowVars, walVars, variant>>

Init == variant \in {"cow", "wal"} /\ CowInit /\ WalInit

Next ==
    \/ variant = "cow" /\ CowNext /\ UNCHANGED <<walVars, variant>>
    \/ variant = "wal" /\ WalNext /\ UNCHANGED <<cowVars, variant>>

Spec == Init /\ [][Next]_vars

-----------------------------------------------------------------------------
(* Properties.                                                             *)

\* Every state a store keeps: published, being worked on, or in a snapshot.
Kept ==
    {CowCommitted, base}
    \cup {a.state : a \in {cow_active, wal_active} \ {None}}
    \cup {c.state : c \in Captured(cow_snapshots) \cup Captured(wal_snapshots)}

\* In every state kept: bytes beyond an object's length are zero, so growing
\* an object never shows what it held before; a name leads to a live object;
\* and what is used leaves the recovery reserve free.
StatesSound ==
    \A s \in Kept : HandlesIssued(s) /\ NamesResolve(s) /\ ZeroTail(s) /\ ReserveKept(s)

StaysGone(s, t) == \A h \in 1..s.next_object - 1 : h \notin Live(s) => h \notin Live(t)

\* Once published as deleted, a handle never leads to an object again: a
\* handle kept by a caller becomes stale for good.
HandleNeverReturns ==
    [][StaysGone(CowCommitted, CowCommitted') /\ StaysGone(base, base')]_<<cowVars, walVars>>
=============================================================================
