----------------------------- MODULE RecoveryApi -----------------------------
(***************************************************************************)
(* The recovery routes of api/routers/recovery.py: the bounded store of    *)
(* one-time challenges and the bounded set of exported snapshots.          *)
(*                                                                         *)
(* The handlers run on one event loop and none awaits, so two handlers     *)
(* never interleave; the control socket's thread, which compacts, runs     *)
(* beside them, and time passes.  A dict keeps its insertion order and     *)
(* challenge identifiers are never reused: they are numbered here in the   *)
(* order of insertion.                                                     *)
(***************************************************************************)
EXTENDS Integers, FiniteSets

CONSTANTS
    MaxChallenges,      \* _MAX_CHALLENGES
    Ttl,                \* _CHALLENGE_TTL_SECONDS
    MaxSnapshots,       \* _MAX_SNAPSHOTS
    MaxIssued,          \* bound on the challenges issued
    MaxCompactions,     \* bound on the compactions
    MaxTime             \* bound on the clock

ASSUME ApiAssumption ==
    /\ MaxChallenges \in Nat \ {0} /\ Ttl \in Nat /\ MaxSnapshots \in Nat \ {0}
    /\ MaxIssued \in Nat /\ MaxCompactions \in Nat /\ MaxTime \in Nat

Actions == {"enter_recovery_read_only", "enter_maintenance"}

VARIABLES
    now,                \* int(time.time())
    store,              \* app.state.challenges
    issued,             \* how many challenges were issued
    announced,          \* history: the expires_at of each answer
    consumed,           \* history: the challenges authorize has answered for
    exporting,          \* the export handler is past its check of the limit
    exports,            \* snapshot directories made by exports,
    leftovers,          \* by exports and compactions that failed half way,
    compactions         \* and by compactions

challenges == <<store, issued, announced, consumed>>
snapshots  == <<exporting, exports, leftovers, compactions>>
apiVars    == <<now, challenges, snapshots>>

-----------------------------------------------------------------------------
(* Challenges.                                                             *)

Challenge == [id: 1..MaxIssued, action: Actions, issued_at: 0..MaxTime]

\* Mutant: the last second is cut off.
PrunedEarly(S, t) == {c \in S : t - c.issued_at < Ttl}

Pruned(S, t) == {c \in S : t - c.issued_at <= Ttl}

\* Mutant: one more than the bound is kept.
EvictedLate(S) ==
    {c \in S : Cardinality({d \in S : d.id > c.id}) < MaxChallenges}

\* The oldest go until there is room for one more.
Evicted(S) ==
    {c \in S : Cardinality({d \in S : d.id > c.id}) < MaxChallenges - 1}

\* The clock is read once for issued_at and, delay later, for the expires_at
\* of the answer.
CreateChallenge(action, delay) ==
    /\ ~exporting
    /\ issued < MaxIssued /\ now + delay <= MaxTime
    /\ issued' = issued + 1
    /\ store' = Evicted(Pruned(store, now))
                    \cup {[id |-> issued + 1, action |-> action, issued_at |-> now]}
    /\ now' = now + delay
    /\ announced' = [announced EXCEPT ![issued + 1] = now + delay + Ttl]
    /\ UNCHANGED <<consumed, snapshots>>

\* The challenge is taken out whatever becomes of the token: it is verified
\* for enter_recovery_read_only and the current state version, or there is no
\* key to verify it with (503).  The engine does not move.  An identifier that
\* is not in the store is answered with 404.
AuthorizeAction(c) ==
    /\ ~exporting
    /\ c \in store
    /\ store' = store \ {c}
    /\ consumed' = consumed \cup {c.id}
    /\ UNCHANGED <<now, issued, announced, snapshots>>

-----------------------------------------------------------------------------
(* Exports.                                                                *)

Snapshots == exports + leftovers + compactions

\* The answer is 507 at the limit, 400 for a sequence out of range.
BeginExport ==
    /\ ~exporting
    /\ Snapshots < MaxSnapshots
    /\ exporting' = TRUE
    /\ UNCHANGED <<now, challenges, exports, leftovers, compactions>>

\* journal.snapshot, the manifest and the audit event; an error before the
\* directory is made leaves nothing, a later one leaves the directory.
FinishExport ==
    /\ exporting
    /\ exporting' = FALSE
    /\ \/ exports' = exports + 1 /\ UNCHANGED leftovers
       \/ leftovers' = leftovers + 1 /\ UNCHANGED exports
       \/ UNCHANGED <<exports, leftovers>>
    /\ UNCHANGED <<now, challenges, compactions>>

\* AegisEngine.compact_journal on the control socket's thread: its snapshot
\* stays, also when the compaction then fails.
CompactJournal ==
    /\ compactions + leftovers < MaxCompactions
    /\ \/ compactions' = compactions + 1 /\ UNCHANGED leftovers
       \/ leftovers' = leftovers + 1 /\ UNCHANGED compactions
    /\ UNCHANGED <<now, challenges, exporting, exports>>

\* "remove old snapshots under the namespace's snapshots/ directory"
RemoveSnapshot ==
    /\ \/ exports > 0 /\ exports' = exports - 1 /\ UNCHANGED <<leftovers, compactions>>
       \/ leftovers > 0 /\ leftovers' = leftovers - 1 /\ UNCHANGED <<exports, compactions>>
       \/ compactions > 0 /\ compactions' = compactions - 1
            /\ UNCHANGED <<exports, leftovers>>
    /\ UNCHANGED <<now, challenges, exporting>>

-----------------------------------------------------------------------------

Tick ==
    /\ now < MaxTime
    /\ now' = now + 1
    /\ UNCHANGED <<challenges, snapshots>>

ApiInit ==
    /\ now = 0
    /\ store = {} /\ issued = 0 /\ consumed = {}
    /\ announced = [i \in 1..MaxIssued |-> 0]
    /\ exporting = FALSE
    /\ exports = 0 /\ leftovers = 0 /\ compactions = 0

ApiNext ==
    \/ \E action \in Actions, delay \in 0..1 : CreateChallenge(action, delay)
    \/ \E c \in store : AuthorizeAction(c)
    \/ BeginExport \/ FinishExport \/ CompactJournal \/ RemoveSnapshot
    \/ Tick

ApiSpec == ApiInit /\ [][ApiNext]_apiVars

-----------------------------------------------------------------------------
(* Properties.                                                             *)

\* Every variable has its type.
ApiTypeOK ==
    /\ now \in 0..MaxTime
    /\ store \subseteq Challenge
    /\ issued \in 0..MaxIssued
    /\ announced \in [1..MaxIssued -> Nat]
    /\ consumed \subseteq 1..MaxIssued
    /\ exporting \in BOOLEAN
    /\ exports \in Nat /\ leftovers \in Nat /\ compactions \in Nat

\* "Bounded so an authenticated caller cannot grow the store without limit
\* inside the TTL window" (recovery.py:20), including at the moment a challenge
\* is added.
StoreBounded == Cardinality(store) <= MaxChallenges

\* "Oldest entries are evicted first" (recovery.py:21), and pruning agrees with
\* the expires_at announced from a second reading of the clock: a challenge that
\* has not expired and was not answered for is in the store, unless as many as
\* the store holds were issued after it.
KeptUntilExpiry ==
    \A i \in 1..issued :
        (now < announced[i] /\ i \notin consumed /\ issued - i < MaxChallenges)
            => \E c \in store : c.id = i

\* "Issue a one-time challenge nonce" (recovery.py:68): a challenge that was
\* answered for, also with 503 or an invalid token, is never in the store again.
OneTime == \A c \in store : c.id \notin consumed

\* Exports never hold more than the limit on their own: a compaction between
\* the check of the limit and the snapshot can exceed it, exports cannot.
ExportsCapped == exports + (IF exporting THEN 1 ELSE 0) <= MaxSnapshots

\* "Challenge not found or expired" (recovery.py:115): a challenge that has
\* expired does not get an answer about a token.
ExpiredRefused == [][\A i \in consumed' \ consumed : now <= announced[i]]_apiVars

\* "Snapshots are full copies of the base image and are capped (32 per
\* namespace)" (docs/API.md:55).
SnapshotsCapped == Snapshots <= MaxSnapshots
=============================================================================
