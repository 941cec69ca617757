------------------------------ MODULE Detection ------------------------------
(***************************************************************************)
(* The detector behind the write gate: WindowAnalyzer (core/features.py),  *)
(* Policy.evaluate (core/policy.py) and the decisions core/engine.py takes *)
(* on its verdicts.                                                        *)
(*                                                                         *)
(* A payload is one of a few contents repeated over the blocks it covers,  *)
(* which fixes its entropy and whether it changes a block.  Fractions are  *)
(* kept as the integer sums they are quotients of and a score is compared  *)
(* with a threshold after multiplying out the denominators, so no rounding *)
(* is involved.  Tokens, the journal and the audit log are in AegisEngine. *)
(***************************************************************************)
EXTENDS Integers, Sequences, FiniteSets

CONSTANTS
    Blocks,             \* the blocks the modelled clients address
    Extents,            \* the block ranges they read and write, as sets
    NamespaceBlocks,    \* journal.blocks, which may be many more
    Contents,           \* what a block may hold
    ZeroContent,        \* the content of a block never written
    Entropy,            \* bits per byte of a content
    Parts,              \* a common multiple of the sizes of the extents
    WindowOperations,   \* AnalyzerConfig.window_operations
    MinimumOperations   \* PolicyConfig.minimum_operations

ASSUME ExtentsAssumption ==
    /\ IsFiniteSet(Blocks)
    /\ Extents \subseteq (SUBSET Blocks) \ {{}}

ASSUME ConfigAssumption ==
    /\ ZeroContent \in Contents
    /\ Entropy \in [Contents -> 0..8]
    /\ Parts \in Nat \ {0}
    /\ WindowOperations \in Nat \ {0}
    /\ MinimumOperations \in Nat
    /\ NamespaceBlocks \in Nat \ {0} /\ Cardinality(Blocks) <= NamespaceBlocks

VARIABLES
    state,              \* AegisEngine.state
    image,              \* what the blocks hold
    window,             \* _window
    written,            \* _written_blocks: how often a block is written in it
    reads,              \* _recent_reads
    stale               \* history: how many elements of the window date from
                        \* before maintenance was last left

vars == <<state, image, window, written, reads, stale>>

-----------------------------------------------------------------------------
(* The coefficients of PolicyConfig, in hundredths; they sum to 100.       *)

\* Mutant: two coefficients change places.
WeightSwapped ==
    [entropy |-> 10, high_entropy |-> 10, changed |-> 10,
     read_before_write |-> 18, overwrite |-> 24, coverage |-> 16,
     write_fraction |-> 6, deallocate |-> 6]

Weight ==
    [entropy |-> 10, high_entropy |-> 10, changed |-> 10,
     read_before_write |-> 24, overwrite |-> 18, coverage |-> 16,
     write_fraction |-> 6, deallocate |-> 6]

AlertThreshold == 72

ContainmentThreshold == 82

\* high_entropy_bits_per_byte is 7.5.
HighEntropy(bits) == 2 * bits >= 15

-----------------------------------------------------------------------------
(* WindowAnalyzer.                                                         *)

Kinds == {"read", "write", "deallocate", "admin"}

\* changed is the number of covered blocks the payload changes.
Observation ==
    [kind: Kinds, blocks: SUBSET Blocks, entropy: 0..8, overwrite: BOOLEAN,
     changed: Nat, read_before_write: BOOLEAN]

\* append to a deque bounded by maxlen.
Push(s, x) ==
    IF Len(s) = WindowOperations THEN Append(Tail(s), x) ELSE Append(s, x)

NotAWrite(kind, x) ==
    [kind |-> kind, blocks |-> x, entropy |-> 0, overwrite |-> FALSE,
     changed |-> 0, read_before_write |-> FALSE]

WriteObservation(x, c) ==
    [kind |-> "write", blocks |-> x, entropy |-> Entropy[c],
     overwrite |-> \E b \in x : written[b] > 0 \/ image[b] # ZeroContent,
     changed |-> Cardinality({b \in x : image[b] # c}),
     read_before_write |->
        \E i \in DOMAIN reads : reads[i] \intersect x # {}]

\* Mutant: the census also counts observations that left the window.
CensusNeverRetired(o) ==
    [b \in Blocks |->
        IF o.kind = "write" /\ b \in o.blocks THEN written[b] + 1 ELSE written[b]]

\* The census after retiring the observation about to be evicted and
\* counting o.
Census(o) ==
    [b \in Blocks |->
        LET Counts(p) == IF p.kind = "write" /\ b \in p.blocks THEN 1 ELSE 0
            retired   == IF Len(window) = WindowOperations
                         THEN Counts(Head(window)) ELSE 0
        IN  written[b] - retired + Counts(o)]

Observe(o) ==
    /\ window' = Push(window, o)
    /\ written' = Census(o)
    /\ reads' = IF o.kind = "read" THEN Push(reads, o.blocks) ELSE reads
    /\ stale' = IF Len(window) = WindowOperations /\ stale > 0
                THEN stale - 1 ELSE stale

-----------------------------------------------------------------------------
(* WindowAnalyzer.snapshot and Policy.evaluate, for a window w.            *)

Writes(w) == {i \in DOMAIN w : w[i].kind = "write"}

Destructive(w) == \E i \in DOMAIN w : w[i].kind \in {"admin", "deallocate"}

Covered(w) == UNION {w[i].blocks : i \in Writes(w)}

\* Sums over the writes of w, counted in unit steps: of the entropies in
\* bits, and of the changed fractions in Parts of a payload.
EntropySum(w) ==
    Cardinality({p \in Writes(w) \X (1..8) : p[2] <= w[p[1]].entropy})

ChangedSum(w) ==
    Cardinality({p \in Writes(w) \X (1..Parts) :
        p[2] * Cardinality(w[p[1]].blocks) <= Parts * w[p[1]].changed})

Clamp(v, high) == IF v < 0 THEN 0 ELSE IF v > high THEN high ELSE v

Sums(w) ==
    [operations        |-> Len(w),
     writes            |-> Cardinality(Writes(w)),
     entropy           |-> EntropySum(w),
     high_entropy      |-> Cardinality({i \in Writes(w) : HighEntropy(w[i].entropy)}),
     overwrite         |-> Cardinality({i \in Writes(w) : w[i].overwrite}),
     read_before_write |-> Cardinality({i \in Writes(w) : w[i].read_before_write}),
     changed           |-> ChangedSum(w),
     coverage          |-> Cardinality(Covered(w))]

\* The denominator the components of a score have in common.
Scale(f) == 2 * Parts * NamespaceBlocks * f.writes * f.operations

\* A hundred times the score, times Scale.  The deallocate component is 0
\* wherever a score is computed: a DEALLOCATE in the window is a destructive
\* command, and evaluate returns before it weighs anything.
Score(f) ==
    LET half   == Parts * NamespaceBlocks * f.operations
        counts == Weight.high_entropy * f.high_entropy
                    + Weight.overwrite * f.overwrite
                    + Weight.read_before_write * f.read_before_write
    IN  Weight.entropy * Clamp(f.entropy - 6 * f.writes, 2 * f.writes) * half
          + counts * 2 * half
          + Weight.changed * f.changed * 2 * NamespaceBlocks * f.operations
          + Weight.coverage * Clamp(20 * f.coverage, NamespaceBlocks)
                * 2 * Parts * f.writes * f.operations
          + Weight.write_fraction * f.writes * 2 * Parts * NamespaceBlocks * f.writes

Reaches(f, threshold) == Score(f) >= threshold * Scale(f)

\* Decision: alert and contain.
Alert(w) ==
    \/ Destructive(w)
    \/ Len(w) >= MinimumOperations /\ Reaches(Sums(w), AlertThreshold)

\* Mutant: the window must exceed the minimum.
ContainLate(w) ==
    \/ Destructive(w)
    \/ Len(w) > MinimumOperations /\ Reaches(Sums(w), ContainmentThreshold)

Contain(w) ==
    \/ Destructive(w)
    \/ Len(w) >= MinimumOperations /\ Reaches(Sums(w), ContainmentThreshold)

-----------------------------------------------------------------------------
(* AegisEngine.                                                            *)

Init ==
    /\ state = "normal"
    /\ image = [b \in Blocks |-> ZeroContent]
    /\ window = <<>> /\ reads = <<>>
    /\ written = [b \in Blocks |-> 0]
    /\ stale = 0

Read(x) ==
    /\ Observe(NotAWrite("read", x))
    /\ UNCHANGED <<state, image>>

Write(x, c) ==
    /\ state \in {"normal", "elevated"}
    /\ image' = [b \in Blocks |-> IF b \in x THEN c ELSE image[b]]
    /\ Observe(WriteObservation(x, c))
    /\ state' = IF Contain(window') THEN "contained"
                ELSE IF Alert(window') THEN "elevated" ELSE state

\* The command is refused in every state, and contains a writable device
\* whatever the policy says.
RejectDestructiveCommand ==
    /\ Observe(NotAWrite("admin", {}))
    /\ state' = IF state \in {"normal", "elevated"} THEN "contained" ELSE state
    /\ UNCHANGED image

\* The token checks of these three are in AegisEngine; none of them touches
\* the analyzer.
AuthorizeRecovery ==
    /\ state = "contained"
    /\ state' = "recovery_read_only"
    /\ UNCHANGED <<image, window, written, reads, stale>>

EnterMaintenance ==
    /\ state \in {"normal", "contained", "recovery_read_only"}
    /\ state' = "maintenance"
    /\ UNCHANGED <<image, window, written, reads, stale>>

ExitMaintenance ==
    /\ state = "maintenance"
    /\ state' = "normal"
    /\ stale' = Len(window)
    /\ UNCHANGED <<image, window, written, reads>>

\* The state survives in engine_state.json; the analyzer starts empty.
Restart ==
    /\ window' = <<>> /\ reads' = <<>>
    /\ written' = [b \in Blocks |-> 0]
    /\ stale' = 0
    /\ UNCHANGED <<state, image>>

Next ==
    \/ \E x \in Extents : Read(x)
    \/ \E x \in Extents, c \in Contents : Write(x, c)
    \/ RejectDestructiveCommand
    \/ AuthorizeRecovery \/ EnterMaintenance \/ ExitMaintenance
    \/ Restart

Spec == Init /\ [][Next]_vars

-----------------------------------------------------------------------------
(* Properties.                                                             *)

\* Every variable has its type; the window and the reads stay bounded.
TypeOK ==
    /\ state \in {"normal", "elevated", "contained", "recovery_read_only",
                  "maintenance"}
    /\ image \in [Blocks -> Contents]
    /\ window \in Seq(Observation) /\ Len(window) <= WindowOperations
    /\ reads \in Seq(SUBSET Blocks) /\ Len(reads) <= WindowOperations
    /\ written \in [Blocks -> Nat]
    /\ stale \in 0..Len(window)

\* The census counts, for every block, exactly the writes of the window that
\* cover it: retiring the oldest observation and counting the new one never
\* drift apart (features.py:80 and 96), so "overwrite" is scoped to the window
\* as the comment at features.py:39 says.
CensusExact ==
    \A b \in Blocks :
        written[b] = Cardinality({i \in Writes(window) : b \in window[i].blocks})

\* The score alone never takes a device out of normal unless a write of the
\* window replaced blocks read before: ELEVATED means "something genuinely
\* unusual rather than "someone copied an archive"" (policy.py:29).  This is the
\* threshold of 0.72 that the code and docs/DETECTION.md:87 have; with the 0.65
\* of docs/ARCHITECTURE.md:81 a window of writes alone would alert.
AlertNeedsRead ==
    [][state = "normal" /\ state' \in {"elevated", "contained"}
        => \/ Destructive(window')
           \/ \E i \in Writes(window') : window'[i].read_before_write]_vars

\* The in-place encryption pattern of docs/DETECTION.md: every write of the
\* window replaces other content, read before, with high-entropy content, over
\* at least a twentieth of the namespace.
InPlaceSweep(w) ==
    /\ Len(w) >= MinimumOperations
    /\ Writes(w) # {}
    /\ \A i \in Writes(w) :
        /\ w[i].entropy = 8 /\ w[i].overwrite /\ w[i].read_before_write
        /\ w[i].changed = Cardinality(w[i].blocks)
    /\ 20 * Cardinality(Covered(w)) >= NamespaceBlocks

\* A write that completes such a window is the last one accepted, however many
\* reads are mixed in: the device is contained in the same step.
SweepContained ==
    [][(state \in {"normal", "elevated"} /\ image' # image /\ InPlaceSweep(window'))
        => state' = "contained"]_vars

\* "the device is returned to clean normal operation" (engine.py:404): what was
\* observed before maintenance was left does not contain the device again.
CleanAfterMaintenance ==
    [][(state \in {"normal", "elevated"} /\ state' = "contained")
        => Contain(SubSeq(window', 1 + stale', Len(window')))]_vars
=============================================================================
