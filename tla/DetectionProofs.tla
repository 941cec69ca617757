--------------------------- MODULE DetectionProofs ---------------------------
(***************************************************************************)
(* Proofs about Detection, for every set of blocks, every namespace and    *)
(* every length of the window.                                             *)
(***************************************************************************)
EXTENDS Detection, FiniteSetTheorems, TLAPS

\* A leaf that names no prover is tried with these, with time to spare.
USE SMTT(60), SMTT(120), ZenonT(120)

-----------------------------------------------------------------------------
(* The bounded deque.                                                      *)

\* Where a window has a write that covers b.
WritesOf(w, b) == {i \in Writes(w) : b \in w[i].blocks}

Counts(o, b) == IF o.kind = "write" /\ b \in o.blocks THEN 1 ELSE 0

\* What Push leaves in the window.
LEMMA PushType ==
    ASSUME NEW S, NEW s \in Seq(S), Len(s) <= WindowOperations, NEW x \in S
    PROVE  /\ Push(s, x) \in Seq(S)
           /\ Len(Push(s, x)) <= WindowOperations
           /\ Len(Push(s, x)) = IF Len(s) = WindowOperations THEN Len(s) ELSE Len(s) + 1
           /\ Len(Push(s, x)) > 0 /\ Push(s, x)[Len(Push(s, x))] = x
<1>1. WindowOperations \in Nat \ {0} /\ Len(s) \in Nat
  BY ConfigAssumption
<1>2. CASE Len(s) = WindowOperations
  <2>1. s # <<>>
    BY <1>1, <1>2
  <2>2. Tail(s) \in Seq(S) /\ Len(Tail(s)) = Len(s) - 1
    BY <2>1
  <2> QED
    BY <1>1, <1>2, <2>2 DEF Push
<1>3. CASE Len(s) # WindowOperations
  BY <1>1, <1>3 DEF Push
<1> QED
  BY <1>2, <1>3

\* The writes of a window are finitely many.
LEMMA WritesFinite ==
    ASSUME NEW S, NEW w \in Seq(S)
    PROVE  /\ IsFiniteSet(Writes(w)) /\ Cardinality(Writes(w)) \in Nat
           /\ Cardinality(Writes(w)) <= Len(w)
           /\ \A T \in SUBSET Writes(w) :
                  /\ IsFiniteSet(T) /\ Cardinality(T) \in Nat
                  /\ Cardinality(T) <= Cardinality(Writes(w))
<1>1. Len(w) \in Nat /\ DOMAIN w = 1..Len(w)
  OBVIOUS
<1>2. IsFiniteSet(1..Len(w)) /\ Cardinality(1..Len(w)) = IF 1 > Len(w) THEN 0 ELSE Len(w) - 1 + 1
  BY <1>1, FS_Interval
<1>3. Cardinality(1..Len(w)) = Len(w)
  BY <1>1, <1>2
<1>4. Writes(w) \in SUBSET (1..Len(w))
  BY <1>1 DEF Writes
<1>5. IsFiniteSet(Writes(w)) /\ Cardinality(Writes(w)) <= Cardinality(1..Len(w))
  BY <1>2, <1>4, FS_Subset
<1>6. Cardinality(Writes(w)) \in Nat
  BY <1>5, FS_CardinalityType
<1>7. ASSUME NEW T \in SUBSET Writes(w)
      PROVE  /\ IsFiniteSet(T) /\ Cardinality(T) \in Nat
             /\ Cardinality(T) <= Cardinality(Writes(w))
  BY <1>5, FS_Subset, FS_CardinalityType
<1> QED
  BY <1>3, <1>5, <1>6, <1>7

\* An observation added at the end is counted.
LEMMA AppendCounted ==
    ASSUME NEW w \in Seq(Observation), NEW o \in Observation, NEW b
    PROVE  Cardinality(WritesOf(Append(w, o), b)) = Cardinality(WritesOf(w, b)) + Counts(o, b)
<1> DEFINE W == WritesOf(w, b)
           n == Len(w) + 1
<1>1. Len(w) \in Nat /\ DOMAIN w = 1..Len(w) /\ DOMAIN Append(w, o) = 1..n
  OBVIOUS
<1>2. Append(w, o)[n] = o /\ \A i \in 1..Len(w) : Append(w, o)[i] = w[i]
  OBVIOUS
<1>3. 1..n = (1..Len(w)) \cup {n} /\ n \notin 1..Len(w)
  BY <1>1
<1>4. IsFiniteSet(W) /\ n \notin W /\ Cardinality(W) \in Nat
  <2>1. W \in SUBSET Writes(w)
    BY DEF WritesOf
  <2>2. IsFiniteSet(W) /\ Cardinality(W) \in Nat
    BY <2>1, WritesFinite
  <2>3. n \notin W
    BY <1>1, <1>3 DEF WritesOf, Writes
  <2> QED
    BY <2>2, <2>3
<1>5. WritesOf(Append(w, o), b) = IF o.kind = "write" /\ b \in o.blocks THEN W \cup {n} ELSE W
  BY <1>1, <1>2, <1>3 DEF WritesOf, Writes
<1>6. Cardinality(W \cup {n}) = Cardinality(W) + 1
  BY <1>4, FS_AddElement, ZenonT(120)
<1> QED
  BY <1>4, <1>5, <1>6 DEF Counts

\* The oldest observation is no longer counted once it left.
LEMMA TailCounted ==
    ASSUME NEW w \in Seq(Observation), w # <<>>, NEW b
    PROVE  Cardinality(WritesOf(Tail(w), b)) = Cardinality(WritesOf(w, b)) - Counts(Head(w), b)
<1> DEFINE W == WritesOf(w, b)
           T == WritesOf(Tail(w), b)
           f == [i \in T |-> i + 1]
<1>1. /\ Len(w) \in Nat \ {0} /\ DOMAIN w = 1..Len(w)
      /\ Tail(w) \in Seq(Observation) /\ DOMAIN Tail(w) = 1..Len(w) - 1
      /\ Head(w) = w[1]
      /\ \A i \in 1..Len(w) - 1 : Tail(w)[i] = w[i + 1]
  OBVIOUS
<1>2. IsFiniteSet(W) /\ IsFiniteSet(T) /\ Cardinality(W) \in Nat
  BY <1>1, WritesFinite, ZenonT(120) DEF WritesOf
<1>3. T = {i \in 1..Len(w) - 1 : w[i + 1].kind = "write" /\ b \in w[i + 1].blocks}
  BY <1>1 DEF WritesOf, Writes
<1>4. W = {i \in 1..Len(w) : w[i].kind = "write" /\ b \in w[i].blocks}
  BY <1>1 DEF WritesOf, Writes
<1>5. 1 \in W <=> (Head(w).kind = "write" /\ b \in Head(w).blocks)
  BY <1>1, <1>4
<1>6. ExistsBijection(T, W \ {1})
  <2>1. \A i \in T : i \in Int /\ f[i] = i + 1 /\ i + 1 \in W \ {1}
    BY <1>1, <1>3, <1>4
  <2>2. \A j \in W \ {1} : j - 1 \in T /\ f[j - 1] = j
    <3> SUFFICES ASSUME NEW j \in W \ {1} PROVE j - 1 \in T /\ f[j - 1] = j
      BY ZenonT(120)
    <3>1. j \in 1..Len(w) /\ j # 1 /\ (j - 1) + 1 = j /\ j - 1 \in 1..Len(w) - 1
      BY <1>1, <1>4
    <3> QED
      BY <3>1, <1>3, <1>4
  <2>3. f \in [T -> W \ {1}]
    BY <2>1
  <2>4. \A i, j \in T : f[i] = f[j] => i = j
    BY <2>1
  <2>5. f \in Bijection(T, W \ {1})
    BY <2>2, <2>3, <2>4, ZenonT(120) DEF Bijection, Injection, Surjection, IsInjective
  <2> QED
    BY <2>5, ZenonT(120) DEF ExistsBijection
<1>7. Cardinality(T) = Cardinality(W \ {1})
  BY <1>2, <1>6, FS_Bijection
<1>8. Cardinality(W \ {1}) = IF 1 \in W THEN Cardinality(W) - 1 ELSE Cardinality(W)
  BY <1>2, FS_RemoveElement, ZenonT(120)
<1> QED
  BY <1>2, <1>5, <1>7, <1>8 DEF Counts

-----------------------------------------------------------------------------
(* The census.                                                             *)

\* The inductive invariant: TypeOK bounds the window, which makes Push and
\* Census agree on what is retired.
CensusInv == TypeOK /\ CensusExact

\* Observing anything keeps the analyzer's part of the invariant.
LEMMA ObserveInv ==
    ASSUME CensusInv, NEW o \in Observation, Observe(o)
    PROVE  /\ window' \in Seq(Observation) /\ Len(window') <= WindowOperations
           /\ reads' \in Seq(SUBSET Blocks) /\ Len(reads') <= WindowOperations
           /\ written' \in [Blocks -> Nat]
           /\ stale' \in 0..Len(window')
           /\ CensusExact'
           /\ Len(window') > 0 /\ window'[Len(window')] = o
<1>1. /\ window \in Seq(Observation) /\ Len(window) <= WindowOperations
      /\ reads \in Seq(SUBSET Blocks) /\ Len(reads) <= WindowOperations
      /\ written \in [Blocks -> Nat] /\ stale \in 0..Len(window)
      /\ WindowOperations \in Nat \ {0} /\ Len(window) \in Nat
  BY ConfigAssumption DEF CensusInv, TypeOK
<1>2. window' = Push(window, o) /\ written' = Census(o)
  BY DEF Observe
<1>3. /\ window' \in Seq(Observation) /\ Len(window') <= WindowOperations
      /\ Len(window') = IF Len(window) = WindowOperations THEN Len(window) ELSE Len(window) + 1
      /\ Len(window') > 0 /\ window'[Len(window')] = o
  BY <1>1, <1>2, PushType, ZenonT(120)
<1>4. reads' \in Seq(SUBSET Blocks) /\ Len(reads') <= WindowOperations
  <2>1. o.blocks \in SUBSET Blocks
    BY DEF Observation
  <2>2. /\ Push(reads, o.blocks) \in Seq(SUBSET Blocks)
        /\ Len(Push(reads, o.blocks)) <= WindowOperations
    BY <1>1, <2>1, PushType, ZenonT(120)
  <2> QED
    BY <1>1, <2>2 DEF Observe
<1>5. stale' \in 0..Len(window')
  BY <1>1, <1>3 DEF Observe
<1>6. ASSUME NEW b \in Blocks
      PROVE  /\ written'[b] = Cardinality(WritesOf(window', b))
             /\ Cardinality(WritesOf(window', b)) \in Nat
  <2>1. written[b] = Cardinality(WritesOf(window, b)) /\ written[b] \in Nat
    BY <1>1 DEF CensusInv, CensusExact, WritesOf
  <2>2. Counts(o, b) \in {0, 1}
    BY DEF Counts
  <2>3. WritesOf(window', b) \in SUBSET Writes(window')
    BY DEF WritesOf
  <2>4. Cardinality(WritesOf(window', b)) \in Nat
    BY <1>3, <2>3, WritesFinite
  <2>5. CASE Len(window) = WindowOperations
    <3>1. window # <<>> /\ Tail(window) \in Seq(Observation)
      BY <1>1, <2>5
    <3>2. window' = Append(Tail(window), o)
      BY <1>2, <2>5 DEF Push
    <3>3. Cardinality(WritesOf(window', b))
            = Cardinality(WritesOf(Tail(window), b)) + Counts(o, b)
      BY <3>1, <3>2, AppendCounted, ZenonT(120)
    <3>4. Cardinality(WritesOf(Tail(window), b)) = written[b] - Counts(Head(window), b)
      BY <1>1, <2>1, <3>1, TailCounted
    <3>5. written'[b] = written[b] - Counts(Head(window), b) + Counts(o, b)
      BY <1>2, <2>5 DEF Census, Counts
    <3> QED
      BY <2>4, <3>3, <3>4, <3>5
  <2>6. CASE Len(window) # WindowOperations
    <3>1. window' = Append(window, o)
      BY <1>2, <2>6 DEF Push
    <3>2. Cardinality(WritesOf(window', b)) = written[b] + Counts(o, b)
      BY <1>1, <2>1, <3>1, AppendCounted
    <3>3. written'[b] = written[b] - 0 + Counts(o, b)
      BY <1>2, <2>6 DEF Census, Counts
    <3> QED
      BY <2>1, <2>2, <2>4, <3>2, <3>3
  <2> QED
    BY <2>5, <2>6
<1>7. written' = [b \in Blocks |-> written'[b]]
  BY <1>2 DEF Census
<1>8. written' \in [Blocks -> Nat] /\ CensusExact'
  BY <1>6, <1>7, ZenonT(120) DEF CensusExact, WritesOf
<1> QED
  BY <1>3, <1>4, <1>5, <1>8

\* What the engine observes is an observation.
LEMMA ObservationTypes ==
    ASSUME TypeOK, NEW x \in Extents, NEW c \in Contents
    PROVE  /\ NotAWrite("read", x) \in Observation
           /\ NotAWrite("admin", {}) \in Observation
           /\ WriteObservation(x, c) \in Observation
<1>1. x \in SUBSET Blocks /\ IsFiniteSet(x)
  BY ExtentsAssumption, FS_Subset
<1>2. {b \in x : image[b] # c} \in SUBSET x
  OBVIOUS
<1>3. Cardinality({b \in x : image[b] # c}) \in Nat
  BY <1>1, <1>2, FS_Subset, FS_CardinalityType
<1>4. Entropy[c] \in 0..8
  BY ConfigAssumption
<1>5. NotAWrite("read", x) \in Observation /\ NotAWrite("admin", {}) \in Observation
  BY <1>1 DEF NotAWrite, Observation, Kinds
<1>6. WriteObservation(x, c) \in Observation
  BY <1>1, <1>3, <1>4 DEF WriteObservation, Observation, Kinds
<1> QED
  BY <1>5, <1>6

\* A step with an observation is a read, a write or a refused command; all
\* others leave the analyzer alone or make a new one.
LEMMA CensusNext ==
    ASSUME CensusInv, [Next]_vars
    PROVE  CensusInv'
<1> USE DEF CensusInv
<1>1. ASSUME NEW x \in Extents, Read(x) PROVE CensusInv'
  <2>1. NotAWrite("read", x) \in Observation
    BY ObservationTypes, ConfigAssumption
  <2>2. Observe(NotAWrite("read", x)) /\ UNCHANGED <<state, image>>
    BY <1>1 DEF Read
  <2> HIDE DEF CensusInv
  <2> QED
    BY <2>1, <2>2, ObserveInv DEF CensusInv, TypeOK
<1>2. ASSUME NEW x \in Extents, NEW c \in Contents, Write(x, c) PROVE CensusInv'
  <2>1. WriteObservation(x, c) \in Observation
    BY ObservationTypes
  <2>2. Observe(WriteObservation(x, c))
    BY <1>2 DEF Write
  <2>3. image' \in [Blocks -> Contents]
    BY <1>2 DEF Write, TypeOK
  <2>4. state' \in {state, "contained", "elevated"}
    BY <1>2 DEF Write
  <2> HIDE DEF CensusInv
  <2> QED
    BY <2>1, <2>2, <2>3, <2>4, ObserveInv DEF CensusInv, TypeOK
<1>3. CASE RejectDestructiveCommand
  <2>1. NotAWrite("admin", {}) \in Observation
    BY DEF NotAWrite, Observation, Kinds
  <2>2. /\ Observe(NotAWrite("admin", {})) /\ UNCHANGED image
        /\ state' \in {state, "contained"}
    BY <1>3 DEF RejectDestructiveCommand
  <2> HIDE DEF CensusInv
  <2> QED
    BY <2>1, <2>2, ObserveInv DEF CensusInv, TypeOK
<1>4. CASE AuthorizeRecovery \/ EnterMaintenance \/ ExitMaintenance \/ UNCHANGED vars
  <2>1. UNCHANGED <<image, window, written, reads>>
    BY <1>4 DEF AuthorizeRecovery, EnterMaintenance, ExitMaintenance, vars
  <2>2. stale' \in {stale, Len(window)}
    BY <1>4 DEF AuthorizeRecovery, EnterMaintenance, ExitMaintenance, vars
  <2>3. state' \in {state, "recovery_read_only", "maintenance", "normal"}
    BY <1>4 DEF AuthorizeRecovery, EnterMaintenance, ExitMaintenance, vars
  <2>4. Len(window) \in Nat
    BY DEF TypeOK
  <2>5. TypeOK'
    BY <2>1, <2>2, <2>3, <2>4 DEF TypeOK
  <2>6. CensusExact'
    BY <2>1 DEF CensusExact, Writes
  <2> QED
    BY <2>5, <2>6
<1>5. CASE Restart
  <2>1. /\ window' = <<>> /\ reads' = <<>> /\ stale' = 0 /\ UNCHANGED <<state, image>>
        /\ written' = [b \in Blocks |-> 0]
    BY <1>5 DEF Restart
  <2>2. TypeOK'
    BY <2>1, ConfigAssumption DEF TypeOK
  <2>3. \A b : {i \in Writes(window') : b \in window'[i].blocks} = {}
    BY <2>1 DEF Writes
  <2>4. CensusExact'
    BY <2>1, <2>3, FS_EmptySet DEF CensusExact
  <2> QED
    BY <2>2, <2>4
<1> QED
  BY <1>1, <1>2, <1>3, <1>4, <1>5 DEF Next

\* A new analyzer is exact.
LEMMA CensusInit == Init => CensusInv
<1> SUFFICES ASSUME Init PROVE CensusInv
  OBVIOUS
<1>1. TypeOK
  BY ConfigAssumption DEF Init, TypeOK
<1>2. \A b : {i \in Writes(window) : b \in window[i].blocks} = {}
  BY DEF Init, Writes
<1>3. CensusExact
  BY <1>2, FS_EmptySet, ZenonT(120) DEF Init, CensusExact
<1> QED
  BY <1>1, <1>3 DEF CensusInv

\* Every reachable state is well typed, and the census of written blocks is
\* that of the window: what the deque evicts is retired and nothing else is
\* (features.py:80 and 96), for every length of the window.
THEOREM CensusInvariant == Spec => []CensusInv
<1>1. Init => CensusInv
  BY CensusInit
<1>2. CensusInv /\ [Next]_vars => CensusInv'
  BY CensusNext
<1> QED
  BY <1>1, <1>2, PTL DEF Spec

\* CensusExact on its own.
THEOREM DetectionCensus == Spec => []CensusExact
<1>1. CensusInv => CensusExact
  BY DEF CensusInv
<1> QED
  BY <1>1, CensusInvariant, PTL

-----------------------------------------------------------------------------
(* The score.                                                              *)

\* Products are monotone.
LEMMA TimesMonotone ==
    ASSUME NEW a \in Nat, NEW b \in Nat, NEW c \in Nat, a <= b
    PROVE  a * c \in Nat /\ b * c \in Nat /\ a * c <= b * c
<1>1. PICK d \in Nat : b = a + d
  <2>1. b - a \in Nat /\ b = a + (b - a)
    OBVIOUS
  <2> QED
    BY <2>1
<1>2. b * c = a * c + d * c
  BY <1>1
<1>3. a * c \in Nat /\ d * c \in Nat
  OBVIOUS
<1> QED
  BY <1>2, <1>3

\* The sums of a window that has a write, and how large they can be.
LEMMA SumsBounds ==
    ASSUME NEW w \in Seq(Observation), Writes(w) # {}
    PROVE  LET f == Sums(w) IN
           /\ f.operations \in Nat /\ f.writes \in Nat /\ f.writes <= f.operations
           /\ f.writes > 0
           /\ f.high_entropy \in Nat /\ f.high_entropy <= f.writes
           /\ f.overwrite \in Nat /\ f.overwrite <= f.writes
           /\ f.read_before_write \in Nat /\ f.read_before_write <= f.writes
           /\ f.entropy \in Nat
           /\ f.changed \in Nat /\ f.changed <= f.writes * Parts
           /\ f.coverage \in Nat
<1> DEFINE n == Cardinality(Writes(w))
<1>1. IsFiniteSet(Writes(w)) /\ n \in Nat /\ n <= Len(w) /\ n > 0
  BY WritesFinite, FS_EmptySet
<1>2. \A T \in SUBSET Writes(w) : Cardinality(T) \in Nat /\ Cardinality(T) <= n
  BY WritesFinite
<1>3. EntropySum(w) \in Nat
  <2>1. IsFiniteSet(1..8)
    <3>1. 1 \in Int /\ 8 \in Int
      OBVIOUS
    <3> QED
      BY <3>1, FS_Interval, ZenonT(120)
  <2>2. IsFiniteSet(Writes(w) \X (1..8))
    BY <1>1, <2>1, FS_Product
  <2>3. {q \in Writes(w) \X (1..8) : q[2] <= w[q[1]].entropy}
          \in SUBSET (Writes(w) \X (1..8))
    OBVIOUS
  <2>4. IsFiniteSet({q \in Writes(w) \X (1..8) : q[2] <= w[q[1]].entropy})
    BY <2>2, <2>3, FS_Subset
  <2> QED
    BY <2>4, FS_CardinalityType DEF EntropySum
<1>4. ChangedSum(w) \in Nat /\ ChangedSum(w) <= n * Parts
  <2> DEFINE X == Writes(w) \X (1..Parts)
             Y == {q \in X : q[2] * Cardinality(w[q[1]].blocks) <= Parts * w[q[1]].changed}
  <2>1. Parts \in Nat \ {0}
    BY ConfigAssumption
  <2>2. IsFiniteSet(1..Parts) /\ Cardinality(1..Parts) = Parts
    <3>1. IsFiniteSet(1..Parts)
          /\ Cardinality(1..Parts) = IF 1 > Parts THEN 0 ELSE Parts - 1 + 1
      BY <2>1, FS_Interval
    <3> QED
      BY <2>1, <3>1
  <2>3. IsFiniteSet(X) /\ Cardinality(X) = n * Parts
    BY <1>1, <2>2, FS_Product, ZenonT(120)
  <2>4. Y \in SUBSET X
    OBVIOUS
  <2>5. IsFiniteSet(Y) /\ Cardinality(Y) <= Cardinality(X)
    BY <2>3, <2>4, FS_Subset
  <2>6. Cardinality(Y) \in Nat
    BY <2>5, FS_CardinalityType
  <2>7. ChangedSum(w) = Cardinality(Y)
    BY DEF ChangedSum
  <2> QED
    BY <2>3, <2>5, <2>6, <2>7
<1>5. Cardinality(Covered(w)) \in Nat
  <2>1. Covered(w) \in SUBSET Blocks
    <3>1. \A i \in Writes(w) : w[i] \in Observation
      BY DEF Writes
    <3>2. \A i \in Writes(w) : w[i].blocks \subseteq Blocks
      BY <3>1 DEF Observation
    <3> QED
      BY <3>2, Zenon DEF Covered
  <2> QED
    BY <2>1, ExtentsAssumption, FS_Subset, FS_CardinalityType
<1> DEFINE H == {i \in Writes(w) : HighEntropy(w[i].entropy)}
           O == {i \in Writes(w) : w[i].overwrite}
           R == {i \in Writes(w) : w[i].read_before_write}
<1>6. /\ Sums(w).operations = Len(w) /\ Sums(w).writes = n
      /\ Sums(w).high_entropy = Cardinality(H) /\ Sums(w).overwrite = Cardinality(O)
      /\ Sums(w).read_before_write = Cardinality(R)
      /\ Sums(w).entropy = EntropySum(w) /\ Sums(w).changed = ChangedSum(w)
      /\ Sums(w).coverage = Cardinality(Covered(w))
  BY DEF Sums
<1>7. H \in SUBSET Writes(w) /\ O \in SUBSET Writes(w) /\ R \in SUBSET Writes(w)
  OBVIOUS
<1> HIDE DEF n, H, O, R
<1>8. /\ Cardinality(H) \in Nat /\ Cardinality(H) <= n
      /\ Cardinality(O) \in Nat /\ Cardinality(O) <= n
      /\ Cardinality(R) \in Nat /\ Cardinality(R) <= n
  BY <1>2, <1>7
<1>9. Len(w) \in Nat
  OBVIOUS
<1> QED
  BY <1>1, <1>3, <1>4, <1>5, <1>6, <1>8, <1>9

\* Clamp keeps a value between 0 and its bound.
LEMMA ClampBounds ==
    ASSUME NEW v \in Int, NEW high \in Nat
    PROVE  /\ Clamp(v, high) \in Nat /\ Clamp(v, high) <= high
           /\ v >= high => Clamp(v, high) = high
BY DEF Clamp

\* The terms of a score, with the coefficients put in.
LEMMA ScoreTerms ==
    ASSUME NEW f
    PROVE  LET E == Clamp(f.entropy - 6 * f.writes, 2 * f.writes)
               V == Clamp(20 * f.coverage, NamespaceBlocks)
               q == Parts * NamespaceBlocks * f.operations
           IN  Score(f) = 10 * E * q
                   + (10 * f.high_entropy + 18 * f.overwrite + 24 * f.read_before_write) * 2 * q
                   + 10 * f.changed * 2 * NamespaceBlocks * f.operations
                   + 16 * V * 2 * Parts * f.writes * f.operations
                   + 6 * f.writes * 2 * Parts * NamespaceBlocks * f.writes
<1>1. /\ Weight.entropy = 10 /\ Weight.high_entropy = 10 /\ Weight.changed = 10
      /\ Weight.read_before_write = 24 /\ Weight.overwrite = 18 /\ Weight.coverage = 16
      /\ Weight.write_fraction = 6
  BY DEF Weight
<1> QED
  BY <1>1, Zenon DEF Score

\* The common denominator of a window that has a write is not 0.
LEMMA ScalePositive ==
    ASSUME NEW P \in Nat \ {0}, NEW N \in Nat \ {0}, NEW W \in Nat \ {0}, NEW L \in Nat \ {0}
    PROVE  2 * P * N * W * L \in Nat \ {0}
<1>1. P * N \in Nat \ {0}
  OBVIOUS
<1>2. (P * N) * W \in Nat \ {0}
  BY <1>1
<1>3. ((P * N) * W) * L \in Nat \ {0}
  BY <1>2
<1>4. 2 * P * N * W * L = 2 * (((P * N) * W) * L)
  OBVIOUS
<1> QED
  BY <1>3, <1>4

\* The score of such terms, for any sizes.
LEMMA QuietArithmetic ==
    ASSUME NEW E \in Nat, NEW V \in Nat, NEW H \in Nat, NEW O \in Nat, NEW C \in Nat,
           NEW L \in Nat, NEW W \in Nat, NEW P \in Nat, NEW N \in Nat,
           E <= 2 * W, V <= N, H <= W, O <= W, C <= W * P, W <= L
    PROVE  10 * E * (P * N * L) + (10 * H + 18 * O + 24 * 0) * 2 * (P * N * L)
             + 10 * C * 2 * N * L + 16 * V * 2 * P * W * L + 6 * W * 2 * P * N * W
               <= 70 * (2 * P * N * W * L)
<1> DEFINE q == P * N * L
           S == P * N * W * L
<1>1. q \in Nat /\ S \in Nat /\ N * L \in Nat /\ P * W * L \in Nat /\ P * N * W \in Nat
      /\ W * P \in Nat
  OBVIOUS
<1>2. E * q \in Nat /\ E * q <= 2 * S
  <2>1. E * q \in Nat /\ E * q <= (2 * W) * q
    BY <1>1, TimesMonotone
  <2>2. (2 * W) * q = 2 * S
    OBVIOUS
  <2> QED
    BY <2>1, <2>2
<1>3. H * q \in Nat /\ O * q \in Nat /\ H * q <= S /\ O * q <= S
  <2>1. H * q <= W * q /\ O * q <= W * q /\ H * q \in Nat /\ O * q \in Nat
    BY <1>1, TimesMonotone
  <2>2. W * q = S
    OBVIOUS
  <2> QED
    BY <2>1, <2>2
<1>4. C * (N * L) \in Nat /\ C * (N * L) <= S
  <2>1. C * (N * L) \in Nat /\ C * (N * L) <= (W * P) * (N * L)
    BY <1>1, TimesMonotone
  <2>2. (W * P) * (N * L) = S
    OBVIOUS
  <2> QED
    BY <2>1, <2>2
<1>5. V * (P * W * L) \in Nat /\ V * (P * W * L) <= S
  <2>1. V * (P * W * L) \in Nat /\ V * (P * W * L) <= N * (P * W * L)
    BY <1>1, TimesMonotone
  <2>2. N * (P * W * L) = S
    OBVIOUS
  <2> QED
    BY <2>1, <2>2
<1>6. W * (P * N * W) \in Nat /\ W * (P * N * W) <= S
  <2>1. W * (P * N * W) \in Nat /\ W * (P * N * W) <= L * (P * N * W)
    BY <1>1, TimesMonotone
  <2>2. L * (P * N * W) = S
    OBVIOUS
  <2> QED
    BY <2>1, <2>2
<1>7. /\ 10 * E * (P * N * L) = 10 * (E * q)
      /\ (10 * H + 18 * O + 24 * 0) * 2 * (P * N * L) = 20 * (H * q) + 36 * (O * q)
      /\ 10 * C * 2 * N * L = 20 * (C * (N * L))
      /\ 16 * V * 2 * P * W * L = 32 * (V * (P * W * L))
      /\ 6 * W * 2 * P * N * W = 12 * (W * (P * N * W))
      /\ 70 * (2 * P * N * W * L) = 140 * S
  OBVIOUS
<1> HIDE DEF q, S
<1> QED
  BY <1>1, <1>2, <1>3, <1>4, <1>5, <1>6, <1>7

\* A window in which no write replaces what was read scores below the alert
\* threshold: the other components weigh 70 of the 100 together, and the
\* threshold is 72.
LEMMA QuietScore ==
    ASSUME NEW w \in Seq(Observation), Writes(w) # {},
           \A i \in Writes(w) : ~w[i].read_before_write
    PROVE  ~Reaches(Sums(w), AlertThreshold) /\ ~Reaches(Sums(w), ContainmentThreshold)
<1> DEFINE f == Sums(w)
           L == f.operations
           W == f.writes
           H == f.high_entropy
           O == f.overwrite
           C == f.changed
           E == Clamp(f.entropy - 6 * f.writes, 2 * f.writes)
           V == Clamp(20 * f.coverage, NamespaceBlocks)
<1>1. NamespaceBlocks \in Nat \ {0} /\ Parts \in Nat \ {0}
  BY ConfigAssumption
<1>2. /\ L \in Nat /\ W \in Nat /\ W <= L /\ W > 0
      /\ H \in Nat /\ H <= W /\ O \in Nat /\ O <= W /\ C \in Nat /\ C <= W * Parts
      /\ f.entropy \in Nat /\ f.coverage \in Nat
  BY SumsBounds
<1>3. f.read_before_write = 0
  <2>1. {i \in Writes(w) : w[i].read_before_write} = {}
    OBVIOUS
  <2> QED
    BY <2>1, FS_EmptySet, ZenonT(120) DEF Sums
<1>4. Score(f) = 10 * E * (Parts * NamespaceBlocks * L)
                   + (10 * H + 18 * O + 24 * 0) * 2 * (Parts * NamespaceBlocks * L)
                   + 10 * C * 2 * NamespaceBlocks * L
                   + 16 * V * 2 * Parts * W * L
                   + 6 * W * 2 * Parts * NamespaceBlocks * W
  BY <1>3, ScoreTerms, ZenonT(120)
<1>5. Scale(f) = 2 * Parts * NamespaceBlocks * W * L
  BY DEF Scale
<1>6. E \in Nat /\ E <= 2 * W /\ V \in Nat /\ V <= NamespaceBlocks
  <2> HIDE DEF f
  <2>1. E = Clamp(f.entropy - 6 * W, 2 * W)
    OBVIOUS
  <2> HIDE DEF E, W
  <2>2. f.entropy - 6 * W \in Int /\ 2 * W \in Nat /\ 20 * f.coverage \in Int
    BY <1>2
  <2> QED
    <3>1. /\ Clamp(f.entropy - 6 * W, 2 * W) \in Nat
          /\ Clamp(f.entropy - 6 * W, 2 * W) <= 2 * W
      BY <2>2, ClampBounds
    <3>2. V \in Nat /\ V <= NamespaceBlocks
      BY <1>1, <2>2, ClampBounds, ZenonT(120)
    <3> QED
      BY <2>1, <3>1, <3>2
<1> HIDE DEF f, L, W, H, O, C, E, V
<1>7. Score(f) <= 70 * (2 * Parts * NamespaceBlocks * W * L)
  BY <1>1, <1>2, <1>4, <1>6, QuietArithmetic
<1>8. 2 * Parts * NamespaceBlocks * W * L \in Nat \ {0}
  BY <1>1, <1>2, ScalePositive
<1>9. Score(f) \in Int
  BY <1>1, <1>2, <1>4, <1>6
<1>10. ~(Score(f) >= 72 * Scale(f)) /\ ~(Score(f) >= 82 * Scale(f))
  BY <1>5, <1>7, <1>8, <1>9
<1> QED
  BY <1>10 DEF Reaches, AlertThreshold, ContainmentThreshold, f

\* The sums of an in-place sweep are as large as they can be.
LEMMA SweepSums ==
    ASSUME NEW w \in Seq(Observation), InPlaceSweep(w)
    PROVE  LET f == Sums(w) IN
           /\ f.high_entropy = f.writes /\ f.overwrite = f.writes
           /\ f.read_before_write = f.writes
           /\ f.entropy = f.writes * 8 /\ f.changed = f.writes * Parts
           /\ 20 * f.coverage >= NamespaceBlocks
<1>1. \A i \in Writes(w) :
          /\ w[i] \in Observation
          /\ w[i].entropy = 8 /\ w[i].overwrite /\ w[i].read_before_write
          /\ w[i].changed = Cardinality(w[i].blocks)
  BY DEF InPlaceSweep, Writes
<1>2. /\ {i \in Writes(w) : w[i].overwrite} = Writes(w)
      /\ {i \in Writes(w) : w[i].read_before_write} = Writes(w)
  BY <1>1
<1>3. {i \in Writes(w) : HighEntropy(w[i].entropy)} = Writes(w)
  BY <1>1 DEF HighEntropy
<1>4. IsFiniteSet(Writes(w)) /\ Cardinality(Writes(w)) \in Nat
  BY WritesFinite
<1>5. EntropySum(w) = Cardinality(Writes(w)) * 8
  <2>1. {q \in Writes(w) \X (1..8) : q[2] <= w[q[1]].entropy} = Writes(w) \X (1..8)
    BY <1>1
  <2>2. IsFiniteSet(1..8) /\ Cardinality(1..8) = 8
    <3>1. 1 \in Int /\ 8 \in Int
      OBVIOUS
    <3>2. IsFiniteSet(1..8) /\ Cardinality(1..8) = IF 1 > 8 THEN 0 ELSE 8 - 1 + 1
      BY <3>1, FS_Interval, ZenonT(120)
    <3> QED
      BY <3>2
  <2>3. Cardinality(Writes(w) \X (1..8)) = Cardinality(Writes(w)) * Cardinality(1..8)
    BY <1>4, <2>2, FS_Product, ZenonT(120)
  <2> QED
    BY <2>1, <2>2, <2>3, ZenonT(120) DEF EntropySum
<1>6. ChangedSum(w) = Cardinality(Writes(w)) * Parts
  <2>1. Parts \in Nat \ {0}
    BY ConfigAssumption
  <2>2. ASSUME NEW i \in Writes(w), NEW n \in 1..Parts
        PROVE  n * Cardinality(w[i].blocks) <= Parts * w[i].changed
    <3>1. w[i].blocks \in SUBSET Blocks
      BY <1>1 DEF Observation
    <3>2. Cardinality(w[i].blocks) \in Nat
      BY <3>1, ExtentsAssumption, FS_Subset, FS_CardinalityType
    <3>3. n \in Nat /\ n <= Parts
      BY <2>1
    <3> QED
      BY <1>1, <2>1, <3>2, <3>3, TimesMonotone
  <2>3. {q \in Writes(w) \X (1..Parts) :
            q[2] * Cardinality(w[q[1]].blocks) <= Parts * w[q[1]].changed}
          = Writes(w) \X (1..Parts)
    BY <2>2
  <2>4. IsFiniteSet(1..Parts) /\ Cardinality(1..Parts) = Parts
    <3>1. IsFiniteSet(1..Parts)
          /\ Cardinality(1..Parts) = IF 1 > Parts THEN 0 ELSE Parts - 1 + 1
      BY <2>1, FS_Interval
    <3> QED
      BY <2>1, <3>1
  <2>5. Cardinality(Writes(w) \X (1..Parts)) = Cardinality(Writes(w)) * Cardinality(1..Parts)
    BY <1>4, <2>4, FS_Product, ZenonT(120)
  <2> QED
    BY <2>3, <2>4, <2>5, ZenonT(120) DEF ChangedSum
<1>7. 20 * Cardinality(Covered(w)) >= NamespaceBlocks
  BY DEF InPlaceSweep
<1> QED
  BY <1>2, <1>3, <1>5, <1>6, <1>7, ZenonT(120) DEF Sums

\* Such terms make up 88 of the 100.
LEMMA SweepArithmetic ==
    ASSUME NEW L \in Nat, NEW W \in Nat, NEW P \in Nat, NEW N \in Nat
    PROVE  10 * (2 * W) * (P * N * L) + (10 * W + 18 * W + 24 * W) * 2 * (P * N * L)
             + 10 * (W * P) * 2 * N * L + 16 * N * 2 * P * W * L + 6 * W * 2 * P * N * W
               >= 82 * (2 * P * N * W * L)
<1> DEFINE S == P * N * W * L
<1>1. S \in Nat /\ W * (P * N * W) \in Nat
  OBVIOUS
<1>2. /\ 10 * (2 * W) * (P * N * L) = 20 * S
      /\ (10 * W + 18 * W + 24 * W) * 2 * (P * N * L) = 104 * S
      /\ 10 * (W * P) * 2 * N * L = 20 * S
      /\ 16 * N * 2 * P * W * L = 32 * S
      /\ 6 * W * 2 * P * N * W = 12 * (W * (P * N * W))
      /\ 82 * (2 * P * N * W * L) = 164 * S
  OBVIOUS
<1> HIDE DEF S
<1> QED
  BY <1>1, <1>2

\* An in-place sweep reaches the containment threshold.
LEMMA SweepScore ==
    ASSUME NEW w \in Seq(Observation), InPlaceSweep(w)
    PROVE  Reaches(Sums(w), ContainmentThreshold)
<1> DEFINE f == Sums(w)
           L == f.operations
           W == f.writes
<1>1. NamespaceBlocks \in Nat \ {0} /\ Parts \in Nat \ {0}
  BY ConfigAssumption
<1>2. L \in Nat /\ W \in Nat /\ f.coverage \in Nat
  BY SumsBounds DEF InPlaceSweep
<1>3. /\ f.high_entropy = W /\ f.overwrite = W /\ f.read_before_write = W
      /\ f.entropy = W * 8 /\ f.changed = W * Parts /\ 20 * f.coverage >= NamespaceBlocks
  BY SweepSums
<1> HIDE DEF f
<1>4. Clamp(f.entropy - 6 * W, 2 * W) = 2 * W
  <2>1. f.entropy - 6 * W = 2 * W /\ 2 * W \in Nat
    <3> HIDE DEF W
    <3> QED
      BY <1>2, <1>3
  <2> HIDE DEF W
  <2>2. 2 * W \in Int /\ 2 * W >= 2 * W
    BY <2>1
  <2>3. Clamp(2 * W, 2 * W) = 2 * W
    BY <2>1, <2>2, ClampBounds
  <2> QED
    BY <2>1, <2>3
<1>5. Clamp(20 * f.coverage, NamespaceBlocks) = NamespaceBlocks
  <2>1. 20 * f.coverage \in Int
    BY <1>2
  <2> QED
    BY <1>1, <1>3, <2>1, ClampBounds, ZenonT(120)
<1>6. Score(f) = 10 * (2 * W) * (Parts * NamespaceBlocks * L)
                   + (10 * W + 18 * W + 24 * W) * 2 * (Parts * NamespaceBlocks * L)
                   + 10 * (W * Parts) * 2 * NamespaceBlocks * L
                   + 16 * NamespaceBlocks * 2 * Parts * W * L
                   + 6 * W * 2 * Parts * NamespaceBlocks * W
  BY <1>3, <1>4, <1>5, ScoreTerms, ZenonT(120)
<1>7. Scale(f) = 2 * Parts * NamespaceBlocks * W * L
  BY DEF Scale
<1> HIDE DEF L, W
<1>8. Score(f) >= 82 * Scale(f)
  BY <1>1, <1>2, <1>6, <1>7, SweepArithmetic
<1> QED
  BY <1>8 DEF Reaches, ContainmentThreshold, f

-----------------------------------------------------------------------------
(* The decisions.                                                          *)

\* A write is in the window it is judged by.
LEMMA WriteObserved ==
    ASSUME CensusInv, NEW x \in Extents, NEW c \in Contents, Write(x, c)
    PROVE  /\ window' \in Seq(Observation)
           /\ Writes(window') # {}
<1>1. WriteObservation(x, c) \in Observation
  BY ObservationTypes DEF CensusInv
<1>2. Observe(WriteObservation(x, c))
  BY DEF Write
<1>3. /\ window' \in Seq(Observation)
      /\ Len(window') > 0 /\ window'[Len(window')] = WriteObservation(x, c)
  BY <1>1, <1>2, ObserveInv
<1>4. WriteObservation(x, c).kind = "write"
  BY DEF WriteObservation
<1>5. Len(window') \in DOMAIN window'
  BY <1>3
<1>6. Len(window') \in Writes(window')
  BY <1>3, <1>4, <1>5 DEF Writes
<1> QED
  BY <1>3, <1>6

\* The score alone never takes a device out of normal operation unless a write
\* of the window replaced blocks read before (policy.py:29), for every mix of
\* operations and every size of the window and of the namespace.
THEOREM DetectionAlertNeedsRead == Spec => AlertNeedsRead
<1> DEFINE Quiet == state = "normal" /\ state' \in {"elevated", "contained"}
                      => \/ Destructive(window')
                         \/ \E i \in Writes(window') : window'[i].read_before_write
<1>1. CensusInv /\ [Next]_vars => [Quiet]_vars
  <2> SUFFICES ASSUME CensusInv, Next, state = "normal", state' \in {"elevated", "contained"},
                      ~Destructive(window')
               PROVE  \E i \in Writes(window') : window'[i].read_before_write
    OBVIOUS
  <2>1. ASSUME NEW x \in Extents, NEW c \in Contents, Write(x, c)
        PROVE  \E i \in Writes(window') : window'[i].read_before_write
    <3>1. Contain(window') \/ Alert(window')
      BY <2>1 DEF Write
    <3>2. \/ Reaches(Sums(window'), ContainmentThreshold)
          \/ Reaches(Sums(window'), AlertThreshold)
      BY <3>1 DEF Contain, Alert
    <3>3. window' \in Seq(Observation) /\ Writes(window') # {}
      BY <2>1, WriteObserved
    <3> QED
      BY <3>2, <3>3, QuietScore
  <2>2. ASSUME RejectDestructiveCommand PROVE FALSE
    <3>1. NotAWrite("admin", {}) \in Observation
      BY DEF NotAWrite, Observation, Kinds
    <3>2. Observe(NotAWrite("admin", {}))
      BY <2>2 DEF RejectDestructiveCommand
    <3>3. /\ window' \in Seq(Observation)
          /\ Len(window') > 0 /\ window'[Len(window')] = NotAWrite("admin", {})
      BY <3>1, <3>2, ObserveInv
    <3>4. Len(window') \in DOMAIN window' /\ NotAWrite("admin", {}).kind = "admin"
      BY <3>3 DEF NotAWrite
    <3> QED
      BY <3>3, <3>4 DEF Destructive
  <2>3. ASSUME \/ \E x \in Extents : Read(x)
               \/ AuthorizeRecovery \/ EnterMaintenance \/ ExitMaintenance \/ Restart
        PROVE  FALSE
    BY <2>3 DEF Read, AuthorizeRecovery, EnterMaintenance, ExitMaintenance, Restart
  <2> QED
    BY <2>1, <2>2, <2>3 DEF Next
<1> HIDE DEF Quiet
<1>2. Spec => [][Quiet]_vars
  BY <1>1, CensusInvariant, PTL DEF Spec
<1> QED
  BY <1>2 DEF AlertNeedsRead, Quiet

\* A write that completes an in-place sweep is the last one accepted, however
\* many reads are mixed in (policy.py:95), for every size of the window and of
\* the namespace.
THEOREM DetectionSweepContained == Spec => SweepContained
<1> DEFINE Stopped == (state \in {"normal", "elevated"} /\ image' # image
                         /\ InPlaceSweep(window')) => state' = "contained"
<1>1. CensusInv /\ [Next]_vars => [Stopped]_vars
  <2> SUFFICES ASSUME CensusInv, Next, image' # image, InPlaceSweep(window')
               PROVE  state' = "contained"
    OBVIOUS
  <2>1. PICK x \in Extents, c \in Contents : Write(x, c)
    BY DEF Next, Read, RejectDestructiveCommand, AuthorizeRecovery, EnterMaintenance,
           ExitMaintenance, Restart
  <2>2. window' \in Seq(Observation)
    BY <2>1, WriteObserved
  <2>3. Len(window') >= MinimumOperations
    BY DEF InPlaceSweep
  <2>4. Contain(window')
    BY <2>2, <2>3, SweepScore DEF Contain
  <2> QED
    BY <2>1, <2>4 DEF Write
<1> HIDE DEF Stopped
<1>2. Spec => [][Stopped]_vars
  BY <1>1, CensusInvariant, PTL DEF Spec
<1> QED
  BY <1>2 DEF SweepContained, Stopped
=============================================================================
