------------------------------ MODULE WalProofs ------------------------------
(***************************************************************************)
(* Theorems about the write-ahead store, and about both stores together,   *)
(* for every size, quota, length of the log and set of requests.           *)
(***************************************************************************)
EXTENDS StoreProofs

\* A leaf that names no prover is tried with these, with time to spare.
USE SMTT(60), SMTT(90), SMTT(120), ZenonT(120)

-----------------------------------------------------------------------------
(* The replay of a log.                                                    *)

\* What recover makes of entry i of a log, after the state s.
ReplayEntry(b, l, s, i) ==
    LET r == l[i].record IN
    IF i = 1
    THEN IF r.op = "begin" /\ r.base_generation = b.generation THEN b ELSE None
    ELSE IF s = None \/ r.op = "begin" THEN None
    ELSE IF r.op = "commit"
    THEN IF i = Len(l) /\ r.generation = b.generation + 1
            /\ r.state_checksum = Candidate(s)
         THEN Candidate(s) ELSE None
    ELSE IF CanApply(s, r) THEN Apply(s, r) ELSE None

\* f holds the states after the first n entries.
IsReplay(f, b, l, n) == f = [i \in 1..n |-> ReplayEntry(b, l, f[i - 1], i)]

\* What the replay of the log l over b ends in.
ReplayOf(b, l) == (CHOOSE f : IsReplay(f, b, l, Len(l)))[Len(l)]

\* Replay is this, in this state and in the next one.
LEMMA ReplayIs == Replay = ReplayOf(base, log) /\ Replay' = ReplayOf(base', log')
BY DEF Replay, ReplayOf, IsReplay, ReplayEntry

\* The first entry starts from the base, whatever came before.
LEMMA FirstEntry ==
  ASSUME NEW b, NEW l, NEW s, NEW t
  PROVE  ReplayEntry(b, l, s, 1) = ReplayEntry(b, l, t, 1)
BY Zenon, ZenonT(120) DEF ReplayEntry

\* There is a replay of every number of entries.
LEMMA ReplayExists ==
  ASSUME NEW b, NEW l, NEW n \in Nat
  PROVE  \E f : IsReplay(f, b, l, n)
<1> DEFINE T == {m \in Nat : ~\E f : IsReplay(f, b, l, m)}
<1> SUFFICES ASSUME T # {} PROVE FALSE
  OBVIOUS
<1>1. PICK m \in T : \A k \in T : m <= k
  BY LeastNatural, Zenon, ZenonT(120)
<1>2. CASE m = 0
  <2> DEFINE g == [i \in 1..0 |-> ReplayEntry(b, l, None, i)]
  <2>1. IsReplay(g, b, l, 0)
    BY DEF IsReplay
  <2> QED
    BY <1>2, <2>1
<1>3. CASE m # 0
  <2>1. m - 1 \in Nat /\ m - 1 \notin T
    BY <1>1, <1>3
  <2>2. PICK g : IsReplay(g, b, l, m - 1)
    BY <2>1
  <2>3. \A i \in 1..m - 1 : g[i] = ReplayEntry(b, l, g[i - 1], i)
    BY <2>2 DEF IsReplay
  <2> DEFINE h == [i \in 1..m |-> ReplayEntry(b, l, g[i - 1], i)]
  <2>4. \A i \in 1..m : h[i] = ReplayEntry(b, l, g[i - 1], i)
    OBVIOUS
  <2>5. \A i \in 1..m - 1 : h[i] = g[i]
    BY <2>3, <2>4, <2>1
  <2>6. h = [i \in 1..m |-> ReplayEntry(b, l, h[i - 1], i)]
    <3>1. ASSUME NEW i \in 1..m
          PROVE  ReplayEntry(b, l, g[i - 1], i) = ReplayEntry(b, l, h[i - 1], i)
      <4>1. CASE i = 1
        BY <4>1, FirstEntry
      <4>2. CASE i # 1
        <5>1. i - 1 \in 1..m - 1
          BY <4>2, <2>1
        <5> QED
          BY <5>1, <2>5
      <4> QED
        BY <4>1, <4>2
    <3> HIDE DEF h
    <3>2. [i \in 1..m |-> ReplayEntry(b, l, g[i - 1], i)] = [i \in 1..m |-> ReplayEntry(b, l, h[i - 1], i)]
      BY <3>1, Zenon, ZenonT(120)
    <3> QED
      BY <3>2 DEF h
  <2> QED
    BY <2>6, <1>1, Zenon, ZenonT(120) DEF IsReplay
<1> QED
  BY <1>2, <1>3

\* Two logs whose first entries do the same replay to the same states so far.
LEMMA ReplaysAgree ==
  ASSUME NEW b, NEW l, NEW k, NEW n \in Nat, NEW m \in Nat, n <= m,
         NEW f, IsReplay(f, b, l, n), NEW g, IsReplay(g, b, k, m),
         \A i \in 1..n : \A s : ReplayEntry(b, l, s, i) = ReplayEntry(b, k, s, i)
  PROVE  \A i \in 1..n : f[i] = g[i]
<1>1. /\ \A i \in 1..n : f[i] = ReplayEntry(b, l, f[i - 1], i)
      /\ \A i \in 1..n : g[i] = ReplayEntry(b, k, g[i - 1], i)
  BY DEF IsReplay
<1> DEFINE T == {i \in 1..n : f[i] # g[i]}
<1> SUFFICES ASSUME T # {} PROVE FALSE
  OBVIOUS
<1>2. PICK i \in T : \A j \in T : i <= j
  <2>1. T \subseteq Nat
    OBVIOUS
  <2> QED
    BY <2>1, LeastNatural, Zenon, ZenonT(120)
<1>3. i \in 1..n /\ f[i] # g[i]
  BY <1>2
<1>4. CASE i = 1
  BY <1>1, <1>3, <1>4, FirstEntry
<1>5. CASE i # 1
  <2>1. i - 1 \in 1..n /\ i - 1 \notin T
    BY <1>2, <1>3, <1>5
  <2>2. f[i - 1] = g[i - 1]
    BY <2>1
  <2> QED
    BY <1>1, <1>3, <2>2
<1> QED
  BY <1>4, <1>5

\* The replay of a log is the last state of every sequence of states it goes through.
LEMMA ReplayEnds ==
  ASSUME NEW b, NEW l, Len(l) \in Nat
  PROVE  \E f : IsReplay(f, b, l, Len(l)) /\ ReplayOf(b, l) = f[Len(l)]
BY ReplayExists, Zenon, ZenonT(120) DEF ReplayOf

\* The replay reads the records only: the checksums of the entries are compared before.
LEMMA SameReplay ==
  ASSUME NEW b, NEW l, NEW k, Len(l) \in Nat, Len(l) > 0, Len(k) = Len(l),
         \A i \in 1..Len(l) : k[i].record = l[i].record
  PROVE  ReplayOf(b, k) = ReplayOf(b, l)
<1>1. PICK f : IsReplay(f, b, l, Len(l)) /\ ReplayOf(b, l) = f[Len(l)]
  BY ReplayEnds
<1>2. PICK g : IsReplay(g, b, k, Len(k)) /\ ReplayOf(b, k) = g[Len(k)]
  BY ReplayEnds
<1>3. \A i \in 1..Len(l) : \A s : ReplayEntry(b, l, s, i) = ReplayEntry(b, k, s, i)
  BY DEF ReplayEntry
<1>4. IsReplay(g, b, k, Len(l)) /\ Len(l) <= Len(l)
  BY <1>2
<1>5. \A i \in 1..Len(l) : f[i] = g[i]
  BY <1>1, <1>3, <1>4, ReplaysAgree
<1> QED
  BY <1>1, <1>2, <1>5

\* An entry behind a log without a commit record is applied to what the log replays to.
LEMMA ReplayNext ==
  ASSUME NEW E, NEW b, NEW l \in Seq(E), NEW e \in E, l # <<>>,
         \A i \in 1..Len(l) : l[i].record.op # "commit"
  PROVE  ReplayOf(b, Append(l, e))
             = ReplayEntry(b, Append(l, e), ReplayOf(b, l), Len(l) + 1)
<1> DEFINE n == Len(l)
           k == Append(l, e)
<1>1. n \in Nat /\ n > 0 /\ Len(k) = n + 1 /\ \A i \in 1..n : k[i] = l[i]
  OBVIOUS
<1> HIDE DEF k
<1>2. PICK f : IsReplay(f, b, l, n) /\ ReplayOf(b, l) = f[n]
  BY <1>1, ReplayEnds
<1>3. PICK g : IsReplay(g, b, k, n + 1) /\ ReplayOf(b, k) = g[n + 1]
  BY <1>1, ReplayEnds
<1>4. \A i \in 1..n : \A s : ReplayEntry(b, l, s, i) = ReplayEntry(b, k, s, i)
  BY <1>1, Zenon, ZenonT(120) DEF ReplayEntry
<1>5. n + 1 \in Nat /\ n <= n + 1 /\ n \in 1..n /\ n + 1 \in 1..n + 1 /\ (n + 1) - 1 = n
  BY <1>1
<1>6. f[n] = g[n]
  <2> HIDE DEF n
  <2>1. /\ n \in Nat /\ n + 1 \in Nat /\ n <= n + 1
        /\ IsReplay(f, b, l, n) /\ IsReplay(g, b, k, n + 1)
    BY <1>1, <1>2, <1>3, <1>5, Zenon, ZenonT(120)
  <2>2. \A i \in 1..n : f[i] = g[i]
    BY <1>4, <2>1, ReplaysAgree
  <2> QED
    BY <1>5, <2>2, Zenon, ZenonT(120)
<1>7. g[n + 1] = ReplayEntry(b, k, g[n], n + 1)
  BY <1>3, <1>5 DEF IsReplay
<1> QED
  BY <1>2, <1>3, <1>6, <1>7 DEF k

-----------------------------------------------------------------------------
(* The log.                                                                *)

WalRecord ==
    Operation \cup [op: {"begin"}, base_generation: Nat]
    \cup [op: {"commit"}, generation: Nat, state_checksum: State]

WalEntry == [record: WalRecord, ok: BOOLEAN]

DamagedLog(l) == \E i \in 1..Len(l) : ~l[i].ok

\* What recover would publish of the log l over b.
PendingOf(b, l) ==
    IF l = <<>> \/ DamagedLog(l) THEN None
    ELSE IF l[Len(l)].record.op = "commit" THEN ReplayOf(b, l) ELSE None

\* No record of the log is a commit's.
NoCommit(l) == \A i \in 1..Len(l) : l[i].record.op # "commit"

\* Damaged and WalPending are these, in this state and in the next one.
LEMMA PendingIs ==
    /\ Damaged = DamagedLog(log) /\ Damaged' = DamagedLog(log')
    /\ WalPending = PendingOf(base, log) /\ WalPending' = PendingOf(base', log')
<1>1. Damaged = DamagedLog(log) /\ Damaged' = DamagedLog(log')
  BY DEF Damaged, DamagedLog
<1>2. /\ Committed = (log[Len(log)].record.op = "commit")
      /\ Committed' = (log'[Len(log')].record.op = "commit")
  BY DEF Committed
<1> QED
  BY <1>1, <1>2, ReplayIs, Zenon, ZenonT(120) DEF WalPending, PendingOf

\* An empty log holds no damage and nothing to publish.
LEMMA EmptyLog ==
    ASSUME NEW b
    PROVE  PendingOf(b, <<>>) = None /\ ~DamagedLog(<<>>)
BY DEF PendingOf, DamagedLog

\* A log without a commit record publishes nothing.
LEMMA OpenLog ==
    ASSUME NEW b, NEW l \in Seq(WalEntry), NoCommit(l)
    PROVE  PendingOf(b, l) = None
<1>1. l # <<>> => Len(l) \in 1..Len(l)
  OBVIOUS
<1> QED
  BY <1>1, Zenon, ZenonT(120) DEF PendingOf, NoCommit

\* Nor does a damaged one.
LEMMA DamagedPending ==
    ASSUME NEW b, NEW l, DamagedLog(l)
    PROVE  PendingOf(b, l) = None
BY DEF PendingOf

\* What an entry adds to a log.
LEMMA AppendEntry ==
    ASSUME NEW l \in Seq(WalEntry), NEW e \in WalEntry
    PROVE  /\ Append(l, e) \in Seq(WalEntry) /\ Append(l, e) # <<>>
           /\ (DamagedLog(Append(l, e)) <=> DamagedLog(l) \/ ~e.ok)
           /\ NoCommit(l) /\ e.record.op # "commit" => NoCommit(Append(l, e))
           /\ Append(l, e)[Len(Append(l, e))] = e
<1> DEFINE k == Append(l, e)
<1>1. /\ k \in Seq(WalEntry) /\ k # <<>> /\ Len(l) \in Nat /\ Len(k) = Len(l) + 1
      /\ k[Len(l) + 1] = e /\ \A i \in 1..Len(l) : k[i] = l[i]
  OBVIOUS
<1> HIDE DEF k
<1>2. \A i \in 1..Len(k) : i \in 1..Len(l) \/ i = Len(l) + 1
  BY <1>1
<1>3. \A i \in 1..Len(l) : i \in 1..Len(k)
  BY <1>1
<1>4. Len(l) + 1 \in 1..Len(k)
  BY <1>1
<1>5. (DamagedLog(k) <=> DamagedLog(l) \/ ~e.ok)
  BY <1>1, <1>2, <1>3, <1>4, Zenon, ZenonT(120) DEF DamagedLog
<1>6. NoCommit(l) /\ e.record.op # "commit" => NoCommit(k)
  BY <1>1, <1>2, Zenon, ZenonT(120) DEF NoCommit
<1> QED
  BY <1>1, <1>5, <1>6 DEF k

\* The entry of an operation is neither a begin nor a commit record's.
LEMMA OperationEntry ==
    ASSUME NEW o \in Requests
    PROVE  /\ Entry(o) \in WalEntry /\ Entry(o).ok = TRUE /\ Entry(o).record = o
           /\ o.op # "begin" /\ o.op # "commit"
<1>1. o \in Operation
  BY RequestsAssumption
<1>2. o.op # "begin" /\ o.op # "commit"
  BY <1>1 DEF Operation
<1>3. o \in WalRecord
  BY <1>1 DEF WalRecord
<1> QED
  BY <1>2, <1>3 DEF Entry, WalEntry

-----------------------------------------------------------------------------
(* The inductive invariant.                                                *)

WalTypeOK ==
    /\ base \in State
    /\ log \in Seq(WalEntry)
    /\ wal_active \in [state: State, cancelled: BOOLEAN] \cup {None}
    /\ wal_snapshots \in SnapshotSet

\* While a transaction is active its log holds no commit record and replays to
\* what the transaction works on; what recover would publish is a state.
WalInv ==
    /\ WalTypeOK
    /\ Numbered(wal_snapshots)
    /\ wal_active # None =>
           /\ log # <<>> /\ NoCommit(log)
           /\ ReplayOf(base, log) = wal_active.state
           /\ wal_active.state.generation = base.generation
    /\ PendingOf(base, log) # None => PendingOf(base, log) \in State

\* A new store is one of these.
LEMMA WalInitInv == WalInit => WalInv
<1> SUFFICES ASSUME WalInit PROVE WalInv
  OBVIOUS
<1>1. base \in State /\ log = <<>> /\ wal_active = None
  BY EmptyType DEF WalInit
<1>2. wal_snapshots \in SnapshotSet /\ Numbered(wal_snapshots)
  BY NoneCaptured DEF WalInit
<1>3. log \in Seq(WalEntry) /\ PendingOf(base, log) = None
  BY <1>1, EmptyLog
<1> QED
  BY <1>1, <1>2, <1>3 DEF WalInv, WalTypeOK

\* begin logs a record that replays to the base.
LEMMA BeginLogs ==
    ASSUME WalInv, WalBegin
    PROVE  /\ log' \in Seq(WalEntry) /\ log' # <<>> /\ NoCommit(log')
           /\ ReplayOf(base, log') = base
           /\ (DamagedLog(log') <=> DamagedLog(log)) /\ log = <<>>
<1> DEFINE e == Entry(BeginRecord)
<1>1. log = <<>> /\ log' = Append(<<>>, e) /\ base.generation \in Nat
  BY StateParts DEF WalBegin, WalInv, WalTypeOK
<1>2. e \in WalEntry /\ e.ok = TRUE /\ e.record = BeginRecord
  BY <1>1 DEF Entry, BeginRecord, WalEntry, WalRecord
<1>3. BeginRecord.op = "begin" /\ BeginRecord.base_generation = base.generation
  BY DEF BeginRecord
<1> HIDE DEF e
<1>4. <<>> \in Seq(WalEntry) /\ NoCommit(<<>>) /\ Len(log') = 1 /\ log'[1] = e
  BY <1>1, <1>2 DEF NoCommit
<1>5. /\ log' \in Seq(WalEntry) /\ log' # <<>> /\ NoCommit(log')
      /\ (DamagedLog(log') <=> DamagedLog(<<>>) \/ ~e.ok)
  BY <1>1, <1>2, <1>3, <1>4, AppendEntry, Zenon, ZenonT(120)
<1>6. PICK f : IsReplay(f, base, log', 1) /\ ReplayOf(base, log') = f[1]
  <2>1. Len(log') \in Nat
    BY <1>4
  <2>2. \E f : IsReplay(f, base, log', Len(log')) /\ ReplayOf(base, log') = f[Len(log')]
    BY <2>1, ReplayEnds
  <2> QED
    BY <1>4, <2>2
<1>7. f[1] = ReplayEntry(base, log', f[1 - 1], 1)
  BY <1>6 DEF IsReplay
<1>8. ReplayEntry(base, log', f[1 - 1], 1) = base
  BY <1>2, <1>3, <1>4, Zenon, ZenonT(120) DEF ReplayEntry
<1> QED
  BY <1>1, <1>2, <1>5, <1>6, <1>7, <1>8, EmptyLog

\* An operation logs a record that replays to what it made of the state.
LEMMA OperateLogs ==
    ASSUME WalInv, NEW o \in Requests, WalOperate(o)
    PROVE  /\ log' \in Seq(WalEntry) /\ log' # <<>> /\ NoCommit(log')
           /\ wal_active \in [state: State, cancelled: BOOLEAN]
           /\ CanApply(wal_active.state, o)
           /\ wal_active' = [state |-> Apply(wal_active.state, o),
                             cancelled |-> wal_active.cancelled]
           /\ ReplayOf(base, log') = wal_active'.state
           /\ (DamagedLog(log') <=> DamagedLog(log))
<1> DEFINE e == Entry(o)
           n == Len(log)
           s == wal_active.state
<1>1. /\ wal_active \in [state: State, cancelled: BOOLEAN] /\ s \in State /\ s # None
      /\ CanApply(s, o) /\ log' = Append(log, e)
      /\ wal_active' = [wal_active EXCEPT !.state = Apply(s, o)]
      /\ log \in Seq(WalEntry) /\ log # <<>> /\ NoCommit(log)
      /\ ReplayOf(base, log) = s
  BY NoneAssumption DEF WalOperate, WalReady, WalInv, WalTypeOK
<1>2. wal_active' = [state |-> Apply(s, o), cancelled |-> wal_active.cancelled]
  BY <1>1
<1>3. e \in WalEntry /\ e.ok = TRUE /\ e.record = o /\ o.op # "begin" /\ o.op # "commit"
  BY OperationEntry, Zenon, ZenonT(120)
<1> HIDE DEF e, s
<1>4. /\ log' \in Seq(WalEntry) /\ log' # <<>> /\ NoCommit(log')
      /\ (DamagedLog(log') <=> DamagedLog(log) \/ ~e.ok)
  BY <1>1, <1>3, AppendEntry
<1>5. log'[n + 1] = e /\ n + 1 # 1
  BY <1>1, <1>3
<1>6. ReplayOf(base, log') = ReplayEntry(base, log', s, n + 1)
  BY <1>1, <1>3, ReplayNext DEF NoCommit
<1>7. ReplayEntry(base, log', s, n + 1) = Apply(s, o)
  BY <1>1, <1>3, <1>5, Zenon, ZenonT(120) DEF ReplayEntry
<1> QED
  BY <1>1, <1>2, <1>3, <1>4, <1>6, <1>7 DEF s

\* What commit leaves: a log without damage that has its record publishes the
\* candidate, any other publishes nothing.
LEMMA CommitLogs ==
    ASSUME WalInv, NEW fault \in WalFaults, WalCommit(fault)
    PROVE  /\ wal_active \in [state: State, cancelled: BOOLEAN] /\ ~wal_active.cancelled
           /\ wal_active' = None /\ wal_snapshots' = wal_snapshots
           /\ log' \in Seq(WalEntry)
           /\ PendingOf(base, log) = None
           /\ fault = "none" => log' = <<>> /\ base' = Candidate(wal_active.state)
           /\ fault # "none" => base' = base
           /\ fault = "before" => log' = log /\ PendingOf(base, log') = None
           /\ fault = "corrupt" => PendingOf(base, log') = None
           /\ fault = "after" =>
                  /\ (DamagedLog(log') <=> DamagedLog(log))
                  /\ PendingOf(base, log') =
                         IF DamagedLog(log) THEN None ELSE Candidate(wal_active.state)
<1> DEFINE n == Len(log)
           s == wal_active.state
           record == CommitRecord(Candidate(s))
           e == [record |-> record, ok |-> fault # "corrupt"]
<1>1. /\ wal_active \in [state: State, cancelled: BOOLEAN] /\ ~wal_active.cancelled
      /\ s \in State /\ s # None /\ wal_active' = None /\ wal_snapshots' = wal_snapshots
      /\ log \in Seq(WalEntry) /\ log # <<>> /\ NoCommit(log)
      /\ ReplayOf(base, log) = s /\ s.generation = base.generation
  BY NoneAssumption DEF WalCommit, WalReady, WalInv, WalTypeOK
<1>2. /\ base' = IF fault = "none" THEN Candidate(s) ELSE base
      /\ log' = CASE fault = "none"   -> <<>>
                  [] fault = "before" -> log
                  [] OTHER            -> Append(log, e)
  BY DEF WalCommit
<1>3. /\ fault = "none" => log' = <<>>
      /\ fault = "before" => log' = log
      /\ fault \in {"corrupt", "after"} => log' = Append(log, e)
  BY <1>2 DEF WalFaults
<1>4. /\ Candidate(s) \in State /\ Candidate(s).generation \in Nat
      /\ Candidate(s).generation = base.generation + 1
  BY <1>1, CandidateKeeps, StateParts, Zenon, ZenonT(120)
<1>5. /\ record.op = "commit" /\ record.generation = base.generation + 1
      /\ record.state_checksum = Candidate(s) /\ record \in WalRecord
  BY <1>4 DEF CommitRecord, WalRecord
<1>6. e \in WalEntry /\ e.record = record /\ e.ok = (fault # "corrupt")
  BY <1>5, Zenon, ZenonT(120) DEF WalEntry
<1> HIDE DEF e, s, record
<1>7. /\ Append(log, e) \in Seq(WalEntry) /\ Append(log, e) # <<>>
      /\ (DamagedLog(Append(log, e)) <=> DamagedLog(log) \/ ~e.ok)
      /\ Append(log, e)[Len(Append(log, e))] = e
  BY <1>1, <1>6, AppendEntry, Zenon, ZenonT(120)
<1>8. ReplayOf(base, Append(log, e)) = Candidate(s)
  <2>1. Len(Append(log, e)) = n + 1 /\ Append(log, e)[n + 1] = e /\ n + 1 # 1
    BY <1>1, <1>6
  <2>2. ReplayOf(base, Append(log, e)) = ReplayEntry(base, Append(log, e), s, n + 1)
    BY <1>1, <1>6, ReplayNext DEF NoCommit
  <2>3. ReplayEntry(base, Append(log, e), s, n + 1) = Candidate(s)
    BY <1>1, <1>5, <1>6, <2>1, Zenon, ZenonT(120) DEF ReplayEntry
  <2> QED
    BY <2>2, <2>3
<1>9. PendingOf(base, log) = None
  BY <1>1, OpenLog
<1>10. CASE fault \in {"none", "before"}
  BY <1>1, <1>2, <1>3, <1>9, <1>10 DEF s
<1>11. CASE fault = "corrupt"
  <2>1. log' = Append(log, e) /\ DamagedLog(log')
    BY <1>3, <1>6, <1>7, <1>11, Zenon, ZenonT(120)
  <2> QED
    BY <1>1, <1>2, <1>7, <1>9, <1>11, <2>1, DamagedPending
<1>12. CASE fault = "after"
  <2>1. log' = Append(log, e) /\ (DamagedLog(log') <=> DamagedLog(log))
    BY <1>3, <1>6, <1>7, <1>12, Zenon, ZenonT(120)
  <2>2. log' # <<>> /\ log'[Len(log')].record.op = "commit"
    BY <1>5, <1>6, <1>7, <2>1
  <2>3. PendingOf(base, log') = IF DamagedLog(log) THEN None ELSE Candidate(s)
    BY <1>8, <2>1, <2>2 DEF PendingOf
  <2> QED
    BY <1>1, <1>2, <1>7, <1>9, <1>12, <2>1, <2>3 DEF s
<1> QED
  BY <1>10, <1>11, <1>12 DEF WalFaults

\* Damage to the last entry changes no record, and nothing can be published.
LEMMA DamageLogs ==
    ASSUME WalInv, WalDamage
    PROVE  /\ log' \in Seq(WalEntry) /\ log' # <<>> /\ DamagedLog(log')
           /\ NoCommit(log) => NoCommit(log')
           /\ ReplayOf(base, log') = ReplayOf(base, log)
           /\ PendingOf(base, log') = None
<1> DEFINE n == Len(log)
           last == [log[n] EXCEPT !.ok = FALSE]
<1>1. log \in Seq(WalEntry) /\ log # <<>> /\ log' = [log EXCEPT ![n].ok = FALSE]
  BY DEF WalDamage, WalInv, WalTypeOK
<1>2. n \in Nat /\ n > 0 /\ n \in 1..n /\ log \in [1..n -> WalEntry]
  BY <1>1
<1>3. last \in WalEntry /\ last.record = log[n].record /\ last.ok = FALSE
  BY <1>2, Zenon, ZenonT(120) DEF WalEntry
<1>4. log' = [log EXCEPT ![n] = last]
  BY <1>1
<1> HIDE DEF last
<1>5. log' \in Seq(WalEntry) /\ Len(log') = n /\ log' # <<>> /\ log'[n] = last
  <2>1. log' \in [1..n -> WalEntry] /\ log'[n] = last
    BY <1>2, <1>3, <1>4
  <2>2. log' \in Seq(WalEntry) /\ Len(log') = n
    BY <1>2, <2>1
  <2> QED
    BY <1>2, <2>1, <2>2
<1>6. \A i \in 1..n : log'[i].record = log[i].record
  BY <1>2, <1>3, <1>4, Zenon, ZenonT(120)
<1>7. DamagedLog(log')
  BY <1>2, <1>3, <1>5 DEF DamagedLog
<1>8. NoCommit(log) => NoCommit(log')
  BY <1>5, <1>6 DEF NoCommit
<1>9. ReplayOf(base, log') = ReplayOf(base, log)
  BY <1>2, <1>5, <1>6, SameReplay
<1> QED
  BY <1>5, <1>7, <1>8, <1>9, DamagedPending

\* Every step keeps the invariant.
LEMMA WalNextInv == WalInv /\ [WalNext]_walVars => WalInv'
<1> SUFFICES ASSUME WalInv, [WalNext]_walVars PROVE WalInv'
  OBVIOUS
<1>1. /\ base \in State /\ log \in Seq(WalEntry)
      /\ wal_active \in [state: State, cancelled: BOOLEAN] \cup {None}
      /\ wal_snapshots \in SnapshotSet /\ Numbered(wal_snapshots)
  BY DEF WalInv, WalTypeOK
<1>2. CASE WalBegin
  <2>1. /\ base' = base /\ wal_snapshots' = wal_snapshots
        /\ wal_active' = [state |-> base, cancelled |-> FALSE]
    BY <1>2 DEF WalBegin
  <2>2. /\ log' \in Seq(WalEntry) /\ log' # <<>> /\ NoCommit(log')
        /\ ReplayOf(base, log') = base
    BY <1>2, BeginLogs
  <2>3. PendingOf(base, log') = None
    BY <2>2, OpenLog
  <2> QED
    BY <1>1, <2>1, <2>2, <2>3 DEF WalInv, WalTypeOK
<1>3. ASSUME NEW o \in Requests, WalOperate(o) PROVE WalInv'
  <2>1. base' = base /\ wal_snapshots' = wal_snapshots
    BY <1>3 DEF WalOperate
  <2>2. /\ log' \in Seq(WalEntry) /\ log' # <<>> /\ NoCommit(log')
        /\ wal_active \in [state: State, cancelled: BOOLEAN]
        /\ CanApply(wal_active.state, o)
        /\ wal_active' = [state |-> Apply(wal_active.state, o),
                          cancelled |-> wal_active.cancelled]
        /\ ReplayOf(base, log') = wal_active'.state
    BY <1>3, OperateLogs
  <2>3. wal_active.state \in State /\ wal_active.state.generation = base.generation
    BY <2>2, NoneAssumption DEF WalInv
  <2>4. /\ Apply(wal_active.state, o) \in State
        /\ Apply(wal_active.state, o).generation = base.generation
    BY <2>2, <2>3, ApplyKeeps, Zenon, ZenonT(120)
  <2>5. PendingOf(base, log') = None
    BY <2>2, OpenLog
  <2>6. /\ wal_active' \in [state: State, cancelled: BOOLEAN]
        /\ wal_active'.state.generation = base.generation
    BY <2>2, <2>4
  <2> QED
    BY <1>1, <2>1, <2>2, <2>5, <2>6 DEF WalInv, WalTypeOK
<1>4. ASSUME NEW fault \in WalFaults, WalCommit(fault) PROVE WalInv'
  <2>1. /\ wal_active \in [state: State, cancelled: BOOLEAN]
        /\ wal_active' = None /\ wal_snapshots' = wal_snapshots
        /\ log' \in Seq(WalEntry)
        /\ fault = "none" => log' = <<>> /\ base' = Candidate(wal_active.state)
        /\ fault # "none" => base' = base
        /\ fault \in {"before", "corrupt"} => PendingOf(base, log') = None
        /\ fault = "after" => PendingOf(base, log') \in {None, Candidate(wal_active.state)}
    BY <1>4, CommitLogs
  <2>2. Candidate(wal_active.state) \in State
    BY <2>1, CandidateKeeps
  <2>3. base' \in State
    BY <1>1, <2>1, <2>2
  <2>4. PendingOf(base', log') \in {None, Candidate(wal_active.state)}
    <3>1. CASE fault = "none"
      BY <2>1, <3>1, EmptyLog
    <3>2. CASE fault # "none"
      BY <2>1, <3>2 DEF WalFaults
    <3> QED
      BY <3>1, <3>2
  <2> QED
    BY <1>1, <2>1, <2>2, <2>3, <2>4 DEF WalInv, WalTypeOK
<1>5. CASE WalAbort \/ WalRecover
  <2>1. log' = <<>> /\ wal_active' = None /\ wal_snapshots' = wal_snapshots
    BY <1>5 DEF WalAbort, WalRecover
  <2>2. base' \in State
    <3>1. WalPending # None => WalPending \in State
      BY PendingIs, Zenon, ZenonT(120) DEF WalInv
    <3> QED
      BY <1>1, <1>5, <3>1 DEF WalAbort, WalRecover
  <2>3. log' \in Seq(WalEntry) /\ PendingOf(base', log') = None
    BY <2>1, EmptyLog
  <2> QED
    BY <1>1, <2>1, <2>2, <2>3 DEF WalInv, WalTypeOK
<1>6. CASE WalCancel
  <2>1. /\ base' = base /\ log' = log /\ wal_snapshots' = wal_snapshots
        /\ wal_active # None /\ wal_active' = [wal_active EXCEPT !.cancelled = TRUE]
    BY <1>6 DEF WalCancel
  <2>2. /\ wal_active' \in [state: State, cancelled: BOOLEAN]
        /\ wal_active'.state = wal_active.state
    BY <1>1, <2>1, Zenon, ZenonT(120)
  <2> QED
    BY <1>1, <2>1, <2>2 DEF WalInv, WalTypeOK
<1>7. CASE WalSnapshot
  <2>1. /\ UNCHANGED <<base, log, wal_active>> /\ CanCapture(wal_snapshots)
        /\ wal_snapshots' = Capture(wal_snapshots, base)
    BY <1>7 DEF WalSnapshot
  <2>2. wal_snapshots' \in SnapshotSet /\ Numbered(wal_snapshots')
    BY <1>1, <2>1, CaptureAdds
  <2> QED
    BY <2>1, <2>2 DEF WalInv, WalTypeOK
<1>8. ASSUME NEW retain_from \in 0..MaxGeneration, WalGc(retain_from) PROVE WalInv'
  <2>1. /\ UNCHANGED <<base, log, wal_active>>
        /\ wal_snapshots' = Reclaim(wal_snapshots, retain_from)
    BY <1>8 DEF WalGc
  <2>2. wal_snapshots' \in SnapshotSet /\ Numbered(wal_snapshots')
    BY <1>1, <2>1, ReclaimDrops
  <2> QED
    BY <2>1, <2>2 DEF WalInv, WalTypeOK
<1>9. CASE WalDamage
  <2>1. UNCHANGED <<base, wal_active, wal_snapshots>>
    BY <1>9 DEF WalDamage
  <2>2. /\ log' \in Seq(WalEntry) /\ log' # <<>>
        /\ NoCommit(log) => NoCommit(log')
        /\ ReplayOf(base, log') = ReplayOf(base, log)
        /\ PendingOf(base, log') = None
    BY <1>9, DamageLogs
  <2> QED
    BY <1>1, <2>1, <2>2 DEF WalInv, WalTypeOK
<1>10. CASE UNCHANGED walVars
  BY <1>10 DEF walVars, WalInv, WalTypeOK
<1> QED
  BY <1>2, <1>3, <1>4, <1>5, <1>6, <1>7, <1>8, <1>9, <1>10 DEF WalNext

\* The invariant holds throughout.
THEOREM WalInvariant == WalSpec => []WalInv
BY WalInitInv, WalNextInv, PTL, PTL DEF WalSpec

\* Replaying the log of an active transaction over the base gives exactly its
\* working state, however many operations it made and whatever was damaged:
\* no operation succeeds without its record.
THEOREM WalLogReplays == WalSpec => []LogReplays
<1>1. WalInv => LogReplays
  BY ReplayIs DEF WalInv, LogReplays
<1> QED
  BY <1>1, WalInvariant, PTL, PTL

-----------------------------------------------------------------------------
(* The write-ahead-log store implements the transactional store.           *)

\* A new store is a new transactional store.
LEMMA WalInitMaps == WalInit => WalTs!TsInit
<1> SUFFICES ASSUME WalInit PROVE WalTs!TsInit
  OBVIOUS
<1>1. base = Empty /\ log = <<>> /\ wal_active = None /\ Captured(wal_snapshots) = {}
  BY NoneCaptured DEF WalInit
<1>2. WalPending = None /\ ~Damaged
  BY <1>1, PendingIs, EmptyLog
<1> QED
  BY <1>1, <1>2 DEF WalTs!TsInit

\* Every step of the store is a step of the transactional store, or none.
LEMMA WalNextMaps ==
    ASSUME WalInv, [WalNext]_walVars
    PROVE  [WalTs!TsNext]_(WalTs!tsVars)
<1> DEFINE captured == Captured(wal_snapshots)
<1>1. /\ base \in State /\ log \in Seq(WalEntry)
      /\ wal_active \in [state: State, cancelled: BOOLEAN] \cup {None}
      /\ wal_snapshots \in SnapshotSet /\ Numbered(wal_snapshots)
      /\ wal_active # None => wal_active.state # None
  BY NoneAssumption DEF WalInv, WalTypeOK
<1>2. wal_active # None => WalPending = None /\ PendingOf(base, log) = None
  BY <1>1, PendingIs, OpenLog DEF WalInv
<1>3. wal_snapshots' = wal_snapshots => captured' = captured
  BY DEF Captured
<1>4. ASSUME UNCHANGED <<base, log>>
      PROVE  WalPending' = WalPending /\ (Damaged' <=> Damaged)
  BY <1>4, PendingIs
<1> HIDE DEF captured
<1>5. CASE WalBegin
  <2>1. /\ base' = base /\ wal_snapshots' = wal_snapshots /\ wal_active = None
        /\ wal_active' = [state |-> base, cancelled |-> FALSE]
    BY <1>5 DEF WalBegin
  <2>2. /\ log' \in Seq(WalEntry) /\ NoCommit(log')
        /\ (DamagedLog(log') <=> DamagedLog(log)) /\ log = <<>>
    BY <1>5, BeginLogs
  <2>3. PendingOf(base, log') = None /\ PendingOf(base, log) = None
    BY <2>2, OpenLog, EmptyLog
  <2>4. WalPending = None /\ WalPending' = WalPending /\ (Damaged' <=> Damaged)
    BY <2>1, <2>2, <2>3, PendingIs
  <2>5. wal_active' # None
    <3>1. wal_active' \in [state: State, cancelled: BOOLEAN]
      BY <1>1, <2>1
    <3> QED
      BY <3>1, NoneAssumption
  <2>6. WalTs!TsBegin
    BY <1>3, <2>1, <2>4, <2>5 DEF WalTs!TsBegin, captured
  <2> QED
    BY <2>6 DEF WalTs!TsNext
<1>6. ASSUME NEW o \in Requests, WalOperate(o) PROVE WalTs!TsNext
  <2>1. base' = base /\ wal_snapshots' = wal_snapshots /\ ~wal_active.cancelled
    BY <1>6 DEF WalOperate, WalReady
  <2>2. /\ log' \in Seq(WalEntry) /\ NoCommit(log')
        /\ wal_active \in [state: State, cancelled: BOOLEAN]
        /\ CanApply(wal_active.state, o)
        /\ wal_active' = [state |-> Apply(wal_active.state, o),
                          cancelled |-> wal_active.cancelled]
        /\ (DamagedLog(log') <=> DamagedLog(log))
    BY <1>6, OperateLogs
  <2>3. wal_active # None /\ wal_active.state # None /\ Apply(wal_active.state, o) \in State
    BY <1>1, <2>2, ApplyKeeps, NoneAssumption, Zenon, ZenonT(120)
  <2>4. wal_active' # None
    BY <2>2, <2>3, NoneAssumption
  <2>5. PendingOf(base, log') = None
    BY <2>2, OpenLog
  <2>6. WalPending' = WalPending /\ (Damaged' <=> Damaged)
    BY <1>2, <2>1, <2>2, <2>3, <2>5, PendingIs
  <2>7. WalTs!TsOperate
    BY <1>3, <2>1, <2>2, <2>3, <2>4, <2>6, Zenon, ZenonT(120)
    DEF WalTs!TsOperate, WalTs!Ready, captured
  <2> QED
    BY <2>7 DEF WalTs!TsNext
<1>7. ASSUME NEW fault \in WalFaults, WalCommit(fault) PROVE WalTs!TsNext
  <2>1. /\ wal_active \in [state: State, cancelled: BOOLEAN] /\ ~wal_active.cancelled
        /\ wal_active' = None /\ wal_snapshots' = wal_snapshots
        /\ fault = "none" => log' = <<>> /\ base' = Candidate(wal_active.state)
        /\ fault # "none" => base' = base
        /\ fault = "before" => log' = log /\ PendingOf(base, log') = None
        /\ fault = "corrupt" => PendingOf(base, log') = None
        /\ fault = "after" =>
               /\ (DamagedLog(log') <=> DamagedLog(log))
               /\ PendingOf(base, log') =
                      IF DamagedLog(log) THEN None ELSE Candidate(wal_active.state)
    BY <1>7, CommitLogs
  <2>2. wal_active # None /\ wal_active.state # None
    BY <1>1, <2>1, NoneAssumption
  <2>3. captured' = captured
    BY <1>3, <2>1
  <2>4. CASE fault = "none"
    <3>1. WalPending' = None /\ ~Damaged'
      BY <2>1, <2>4, PendingIs, EmptyLog
    <3>2. WalTs!TsCommit
      BY <2>1, <2>2, <2>3, <2>4, <3>1 DEF WalTs!TsCommit, WalTs!Ready, WalTs!End, captured
    <3> QED
      BY <3>2 DEF WalTs!TsNext
  <2>5. CASE fault = "before"
    <3>1. WalPending' = None /\ (Damaged' <=> Damaged)
      BY <2>1, <2>5, PendingIs
    <3>2. WalTs!TsInterruptBefore
      BY <2>1, <2>2, <2>3, <2>5, <3>1
         DEF WalTs!TsInterruptBefore, WalTs!Ready, WalTs!End, captured
    <3> QED
      BY <3>2 DEF WalTs!TsNext
  <2>6. CASE fault = "corrupt"
    <3>1. WalPending' = None
      BY <2>1, <2>6, PendingIs
    <3>2. WalTs!TsInterruptCorrupt
      BY <2>1, <2>2, <2>3, <2>6, <3>1
         DEF WalTs!TsInterruptCorrupt, WalTs!Ready, WalTs!End, captured
    <3> QED
      BY <3>2 DEF WalTs!TsNext
  <2>7. CASE fault = "after"
    <3>1. /\ WalPending' = IF ~Damaged THEN Candidate(wal_active.state) ELSE None
          /\ Damaged' <=> Damaged
      BY <2>1, <2>7, PendingIs
    <3>2. WalTs!TsInterruptAfter
      BY <2>1, <2>2, <2>3, <2>7, <3>1
         DEF WalTs!TsInterruptAfter, WalTs!Ready, WalTs!End, captured
    <3> QED
      BY <3>2 DEF WalTs!TsNext
  <2> QED
    BY <2>4, <2>5, <2>6, <2>7 DEF WalFaults
<1>8. CASE WalAbort
  <2>1. /\ wal_active # None /\ wal_active' = None /\ log' = <<>>
        /\ base' = base /\ wal_snapshots' = wal_snapshots
    BY <1>8 DEF WalAbort
  <2>2. WalPending' = WalPending /\ ~Damaged'
    BY <1>2, <2>1, PendingIs, EmptyLog
  <2>3. WalTs!TsAbort
    BY <1>1, <1>3, <2>1, <2>2 DEF WalTs!TsAbort, WalTs!End, captured
  <2> QED
    BY <2>3 DEF WalTs!TsNext
<1>9. CASE WalCancel
  <2>1. /\ UNCHANGED <<base, log, wal_snapshots>>
        /\ wal_active # None /\ wal_active' = [wal_active EXCEPT !.cancelled = TRUE]
    BY <1>9 DEF WalCancel
  <2>2. /\ wal_active' \in [state: State, cancelled: BOOLEAN]
        /\ wal_active'.state = wal_active.state /\ wal_active'.cancelled = TRUE
    BY <1>1, <2>1, Zenon, ZenonT(120)
  <2>3. wal_active' # None
    BY <2>2, NoneAssumption
  <2>4. WalTs!TsCancel
    BY <1>1, <1>3, <1>4, <2>1, <2>2, <2>3 DEF WalTs!TsCancel, captured
  <2> QED
    BY <2>4 DEF WalTs!TsNext
<1>10. CASE WalSnapshot
  <2>1. /\ UNCHANGED <<base, log, wal_active>> /\ CanCapture(wal_snapshots)
        /\ wal_snapshots' = Capture(wal_snapshots, base)
    BY <1>10 DEF WalSnapshot
  <2> DEFINE nonce == wal_snapshots.next_nonce
             new == [nonce |-> nonce, state |-> base]
  <2>2. /\ Captured(Capture(wal_snapshots, base)) = Captured(wal_snapshots) \cup {new}
        /\ nonce \in 1..MaxNonce /\ \A s \in Captured(wal_snapshots) : s.nonce < nonce
    BY <1>1, <2>1, CaptureAdds
  <2>3. Captured(wal_snapshots)' = Captured(wal_snapshots) \cup {new}
    BY <2>1, <2>2, Zenon, ZenonT(120) DEF Captured
  <2>4. WalPending' = WalPending /\ (Damaged' <=> Damaged)
    BY <1>4, <2>1
  <2> HIDE DEF nonce
  <2>5. WalTs!TsSnapshot
    BY <2>1, <2>2, <2>3, <2>4, Zenon, ZenonT(120) DEF WalTs!TsSnapshot
  <2> QED
    BY <2>5 DEF WalTs!TsNext
<1>11. ASSUME NEW retain_from \in 0..MaxGeneration, WalGc(retain_from) PROVE WalTs!TsNext
  <2>1. /\ UNCHANGED <<base, log, wal_active>>
        /\ wal_snapshots' = Reclaim(wal_snapshots, retain_from)
    BY <1>11 DEF WalGc
  <2>2. Captured(Reclaim(wal_snapshots, retain_from)) =
            {s \in Captured(wal_snapshots) : s.state.generation >= retain_from}
    BY <1>1, ReclaimDrops, Zenon, ZenonT(120)
  <2>3. Captured(wal_snapshots)' =
            {s \in Captured(wal_snapshots) : s.state.generation >= retain_from}
    BY <2>1, <2>2 DEF Captured
  <2>4. WalPending' = WalPending /\ (Damaged' <=> Damaged)
    BY <1>4, <2>1
  <2>5. WalTs!TsGc(retain_from)
    BY <2>1, <2>3, <2>4 DEF WalTs!TsGc
  <2> QED
    BY <2>5 DEF WalTs!TsNext
<1>12. CASE WalDamage
  <2>1. UNCHANGED <<base, wal_active, wal_snapshots>>
    BY <1>12 DEF WalDamage
  <2>2. WalPending' = None
    BY <1>12, <2>1, DamageLogs, PendingIs
  <2>3. WalTs!TsDamage
    BY <1>3, <2>1, <2>2 DEF WalTs!TsDamage, captured
  <2> QED
    BY <2>3 DEF WalTs!TsNext
<1>13. CASE WalRecover
  <2>1. /\ wal_active' = None /\ log' = <<>> /\ wal_snapshots' = wal_snapshots
        /\ base' = IF WalPending # None THEN WalPending ELSE base
    BY <1>13 DEF WalRecover
  <2>2. WalPending' = None /\ ~Damaged'
    BY <2>1, PendingIs, EmptyLog
  <2>3. WalTs!TsRecover
    BY <1>3, <2>1, <2>2 DEF WalTs!TsRecover, WalTs!End, captured
  <2> QED
    BY <2>3 DEF WalTs!TsNext
<1>14. CASE UNCHANGED walVars
  BY <1>3, <1>4, <1>14 DEF walVars, WalTs!tsVars, captured
<1> QED
  BY <1>5, <1>6, <1>7, <1>8, <1>9, <1>10, <1>11, <1>12, <1>13, <1>14 DEF WalNext

\* The write-ahead-log store implements the transactional store that asks for
\* recovery: what recovery publishes is a commit whose record was logged whole,
\* nothing but damage takes such a commit away before (lib.rs:1529), and nothing
\* else changes what readers see.
THEOREM WalRefines == WalSpec => WalImplements
<1>1. WalInit => WalTs!TsInit
  BY WalInitMaps
<1>2. WalInv /\ [WalNext]_walVars => [WalTs!TsNext]_(WalTs!tsVars)
  BY WalNextMaps
<1> QED
  BY <1>1, <1>2, WalInvariant, PTL, PTL DEF WalSpec, WalImplements, WalTs!TsSpec

-----------------------------------------------------------------------------
(* What every state kept satisfies, in the write-ahead-log store and in    *)
(* both stores together.                                                   *)

WalSound ==
    /\ Sound(base)
    /\ wal_active # None => Sound(wal_active.state) /\ Extends(base, wal_active.state)
    /\ PendingOf(base, log) # None =>
           Sound(PendingOf(base, log)) /\ Extends(base, PendingOf(base, log))
    /\ \A c \in Captured(wal_snapshots) : Sound(c.state)

\* Every step keeps them, and the step publishes a state that revives no handle.
LEMMA WalNextSound ==
    ASSUME WalInv, WalSound, [WalNext]_walVars
    PROVE  WalSound' /\ Extends(base, base')
<1>1. /\ base \in State /\ log \in Seq(WalEntry)
      /\ wal_active \in [state: State, cancelled: BOOLEAN] \cup {None}
      /\ wal_snapshots \in SnapshotSet /\ Numbered(wal_snapshots)
      /\ wal_active # None => wal_active.state \in State
  BY DEF WalInv, WalTypeOK
<1>2. Extends(base, base)
  BY <1>1, ExtendsReflexive
<1>3. wal_snapshots' = wal_snapshots => \A c \in Captured(wal_snapshots') : Sound(c.state)
  BY DEF WalSound
<1>4. CASE WalBegin
  <2>1. /\ base' = base /\ wal_snapshots' = wal_snapshots
        /\ wal_active' = [state |-> base, cancelled |-> FALSE]
    BY <1>4 DEF WalBegin
  <2>2. PendingOf(base', log') = None
    BY <1>4, <2>1, BeginLogs, OpenLog
  <2> QED
    BY <1>2, <1>3, <2>1, <2>2 DEF WalSound
<1>5. ASSUME NEW o \in Requests, WalOperate(o) PROVE WalSound' /\ Extends(base, base')
  <2>1. base' = base /\ wal_snapshots' = wal_snapshots /\ wal_active # None
    BY <1>5 DEF WalOperate, WalReady
  <2>2. /\ CanApply(wal_active.state, o) /\ log' \in Seq(WalEntry) /\ NoCommit(log')
        /\ wal_active' = [state |-> Apply(wal_active.state, o),
                          cancelled |-> wal_active.cancelled]
    BY <1>5, OperateLogs
  <2>3. PendingOf(base', log') = None
    BY <2>1, <2>2, OpenLog
  <2>4. Sound(Apply(wal_active.state, o)) /\ Extends(base, Apply(wal_active.state, o))
    BY <1>1, <2>1, <2>2, ApplyKeeps, ExtendsTransitive, Zenon, ZenonT(120) DEF WalSound
  <2>5. wal_active'.state = Apply(wal_active.state, o)
    BY <2>2
  <2> QED
    BY <1>2, <1>3, <2>1, <2>3, <2>4, <2>5 DEF WalSound
<1>6. ASSUME NEW fault \in WalFaults, WalCommit(fault) PROVE WalSound' /\ Extends(base, base')
  <2>1. /\ wal_active \in [state: State, cancelled: BOOLEAN]
        /\ wal_active' = None /\ wal_snapshots' = wal_snapshots
        /\ fault = "none" => log' = <<>> /\ base' = Candidate(wal_active.state)
        /\ fault # "none" => base' = base
        /\ fault \in {"before", "corrupt"} => PendingOf(base, log') = None
        /\ fault = "after" => PendingOf(base, log') \in {None, Candidate(wal_active.state)}
    BY <1>6, CommitLogs
  <2>2. wal_active # None /\ wal_active.state \in State
    BY <2>1, NoneAssumption
  <2>3. /\ Candidate(wal_active.state) \in State
        /\ Sound(Candidate(wal_active.state))
        /\ Extends(base, Candidate(wal_active.state))
    BY <1>1, <2>2, CandidateKeeps, ExtendsTransitive, Zenon, ZenonT(120) DEF WalSound
  <2>4. CASE fault = "none"
    BY <1>3, <2>1, <2>3, <2>4, EmptyLog, Zenon, ZenonT(120) DEF WalSound
  <2>5. CASE fault # "none"
    <3>1. base' = base /\ PendingOf(base', log') \in {None, Candidate(wal_active.state)}
      BY <2>1, <2>5 DEF WalFaults
    <3> QED
      BY <1>2, <1>3, <2>1, <2>3, <3>1, Zenon, ZenonT(120) DEF WalSound
  <2> QED
    BY <2>4, <2>5
<1>7. CASE WalAbort \/ WalRecover
  <2>1. /\ log' = <<>> /\ wal_active' = None /\ wal_snapshots' = wal_snapshots
        /\ base' \in {base} \cup ({PendingOf(base, log)} \ {None})
    BY <1>7, PendingIs DEF WalAbort, WalRecover
  <2>2. Sound(base') /\ Extends(base, base')
    BY <1>2, <2>1 DEF WalSound
  <2>3. PendingOf(base', log') = None
    BY <2>1, EmptyLog
  <2> QED
    BY <1>3, <2>1, <2>2, <2>3 DEF WalSound
<1>8. CASE WalCancel
  <2>1. /\ UNCHANGED <<base, log, wal_snapshots>>
        /\ wal_active # None /\ wal_active'.state = wal_active.state
    BY <1>1, <1>8 DEF WalCancel
  <2> QED
    BY <1>2, <1>3, <2>1 DEF WalSound
<1>9. CASE WalSnapshot
  <2>1. /\ UNCHANGED <<base, log, wal_active>> /\ CanCapture(wal_snapshots)
        /\ wal_snapshots' = Capture(wal_snapshots, base)
    BY <1>9 DEF WalSnapshot
  <2>2. \A c \in Captured(wal_snapshots') : c \in Captured(wal_snapshots) \/ c.state = base
    BY <1>1, <2>1, CaptureAdds
  <2> QED
    BY <1>2, <2>1, <2>2 DEF WalSound
<1>10. ASSUME NEW retain_from \in 0..MaxGeneration, WalGc(retain_from)
       PROVE  WalSound' /\ Extends(base, base')
  <2>1. /\ UNCHANGED <<base, log, wal_active>>
        /\ wal_snapshots' = Reclaim(wal_snapshots, retain_from)
    BY <1>10 DEF WalGc
  <2>2. Captured(wal_snapshots') \subseteq Captured(wal_snapshots)
    BY <1>1, <2>1, ReclaimDrops
  <2> QED
    BY <1>2, <2>1, <2>2 DEF WalSound
<1>11. CASE WalDamage
  <2>1. UNCHANGED <<base, wal_active, wal_snapshots>>
    BY <1>11 DEF WalDamage
  <2>2. PendingOf(base', log') = None
    BY <1>11, <2>1, DamageLogs
  <2> QED
    BY <1>2, <1>3, <2>1, <2>2 DEF WalSound
<1>12. CASE UNCHANGED walVars
  BY <1>2, <1>3, <1>12 DEF walVars, WalSound
<1> QED
  BY <1>4, <1>5, <1>6, <1>7, <1>8, <1>9, <1>10, <1>11, <1>12 DEF WalNext

\* In the published state, transaction, pending commit and snapshots of the
\* write-ahead-log store, likewise: what is recovered from the log is no less
\* sound than what was published without a crash.
THEOREM WalStatesSound == WalSpec => []WalSound
<1>1. WalInit => WalSound
  <2> SUFFICES ASSUME WalInit PROVE WalSound
    OBVIOUS
  <2>1. /\ base = Empty /\ wal_active = None /\ PendingOf(base, log) = None
        /\ Captured(wal_snapshots) = {}
    BY NoneCaptured, EmptyLog DEF WalInit
  <2> QED
    BY <2>1, EmptySound DEF WalSound
<1>2. WalInv /\ WalSound /\ [WalNext]_walVars => WalSound'
  BY WalNextSound
<1> QED
  BY <1>1, <1>2, WalInvariant, PTL, PTL DEF WalSpec

\* What the copy-on-write store publishes revives no handle.
LEMMA CowPublishes ==
    ASSUME CowInv, CowSound, [CowNext]_cowVars
    PROVE  Extends(CowCommitted, CowCommitted')
<1> DEFINE working == IF cow_active = None THEN None ELSE cow_active.state
<1>1. \/ CowCommitted' = CowCommitted
      \/ working # None /\ CowCommitted' = Candidate(working)
      \/ CowPending # None /\ CowCommitted' = CowPending
  <2>1. [CowTs!TsNext]_(CowTs!tsVars)
    BY CowNextMaps
  <2>2. CASE CowTs!TsNext
    BY <2>2, Zenon, ZenonT(120) DEF CowTs!TsNext, CowTs!TsBegin, CowTs!TsOperate, CowTs!TsCommit,
                CowTs!TsInterruptBefore, CowTs!TsInterruptAfter, CowTs!TsInterruptCorrupt,
                CowTs!TsAbort, CowTs!TsCancel, CowTs!TsDamage, CowTs!TsRecover,
                CowTs!TsSnapshot, CowTs!TsGc, CowTs!Ready
  <2>3. CASE UNCHANGED CowTs!tsVars
    BY <2>3 DEF CowTs!tsVars
  <2> QED
    BY <2>1, <2>2, <2>3
<1>2. CowCommitted \in State /\ Extends(CowCommitted, CowCommitted)
  BY ExtendsReflexive, Zenon, ZenonT(120) DEF CowInv, CowTypeOK, CowCommitted
<1>3. ASSUME working # None PROVE Extends(CowCommitted, Candidate(working))
  <2>1. /\ cow_active # None /\ working = cow_active.state /\ cow_active.state \in State
        /\ Extends(CowCommitted, cow_active.state)
    BY <1>3, Zenon, ZenonT(120) DEF CowInv, CowTypeOK, CowSound
  <2> QED
    BY <1>2, <2>1, CandidateKeeps, ExtendsTransitive
<1>4. ASSUME CowPending # None PROVE Extends(CowCommitted, CowPending)
  BY <1>4 DEF CowPending, CowSound
<1> HIDE DEF working
<1> QED
  BY <1>1, <1>2, <1>3, <1>4

\* A behaviour of the two stores is a behaviour of each.
LEMMA EachStore == Spec => CowSpec /\ WalSpec
<1>1. Init => CowInit /\ WalInit
  BY DEF Init
<1>2. [Next]_vars => [CowNext]_cowVars /\ [WalNext]_walVars
  BY DEF Next, vars, cowVars, walVars
<1> QED
  BY <1>1, <1>2, PTL, PTL DEF Spec, CowSpec, WalSpec

\* In every state either store keeps - published, worked on or captured - the
\* names lead to live objects, no byte beyond an object's length is left over
\* and what is used leaves the recovery reserve free, for every quota, object
\* size and number of objects and snapshots.
THEOREM StoresSound == Spec => []StatesSound
<1>1. CowInv /\ CowSound /\ WalSound => StatesSound
  <2> SUFFICES ASSUME CowInv, CowSound, WalSound, NEW s \in Kept PROVE Sound(s)
    BY DEF StatesSound, Sound
  <2>1. Sound(CowCommitted) /\ Sound(base)
    BY Zenon, ZenonT(120) DEF CowInv, CowTypeOK, CowCommitted, CowSound, WalSound
  <2>2. \A a \in {cow_active, wal_active} \ {None} : Sound(a.state)
    <3>1. cow_active # None => Sound(cow_active.state)
      BY Zenon, ZenonT(120) DEF CowSound
    <3>2. wal_active # None => Sound(wal_active.state)
      BY Zenon, ZenonT(120) DEF WalSound
    <3> QED
      BY <3>1, <3>2
  <2>3. \A c \in Captured(cow_snapshots) \cup Captured(wal_snapshots) : Sound(c.state)
    BY DEF CowSound, WalSound
  <2> QED
    BY <2>1, <2>2, <2>3, Zenon, ZenonT(120) DEF Kept
<1> QED
  BY <1>1, EachStore, CowInvariant, CowStatesSound, WalStatesSound, PTL, PTL

\* Once published as deleted, a handle never leads to an object again, in
\* either store: neither a commit nor a recovery, of a bank or of a log,
\* publishes a state in which it is live.
THEOREM HandlesStayGone == Spec => HandleNeverReturns
<1>1. CowInv /\ CowSound /\ WalInv /\ WalSound /\ [CowNext]_cowVars /\ [WalNext]_walVars =>
          StaysGone(CowCommitted, CowCommitted') /\ StaysGone(base, base')
  BY CowPublishes, WalNextSound DEF Extends
<1>2. CowInv /\ CowSound /\ WalInv /\ WalSound /\ [CowNext]_cowVars /\ [WalNext]_walVars =>
          [StaysGone(CowCommitted, CowCommitted') /\ StaysGone(base, base')]_<<cowVars, walVars>>
  BY <1>1
<1> QED
  BY <1>2, EachStore, CowInvariant, CowStatesSound, WalInvariant, WalStatesSound, PTL, PTL
     DEF CowSpec, WalSpec, HandleNeverReturns
=============================================================================
