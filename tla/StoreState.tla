------------------------------ MODULE StoreState ------------------------------
(***************************************************************************)
(* The objects and names of storage-transaction-core: what each operation  *)
(* of StoreState does, as operators on a state that the two stores commit, *)
(* replay and snapshot as a whole.                                         *)
(*                                                                         *)
(* An object's id and generation are taken from two counters that always   *)
(* advance together, so a handle is one number.  Which array slot holds an *)
(* object or a name is not represented: a full array is.  An operation the *)
(* code answers with an error changes nothing, so it is one that CanApply  *)
(* refuses.                                                                *)
(***************************************************************************)
EXTENDS Integers, Sequences, FiniteSets, FiniteSetsExt

CONSTANTS
    MaxObjects, MaxNames, MaxObjectBytes, MaxIoBytes, MaxSnapshots,
    QuotaBytes, RecoveryReserveBytes,
    MaxHandle, MaxGeneration, MaxNonce, \* u64::MAX, where checked_add fails
    Names, Bytes,   \* Bytes holds 0, which fills what is not written
    Requests,       \* the operations callers ask for
    None

ASSUME ConfigAssumption ==
    /\ {MaxObjects, MaxNames, MaxObjectBytes, MaxIoBytes, MaxSnapshots,
        MaxHandle, MaxGeneration, MaxNonce} \subseteq Nat
    /\ 0 \in Bytes
    /\ QuotaBytes \in 1..MaxObjects * MaxObjectBytes
    /\ RecoveryReserveBytes \in 0..QuotaBytes - 1

Handle == 1..MaxHandle

Object == [len: 0..MaxObjectBytes, data: [1..MaxObjectBytes -> Bytes]]

\* What a caller asks of a transaction, and what the log records of it.
Operation ==
         [op: {"create", "delete"}, handle: Handle]
    \cup [op: {"write"}, handle: Handle, offset: 0..MaxObjectBytes,
          input: UNION {[1..n -> Bytes] : n \in 0..MaxIoBytes}]
    \cup [op: {"truncate"}, handle: Handle, len: 0..MaxObjectBytes]
    \cup [op: {"bind"}, handle: Handle, name: Names]

ASSUME RequestsAssumption == Requests \subseteq Operation

State ==
    [generation: Nat, next_object: Nat,
     objects: UNION {[H -> Object] : H \in SUBSET Handle},
     namespaces: UNION {[N -> Handle] : N \in SUBSET Names}]

\* None is the Option's, and no value of the program.
ASSUME NoneAssumption ==
    /\ None \notin State
    /\ None \notin [state: State, cancelled: BOOLEAN]
    /\ None \notin [nonce: Nat, state: State]
    /\ None \notin [generation: Nat, bank: {0, 1}, state_checksum: State, intact: BOOLEAN]

Empty ==
    [generation |-> 0, next_object |-> 1,
     objects |-> [h \in {} |-> None], namespaces |-> [n \in {} |-> 0]]

Live(s) == DOMAIN s.objects

used_bytes(s) == MapThenSumSet(LAMBDA h : s.objects[h].len, Live(s))

ensure_quota(s, h, len) ==
    used_bytes(s) - s.objects[h].len + len + RecoveryReserveBytes <= QuotaBytes

MaxOf(a, b) == IF a > b THEN a ELSE b

WithObject(s, h, object) == [s EXCEPT !.objects[h] = object]

-----------------------------------------------------------------------------
(* The operations.                                                         *)

\* create chooses the next handle; replay_create refuses any other.
CanCreate(s, h) ==
    /\ Cardinality(Live(s)) < MaxObjects
    /\ h = s.next_object
    /\ s.next_object < MaxHandle

\* Mutant: a freed handle were handed out again.
CreateReusing(s, h) ==
    LET fresh == CHOOSE k \in Handle \ Live(s) : \A j \in Handle \ Live(s) : k <= j IN
    [s EXCEPT !.next_object = h + 1,
              !.objects = [k \in Live(s) \cup {fresh} |->
                  IF k = fresh THEN [len |-> 0, data |-> [i \in 1..MaxObjectBytes |-> 0]]
                               ELSE @[k]]]

Create(s, h) ==
    [s EXCEPT !.next_object = h + 1,
              !.objects = [k \in Live(s) \cup {h} |->
                  IF k = h THEN [len |-> 0, data |-> [i \in 1..MaxObjectBytes |-> 0]]
                           ELSE @[k]]]

CanWrite(s, h, offset, input) ==
    /\ Len(input) <= MaxIoBytes
    /\ offset + Len(input) <= MaxObjectBytes
    /\ h \in Live(s)
    /\ ensure_quota(s, h, MaxOf(s.objects[h].len, offset + Len(input)))

Write(s, h, offset, input) ==
    LET end == offset + Len(input) IN
    WithObject(s, h,
        [len  |-> MaxOf(s.objects[h].len, end),
         data |-> [i \in 1..MaxObjectBytes |->
                      IF i > offset /\ i <= end THEN input[i - offset]
                                                ELSE s.objects[h].data[i]]])

CanTruncate(s, h, len) ==
    /\ len <= MaxObjectBytes
    /\ h \in Live(s)
    /\ ensure_quota(s, h, len)

\* Mutant: the bytes cut off stayed in the slot.
TruncateKeepsBytes(s, h, len) == WithObject(s, h, [s.objects[h] EXCEPT !.len = len])

\* The bytes between the old and the new length are zeroed either way.
Truncate(s, h, len) ==
    LET old == s.objects[h].len IN
    WithObject(s, h,
        [len  |-> len,
         data |-> [i \in 1..MaxObjectBytes |->
                      IF (i > len /\ i <= old) \/ (i > old /\ i <= len)
                      THEN 0 ELSE s.objects[h].data[i]]])

Delete(s, h) ==
    [s EXCEPT !.objects = [k \in Live(s) \ {h} |-> @[k]],
              !.namespaces = [n \in {m \in DOMAIN @ : @[m] # h} |-> @[n]]]

CanBind(s, n, h) ==
    /\ h \in Live(s)
    /\ n \in DOMAIN s.namespaces \/ Cardinality(DOMAIN s.namespaces) < MaxNames

Bind(s, n, h) ==
    [s EXCEPT !.namespaces = [m \in DOMAIN @ \cup {n} |-> IF m = n THEN h ELSE @[m]]]

CanApply(s, o) ==
    CASE o.op = "create"   -> CanCreate(s, o.handle)
      [] o.op = "write"    -> CanWrite(s, o.handle, o.offset, o.input)
      [] o.op = "truncate" -> CanTruncate(s, o.handle, o.len)
      [] o.op = "delete"   -> o.handle \in Live(s)
      [] o.op = "bind"     -> CanBind(s, o.name, o.handle)

Apply(s, o) ==
    CASE o.op = "create"   -> Create(s, o.handle)
      [] o.op = "write"    -> Write(s, o.handle, o.offset, o.input)
      [] o.op = "truncate" -> Truncate(s, o.handle, o.len)
      [] o.op = "delete"   -> Delete(s, o.handle)
      [] o.op = "bind"     -> Bind(s, o.name, o.handle)

-----------------------------------------------------------------------------
(* The snapshot slots, and what a transaction's commit makes.              *)

\* A slot is None or [nonce, state]; the set's own counter gives the nonce.
NoSnapshots == [slots |-> [i \in 1..MaxSnapshots |-> None], next_nonce |-> 1]

FreeSlots(set) == {i \in 1..MaxSnapshots : set.slots[i] = None}

CanCapture(set) == FreeSlots(set) # {} /\ set.next_nonce < MaxNonce

Capture(set, s) ==
    LET first == CHOOSE i \in FreeSlots(set) : \A j \in FreeSlots(set) : i <= j IN
    [slots |-> [set.slots EXCEPT ![first] = [nonce |-> set.next_nonce, state |-> s]],
     next_nonce |-> set.next_nonce + 1]

Reclaim(set, retain_from) ==
    [set EXCEPT !.slots = [i \in 1..MaxSnapshots |->
        IF @[i] # None /\ @[i].state.generation < retain_from THEN None ELSE @[i]]]

Captured(set) == {set.slots[i] : i \in 1..MaxSnapshots} \ {None}

CanAdvance(s) == s.generation < MaxGeneration

Candidate(s) == [s EXCEPT !.generation = @ + 1]

-----------------------------------------------------------------------------
(* What a state must satisfy wherever a store keeps one.                   *)

HandlesIssued(s) == \A h \in Live(s) : h < s.next_object

NamesResolve(s) == \A n \in DOMAIN s.namespaces : s.namespaces[n] \in Live(s)

\* Nothing a later extension would expose lies beyond an object's length.
ZeroTail(s) ==
    \A h \in Live(s), i \in 1..MaxObjectBytes :
        i > s.objects[h].len => s.objects[h].data[i] = 0

ReserveKept(s) == used_bytes(s) + RecoveryReserveBytes <= QuotaBytes
=============================================================================
